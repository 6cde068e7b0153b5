# A TLA+ verification of Jabali Panel

Jabali Panel is a web-hosting control panel written in Go. This directory holds
TLA+ specifications of its stateful core, the TLC configurations that check
them on small instances, and TLAPS proofs of the properties that matter most.
`PROJECT.json` lists, for every definition, the source lines it stands for.

Contents: 1 the system · 2 modules and their correspondence with the code ·
3 runs · 4 bounds · 5 fairness · 6 proofs · 7 what is only model-checked ·
8 behaviour met on the way · 9 what is not modelled · 10 plan · 11 how to run it

## 1. The system and its parts

Two processes and two stores:

* **panel-api** (user `jabali`): the REST API and a set of long-lived goroutines
  in the same process: audit consumer, notification dispatcher, backup
  scheduler, backup finalizer, reconciler, event sources. The command line tool
  (`jabali ...`) is the same binary run as a second, short-lived process
  against the same database.
* **panel-agent** (root): a unix-socket server that executes one command per
  connection (`agentwire`). A backup is started and answered at once; the work
  then runs on in the agent. A restore is answered when it is done.
* **MariaDB** is the source of truth for the desired state; the reconciler
  converges the host to it.
* **Redis** carries two streams, `jabali:notifications:queue` and
  `jabali:audit:queue`, and a replay cache.

| component | state | operations | hard because | correct when |
|---|---|---|---|---|
| audit log (`internal/audit`, `cmd/server/audit_cmd.go`) | stream, pending list, `audit_events` with a hash chain | Record, publish, fallback insert, seal, sweep, verify, prune | detached goroutines, Redis or database down, restart between two calls | one row per event, a failure costs at most one, sealed rows never change, an untouched chain verifies |
| backup jobs (`backupscheduler`, `backupfinalizer`, `api/backups.go`, agent `backup.*`) | `backup_jobs`, `backup_schedules`, job slots in the agent's memory, restic snapshots | enqueue, dispatch, create, restore, finalise, stall check | four writers of one row, asynchronous work, deadlines, restarts of either process | one backup per user and repository (the default one has two names), a row tells the truth, closed rows stay closed, open ones get closed |
| notifications (`internal/notifications`, `api/notifications_*.go`) | stream, pending list, dead-letter stream, channels, failure counters | publish, consume, fan out, reclaim, trip the breaker, replay and drop dead letters, edit channels | at-least-once queue, idle times, stale copies of channel rows | nothing is lost without a trace, dead letters can be replayed, everything leaves the queue |
| migrations (`internal/migrate`, `api/admin_migrations.go`, `migrate_*_cmd.go`) | `migration_jobs`, stage rows, a file of credentials per job | draft, submit, pull, run stages, fail, retry, cancel, destroy, reap | requests, units and shells write one row without a lock; a stage dies in the middle | no stage is passed over, no job claims to be at work for ever, no credentials outlive it |
| certificates (`reconciler.go`, `api/ssl.go`, agent `ssl.*`) | `ssl_certificates`, certbot's files, the vhost's certificate | issue, renew, retry, fall back to self-signed, revoke, the switches | two goroutines and the requests write one row from copies that are minutes old | every row settles, HTTPS comes up, a switched-off certificate is revoked, a row names the files it speaks of |
| hosted sites (`reconciler.go`, `api/domains.go`, `bandwidth_quota_enforce.go`) | `domains`, vhosts, zones, the queue of single-domain passes | create, edit, delete, suspend, quota, full and single passes, teardown | two passes and a teardown at once, a queue that drops | the host follows the rows in the end |
| managed runtimes and port allocator (`reconciler.go`, `services/port_allocator.go`) | `runtime_services`, units, reservations and guards in memory | visit, allocate, deploy, apply, probe, edit | deploys of minutes in goroutines, guards that must be given back | one converge at a time, nothing is leaked, what was asked for is deployed, a crash is noticed |
| applications (`api/applications*.go`, `api/wordpress.go`, `wordpress_reconcile.go`) | `application_installs`, a database of five parts each, files | install, clone, scan, two ways to delete, sweep, drift probe | compensation, asynchronous work, races on a slot | no database without a keeper except where the code cuts it off, no status that stays wrong |
| SSO tokens (`internal/sso`) | one-time tokens, shadow accounts | mint, consume, purge, rotate | single use under concurrency | a token is used once, before it expires |
| automation API (`middleware/automation_hmac.go`) | replay cache | verify and remember a signature | clock skew against cache lifetime | a signature is accepted once |
| users, databases (`userops`, `dbops`) | rows and host accounts | create and delete with compensation | one of several steps fails | no half-created account remains unnoticed |
| event sources (`eventsources`) | cool-downs in memory | read the host, publish | restart forgets the cool-down | see the notifications |
| agent RPC, DNS compilation, cron jobs, mail ingest, web interface, installer | little or none of their own | text generation, parsing, provisioning | - | left to unit tests |

The parts meet in three places. Every handler and goroutine may **record** an
audit event and **publish** a notification; both are fire-and-forget, so the
queues must not lose what the caller no longer looks at. Handlers and
goroutines **call the agent** with a deadline; what the agent does after the
deadline is invisible to them except through the repositories and the host. And
all writers share **rows** in MariaDB which they read once and write later,
nearly always without a transaction across the two.

## 2. Modules and their correspondence with the code

| module | what it is |
|---|---|
| `AuditChain` | the audit log |
| `MCAuditChain` | its instances, and two statements of the documents that fail |
| `AuditChain_proofs` | theorems about `AuditChain` |
| `BackupPipeline` | backup jobs: API, scheduler, finalizer, agent |
| `BackupLedger` | what the table of backup jobs promises; `BackupPipeline` implements it |
| `MCBackupPipeline` | instances of the pipeline |
| `BackupPipeline_proofs` | theorems about `BackupPipeline`, the refinement among them |
| `NotifyDispatch`, `MCNotifyDispatch` | the notification dispatcher and its administration; its instances and a comment's statement that fails |
| `MigrationJob`, `MCMigrationJob` | account migrations; a comment's statement that fails |
| `Certificates` | the TLS certificate of a hosted domain |
| `DomainSites` | rows of domains, vhosts, zones and the reconciler's passes |
| `RuntimeServices` | managed runtimes, their units, and the port allocator |
| `AppInstalls`, `MCAppInstalls` | installed applications and their databases; its instance |
| `NotifyDispatch_proofs`, `MigrationJob_proofs`, `Certificates_proofs`, `DomainSites_proofs`, `RuntimeServices_proofs`, `AppInstalls_proofs` | theorems about these six |

`Certificates`, `DomainSites` and `RuntimeServices` are three views of one
reconciler. They share no variable that two of them write: the first keeps the
certificate and its path in the vhost, the second whether a vhost exists and is
served, the third the unit behind it.

An action is what one process does between two points where another can see or
disturb it: a database statement, a Redis command or pipeline, an agent call, a
send. A definition whose name ends in `_Something` next to the one it is named
after is a plausible wrong version of it. Nothing uses these variants; they
show, one at a time in place of the original, that the properties can fail.

### AuditChain

*State.* `rec` is the progress of the goroutine that `Recorder.Record` starts
for an event; `stream`, `pel`, `group` and `missed` are the Redis stream and its
consumer group; `rows` is `audit_events`; `pc`, `cur`, `prev` and `batch` are
the consumer's position and local variables; `cli` is the prune command.
`disorder` and `pruned` are history variables: a row was sealed below a sealed
one, a sealed row was pruned. `missed` are entries older than the group, which
is made at `$`. `Held(id)` says where an event is safe; the pending list is no
such place, because nothing reads it again.

*Actions.* `Record`, `PublishOk`, `PublishErr` (the entry may have been added
although an error came back; a hanging Redis uses up the context the fallback
shares), `FallbackCreate`, `FallbackErr`; the consumer's `EnsureGroup`, the
sweep (`SweepList`, `SweepHead`, `SetHashes`, `SweepDone`), `ReadMessage`,
`ReadIdle`, `Seal`, `Create`, `Ack`; `Crash`, `PruneDelete`, `PruneRecord`.

*Abstraction.* An event is its id and its time. The time is kept as the code
keeps it: the microseconds the `DATETIME(6)` column stores and the rest, which
only the in-memory event and the hash see. A hash is the tuple of its inputs,
so two hashes are equal exactly when their inputs are.

### BackupPipeline

*State.* `status`, `target` and `started` are the columns of `backup_jobs` that
decide anything, `due` is whether the schedule's `next_run_at` has passed; `pc`
and `cur` are what an API handler or a ticker is doing, and for which row; `fan`
and `todo` are a ticker's fan-out and the queued rows it read; `wire` holds calls
the agent has not served yet, *which stay there when their caller has given up*;
`slot` and `orch` are the agent's `jobSlot` map and its goroutines; `manifest`
is what restic holds; `finList` and `finOld` are the finalizer's copies.

*Actions.* Handlers: `Request`, `RestoreMarkStarted`, `HandlerCall`,
`HandlerDone`, `HandlerGone` (the browser disconnects: the handler's later
writes run under a cancelled context). Tickers, the daemon's and the
`backup scheduler tick` command's: `TickEnqueue`, `EnqueueOne`, `MarkRan`,
`TickDispatch`, `DispatchSkip`, `DispatchRefused`, `DispatchCall`,
`DispatchDone`, `TickEnd`, `WriteLost`. Agent: `BackupCreate`,
`BackupConflict`, `SystemBackup`, `RestoreBegin`, `RestoreRefused`,
`RestoreDone`, `WriteManifest`, `OrchestratorExit`, `AgentRestart`, and
`Timeout` for the deadline of a call. Finalizer: `FinalizerTick`, `Finalize`,
`Stalled`, `StillRunning`, `FinalizerFails` (the status call fails, its answer is
malformed or the write fails; nothing is written and the next tick tries again).
`Age` is the passing of `StallTimeout`;
`PanelRestart` restarts everything in the panel process but not the tick
command.

*Abstraction.* A row's id is its place in the order of `created_at`. Time is
what the code compares: a start is recent or old, a schedule is due or not.
`Key(j)` is jobSlot's key, the URL as it was sent; `Repository(j)` is where restic
writes. They differ for a job without destination: its key is the empty URL, its
repository the default one, which is also that of the destination `LocalDest`. The
stages of a backup are one goroutine that may write the manifest and ends.

### NotifyDispatch

*State.* `stream`, `group`, `last`, `pel` and `idle` are the Redis stream, the id
the group was made at (or that there is none yet), its last-delivered id, the
pending entries with their delivery count, and which of them have been idle for
`ReclaimMinIdle`; `dlq` is the dead-letter stream. `phase` is how far
`Dispatcher.Start` came: the group is not ensured yet, both loops run, the
consumer loop has given up (`deaf`), or there is no loop (`dead`).
`batch`, `cur`, `stage` and `fan` belong to the consumer goroutine: what it
read, the entry it processes, how far it is, and where each goroutine of the
fan-out stands. `listed` and `moving` are the reclaim goroutine's copy of
XPENDING and the row it is about to move. `row` and `failures` are
`notification_channels` and `webhook_endpoints`; `patch` and `replay` are edits
and replays in hand. `tried`, `sent`, `done`, `refused` and `dead` are history;
`refused` are the entries acknowledged although a channel refused them for good.

*Actions.* `Publish`, `EnsureGroup`, `Read`, `ReadGivesUp`, `ProcessMalformed`,
`ProcessMuted`, `Pass`, `ResolveFails`, `NoTargets`, `FanOut`, `SendRefused`,
`SendOk`, `SendFails`, `BreakerHolds`, `BreakerTrips`, `TripBreaker`,
`FanOutEnds`; `Pending`, `Claim`, `RangeOne`, `MoveToDLQ`; `PatchRead`,
`PatchWrite`, `DeleteChannel`, `ReplayRead`, `ReplayOne`, `Drop`; `TimePasses`,
`PanelRestart`. `Try(A, Skip)` is a call of which the code only logs the error.

*Abstraction.* An envelope is its explicit channels and whether it is
malformed, of a muted kind, or neither. Redis is what the code uses of it. The
fan-out's semaphore is left out: any order of the sends is a behaviour.

### BackupLedger

*State.* A row's phase, the rows that ask for a restore, those whose work the
agent has begun, those with a complete snapshot. *Mapping* (end of
`BackupPipeline`): `phase` folds the row's status (succeeded is good; failed,
skipped and the like are bad), `begun` is `accepted`, `kept` is `manifest`. A row
may change its verdict after it was closed (a late answer writes over a stall),
which the ledger allows, as the table's readers must.

### MigrationJob

*State.* `state`, `named` and `stage` are the columns of `migration_jobs` and
`migration_stages`; `secret` the jobs with a file of source credentials; `req` a
request that has passed its check and has yet to act; `pull` and `imp` the pull
unit and the imports, each import with the copy of the row it read when it began;
`reap` the rows the reaper has read. `ever` and `lost` are history.

*Actions.* Requests: `Create`, `BulkCreate`, `PatchDraft`, `Admit` (the check),
then `Cancel`, `CancelBatch`, `Destroy`, `UploadSecrets`, `CloneSecret`,
`Submit`, `PullSourceRun`, `ImportRun`, `Retry`, or `Drop` when the caller goes
away. Units: `PullBegin`, `PullWork`, `PullKick`, `PullFailed`, `PullDies`.
Imports: `StartShell`, `Load`, `Skip`, `Refuse`, `Enter`, `Work`, `Finish`,
`Clean` and their failures, `Die`. Reaper: `ReapList`, `ReapSecret`, `ReapDrafts`.

*Abstraction.* A stage is done or failed; what it does to the target account is
left out. A wipe by the panel's own user may fail for want of permission
(`PanelWipe`).

### Certificates

*State.* `dom` is the domain's SSL switch and whether it has extra names; `cert`
the row; `ca` what the authority and certbot hold; `site` the certificate of the
vhost; `retries` the list the retry ticker has read and works through, of at most
`RetryBatch` rows; `work` the two goroutines that run the reconciler's SSL code
(its loop and the inline attempt of POST /domains) with their copies; `req` the
request served.

*Actions.* `LoopVisits`, `ListDueForACMERetry`, `LoopRetries`,
`reconcileSSLForDomain`, `CreateRow`, the four agent calls with their failures
(`Issued`, `Unparseable`, `SelfSigned`, `Renewed`, `Revoked`, ...),
`InlineTimesOut`, `Write`, `createDomainOnAgent`; the requests `create`,
`InlineEmail`, and `Begin` with its writes `WriteRow`, `WriteStatus`, `WriteCert`;
`RetryTimePasses`, `Restart`.

*Abstraction.* Times are null, later or due; a retry count is zero or not; a path
is none, the self-signed pair or certbot's.

### DomainSites

*State.* `row` is table `domains` (`is_enabled`, `is_quota_suspended`);
`suspended` and `usage` are the owner's; `file` and `live` are the vhost on disk
and what nginx runs with, `owed` remembers that a vhost changed and no reload has
succeeded since; `zrow` is table `dns_zones`, `zone` what PowerDNS serves; `queue`
the reconciler's channel; `pass` its passes (the loop's and POST /reconcile's)
with the copies they hold; `tear` the goroutines of deleted domains; `req`
requests between read and write.

*Actions.* `ReconcileAll`, `QuotaWrite`, `ListSites`, `ListRows`, `ReconcileOne`,
`ReconcileAllForce`, `FindZone`, `BumpSerial`, `PushZone`, `createDomainOnAgent`;
`DeleteVhost`, `DeleteZone`; `create`, `createInsert`, `update`, `updateWrite`,
`updateZone`, `updateZoneWrite`, `delete`, `suspend`, `suspendBulk`;
`UsageChanges`, `Restart`. A disabled zone is read and not pushed (`FindZone`).

### RuntimeServices

*State.* `dom` (is the runtime managed, is the domain on), `svc` the rows, `unit`
the systemd units, `reserved` the allocator's map, `inflight` the guard, `visit`
calls of `reconcileRuntimeService`, `conv` goroutines of `dispatchRuntimeConverge`,
`left` the calls the agent goes on with when the panel that sent them restarted.
`overwritten` is history: a pending row was written over by somebody who worked
with older settings.

*Actions.* `Visit`, `FindRow`, `RemoveUnit`, `DeleteRow`, `Allocate`, `CreateRow`,
`Decide`, `Dispatch`, `Heal`, `Monitor` and, after the call for the log,
`MarkCrashed`; `MarkDeploying`, `Deploy`, `Apply`, `ConvergeFailed`,
`Refetch`, `SaveConverged`; `updateDomain`, `getRuntimeService`, `getCreate`,
`updateRuntimeService`, `updateSave`; `UnitCrashes`, `UnitRecovers`, `Restart`,
`AgentGoesOn`.

*Abstraction.* A revision stands for the settings of a row; a unit carries the
revision it was deployed with. `Update` is
GORM's Save, which inserts a row that has gone.

### AppInstalls

*State.* `doms` the domains that have a row; `inst` the install rows; `parts` what
exists of the database made for each (three rows, a schema, an account); `files`
which applications lie where; `ready` the ready rows in the order of `updated_at`;
`job` the request and then the goroutine that makes an install; `del` and `dbdel`
the deletes under way; `pass` the reconciler's sweep and probe. `adrift` is
history: installs whose database was cut off from the row or process that kept it.

*Actions.* `RequestInstall`, `RequestClone`, `ChainStep`, `UndoStep`, `InsertRow`,
`HandlerGone`; `Mark`, `AgentInstall`, `CloneLookup`, `AgentClone`, `WriteStatus`;
`Scan`; `ApiDelete`, `ApiResolve`, `CliDelete`, `CliMark`, `AgentDelete`,
`CleanStep`; `DbDelete`, `DbDeleteStep`; `DeleteDomain` with the cascade of the
foreign key; `SweepList`, `SweepOne`, `ProbeList`,
`ProbeOne`; `Restart`, `OwnerEdits`.

*Abstraction.* An application's files are there or not. A call whose caller gave
up has had its effect or none by then. At most one delete of each kind works on
an install at a time. A domain created again under an old name is another id, so
a deleted one stays deleted.

## 3. Runs

Passing runs:

| run | instance | shows |
|---|---|---|
| `audit` | 3 events, one of them folded in by migration 138; one failed call, one restart, pruning | `OneRowPerEvent`, `VerifyBreaksOnlyForCause`, `NothingVanishes` (each failure costs at most one event), `SealedRowsAppendOnly`, and `UnsealedEventuallySealed`: rows inserted without hashes are sealed in the end |
| `backup` | one user, the local destination and none, account backups, a restore and a scheduled system backup, one handler, the daemon, a finalizer's page of one, one fault | `OneWorkerPerSlot`, `SlotNamesLiveWork`, `SucceededHasManifest`, `RunningWasAccepted`, `CapRespected`, `ClosedStaysClosed`, and `EveryBackupCloses`, which names the rows nobody closes |
| `notify` | no group or one that was kept, two entries of any form, one channel, an edit or deletion of it, a replay, one fault | `Accounted`, `ReplayHasPayload`, and `EverySettles`: the queue empties, also when the process that read an entry is gone |
| `migrate_safety` | one job, two requests at once, the unit and a shell, one death or database error | `DoneMeansEveryStageRan`, `InFlightHasRunner`, `DeletedStaysDeleted`, `FinishedJobLosesSecret` |
| `certs` | one domain, two requests, two failed calls, time-outs or restarts | `IssuedHasItsPath`, `CertificateSettles`, `DisabledIsRevoked`, `HttpsComesUp` |
| `sites_live` | one domain and two clients, a queue of one, four requests, one fault | `HostFollowsRows`, `QuotaSettles` |
| `runtime_live` | one domain, both visitors, two converge goroutines, two requests, one fault | `OneConverge`, `ReservationsEnd`, `PendingIsDeployed`, `CrashIsNoticed` |
| `apps_live` | two domains, two installs, the delete of an install, a database or a domain, one fault | `DatabasesAreOwned`, `StatusSettles` |

Several properties say what the code does where a comment or a document says
something stronger: the difference is an exception in the formula, named in the
property's comment, and a finding in `PROJECT.json` quotes the document. These are
`UnsealedEventuallySealed` (folded-in rows are sealed), `OneWorkerPerSlot` (the
default repository has two names), `EveryBackupCloses` (the finalizer's page,
restores), `Accounted` (permanent refusals), `EverySettles` (a dispatcher without
loops), `DisabledIsRevoked` (DELETE /domains/:id/ssl), `HostFollowsRows` (a failed
reload), `QuotaSettles` (rows disabled by hand), `PendingIsDeployed` (an edit
during a deploy) and `StatusSettles` (more ready rows than a batch).

Runs in which TLC refutes what a comment or a document says; each has a finding
in `PROJECT.json`:

| run | statement | what the code does |
|---|---|---|
| `audit_precision` | runbook m49: a broken chain means that a sealed row changed after sealing | the hash signs nanoseconds, the column keeps microseconds, so an untouched row breaks |
| `audit_redelivery` | `consumer.go:128`: a message that was not acknowledged is redelivered | the consumer reads only `>` and nothing claims the pending list: after one failed insert the event never has a row |
| `notify_reclaim` | `dispatcher.go:246`, ADR-0056: a claimed entry is processed again | a claimed entry is not handed out by `>`; it is claimed until its count is used up and goes to the dead-letter stream |
| `migrate_resume` | `runner.go:58`: the first failed or pending stage is the resume point | the transition table lets a failed or pending job go to analyzing only; a job that failed after that stage is refused |

Deadlock checking is off everywhere: every instance bounds the number of events,
rows or entries, after which the system is legitimately at rest.

## 4. Bounds, and why they are enough

* `MaxFaults`, `MaxCrashes`: how often a call fails or a process restarts. One is
  enough for "fails between two steps"; certificates have two, so that a failed
  issue can be followed by a restart.
* `Ids`, `MaxJobs`, `MaxEntries`: 2 or 3, and 1 where one entry is all the
  property needs. Two rows give a conflict on a slot, an order in the chain or a
  row that is off the finalizer's page (`Window = 1 < MaxJobs`); the third audit
  event gives a row between two others.
* `MaxConcurrent`, `Window`, `BatchSize`, `SweepLimit`, `MaxRetries`,
  `BreakerLimit`: far larger in production; each is set to
  the smallest value at which the limit is reached *and* can be exceeded.
  `RetryBatch` is the exception: with one domain the limit of the retry list is
  never exceeded, and only the proofs speak of more.
* `MaxClock`, `Retention`: two instants, so that rows may share a timestamp,
  differ, and be old enough to prune.
* `MaxAsked`, `MaxDeletes`: requests and commands. Two requests give the reader
  and the writer of a stale copy, three in `migrate_safety` a cancel or destroy
  under a run that a retry begins again, four in `sites_live` a domain created,
  deleted and created again under a pass.
* One domain where the property is about one domain's writers; `AppInstalls` has
  two, and the subdirectories `root` and `blog`, since a clone reaches from one to
  the other. Installs are asked for at one document root, so that they collide.
  `MaxDeletes = 1` is shared by installs, databases and domains: an install's
  delete racing its domain's is covered by the proof of `DatabasesAreOwned` only.
* `QueueCap = 1`, `ProbeBatch = 1`, `Ports` and `Slots` of two: reached and
  exceeded (a second deploy must have a place to run for `OneConverge` to fail).
* `MaxPatches`: one edit or deletion of a channel while a send is in progress.

The proofs of section 6 have none of these bounds. There is no symmetry
reduction: it is not sound for liveness, which every larger run checks.

## 5. Fairness

Fairness is stated only for goroutines that loop for ever and for time.

* `AuditChain`: weak fairness of the consumer loop and of each recording
  goroutine. Not of `Tick`, the operator's commands, or faults. A consumer
  whose `EnsureGroup` failed returns (`pc = "dead"`); the property says so. The
  sweep runs when the stream is idle, and the instance has finitely many events:
  a stream that is never idle starves the sweep, which the run does not show.
* `BackupPipeline`: weak fairness of the daemon's ticker and of the finalizer
  (both are `for { select { <-ticker.C } }` loops), of a handler's remaining
  steps, of the agent serving a call, of a goroutine ending (each runs under
  its own timeout) and of time. Nobody is obliged to send a request, to let a
  schedule come due, or to fail.
* `NotifyDispatch`: weak fairness of `EnsureGroup` (the call returns, with or
  without success), of the consumer goroutine as a whole, of the reclaim goroutine
  as a whole and of the passing of idle time. A loop that was not started or has
  given up has no enabled step, so nothing is assumed of it. Sends end because
  senders have timeouts.
* `MigrationJob`: weak fairness of the reaper, which a persistent timer starts.
  Nothing is assumed of imports, units or requests.
* `Certificates`, `DomainSites`, `RuntimeServices`: weak fairness of a goroutine,
  a request, a teardown or a pass that has begun (each call has a deadline), and
  strong fairness of the reconciler's beginning a visit: the ticker's channel is
  chosen by `select` again and again, and the loop is busy in between, which
  disables the action. The retry ticker's list is strongly fair to each row that is
  due: the ten oldest come first, and a row that was tried is due again only hours
  later. In `RuntimeServices` only the
  visits of enabled domains are fair (a disabled one is visited while it has a
  vhost, which that module does not have), and nothing is assumed of an agent that
  goes on after a restart. The reconciler's pause flag is taken to be off.
* `AppInstalls`: weak fairness of goroutines, deletes and the pass, and strong
  fairness of `SweepList(n)`: a row that stays in progress is past its timeout at
  some pass. Nothing is assumed of users, of systemd, or of owners' edits.

## 6. What is proved

Every safety property that a passing run checks, for every value of the constants,
and three more that no run needs: the refinement `LedgerKept`, `DeliveredAtMostOnce`
and `IdsNameOneDomain`. The assumptions are
those the modules state of their constants (bounds are natural numbers, the
requested targets and slots are among the existing ones, markers such as
`NoRow` are not rows); one theorem, `CapAlwaysRespected`, assumes more, and says
so. The statements proved about rows that are read once and written later share
one pattern. The property alone is not inductive, because it says nothing of the
copies in flight; `IInv` says what each process holds at each of its steps. It
was checked with TLC on the runs' instances before it was proved. Each
module first has lemmas on the shape of the copies (the step a process has
reached tells which copies it holds), then one case per action.

### The audit log

`AuditChain_proofs`, for every set of ids, sub-microsecond parts, retention,
clock and bound on faults and restarts, from `AuditAssumption` alone:
`TypeCorrect`, `OneRow`, `ChainVerifies`, `NothingVanishesEver`, `AppendOnly`.

*Argument.* `VerifyBreaksOnlyForCause` is not inductive: it does not know that
the head the consumer read is still the head when it writes. `IInv` adds
`HeadFresh` (between reading the head and writing the row, `prev` is the hash of
the latest sealed row: there is one sealer, and the recorder only inserts
unsealed rows), `HasHead` (the sealed rows have a greatest one), and that every
id the system holds has been recorded (`Started`, `RowTimes`), which makes the
primary key protect the row. `LatestIsHead` and `SealExtendsChain` are the two
facts about the order: the greatest row is what `ORDER BY ts DESC, id DESC`
returns, and a row sealed above it leaves the predecessors of all others alone.
`NothingVanishes` counts: `Vanished` grows by at most one event in a step
(`VanishStep`), and only in a step that spends a failed call or a restart. An
event that is held stays held unless it is struck (`HeldStep`, `Struck`), and a
goroutine that ends leaves its event held unless a call failed (`EndsHeld`).

### Backup jobs

`BackupPipeline_proofs`, for any number of users, destinations, handlers,
tickers, rows and faults, from `ConstantsAssumption` alone: `TypeCorrect`,
`OneWorker`, `NoOrphanedSlot`, `SucceededIsTrue`, `RunningIsTrue`,
`ClosedForGood`, all from `Invariance` (`Spec => []IInv`). Here the tick command
runs beside the daemon, which the small instance leaves out.

*Argument.* Every process holds ids of rows that exist (`CallerRefs`, `ListRefs`),
so an insert never changes the target, and with it the slot key, of a job somebody
works on. Keys are exclusive because work and slot name each other (`Slots`): the
slot of a live account goroutine names it, and a taken slot names a live
goroutine. Two jobs of one user with different keys are in one repository only as
the pair without destination and with `LocalDest`, which is the exception
`OneWorker` states. That `running` and `succeeded` are true rests on what the
unused answers say (`Answers`): "ok" was given for an accepted job, and
"succeeded" is only ever the answer to a restore. `RowStep` and `WorkStep`
classify all steps by what they do to the table and to the agent's memory;
`CallStep` and `ListStep` go through the actions for the callers and the lists
they hold.

`LedgerKept` is the refinement `Spec => KeepsLedger` for every value of the
constants: the initial states map to the ledger's, and each step to `Open`,
`Begin`, `Keep`, `Start`, `Close` or a stutter. The classification of `RowStep`
and `WorkStep` is reused; `IInv` supplies the guards (`Start` needs that the
answer "ok" was given for an accepted job, `Close` with a good verdict that the
finalizer saw a manifest, or that the row is a restore).

`CapAlwaysRespected` assumes `Tickers = {Daemon}`: a tick command that runs beside
the daemon counts and dispatches on its own, and the two together may exceed the
cap. *Argument.* `CapInv` bounds more than the property: the dispatched rows that
run, *and* the rows still on the tick's list, *and* the row whose call is under
way. Between two ticks this set only shrinks (`CountedStep`): a row moves from
the list to the call to the dispatched ones, and no row that was dispatched is
started again, since `MarkStarted` asks for status queued. A tick begins with an
empty list and takes at most `MaxConcurrent` minus all running rows
(`TickReads`). `LimitKept` is the fact about `ListQueuedOldest`: of the rows with
fewer than n queued rows before them there are at most n. It needs a greatest
element, which the well-foundedness of the natural numbers gives without an
induction (`Greatest`).

### Notifications

`NotifyDispatch_proofs`, for any channels, envelopes, operators, batch size, retry
and breaker limits and bounds, and whether or not the group exists at the start:
`TypeCorrect`, `NothingIsLost`, `PayloadForReplay`, `DeliveredAtMostOnce`.
*Argument.* At most once: an entry above the group's
last-delivered id has been handed to nobody, one in the consumer's batch has not
been begun, and a channel whose send is still to do does not have it (`History`);
the reclaim loop raises delivery counts but puts nothing back into a batch. No
loss: a pending entry is still in the stream (`Queue`); a read takes the oldest
entries, so moving last-delivered to the newest of them passes none over
(`OldestFirst`, `ReadTakesAll`). That counts stay within `MaxRetries` needs that
XPENDING's copy has one line per entry, and that its count is at least the
entry's (`Reclaim`). A dead letter lost its payload only if its entry was finished:
an entry leaves the stream when it is acknowledged or moved (`StreamLeft`), and the
reclaim loop moves an entry once (`DeadLetters`). `NothingIsLost` is about entries
younger than the group; those added before `EnsureGroup` are named in its formula.

### Migrations

`MigrationJob_proofs`, for any jobs, handlers, shells and bounds: `TypeCorrect`,
`DoneIsEarned`, `InFlightIsAttended`, `DeletedForGood` (an action property).
*Argument.* An import passes a stage only after running it or after reading a row
that says done, and such rows are true (`RowsAreTrue`, `PassedStagesRan`, in terms
of the history `ever`, since a retry may reset the row under the import).
`InFlightHasRunner` is not inductive, because some imports end without writing:
the one that accounts for the job has not read the row yet, or read it in flight
(`Answers`, `InFlightIsAnswered`), and writes failed or done when it ends.

### Certificates

`Certificates_proofs`, for any domains and bounds: `TypeCorrect`, `IssuedIsNamed`.
*Argument.* A row once made is never removed, so whoever has seen it may write it
at any later time (`Works`, `ReqOn`); issued is only written together with
certbot's path, and the one status a request writes back from its copy (the retry)
is never issued (`ReqCopies`). A row on the retry list exists (`Listed`).

### Hosted sites

`DomainSites_proofs`, for any domains, clients and bounds: `TypeCorrect`, which
includes the capacity of the queue, and `IdsNameOneDomain`. *Argument.* Ids are
handed out once. `Known`, the copies whose id is no other domain's, changes with
the table, but no copy ever leaves it, whatever is deleted and created again: so
`UPDATE ... WHERE id = ?` with a stale copy writes its own domain's row or none.
The rows of zones keep their type by a separate induction (`ZonesKept`).

### Managed runtimes

`RuntimeServices_proofs`, for any domains, ports, goroutines and bounds:
`TypeCorrect`, `OneConvergeAlways`, `ReservationsAlwaysEnd`. *Argument.* Guard and
goroutine name each other (`GuardHeld`), so the guard a goroutine gives back is
never one another relies on; two visits that hold a reservation hold different
ports (`OwnPorts`), so the port a visit releases is its own. `OneConvergeAlways` is
about the panel's goroutines: what the agent goes on with after a restart
(`Aftermath`) may run beside a new converge.

### Applications

`AppInstalls_proofs`, for any domains, subdirectories, types and bounds:
`TypeCorrect`, `DatabasesAlwaysOwned`. *Argument.* Until its row is inserted, an
install is nobody's but its request's (`Alone`), whose compensation ends with the
database's row (`JobShape`). From then on the install row keeps the database, and
who takes the row away goes on to the database (`Kept`), unless the row names
none: only a row made by the scan does, and it never had one (`Unmade`). What is
cut off on the way is in `adrift`, which only grows: a caller that goes away, a
restart, the failed delete of the database's own row, and the cascade of a deleted
domain (`DeleteDomainIInv`). Any other failure in the middle of a delete or of a
compensation is covered: the steps go on to the database. That the list of ready
rows names each once is part of `IInv` (`RowsOK`).

The proof attempt showed one mistake in the model: the alternatives in `Undo`,
the list of compensating steps, overlapped, so that TLA+ left open which applied
although TLC took the first. They are exclusive now, as in the code.

## 7. What is only model-checked

* Liveness (`UnsealedEventuallySealed`, `EveryBackupCloses`, `EverySettles`,
  `FinishedJobLosesSecret`, `CertificateSettles`, `DisabledIsRevoked`,
  `HttpsComesUp`, `HostFollowsRows`, `QuotaSettles`, `PendingIsDeployed`,
  `CrashIsNoticed`, `StatusSettles`): the prover has no rules for fairness.
* The four statements that fail, `UntouchedChainVerifies`, `UnackedIsRedelivered`,
  `ReclaimedIsProcessedAgain` and `ResumePointIsReached`: a counterexample is all
  there is to show.
* That a wrong version of a definition breaks a property.

## 8. Behaviour met on the way

Where a comment or a document says otherwise there is a finding (section 3 lists
them). The models also take these steps, of which no document says otherwise;
they are noted here and in the hazards.

Audit log: a fallback row may be sealed after a younger one, and verification
then rejects the chain (`disorder`); pruning takes away the predecessor of the
oldest row that is left (`pruned`); a Redis that hangs uses up the context the
fallback shares, and the event is lost with a log line.

Backups: the dispatcher closes a row as skipped because of "prior" work that is
the row's own, sent by the handler that created it (`scheduler.go:438`);
`system.backup` takes no slot, so a row dispatched twice is backed up twice at
once; a restore whose handler went away before it started stays queued at the
head of the dispatcher's list; work is lost when the agent restarts, and its row
stays running until the stall check (ADR-0075 has the work in transient systemd
units that survive the restart; the code runs it in a goroutine of the agent); a
system backup may run for six hours but is failed after four; a failed `MarkRan`
repeats a fan-out; the tick command does not share any memory with the daemon,
whatever its help text says; the last write of a handler runs under the request's
context (`backups.go:646`). Two things about passwords, which are not modelled: the
password file of a destination is removed when `backup.create` has answered, while
the goroutine may still need it (`dest_password.go:76`), and the finalizer's
`backup.status` sends no password file, so that the query fails for a destination
with a password of its own.

Notifications: a dead letter may be written without payload, because the entry
can be acknowledged between XPENDING and XRANGE (`dispatcher.go:234`;
`ReplayHasPayload` says when); entries published before the group was first made,
at `$`, are never delivered (`redis.go:33`); tripping the breaker saves the row
read before the fan-out, which undoes an edit and brings back a deleted channel; a
PATCH undoes the breaker in the same way; two replays of one dead letter publish
it twice; a re-enabled channel keeps its failure count, so one failure disables it
again.

Certificates: nothing calls `StartSSLTicker`; the status self_signed is read but
never written; a certificate revoked under a row that a late write calls issued
leaves a vhost nginx refuses; a renewing row whose SSL is switched off has no case
in `reconcileSSLForDomain`; a revoke that failed is not tried again.

Sites: the command line's delete leaves the vhost (`cli_ops.go:203`); whether the
owner is suspended is read before the insert (`domains.go:544`).

Runtimes: a restart, or a failed write of the outcome, leaves a row deploying
(`reconciler.go:2313`); the agent does not cancel a command when its caller
disconnects, so a deploy that outlives the panel may run beside the next one
(`server.go:237`); a converge that ends after the domain went back to PHP leaves a
unit behind.

Applications: deleting a domain takes its install rows along (migration 000033
line 16) and leaves their databases without anything that names them
(`domains.go:917`); the WordPress deleter takes no subdirectory
(`wordpress_delete.go:13`), so deleting a site in one removes the document root's
WordPress and leaves its own; a clone copies the source's whole document root
whatever the subdirectory, and always as WordPress; two requests of different
types can share a slot, because the unique key includes the type; a clone whose
row is refused leaves its schema and account in MariaDB; the databases page can
cascade an install row away, although its comments rely on RESTRICT; ready rows of
other applications are probed for a WordPress file and marked failed; pending rows
are never swept; the sweep writes rows from its list although they may have changed.

Automation API: a signature dated five minutes ahead is accepted for ten
minutes, its replay key lives for six (`automation_hmac.go:49`).

## 9. What is not modelled

Every component of section 1 that has no module is in `PROJECT.json` with its
reason. Within the modelled components: the senders and the text of envelopes,
delivery history, restic and the stages of a backup, retention, destination
passwords, editing of schedules and destinations (a destination that has gone
is a refused dispatch), filtering and export of audit rows; the files a migration
works on and the discovery of accounts; the panel's own and uploaded
certificates; what a vhost contains beyond being served, PHP pools, mail and FTP
accounts of a domain; the inside of a deploy and the log of a unit; what each
installer does in its directory, applications without a database, login links,
and the cascade of a deleted user on install rows.

Most of the repository is not stateful logic of this kind: some three hundred
agent commands that run one tool and parse its output, list and form handlers, and
text generators. A model of them would restate them; they are left to unit tests.

## 10. Plan

1. The eight components of section 2: modelled and checked; every safety property
   of the passing runs is proved.
2. Next, safety facts that the liveness properties rest on, each to be checked
   with TLC before it is proved: a delivered entry that is still in the stream is
   pending, so that the reclaim loop sees it; an entry that has left the stream
   does not come back; a port in a row is not handed out again; what bound on
   running rows remains when the tick command runs beside the daemon.
3. SSO tokens and the automation replay cache, users and databases: small
   modules, to be checked against "once" and "nothing half-made remains".

## 11. How to run it

    tlc -workers 2 -config BackupPipeline.cfg MCBackupPipeline
    tlapm BackupPipeline_proofs.tla

Each run of `PROJECT.json` names its module and its configuration.
