--------------------------- MODULE BackupPipeline ---------------------------
(***************************************************************************)
(* Backup jobs, from the row to the restic repository.                     *)
(*                                                                         *)
(* Four kinds of process share the table backup_jobs:                      *)
(*   - API handlers (api/backups.go) create a row in state queued, call    *)
(*     the agent and then mark the row;                                    *)
(*   - tickers (backupscheduler/scheduler.go), the daemon's goroutine and  *)
(*     the `backup scheduler tick` command, enqueue the rows of a due      *)
(*     schedule and dispatch queued rows, anybody's, to the agent;         *)
(*   - the finalizer (backupfinalizer/finalizer.go) closes running rows    *)
(*     whose manifest snapshot exists or whose start is four hours old;    *)
(*   - the agent (panel-agent/internal/commands/backup_*.go) accepts a     *)
(*     call, answers at once and runs the backup in a goroutine; a restore *)
(*     is run before the answer.                                           *)
(*                                                                         *)
(* A job's id is its place in the order of created_at.  A call in flight   *)
(* stays on the wire when its caller gives up: the agent still serves it.  *)
(* Time is what the code compares with it: a start is recent, or old once  *)
(* StallTimeout has passed; a schedule is due, or not.                     *)
(***************************************************************************)
EXTENDS Integers, FiniteSets

CONSTANTS
    Users,          \* account owners; a system backup belongs to "system"
    Dests,          \* the URLs of the enabled destinations
    NoDest,         \* destination_id NULL: no URL is sent to the agent
    LocalDest,      \* the URL that is the agent's DefaultRepo, or NoDest
    Handlers,       \* API requests served at the same time
    Tickers,        \* schedulers: the daemon's and the tick command's
    Daemon,         \* the ticker that lives in the panel process
    Requests,       \* the targets API requests may ask for
    Plan,           \* the targets the schedule fans out to
    MaxConcurrent,  \* backup_max_concurrent_jobs
    Window,         \* MaxJobsPerTick, the finalizer's page
    MaxJobs,        \* bound: rows of backup_jobs
    MaxFaults       \* bound: timeouts, lost writes, restarts, disconnects

Kinds == {"account", "system", "restore"}
Repos == Dests \union {NoDest}
Owners == Users \union {"system"}
Targets == [kind : Kinds, user : Owners, dest : Repos]
JobIds == 1..MaxJobs
Callers == Handlers \union Tickers
Open == {"queued", "running"}
Closed == {"succeeded", "partial", "failed", "cancelled"}
Replies == {"ok", "conflict", "error", "succeeded", "partial", "failed"}

ASSUME ConstantsAssumption ==
    /\ MaxJobs \in Nat /\ MaxFaults \in Nat
    /\ MaxConcurrent \in Nat /\ Window \in Nat
    /\ Requests \subseteq Targets
    /\ Plan \subseteq {t \in Targets : t.kind # "restore"}
    /\ Handlers \intersect Tickers = {}
    /\ Daemon \in Tickers
    /\ LocalDest \in Repos

VARIABLES
    made,       \* rows created so far; the rows are 1..made
    target,     \* kind, user_id and destination_id of each row
    status,     \* status of each row, "none" before it exists
    started,    \* started_at: "never", "recent" or "old" (> StallTimeout)
    due,        \* the schedule's next_run_at <= now
    pc,         \* what each caller is doing; a reply when it has one
    cur,        \* the job each caller is working on
    fan,        \* a ticker's targets still to be inserted
    todo,       \* a ticker's queued rows, read when its tick began
    wire,       \* calls the agent has not served yet: <<caller, job>>
    slot,       \* jobSlot.open: the job holding <<user, repo>>, 0 if none
    orch,       \* the number of goroutines working on each job
    manifest,   \* jobs with a manifest snapshot in their repository
    finList,    \* the finalizer's copies of running rows, still to check
    finOld,     \* those of them whose start was old when they were read
    faults,
    accepted,   \* history: jobs the agent ever began to work on
    dispatched  \* history: jobs a ticker moved to running

rowVars == <<made, target, status, started>>
callVars == <<pc, cur>>
tickVars == <<due, fan, todo>>
agentVars == <<wire, slot, orch, manifest, accepted>>
finVars == <<finList, finOld>>
vars == <<rowVars, callVars, tickVars, agentVars, finVars, faults, dispatched>>

Kind(j) == target[j].kind

\* the slot's key: the user and the URL as it was sent
Key(j) == <<target[j].user, target[j].dest>>

\* the restic repository the agent opens: DefaultRepo when no URL was sent
Repository(j) == IF target[j].dest = NoDest THEN LocalDest ELSE target[j].dest

Running == {j \in JobIds : status[j] = "running"}
Queued == {j \in JobIds : status[j] = "queued"}

Init ==
    /\ made = 0
    /\ target \in [JobIds -> {CHOOSE t \in Targets : TRUE}]
    /\ status = [j \in JobIds |-> "none"]
    /\ started = [j \in JobIds |-> "never"]
    /\ due = FALSE
    /\ pc = [c \in Callers |-> "idle"]
    /\ cur = [c \in Callers |-> 0]
    /\ fan = [t \in Tickers |-> {}]
    /\ todo = [t \in Tickers |-> {}]
    /\ wire = {}
    /\ slot = [k \in Owners \X Repos |-> 0]
    /\ orch = [j \in JobIds |-> 0]
    /\ manifest = {}
    /\ finList = {} /\ finOld = {}
    /\ faults = 0
    /\ accepted = {} /\ dispatched = {}

Fault == faults < MaxFaults /\ faults' = faults + 1

-----------------------------------------------------------------------------
(* backup_jobs *)

Create(t) ==
    /\ made < MaxJobs
    /\ made' = made + 1
    /\ target' = [target EXCEPT ![made + 1] = t]
    /\ status' = [status EXCEPT ![made + 1] = "queued"]
    /\ UNCHANGED started

MarkStarted_Unguarded(j) ==
    /\ status' = [status EXCEPT ![j] = "running"]
    /\ started' = [started EXCEPT ![j] = "recent"]
    /\ UNCHANGED <<made, target>>

\* WHERE id = ? AND status = 'queued'
MarkStarted(j) ==
    /\ status' = [status EXCEPT ![j] = IF @ = "queued" THEN "running" ELSE @]
    /\ started' = [started EXCEPT ![j] =
                      IF status[j] = "queued" THEN "recent" ELSE @]
    /\ UNCHANGED <<made, target>>

\* WHERE id = ?
MarkFinished(j, s) ==
    /\ status' = [status EXCEPT ![j] = s]
    /\ UNCHANGED <<made, target, started>>

ListQueuedOldest_All(n) == Queued

\* the n queued rows with the smallest created_at
ListQueuedOldest(n) ==
    {j \in Queued : Cardinality({i \in Queued : i < j}) < n}

\* the newest n rows, whatever their status
ListAll(n) == {j \in 1..made : j > made - n}

-----------------------------------------------------------------------------
(* The agent *)

Reply(c, j, r) ==
    pc' = [pc EXCEPT ![c] = IF @ = "calling" /\ cur[c] = j THEN r ELSE @]

Call(c, j) ==
    /\ wire' = wire \union {<<c, j>>}
    /\ pc' = [pc EXCEPT ![c] = "calling"]
    /\ cur' = [cur EXCEPT ![c] = j]

\* the caller's local variables go with its return
Return(c, next) ==
    /\ pc' = [pc EXCEPT ![c] = next]
    /\ cur' = [cur EXCEPT ![c] = 0]

Begin(j) ==
    /\ orch' = [orch EXCEPT ![j] = @ + 1]
    /\ accepted' = accepted \union {j}

Acquire_Blind(j) == slot' = [slot EXCEPT ![Key(j)] = j]

Acquire(j) ==
    /\ slot[Key(j)] = 0
    /\ slot' = [slot EXCEPT ![Key(j)] = j]

\* backup.create: take the slot, fork, answer
BackupCreate(c, j) ==
    /\ <<c, j>> \in wire /\ Kind(j) = "account"
    /\ wire' = wire \ {<<c, j>>}
    /\ Acquire(j) /\ Begin(j) /\ Reply(c, j, "ok")
    /\ UNCHANGED <<rowVars, cur, tickVars, manifest, finVars, faults, dispatched>>

\* backup.create: "backup already running"
BackupConflict(c, j) ==
    /\ <<c, j>> \in wire /\ Kind(j) = "account"
    /\ slot[Key(j)] # 0
    /\ wire' = wire \ {<<c, j>>}
    /\ Reply(c, j, "conflict")
    /\ UNCHANGED <<rowVars, cur, tickVars, slot, orch, manifest, accepted,
                   finVars, faults, dispatched>>

\* system.backup: fork, answer; there is no slot
SystemBackup(c, j) ==
    /\ <<c, j>> \in wire /\ Kind(j) = "system"
    /\ wire' = wire \ {<<c, j>>}
    /\ Begin(j) /\ Reply(c, j, "ok")
    /\ UNCHANGED <<rowVars, cur, tickVars, slot, manifest, finVars, faults,
                   dispatched>>

RestoreLocked == \E j \in JobIds : Kind(j) = "restore" /\ orch[j] > 0

\* backup.restore: the global flock is taken without waiting
RestoreBegin(c, j) ==
    /\ <<c, j>> \in wire /\ Kind(j) = "restore"
    /\ ~RestoreLocked
    /\ wire' = wire \ {<<c, j>>}
    /\ Begin(j)
    /\ UNCHANGED <<rowVars, callVars, tickVars, slot, manifest, finVars, faults,
                   dispatched>>

RestoreRefused(c, j) ==
    /\ <<c, j>> \in wire /\ Kind(j) = "restore"
    /\ RestoreLocked
    /\ wire' = wire \ {<<c, j>>}
    /\ Reply(c, j, "error")
    /\ UNCHANGED <<rowVars, cur, tickVars, slot, orch, manifest, accepted,
                   finVars, faults, dispatched>>

\* the stages are done: answer with their outcome, if anybody still waits
RestoreDone(j) ==
    /\ Kind(j) = "restore" /\ orch[j] > 0
    /\ orch' = [orch EXCEPT ![j] = @ - 1]
    /\ \E r \in {"succeeded", "partial", "failed", "error"} :
          pc' = [c \in Callers |->
                    IF pc[c] = "calling" /\ cur[c] = j THEN r ELSE pc[c]]
    /\ UNCHANGED <<rowVars, cur, tickVars, wire, slot, manifest, accepted,
                   finVars, faults, dispatched>>

\* the last stage of a backup writes the manifest snapshot
WriteManifest(j) ==
    /\ Kind(j) # "restore" /\ orch[j] > 0
    /\ j \notin manifest
    /\ manifest' = manifest \union {j}
    /\ UNCHANGED <<rowVars, callVars, tickVars, wire, slot, orch, accepted,
                   finVars, faults, dispatched>>

Release_Forgotten(j) == slot' = slot

Release(j) == slot' = IF Kind(j) = "account"
                      THEN [slot EXCEPT ![Key(j)] = 0] ELSE slot

\* a backup's goroutine returns: finished, failed or past its own timeout
OrchestratorExit(j) ==
    /\ Kind(j) # "restore" /\ orch[j] > 0
    /\ orch' = [orch EXCEPT ![j] = @ - 1]
    /\ Release(j)
    /\ UNCHANGED <<rowVars, callVars, tickVars, wire, manifest, accepted,
                   finVars, faults, dispatched>>

\* the agent process restarts: slots and goroutines live in its memory
AgentRestart ==
    /\ Fault
    /\ wire' = {}
    /\ orch' = [j \in JobIds |-> 0]
    /\ slot' = [k \in Owners \X Repos |-> 0]
    /\ pc' = [c \in Callers |-> IF pc[c] = "calling" THEN "error" ELSE pc[c]]
    /\ UNCHANGED <<rowVars, cur, tickVars, manifest, accepted, finVars,
                   dispatched>>

\* the caller's deadline passes first
Timeout(c) ==
    /\ Fault
    /\ pc[c] = "calling"
    /\ pc' = [pc EXCEPT ![c] = "error"]
    /\ UNCHANGED <<rowVars, cur, tickVars, agentVars, finVars, dispatched>>

-----------------------------------------------------------------------------
(* API handlers *)

\* createForUser, systemCreate, /me create and restore insert the row first
Request(h) ==
    /\ pc[h] = "idle"
    /\ \E t \in Requests : Create(t)
    /\ pc' = [pc EXCEPT ![h] = "created"]
    /\ cur' = [cur EXCEPT ![h] = made + 1]
    /\ UNCHANGED <<tickVars, agentVars, finVars, faults, dispatched>>

\* a restore is marked running before the call
RestoreMarkStarted(h) ==
    /\ pc[h] = "created" /\ Kind(cur[h]) = "restore"
    /\ MarkStarted(cur[h])
    /\ pc' = [pc EXCEPT ![h] = "started"]
    /\ UNCHANGED <<cur, tickVars, agentVars, finVars, faults, dispatched>>

HandlerCall(h) ==
    /\ \/ pc[h] = "created" /\ Kind(cur[h]) # "restore"
       \/ pc[h] = "started"
    /\ Call(h, cur[h])
    /\ UNCHANGED <<rowVars, tickVars, slot, orch, manifest, accepted, finVars,
                   faults, dispatched>>

HandlerDone_IgnoreError(h) ==
    /\ pc[h] \in Replies
    /\ CASE pc[h] \in {"ok", "error"} -> MarkStarted(cur[h])
         [] pc[h] \in {"succeeded", "partial"} -> MarkFinished(cur[h], pc[h])
         [] OTHER -> MarkFinished(cur[h], "failed")
    /\ Return(h, "idle")
    /\ UNCHANGED <<tickVars, agentVars, finVars, faults, dispatched>>

\* a failed call closes the row; a backup that was taken is running; a
\* restore is closed with what its stages came to
HandlerDone(h) ==
    /\ pc[h] \in Replies
    /\ CASE pc[h] = "ok" -> MarkStarted(cur[h])
         [] pc[h] \in {"succeeded", "partial"} -> MarkFinished(cur[h], pc[h])
         [] OTHER -> MarkFinished(cur[h], "failed")
    /\ Return(h, "idle")
    /\ UNCHANGED <<tickVars, agentVars, finVars, faults, dispatched>>

\* the browser disconnects: every later call and write of the handler runs
\* under the request's cancelled context and does nothing
HandlerGone(h) ==
    /\ Fault
    /\ pc[h] # "idle"
    /\ Return(h, "idle")
    /\ UNCHANGED <<rowVars, tickVars, agentVars, finVars, dispatched>>

-----------------------------------------------------------------------------
(* Tickers *)

\* next_run_at passes, or an operator presses "run now"
ScheduleDue ==
    /\ ~due /\ made < MaxJobs /\ Plan # {}
    /\ due' = TRUE
    /\ UNCHANGED <<rowVars, callVars, fan, todo, agentVars, finVars, faults,
                   dispatched>>

\* tickEnqueue: the schedule is due, its fan-out is computed
TickEnqueue(t) ==
    /\ pc[t] = "idle" /\ due
    /\ pc' = [pc EXCEPT ![t] = "enqueue"]
    /\ fan' = [fan EXCEPT ![t] = Plan]
    /\ UNCHANGED <<rowVars, cur, due, todo, agentVars, finVars, faults,
                   dispatched>>

\* enqueueAccountBackup, enqueueSystemBackup: one row; a failed insert is
\* logged and skipped
EnqueueOne(t) ==
    /\ pc[t] = "enqueue"
    /\ \E g \in fan[t] :
          /\ fan' = [fan EXCEPT ![t] = @ \ {g}]
          /\ IF made < MaxJobs THEN Create(g) ELSE UNCHANGED rowVars
    /\ UNCHANGED <<callVars, due, todo, agentVars, finVars, faults, dispatched>>

\* MarkRan, or UpdateNextRun when nothing was inserted
MarkRan(t) ==
    /\ pc[t] = "enqueue" /\ fan[t] = {}
    /\ due' = FALSE
    /\ pc' = [pc EXCEPT ![t] = "idle"]
    /\ UNCHANGED <<rowVars, cur, fan, todo, agentVars, finVars, faults,
                   dispatched>>

\* tickDispatch: as many queued rows as the cap leaves room for
TickDispatch(t) ==
    LET queued == ListQueuedOldest(MaxConcurrent - Cardinality(Running))
    IN  /\ pc[t] = "idle"
        /\ queued # {}
        /\ todo' = [todo EXCEPT ![t] = queued]
        /\ pc' = [pc EXCEPT ![t] = "dispatch"]
        /\ UNCHANGED <<rowVars, cur, due, fan, agentVars, finVars, faults,
                       dispatched>>

Oldest(t, j) == j \in todo[t] /\ \A i \in todo[t] : j <= i

Drop(t, j) == todo' = [todo EXCEPT ![t] = @ \ {j}]

\* dispatchOne, of a kind it does not know: a warning in the log
DispatchSkip(t) ==
    /\ pc[t] = "dispatch"
    /\ \E j \in JobIds : Oldest(t, j) /\ Kind(j) = "restore" /\ Drop(t, j)
    /\ UNCHANGED <<rowVars, callVars, due, fan, agentVars, finVars, faults,
                   dispatched>>

\* no destination, or the user or the destination has gone or is disabled
DispatchRefused(t) ==
    /\ pc[t] = "dispatch"
    /\ \E j \in JobIds :
          /\ Oldest(t, j) /\ Kind(j) # "restore"
          /\ Drop(t, j)
          /\ MarkFinished(j, "failed")
          /\ IF target[j].dest = NoDest THEN UNCHANGED faults ELSE Fault
    /\ UNCHANGED <<callVars, due, fan, agentVars, finVars, dispatched>>

\* dispatchAccount, dispatchSystem: the row is the copy read by the tick
DispatchCall(t) ==
    /\ pc[t] = "dispatch"
    /\ \E j \in JobIds :
          /\ Oldest(t, j) /\ Kind(j) # "restore" /\ target[j].dest # NoDest
          /\ Drop(t, j)
          /\ Call(t, j)
    /\ UNCHANGED <<rowVars, due, fan, slot, orch, manifest, accepted, finVars,
                   faults, dispatched>>

DispatchDone_RawAnswer(t) ==
    /\ pc[t] \in Replies
    /\ IF pc[t] = "ok" THEN MarkStarted(cur[t]) ELSE MarkFinished(cur[t], pc[t])
    /\ dispatched' = IF pc[t] = "ok" /\ status[cur[t]] = "queued"
                     THEN dispatched \union {cur[t]} ELSE dispatched
    /\ Return(t, "dispatch")
    /\ UNCHANGED <<tickVars, agentVars, finVars, faults>>

DispatchDone(t) ==
    /\ pc[t] \in Replies
    /\ CASE pc[t] = "ok" -> MarkStarted(cur[t])
         [] pc[t] = "conflict" -> MarkFinished(cur[t], "cancelled")
         [] OTHER -> MarkFinished(cur[t], "failed")
    /\ dispatched' = IF pc[t] = "ok" /\ status[cur[t]] = "queued"
                     THEN dispatched \union {cur[t]} ELSE dispatched
    /\ Return(t, "dispatch")
    /\ UNCHANGED <<tickVars, agentVars, finVars, faults>>

TickEnd(t) ==
    /\ pc[t] = "dispatch" /\ todo[t] = {}
    /\ pc' = [pc EXCEPT ![t] = "idle"]
    /\ UNCHANGED <<rowVars, cur, tickVars, agentVars, finVars, faults, dispatched>>

\* a write of the ticker fails; every one of them is only logged or ignored
WriteLost(t) ==
    /\ Fault
    /\ \/ pc[t] = "enqueue" /\ fan[t] = {} /\ Return(t, "idle")
       \/ pc[t] \in Replies /\ Return(t, "dispatch")
    /\ UNCHANGED <<rowVars, tickVars, agentVars, finVars, dispatched>>

-----------------------------------------------------------------------------
(* The finalizer *)

\* one page of rows is read; only running backups of it are looked at
FinalizerTick ==
    LET page == {j \in ListAll(Window) : status[j] = "running"
                                         /\ Kind(j) # "restore"}
    IN  /\ finList = {}
        /\ page # {}
        /\ finList' = page
        /\ finOld' = {j \in page : started[j] = "old"}
        /\ UNCHANGED <<rowVars, callVars, tickVars, agentVars, faults, dispatched>>

FinalizerNext(j) ==
    /\ j \in finList /\ \A i \in finList : i <= j
    /\ finList' = finList \ {j} /\ finOld' = finOld \ {j}
    /\ UNCHANGED <<callVars, tickVars, agentVars, dispatched>>

Stalled_Ignored(j) ==
    /\ FinalizerNext(j) /\ j \in finOld
    /\ UNCHANGED <<rowVars, faults>>

Stalled(j) ==
    /\ FinalizerNext(j) /\ j \in finOld
    /\ MarkFinished(j, "failed")
    /\ UNCHANGED faults

\* the stall's MarkFinished is lost; backup.status fails, passes its 10 s
\* deadline or answers with what cannot be parsed; or the MarkFinished after
\* it is lost: the row is left for the next tick
FinalizerFails(j) ==
    /\ FinalizerNext(j)
    /\ Fault
    /\ UNCHANGED rowVars

ManifestFound_Any(j) == j \in manifest \/ orch[j] = 0

ManifestFound(j) == j \in manifest

\* backup.status finds the manifest snapshot
Finalize(j) ==
    /\ FinalizerNext(j) /\ j \notin finOld
    /\ ManifestFound(j)
    /\ MarkFinished(j, "succeeded")
    /\ UNCHANGED faults

\* no manifest yet: look again at the next tick
StillRunning(j) ==
    /\ FinalizerNext(j) /\ j \notin finOld
    /\ ~ManifestFound(j)
    /\ UNCHANGED <<rowVars, faults>>

\* four hours pass.  A goroutine of an account backup ends after 90 minutes,
\* one of a system backup may still be at work
Age(j) ==
    /\ status[j] = "running" /\ started[j] = "recent"
    /\ Kind(j) = "account" => orch[j] = 0
    /\ Kind(j) # "restore"
    /\ started' = [started EXCEPT ![j] = "old"]
    /\ UNCHANGED <<made, target, status, callVars, tickVars, agentVars, finVars,
                   faults, dispatched>>

-----------------------------------------------------------------------------
\* the panel process restarts: handlers, its ticker and the finalizer start
\* afresh; the tick command and calls on the wire go on
PanelRestart ==
    /\ Fault
    /\ pc' = [c \in Callers |-> IF c \in Handlers \union {Daemon}
                                THEN "idle" ELSE pc[c]]
    /\ cur' = [c \in Callers |-> IF c \in Handlers \union {Daemon}
                                 THEN 0 ELSE cur[c]]
    /\ fan' = [fan EXCEPT ![Daemon] = {}]
    /\ todo' = [todo EXCEPT ![Daemon] = {}]
    /\ finList' = {} /\ finOld' = {}
    /\ UNCHANGED <<rowVars, due, agentVars, dispatched>>

Handler(h) == \/ Request(h) \/ RestoreMarkStarted(h) \/ HandlerCall(h)
              \/ HandlerDone(h)

Ticker(t) == \/ TickEnqueue(t) \/ EnqueueOne(t) \/ MarkRan(t)
             \/ TickDispatch(t) \/ DispatchSkip(t) \/ DispatchRefused(t)
             \/ DispatchCall(t) \/ DispatchDone(t) \/ TickEnd(t)

Serve(c, j) == \/ BackupCreate(c, j) \/ BackupConflict(c, j)
               \/ SystemBackup(c, j)
               \/ RestoreBegin(c, j) \/ RestoreRefused(c, j)

Worker(j) == RestoreDone(j) \/ OrchestratorExit(j)

Finalizer == FinalizerTick
             \/ \E j \in JobIds : Stalled(j) \/ Finalize(j) \/ StillRunning(j)

Next == \/ \E h \in Handlers : Handler(h) \/ HandlerGone(h)
        \/ \E t \in Tickers : Ticker(t) \/ WriteLost(t)
        \/ \E c \in Callers : Timeout(c) \/ \E j \in JobIds : Serve(c, j)
        \/ \E j \in JobIds : Worker(j) \/ WriteManifest(j) \/ Age(j)
                              \/ FinalizerFails(j)
        \/ Finalizer
        \/ ScheduleDue \/ AgentRestart \/ PanelRestart

Spec == Init /\ [][Next]_vars

\* The daemon's loops keep ticking, a client deadline or an answer ends every
\* call, a goroutine ends by its own timeout and time passes.  Nothing obliges
\* anybody to send requests, to let a schedule come due or to fail.
Fairness ==
    /\ \A h \in Handlers :
          WF_vars(RestoreMarkStarted(h) \/ HandlerCall(h) \/ HandlerDone(h))
    /\ WF_vars(Ticker(Daemon))
    /\ WF_vars(Finalizer)
    /\ \A c \in Callers, j \in JobIds : WF_vars(Serve(c, j))
    /\ \A j \in JobIds : WF_vars(Worker(j)) /\ WF_vars(Age(j))

FairSpec == Spec /\ Fairness

-----------------------------------------------------------------------------
(* Properties *)

RowTypes ==
    /\ made \in 0..MaxJobs
    /\ target \in [JobIds -> Targets]
    /\ status \in [JobIds -> Open \union Closed \union {"none"}]
    /\ started \in [JobIds -> {"never", "recent", "old"}]
CallTypes ==
    /\ pc \in [Callers -> Replies \union {"idle", "created", "started",
                                          "calling", "enqueue", "dispatch"}]
    /\ cur \in [Callers -> 0..MaxJobs]
TickTypes ==
    /\ due \in BOOLEAN
    /\ fan \in [Tickers -> SUBSET Targets]
    /\ todo \in [Tickers -> SUBSET JobIds]
AgentTypes ==
    /\ wire \subseteq Callers \X JobIds
    /\ slot \in [Owners \X Repos -> 0..MaxJobs]
    /\ orch \in [JobIds -> Nat]
    /\ manifest \subseteq JobIds /\ accepted \subseteq JobIds
FinTypes ==
    /\ finList \subseteq JobIds /\ finOld \subseteq JobIds
    /\ faults \in 0..MaxFaults /\ dispatched \subseteq JobIds

\* Every variable has its type: the rows of backup_jobs, the callers, the
\* tickers' and the finalizer's lists and the agent's slots and goroutines.
TypeOK == RowTypes /\ CallTypes /\ TickTypes /\ AgentTypes /\ FinTypes

AccountWork == {j \in JobIds : Kind(j) = "account" /\ orch[j] > 0}

\* The agent never works twice on one account backup, and two account backups
\* of one user meet in one restic repository only when one of them was sent
\* without a URL and the other with the URL of the default repository, which
\* jobSlot takes for two keys: whoever sent them, an API handler, either
\* ticker dispatching the same row from its stale list, or a call whose caller
\* had given up (jobSlot.acquire and release in backup_create.go).
OneWorkerPerSlot ==
    /\ \A j \in AccountWork : orch[j] = 1
    /\ \A i, j \in AccountWork :
          i # j /\ target[i].user = target[j].user
                /\ Repository(i) = Repository(j)
          => {target[i].dest, target[j].dest} = {NoDest, LocalDest}

\* A slot is held only while the goroutine of the job it names is at work, so
\* no user is locked out of a repository by a backup that has ended
\* (the deferred jobSlot.release in backupCreateHandler).
SlotNamesLiveWork ==
    \A k \in Owners \X Repos :
        slot[k] # 0 => slot[k] \in AccountWork /\ Key(slot[k]) = k

\* A backup row says succeeded only when the manifest snapshot of that job is
\* in the repository (finalizer.checkOne), although the row may have been
\* rewritten any number of times since the finalizer read it.
SucceededHasManifest ==
    \A j \in JobIds :
        status[j] = "succeeded" /\ Kind(j) # "restore" => j \in manifest

\* A backup row says running only if the agent took the job: neither the
\* handlers nor the dispatchers mark a job started on an error, a conflict or
\* another job's answer.
RunningWasAccepted ==
    \A j \in JobIds :
        status[j] = "running" /\ Kind(j) # "restore" => j \in accepted

\* A closed row may be closed again with another outcome, but never becomes
\* queued or running again, whichever of the two writers that dispatched it
\* comes last (the guard in backupJobRepo.MarkStarted).
ClosedStaysClosed ==
    [][\A j \in JobIds : status[j] \in Closed => status'[j] \in Closed]_vars

\* The dispatcher never keeps more rows of its own in running than
\* backup_max_concurrent_jobs, although it dispatches from a count and a list
\* read once per tick, while handlers and the finalizer change the rows
\* (tickDispatch).
CapRespected == Cardinality(dispatched \intersect Running) <= MaxConcurrent

\* rows nobody will ever close: a running backup that newer rows have pushed
\* off the finalizer's page, and a restore whose handler has gone
Abandoned ==
    {j \in 1..made :
        IF Kind(j) = "restore"
        THEN status[j] \in Open /\ \A h \in Handlers : cur[h] # j
        ELSE status[j] = "running" /\ j <= made - Window /\ j \notin finList}

\* A row that is queued or running is closed in the end, by its manifest, a
\* failed dispatch, the four-hour stall check or the restore's handler, also
\* when the agent or the panel restarted or a call of the finalizer failed
\* meanwhile; unless it is abandoned, or it is queued behind as many abandoned
\* rows as backup_max_concurrent_jobs allows to run: CountByStatus and
\* ListQueuedOldest count those for ever (finalizer.tickOnce, tickDispatch).
EveryBackupCloses ==
    \A j \in JobIds :
        status[j] \in Open
        ~> \/ status[j] \in Closed
           \/ j \in Abandoned
           \/ status[j] = "queued" /\ Cardinality(Abandoned) >= MaxConcurrent

-----------------------------------------------------------------------------
(* The reader's view: the pipeline implements BackupLedger. *)

Phase(j) ==
    IF status[j] = "succeeded" THEN "good"
    ELSE IF status[j] \in Closed THEN "bad" ELSE status[j]

Ledger == INSTANCE BackupLedger WITH
    Ids <- JobIds,
    phase <- [j \in JobIds |-> Phase(j)],
    restores <- {j \in 1..made : Kind(j) = "restore"},
    begun <- accepted,
    kept <- manifest

\* Whatever handlers, tickers, finalizer and agent do, and in whatever order
\* their answers and writes arrive, the table keeps the promises of
\* BackupLedger: no row says running before its work has begun, good without
\* a snapshot, or open again after it was closed.
KeepsLedger == Ledger!Spec

=============================================================================
