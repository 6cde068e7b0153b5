---------------------------- MODULE MigrationJob ----------------------------
(***************************************************************************)
(* An account migration, from the wizard's draft to the restored account.  *)
(*                                                                         *)
(* One row of migration_jobs and its four rows of migration_stages are     *)
(* written by processes that do not lock each other out:                   *)
(*   - requests of the admin API (api/admin_migrations.go) read the row,   *)
(*     check its state and then write it or call the agent;                *)
(*   - the pull unit (cmd/server/migrate_pull_cmd.go) fetches the account  *)
(*     and starts the import;                                              *)
(*   - imports (cmd/server/migrate_run_cmd.go, migrate/runner.go), the     *)
(*     agent's unit and operators' shells, walk the stages on a copy of    *)
(*     the row read when they began;                                       *)
(*   - the reaper (cmd/server/migrate_reap_cmd.go) removes the credentials *)
(*     of finished jobs.                                                   *)
(*                                                                         *)
(* Every write of the state is WHERE id = ?: what is compared with the     *)
(* transition table is the writer's copy, not the row.  Jobs are of        *)
(* different source accounts.  The files under /var/lib/jabali-migrations  *)
(* are not state of the model; what a stage does to the target account is  *)
(* its success or its failure.                                             *)
(***************************************************************************)
EXTENDS Integers

CONSTANTS
    Jobs,       \* ids of migration_jobs
    Handlers,   \* admin requests served at the same time
    Shells,     \* operators' shells that may run `jabali migrate import`
    MaxAsked,   \* bound: requests of the API and imports from a shell
    MaxFaults   \* bound: deaths, dropped requests, errors of the database

ASSUME ConstantsAssumption ==
    /\ "unit" \notin Shells
    /\ MaxAsked \in Nat /\ MaxFaults \in Nat

Origins == Shells \union {"unit"}
Imports == Jobs \X Origins

Stages == 1..4
AllStages == <<"analyze", "fix_perms", "validate", "restore">>
jobStateForStage == <<"analyzing", "fix_perms", "validating", "restoring">>

InFlight == {"analyzing", "fix_perms", "validating", "restoring"}
Terminal == {"done", "failed", "cancelled"}
Live == InFlight \union {"draft", "pending"}
States == Live \union Terminal \union {"none", "deleted"}

jobTransitions ==
    {<<"draft", "pending">>, <<"draft", "cancelled">>,
     <<"pending", "analyzing">>, <<"pending", "cancelled">>,
     <<"analyzing", "fix_perms">>, <<"analyzing", "failed">>,
     <<"analyzing", "cancelled">>,
     <<"fix_perms", "validating">>, <<"fix_perms", "failed">>,
     <<"fix_perms", "cancelled">>,
     <<"validating", "restoring">>, <<"validating", "failed">>,
     <<"validating", "cancelled">>,
     <<"restoring", "done">>, <<"restoring", "failed">>,
     <<"restoring", "cancelled">>,
     <<"failed", "analyzing">>, <<"failed", "cancelled">>}

IsValidJobTransition(from, to) == <<from, to>> \in jobTransitions

VARIABLES
    state,      \* state of each row; "deleted" once destroyed
    named,      \* drafts whose source host and user have been filled in
    stage,      \* state of each stage row, "absent" before it is created
    secret,     \* jobs with a file <id>.env of source credentials
    req,        \* what each request will do next, its check being passed
    pull,       \* the pull unit of each job: off, begin, pulling, kick
    imp,        \* each import: pc, the state of its copy, its stage
    reaping,    \* the reaper is at work
    reap,       \* terminal rows it has read and not handled yet
    ever,       \* history: stages that were completed at some time
    lost,       \* history: jobs whose import died or lost its last write
    asked, faults

rowVars == <<state, named, stage>>
runVars == <<imp, ever, lost>>
bounds == <<asked, faults>>
reapVars == <<reaping, reap>>
vars == <<rowVars, secret, req, pull, runVars, reapVars, bounds>>

Idle == [op |-> "idle"]
Ops == {"cancel", "cancelBatch", "destroy", "secrets", "clone", "pull",
        "import", "submit", "retry", "scratch"}
Off == [pc |-> "off", copy |-> "none", at |-> 1]

Exists(j) == state[j] \notin {"none", "deleted"}

Init ==
    /\ state = [j \in Jobs |-> "none"]
    /\ named = {}
    /\ stage = [j \in Jobs |-> [s \in Stages |-> "absent"]]
    /\ secret = {}
    /\ req = [h \in Handlers |-> Idle]
    /\ pull = [j \in Jobs |-> "off"]
    /\ imp = [p \in Imports |-> Off]
    /\ reaping = FALSE /\ reap = {}
    /\ ever = [j \in Jobs |-> {}]
    /\ lost = {}
    /\ asked = 0 /\ faults = 0

Ask == asked < MaxAsked /\ asked' = asked + 1 /\ UNCHANGED faults
Fault == faults < MaxFaults /\ faults' = faults + 1 /\ UNCHANGED asked

-----------------------------------------------------------------------------
(* migration_job_repository.go: a write of a row that is gone changes      *)
(* nothing and is reported as ErrNotFound.                                 *)

UpdateState_Upsert(j, s) == state' = [state EXCEPT ![j] = s]

UpdateState(j, s) ==
    state' = [state EXCEPT ![j] = IF Exists(j) THEN s ELSE @]

SetStage(j, s, v) == stage' = [stage EXCEPT ![j][s] = v]

\* the directory belongs to root and the panel's user may not unlink in it;
\* where it may, the file goes
PanelWipe(j) == secret' \in {secret, secret \ {j}}

-----------------------------------------------------------------------------
(* admin_migrations.go *)

\* create: a draft of the wizard, whose host and user may be placeholders,
\* or a pending job; bulkCreate without a source job makes named drafts
Create(j) ==
    /\ state[j] = "none"
    /\ \/ state' = [state EXCEPT ![j] = "draft"] /\ named' \in {named, named \union {j}}
       \/ state' = [state EXCEPT ![j] = "pending"] /\ named' = named \union {j}
    /\ UNCHANGED <<stage, secret, req, pull, runVars, reapVars, bounds>>

\* bulkCreate with a source job: the child is pending before it has a secret
BulkCreate(h, j) ==
    /\ req[h] = Idle /\ state[j] = "none"
    /\ state' = [state EXCEPT ![j] = "pending"]
    /\ named' = named \union {j}
    /\ req' = [req EXCEPT ![h] = [op |-> "clone", job |-> j]]
    /\ Ask
    /\ UNCHANGED <<stage, secret, pull, runVars, reapVars>>

PatchDraft(j) ==
    /\ state[j] = "draft"
    /\ named' = named \union {j}
    /\ UNCHANGED <<state, stage, secret, req, pull, runVars, reapVars, bounds>>

\* the operations whose handler reads the row, with the states it goes on in
Admits(op, s) ==
    \/ op = "cancel" /\ IsValidJobTransition(s, "cancelled")
    \/ op = "destroy" /\ s \in Terminal \union {"draft"}
    \/ op \in {"secrets", "pull", "import", "cancelBatch"} /\ s \in Live
    \/ op = "submit" /\ s = "draft"
    \/ op \in {"retry", "scratch"} /\ s \in {"failed", "cancelled"}

Admit(h, op, j) ==
    /\ req[h] = Idle
    /\ Admits(op, state[j])
    /\ op = "submit" => j \in named
    /\ req' = [req EXCEPT ![h] = [op |-> op, job |-> j]]
    /\ Ask
    /\ UNCHANGED <<rowVars, secret, pull, runVars, reapVars>>

Doing(h, op) == req[h].op = op
Answer(h) == req' = [req EXCEPT ![h] = Idle]
GoOn(h, op) == req' = [req EXCEPT ![h].op = op]

Cancel(h) ==
    /\ Doing(h, "cancel")
    /\ LET j == req[h].job IN
       /\ UpdateState(j, "cancelled")
       /\ IF Exists(j) THEN PanelWipe(j) ELSE UNCHANGED secret
    /\ Answer(h)
    /\ UNCHANGED <<named, stage, pull, runVars, reapVars, bounds>>

\* no wipe here
CancelBatch(h) ==
    /\ Doing(h, "cancelBatch")
    /\ UpdateState(req[h].job, "cancelled")
    /\ Answer(h)
    /\ UNCHANGED <<named, stage, secret, pull, runVars, reapVars, bounds>>

\* the foreign key's CASCADE drops the stage rows
Destroy(h) ==
    /\ Doing(h, "destroy")
    /\ LET j == req[h].job IN
       /\ UpdateState(j, "deleted")
       /\ stage' = [stage EXCEPT ![j] = [s \in Stages |-> "absent"]]
       /\ IF Exists(j) THEN PanelWipe(j) ELSE UNCHANGED secret
    /\ Answer(h)
    /\ UNCHANGED <<named, pull, runVars, reapVars, bounds>>

\* agent, migration.secrets_write: it knows nothing of the row
UploadSecrets(h) ==
    /\ Doing(h, "secrets")
    /\ secret' = secret \union {req[h].job}
    /\ Answer(h)
    /\ UNCHANGED <<rowVars, pull, runVars, reapVars, bounds>>

\* agent, migration.secrets_clone; on an error the child becomes a draft
CloneSecret(h) ==
    /\ Doing(h, "clone")
    /\ \/ /\ secret' = secret \union {req[h].job}
          /\ GoOn(h, "pull")
          /\ UNCHANGED state
       \/ /\ UpdateState(req[h].job, "draft")
          /\ Answer(h)
          /\ UNCHANGED secret
    /\ UNCHANGED <<named, stage, pull, runVars, reapVars, bounds>>

Submit(h) ==
    /\ Doing(h, "submit")
    /\ UpdateState(req[h].job, "pending")
    /\ IF Exists(req[h].job) THEN GoOn(h, "pull") ELSE Answer(h)
    /\ UNCHANGED <<named, stage, secret, pull, runVars, reapVars, bounds>>

\* agent, migration.pull_source_run: a pull already at work is stopped
PullSourceRun(h) ==
    /\ Doing(h, "pull")
    /\ pull' = [pull EXCEPT ![req[h].job] = "begin"]
    /\ Answer(h)
    /\ UNCHANGED <<rowVars, secret, runVars, reapVars, bounds>>

\* agent, migration.import_run: systemd-run fails while the unit exists
StartUnit(j) ==
    IF imp[<<j, "unit">>].pc = "off"
    THEN imp' = [imp EXCEPT ![<<j, "unit">>].pc = "load"] /\ lost' = lost \ {j}
    ELSE UNCHANGED <<imp, lost>>

ImportRun(h) ==
    /\ Doing(h, "import")
    /\ StartUnit(req[h].job)
    /\ Answer(h)
    /\ UNCHANGED <<rowVars, secret, pull, ever, reapVars, bounds>>

\* ?from_scratch=true sets the stage rows to pending, one write each, then
\* both forms set the job to pending; nothing is started
Retry(h) ==
    /\ Doing(h, "scratch") \/ Doing(h, "retry")
    /\ LET j == req[h].job IN
       /\ stage' = IF Doing(h, "scratch")
                   THEN [stage EXCEPT ![j] = [s \in Stages |->
                            IF @[s] = "absent" THEN "absent" ELSE "pending"]]
                   ELSE stage
       /\ UpdateState(j, "pending")
    /\ Answer(h)
    /\ UNCHANGED <<named, secret, pull, runVars, reapVars, bounds>>

\* the agent answers with an error, the browser goes away, the panel restarts
Drop(h) ==
    /\ req[h] # Idle
    /\ Answer(h)
    /\ Fault
    /\ UNCHANGED <<rowVars, secret, pull, runVars, reapVars>>

-----------------------------------------------------------------------------
(* migrate_pull_cmd.go *)

PullFailed_Unlisted(j) ==
    /\ state' = [state EXCEPT ![j] = "pulling_failed"]
    /\ pull' = [pull EXCEPT ![j] = "off"]

PullFailed(j) == UpdateState(j, "failed") /\ pull' = [pull EXCEPT ![j] = "off"]

\* no look at the state; no secret is a failure
PullBegin(j) ==
    /\ pull[j] = "begin"
    /\ IF ~Exists(j) THEN pull' = [pull EXCEPT ![j] = "off"] /\ UNCHANGED state
       ELSE IF j \notin secret THEN PullFailed(j)
       ELSE pull' = [pull EXCEPT ![j] = "pulling"] /\ UNCHANGED state
    /\ UNCHANGED <<named, stage, secret, req, runVars, reapVars, bounds>>

PullWork(j) ==
    /\ pull[j] = "pulling"
    /\ \/ pull' = [pull EXCEPT ![j] = "kick"] /\ UNCHANGED state
       \/ PullFailed(j)
    /\ UNCHANGED <<named, stage, secret, req, runVars, reapVars, bounds>>

PullKick(j) ==
    /\ pull[j] = "kick"
    /\ StartUnit(j)
    /\ pull' = [pull EXCEPT ![j] = "off"]
    /\ UNCHANGED <<rowVars, secret, req, ever, reapVars, bounds>>

PullDies(j) ==
    /\ pull[j] # "off"
    /\ pull' = [pull EXCEPT ![j] = "off"]
    /\ Fault
    /\ UNCHANGED <<rowVars, secret, req, runVars, reapVars>>

-----------------------------------------------------------------------------
(* migrate_run_cmd.go and runner.go.  p is an import: its job and where it *)
(* was started.                                                            *)

Job(p) == p[1]
Goto(p, pc) == imp' = [imp EXCEPT ![p].pc = pc]

\* nothing keeps a shell from importing a job the unit is importing
StartShell(p) ==
    /\ p[2] \in Shells /\ imp[p].pc = "off"
    /\ Goto(p, "load")
    /\ lost' = lost \ {Job(p)}
    /\ Ask
    /\ UNCHANGED <<rowVars, secret, req, pull, ever, reapVars>>

\* failJob: the target user cannot be found or made
PrepareFails(p) ==
    /\ imp[p].pc = "load"
    /\ \/ UpdateState(Job(p), "failed") /\ UNCHANGED <<lost, bounds>>
       \/ lost' = lost \union {Job(p)} /\ Fault /\ UNCHANGED state
    /\ imp' = [imp EXCEPT ![p] = Off]
    /\ UNCHANGED <<named, stage, secret, req, pull, ever, reapVars>>

\* Run: the row is read once, here
Load(p) ==
    /\ imp[p].pc = "load"
    /\ imp' = [imp EXCEPT ![p] =
                  IF ~Exists(Job(p)) THEN Off
                  ELSE [pc |-> IF state[Job(p)] = "done" THEN "clean" ELSE "stage",
                        copy |-> state[Job(p)], at |-> 1]]
    /\ UNCHANGED <<rowVars, secret, req, pull, ever, lost, reapVars, bounds>>

Skips_Failed(p) == stage[Job(p)][imp[p].at] \in {"done", "failed"}

\* a stage whose row says done is not run again
Skips(p) == stage[Job(p)][imp[p].at] = "done"

Skip(p) ==
    /\ imp[p].pc = "stage" /\ imp[p].at \in Stages
    /\ Skips(p)
    /\ imp' = [imp EXCEPT ![p].at = @ + 1]
    /\ UNCHANGED <<rowVars, secret, req, pull, ever, lost, reapVars, bounds>>

NextState(p) ==
    IF imp[p].at \in Stages THEN jobStateForStage[imp[p].at] ELSE "done"

\* ErrIllegalTransition; the stage row has been created before the check
Refuse(p) ==
    /\ imp[p].pc = "stage" /\ Exists(Job(p))
    /\ imp[p].at \in Stages => ~Skips(p)
    /\ ~IsValidJobTransition(imp[p].copy, NextState(p))
    /\ IF imp[p].at \in Stages /\ stage[Job(p)][imp[p].at] = "absent"
       THEN SetStage(Job(p), imp[p].at, "pending") ELSE UNCHANGED stage
    /\ Goto(p, "refused")
    /\ UNCHANGED <<state, named, secret, req, pull, ever, lost, reapVars, bounds>>

\* The stage row, the job's state and the stage's state are written one after
\* the other; no other process looks at a row between them and does more
\* than it would do after them.
Enter(p) ==
    /\ imp[p].pc = "stage" /\ imp[p].at \in Stages /\ Exists(Job(p))
    /\ ~Skips(p)
    /\ IsValidJobTransition(imp[p].copy, NextState(p))
    /\ UpdateState(Job(p), NextState(p))
    /\ SetStage(Job(p), imp[p].at, "running")
    /\ imp' = [imp EXCEPT ![p].pc = "work", ![p].copy = NextState(p)]
    /\ UNCHANGED <<named, secret, req, pull, ever, lost, reapVars, bounds>>

\* the callback, or none for fix_perms, succeeds
Work(p) ==
    /\ imp[p].pc = "work" /\ Exists(Job(p))
    /\ SetStage(Job(p), imp[p].at, "done")
    /\ ever' = [ever EXCEPT ![Job(p)] = @ \union {imp[p].at}]
    /\ imp' = [imp EXCEPT ![p].pc = "stage", ![p].at = @ + 1]
    /\ UNCHANGED <<state, named, secret, req, pull, lost, reapVars, bounds>>

fail_Silent(p) ==
    /\ UNCHANGED <<state, lost, bounds>>
    /\ secret' = secret \ {Job(p)}
    /\ Goto(p, "clean")

\* the write is best effort: it may be lost with the database
fail(p) ==
    /\ IF IsValidJobTransition(imp[p].copy, "failed")
       THEN \/ UpdateState(Job(p), "failed") /\ UNCHANGED <<lost, bounds>>
            \/ lost' = lost \union {Job(p)} /\ Fault /\ UNCHANGED state
       ELSE UNCHANGED <<state, lost, bounds>>
    /\ secret' = secret \ {Job(p)}
    /\ Goto(p, "clean")

\* a refused transition, or an error of the database between two stages: a
\* row that is gone is one
RunFails(p) ==
    /\ \/ imp[p].pc = "refused"
       \/ imp[p].pc = "stage" /\ (Exists(Job(p)) => faults < MaxFaults)
    /\ fail(p)
    /\ UNCHANGED <<named, stage, req, pull, ever, reapVars>>

\* the callback fails and the stage row says so, or the write that follows
\* the callback fails and the row stays as it is; fix_perms has no callback
WorkFails(p) ==
    /\ imp[p].pc = "work"
    /\ \/ /\ Exists(Job(p)) /\ AllStages[imp[p].at] # "fix_perms"
          /\ SetStage(Job(p), imp[p].at, "failed")
       \/ (Exists(Job(p)) => faults < MaxFaults) /\ UNCHANGED stage
    /\ fail(p)
    /\ UNCHANGED <<named, req, pull, ever, reapVars>>

Finish(p) ==
    /\ imp[p].pc = "stage" /\ imp[p].at \notin Stages /\ Exists(Job(p))
    /\ IsValidJobTransition(imp[p].copy, "done")
    /\ UpdateState(Job(p), "done")
    /\ secret' = secret \ {Job(p)}
    /\ Goto(p, "clean")
    /\ UNCHANGED <<named, stage, req, pull, ever, lost, reapVars, bounds>>

\* the staging directory of a finished job is removed
Clean(p) ==
    /\ imp[p].pc = "clean"
    /\ imp' = [imp EXCEPT ![p] = Off]
    /\ UNCHANGED <<rowVars, secret, req, pull, ever, lost, reapVars, bounds>>

\* the unit is killed, the machine restarts
Die(p) ==
    /\ imp[p].pc # "off"
    /\ imp' = [imp EXCEPT ![p] = Off]
    /\ lost' = lost \union {Job(p)}
    /\ Fault
    /\ UNCHANGED <<rowVars, secret, req, pull, ever, reapVars>>

-----------------------------------------------------------------------------
(* migrate_reap_cmd.go, a daily timer *)

ReapList_SkipFailed ==
    /\ ~reaping
    /\ reaping' = TRUE
    /\ reap' = {j \in Jobs : state[j] \in {"done", "cancelled"}}
    /\ UNCHANGED <<rowVars, secret, req, pull, runVars, bounds>>

ReapList ==
    /\ ~reaping
    /\ reaping' = TRUE
    /\ reap' = {j \in Jobs : state[j] \in Terminal}
    /\ UNCHANGED <<rowVars, secret, req, pull, runVars, bounds>>

ReapSecret(j) ==
    /\ j \in reap
    /\ secret' = secret \ {j}
    /\ reap' = reap \ {j}
    /\ UNCHANGED <<rowVars, req, pull, runVars, reaping, bounds>>

\* CancelDraftsOlderThan: drafts untouched for a day are deleted, without a
\* look at their secrets
ReapDrafts(D) ==
    /\ reaping /\ reap = {}
    /\ \A j \in D : state[j] = "draft"
    /\ state' = [j \in Jobs |-> IF j \in D THEN "deleted" ELSE state[j]]
    /\ stage' = [j \in Jobs |-> IF j \in D THEN [s \in Stages |-> "absent"]
                                         ELSE stage[j]]
    /\ reaping' = FALSE
    /\ UNCHANGED <<named, secret, req, pull, runVars, reap, bounds>>

-----------------------------------------------------------------------------
Request ==
    \/ \E j \in Jobs : Create(j) \/ PatchDraft(j)
    \/ \E h \in Handlers, j \in Jobs :
          BulkCreate(h, j) \/ \E op \in Ops : Admit(h, op, j)
    \/ \E h \in Handlers :
          \/ Cancel(h) \/ CancelBatch(h) \/ Destroy(h) \/ UploadSecrets(h)
          \/ CloneSecret(h) \/ Submit(h) \/ PullSourceRun(h) \/ ImportRun(h)
          \/ Retry(h) \/ Drop(h)

Pull(j) == PullBegin(j) \/ PullWork(j) \/ PullKick(j) \/ PullDies(j)

Run(p) ==
    \/ PrepareFails(p) \/ Load(p) \/ Skip(p) \/ Refuse(p) \/ Enter(p)
    \/ Work(p) \/ RunFails(p) \/ WorkFails(p) \/ Finish(p) \/ Clean(p)

Reap ==
    \/ ReapList
    \/ \E j \in Jobs : ReapSecret(j)
    \/ \E D \in SUBSET Jobs : ReapDrafts(D)

Next ==
    \/ Request
    \/ \E j \in Jobs : Pull(j)
    \/ \E p \in Imports : StartShell(p) \/ Run(p) \/ Die(p)
    \/ Reap

Spec == Init /\ [][Next]_vars

\* the timer is persistent and starts a new pass after each
FairSpec == Spec /\ WF_vars(Reap)

-----------------------------------------------------------------------------
\* Every variable has its type: rows, requests, units, imports and reaper.
TypeOK ==
    /\ state \in [Jobs -> States]
    /\ named \subseteq Jobs /\ secret \subseteq Jobs
    /\ stage \in [Jobs -> [Stages ->
                    {"absent", "pending", "running", "done", "failed"}]]
    /\ req \in [Handlers -> {Idle} \union [op : Ops, job : Jobs]]
    /\ pull \in [Jobs -> {"off", "begin", "pulling", "kick"}]
    /\ imp \in [Imports -> [pc : {"off", "load", "stage", "refused", "work", "clean"},
                            copy : States, at : 1..5]]
    /\ reaping \in BOOLEAN /\ reap \subseteq Jobs
    /\ ever \in [Jobs -> SUBSET Stages]
    /\ lost \subseteq Jobs
    /\ asked \in 0..MaxAsked /\ faults \in 0..MaxFaults

\* A job is done only when each of its four stages has been completed, by the
\* import that finished it or by an earlier one: whatever is cancelled,
\* retried or imported from a shell meanwhile, no stage is passed over
\* (Runner.Run).
DoneMeansEveryStageRan ==
    \A j \in Jobs : state[j] = "done" => ever[j] = Stages

\* A job that says it is analyzing, fixing, validating or restoring has an
\* import at work on it, unless one was killed or could not write its failure:
\* every way out of Run leaves a state that says the work has ended.
InFlightHasRunner ==
    \A j \in Jobs :
        state[j] \in InFlight /\ j \notin lost
            => \E o \in Origins : imp[<<j, o>>].pc \notin {"off", "clean"}

\* A finished job that is not deleted or retried loses its credentials in the
\* end, though an upload admitted before it finished may write them after the
\* wipe: the reaper looks at every finished row (reap-secrets).
FinishedJobLosesSecret ==
    \A j \in Jobs :
        state[j] \in Terminal /\ j \in secret
            ~> j \notin secret \/ state[j] \notin Terminal

\* A deleted row never comes back: the late write of an import, a pull or a
\* request to a row that was destroyed changes nothing (UpdateState).
DeletedStaysDeleted ==
    [][\A j \in Jobs : state[j] = "deleted" => state'[j] = "deleted"]_vars

=============================================================================
