------------------------- MODULE MigrationJob_proofs -------------------------
(***************************************************************************)
(* Proofs about MigrationJob for every set of jobs, handlers and shells    *)
(* and every bound.                                                        *)
(*                                                                         *)
(* Done: an import has passed a stage only when somebody completed it,     *)
(* since it goes on after running it or after reading a row that says      *)
(* done; and what was completed once stays so in the history, though the   *)
(* row may be reset under the import.                                      *)
(*                                                                         *)
(* In flight: the import that accounts for a job in flight is one that has *)
(* not read the row yet or whose copy is itself in flight.  Such a one     *)
(* writes failed or done when it ends; the others may end in silence.      *)
(***************************************************************************)
EXTENDS MigrationJob, TLAPS

Copies == [pc : {"off", "load", "stage", "refused", "work", "clean"},
           copy : States, at : 1..5]
StageStates == {"absent", "pending", "running", "done", "failed"}

\* A running callback is one of the four stages'.
WorkAtStage == \A p \in Imports : imp[p].pc = "work" => imp[p].at \in Stages

\* A stage row says done only of a stage that was completed.
RowsAreTrue == \A j \in Jobs, s \in Stages : stage[j][s] = "done" => s \in ever[j]

\* An import has passed only stages that were completed.
PassedStagesRan ==
    \A p \in Imports : \A s \in Stages : s < imp[p].at => s \in ever[Job(p)]

\* The import that will write how the job ends.
Answers(p) ==
    \/ imp[p].pc = "load"
    \/ imp[p].pc \in {"stage", "refused", "work"} /\ imp[p].copy \in InFlight

InFlightIsAnswered ==
    \A j \in Jobs : state[j] \in InFlight /\ j \notin lost
                      => \E o \in Origins : Answers(<<j, o>>)

Types == TypeOK /\ WorkAtStage
History == RowsAreTrue /\ PassedStagesRan /\ DoneMeansEveryStageRan

IInv == Types /\ History /\ InFlightIsAnswered

LEMMA InitIInv == Init => IInv
<1> SUFFICES ASSUME Init PROVE IInv
    OBVIOUS
<1> USE DEF Init
<1>1. Types
    <2>1. Off \in Copies /\ "none" \in States
        BY DEF Off, Copies, States
    <2>2. TypeOK
        <3>1. state \in [Jobs -> States] /\ imp \in [Imports -> Copies]
            BY <2>1
        <3>2. asked \in 0..MaxAsked /\ faults \in 0..MaxFaults
            BY ConstantsAssumption
        <3>3. /\ stage \in [Jobs -> [Stages -> StageStates]]
              /\ ever \in [Jobs -> SUBSET Stages]
              /\ pull \in [Jobs -> {"off", "begin", "pulling", "kick"}]
            BY DEF StageStates
        <3>4. req \in [Handlers -> {Idle} \union [op : Ops, job : Jobs]]
            BY Zenon
        <3> QED
            BY <3>1, <3>2, <3>3, <3>4 DEF TypeOK, Copies, StageStates
    <2> QED
        BY <2>2 DEF Types, WorkAtStage, Off
<1>2. History
    BY DEF History, RowsAreTrue, PassedStagesRan, DoneMeansEveryStageRan, Off, Stages,
           Imports
<1>3. InFlightIsAnswered
    BY DEF InFlightIsAnswered, InFlight
<1> QED
    BY <1>1, <1>2, <1>3 DEF IInv

\* A request that has passed its check names a job.
LEMMA RequestNamesJob ==
    ASSUME TypeOK, NEW h \in Handlers, NEW op \in Ops, Doing(h, op)
    PROVE  req[h] \in [op : Ops, job : Jobs] /\ req[h].job \in Jobs
<1>1. req[h] # Idle
    BY DEF Doing, Ops, Idle
<1> QED
    BY <1>1 DEF TypeOK

\* An import is of a job and was started somewhere.
LEMMA ImportShape ==
    ASSUME NEW p \in Imports
    PROVE  Job(p) \in Jobs /\ p[2] \in Origins /\ p = <<Job(p), p[2]>>
BY DEF Imports, Job

-----------------------------------------------------------------------------
(* What the helpers write.                                                 *)

LEMMA UpdateStateTyped ==
    ASSUME TypeOK, NEW j \in Jobs, NEW s \in States, UpdateState(j, s)
    PROVE  /\ state' \in [Jobs -> States]
           /\ \A i \in Jobs \ {j} : state'[i] = state[i]
           /\ state'[j] = IF Exists(j) THEN s ELSE state[j]
BY DEF TypeOK, UpdateState

LEMMA SetStageTyped ==
    ASSUME TypeOK, NEW j \in Jobs, NEW s \in Stages, NEW v \in StageStates,
           SetStage(j, s, v)
    PROVE  /\ stage' \in [Jobs -> [Stages -> StageStates]]
           /\ stage'[j][s] = v
           /\ \A i \in Jobs, t \in Stages : i # j \/ t # s => stage'[i][t] = stage[i][t]
BY DEF TypeOK, SetStage, StageStates

\* An import's record changes and the others' do not.
LEMMA ImportStep ==
    ASSUME TypeOK, NEW p \in Imports, NEW r \in Copies, imp' = [imp EXCEPT ![p] = r]
    PROVE  /\ imp' \in [Imports -> Copies] /\ imp'[p] = r
           /\ \A q \in Imports \ {p} : imp'[q] = imp[q]
BY DEF TypeOK, Copies

LEMMA ImportTypes ==
    ASSUME Types, NEW p \in Imports, NEW r \in Copies,
           imp' = [imp EXCEPT ![p] = r], r.pc = "work" => r.at \in Stages
    PROVE  imp' \in [Imports -> Copies] /\ WorkAtStage'
<1>1. /\ imp' \in [Imports -> Copies] /\ imp'[p] = r
      /\ \A q \in Imports \ {p} : imp'[q] = imp[q]
    BY ImportStep DEF Types
<1> QED
    BY <1>1 DEF Types, WorkAtStage

\* The unit starts from a record like any that ended, and the job counts as
\* attended to again.
LEMMA StartUnitStep ==
    ASSUME TypeOK, NEW j \in Jobs, StartUnit(j)
    PROVE  \/ UNCHANGED <<imp, lost>>
           \/ \E p \in Imports :
                /\ Job(p) = j /\ imp[p].pc = "off"
                /\ imp' = [imp EXCEPT ![p] = [imp[p] EXCEPT !.pc = "load"]]
                /\ lost' = lost \ {j}
<1>1. <<j, "unit">> \in Imports /\ Job(<<j, "unit">>) = j
    BY DEF Imports, Origins, Job
<1> QED
    BY <1>1 DEF StartUnit, TypeOK

LEMMA StartUnitTypes ==
    ASSUME Types, NEW j \in Jobs, StartUnit(j)
    PROVE  imp' \in [Imports -> Copies] /\ lost' \subseteq Jobs /\ WorkAtStage'
<1> USE DEF Types
<1>1. CASE UNCHANGED <<imp, lost>>
    BY <1>1 DEF TypeOK, Copies, WorkAtStage
<1>2. ASSUME NEW p \in Imports, lost' = lost \ {j},
             imp' = [imp EXCEPT ![p] = [imp[p] EXCEPT !.pc = "load"]]
      PROVE  imp' \in [Imports -> Copies] /\ lost' \subseteq Jobs /\ WorkAtStage'
    <2> DEFINE r == [imp[p] EXCEPT !.pc = "load"]
    <2>1. r \in Copies /\ r.pc # "work"
        BY DEF TypeOK, Copies
    <2>2. lost' \subseteq Jobs /\ imp' = [imp EXCEPT ![p] = r]
        BY <1>2 DEF TypeOK
    <2> HIDE DEF r
    <2> QED
        BY <2>1, <2>2, ImportTypes
<1> QED
    BY <1>1, <1>2, StartUnitStep

LEMMA OffTyped == Off \in Copies
BY DEF Off, Copies, States

LEMMA CountersTyped ==
    ASSUME TypeOK, Ask \/ Fault \/ UNCHANGED bounds
    PROVE  asked' \in 0..MaxAsked /\ faults' \in 0..MaxFaults
BY ConstantsAssumption DEF TypeOK, Ask, Fault, bounds

\* fail ends the import, and the job in flight with it: the row says failed, or
\* the write was lost, or the import's copy was not in flight.
LEMMA FailStep ==
    ASSUME TypeOK, NEW p \in Imports, fail(p)
    PROVE  /\ state' \in [Jobs -> States]
           /\ \A j \in Jobs : state'[j] \in InFlight \union {"done", "deleted"} => state'[j] = state[j]
           /\ \A j \in Jobs : state[j] = "deleted" => state'[j] = "deleted"
           /\ lost \subseteq lost' /\ lost' \subseteq Jobs
           /\ imp[p].copy \in InFlight /\ Exists(Job(p)) =>
                \/ state'[Job(p)] = "failed"
                \/ Job(p) \in lost'
           /\ secret' \subseteq Jobs
           /\ imp' = [imp EXCEPT ![p] = [imp[p] EXCEPT !.pc = "clean"]]
           /\ asked' \in 0..MaxAsked /\ faults' \in 0..MaxFaults
<1> USE ImportShape
<1>0. "failed" \in States
    BY DEF States, Terminal
<1>1. imp' = [imp EXCEPT ![p] = [imp[p] EXCEPT !.pc = "clean"]]
    BY DEF fail, Goto, TypeOK
<1>2. UNCHANGED bounds \/ Fault
    BY DEF fail
<1>3. \/ UpdateState(Job(p), "failed") /\ UNCHANGED lost
      \/ lost' = lost \union {Job(p)} /\ UNCHANGED state
      \/ ~IsValidJobTransition(imp[p].copy, "failed") /\ UNCHANGED <<state, lost>>
    BY DEF fail
<1>4. secret' \subseteq Jobs
    BY DEF fail, TypeOK
<1>5. imp[p].copy \in InFlight => IsValidJobTransition(imp[p].copy, "failed")
    BY DEF InFlight, IsValidJobTransition, jobTransitions
<1>6. /\ state' \in [Jobs -> States]
      /\ \A j \in Jobs : state'[j] \in InFlight \union {"done", "deleted"} => state'[j] = state[j]
      /\ \A j \in Jobs : state[j] = "deleted" => state'[j] = "deleted"
    BY <1>0, <1>3, UpdateStateTyped DEF TypeOK, InFlight, Exists
<1>7. /\ lost \subseteq lost' /\ lost' \subseteq Jobs
      /\ imp[p].copy \in InFlight /\ Exists(Job(p)) =>
                \/ state'[Job(p)] = "failed"
                \/ Job(p) \in lost'
    BY <1>0, <1>3, <1>5, UpdateStateTyped DEF TypeOK
<1> QED
    BY <1>1, <1>2, <1>4, <1>6, <1>7, CountersTyped

-----------------------------------------------------------------------------
(* Every variable keeps its type.                                          *)

LEMMA RequestTypes == Types /\ Request => Types'
<1> SUFFICES ASSUME Types, Request PROVE Types'
    OBVIOUS
<1> USE DEF Types
<1>s. /\ {"draft", "pending", "cancelled", "deleted"} \subseteq States
      /\ "absent" \in StageStates /\ "pending" \in StageStates
    BY DEF States, Live, Terminal, StageStates
<1>f. UNCHANGED imp => WorkAtStage'
    BY DEF WorkAtStage
<1>b. Ask \/ Fault \/ UNCHANGED bounds => asked' \in 0..MaxAsked /\ faults' \in 0..MaxFaults
    BY CountersTyped
<1>1. ASSUME NEW j \in Jobs, Create(j) \/ PatchDraft(j)
      PROVE  Types'
    <2>1. state' \in [Jobs -> States]
        BY <1>1, <1>s DEF Create, PatchDraft, TypeOK
    <2>2. /\ named' \subseteq Jobs
          /\ UNCHANGED <<stage, secret, req, pull, imp, ever, lost, reaping, reap, bounds>>
        BY <1>1 DEF Create, PatchDraft, TypeOK, runVars, reapVars
    <2> QED
        BY <1>f, <1>b, <2>1, <2>2 DEF TypeOK
<1>2. ASSUME NEW h \in Handlers, NEW j \in Jobs, BulkCreate(h, j)
      PROVE  Types'
    <2>1. /\ state' \in [Jobs -> States] /\ named' \subseteq Jobs
          /\ req' \in [Handlers -> {Idle} \union [op : Ops, job : Jobs]]
        BY <1>2, <1>s DEF BulkCreate, TypeOK, Ops
    <2>2. Ask /\ UNCHANGED <<stage, secret, pull, imp, ever, lost, reaping, reap>>
        BY <1>2 DEF BulkCreate, runVars, reapVars
    <2> QED
        BY <1>f, <1>b, <2>1, <2>2 DEF TypeOK
<1>3. ASSUME NEW h \in Handlers, NEW j \in Jobs, NEW op \in Ops, Admit(h, op, j)
      PROVE  Types'
    <2>1. req' \in [Handlers -> {Idle} \union [op : Ops, job : Jobs]]
        BY <1>3 DEF Admit, TypeOK
    <2>2. Ask /\ UNCHANGED <<state, named, stage, secret, pull, imp, ever, lost, reaping, reap>>
        BY <1>3 DEF Admit, rowVars, runVars, reapVars
    <2> QED
        BY <1>f, <1>b, <2>1, <2>2 DEF TypeOK
<1>4. ASSUME NEW h \in Handlers,
             \/ Cancel(h) \/ CancelBatch(h) \/ Destroy(h) \/ UploadSecrets(h)
             \/ CloneSecret(h) \/ Submit(h) \/ PullSourceRun(h) \/ ImportRun(h)
             \/ Retry(h) \/ Drop(h)
      PROVE  Types'
    <2> DEFINE j == req[h].job
               Reqs == [Handlers -> {Idle} \union [op : Ops, job : Jobs]]
    <2>j. ASSUME NEW op \in Ops, Doing(h, op)
          PROVE  j \in Jobs /\ req[h] \in [op : Ops, job : Jobs]
        BY <2>j, RequestNamesJob
    <2>o. {"cancel", "cancelBatch", "destroy", "secrets", "clone", "pull",
           "import", "submit", "retry", "scratch"} \subseteq Ops
        BY DEF Ops
    <2>a. Answer(h) => req' \in Reqs
        BY DEF Answer, TypeOK
    <2>g. ASSUME NEW op \in Ops, Doing(h, op), GoOn(h, "pull") \/ Answer(h)
          PROVE  req' \in Reqs
        <3>1. [req[h] EXCEPT !.op = "pull"] \in [op : Ops, job : Jobs]
            BY <2>g, <2>j, <2>o
        <3> QED
            BY <2>g, <2>a, <3>1 DEF GoOn, TypeOK
    <2>u. ASSUME NEW op \in Ops, Doing(h, op), NEW s \in States, UpdateState(j, s)
          PROVE  state' \in [Jobs -> States]
        BY <2>u, <2>j, UpdateStateTyped
    <2> HIDE DEF Reqs
    <2>1. CASE Cancel(h) \/ CancelBatch(h)
        <3>1. Doing(h, "cancel") \/ Doing(h, "cancelBatch")
            BY <2>1 DEF Cancel, CancelBatch
        <3>2. state' \in [Jobs -> States] /\ req' \in Reqs /\ secret' \subseteq Jobs
            BY <1>s, <2>1, <2>o, <2>u, <2>a, <3>1 DEF Cancel, CancelBatch, PanelWipe, TypeOK
        <3>3. UNCHANGED <<named, stage, pull, imp, ever, lost, reaping, reap, bounds>>
            BY <2>1 DEF Cancel, CancelBatch, runVars, reapVars
        <3> QED
            BY <1>f, <1>b, <3>2, <3>3 DEF TypeOK, Reqs
    <2>2. CASE Destroy(h)
        <3>1. j \in Jobs
            BY <2>2, <2>j, <2>o DEF Destroy
        <3>2. state' \in [Jobs -> States] /\ req' \in Reqs /\ secret' \subseteq Jobs
            BY <1>s, <2>2, <2>o, <2>u, <2>a DEF Destroy, PanelWipe, TypeOK
        <3>3. stage' \in [Jobs -> [Stages -> StageStates]]
            BY <1>s, <2>2, <3>1 DEF Destroy, TypeOK, StageStates
        <3>4. UNCHANGED <<named, pull, imp, ever, lost, reaping, reap, bounds>>
            BY <2>2 DEF Destroy, runVars, reapVars
        <3> QED
            BY <1>f, <1>b, <3>2, <3>3, <3>4 DEF TypeOK, Reqs, StageStates
    <2>3. CASE UploadSecrets(h) \/ PullSourceRun(h)
        <3>1. j \in Jobs
            BY <2>3, <2>j, <2>o DEF UploadSecrets, PullSourceRun
        <3>2. /\ secret' \subseteq Jobs /\ req' \in Reqs
              /\ pull' \in [Jobs -> {"off", "begin", "pulling", "kick"}]
            BY <2>3, <2>a, <3>1 DEF UploadSecrets, PullSourceRun, TypeOK
        <3>3. UNCHANGED <<state, named, stage, imp, ever, lost, reaping, reap, bounds>>
            BY <2>3 DEF UploadSecrets, PullSourceRun, rowVars, runVars, reapVars
        <3> QED
            BY <1>f, <1>b, <3>2, <3>3 DEF TypeOK, Reqs
    <2>4. CASE CloneSecret(h) \/ Submit(h)
        <3>1. \E op \in Ops : Doing(h, op)
            BY <2>4, <2>o DEF CloneSecret, Submit
        <3>2. state' \in [Jobs -> States] /\ secret' \subseteq Jobs
            BY <1>s, <2>4, <2>j, <2>u, <3>1 DEF CloneSecret, Submit, TypeOK
        <3>3. req' \in Reqs
            BY <2>4, <2>g, <3>1 DEF CloneSecret, Submit
        <3>4. UNCHANGED <<named, stage, pull, imp, ever, lost, reaping, reap, bounds>>
            BY <2>4 DEF CloneSecret, Submit, runVars, reapVars
        <3> QED
            BY <1>f, <1>b, <3>2, <3>3, <3>4 DEF TypeOK, Reqs
    <2>5. CASE ImportRun(h)
        <3>1. j \in Jobs /\ StartUnit(j) /\ req' \in Reqs
            BY <2>5, <2>j, <2>o, <2>a DEF ImportRun
        <3>2. UNCHANGED <<state, named, stage, secret, pull, ever, reaping, reap, bounds>>
            BY <2>5 DEF ImportRun, rowVars, reapVars
        <3>3. imp' \in [Imports -> Copies] /\ lost' \subseteq Jobs /\ WorkAtStage'
            BY <3>1, StartUnitTypes
        <3> QED
            BY <1>b, <3>1, <3>2, <3>3 DEF TypeOK, Reqs, Copies
    <2>6. CASE Retry(h)
        <3>1. j \in Jobs /\ state' \in [Jobs -> States] /\ req' \in Reqs
            BY <1>s, <2>6, <2>j, <2>o, <2>u, <2>a DEF Retry
        <3>2. stage' \in [Jobs -> [Stages -> StageStates]]
            BY <1>s, <2>6, <3>1 DEF Retry, TypeOK, StageStates
        <3>3. UNCHANGED <<named, secret, pull, imp, ever, lost, reaping, reap, bounds>>
            BY <2>6 DEF Retry, runVars, reapVars
        <3> QED
            BY <1>f, <1>b, <3>1, <3>2, <3>3 DEF TypeOK, Reqs, StageStates
    <2>7. CASE Drop(h)
        <3>1. /\ Fault /\ req' \in Reqs
              /\ UNCHANGED <<state, named, stage, secret, pull, imp, ever, lost, reaping, reap>>
            BY <2>7, <2>a DEF Drop, rowVars, runVars, reapVars
        <3> QED
            BY <1>f, <1>b, <3>1 DEF TypeOK, Reqs
    <2> QED
        BY <1>4, <2>1, <2>2, <2>3, <2>4, <2>5, <2>6, <2>7
<1> QED
    BY <1>1, <1>2, <1>3, <1>4 DEF Request

LEMMA PullTypes ==
    ASSUME Types, NEW j \in Jobs, Pull(j)
    PROVE  Types'
<1> USE DEF Types
<1>b. Ask \/ Fault \/ UNCHANGED bounds => asked' \in 0..MaxAsked /\ faults' \in 0..MaxFaults
    BY CountersTyped
<1>f. UNCHANGED imp => WorkAtStage'
    BY DEF WorkAtStage
<1>p. \A s \in {"off", "begin", "pulling", "kick"} :
        [pull EXCEPT ![j] = s] \in [Jobs -> {"off", "begin", "pulling", "kick"}]
    BY DEF TypeOK
<1>1. CASE PullBegin(j) \/ PullWork(j)
    <2>1. PullFailed(j) => state' \in [Jobs -> States]
        BY UpdateStateTyped DEF PullFailed, States, Terminal
    <2>2. state' \in [Jobs -> States]
        BY <1>1, <2>1 DEF PullBegin, PullWork, TypeOK
    <2>3. /\ pull' \in [Jobs -> {"off", "begin", "pulling", "kick"}]
          /\ UNCHANGED <<named, stage, secret, req, imp, ever, lost, reaping, reap, bounds>>
        BY <1>1, <1>p DEF PullBegin, PullWork, PullFailed, runVars, reapVars
    <2> QED
        BY <1>b, <1>f, <2>2, <2>3 DEF TypeOK
<1>2. CASE PullKick(j)
    <2>1. /\ UNCHANGED <<state, named, stage, secret, req, ever, reaping, reap, bounds>>
          /\ pull' \in [Jobs -> {"off", "begin", "pulling", "kick"}]
        BY <1>2, <1>p DEF PullKick, rowVars, reapVars
    <2>2. imp' \in [Imports -> Copies] /\ lost' \subseteq Jobs /\ WorkAtStage'
        BY <1>2, StartUnitTypes DEF PullKick
    <2> QED
        BY <1>b, <2>1, <2>2 DEF TypeOK, Copies
<1>3. CASE PullDies(j)
    <2>1. /\ UNCHANGED <<state, named, stage, secret, req, imp, ever, lost, reaping, reap>>
          /\ Fault /\ pull' \in [Jobs -> {"off", "begin", "pulling", "kick"}]
        BY <1>3, <1>p DEF PullDies, rowVars, runVars, reapVars
    <2> QED
        BY <1>b, <1>f, <2>1 DEF TypeOK
<1> QED
    BY <1>1, <1>2, <1>3 DEF Pull

LEMMA RunTypes ==
    ASSUME Types, NEW p \in Imports, StartShell(p) \/ Run(p) \/ Die(p)
    PROVE  Types'
<1> USE DEF Types
<1>j. Job(p) \in Jobs /\ imp[p] \in Copies /\ state[Job(p)] \in States
    BY ImportShape DEF TypeOK, Copies
<1>b. Ask \/ Fault \/ UNCHANGED bounds => asked' \in 0..MaxAsked /\ faults' \in 0..MaxFaults
    BY CountersTyped
<1>g. ASSUME NEW pc \in {"load", "refused", "clean"}, Goto(p, pc)
      PROVE  imp' \in [Imports -> Copies] /\ WorkAtStage'
    <2> DEFINE r == [imp[p] EXCEPT !.pc = pc]
    <2>1. r \in Copies /\ r.pc # "work"
        BY <1>j DEF Copies
    <2>2. imp' = [imp EXCEPT ![p] = r]
        BY <1>g DEF Goto, TypeOK
    <2> HIDE DEF r
    <2> QED
        BY <2>1, <2>2, ImportTypes
<1>o. imp' = [imp EXCEPT ![p] = Off] => imp' \in [Imports -> Copies] /\ WorkAtStage'
    BY OffTyped, ImportTypes DEF Off
<1>f. fail(p) => /\ state' \in [Jobs -> States] /\ secret' \subseteq Jobs /\ lost' \subseteq Jobs
                 /\ imp' \in [Imports -> Copies] /\ WorkAtStage'
                 /\ asked' \in 0..MaxAsked /\ faults' \in 0..MaxFaults
    BY <1>g, FailStep DEF fail
<1>1. CASE StartShell(p)
    <2>1. /\ Goto(p, "load") /\ Ask /\ lost' = lost \ {Job(p)}
          /\ UNCHANGED <<state, named, stage, secret, req, pull, ever, reaping, reap>>
        BY <1>1 DEF StartShell, rowVars, reapVars
    <2>2. imp' \in [Imports -> Copies] /\ WorkAtStage'
        BY <1>g, <2>1
    <2> QED
        BY <1>b, <2>1, <2>2 DEF TypeOK, Copies
<1>2. CASE PrepareFails(p)
    <2>1. state' \in [Jobs -> States] /\ lost' \subseteq Jobs
        BY <1>2, <1>j, UpdateStateTyped DEF PrepareFails, TypeOK, States, Terminal
    <2>2. /\ imp' = [imp EXCEPT ![p] = Off]
          /\ Fault \/ UNCHANGED bounds
          /\ UNCHANGED <<named, stage, secret, req, pull, ever, reaping, reap>>
        BY <1>2 DEF PrepareFails, reapVars
    <2> QED
        BY <1>b, <1>o, <2>1, <2>2 DEF TypeOK, Copies
<1>3. CASE Load(p)
    <2>1. PICK r \in Copies : imp' = [imp EXCEPT ![p] = r] /\ r.pc # "work"
        <3> DEFINE r == IF ~Exists(Job(p)) THEN Off
                        ELSE [pc |-> IF state[Job(p)] = "done" THEN "clean" ELSE "stage",
                              copy |-> state[Job(p)], at |-> 1]
        <3>1. r \in Copies /\ r.pc # "work"
            BY <1>j, OffTyped DEF Copies, Off
        <3>2. imp' = [imp EXCEPT ![p] = r]
            BY <1>3 DEF Load
        <3> QED
            BY <3>1, <3>2
    <2>2. imp' \in [Imports -> Copies] /\ WorkAtStage'
        BY <2>1, ImportTypes
    <2>3. UNCHANGED <<state, named, stage, secret, req, pull, ever, lost, reaping, reap, bounds>>
        BY <1>3 DEF Load, rowVars, reapVars
    <2> QED
        BY <1>b, <2>2, <2>3 DEF TypeOK, Copies
<1>4. CASE Skip(p)
    <2> DEFINE r == [imp[p] EXCEPT !.at = @ + 1]
    <2>1. r \in Copies /\ r.pc # "work"
        BY <1>4, <1>j DEF Skip, Copies, Stages
    <2>2. imp' = [imp EXCEPT ![p] = r]
        BY <1>4, <1>j DEF Skip, TypeOK, Copies
    <2> HIDE DEF r
    <2>3. imp' \in [Imports -> Copies] /\ WorkAtStage'
        BY <2>1, <2>2, ImportTypes
    <2>4. UNCHANGED <<state, named, stage, secret, req, pull, ever, lost, reaping, reap, bounds>>
        BY <1>4 DEF Skip, rowVars, reapVars
    <2> QED
        BY <1>b, <2>3, <2>4 DEF TypeOK, Copies
<1>5. CASE Refuse(p)
    <2>1. stage' \in [Jobs -> [Stages -> StageStates]]
        BY <1>5, <1>j, SetStageTyped DEF Refuse, TypeOK, StageStates
    <2>2. imp' \in [Imports -> Copies] /\ WorkAtStage'
        BY <1>5, <1>g DEF Refuse
    <2>3. UNCHANGED <<state, named, secret, req, pull, ever, lost, reaping, reap, bounds>>
        BY <1>5 DEF Refuse, reapVars
    <2> QED
        BY <1>b, <2>1, <2>2, <2>3 DEF TypeOK, Copies, StageStates
<1>6. CASE Enter(p)
    <2> DEFINE r == [imp[p] EXCEPT !.pc = "work", !.copy = NextState(p)]
    <2>1. NextState(p) \in States
        BY <1>6 DEF Enter, NextState, jobStateForStage, Stages, States, Live, InFlight
    <2>2. r \in Copies /\ r.at \in Stages
        BY <1>6, <1>j, <2>1 DEF Enter, Copies
    <2>3. imp' = [imp EXCEPT ![p] = r]
        BY <1>6, <1>j DEF Enter, TypeOK, Copies
    <2> HIDE DEF r
    <2>4. imp' \in [Imports -> Copies] /\ WorkAtStage'
        BY <2>2, <2>3, ImportTypes
    <2>5. state' \in [Jobs -> States] /\ stage' \in [Jobs -> [Stages -> StageStates]]
        BY <1>6, <1>j, <2>1, UpdateStateTyped, SetStageTyped DEF Enter, StageStates
    <2>6. UNCHANGED <<named, secret, req, pull, ever, lost, reaping, reap, bounds>>
        BY <1>6 DEF Enter, reapVars
    <2> QED
        BY <1>b, <2>4, <2>5, <2>6 DEF TypeOK, Copies, StageStates
<1>7. CASE Work(p)
    <2> DEFINE r == [imp[p] EXCEPT !.pc = "stage", !.at = @ + 1]
    <2>0. imp[p].at \in Stages
        BY <1>7 DEF Work, WorkAtStage
    <2>1. r \in Copies /\ r.pc # "work"
        <3>1. PICK n \in 1..5 : n = imp[p].at + 1
            BY <2>0 DEF Stages
        <3>2. r = [imp[p] EXCEPT !.pc = "stage", !.at = n]
            BY <3>1
        <3> QED
            BY <1>j, <3>2 DEF Copies
    <2>2. imp' = [imp EXCEPT ![p] = r]
        BY <1>7, <1>j DEF Work, TypeOK, Copies
    <2> HIDE DEF r
    <2>3. imp' \in [Imports -> Copies] /\ WorkAtStage'
        BY <2>1, <2>2, ImportTypes
    <2>4. stage' \in [Jobs -> [Stages -> StageStates]]
        BY <1>7, <1>j, <2>0, SetStageTyped DEF Work, StageStates
    <2>5. ever' \in [Jobs -> SUBSET Stages]
        BY <1>7, <1>j, <2>0 DEF Work, TypeOK
    <2>6. UNCHANGED <<state, named, secret, req, pull, lost, reaping, reap, bounds>>
        BY <1>7 DEF Work, reapVars
    <2> QED
        BY <1>b, <2>3, <2>4, <2>5, <2>6 DEF TypeOK, Copies, StageStates
<1>8. CASE RunFails(p) \/ WorkFails(p)
    <2>1. stage' \in [Jobs -> [Stages -> StageStates]]
        BY <1>8, <1>j, SetStageTyped DEF RunFails, WorkFails, TypeOK, StageStates, WorkAtStage
    <2>2. fail(p) /\ UNCHANGED <<named, req, pull, ever, reaping, reap>>
        BY <1>8 DEF RunFails, WorkFails, reapVars
    <2> QED
        BY <1>f, <2>1, <2>2 DEF TypeOK, Copies, StageStates
<1>9. CASE Finish(p)
    <2>1. state' \in [Jobs -> States]
        BY <1>9, <1>j, UpdateStateTyped DEF Finish, States, Terminal
    <2>2. imp' \in [Imports -> Copies] /\ WorkAtStage' /\ secret' \subseteq Jobs
        BY <1>9, <1>g DEF Finish, TypeOK
    <2>3. UNCHANGED <<named, stage, req, pull, ever, lost, reaping, reap, bounds>>
        BY <1>9 DEF Finish, reapVars
    <2> QED
        BY <1>b, <2>1, <2>2, <2>3 DEF TypeOK, Copies
<1>10. CASE Clean(p) \/ Die(p)
    <2>1. /\ imp' = [imp EXCEPT ![p] = Off]
          /\ Fault \/ UNCHANGED bounds
          /\ lost' \subseteq Jobs
          /\ UNCHANGED <<state, named, stage, secret, req, pull, ever, reaping, reap>>
        BY <1>10, <1>j DEF Clean, Die, rowVars, reapVars, TypeOK
    <2> QED
        BY <1>b, <1>o, <2>1 DEF TypeOK, Copies
<1> QED
    BY <1>1, <1>2, <1>3, <1>4, <1>5, <1>6, <1>7, <1>8, <1>9, <1>10 DEF Run

LEMMA ReapTypes == Types /\ Reap => Types'
<1> SUFFICES ASSUME Types, Reap PROVE Types'
    OBVIOUS
<1> USE DEF Types
<1>f. UNCHANGED imp => WorkAtStage'
    BY DEF WorkAtStage
<1>b. UNCHANGED bounds => asked' \in 0..MaxAsked /\ faults' \in 0..MaxFaults
    BY CountersTyped
<1>1. CASE ReapList
    BY <1>f, <1>b, <1>1 DEF ReapList, TypeOK, rowVars, runVars
<1>2. ASSUME NEW j \in Jobs, ReapSecret(j) PROVE Types'
    BY <1>f, <1>b, <1>2 DEF ReapSecret, TypeOK, rowVars, runVars
<1>3. ASSUME NEW D \in SUBSET Jobs, ReapDrafts(D) PROVE Types'
    <2>1. state' \in [Jobs -> States]
        BY <1>3 DEF ReapDrafts, TypeOK, States
    <2>2. stage' \in [Jobs -> [Stages -> StageStates]]
        BY <1>3 DEF ReapDrafts, TypeOK, StageStates
    <2>3. /\ reaping' \in BOOLEAN
          /\ UNCHANGED <<named, secret, req, pull, imp, ever, lost, reap, bounds>>
        BY <1>3 DEF ReapDrafts, runVars
    <2> QED
        BY <1>f, <1>b, <2>1, <2>2, <2>3 DEF TypeOK, StageStates
<1> QED
    BY <1>1, <1>2, <1>3 DEF Reap

-----------------------------------------------------------------------------
(* What a step may do to history and to the job in flight.                 *)

\* The history is kept by a step after which whatever is claimed anew - a row
\* that says done, a stage that was passed - was completed.
LEMMA HistoryKept ==
    ASSUME Types, Types', History,
           \A j \in Jobs : ever[j] \subseteq ever'[j],
           \A j \in Jobs : state'[j] = "done" => state[j] = "done" \/ ever'[j] = Stages,
           \A j \in Jobs, s \in Stages :
              stage'[j][s] = "done" => stage[j][s] = "done" \/ s \in ever'[j],
           \A p \in Imports : \/ imp'[p].at = imp[p].at
                              \/ \A s \in Stages : s < imp'[p].at => s \in ever'[Job(p)]
    PROVE  History'
<1>1. RowsAreTrue'
    BY DEF History, RowsAreTrue
<1>2. PassedStagesRan'
    BY ImportShape DEF History, PassedStagesRan, Job
<1>3. DoneMeansEveryStageRan'
    <2>1. \A j \in Jobs : ever'[j] \subseteq Stages
        BY DEF Types, TypeOK
    <2> QED
        BY <2>1 DEF History, DoneMeansEveryStageRan
<1> QED
    BY <1>1, <1>2, <1>3 DEF History

\* A step that neither touches an import nor makes a row say done or in flight
\* keeps both: every request and pull, and the reaper.
LEMMA QuietStep ==
    ASSUME IInv, Types', UNCHANGED <<imp, ever, lost>>,
           \A j \in Jobs : state'[j] \in InFlight \union {"done"} => state'[j] = state[j],
           \A j \in Jobs, s \in Stages : stage'[j][s] = "done" => stage[j][s] = "done"
    PROVE  IInv'
<1>1. History'
    BY HistoryKept DEF IInv
<1>2. InFlightIsAnswered'
    BY DEF IInv, InFlightIsAnswered, Answers
<1> QED
    BY <1>1, <1>2 DEF IInv

\* An import that begins answers for its job.
LEMMA BeginStep ==
    ASSUME IInv, Types', NEW p \in Imports,
           imp' = [imp EXCEPT ![p] = [imp[p] EXCEPT !.pc = "load"]],
           lost' = lost \ {Job(p)}, UNCHANGED <<state, stage, ever>>
    PROVE  IInv'
<1> USE DEF IInv
<1>0. /\ imp \in [Imports -> Copies] /\ imp'[p].pc = "load" /\ imp'[p].at = imp[p].at
      /\ \A q \in Imports \ {p} : imp'[q] = imp[q]
    BY DEF Types, TypeOK, Copies
<1>1. History'
    BY <1>0, HistoryKept
<1>2. InFlightIsAnswered'
    <2> SUFFICES ASSUME NEW j \in Jobs, state[j] \in InFlight, j \notin lost'
                 PROVE  \E o \in Origins : Answers(<<j, o>>)'
        BY DEF InFlightIsAnswered
    <2>1. CASE j = Job(p)
        BY <1>0, <2>1, ImportShape DEF Answers
    <2>2. CASE j # Job(p)
        <3>1. PICK o \in Origins : Answers(<<j, o>>)
            BY <2>2 DEF InFlightIsAnswered
        <3>2. <<j, o>> \in Imports \ {p}
            BY <2>2 DEF Imports, Job
        <3> QED
            BY <1>0, <3>1, <3>2 DEF Answers
    <2> QED
        BY <2>1, <2>2
<1> QED
    BY <1>1, <1>2

LEMMA RequestIInv == IInv /\ Request => IInv'
<1> SUFFICES ASSUME IInv, Request PROVE IInv'
    OBVIOUS
<1>t. Types'
    BY RequestTypes DEF IInv
<1>0. TypeOK /\ "done" \notin InFlight
      /\ {"draft", "pending", "cancelled", "deleted", "none"} \subseteq States \ (InFlight \union {"done"})
    BY DEF IInv, Types, States, Live, Terminal, InFlight
<1>1. ASSUME NEW j \in Jobs, Create(j) \/ PatchDraft(j)
      PROVE  IInv'
    BY <1>t, <1>0, <1>1, QuietStep DEF Create, PatchDraft, runVars, TypeOK
<1>2. ASSUME NEW h \in Handlers, NEW j \in Jobs, BulkCreate(h, j)
      PROVE  IInv'
    BY <1>t, <1>0, <1>2, QuietStep DEF BulkCreate, runVars, TypeOK
<1>3. ASSUME NEW h \in Handlers, NEW j \in Jobs, NEW op \in Ops, Admit(h, op, j)
      PROVE  IInv'
    BY <1>t, <1>3, QuietStep DEF Admit, rowVars, runVars
<1>4. ASSUME NEW h \in Handlers,
             \/ Cancel(h) \/ CancelBatch(h) \/ Destroy(h) \/ UploadSecrets(h)
             \/ CloneSecret(h) \/ Submit(h) \/ PullSourceRun(h) \/ ImportRun(h)
             \/ Retry(h) \/ Drop(h)
      PROVE  IInv'
    <2> DEFINE j == req[h].job
    <2>o. {"cancel", "cancelBatch", "destroy", "secrets", "clone", "pull",
           "import", "submit", "retry", "scratch"} \subseteq Ops
        BY DEF Ops
    <2>j. ASSUME NEW op \in Ops, Doing(h, op)
          PROVE  j \in Jobs
        BY <1>0, <2>j, RequestNamesJob
    <2>u. ASSUME NEW op \in Ops, Doing(h, op),
                 NEW s \in {"draft", "pending", "cancelled", "deleted"}, UpdateState(j, s)
          PROVE  \A i \in Jobs : state'[i] \in InFlight \union {"done"} => state'[i] = state[i]
        BY <1>0, <2>u, <2>j, UpdateStateTyped
    <2> HIDE DEF j
    <2>1. CASE Cancel(h) \/ CancelBatch(h) \/ CloneSecret(h) \/ Submit(h)
        <3>1. \E op \in Ops : Doing(h, op)
            BY <2>1, <2>o DEF Cancel, CancelBatch, CloneSecret, Submit
        <3>2. \A i \in Jobs : state'[i] \in InFlight \union {"done"} => state'[i] = state[i]
            BY <2>1, <2>u, <3>1 DEF Cancel, CancelBatch, CloneSecret, Submit, j
        <3>3. UNCHANGED <<stage, imp, ever, lost>>
            BY <2>1 DEF Cancel, CancelBatch, CloneSecret, Submit, runVars
        <3> QED
            BY <1>t, <3>2, <3>3, QuietStep
    <2>2. CASE UploadSecrets(h) \/ PullSourceRun(h) \/ Drop(h)
        BY <1>t, <2>2, QuietStep DEF UploadSecrets, PullSourceRun, Drop, rowVars, runVars
    <2>3. CASE Destroy(h)
        <3>1. j \in Jobs
            BY <2>3, <2>j, <2>o DEF Destroy
        <3>2. \A i \in Jobs : state'[i] \in InFlight \union {"done"} => state'[i] = state[i]
            BY <2>3, <2>u, <2>o DEF Destroy, j
        <3>3. \A i \in Jobs, s \in Stages : stage'[i][s] = "done" => stage[i][s] = "done"
            BY <1>0, <2>3, <3>1 DEF Destroy, TypeOK, j
        <3>4. UNCHANGED <<imp, ever, lost>>
            BY <2>3 DEF Destroy, runVars
        <3> QED
            BY <1>t, <3>2, <3>3, <3>4, QuietStep
    <2>4. CASE Retry(h)
        <3>1. j \in Jobs
            BY <2>4, <2>j, <2>o DEF Retry
        <3>2. \A i \in Jobs : state'[i] \in InFlight \union {"done"} => state'[i] = state[i]
            BY <2>4, <2>u, <2>o DEF Retry, j
        <3>3. \A i \in Jobs, s \in Stages : stage'[i][s] = "done" => stage[i][s] = "done"
            BY <1>0, <2>4, <3>1 DEF Retry, TypeOK, j
        <3>4. UNCHANGED <<imp, ever, lost>>
            BY <2>4 DEF Retry, runVars
        <3> QED
            BY <1>t, <3>2, <3>3, <3>4, QuietStep
    <2>5. CASE ImportRun(h)
        <3>1. j \in Jobs /\ StartUnit(j) /\ UNCHANGED <<state, stage, ever>>
            BY <2>5, <2>j, <2>o DEF ImportRun, rowVars, j
        <3>2. CASE UNCHANGED <<imp, lost>>
            BY <1>t, <3>1, <3>2, QuietStep
        <3> QED
            BY <1>0, <1>t, <3>1, <3>2, StartUnitStep, BeginStep
    <2> QED
        BY <1>4, <2>1, <2>2, <2>3, <2>4, <2>5
<1> QED
    BY <1>1, <1>2, <1>3, <1>4 DEF Request

LEMMA PullIInv ==
    ASSUME IInv, NEW j \in Jobs, Pull(j)
    PROVE  IInv'
<1>t. Types' /\ TypeOK
    BY PullTypes DEF IInv, Types
<1>1. CASE PullBegin(j) \/ PullWork(j)
    <2>1. PullFailed(j) => \A i \in Jobs :
             state'[i] \in InFlight \union {"done"} => state'[i] = state[i]
        BY <1>t, UpdateStateTyped DEF PullFailed, States, Terminal, InFlight
    <2>2. \A i \in Jobs : state'[i] \in InFlight \union {"done"} => state'[i] = state[i]
        BY <1>1, <2>1 DEF PullBegin, PullWork
    <2>3. UNCHANGED <<stage, imp, ever, lost>>
        BY <1>1 DEF PullBegin, PullWork, runVars
    <2> QED
        BY <1>t, <2>2, <2>3, QuietStep
<1>2. CASE PullKick(j)
    <2>1. StartUnit(j) /\ UNCHANGED <<state, stage, ever>>
        BY <1>2 DEF PullKick, rowVars
    <2>2. CASE UNCHANGED <<imp, lost>>
        BY <1>t, <2>1, <2>2, QuietStep
    <2> QED
        BY <1>t, <2>1, <2>2, StartUnitStep, BeginStep
<1>3. CASE PullDies(j)
    BY <1>t, <1>3, QuietStep DEF PullDies, rowVars, runVars
<1> QED
    BY <1>1, <1>2, <1>3 DEF Pull

LEMMA ReapIInv == IInv /\ Reap => IInv'
<1> SUFFICES ASSUME IInv, Reap PROVE IInv'
    OBVIOUS
<1>t. Types' /\ TypeOK
    BY ReapTypes DEF IInv, Types
<1>1. CASE ReapList
    BY <1>t, <1>1, QuietStep DEF ReapList, rowVars, runVars
<1>2. ASSUME NEW j \in Jobs, ReapSecret(j) PROVE IInv'
    BY <1>t, <1>2, QuietStep DEF ReapSecret, rowVars, runVars
<1>3. ASSUME NEW D \in SUBSET Jobs, ReapDrafts(D) PROVE IInv'
    <2>1. /\ \A j \in Jobs : state'[j] \in InFlight \union {"done"} => state'[j] = state[j]
          /\ \A j \in Jobs, s \in Stages : stage'[j][s] = "done" => stage[j][s] = "done"
          /\ UNCHANGED <<imp, ever, lost>>
        BY <1>t, <1>3 DEF ReapDrafts, TypeOK, InFlight, runVars
    <2> QED
        BY <1>t, <2>1, QuietStep
<1> QED
    BY <1>1, <1>2, <1>3 DEF Reap

\* A step of an import that keeps the promise for its own job keeps it for all:
\* either it still answers for the job, or the job is no longer in flight, or
\* it never was the one to answer.
LEMMA AnswerStep ==
    ASSUME IInv, NEW p \in Imports, NEW r \in Copies, imp' = [imp EXCEPT ![p] = r],
           \A j \in Jobs \ {Job(p)} : state'[j] = state[j],
           lost \subseteq lost',
           state'[Job(p)] \in InFlight /\ Job(p) \notin lost' =>
              \/ Answers(p)'
              \/ state'[Job(p)] = state[Job(p)] /\ ~Answers(p)
    PROVE  InFlightIsAnswered'
<1>0. /\ \A q \in Imports \ {p} : imp'[q] = imp[q]
      /\ \A q \in Imports \ {p} : Answers(q) => Answers(q)'
    BY ImportStep DEF IInv, Types, Answers
<1> SUFFICES ASSUME NEW j \in Jobs, state'[j] \in InFlight, j \notin lost'
             PROVE  \E o \in Origins : Answers(<<j, o>>)'
    BY DEF InFlightIsAnswered
<1>1. CASE j = Job(p) /\ Answers(p)'
    BY <1>1, ImportShape DEF Answers
<1>2. CASE j # Job(p) \/ ~Answers(p)'
    <2>1. state[j] \in InFlight /\ j \notin lost
        BY <1>2
    <2>2. PICK o \in Origins : Answers(<<j, o>>)
        BY <2>1 DEF IInv, InFlightIsAnswered
    <2>3. <<j, o>> \in Imports /\ Job(<<j, o>>) = j
        BY DEF Imports, Job
    <2>4. <<j, o>> # p
        BY <1>2, <2>2, <2>3
    <2> QED
        BY <1>0, <2>2, <2>3, <2>4
<1> QED
    BY <1>1, <1>2

LEMMA RunIInv ==
    ASSUME IInv, NEW p \in Imports, StartShell(p) \/ Run(p) \/ Die(p)
    PROVE  IInv'
<1>t. Types' /\ Types /\ TypeOK /\ History
    BY RunTypes DEF IInv, Types
<1>j. Job(p) \in Jobs /\ imp[p] \in Copies /\ state[Job(p)] \in States
    BY <1>t, ImportShape DEF TypeOK, Copies
<1>i. ASSUME NEW r \in Copies, imp' = [imp EXCEPT ![p] = r]
      PROVE  imp'[p] = r /\ \A q \in Imports \ {p} : imp'[q] = imp[q]
    BY <1>i, <1>t, ImportStep
<1>u. ASSUME NEW s \in States, UpdateState(Job(p), s)
      PROVE  /\ \A j \in Jobs \ {Job(p)} : state'[j] = state[j]
             /\ state'[Job(p)] = IF Exists(Job(p)) THEN s ELSE state[Job(p)]
    BY <1>u, <1>t, <1>j, UpdateStateTyped
<1>s. "failed" \in States \ InFlight /\ "done" \in States \ InFlight
    BY DEF States, Terminal, InFlight
<1>o. Off \in Copies /\ Off.at = 1 /\ \A s \in Stages : ~(s < Off.at)
    BY OffTyped DEF Off, Stages
<1>e. ~Exists(Job(p)) => state[Job(p)] \notin InFlight \union {"done"}
    BY DEF Exists, InFlight
\* fail leaves a job in flight only to those who answer for it
<1>f. ASSUME fail(p), UNCHANGED ever, imp[p].pc # "load",
             \A j \in Jobs, s \in Stages : stage'[j][s] = "done" => stage[j][s] = "done"
      PROVE  IInv'
    <2> DEFINE r == [imp[p] EXCEPT !.pc = "clean"]
    <2>1. r \in Copies /\ r.at = imp[p].at
        BY <1>j DEF Copies
    <2>2. /\ imp' = [imp EXCEPT ![p] = r]
          /\ \A j \in Jobs : state'[j] \in InFlight \union {"done", "deleted"} => state'[j] = state[j]
          /\ lost \subseteq lost'
          /\ imp[p].copy \in InFlight /\ Exists(Job(p)) =>
                state'[Job(p)] = "failed" \/ Job(p) \in lost'
        BY <1>f, <1>t, FailStep
    <2>o. \A j \in Jobs \ {Job(p)} : state'[j] = state[j]
        BY <1>f, <1>u, <1>s DEF fail
    <2> HIDE DEF r
    <2>3. History'
        BY <1>f, <1>i, <1>t, <2>1, <2>2, HistoryKept
    <2>4. state'[Job(p)] \in InFlight /\ Job(p) \notin lost' =>
             state'[Job(p)] = state[Job(p)] /\ ~Answers(p)
        BY <1>f, <1>s, <1>e, <1>j, <2>2 DEF Answers
    <2>5. InFlightIsAnswered'
        BY <2>1, <2>2, <2>o, <2>4, AnswerStep
    <2> QED
        BY <1>t, <2>3, <2>5 DEF IInv
<1>1. CASE StartShell(p)
    <2>1. /\ imp' = [imp EXCEPT ![p] = [imp[p] EXCEPT !.pc = "load"]]
          /\ lost' = lost \ {Job(p)} /\ UNCHANGED <<state, stage, ever>>
        BY <1>1, <1>t DEF StartShell, Goto, rowVars, TypeOK
    <2> QED
        BY <1>t, <2>1, BeginStep
<1>2. CASE PrepareFails(p)
    <2>1. /\ imp' = [imp EXCEPT ![p] = Off] /\ UNCHANGED <<stage, ever>>
          /\ \/ UpdateState(Job(p), "failed") /\ UNCHANGED lost
             \/ lost' = lost \union {Job(p)} /\ UNCHANGED state
        BY <1>2 DEF PrepareFails
    <2>2. /\ \A j \in Jobs \ {Job(p)} : state'[j] = state[j]
          /\ state'[Job(p)] \in InFlight => Job(p) \in lost'
          /\ state'[Job(p)] = "done" => state[Job(p)] = "done"
          /\ lost \subseteq lost'
        BY <1>u, <1>s, <1>e, <2>1
    <2>3. History'
        BY <1>i, <1>o, <1>t, <2>1, <2>2, HistoryKept
    <2>4. InFlightIsAnswered'
        BY <1>o, <2>1, <2>2, AnswerStep
    <2> QED
        BY <1>t, <2>3, <2>4 DEF IInv
<1>3. CASE Load(p)
    <2> DEFINE r == IF ~Exists(Job(p)) THEN Off
                    ELSE [pc |-> IF state[Job(p)] = "done" THEN "clean" ELSE "stage",
                          copy |-> state[Job(p)], at |-> 1]
    <2>1. r \in Copies /\ r.at = 1
        BY <1>j, <1>o DEF Copies
    <2>2. imp' = [imp EXCEPT ![p] = r] /\ UNCHANGED <<state, stage, ever, lost>>
        BY <1>3 DEF Load, rowVars
    <2>3. state[Job(p)] \in InFlight => r.pc = "stage" /\ r.copy \in InFlight
        BY <1>e, <1>s
    <2> HIDE DEF r
    <2>4. History'
        BY <1>i, <1>t, <2>1, <2>2, HistoryKept DEF Stages
    <2>5. state[Job(p)] \in InFlight => Answers(p)'
        BY <1>i, <2>1, <2>2, <2>3 DEF Answers
    <2>6. InFlightIsAnswered'
        BY <2>1, <2>2, <2>5, AnswerStep
    <2> QED
        BY <1>t, <2>4, <2>6 DEF IInv
<1>4. CASE Skip(p)
    <2> DEFINE r == [imp[p] EXCEPT !.at = @ + 1]
    <2>0. imp[p].at \in Stages /\ imp[p].at \in ever[Job(p)]
        BY <1>4, <1>t, <1>j DEF Skip, Skips, History, RowsAreTrue
    <2>1. r \in Copies /\ r.at = imp[p].at + 1 /\ r.pc = imp[p].pc /\ r.copy = imp[p].copy
        BY <1>j, <2>0 DEF Copies, Stages
    <2>2. imp' = [imp EXCEPT ![p] = r] /\ UNCHANGED <<state, stage, ever, lost>>
        BY <1>4, <1>j, <1>t DEF Skip, rowVars, TypeOK, Copies
    <2> HIDE DEF r
    <2>3. \A s \in Stages : s < r.at => s \in ever[Job(p)]
        BY <1>t, <2>0, <2>1 DEF History, PassedStagesRan, Stages
    <2>4. History'
        BY <1>i, <1>t, <2>1, <2>2, <2>3, HistoryKept
    <2>5. Answers(p) => Answers(p)'
        BY <1>i, <2>1, <2>2 DEF Answers
    <2>6. InFlightIsAnswered'
        BY <2>1, <2>2, <2>5, AnswerStep
    <2> QED
        BY <1>t, <2>4, <2>6 DEF IInv
<1>5. CASE Refuse(p)
    <2> DEFINE r == [imp[p] EXCEPT !.pc = "refused"]
    <2>1. r \in Copies /\ r.at = imp[p].at /\ r.pc = "refused" /\ r.copy = imp[p].copy
        BY <1>j DEF Copies
    <2>2. imp' = [imp EXCEPT ![p] = r] /\ UNCHANGED <<state, ever, lost>>
        BY <1>5, <1>t DEF Refuse, Goto, TypeOK
    <2> HIDE DEF r
    <2>3. \A j \in Jobs, s \in Stages : stage'[j][s] = "done" => stage[j][s] = "done"
        BY <1>5, <1>t, <1>j, SetStageTyped DEF Refuse, StageStates
    <2>4. History'
        BY <1>i, <1>t, <2>1, <2>2, <2>3, HistoryKept
    <2>5. Answers(p) => Answers(p)'
        BY <1>5, <1>i, <2>1, <2>2 DEF Refuse, Answers
    <2>6. InFlightIsAnswered'
        BY <2>1, <2>2, <2>5, AnswerStep
    <2> QED
        BY <1>t, <2>4, <2>6 DEF IInv
<1>6. CASE Enter(p)
    <2> DEFINE r == [imp[p] EXCEPT !.pc = "work", !.copy = NextState(p)]
    <2>1. NextState(p) \in InFlight /\ NextState(p) \in States /\ NextState(p) # "done"
        BY <1>6 DEF Enter, NextState, jobStateForStage, Stages, InFlight, States, Live
    <2>2. r \in Copies /\ r.at = imp[p].at /\ r.pc = "work" /\ r.copy = NextState(p)
        BY <1>j, <2>1 DEF Copies
    <2>3. imp' = [imp EXCEPT ![p] = r] /\ UNCHANGED <<ever, lost>>
        BY <1>6, <1>j, <1>t DEF Enter, TypeOK, Copies
    <2> HIDE DEF r
    <2>4. /\ \A j \in Jobs \ {Job(p)} : state'[j] = state[j]
          /\ state'[Job(p)] # "done"
        BY <1>6, <1>u, <1>e, <2>1 DEF Enter
    <2>5. \A j \in Jobs, s \in Stages : stage'[j][s] = "done" => stage[j][s] = "done"
        BY <1>6, <1>t, <1>j, SetStageTyped DEF Enter, StageStates
    <2>6. History'
        BY <1>i, <1>t, <2>2, <2>3, <2>4, <2>5, HistoryKept
    <2>7. Answers(p)'
        BY <1>i, <2>1, <2>2, <2>3 DEF Answers
    <2>8. InFlightIsAnswered'
        BY <2>2, <2>3, <2>4, <2>7, AnswerStep
    <2> QED
        BY <1>t, <2>6, <2>8 DEF IInv
<1>7. CASE Work(p)
    <2> DEFINE r == [imp[p] EXCEPT !.pc = "stage", !.at = @ + 1]
    <2>0. imp[p].at \in Stages
        BY <1>7, <1>t DEF Work, Types, WorkAtStage
    <2>1. r \in Copies /\ r.at = imp[p].at + 1 /\ r.pc = "stage" /\ r.copy = imp[p].copy
        <3>1. PICK n \in 1..5 : n = imp[p].at + 1
            BY <2>0 DEF Stages
        <3>2. r = [imp[p] EXCEPT !.pc = "stage", !.at = n]
            BY <3>1
        <3> QED
            BY <1>j, <3>1, <3>2 DEF Copies
    <2>2. imp' = [imp EXCEPT ![p] = r] /\ UNCHANGED <<state, lost>>
        BY <1>7, <1>j, <1>t DEF Work, TypeOK, Copies
    <2> HIDE DEF r
    <2>3. /\ \A j \in Jobs : ever[j] \subseteq ever'[j]
          /\ imp[p].at \in ever'[Job(p)]
        BY <1>7, <1>t, <1>j DEF Work, TypeOK
    <2>4. \A j \in Jobs, s \in Stages :
             stage'[j][s] = "done" => stage[j][s] = "done" \/ s \in ever'[j]
        BY <1>7, <1>t, <1>j, <2>0, <2>3, SetStageTyped DEF Work, StageStates
    <2>5. \A s \in Stages : s < r.at => s \in ever'[Job(p)]
        BY <1>t, <1>j, <2>0, <2>1, <2>3 DEF History, PassedStagesRan, Stages
    <2>6. History'
        BY <1>i, <1>t, <2>1, <2>2, <2>3, <2>4, <2>5, HistoryKept
    <2>7. Answers(p) => Answers(p)'
        BY <1>7, <1>i, <2>1, <2>2 DEF Work, Answers
    <2>8. InFlightIsAnswered'
        BY <2>1, <2>2, <2>7, AnswerStep
    <2> QED
        BY <1>t, <2>6, <2>8 DEF IInv
<1>8. CASE RunFails(p) \/ WorkFails(p)
    <2>1. \A j \in Jobs, s \in Stages : stage'[j][s] = "done" => stage[j][s] = "done"
        BY <1>8, <1>t, <1>j, SetStageTyped
           DEF RunFails, WorkFails, StageStates, Types, WorkAtStage
    <2>2. fail(p) /\ UNCHANGED ever /\ imp[p].pc # "load"
        BY <1>8 DEF RunFails, WorkFails
    <2> QED
        BY <1>f, <2>1, <2>2
<1>9. CASE Finish(p)
    <2> DEFINE r == [imp[p] EXCEPT !.pc = "clean"]
    <2>1. r \in Copies /\ r.at = imp[p].at
        BY <1>j DEF Copies
    <2>2. imp' = [imp EXCEPT ![p] = r] /\ UNCHANGED <<stage, ever, lost>>
        BY <1>9, <1>t DEF Finish, Goto, TypeOK
    <2> HIDE DEF r
    <2>3. state'[Job(p)] = "done" /\ \A j \in Jobs \ {Job(p)} : state'[j] = state[j]
        BY <1>9, <1>u, <1>s DEF Finish
    <2>4. ever[Job(p)] = Stages
        <3>1. imp[p].at = 5
            BY <1>9, <1>j DEF Finish, Copies, Stages
        <3>2. \A s \in Stages : s \in ever[Job(p)]
            BY <1>t, <3>1 DEF History, PassedStagesRan, Stages
        <3> QED
            BY <1>t, <1>j, <3>2 DEF TypeOK
    <2>5. History'
        BY <1>i, <1>t, <2>1, <2>2, <2>3, <2>4, HistoryKept
    <2>6. InFlightIsAnswered'
        BY <1>s, <2>1, <2>2, <2>3, AnswerStep
    <2> QED
        BY <1>t, <2>5, <2>6 DEF IInv
<1>10. CASE Clean(p)
    <2>1. /\ imp' = [imp EXCEPT ![p] = Off] /\ UNCHANGED <<state, stage, ever, lost>>
          /\ ~Answers(p)
        BY <1>10 DEF Clean, rowVars, Answers
    <2>2. History'
        BY <1>i, <1>o, <1>t, <2>1, HistoryKept
    <2>3. InFlightIsAnswered'
        BY <1>o, <2>1, AnswerStep
    <2> QED
        BY <1>t, <2>2, <2>3 DEF IInv
<1>11. CASE Die(p)
    <2>1. /\ imp' = [imp EXCEPT ![p] = Off] /\ UNCHANGED <<state, stage, ever>>
          /\ lost' = lost \union {Job(p)}
        BY <1>11 DEF Die, rowVars
    <2>2. History'
        BY <1>i, <1>o, <1>t, <2>1, HistoryKept
    <2>3. InFlightIsAnswered'
        BY <1>o, <2>1, AnswerStep
    <2> QED
        BY <1>t, <2>2, <2>3 DEF IInv
<1> QED
    BY <1>1, <1>2, <1>3, <1>4, <1>5, <1>6, <1>7, <1>8, <1>9, <1>10, <1>11 DEF Run

LEMMA StutterIInv == IInv /\ UNCHANGED vars => IInv'
<1> SUFFICES ASSUME IInv, UNCHANGED vars PROVE IInv'
    OBVIOUS
<1>1. Types'
    BY DEF IInv, Types, TypeOK, WorkAtStage, vars, rowVars, runVars, reapVars, bounds
<1> QED
    BY <1>1, QuietStep DEF vars, rowVars, runVars

-----------------------------------------------------------------------------
\* The inductive invariant holds of every behaviour: what was passed or said
\* to be done was completed, and a job in flight has an import that answers for
\* it.
THEOREM Invariance == Spec => []IInv
<1>1. IInv /\ [Next]_vars => IInv'
    BY RequestIInv, PullIInv, RunIInv, ReapIInv, StutterIInv DEF Next
<1> QED
    BY InitIInv, <1>1, PTL DEF Spec

\* The rows, requests, units and imports keep their types for every number of
\* jobs, handlers and shells: no interleaving writes a state outside the model
\* enum or makes an import leave the list of stages.
THEOREM TypeCorrect == Spec => []TypeOK
<1>1. IInv => TypeOK
    BY DEF IInv, Types
<1> QED
    BY Invariance, <1>1, PTL

\* Runner.Run reaches done only when every stage has been completed by this or
\* an earlier import, with any number of imports of a job at once, whatever
\* Cancel, Retry and Destroy do to its rows meanwhile.
THEOREM DoneIsEarned == Spec => []DoneMeansEveryStageRan
<1>1. IInv => DoneMeansEveryStageRan
    BY DEF IInv, History
<1> QED
    BY Invariance, <1>1, PTL

\* Every way out of Runner.Run says how the work ended: a job in flight has an
\* import at work on it unless one was killed or lost its last write.
THEOREM InFlightIsAttended == Spec => []InFlightHasRunner
<1>1. IInv => InFlightHasRunner
    BY DEF IInv, InFlightIsAnswered, Answers, InFlightHasRunner
<1> QED
    BY Invariance, <1>1, PTL

-----------------------------------------------------------------------------
(* A destroyed row.                                                        *)

Buried == \A j \in Jobs : state[j] = "deleted" => state'[j] = "deleted"

\* A write WHERE id = ? does not find a row that is gone.
LEMMA LateWrite ==
    ASSUME TypeOK, NEW j, NEW s, UpdateState(j, s)
    PROVE  Buried
BY DEF TypeOK, UpdateState, Exists, Buried

LEMMA NextBuries == TypeOK /\ Next => Buried
<1> SUFFICES ASSUME TypeOK, Next PROVE Buried
    OBVIOUS
<1>u. UNCHANGED state => Buried
    BY DEF Buried
<1>1. ASSUME NEW j \in Jobs, Create(j) \/ PatchDraft(j)
      PROVE  Buried
    BY <1>1 DEF Create, PatchDraft, TypeOK, Buried
<1>2. ASSUME NEW h \in Handlers, NEW j \in Jobs, BulkCreate(h, j)
      PROVE  Buried
    BY <1>2 DEF BulkCreate, TypeOK, Buried
<1>3. ASSUME NEW h \in Handlers, NEW j \in Jobs, NEW op \in Ops, Admit(h, op, j)
      PROVE  Buried
    BY <1>3, <1>u DEF Admit, rowVars
<1>4. ASSUME NEW h \in Handlers,
             \/ Cancel(h) \/ CancelBatch(h) \/ Destroy(h) \/ CloneSecret(h)
             \/ Submit(h) \/ Retry(h)
      PROVE  Buried
    BY <1>4, <1>u, LateWrite
       DEF Cancel, CancelBatch, Destroy, CloneSecret, Submit, Retry
<1>5. ASSUME NEW h \in Handlers,
             UploadSecrets(h) \/ PullSourceRun(h) \/ ImportRun(h) \/ Drop(h)
      PROVE  Buried
    BY <1>5, <1>u DEF UploadSecrets, PullSourceRun, ImportRun, Drop, rowVars
<1>6. ASSUME NEW j \in Jobs, Pull(j)
      PROVE  Buried
    <2>1. PullFailed(j) \/ UNCHANGED state
        BY <1>6 DEF Pull, PullBegin, PullWork, PullKick, PullDies, rowVars
    <2> QED
        BY <1>u, <2>1, LateWrite DEF PullFailed
<1>7. ASSUME NEW p \in Imports, StartShell(p) \/ Run(p) \/ Die(p)
      PROVE  Buried
    <2>1. CASE StartShell(p) \/ Die(p) \/ Load(p) \/ Skip(p) \/ Refuse(p) \/ Work(p) \/ Clean(p)
        BY <1>u, <2>1 DEF StartShell, Die, Load, Skip, Refuse, Work, Clean, rowVars
    <2>2. CASE PrepareFails(p) \/ Enter(p) \/ Finish(p)
        BY <1>u, <2>2, LateWrite DEF PrepareFails, Enter, Finish
    <2>3. CASE RunFails(p) \/ WorkFails(p)
        BY <2>3, FailStep DEF RunFails, WorkFails, Buried
    <2> QED
        BY <1>7, <2>1, <2>2, <2>3 DEF Run
<1>8. CASE ReapList \/ \E j \in Jobs : ReapSecret(j)
    BY <1>8, <1>u DEF ReapList, ReapSecret, rowVars
<1>9. ASSUME NEW D \in SUBSET Jobs, ReapDrafts(D)
      PROVE  Buried
    BY <1>9 DEF ReapDrafts, Buried
<1> QED
    BY <1>1, <1>2, <1>3, <1>4, <1>5, <1>6, <1>7, <1>8, <1>9 DEF Next, Request, Reap

\* A row that was destroyed never comes back, though requests, pulls and
\* imports that read it before go on writing it: UpdateState's WHERE finds no
\* row.
THEOREM DeletedForGood == Spec => DeletedStaysDeleted
<1>1. TypeOK /\ [Next]_vars => [Buried]_vars
    BY NextBuries
<1> QED
    BY TypeCorrect, <1>1, PTL DEF Spec, DeletedStaysDeleted, Buried

=============================================================================
