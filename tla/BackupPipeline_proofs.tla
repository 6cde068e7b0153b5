------------------------ MODULE BackupPipeline_proofs ------------------------
(***************************************************************************)
(* Proofs about BackupPipeline, for any number of users, destinations,     *)
(* handlers, tickers, rows and faults.                                     *)
(*                                                                         *)
(* Every process holds ids of rows that exist: an insert therefore never   *)
(* changes the target, and with it the slot key, of a job somebody works   *)
(* on.  The slots are exclusive because work and slot name each other      *)
(* (Slots).  What a row says is true because of what the answers that      *)
(* callers still hold say (Answers).                                       *)
(*                                                                         *)
(* RowStep and WorkStep classify the steps by what they do to the table    *)
(* and to the agent's memory; CallStep and ListStep go through the actions *)
(* for the callers and for the lists they hold.  The theorems follow from  *)
(* these four, but for the cap: it holds because a tick counts everything  *)
(* that runs before it reads its list, and what it owes only shrinks.      *)
(***************************************************************************)
EXTENDS BackupPipeline, FiniteSetTheorems, WellFoundedInduction, TLAPS

BusyPCs == Replies \union {"created", "started", "calling"}
PCs == BusyPCs \union {"idle", "enqueue", "dispatch"}

\* the rows that exist are exactly 1..made
Rows == \A j \in JobIds : status[j] # "none" <=> j <= made

\* a caller that works on a job works on one that exists
CallerRefs == \A c \in Callers : pc[c] \in BusyPCs => cur[c] \in 1..made

\* what an answer that is not used yet says
Answers ==
    \A c \in Callers :
        /\ pc[c] = "ok" => cur[c] \in accepted
        /\ pc[c] \in {"succeeded", "partial"} => Kind(cur[c]) = "restore"

\* the lists of ids, the wire's included, name rows that exist
ListRefs ==
    /\ wire \subseteq Callers \X (1..made)
    /\ \A t \in Tickers : todo[t] \subseteq 1..made
    /\ finList \subseteq 1..made

\* account work holds its slot, and a slot names its work
Slots ==
    /\ \A j \in JobIds : orch[j] > 0 => j <= made
    /\ \A j \in AccountWork : orch[j] = 1 /\ slot[Key(j)] = j
    /\ SlotNamesLiveWork

CallInv == CallTypes /\ CallerRefs /\ Answers
ListInv == TickTypes /\ FinTypes /\ ListRefs
WorkInv == AgentTypes /\ Slots

IInv == /\ RowTypes /\ Rows
        /\ CallInv /\ ListInv /\ WorkInv
        /\ SucceededHasManifest /\ RunningWasAccepted

\* what a step may do to backup_jobs
RowChange ==
    \/ UNCHANGED rowVars
    \/ \E t \in Targets : Create(t)
    \/ \E j \in 1..made : MarkStarted(j)
                          /\ (Kind(j) = "restore" \/ j \in accepted)
    \/ \E j \in 1..made, s \in Closed :
          MarkFinished(j, s)
          /\ (s = "succeeded" => Kind(j) = "restore" \/ j \in manifest)
    \/ \E j \in JobIds : /\ started' = [started EXCEPT ![j] = "old"]
                         /\ UNCHANGED <<made, target, status>>

\* what a step may do to the agent's memory
WorkChange ==
    \/ UNCHANGED <<slot, orch, accepted>>
    \/ \E j \in 1..made : Kind(j) = "account" /\ Acquire(j) /\ Begin(j)
    \/ \E j \in 1..made : Kind(j) # "account" /\ Begin(j) /\ UNCHANGED slot
    \/ \E j \in JobIds : /\ orch[j] > 0
                         /\ orch' = [orch EXCEPT ![j] = @ - 1]
                         /\ Release(j)
                         /\ UNCHANGED accepted
    \/ /\ orch' = [j \in JobIds |-> 0]
       /\ slot' = [k \in Owners \X Repos |-> 0]
       /\ UNCHANGED accepted

\* what a step may do to the history of the agent's work
AgentChange ==
    \/ UNCHANGED <<accepted, manifest>>
    \/ \E j \in 1..made : /\ accepted' = accepted \union {j}
                          /\ UNCHANGED <<rowVars, manifest>>
    \/ \E j \in JobIds : /\ Kind(j) # "restore" /\ orch[j] > 0
                         /\ manifest' = manifest \union {j}
                         /\ UNCHANGED <<rowVars, accepted>>

\* rows keep their target, and acceptance is never taken back
Grows == /\ made' \in made..MaxJobs
         /\ \A j \in 1..made : target'[j] = target[j]
         /\ accepted \subseteq accepted'
-----------------------------------------------------------------------------

\* The writes to backup_jobs: every status a caller or the finalizer writes
\* is covered by the answer or the manifest it read.
LEMMA RowStep == ASSUME IInv, [Next]_vars PROVE RowChange
<1>1. ASSUME NEW h \in Handlers, Request(h) PROVE RowChange
    BY <1>1, ConstantsAssumption DEF Request, RowChange
<1>2. ASSUME NEW h \in Handlers, RestoreMarkStarted(h) PROVE RowChange
    <2>1. cur[h] \in 1..made
        BY <1>2 DEF RestoreMarkStarted, IInv, CallInv, CallerRefs, BusyPCs, Callers
    <2> QED
        BY <2>1, <1>2 DEF RestoreMarkStarted, RowChange
<1>3. ASSUME NEW h \in Handlers, HandlerCall(h) PROVE RowChange
    BY <1>3 DEF HandlerCall, RowChange, rowVars
<1>4. ASSUME NEW h \in Handlers, HandlerDone(h) PROVE RowChange
    <2>1. cur[h] \in 1..made /\ Answers /\ h \in Callers
        BY <1>4 DEF HandlerDone, IInv, CallInv, CallerRefs, BusyPCs, Callers
    <2>2. CASE pc[h] = "ok"
        BY <2>1, <2>2, <1>4 DEF HandlerDone, RowChange, Answers
    <2>3. CASE pc[h] \in {"succeeded", "partial"}
        BY <2>1, <2>3, <1>4 DEF HandlerDone, RowChange, Answers, Closed
    <2>4. CASE pc[h] \notin {"ok", "succeeded", "partial"}
        <3>1. MarkFinished(cur[h], "failed")
            BY <2>4, <1>4 DEF HandlerDone
        <3> QED
            BY <2>1, <3>1 DEF RowChange, Closed
    <2> QED
        BY <2>2, <2>3, <2>4
<1>5. ASSUME NEW h \in Handlers, HandlerGone(h) PROVE RowChange
    BY <1>5 DEF HandlerGone, RowChange, rowVars
<1>6. ASSUME NEW t \in Tickers, TickEnqueue(t) PROVE RowChange
    BY <1>6 DEF TickEnqueue, RowChange, rowVars
<1>7. ASSUME NEW t \in Tickers, EnqueueOne(t) PROVE RowChange
    <2>1. PICK g \in fan[t] : IF made < MaxJobs THEN Create(g) ELSE UNCHANGED rowVars
        BY <1>7 DEF EnqueueOne
    <2>2. g \in Targets
        BY <2>1 DEF IInv, ListInv, TickTypes
    <2> QED
        BY <2>1, <2>2 DEF RowChange
<1>8. ASSUME NEW t \in Tickers, MarkRan(t) PROVE RowChange
    BY <1>8 DEF MarkRan, RowChange, rowVars
<1>9. ASSUME NEW t \in Tickers, TickDispatch(t) PROVE RowChange
    BY <1>9 DEF TickDispatch, RowChange, rowVars
<1>10. ASSUME NEW t \in Tickers, DispatchSkip(t) PROVE RowChange
    BY <1>10 DEF DispatchSkip, RowChange, rowVars
<1>11. ASSUME NEW t \in Tickers, DispatchRefused(t) PROVE RowChange
    <2>1. PICK j \in JobIds : Oldest(t, j) /\ MarkFinished(j, "failed")
        BY <1>11 DEF DispatchRefused
    <2>2. j \in 1..made
        BY <2>1 DEF Oldest, IInv, ListInv, ListRefs
    <2> QED
        BY <2>1, <2>2 DEF RowChange, Closed
<1>12. ASSUME NEW t \in Tickers, DispatchCall(t) PROVE RowChange
    BY <1>12 DEF DispatchCall, RowChange, rowVars
<1>13. ASSUME NEW t \in Tickers, DispatchDone(t) PROVE RowChange
    <2>1. cur[t] \in 1..made /\ Answers /\ t \in Callers
        BY <1>13 DEF DispatchDone, IInv, CallInv, CallerRefs, BusyPCs, Callers
    <2>2. CASE pc[t] = "ok"
        BY <2>1, <2>2, <1>13 DEF DispatchDone, RowChange, Answers
    <2>3. CASE pc[t] = "conflict"
        BY <2>1, <2>3, <1>13 DEF DispatchDone, RowChange, Closed
    <2>4. CASE pc[t] \notin {"ok", "conflict"}
        <3>1. MarkFinished(cur[t], "failed")
            BY <2>4, <1>13 DEF DispatchDone
        <3> QED
            BY <2>1, <3>1 DEF RowChange, Closed
    <2> QED
        BY <2>2, <2>3, <2>4
<1>14. ASSUME NEW t \in Tickers, TickEnd(t) PROVE RowChange
    BY <1>14 DEF TickEnd, RowChange, rowVars
<1>15. ASSUME NEW t \in Tickers, WriteLost(t) PROVE RowChange
    BY <1>15 DEF WriteLost, RowChange, rowVars
<1>16. ASSUME NEW c \in Callers, Timeout(c) PROVE RowChange
    BY <1>16 DEF Timeout, RowChange, rowVars
<1>17. ASSUME NEW c \in Callers, NEW j \in JobIds, BackupCreate(c, j) PROVE RowChange
    BY <1>17 DEF BackupCreate, RowChange, rowVars
<1>18. ASSUME NEW c \in Callers, NEW j \in JobIds, BackupConflict(c, j) PROVE RowChange
    BY <1>18 DEF BackupConflict, RowChange, rowVars
<1>19. ASSUME NEW c \in Callers, NEW j \in JobIds, SystemBackup(c, j) PROVE RowChange
    BY <1>19 DEF SystemBackup, RowChange, rowVars
<1>20. ASSUME NEW c \in Callers, NEW j \in JobIds, RestoreBegin(c, j) PROVE RowChange
    BY <1>20 DEF RestoreBegin, RowChange, rowVars
<1>21. ASSUME NEW c \in Callers, NEW j \in JobIds, RestoreRefused(c, j) PROVE RowChange
    BY <1>21 DEF RestoreRefused, RowChange, rowVars
<1>22. ASSUME NEW j \in JobIds, RestoreDone(j) PROVE RowChange
    BY <1>22 DEF RestoreDone, RowChange, rowVars
<1>23. ASSUME NEW j \in JobIds, OrchestratorExit(j) PROVE RowChange
    BY <1>23 DEF OrchestratorExit, RowChange, rowVars
<1>24. ASSUME NEW j \in JobIds, WriteManifest(j) PROVE RowChange
    BY <1>24 DEF WriteManifest, RowChange, rowVars
<1>25. ASSUME NEW j \in JobIds, Age(j) PROVE RowChange
    BY <1>25 DEF Age, RowChange
<1>26. ASSUME FinalizerTick PROVE RowChange
    BY <1>26 DEF FinalizerTick, RowChange, rowVars
<1>27. ASSUME NEW j \in JobIds, Stalled(j) PROVE RowChange
    BY <1>27 DEF Stalled, FinalizerNext, RowChange, Closed, IInv, ListInv, ListRefs
<1>28. ASSUME NEW j \in JobIds, Finalize(j) PROVE RowChange
    BY <1>28 DEF Finalize, ManifestFound, FinalizerNext, RowChange, Closed, IInv,
              ListInv, ListRefs
<1>29. ASSUME NEW j \in JobIds, StillRunning(j) PROVE RowChange
    BY <1>29 DEF StillRunning, RowChange, rowVars
<1>30. ASSUME ScheduleDue PROVE RowChange
    BY <1>30 DEF ScheduleDue, RowChange, rowVars
<1>31. ASSUME AgentRestart PROVE RowChange
    BY <1>31 DEF AgentRestart, RowChange, rowVars
<1>32. ASSUME PanelRestart PROVE RowChange
    BY <1>32 DEF PanelRestart, RowChange, rowVars
<1>33. ASSUME UNCHANGED vars PROVE RowChange
    BY <1>33 DEF vars, RowChange, rowVars
<1>34. ASSUME NEW j \in JobIds, FinalizerFails(j) PROVE RowChange
    BY <1>34 DEF FinalizerFails, RowChange, rowVars
<1> QED
    BY <1>1, <1>2, <1>3, <1>4, <1>5, <1>6, <1>7, <1>8, <1>9, <1>10, <1>11,
       <1>12, <1>13, <1>14, <1>15, <1>16, <1>17, <1>18, <1>19, <1>20, <1>21,
       <1>22, <1>23, <1>24, <1>25, <1>26, <1>27, <1>28, <1>29, <1>30, <1>31,
       <1>32, <1>33, <1>34
    DEF Next, Handler, Ticker, Serve, Worker, Finalizer

\* The agent's memory: work begins, ends, or is lost with the process.
LEMMA WorkStep == ASSUME IInv, [Next]_vars PROVE WorkChange
<1>1. ASSUME NEW h \in Handlers, Request(h) PROVE WorkChange
    BY <1>1 DEF Request, WorkChange, agentVars
<1>2. ASSUME NEW h \in Handlers, RestoreMarkStarted(h) PROVE WorkChange
    BY <1>2 DEF RestoreMarkStarted, WorkChange, agentVars
<1>3. ASSUME NEW h \in Handlers, HandlerCall(h) PROVE WorkChange
    BY <1>3 DEF HandlerCall, WorkChange, agentVars
<1>4. ASSUME NEW h \in Handlers, HandlerDone(h) PROVE WorkChange
    BY <1>4 DEF HandlerDone, WorkChange, agentVars
<1>5. ASSUME NEW h \in Handlers, HandlerGone(h) PROVE WorkChange
    BY <1>5 DEF HandlerGone, WorkChange, agentVars
<1>6. ASSUME NEW t \in Tickers, TickEnqueue(t) PROVE WorkChange
    BY <1>6 DEF TickEnqueue, WorkChange, agentVars
<1>7. ASSUME NEW t \in Tickers, EnqueueOne(t) PROVE WorkChange
    BY <1>7 DEF EnqueueOne, WorkChange, agentVars
<1>8. ASSUME NEW t \in Tickers, MarkRan(t) PROVE WorkChange
    BY <1>8 DEF MarkRan, WorkChange, agentVars
<1>9. ASSUME NEW t \in Tickers, TickDispatch(t) PROVE WorkChange
    BY <1>9 DEF TickDispatch, WorkChange, agentVars
<1>10. ASSUME NEW t \in Tickers, DispatchSkip(t) PROVE WorkChange
    BY <1>10 DEF DispatchSkip, WorkChange, agentVars
<1>11. ASSUME NEW t \in Tickers, DispatchRefused(t) PROVE WorkChange
    BY <1>11 DEF DispatchRefused, WorkChange, agentVars
<1>12. ASSUME NEW t \in Tickers, DispatchCall(t) PROVE WorkChange
    BY <1>12 DEF DispatchCall, WorkChange, agentVars
<1>13. ASSUME NEW t \in Tickers, DispatchDone(t) PROVE WorkChange
    BY <1>13 DEF DispatchDone, WorkChange, agentVars
<1>14. ASSUME NEW t \in Tickers, TickEnd(t) PROVE WorkChange
    BY <1>14 DEF TickEnd, WorkChange, agentVars
<1>15. ASSUME NEW t \in Tickers, WriteLost(t) PROVE WorkChange
    BY <1>15 DEF WriteLost, WorkChange, agentVars
<1>16. ASSUME NEW c \in Callers, Timeout(c) PROVE WorkChange
    BY <1>16 DEF Timeout, WorkChange, agentVars
<1>17. ASSUME NEW c \in Callers, NEW j \in JobIds, BackupCreate(c, j) PROVE WorkChange
    <2>1. j \in 1..made
        BY <1>17 DEF BackupCreate, IInv, ListInv, ListRefs
    <2> QED
        BY <2>1, <1>17 DEF BackupCreate, WorkChange
<1>18. ASSUME NEW c \in Callers, NEW j \in JobIds, BackupConflict(c, j) PROVE WorkChange
    BY <1>18 DEF BackupConflict, WorkChange, agentVars
<1>19. ASSUME NEW c \in Callers, NEW j \in JobIds, SystemBackup(c, j) PROVE WorkChange
    <2>1. j \in 1..made
        BY <1>19 DEF SystemBackup, IInv, ListInv, ListRefs
    <2> QED
        BY <2>1, <1>19 DEF SystemBackup, WorkChange
<1>20. ASSUME NEW c \in Callers, NEW j \in JobIds, RestoreBegin(c, j) PROVE WorkChange
    <2>1. j \in 1..made
        BY <1>20 DEF RestoreBegin, IInv, ListInv, ListRefs
    <2> QED
        BY <2>1, <1>20 DEF RestoreBegin, WorkChange
<1>21. ASSUME NEW c \in Callers, NEW j \in JobIds, RestoreRefused(c, j) PROVE WorkChange
    BY <1>21 DEF RestoreRefused, WorkChange, agentVars
<1>22. ASSUME NEW j \in JobIds, RestoreDone(j) PROVE WorkChange
    BY <1>22 DEF RestoreDone, WorkChange, Release
<1>23. ASSUME NEW j \in JobIds, OrchestratorExit(j) PROVE WorkChange
    BY <1>23 DEF OrchestratorExit, WorkChange, agentVars
<1>24. ASSUME NEW j \in JobIds, WriteManifest(j) PROVE WorkChange
    BY <1>24 DEF WriteManifest, WorkChange, agentVars
<1>25. ASSUME NEW j \in JobIds, Age(j) PROVE WorkChange
    BY <1>25 DEF Age, WorkChange, agentVars
<1>26. ASSUME FinalizerTick PROVE WorkChange
    BY <1>26 DEF FinalizerTick, WorkChange, agentVars
<1>27. ASSUME NEW j \in JobIds, Stalled(j) PROVE WorkChange
    BY <1>27 DEF Stalled, FinalizerNext, WorkChange, agentVars
<1>28. ASSUME NEW j \in JobIds, Finalize(j) PROVE WorkChange
    BY <1>28 DEF Finalize, FinalizerNext, WorkChange, agentVars
<1>29. ASSUME NEW j \in JobIds, StillRunning(j) PROVE WorkChange
    BY <1>29 DEF StillRunning, FinalizerNext, WorkChange, agentVars
<1>30. ASSUME ScheduleDue PROVE WorkChange
    BY <1>30 DEF ScheduleDue, WorkChange, agentVars
<1>31. ASSUME AgentRestart PROVE WorkChange
    BY <1>31 DEF AgentRestart, WorkChange, agentVars
<1>32. ASSUME PanelRestart PROVE WorkChange
    BY <1>32 DEF PanelRestart, WorkChange, agentVars
<1>33. ASSUME UNCHANGED vars PROVE WorkChange
    BY <1>33 DEF vars, WorkChange, agentVars
<1>34. ASSUME NEW j \in JobIds, FinalizerFails(j) PROVE WorkChange
    BY <1>34 DEF FinalizerFails, FinalizerNext, WorkChange, agentVars
<1> QED
    BY <1>1, <1>2, <1>3, <1>4, <1>5, <1>6, <1>7, <1>8, <1>9, <1>10, <1>11,
       <1>12, <1>13, <1>14, <1>15, <1>16, <1>17, <1>18, <1>19, <1>20, <1>21,
       <1>22, <1>23, <1>24, <1>25, <1>26, <1>27, <1>28, <1>29, <1>30, <1>31,
       <1>32, <1>33, <1>34
    DEF Next, Handler, Ticker, Serve, Worker, Finalizer

\* The table and the history only grow.
LEMMA GrowsStep == ASSUME IInv, [Next]_vars PROVE Grows
<1>1. RowTypes /\ AgentTypes
    BY DEF IInv, WorkInv
<1>2. made' \in made..MaxJobs /\ \A j \in 1..made : target'[j] = target[j]
    <2>1. CASE UNCHANGED <<made, target>>
        BY <1>1, <2>1, ConstantsAssumption DEF RowTypes
    <2>2. ASSUME NEW t \in Targets, Create(t)
          PROVE  made' \in made..MaxJobs /\ \A j \in 1..made : target'[j] = target[j]
        BY <1>1, <2>2, ConstantsAssumption DEF RowTypes, Create, JobIds
    <2> QED
        BY <2>1, <2>2, RowStep DEF RowChange, MarkStarted, MarkFinished, rowVars
<1>3. accepted \subseteq accepted'
    BY WorkStep DEF WorkChange, Begin
<1> QED
    BY <1>2, <1>3 DEF Grows

\* The rows keep their types, and stay exactly 1..made.
LEMMA RowTypesStep == ASSUME IInv, [Next]_vars PROVE (RowTypes /\ Rows)'
<1> USE ConstantsAssumption
<1>1. RowTypes /\ Rows
    BY DEF IInv
<1>2. CASE UNCHANGED rowVars
    BY <1>1, <1>2 DEF rowVars, RowTypes, Rows
<1>3. ASSUME NEW t \in Targets, Create(t) PROVE (RowTypes /\ Rows)'
    <2>1. made' \in 0..MaxJobs /\ made + 1 \in JobIds
        BY <1>1, <1>3 DEF RowTypes, Create, JobIds
    <2>2. target' \in [JobIds -> Targets]
        BY <1>1, <1>3, <2>1 DEF RowTypes, Create
    <2>3. status' \in [JobIds -> Open \union Closed \union {"none"}]
        BY <1>1, <1>3, <2>1 DEF RowTypes, Create, Open
    <2>4. started' \in [JobIds -> {"never", "recent", "old"}]
        BY <1>1, <1>3 DEF RowTypes, Create
    <2>5. Rows'
        BY <1>1, <1>3, <2>1 DEF RowTypes, Rows, Create, JobIds
    <2> QED
        BY <2>1, <2>2, <2>3, <2>4, <2>5 DEF RowTypes
<1>4. ASSUME NEW j \in 1..made, MarkStarted(j) PROVE (RowTypes /\ Rows)'
    BY <1>1, <1>4 DEF RowTypes, Rows, MarkStarted, JobIds, Open
<1>5. ASSUME NEW j \in 1..made, NEW s \in Closed, MarkFinished(j, s)
      PROVE  (RowTypes /\ Rows)'
    BY <1>1, <1>5 DEF RowTypes, Rows, MarkFinished, JobIds, Closed
<1>6. ASSUME NEW j \in JobIds, started' = [started EXCEPT ![j] = "old"],
             UNCHANGED <<made, target, status>>
      PROVE  (RowTypes /\ Rows)'
    BY <1>1, <1>6 DEF RowTypes, Rows
<1> QED
    BY <1>2, <1>3, <1>4, <1>5, <1>6, RowStep DEF RowChange

\* A step that makes work begin or keeps a snapshot leaves the table alone.
LEMMA AgentStep == ASSUME IInv, [Next]_vars PROVE AgentChange
<1>1. ASSUME NEW h \in Handlers, Request(h) PROVE AgentChange
    BY <1>1 DEF Request, AgentChange, agentVars
<1>2. ASSUME NEW h \in Handlers, RestoreMarkStarted(h) PROVE AgentChange
    BY <1>2 DEF RestoreMarkStarted, AgentChange, agentVars
<1>3. ASSUME NEW h \in Handlers, HandlerCall(h) PROVE AgentChange
    BY <1>3 DEF HandlerCall, AgentChange, agentVars
<1>4. ASSUME NEW h \in Handlers, HandlerDone(h) PROVE AgentChange
    BY <1>4 DEF HandlerDone, AgentChange, agentVars
<1>5. ASSUME NEW h \in Handlers, HandlerGone(h) PROVE AgentChange
    BY <1>5 DEF HandlerGone, AgentChange, agentVars
<1>6. ASSUME NEW t \in Tickers, TickEnqueue(t) PROVE AgentChange
    BY <1>6 DEF TickEnqueue, AgentChange, agentVars
<1>7. ASSUME NEW t \in Tickers, EnqueueOne(t) PROVE AgentChange
    BY <1>7 DEF EnqueueOne, AgentChange, agentVars
<1>8. ASSUME NEW t \in Tickers, MarkRan(t) PROVE AgentChange
    BY <1>8 DEF MarkRan, AgentChange, agentVars
<1>9. ASSUME NEW t \in Tickers, TickDispatch(t) PROVE AgentChange
    BY <1>9 DEF TickDispatch, AgentChange, agentVars
<1>10. ASSUME NEW t \in Tickers, DispatchSkip(t) PROVE AgentChange
    BY <1>10 DEF DispatchSkip, AgentChange, agentVars
<1>11. ASSUME NEW t \in Tickers, DispatchRefused(t) PROVE AgentChange
    BY <1>11 DEF DispatchRefused, AgentChange, agentVars
<1>12. ASSUME NEW t \in Tickers, DispatchCall(t) PROVE AgentChange
    BY <1>12 DEF DispatchCall, AgentChange, agentVars
<1>13. ASSUME NEW t \in Tickers, DispatchDone(t) PROVE AgentChange
    BY <1>13 DEF DispatchDone, AgentChange, agentVars
<1>14. ASSUME NEW t \in Tickers, TickEnd(t) PROVE AgentChange
    BY <1>14 DEF TickEnd, AgentChange, agentVars
<1>15. ASSUME NEW t \in Tickers, WriteLost(t) PROVE AgentChange
    BY <1>15 DEF WriteLost, AgentChange, agentVars
<1>16. ASSUME NEW c \in Callers, Timeout(c) PROVE AgentChange
    BY <1>16 DEF Timeout, AgentChange, agentVars
<1>17. ASSUME NEW c \in Callers, NEW j \in JobIds, BackupCreate(c, j) PROVE AgentChange
    <2>1. j \in 1..made
        BY <1>17 DEF BackupCreate, IInv, ListInv, ListRefs
    <2> QED
        BY <2>1, <1>17 DEF BackupCreate, Begin, AgentChange
<1>18. ASSUME NEW c \in Callers, NEW j \in JobIds, BackupConflict(c, j) PROVE AgentChange
    BY <1>18 DEF BackupConflict, AgentChange, agentVars
<1>19. ASSUME NEW c \in Callers, NEW j \in JobIds, SystemBackup(c, j) PROVE AgentChange
    <2>1. j \in 1..made
        BY <1>19 DEF SystemBackup, IInv, ListInv, ListRefs
    <2> QED
        BY <2>1, <1>19 DEF SystemBackup, Begin, AgentChange
<1>20. ASSUME NEW c \in Callers, NEW j \in JobIds, RestoreBegin(c, j) PROVE AgentChange
    <2>1. j \in 1..made
        BY <1>20 DEF RestoreBegin, IInv, ListInv, ListRefs
    <2> QED
        BY <2>1, <1>20 DEF RestoreBegin, Begin, AgentChange
<1>21. ASSUME NEW c \in Callers, NEW j \in JobIds, RestoreRefused(c, j) PROVE AgentChange
    BY <1>21 DEF RestoreRefused, AgentChange, agentVars
<1>22. ASSUME NEW j \in JobIds, RestoreDone(j) PROVE AgentChange
    BY <1>22 DEF RestoreDone, AgentChange, agentVars
<1>23. ASSUME NEW j \in JobIds, OrchestratorExit(j) PROVE AgentChange
    BY <1>23 DEF OrchestratorExit, AgentChange, agentVars
<1>24. ASSUME NEW j \in JobIds, WriteManifest(j) PROVE AgentChange
    BY <1>24 DEF WriteManifest, AgentChange
<1>25. ASSUME NEW j \in JobIds, Age(j) PROVE AgentChange
    BY <1>25 DEF Age, AgentChange, agentVars
<1>26. ASSUME FinalizerTick PROVE AgentChange
    BY <1>26 DEF FinalizerTick, AgentChange, agentVars
<1>27. ASSUME NEW j \in JobIds, Stalled(j) PROVE AgentChange
    BY <1>27 DEF Stalled, FinalizerNext, AgentChange, agentVars
<1>28. ASSUME NEW j \in JobIds, Finalize(j) PROVE AgentChange
    BY <1>28 DEF Finalize, FinalizerNext, AgentChange, agentVars
<1>29. ASSUME NEW j \in JobIds, StillRunning(j) PROVE AgentChange
    BY <1>29 DEF StillRunning, FinalizerNext, AgentChange, agentVars
<1>30. ASSUME ScheduleDue PROVE AgentChange
    BY <1>30 DEF ScheduleDue, AgentChange, agentVars
<1>31. ASSUME AgentRestart PROVE AgentChange
    BY <1>31 DEF AgentRestart, AgentChange, agentVars
<1>32. ASSUME PanelRestart PROVE AgentChange
    BY <1>32 DEF PanelRestart, AgentChange, agentVars
<1>33. ASSUME UNCHANGED vars PROVE AgentChange
    BY <1>33 DEF vars, AgentChange, agentVars
<1>34. ASSUME NEW j \in JobIds, FinalizerFails(j) PROVE AgentChange
    BY <1>34 DEF FinalizerFails, FinalizerNext, AgentChange, agentVars
<1> QED
    BY <1>1, <1>2, <1>3, <1>4, <1>5, <1>6, <1>7, <1>8, <1>9, <1>10, <1>11,
       <1>12, <1>13, <1>14, <1>15, <1>16, <1>17, <1>18, <1>19, <1>20, <1>21,
       <1>22, <1>23, <1>24, <1>25, <1>26, <1>27, <1>28, <1>29, <1>30, <1>31,
       <1>32, <1>33, <1>34
    DEF Next, Handler, Ticker, Serve, Worker, Finalizer

\* A manifest snapshot is never removed.
LEMMA ManifestStep ==
    ASSUME IInv, [Next]_vars
    PROVE  manifest \subseteq manifest' /\ manifest' \subseteq JobIds
BY AgentStep DEF AgentChange, IInv, WorkInv, AgentTypes

\* Slots, goroutines and history keep their types.
LEMMA WorkTypesStep ==
    ASSUME IInv, [Next]_vars
    PROVE  /\ slot' \in [Owners \X Repos -> 0..MaxJobs]
           /\ orch' \in [JobIds -> Nat]
           /\ accepted' \subseteq JobIds
<1> DEFINE Good == /\ slot' \in [Owners \X Repos -> 0..MaxJobs]
                   /\ orch' \in [JobIds -> Nat]
                   /\ accepted' \subseteq JobIds
<1> USE ConstantsAssumption
<1>1. RowTypes /\ AgentTypes
    BY DEF IInv, WorkInv
<1>2. \A j \in JobIds : Key(j) \in Owners \X Repos
    BY <1>1 DEF RowTypes, Key, Targets
<1>3. CASE UNCHANGED <<slot, orch, accepted>>
    BY <1>1, <1>3 DEF AgentTypes
<1>4. ASSUME NEW j \in 1..made, Begin(j), UNCHANGED slot \/ Acquire(j) PROVE Good
    <2>1. j \in JobIds
        BY <1>1 DEF RowTypes, JobIds
    <2>2. orch' \in [JobIds -> Nat] /\ accepted' \subseteq JobIds
        BY <1>1, <1>4, <2>1 DEF AgentTypes, Begin
    <2>3. slot' \in [Owners \X Repos -> 0..MaxJobs]
        BY <1>1, <1>2, <1>4, <2>1 DEF AgentTypes, Acquire, JobIds
    <2> QED
        BY <2>2, <2>3
<1>5. ASSUME NEW j \in JobIds, orch[j] > 0, orch' = [orch EXCEPT ![j] = @ - 1],
             Release(j), UNCHANGED accepted
      PROVE  Good
    <2>1. orch' \in [JobIds -> Nat] /\ accepted' \subseteq JobIds
        BY <1>1, <1>5 DEF AgentTypes
    <2>2. slot' \in [Owners \X Repos -> 0..MaxJobs]
        BY <1>1, <1>2, <1>5 DEF AgentTypes, Release
    <2> QED
        BY <2>1, <2>2
<1>6. ASSUME orch' = [j \in JobIds |-> 0], slot' = [k \in Owners \X Repos |-> 0],
             UNCHANGED accepted
      PROVE  Good
    BY <1>1, <1>6 DEF AgentTypes
<1> QED
    BY <1>3, <1>4, <1>5, <1>6, WorkStep DEF WorkChange

\* Work and slots go on naming each other: the key of a job somebody works on
\* is not touched by an insert, a slot is taken only when it is free and it is
\* given back by the goroutine that holds it.
LEMMA SlotsStep == ASSUME IInv, [Next]_vars PROVE Slots'
<1> USE ConstantsAssumption
<1>1. RowTypes /\ AgentTypes /\ Slots
    BY DEF IInv, WorkInv
<1>2. made' \in made..MaxJobs /\ \A j \in 1..made : Key(j)' = Key(j) /\ Kind(j)' = Kind(j)
    BY GrowsStep DEF Grows, Key, Kind
<1>3. \A j \in JobIds : Key(j) \in Owners \X Repos
    BY <1>1 DEF RowTypes, Key, Targets
<1>4. CASE UNCHANGED <<slot, orch>>
    BY <1>1, <1>2, <1>4
    DEF Slots, SlotNamesLiveWork, AccountWork, RowTypes, AgentTypes, JobIds
<1>5. ASSUME NEW j \in 1..made, Kind(j) = "account", Acquire(j), Begin(j)
      PROVE  Slots'
    <2>1. j \in JobIds /\ orch[j] = 0
        BY <1>1, <1>5 DEF RowTypes, AgentTypes, JobIds, Slots, AccountWork, Acquire
    <2>2. \A i \in JobIds : orch'[i] > 0 => i <= made'
        BY <1>1, <1>2, <1>5, <2>1 DEF RowTypes, AgentTypes, JobIds, Slots, Begin
    <2>3. \A i \in AccountWork' : orch'[i] = 1 /\ slot'[Key(i)'] = i
        <3> SUFFICES ASSUME NEW i \in AccountWork' PROVE orch'[i] = 1 /\ slot'[Key(i)'] = i
            OBVIOUS
        <3>1. CASE i = j
            BY <1>1, <1>2, <1>3, <1>5, <2>1, <3>1 DEF AgentTypes, Acquire, Begin
        <3>2. CASE i # j
            <4>1. i \in AccountWork /\ i \in 1..made
                BY <1>1, <1>2, <1>5, <3>2
                DEF AgentTypes, RowTypes, Begin, AccountWork, Slots, JobIds
            <4>2. Key(i) # Key(j)
                BY <1>1, <1>5, <2>1, <3>2, <4>1 DEF Slots, Acquire, AccountWork, JobIds
            <4> QED
                BY <1>1, <1>2, <1>3, <1>5, <3>2, <4>1, <4>2
                DEF AgentTypes, RowTypes, Acquire, Begin, Slots, AccountWork
        <3> QED
            BY <3>1, <3>2
    <2>4. SlotNamesLiveWork'
        <3> SUFFICES ASSUME NEW k \in Owners \X Repos, slot'[k] # 0
                     PROVE  (slot[k] \in AccountWork /\ Key(slot[k]) = k)'
            BY DEF SlotNamesLiveWork
        <3>1. CASE k = Key(j)
            <4>1. slot'[k] = j /\ orch'[j] > 0 /\ Kind(j)' = "account" /\ Key(j)' = k
                BY <1>1, <1>2, <1>5, <2>1, <3>1 DEF AgentTypes, Acquire, Begin
            <4> QED
                BY <2>1, <4>1 DEF AccountWork, Key
        <3>2. CASE k # Key(j)
            <4>1. slot'[k] = slot[k] /\ slot[k] \in AccountWork /\ Key(slot[k]) = k
                BY <1>1, <1>5, <3>2 DEF AgentTypes, Acquire, Slots, SlotNamesLiveWork
            <4>2. slot[k] \in 1..made /\ slot[k] \in JobIds /\ slot[k] # j
                BY <1>1, <4>1, <3>2 DEF Slots, AccountWork, JobIds, RowTypes
            <4> QED
                BY <1>1, <1>2, <1>5, <4>1, <4>2
                DEF AgentTypes, Begin, AccountWork, Key, Kind
        <3> QED
            BY <3>1, <3>2
    <2> QED
        BY <2>2, <2>3, <2>4 DEF Slots
<1>6. ASSUME NEW j \in 1..made, Kind(j) # "account", Begin(j), UNCHANGED slot
      PROVE  Slots'
    <2>1. \A i \in JobIds : orch'[i] > 0 => i <= made'
        BY <1>1, <1>2, <1>6 DEF RowTypes, AgentTypes, JobIds, Slots, Begin
    <2>2. AccountWork' = AccountWork
        BY <1>1, <1>2, <1>6, <2>1
        DEF RowTypes, AgentTypes, JobIds, Slots, Begin, AccountWork
    <2>3. \A i \in AccountWork : orch'[i] = orch[i] /\ Key(i)' = Key(i)
        BY <1>1, <1>2, <1>6 DEF RowTypes, AgentTypes, JobIds, Slots, Begin, AccountWork
    <2> QED
        BY <1>1, <1>6, <2>1, <2>2, <2>3 DEF Slots, SlotNamesLiveWork
<1>7. ASSUME NEW j \in JobIds, orch[j] > 0, orch' = [orch EXCEPT ![j] = @ - 1],
             Release(j)
      PROVE  Slots'
    <2>0. j \in 1..made
        BY <1>1, <1>7 DEF Slots, JobIds, RowTypes
    <2>1. \A i \in JobIds : orch'[i] > 0 => i <= made'
        BY <1>1, <1>2, <1>7 DEF RowTypes, AgentTypes, JobIds, Slots
    <2>2. \A i \in AccountWork' : i # j /\ i \in AccountWork /\ i \in 1..made
        BY <1>1, <1>2, <1>7, <2>0
        DEF RowTypes, AgentTypes, JobIds, Slots, AccountWork
    <2>3. \A i \in AccountWork : i # j => /\ i \in AccountWork' /\ orch'[i] = orch[i]
                                          /\ Key(i)' = Key(i)
        BY <1>1, <1>2, <1>7 DEF RowTypes, AgentTypes, JobIds, Slots, AccountWork
    <2>4. CASE Kind(j) # "account"
        BY <1>1, <1>7, <2>1, <2>2, <2>3, <2>4
        DEF Slots, SlotNamesLiveWork, Release, AccountWork
    <2>5. CASE Kind(j) = "account"
        <3>1. j \in AccountWork /\ slot' = [slot EXCEPT ![Key(j)] = 0]
            BY <1>7, <2>5 DEF AccountWork, Release
        <3>2. \A i \in AccountWork' : orch'[i] = 1 /\ slot'[Key(i)'] = i
            <4> TAKE i \in AccountWork'
            <4>1. Key(i) # Key(j) /\ Key(i)' = Key(i)
                BY <1>1, <2>2, <2>3, <3>1 DEF Slots
            <4> QED
                BY <1>1, <1>3, <2>2, <2>3, <3>1, <4>1 DEF Slots, AgentTypes, AccountWork
        <3>3. SlotNamesLiveWork'
            BY <1>1, <1>3, <2>3, <3>1 DEF Slots, SlotNamesLiveWork, AgentTypes
        <3> QED
            BY <2>1, <3>2, <3>3 DEF Slots
    <2> QED
        BY <2>4, <2>5
<1>8. ASSUME orch' = [j \in JobIds |-> 0], slot' = [k \in Owners \X Repos |-> 0]
      PROVE  Slots'
    BY <1>8 DEF Slots, SlotNamesLiveWork, AccountWork
<1> QED
    BY <1>4, <1>5, <1>6, <1>7, <1>8, WorkStep DEF WorkChange

\* The callers' invariant, when one caller moves.
LEMMA OneCaller ==
    ASSUME IInv, [Next]_vars, NEW c \in Callers, NEW p \in PCs, NEW j \in 0..MaxJobs,
           pc' = [pc EXCEPT ![c] = p], cur' = [cur EXCEPT ![c] = j],
           p \in BusyPCs => j \in 1..made',
           p = "ok" => j \in accepted',
           p \in {"succeeded", "partial"} => Kind(j)' = "restore"
    PROVE  CallInv'
<1>1. CallTypes /\ CallerRefs /\ Answers /\ Grows
    BY GrowsStep DEF IInv, CallInv
<1>2. CallTypes'
    BY <1>1 DEF CallTypes, PCs, BusyPCs
<1>3. ASSUME NEW d \in Callers, d # c PROVE pc'[d] = pc[d] /\ cur'[d] = cur[d]
    BY <1>1, <1>3 DEF CallTypes
<1>4. pc'[c] = p /\ cur'[c] = j
    BY <1>1 DEF CallTypes
<1>5. CallerRefs'
    BY <1>1, <1>3, <1>4, ConstantsAssumption DEF CallerRefs, Grows, IInv, RowTypes
<1>6. Answers'
    <2> SUFFICES ASSUME NEW d \in Callers
                 PROVE  /\ pc'[d] = "ok" => cur'[d] \in accepted'
                        /\ pc'[d] \in {"succeeded", "partial"} =>
                              target'[cur'[d]].kind = "restore"
        BY DEF Answers, Kind
    <2>1. CASE d = c
        BY <1>4, <2>1 DEF Kind
    <2>2. CASE d # c
        <3>1. pc[d] \in BusyPCs => target'[cur[d]] = target[cur[d]]
            BY <1>1 DEF CallerRefs, Grows
        <3> QED
            BY <1>1, <1>3, <2>2, <3>1 DEF Answers, Grows, BusyPCs, Replies, Kind
    <2> QED
        BY <2>1, <2>2
<1> QED
    BY <1>2, <1>5, <1>6 DEF CallInv

\* ... and when none does.
LEMMA NoCaller == ASSUME IInv, [Next]_vars, UNCHANGED callVars PROVE CallInv'
<1>1. CallTypes /\ CallerRefs /\ Answers /\ Grows
    BY GrowsStep DEF IInv, CallInv
<1>2. CallTypes'
    BY <1>1 DEF CallTypes, callVars
<1>3. CallerRefs'
    BY <1>1, ConstantsAssumption DEF CallerRefs, Grows, IInv, RowTypes, callVars
<1>4. Answers'
    BY <1>1 DEF Answers, CallerRefs, Grows, BusyPCs, Replies, Kind, callVars
<1> QED
    BY <1>2, <1>3, <1>4 DEF CallInv

\* The callers: a job in hand exists, and an answer in hand is true.
LEMMA CallStep == ASSUME IInv, [Next]_vars PROVE CallInv'
<1>1. ASSUME NEW h \in Handlers, Request(h) PROVE CallInv'
    <2>1. made + 1 \in 1..made' /\ made + 1 \in 0..MaxJobs /\ h \in Callers
        BY <1>1, ConstantsAssumption DEF Request, Create, IInv, RowTypes, Callers
    <2> QED
        BY <2>1, <1>1, OneCaller DEF Request, PCs, BusyPCs, Replies
<1>2. ASSUME NEW h \in Handlers, RestoreMarkStarted(h) PROVE CallInv'
    <2>1. h \in Callers /\ cur[h] \in 1..made /\ 1..made \subseteq 1..made'
        BY <1>2, GrowsStep, ConstantsAssumption
        DEF RestoreMarkStarted, IInv, RowTypes, CallInv, CallerRefs, BusyPCs, Callers, Grows
    <2>2. cur' = [cur EXCEPT ![h] = cur[h]] /\ cur[h] \in 0..MaxJobs
        BY <1>2, <2>1 DEF RestoreMarkStarted, IInv, CallInv, CallTypes
    <2> QED
        BY <2>1, <2>2, <1>2, OneCaller DEF RestoreMarkStarted, PCs, BusyPCs, Replies
<1>3. ASSUME NEW h \in Handlers, HandlerCall(h) PROVE CallInv'
    <2>1. h \in Callers /\ cur[h] \in 1..made /\ cur[h] \in 0..MaxJobs
        BY <1>3 DEF HandlerCall, IInv, CallInv, CallTypes, CallerRefs, BusyPCs, Callers
    <2> QED
        BY <2>1, <1>3, OneCaller DEF HandlerCall, Call, rowVars, PCs, BusyPCs, Replies
<1>4. ASSUME NEW h \in Handlers, HandlerDone(h) PROVE CallInv'
    <2>1. 0 \in 0..MaxJobs /\ h \in Callers
        BY ConstantsAssumption DEF Callers
    <2> QED
        BY <2>1, <1>4, OneCaller DEF HandlerDone, Return, PCs, BusyPCs, Replies
<1>5. ASSUME NEW h \in Handlers, HandlerGone(h) PROVE CallInv'
    <2>1. 0 \in 0..MaxJobs /\ h \in Callers
        BY ConstantsAssumption DEF Callers
    <2> QED
        BY <2>1, <1>5, OneCaller DEF HandlerGone, Return, PCs, BusyPCs, Replies
<1>6. ASSUME NEW t \in Tickers, TickEnqueue(t) PROVE CallInv'
    <2>1. cur' = [cur EXCEPT ![t] = cur[t]] /\ cur[t] \in 0..MaxJobs /\ t \in Callers
        BY <1>6 DEF TickEnqueue, IInv, CallInv, CallTypes, Callers
    <2> QED
        BY <2>1, <1>6, OneCaller DEF TickEnqueue, PCs, BusyPCs, Replies
<1>7. ASSUME NEW t \in Tickers, EnqueueOne(t) PROVE CallInv'
    BY <1>7, NoCaller DEF EnqueueOne
<1>8. ASSUME NEW t \in Tickers, MarkRan(t) PROVE CallInv'
    <2>1. cur' = [cur EXCEPT ![t] = cur[t]] /\ cur[t] \in 0..MaxJobs /\ t \in Callers
        BY <1>8 DEF MarkRan, IInv, CallInv, CallTypes, Callers
    <2> QED
        BY <2>1, <1>8, OneCaller DEF MarkRan, PCs, BusyPCs, Replies
<1>9. ASSUME NEW t \in Tickers, TickDispatch(t) PROVE CallInv'
    <2>1. cur' = [cur EXCEPT ![t] = cur[t]] /\ cur[t] \in 0..MaxJobs /\ t \in Callers
        BY <1>9 DEF TickDispatch, IInv, CallInv, CallTypes, Callers
    <2> QED
        BY <2>1, <1>9, OneCaller DEF TickDispatch, PCs, BusyPCs, Replies
<1>10. ASSUME NEW t \in Tickers, DispatchSkip(t) PROVE CallInv'
    BY <1>10, NoCaller DEF DispatchSkip, vars
<1>11. ASSUME NEW t \in Tickers, DispatchRefused(t) PROVE CallInv'
    BY <1>11, NoCaller DEF DispatchRefused, vars
<1>12. ASSUME NEW t \in Tickers, DispatchCall(t) PROVE CallInv'
    <2>1. PICK j \in JobIds : Oldest(t, j) /\ Call(t, j)
        BY <1>12 DEF DispatchCall
    <2>2. j \in 1..made' /\ j \in 0..MaxJobs /\ t \in Callers
        BY <1>12, <2>1
        DEF DispatchCall, Oldest, IInv, ListInv, ListRefs, JobIds, Callers, rowVars
    <2> QED
        BY <2>1, <2>2, OneCaller DEF Call, PCs, BusyPCs, Replies
<1>13. ASSUME NEW t \in Tickers, DispatchDone(t) PROVE CallInv'
    <2>1. 0 \in 0..MaxJobs /\ t \in Callers
        BY ConstantsAssumption DEF Callers
    <2> QED
        BY <2>1, <1>13, OneCaller DEF DispatchDone, Return, PCs, BusyPCs, Replies
<1>14. ASSUME NEW t \in Tickers, TickEnd(t) PROVE CallInv'
    <2>1. cur' = [cur EXCEPT ![t] = cur[t]] /\ cur[t] \in 0..MaxJobs /\ t \in Callers
        BY <1>14 DEF TickEnd, IInv, CallInv, CallTypes, Callers
    <2> QED
        BY <2>1, <1>14, OneCaller DEF TickEnd, PCs, BusyPCs, Replies
<1>15. ASSUME NEW t \in Tickers, WriteLost(t) PROVE CallInv'
    <2>1. 0 \in 0..MaxJobs /\ t \in Callers
        BY ConstantsAssumption DEF Callers
    <2> QED
        BY <2>1, <1>15, OneCaller DEF WriteLost, Return, PCs, BusyPCs, Replies
<1>16. ASSUME NEW c \in Callers, Timeout(c) PROVE CallInv'
    <2>1. c \in Callers /\ cur[c] \in 1..made /\ 1..made \subseteq 1..made'
        BY <1>16, GrowsStep, ConstantsAssumption
        DEF Timeout, IInv, RowTypes, CallInv, CallerRefs, BusyPCs, Callers, Grows
    <2>2. cur' = [cur EXCEPT ![c] = cur[c]] /\ cur[c] \in 0..MaxJobs
        BY <1>16, <2>1 DEF Timeout, IInv, CallInv, CallTypes
    <2> QED
        BY <2>1, <2>2, <1>16, OneCaller DEF Timeout, PCs, BusyPCs, Replies
<1>17. ASSUME NEW c \in Callers, NEW j \in JobIds, BackupCreate(c, j) PROVE CallInv'
    <2>1. CASE pc[c] = "calling" /\ cur[c] = j
        <3>1. cur' = [cur EXCEPT ![c] = j] /\ pc' = [pc EXCEPT ![c] = "ok"] /\ j \in 0..MaxJobs
            BY <1>17, <2>1 DEF BackupCreate, Reply, IInv, CallInv, CallTypes
        <3>2. j \in 1..made'
            BY <1>17, <2>1 DEF BackupCreate, IInv, CallInv, CallerRefs, BusyPCs, rowVars
        <3> QED
            BY <1>17, <3>1, <3>2, OneCaller DEF BackupCreate, Begin, PCs, BusyPCs, Replies
    <2>2. CASE ~(pc[c] = "calling" /\ cur[c] = j)
        BY <1>17, <2>2, NoCaller DEF BackupCreate, Reply, callVars, IInv, CallInv, CallTypes
    <2> QED
        BY <2>1, <2>2
<1>18. ASSUME NEW c \in Callers, NEW j \in JobIds, BackupConflict(c, j) PROVE CallInv'
    <2>1. CASE pc[c] = "calling" /\ cur[c] = j
        <3>1. cur' = [cur EXCEPT ![c] = j] /\ pc' = [pc EXCEPT ![c] = "conflict"] /\ j \in 0..MaxJobs
            BY <1>18, <2>1 DEF BackupConflict, Reply, IInv, CallInv, CallTypes
        <3>2. j \in 1..made'
            BY <1>18, <2>1 DEF BackupConflict, IInv, CallInv, CallerRefs, BusyPCs, rowVars
        <3> QED
            BY <1>18, <3>1, <3>2, OneCaller DEF BackupConflict, PCs, BusyPCs, Replies
    <2>2. CASE ~(pc[c] = "calling" /\ cur[c] = j)
        BY <1>18, <2>2, NoCaller DEF BackupConflict, Reply, callVars, IInv, CallInv, CallTypes
    <2> QED
        BY <2>1, <2>2
<1>19. ASSUME NEW c \in Callers, NEW j \in JobIds, SystemBackup(c, j) PROVE CallInv'
    <2>1. CASE pc[c] = "calling" /\ cur[c] = j
        <3>1. cur' = [cur EXCEPT ![c] = j] /\ pc' = [pc EXCEPT ![c] = "ok"] /\ j \in 0..MaxJobs
            BY <1>19, <2>1 DEF SystemBackup, Reply, IInv, CallInv, CallTypes
        <3>2. j \in 1..made'
            BY <1>19, <2>1 DEF SystemBackup, IInv, CallInv, CallerRefs, BusyPCs, rowVars
        <3> QED
            BY <1>19, <3>1, <3>2, OneCaller DEF SystemBackup, Begin, PCs, BusyPCs, Replies
    <2>2. CASE ~(pc[c] = "calling" /\ cur[c] = j)
        BY <1>19, <2>2, NoCaller DEF SystemBackup, Reply, callVars, IInv, CallInv, CallTypes
    <2> QED
        BY <2>1, <2>2
<1>20. ASSUME NEW c \in Callers, NEW j \in JobIds, RestoreBegin(c, j) PROVE CallInv'
    BY <1>20, NoCaller DEF RestoreBegin, vars
<1>21. ASSUME NEW c \in Callers, NEW j \in JobIds, RestoreRefused(c, j) PROVE CallInv'
    <2>1. CASE pc[c] = "calling" /\ cur[c] = j
        <3>1. cur' = [cur EXCEPT ![c] = j] /\ pc' = [pc EXCEPT ![c] = "error"] /\ j \in 0..MaxJobs
            BY <1>21, <2>1 DEF RestoreRefused, Reply, IInv, CallInv, CallTypes
        <3>2. j \in 1..made'
            BY <1>21, <2>1 DEF RestoreRefused, IInv, CallInv, CallerRefs, BusyPCs, rowVars
        <3> QED
            BY <1>21, <3>1, <3>2, OneCaller DEF RestoreRefused, PCs, BusyPCs, Replies
    <2>2. CASE ~(pc[c] = "calling" /\ cur[c] = j)
        BY <1>21, <2>2, NoCaller DEF RestoreRefused, Reply, callVars, IInv, CallInv, CallTypes
    <2> QED
        BY <2>1, <2>2
<1>22. ASSUME NEW j \in JobIds, RestoreDone(j) PROVE CallInv'
    <2>1. PICK r \in {"succeeded", "partial", "failed", "error"} :
             pc' = [c \in Callers |->
                      IF pc[c] = "calling" /\ cur[c] = j THEN r ELSE pc[c]]
        BY <1>22 DEF RestoreDone
    <2>2. UNCHANGED <<cur, made, target, accepted>> /\ Kind(j) = "restore"
        BY <1>22 DEF RestoreDone, rowVars
    <2>3. CallTypes /\ CallerRefs /\ Answers
        BY DEF IInv, CallInv
    <2>4. CallTypes'
        BY <2>1, <2>2, <2>3 DEF CallTypes, Replies
    <2>5. CallerRefs'
        BY <2>1, <2>2, <2>3 DEF CallerRefs, BusyPCs
    <2>6. Answers'
        BY <2>1, <2>2, <2>3 DEF Answers, Kind
    <2> QED
        BY <2>4, <2>5, <2>6 DEF CallInv
<1>23. ASSUME NEW j \in JobIds, OrchestratorExit(j) PROVE CallInv'
    BY <1>23, NoCaller DEF OrchestratorExit, vars
<1>24. ASSUME NEW j \in JobIds, WriteManifest(j) PROVE CallInv'
    BY <1>24, NoCaller DEF WriteManifest, vars
<1>25. ASSUME NEW j \in JobIds, Age(j) PROVE CallInv'
    BY <1>25, NoCaller DEF Age, vars
<1>26. ASSUME FinalizerTick PROVE CallInv'
    BY <1>26, NoCaller DEF FinalizerTick, vars
<1>27. ASSUME NEW j \in JobIds, Stalled(j) PROVE CallInv'
    BY <1>27, NoCaller DEF Stalled, FinalizerNext
<1>28. ASSUME NEW j \in JobIds, Finalize(j) PROVE CallInv'
    BY <1>28, NoCaller DEF Finalize, FinalizerNext
<1>29. ASSUME NEW j \in JobIds, StillRunning(j) PROVE CallInv'
    BY <1>29, NoCaller DEF StillRunning, FinalizerNext
<1>30. ASSUME ScheduleDue PROVE CallInv'
    BY <1>30, NoCaller DEF ScheduleDue, vars
<1>31. ASSUME AgentRestart PROVE CallInv'
    <2>1. CallTypes /\ CallerRefs /\ Answers
        BY DEF IInv, CallInv
    <2>2. CallTypes'
        BY <1>31, <2>1 DEF AgentRestart, CallTypes, Replies
    <2>3. CallerRefs'
        BY <1>31, <2>1 DEF AgentRestart, CallerRefs, BusyPCs, rowVars
    <2>4. Answers'
        BY <1>31, <2>1 DEF AgentRestart, Answers, Kind, rowVars
    <2> QED
        BY <2>2, <2>3, <2>4 DEF CallInv
<1>32. ASSUME PanelRestart PROVE CallInv'
    <2>1. CallTypes /\ CallerRefs /\ Answers
        BY DEF IInv, CallInv
    <2>2. CallTypes'
        BY <1>32, <2>1, ConstantsAssumption DEF PanelRestart, CallTypes
    <2>3. CallerRefs'
        BY <1>32, <2>1 DEF PanelRestart, CallerRefs, BusyPCs, Replies, rowVars
    <2>4. Answers'
        BY <1>32, <2>1 DEF PanelRestart, Answers, Kind, rowVars, agentVars
    <2> QED
        BY <2>2, <2>3, <2>4 DEF CallInv
<1>33. ASSUME UNCHANGED vars PROVE CallInv'
    BY <1>33, NoCaller DEF vars, vars
<1>34. ASSUME NEW j \in JobIds, FinalizerFails(j) PROVE CallInv'
    BY <1>34, NoCaller DEF FinalizerFails, FinalizerNext
<1> QED
    BY <1>1, <1>2, <1>3, <1>4, <1>5, <1>6, <1>7, <1>8, <1>9, <1>10, <1>11,
       <1>12, <1>13, <1>14, <1>15, <1>16, <1>17, <1>18, <1>19, <1>20, <1>21,
       <1>22, <1>23, <1>24, <1>25, <1>26, <1>27, <1>28, <1>29, <1>30, <1>31,
       <1>32, <1>33, <1>34
    DEF Next, Handler, Ticker, Serve, Worker, Finalizer

\* The lists: what a ticker, the finalizer or the wire holds exists.
LEMMA ListStep == ASSUME IInv, [Next]_vars PROVE ListInv'
<1> USE ConstantsAssumption
<1> DEFINE Old == made \in 0..MaxJobs /\ made' \in made..MaxJobs /\ ListInv
<1>0. Old
    BY GrowsStep DEF IInv, RowTypes, Grows
<1>1. ASSUME NEW h \in Handlers, Request(h) PROVE ListInv'
    <2>1. TickTypes'
        BY <1>0, <1>1 DEF Request, ListInv, TickTypes, tickVars, JobIds
    <2>2. FinTypes'
        BY <1>0, <1>1 DEF Request, ListInv, FinTypes, finVars, JobIds
    <2>3. ListRefs'
        BY <1>0, <1>1
        DEF Request, ListInv, ListRefs, TickTypes, tickVars, agentVars, finVars, JobIds
    <2> QED
        BY <2>1, <2>2, <2>3 DEF ListInv
<1>2. ASSUME NEW h \in Handlers, RestoreMarkStarted(h) PROVE ListInv'
    <2>1. TickTypes'
        BY <1>0, <1>2 DEF RestoreMarkStarted, ListInv, TickTypes, tickVars, JobIds
    <2>2. FinTypes'
        BY <1>0, <1>2 DEF RestoreMarkStarted, ListInv, FinTypes, finVars, JobIds
    <2>3. ListRefs'
        BY <1>0, <1>2
        DEF RestoreMarkStarted, ListInv, ListRefs, TickTypes, tickVars, agentVars, finVars, JobIds
    <2> QED
        BY <2>1, <2>2, <2>3 DEF ListInv
<1>3. ASSUME NEW h \in Handlers, HandlerCall(h) PROVE ListInv'
    <2>0. h \in Callers /\ cur[h] \in 1..made
        BY <1>3 DEF HandlerCall, IInv, CallInv, CallerRefs, BusyPCs, Callers
    <2>1. TickTypes'
        BY <1>0, <1>3 DEF HandlerCall, ListInv, TickTypes, tickVars, JobIds
    <2>2. FinTypes'
        BY <1>0, <1>3 DEF HandlerCall, ListInv, FinTypes, finVars, JobIds
    <2>3. ListRefs'
        BY <1>0, <2>0, <1>3
        DEF HandlerCall, Call, rowVars, ListInv, ListRefs, TickTypes, tickVars, agentVars, finVars, JobIds
    <2> QED
        BY <2>1, <2>2, <2>3 DEF ListInv
<1>4. ASSUME NEW h \in Handlers, HandlerDone(h) PROVE ListInv'
    <2>1. TickTypes'
        BY <1>0, <1>4 DEF HandlerDone, ListInv, TickTypes, tickVars, JobIds
    <2>2. FinTypes'
        BY <1>0, <1>4 DEF HandlerDone, ListInv, FinTypes, finVars, JobIds
    <2>3. ListRefs'
        BY <1>0, <1>4
        DEF HandlerDone, ListInv, ListRefs, TickTypes, tickVars, agentVars, finVars, JobIds
    <2> QED
        BY <2>1, <2>2, <2>3 DEF ListInv
<1>5. ASSUME NEW h \in Handlers, HandlerGone(h) PROVE ListInv'
    <2>1. TickTypes'
        BY <1>0, <1>5 DEF HandlerGone, ListInv, TickTypes, tickVars, JobIds
    <2>2. FinTypes'
        BY <1>0, <1>5 DEF HandlerGone, Fault, ListInv, FinTypes, finVars, JobIds
    <2>3. ListRefs'
        BY <1>0, <1>5
        DEF HandlerGone, ListInv, ListRefs, TickTypes, tickVars, agentVars, finVars, JobIds
    <2> QED
        BY <2>1, <2>2, <2>3 DEF ListInv
<1>6. ASSUME NEW t \in Tickers, TickEnqueue(t) PROVE ListInv'
    <2>1. TickTypes'
        BY <1>0, <1>6 DEF TickEnqueue, ListInv, TickTypes, tickVars, JobIds
    <2>2. FinTypes'
        BY <1>0, <1>6 DEF TickEnqueue, ListInv, FinTypes, finVars, JobIds
    <2>3. ListRefs'
        BY <1>0, <1>6
        DEF TickEnqueue, ListInv, ListRefs, TickTypes, tickVars, agentVars, finVars, JobIds
    <2> QED
        BY <2>1, <2>2, <2>3 DEF ListInv
<1>7. ASSUME NEW t \in Tickers, EnqueueOne(t) PROVE ListInv'
    <2>1. TickTypes'
        BY <1>0, <1>7 DEF EnqueueOne, ListInv, TickTypes, tickVars, JobIds
    <2>2. FinTypes'
        BY <1>0, <1>7 DEF EnqueueOne, ListInv, FinTypes, finVars, JobIds
    <2>3. ListRefs'
        BY <1>0, <1>7
        DEF EnqueueOne, ListInv, ListRefs, TickTypes, tickVars, agentVars, finVars, JobIds
    <2> QED
        BY <2>1, <2>2, <2>3 DEF ListInv
<1>8. ASSUME NEW t \in Tickers, MarkRan(t) PROVE ListInv'
    <2>1. TickTypes'
        BY <1>0, <1>8 DEF MarkRan, ListInv, TickTypes, tickVars, JobIds
    <2>2. FinTypes'
        BY <1>0, <1>8 DEF MarkRan, ListInv, FinTypes, finVars, JobIds
    <2>3. ListRefs'
        BY <1>0, <1>8
        DEF MarkRan, ListInv, ListRefs, TickTypes, tickVars, agentVars, finVars, JobIds
    <2> QED
        BY <2>1, <2>2, <2>3 DEF ListInv
<1>9. ASSUME NEW t \in Tickers, TickDispatch(t) PROVE ListInv'
    <2>0. ListQueuedOldest(MaxConcurrent - Cardinality(Running)) \subseteq 1..made
        BY DEF ListQueuedOldest, Queued, IInv, Rows, JobIds, RowTypes
    <2>1. TickTypes'
        BY <1>0, <2>0, <1>9 DEF TickDispatch, ListInv, TickTypes, tickVars, JobIds
    <2>2. FinTypes'
        BY <1>0, <2>0, <1>9 DEF TickDispatch, ListInv, FinTypes, finVars, JobIds
    <2>3. ListRefs'
        BY <1>0, <2>0, <1>9
        DEF TickDispatch, ListInv, ListRefs, TickTypes, tickVars, agentVars, finVars, JobIds
    <2> QED
        BY <2>1, <2>2, <2>3 DEF ListInv
<1>10. ASSUME NEW t \in Tickers, DispatchSkip(t) PROVE ListInv'
    <2>1. TickTypes'
        BY <1>0, <1>10 DEF DispatchSkip, Drop, ListInv, TickTypes, tickVars, JobIds
    <2>2. FinTypes'
        BY <1>0, <1>10 DEF DispatchSkip, ListInv, FinTypes, finVars, JobIds
    <2>3. ListRefs'
        BY <1>0, <1>10
        DEF DispatchSkip, Drop, ListInv, ListRefs, TickTypes, tickVars, agentVars, finVars, JobIds
    <2> QED
        BY <2>1, <2>2, <2>3 DEF ListInv
<1>11. ASSUME NEW t \in Tickers, DispatchRefused(t) PROVE ListInv'
    <2>1. TickTypes'
        BY <1>0, <1>11 DEF DispatchRefused, Drop, ListInv, TickTypes, tickVars, JobIds
    <2>2. FinTypes'
        BY <1>0, <1>11 DEF DispatchRefused, Fault, ListInv, FinTypes, finVars, JobIds
    <2>3. ListRefs'
        BY <1>0, <1>11
        DEF DispatchRefused, Drop, ListInv, ListRefs, TickTypes, tickVars, agentVars, finVars, JobIds
    <2> QED
        BY <2>1, <2>2, <2>3 DEF ListInv
<1>12. ASSUME NEW t \in Tickers, DispatchCall(t) PROVE ListInv'
    <2>0. PICK j \in JobIds : Oldest(t, j) /\ Drop(t, j) /\ Call(t, j)
        BY <1>12 DEF DispatchCall
    <2>1. TickTypes'
        BY <1>0, <2>0, <1>12 DEF DispatchCall, Drop, ListInv, TickTypes, JobIds
    <2>2. FinTypes'
        BY <1>0, <1>12 DEF DispatchCall, ListInv, FinTypes, finVars, JobIds
    <2>3. j \in 1..made /\ t \in Callers
        BY <1>0, <2>0 DEF Oldest, ListInv, ListRefs, Callers
    <2>4. ListRefs'
        BY <1>0, <2>0, <2>3, <1>12
        DEF DispatchCall, Call, Drop, ListInv, ListRefs, TickTypes, rowVars, finVars
    <2> QED
        BY <2>1, <2>2, <2>4 DEF ListInv
<1>13. ASSUME NEW t \in Tickers, DispatchDone(t) PROVE ListInv'
    <2>0. cur[t] \in 1..made
        BY <1>13 DEF DispatchDone, IInv, CallInv, CallerRefs, BusyPCs, Callers
    <2>1. TickTypes'
        BY <1>0, <1>13 DEF DispatchDone, ListInv, TickTypes, tickVars, JobIds
    <2>2. FinTypes'
        BY <1>0, <2>0, <1>13 DEF DispatchDone, ListInv, FinTypes, finVars, JobIds
    <2>3. ListRefs'
        BY <1>0, <1>13
        DEF DispatchDone, ListInv, ListRefs, TickTypes, tickVars, agentVars, finVars, JobIds
    <2> QED
        BY <2>1, <2>2, <2>3 DEF ListInv
<1>14. ASSUME NEW t \in Tickers, TickEnd(t) PROVE ListInv'
    <2>1. TickTypes'
        BY <1>0, <1>14 DEF TickEnd, ListInv, TickTypes, tickVars, JobIds
    <2>2. FinTypes'
        BY <1>0, <1>14 DEF TickEnd, ListInv, FinTypes, finVars, JobIds
    <2>3. ListRefs'
        BY <1>0, <1>14
        DEF TickEnd, ListInv, ListRefs, TickTypes, tickVars, agentVars, finVars, JobIds
    <2> QED
        BY <2>1, <2>2, <2>3 DEF ListInv
<1>15. ASSUME NEW t \in Tickers, WriteLost(t) PROVE ListInv'
    <2>1. TickTypes'
        BY <1>0, <1>15 DEF WriteLost, ListInv, TickTypes, tickVars, JobIds
    <2>2. FinTypes'
        BY <1>0, <1>15 DEF WriteLost, Fault, ListInv, FinTypes, finVars, JobIds
    <2>3. ListRefs'
        BY <1>0, <1>15
        DEF WriteLost, ListInv, ListRefs, TickTypes, tickVars, agentVars, finVars, JobIds
    <2> QED
        BY <2>1, <2>2, <2>3 DEF ListInv
<1>16. ASSUME NEW c \in Callers, Timeout(c) PROVE ListInv'
    <2>1. TickTypes'
        BY <1>0, <1>16 DEF Timeout, ListInv, TickTypes, tickVars, JobIds
    <2>2. FinTypes'
        BY <1>0, <1>16 DEF Timeout, Fault, ListInv, FinTypes, finVars, JobIds
    <2>3. ListRefs'
        BY <1>0, <1>16
        DEF Timeout, ListInv, ListRefs, TickTypes, tickVars, agentVars, finVars, JobIds
    <2> QED
        BY <2>1, <2>2, <2>3 DEF ListInv
<1>17. ASSUME NEW c \in Callers, NEW j \in JobIds, BackupCreate(c, j) PROVE ListInv'
    <2>1. TickTypes'
        BY <1>0, <1>17 DEF BackupCreate, ListInv, TickTypes, tickVars, JobIds
    <2>2. FinTypes'
        BY <1>0, <1>17 DEF BackupCreate, ListInv, FinTypes, finVars, JobIds
    <2>3. ListRefs'
        BY <1>0, <1>17
        DEF BackupCreate, ListInv, ListRefs, TickTypes, tickVars, agentVars, finVars, JobIds
    <2> QED
        BY <2>1, <2>2, <2>3 DEF ListInv
<1>18. ASSUME NEW c \in Callers, NEW j \in JobIds, BackupConflict(c, j) PROVE ListInv'
    <2>1. TickTypes'
        BY <1>0, <1>18 DEF BackupConflict, ListInv, TickTypes, tickVars, JobIds
    <2>2. FinTypes'
        BY <1>0, <1>18 DEF BackupConflict, ListInv, FinTypes, finVars, JobIds
    <2>3. ListRefs'
        BY <1>0, <1>18
        DEF BackupConflict, ListInv, ListRefs, TickTypes, tickVars, agentVars, finVars, JobIds
    <2> QED
        BY <2>1, <2>2, <2>3 DEF ListInv
<1>19. ASSUME NEW c \in Callers, NEW j \in JobIds, SystemBackup(c, j) PROVE ListInv'
    <2>1. TickTypes'
        BY <1>0, <1>19 DEF SystemBackup, ListInv, TickTypes, tickVars, JobIds
    <2>2. FinTypes'
        BY <1>0, <1>19 DEF SystemBackup, ListInv, FinTypes, finVars, JobIds
    <2>3. ListRefs'
        BY <1>0, <1>19
        DEF SystemBackup, ListInv, ListRefs, TickTypes, tickVars, agentVars, finVars, JobIds
    <2> QED
        BY <2>1, <2>2, <2>3 DEF ListInv
<1>20. ASSUME NEW c \in Callers, NEW j \in JobIds, RestoreBegin(c, j) PROVE ListInv'
    <2>1. TickTypes'
        BY <1>0, <1>20 DEF RestoreBegin, ListInv, TickTypes, tickVars, JobIds
    <2>2. FinTypes'
        BY <1>0, <1>20 DEF RestoreBegin, ListInv, FinTypes, finVars, JobIds
    <2>3. ListRefs'
        BY <1>0, <1>20
        DEF RestoreBegin, ListInv, ListRefs, TickTypes, tickVars, agentVars, finVars, JobIds
    <2> QED
        BY <2>1, <2>2, <2>3 DEF ListInv
<1>21. ASSUME NEW c \in Callers, NEW j \in JobIds, RestoreRefused(c, j) PROVE ListInv'
    <2>1. TickTypes'
        BY <1>0, <1>21 DEF RestoreRefused, ListInv, TickTypes, tickVars, JobIds
    <2>2. FinTypes'
        BY <1>0, <1>21 DEF RestoreRefused, ListInv, FinTypes, finVars, JobIds
    <2>3. ListRefs'
        BY <1>0, <1>21
        DEF RestoreRefused, ListInv, ListRefs, TickTypes, tickVars, agentVars, finVars, JobIds
    <2> QED
        BY <2>1, <2>2, <2>3 DEF ListInv
<1>22. ASSUME NEW j \in JobIds, RestoreDone(j) PROVE ListInv'
    <2>1. TickTypes'
        BY <1>0, <1>22 DEF RestoreDone, ListInv, TickTypes, tickVars, JobIds
    <2>2. FinTypes'
        BY <1>0, <1>22 DEF RestoreDone, ListInv, FinTypes, finVars, JobIds
    <2>3. ListRefs'
        BY <1>0, <1>22
        DEF RestoreDone, ListInv, ListRefs, TickTypes, tickVars, agentVars, finVars, JobIds
    <2> QED
        BY <2>1, <2>2, <2>3 DEF ListInv
<1>23. ASSUME NEW j \in JobIds, OrchestratorExit(j) PROVE ListInv'
    <2>1. TickTypes'
        BY <1>0, <1>23 DEF OrchestratorExit, ListInv, TickTypes, tickVars, JobIds
    <2>2. FinTypes'
        BY <1>0, <1>23 DEF OrchestratorExit, ListInv, FinTypes, finVars, JobIds
    <2>3. ListRefs'
        BY <1>0, <1>23
        DEF OrchestratorExit, ListInv, ListRefs, TickTypes, tickVars, agentVars, finVars, JobIds
    <2> QED
        BY <2>1, <2>2, <2>3 DEF ListInv
<1>24. ASSUME NEW j \in JobIds, WriteManifest(j) PROVE ListInv'
    <2>1. TickTypes'
        BY <1>0, <1>24 DEF WriteManifest, ListInv, TickTypes, tickVars, JobIds
    <2>2. FinTypes'
        BY <1>0, <1>24 DEF WriteManifest, ListInv, FinTypes, finVars, JobIds
    <2>3. ListRefs'
        BY <1>0, <1>24
        DEF WriteManifest, ListInv, ListRefs, TickTypes, tickVars, agentVars, finVars, JobIds
    <2> QED
        BY <2>1, <2>2, <2>3 DEF ListInv
<1>25. ASSUME NEW j \in JobIds, Age(j) PROVE ListInv'
    <2>1. TickTypes'
        BY <1>0, <1>25 DEF Age, ListInv, TickTypes, tickVars, JobIds
    <2>2. FinTypes'
        BY <1>0, <1>25 DEF Age, ListInv, FinTypes, finVars, JobIds
    <2>3. ListRefs'
        BY <1>0, <1>25
        DEF Age, ListInv, ListRefs, TickTypes, tickVars, agentVars, finVars, JobIds
    <2> QED
        BY <2>1, <2>2, <2>3 DEF ListInv
<1>26. ASSUME FinalizerTick PROVE ListInv'
    <2>1. TickTypes'
        BY <1>0, <1>26 DEF FinalizerTick, ListInv, TickTypes, tickVars, JobIds
    <2>2. FinTypes'
        BY <1>0, <1>26 DEF FinalizerTick, ListAll, ListInv, FinTypes, finVars, JobIds
    <2>3. ListRefs'
        BY <1>0, <1>26
        DEF FinalizerTick, ListAll, ListInv, ListRefs, TickTypes, tickVars, agentVars, finVars, JobIds
    <2> QED
        BY <2>1, <2>2, <2>3 DEF ListInv
<1>27. ASSUME NEW j \in JobIds, Stalled(j) PROVE ListInv'
    <2>1. TickTypes'
        BY <1>0, <1>27 DEF Stalled, FinalizerNext, ListInv, TickTypes, tickVars, JobIds
    <2>2. FinTypes'
        BY <1>0, <1>27 DEF Stalled, FinalizerNext, ListInv, FinTypes, finVars, JobIds
    <2>3. ListRefs'
        BY <1>0, <1>27
        DEF Stalled, FinalizerNext, ListInv, ListRefs, TickTypes, tickVars, agentVars, finVars, JobIds
    <2> QED
        BY <2>1, <2>2, <2>3 DEF ListInv
<1>28. ASSUME NEW j \in JobIds, Finalize(j) PROVE ListInv'
    <2>1. TickTypes'
        BY <1>0, <1>28 DEF Finalize, FinalizerNext, ListInv, TickTypes, tickVars, JobIds
    <2>2. FinTypes'
        BY <1>0, <1>28 DEF Finalize, FinalizerNext, ListInv, FinTypes, finVars, JobIds
    <2>3. ListRefs'
        BY <1>0, <1>28
        DEF Finalize, FinalizerNext, ListInv, ListRefs, TickTypes, tickVars, agentVars, finVars, JobIds
    <2> QED
        BY <2>1, <2>2, <2>3 DEF ListInv
<1>29. ASSUME NEW j \in JobIds, StillRunning(j) PROVE ListInv'
    <2>1. TickTypes'
        BY <1>0, <1>29 DEF StillRunning, FinalizerNext, ListInv, TickTypes, tickVars, JobIds
    <2>2. FinTypes'
        BY <1>0, <1>29 DEF StillRunning, FinalizerNext, ListInv, FinTypes, finVars, JobIds
    <2>3. ListRefs'
        BY <1>0, <1>29
        DEF StillRunning, FinalizerNext, ListInv, ListRefs, TickTypes, tickVars, agentVars, finVars, JobIds
    <2> QED
        BY <2>1, <2>2, <2>3 DEF ListInv
<1>30. ASSUME ScheduleDue PROVE ListInv'
    <2>1. TickTypes'
        BY <1>0, <1>30 DEF ScheduleDue, ListInv, TickTypes, tickVars, JobIds
    <2>2. FinTypes'
        BY <1>0, <1>30 DEF ScheduleDue, ListInv, FinTypes, finVars, JobIds
    <2>3. ListRefs'
        BY <1>0, <1>30
        DEF ScheduleDue, ListInv, ListRefs, TickTypes, tickVars, agentVars, finVars, JobIds
    <2> QED
        BY <2>1, <2>2, <2>3 DEF ListInv
<1>31. ASSUME AgentRestart PROVE ListInv'
    <2>1. TickTypes'
        BY <1>0, <1>31 DEF AgentRestart, ListInv, TickTypes, tickVars, JobIds
    <2>2. FinTypes'
        BY <1>0, <1>31 DEF AgentRestart, Fault, ListInv, FinTypes, finVars, JobIds
    <2>3. ListRefs'
        BY <1>0, <1>31
        DEF AgentRestart, ListInv, ListRefs, TickTypes, tickVars, agentVars, finVars, JobIds
    <2> QED
        BY <2>1, <2>2, <2>3 DEF ListInv
<1>32. ASSUME PanelRestart PROVE ListInv'
    <2>1. TickTypes'
        BY <1>0, <1>32 DEF PanelRestart, ListInv, TickTypes, tickVars, JobIds
    <2>2. FinTypes'
        BY <1>0, <1>32 DEF PanelRestart, Fault, ListInv, FinTypes, finVars, JobIds
    <2>3. ListRefs'
        BY <1>0, <1>32
        DEF PanelRestart, ListInv, ListRefs, TickTypes, tickVars, agentVars, finVars, JobIds
    <2> QED
        BY <2>1, <2>2, <2>3 DEF ListInv
<1>33. ASSUME UNCHANGED vars PROVE ListInv'
    <2>1. TickTypes'
        BY <1>0, <1>33 DEF vars, ListInv, TickTypes, tickVars, JobIds
    <2>2. FinTypes'
        BY <1>0, <1>33 DEF vars, ListInv, FinTypes, finVars, JobIds
    <2>3. ListRefs'
        BY <1>0, <1>33
        DEF vars, ListInv, ListRefs, TickTypes, tickVars, agentVars, finVars, JobIds
    <2> QED
        BY <2>1, <2>2, <2>3 DEF ListInv
<1>34. ASSUME NEW j \in JobIds, FinalizerFails(j) PROVE ListInv'
    <2>1. TickTypes'
        BY <1>0, <1>34 DEF FinalizerFails, FinalizerNext, ListInv, TickTypes, tickVars, JobIds
    <2>2. FinTypes'
        BY <1>0, <1>34 DEF FinalizerFails, FinalizerNext, Fault, ListInv, FinTypes, JobIds
    <2>3. ListRefs'
        BY <1>0, <1>34
        DEF FinalizerFails, FinalizerNext, ListInv, ListRefs, TickTypes, rowVars, tickVars, agentVars, JobIds
    <2> QED
        BY <2>1, <2>2, <2>3 DEF ListInv
<1> QED
    BY <1>1, <1>2, <1>3, <1>4, <1>5, <1>6, <1>7, <1>8, <1>9, <1>10, <1>11,
       <1>12, <1>13, <1>14, <1>15, <1>16, <1>17, <1>18, <1>19, <1>20, <1>21,
       <1>22, <1>23, <1>24, <1>25, <1>26, <1>27, <1>28, <1>29, <1>30, <1>31,
       <1>32, <1>33, <1>34
    DEF Next, Handler, Ticker, Serve, Worker, Finalizer

\* A row that says succeeded has its manifest; one that says running was taken.
LEMMA TruthStep == ASSUME IInv, [Next]_vars
                   PROVE  (SucceededHasManifest /\ RunningWasAccepted)'
<1>1. RowTypes /\ Rows /\ SucceededHasManifest /\ RunningWasAccepted
    BY DEF IInv
<1>2. manifest \subseteq manifest' /\ Grows
    BY ManifestStep, GrowsStep
<1>3. ASSUME NEW j \in JobIds
      PROVE  /\ status'[j] = "succeeded" /\ Kind(j)' # "restore" => j \in manifest'
             /\ status'[j] = "running" /\ Kind(j)' # "restore" => j \in accepted'
    <2>1. CASE UNCHANGED <<target, status>>
        BY <1>1, <1>2, <2>1 DEF SucceededHasManifest, RunningWasAccepted, Grows, Kind
    <2>2. ASSUME NEW t \in Targets, Create(t)
          PROVE  /\ status'[j] = "succeeded" /\ Kind(j)' # "restore" => j \in manifest'
                 /\ status'[j] = "running" /\ Kind(j)' # "restore" => j \in accepted'
        BY <1>1, <1>2, <2>2, ConstantsAssumption
        DEF SucceededHasManifest, RunningWasAccepted, Grows, Kind, RowTypes, Create, JobIds
    <2>3. ASSUME NEW i \in 1..made, MarkStarted(i), Kind(i) = "restore" \/ i \in accepted
          PROVE  /\ status'[j] = "succeeded" /\ Kind(j)' # "restore" => j \in manifest'
                 /\ status'[j] = "running" /\ Kind(j)' # "restore" => j \in accepted'
        BY <1>1, <1>2, <2>3
        DEF SucceededHasManifest, RunningWasAccepted, Grows, Kind, RowTypes, MarkStarted
    <2>4. ASSUME NEW i \in 1..made, NEW s \in Closed, MarkFinished(i, s),
                 s = "succeeded" => Kind(i) = "restore" \/ i \in manifest
          PROVE  /\ status'[j] = "succeeded" /\ Kind(j)' # "restore" => j \in manifest'
                 /\ status'[j] = "running" /\ Kind(j)' # "restore" => j \in accepted'
        BY <1>1, <1>2, <2>4
        DEF SucceededHasManifest, RunningWasAccepted, Grows, Kind, RowTypes, MarkFinished,
            Closed
    <2> QED
        BY <2>1, <2>2, <2>3, <2>4, RowStep DEF RowChange, rowVars
<1> QED
    BY <1>3 DEF SucceededHasManifest, RunningWasAccepted

\* The initial states satisfy the invariant.
LEMMA InitInv == Init => IInv
<1> SUFFICES ASSUME Init PROVE IInv
    OBVIOUS
<1> USE ConstantsAssumption DEF Init
<1>1. (CHOOSE t \in Targets : TRUE) \in Targets
    <2>1. [kind |-> "account", user |-> "system", dest |-> NoDest] \in Targets
        BY DEF Targets, Kinds, Owners, Repos
    <2> QED
        BY <2>1
<1>2. RowTypes /\ Rows
    BY <1>1 DEF RowTypes, Rows, JobIds
<1>3. CallInv
    BY DEF CallInv, CallTypes, CallerRefs, Answers, BusyPCs, Replies
<1>4. ListInv
    <2>1. due \in BOOLEAN
        BY Zenon
    <2>2. fan \in [Tickers -> SUBSET Targets] /\ todo \in [Tickers -> SUBSET JobIds]
        OBVIOUS
    <2>3. FinTypes
        BY DEF FinTypes
    <2>4. ListRefs
        BY DEF ListRefs
    <2> QED
        BY <2>1, <2>2, <2>3, <2>4 DEF ListInv, TickTypes
<1>5. WorkInv
    BY DEF WorkInv, AgentTypes, Slots, SlotNamesLiveWork, AccountWork
<1>6. SucceededHasManifest /\ RunningWasAccepted
    BY DEF SucceededHasManifest, RunningWasAccepted
<1> QED
    BY <1>2, <1>3, <1>4, <1>5, <1>6 DEF IInv

\* The invariant is inductive.
LEMMA NextInv == IInv /\ [Next]_vars => IInv'
<1> SUFFICES ASSUME IInv, [Next]_vars PROVE IInv'
    OBVIOUS
<1>1. ListInv' /\ CallInv' /\ (RowTypes /\ Rows)'
    BY ListStep, CallStep, RowTypesStep
<1>2. wire' \subseteq Callers \X JobIds
    BY <1>1, ConstantsAssumption DEF ListInv, ListRefs, RowTypes, JobIds
<1>3. WorkInv'
    BY <1>2, WorkTypesStep, ManifestStep, SlotsStep DEF WorkInv, AgentTypes
<1> QED
    BY <1>1, <1>3, TruthStep DEF IInv

\* The invariant holds in every reachable state, with any number of callers.
THEOREM Invariance == Spec => []IInv
<1> QED
    BY InitInv, NextInv, PTL DEF Spec

\* Every variable keeps its type.
THEOREM TypeCorrect == Spec => []TypeOK
<1>1. IInv => TypeOK
    BY DEF IInv, CallInv, ListInv, WorkInv, TypeOK
<1> QED
    BY <1>1, Invariance, PTL

\* The agent never works twice on one account backup, and two of one user meet
\* in one restic repository only as one sent without a URL beside one sent with
\* the default repository's: jobSlot.acquire and release in backup_create.go
\* exclude each other per URL whatever callers, timeouts and restarts do.
THEOREM OneWorker == Spec => []OneWorkerPerSlot
<1>1. IInv => OneWorkerPerSlot
    <2> SUFFICES ASSUME IInv PROVE OneWorkerPerSlot
        OBVIOUS
    <2>1. \A j \in AccountWork : orch[j] = 1 /\ slot[Key(j)] = j
        BY DEF IInv, WorkInv, Slots
    <2>2. ASSUME NEW i \in AccountWork, NEW j \in AccountWork, i # j,
                 target[i].user = target[j].user, Repository(i) = Repository(j)
          PROVE  {target[i].dest, target[j].dest} = {NoDest, LocalDest}
        <3>1. target[i].dest # target[j].dest
            BY <2>1, <2>2 DEF Key
        <3> QED
            BY <2>2, <3>1 DEF Repository
    <2> QED
        BY <2>1, <2>2 DEF OneWorkerPerSlot
<1> QED
    BY <1>1, Invariance, PTL

\* A slot is held only by a live goroutine, so no user is locked out of a
\* repository by a backup that has ended.
THEOREM NoOrphanedSlot == Spec => []SlotNamesLiveWork
<1>1. IInv => SlotNamesLiveWork
    BY DEF IInv, WorkInv, Slots
<1> QED
    BY <1>1, Invariance, PTL

\* A backup row says succeeded only when its manifest snapshot exists.
THEOREM SucceededIsTrue == Spec => []SucceededHasManifest
<1>1. IInv => SucceededHasManifest
    BY DEF IInv
<1> QED
    BY <1>1, Invariance, PTL

\* A backup row says running only when the agent took the job.
THEOREM RunningIsTrue == Spec => []RunningWasAccepted
<1>1. IInv => RunningWasAccepted
    BY DEF IInv
<1> QED
    BY <1>1, Invariance, PTL

\* No write, however late, opens a closed row again.
THEOREM ClosedForGood == Spec => ClosedStaysClosed
<1>1. ASSUME IInv, [Next]_vars, NEW j \in JobIds, status[j] \in Closed
      PROVE  status'[j] \in Closed
    <2>1. RowTypes /\ Rows
        BY <1>1 DEF IInv
    <2>2. j <= made /\ status[j] # "queued"
        BY <1>1, <2>1 DEF Rows, Closed
    <2>3. CASE UNCHANGED status
        BY <1>1, <2>3
    <2>4. ASSUME NEW t \in Targets, Create(t) PROVE status'[j] \in Closed
        BY <1>1, <2>1, <2>2, <2>4, ConstantsAssumption DEF RowTypes, Create, JobIds
    <2>5. ASSUME NEW i \in 1..made, MarkStarted(i) PROVE status'[j] \in Closed
        BY <1>1, <2>1, <2>2, <2>5 DEF RowTypes, MarkStarted
    <2>6. ASSUME NEW i \in 1..made, NEW s \in Closed, MarkFinished(i, s)
          PROVE  status'[j] \in Closed
        BY <1>1, <2>1, <2>6 DEF RowTypes, MarkFinished
    <2> QED
        BY <1>1, <2>3, <2>4, <2>5, <2>6, RowStep DEF RowChange, rowVars
<1>2. IInv /\ [Next]_vars =>
         [\A j \in JobIds : status[j] \in Closed => status'[j] \in Closed]_vars
    BY <1>1
<1> QED
    BY <1>2, Invariance, PTL DEF Spec, ClosedStaysClosed

-----------------------------------------------------------------------------
(* The pipeline implements the reader's ledger. *)

\* whatever goroutine is at work was taken by the agent
Begun == \A j \in JobIds : orch[j] > 0 => j \in accepted

LEMMA BegunStep == ASSUME IInv, Begun, [Next]_vars PROVE Begun'
<1>1. AgentTypes
    BY DEF IInv, WorkInv
<1>2. CASE UNCHANGED <<slot, orch, accepted>>
    BY <1>2 DEF Begun
<1>3. ASSUME NEW j \in 1..made, Begin(j) PROVE Begun'
    BY <1>1, <1>3 DEF Begun, Begin, AgentTypes
<1>4. ASSUME NEW j \in JobIds, orch[j] > 0,
             orch' = [orch EXCEPT ![j] = @ - 1], UNCHANGED accepted
      PROVE  Begun'
    BY <1>1, <1>4 DEF Begun, AgentTypes
<1>5. ASSUME orch' = [j \in JobIds |-> 0], UNCHANGED accepted PROVE Begun'
    BY <1>5 DEF Begun
<1> QED
    BY <1>2, <1>3, <1>4, <1>5, WorkStep DEF WorkChange

LedgerPhase == [j \in JobIds |-> Phase(j)]
LedgerRestores == {j \in 1..made : Kind(j) = "restore"}

\* A step that changes the table is one of the ledger's writes.
LEMMA LedgerRowStep ==
    ASSUME IInv, [Next]_vars, UNCHANGED <<accepted, manifest>>
    PROVE  [Ledger!Next]_(Ledger!vars)
<1> USE DEF Ledger!Next, Ledger!vars
<1>1. RowTypes /\ Rows
    BY DEF IInv
<1>2. CASE UNCHANGED <<made, target, status>>
    <2>1. LedgerPhase' = LedgerPhase /\ LedgerRestores' = LedgerRestores
        BY <1>2 DEF LedgerPhase, LedgerRestores, Phase, Kind
    <2> QED
        BY <2>1 DEF LedgerPhase, LedgerRestores
<1>3. ASSUME NEW t \in Targets, Create(t)
      PROVE  [Ledger!Next]_(Ledger!vars)
    <2> DEFINE n == made + 1
    <2>1. n \in JobIds /\ made \in Nat /\ status[n] = "none"
        BY <1>1, <1>3, ConstantsAssumption DEF RowTypes, Rows, Create, JobIds
    <2>2. LedgerPhase[n] = "none"
        BY <2>1 DEF LedgerPhase, Phase, Closed
    <2>3. LedgerPhase' = [LedgerPhase EXCEPT ![n] = "queued"]
        BY <1>1, <1>3, <2>1 DEF LedgerPhase, Phase, Create, RowTypes, Closed
    <2>4. LedgerRestores' \in {LedgerRestores, LedgerRestores \union {n}}
        BY <1>1, <1>3, <2>1 DEF LedgerRestores, Kind, Create, RowTypes, JobIds
    <2>5. Ledger!Open(n)
        BY <2>2, <2>3, <2>4 DEF Ledger!Open, LedgerPhase, LedgerRestores
    <2> QED
        BY <2>1, <2>5
<1>4. ASSUME NEW j \in 1..made, MarkStarted(j),
             Kind(j) = "restore" \/ j \in accepted
      PROVE  [Ledger!Next]_(Ledger!vars)
    <2>1. j \in JobIds
        BY <1>1, <1>4, ConstantsAssumption DEF RowTypes, JobIds
    <2>2. LedgerRestores' = LedgerRestores
        BY <1>4 DEF LedgerRestores, Kind, MarkStarted
    <2>3. CASE status[j] = "queued"
        <3>1. LedgerPhase[j] = "queued"
            BY <2>1, <2>3 DEF LedgerPhase, Phase, Closed
        <3>2. LedgerPhase' = [LedgerPhase EXCEPT ![j] = "running"]
            BY <1>1, <1>4, <2>1, <2>3
            DEF LedgerPhase, Phase, MarkStarted, RowTypes, Closed
        <3>3. Ledger!Start(j)
            BY <1>4, <2>2, <3>1, <3>2
            DEF Ledger!Start, LedgerPhase, LedgerRestores
        <3> QED
            BY <2>1, <3>3
    <2>4. CASE status[j] # "queued"
        <3>1. status' = status
            BY <1>1, <1>4, <2>4 DEF MarkStarted, RowTypes
        <3> QED
            BY <1>2, <1>4, <3>1 DEF MarkStarted
    <2> QED
        BY <2>3, <2>4
<1>5. ASSUME NEW j \in 1..made, NEW s \in Closed, MarkFinished(j, s),
             s = "succeeded" => Kind(j) = "restore" \/ j \in manifest
      PROVE  [Ledger!Next]_(Ledger!vars)
    <2> DEFINE v == IF s = "succeeded" THEN "good" ELSE "bad"
    <2>1. j \in JobIds /\ status[j] # "none"
        BY <1>1, <1>5, ConstantsAssumption DEF RowTypes, Rows, JobIds
    <2>2. LedgerRestores' = LedgerRestores
        BY <1>5 DEF LedgerRestores, Kind, MarkFinished
    <2>3. LedgerPhase[j] # "none"
        BY <2>1 DEF LedgerPhase, Phase
    <2>4. LedgerPhase' = [LedgerPhase EXCEPT ![j] = v]
        BY <1>1, <1>5, <2>1 DEF LedgerPhase, Phase, MarkFinished, RowTypes
    <2>5. v = "good" => j \in manifest \union LedgerRestores
        BY <1>5 DEF LedgerRestores
    <2>6. Ledger!Close(j, v)
        BY <2>2, <2>3, <2>4, <2>5 DEF Ledger!Close, LedgerPhase, LedgerRestores
    <2> QED
        BY <2>1, <2>6
<1> QED
    BY <1>2, <1>3, <1>4, <1>5, RowStep DEF RowChange, rowVars

\* A step of the agent that the ledger sees is its Begin or its Keep.
LEMMA LedgerStep ==
    ASSUME IInv, Begun, [Next]_vars PROVE [Ledger!Next]_(Ledger!vars)
<1> USE DEF Ledger!Next, Ledger!vars
<1>1. RowTypes /\ Rows
    BY DEF IInv
<1>2. ASSUME UNCHANGED rowVars
      PROVE  LedgerPhase' = LedgerPhase /\ LedgerRestores' = LedgerRestores
    BY <1>2 DEF LedgerPhase, LedgerRestores, Phase, Kind, rowVars
<1>3. ASSUME NEW j \in 1..made, accepted' = accepted \union {j},
             UNCHANGED <<rowVars, manifest>>
      PROVE  [Ledger!Next]_(Ledger!vars)
    <2>1. j \in JobIds /\ status[j] # "none"
        BY <1>1, <1>3, ConstantsAssumption DEF RowTypes, Rows, JobIds
    <2>2. LedgerPhase[j] # "none"
        BY <2>1 DEF LedgerPhase, Phase
    <2>3. Ledger!Begin(j)
        BY <1>2, <1>3, <2>2 DEF Ledger!Begin, LedgerPhase, LedgerRestores
    <2> QED
        BY <2>1, <2>3
<1>4. ASSUME NEW j \in JobIds, Kind(j) # "restore", orch[j] > 0,
             manifest' = manifest \union {j}, UNCHANGED <<rowVars, accepted>>
      PROVE  [Ledger!Next]_(Ledger!vars)
    <2>1. j \in accepted \ LedgerRestores
        BY <1>4 DEF Begun, LedgerRestores
    <2>2. Ledger!Keep(j)
        BY <1>2, <1>4, <2>1 DEF Ledger!Keep, LedgerPhase, LedgerRestores
    <2> QED
        BY <2>2
<1> QED
    BY <1>3, <1>4, AgentStep, LedgerRowStep DEF AgentChange

\* The pipeline, with any number of callers, rows and faults, implements the
\* ledger: the table never says running before the work has begun, good
\* without a snapshot, or open after it was closed.
THEOREM LedgerKept == Spec => KeepsLedger
<1>1. Init => Ledger!Init
    <2> SUFFICES ASSUME Init PROVE Ledger!Init
        OBVIOUS
    <2>1. LedgerPhase = [j \in JobIds |-> "none"]
        BY DEF Init, LedgerPhase, Phase, Closed
    <2>2. LedgerRestores = {}
        BY DEF Init, LedgerRestores
    <2> QED
        BY <2>1, <2>2 DEF Init, Ledger!Init, LedgerPhase, LedgerRestores
<1>2. Init => Begun
    BY DEF Init, Begun
<1>3. IInv /\ Begun /\ [Next]_vars => Begun'
    BY BegunStep
<1>4. IInv /\ Begun /\ [Next]_vars => [Ledger!Next]_(Ledger!vars)
    BY LedgerStep
<1> QED
    BY <1>1, <1>2, <1>3, <1>4, Invariance, PTL DEF Spec, KeepsLedger, Ledger!Spec

-----------------------------------------------------------------------------
(* The cap, with the daemon as the only ticker. *)

\* the rows the daemon's tick has still to do: its list, and the one in hand
InHand == IF pc[Daemon] \in BusyPCs THEN {cur[Daemon]} ELSE {}
Owed == todo[Daemon] \union InHand

\* everything that counts against the cap: what runs, and what may yet run
Counted == (dispatched \intersect Running) \union Owed

\* a dispatched row was started, so nobody starts it again
DispatchedOnce == \A j \in dispatched : status[j] \notin {"none", "queued"}

CapInv == DispatchedOnce /\ Cardinality(Counted) <= MaxConcurrent

\* A nonempty set of bounded numbers has a greatest element.
LEMMA Greatest ==
    ASSUME NEW n \in Nat, NEW S, S \subseteq 1..n, S # {}
    PROVE  \E m \in S : \A y \in S : y <= m
<1> DEFINE T == {n - x : x \in S}
           R == OpToRel(<, Nat)
<1>1. T \subseteq Nat /\ T # {}
    <2>1. \A x \in S : n - x \in Nat
        OBVIOUS
    <2>2. PICK x \in S : TRUE
        OBVIOUS
    <2>3. n - x \in T
        BY <2>2
    <2> QED
        BY <2>1, <2>3
<1>2. PICK t \in T : \A u \in T : ~(<<u, t>> \in R)
    <2> HIDE DEF T, R
    <2> QED
        BY <1>1, NatLessThanWellFounded, WFMin DEF R
<1>3. \A u \in T : ~(u < t)
    BY <1>1, <1>2 DEF OpToRel
<1>4. PICK x \in S : t = n - x
    BY <1>2
<1>5. \A y \in S : y <= x
    BY <1>3, <1>4
<1> QED
    BY <1>4, <1>5

\* The LIMIT of ListQueuedOldest is kept: of the rows with fewer than n queued
\* rows before them there are at most n.
LEMMA LimitKept ==
    ASSUME NEW n \in Int, ListQueuedOldest(n) # {}
    PROVE  n \in Nat /\ Cardinality(ListQueuedOldest(n)) <= n
<1> DEFINE S == ListQueuedOldest(n)
           Before(j) == {i \in Queued : i < j}
<1>1. IsFiniteSet(JobIds) /\ MaxJobs \in Nat
    BY FS_Interval, ConstantsAssumption DEF JobIds
<1>2. S \subseteq 1..MaxJobs /\ S \subseteq Queued /\ S \subseteq JobIds
    BY DEF ListQueuedOldest, Queued, JobIds
<1>3. \A j \in S : Cardinality(Before(j)) < n
    BY DEF ListQueuedOldest
<1>4. \A j \in S : IsFiniteSet(Before(j)) /\ Cardinality(Before(j)) \in Nat
    <2>1. \A j \in S : Before(j) \subseteq JobIds
        BY DEF Queued
    <2> QED
        BY <1>1, <2>1, FS_Subset, FS_CardinalityType
<1>5. IsFiniteSet(S)
    BY <1>1, <1>2, FS_Subset
<1>6. S # {}
    OBVIOUS
<1> HIDE DEF S
<1>7. PICK m \in S : \A y \in S : y <= m
    BY <1>1, <1>2, <1>6, Greatest
<1>8. S \ {m} \subseteq Before(m)
    <2> SUFFICES ASSUME NEW i \in S, i # m PROVE i \in Queued /\ i < m
        OBVIOUS
    <2>1. i \in Queued /\ i <= m /\ i \in Int /\ m \in Int
        BY <1>2, <1>7
    <2> QED
        BY <2>1
<1> HIDE DEF Before
<1>9. Cardinality(S \ {m}) <= Cardinality(Before(m)) /\ IsFiniteSet(S \ {m})
    BY <1>4, <1>7, <1>8, FS_Subset
<1>10. Cardinality(S \ {m}) = Cardinality(S) - 1
    BY <1>5, <1>7, FS_RemoveElement
<1>11. Cardinality(S) \in Nat
    BY <1>5, FS_CardinalityType
<1>12. Cardinality(Before(m)) < n /\ Cardinality(Before(m)) \in Nat
    BY <1>3, <1>4, <1>7
<1>13. n \in Nat /\ Cardinality(S) <= n
    BY <1>9, <1>10, <1>11, <1>12
<1> QED
    BY <1>13 DEF S

\* A row that was dispatched is not started a second time, by anybody.
LEMMA NotRestarted ==
    ASSUME IInv, DispatchedOnce, [Next]_vars, NEW j \in dispatched
    PROVE  /\ status'[j] \notin {"none", "queued"}
           /\ status'[j] = "running" => status[j] = "running"
<1>1. RowTypes /\ Rows /\ j \in JobIds
    BY DEF IInv, ListInv, FinTypes
<1>2. j <= made /\ status[j] \notin {"none", "queued"}
    BY <1>1 DEF Rows, DispatchedOnce
<1>3. CASE UNCHANGED status
    BY <1>2, <1>3
<1>4. ASSUME NEW t \in Targets, Create(t) PROVE UNCHANGED status[j]
    BY <1>1, <1>2, <1>4, ConstantsAssumption DEF RowTypes, Create, JobIds
<1>5. ASSUME NEW i \in 1..made, MarkStarted(i) PROVE UNCHANGED status[j]
    BY <1>1, <1>2, <1>5 DEF RowTypes, MarkStarted
<1>6. ASSUME NEW i \in 1..made, NEW s \in Closed, MarkFinished(i, s)
      PROVE  UNCHANGED status[j] \/ status'[j] \in Closed
    BY <1>1, <1>6 DEF RowTypes, MarkFinished
<1> QED
    BY <1>2, <1>3, <1>4, <1>5, <1>6, RowStep DEF RowChange, rowVars, Closed

\* What the tick owes only shrinks until the next one reads its list, and it
\* dispatches only the row in hand.
OwedShrinks == Owed' \subseteq Owed /\ UNCHANGED dispatched

LEMMA OwedSame ==
    ASSUME IInv, NEW c \in Callers, c # Daemon,
           \E p : pc' = [pc EXCEPT ![c] = p],
           UNCHANGED cur \/ \E j : cur' = [cur EXCEPT ![c] = j],
           UNCHANGED <<todo, dispatched>>
    PROVE  OwedShrinks
<1>1. pc'[Daemon] = pc[Daemon] /\ cur'[Daemon] = cur[Daemon]
    BY ConstantsAssumption DEF IInv, CallInv, CallTypes, Callers
<1> QED
    BY <1>1 DEF OwedShrinks, Owed, InHand

LEMMA HandlerOwed ==
    ASSUME IInv, NEW h \in Handlers, Handler(h) \/ HandlerGone(h)
    PROVE  OwedShrinks
<1>1. h \in Callers /\ h # Daemon
    BY ConstantsAssumption DEF Callers
<1>2. CASE Request(h)
    BY <1>1, <1>2, OwedSame DEF Request, tickVars
<1>3. CASE RestoreMarkStarted(h)
    BY <1>1, <1>3, OwedSame DEF RestoreMarkStarted, tickVars
<1>4. CASE HandlerCall(h)
    BY <1>1, <1>4, OwedSame DEF HandlerCall, Call, tickVars
<1>5. CASE HandlerDone(h)
    BY <1>1, <1>5, OwedSame DEF HandlerDone, Return, tickVars
<1>6. CASE HandlerGone(h)
    BY <1>1, <1>6, OwedSame DEF HandlerGone, Return, tickVars
<1> QED
    BY <1>2, <1>3, <1>4, <1>5, <1>6 DEF Handler

LEMMA ServeOwed ==
    ASSUME IInv, NEW c \in Callers, Timeout(c) \/ \E j \in JobIds : Serve(c, j)
    PROVE  OwedShrinks
<1>1. pc \in [Callers -> PCs] /\ Daemon \in Callers
    BY ConstantsAssumption DEF IInv, CallInv, CallTypes, Callers, PCs, BusyPCs
<1>2. ASSUME UNCHANGED <<cur, todo, dispatched>>,
             pc'[Daemon] \in BusyPCs => pc[Daemon] \in BusyPCs
      PROVE  OwedShrinks
    BY <1>2 DEF OwedShrinks, Owed, InHand
<1>3. CASE Timeout(c)
    <2>1. pc'[Daemon] \in BusyPCs => pc[Daemon] \in BusyPCs
        BY <1>1, <1>3 DEF Timeout, BusyPCs
    <2> QED
        BY <1>2, <1>3, <2>1 DEF Timeout, tickVars
<1>4. ASSUME NEW j \in JobIds, NEW r, Reply(c, j, r)
      PROVE  pc'[Daemon] \in BusyPCs => pc[Daemon] \in BusyPCs
    BY <1>1, <1>4 DEF Reply, BusyPCs
<1>5. ASSUME NEW j \in JobIds, BackupCreate(c, j) PROVE OwedShrinks
    BY <1>2, <1>4, <1>5 DEF BackupCreate, tickVars
<1>6. ASSUME NEW j \in JobIds, BackupConflict(c, j) PROVE OwedShrinks
    BY <1>2, <1>4, <1>6 DEF BackupConflict, tickVars
<1>7. ASSUME NEW j \in JobIds, SystemBackup(c, j) PROVE OwedShrinks
    BY <1>2, <1>4, <1>7 DEF SystemBackup, tickVars
<1>8. ASSUME NEW j \in JobIds, RestoreBegin(c, j) PROVE OwedShrinks
    BY <1>2, <1>8 DEF RestoreBegin, tickVars, callVars
<1>9. ASSUME NEW j \in JobIds, RestoreRefused(c, j) PROVE OwedShrinks
    BY <1>2, <1>4, <1>9 DEF RestoreRefused, tickVars
<1> QED
    BY <1>3, <1>5, <1>6, <1>7, <1>8, <1>9 DEF Serve

\* The daemon's own steps, other than the one that reads the list.
LEMMA TickOwed ==
    ASSUME IInv, Ticker(Daemon) \/ WriteLost(Daemon), ~TickDispatch(Daemon)
    PROVE  /\ Owed' \subseteq Owed
           /\ dispatched' \subseteq dispatched \union InHand
           /\ \A j \in dispatched' \ dispatched : status'[j] = "running"
<1>1. /\ pc \in [Callers -> PCs] /\ cur \in [Callers -> 0..MaxJobs]
      /\ Daemon \in Callers /\ todo \in [Tickers -> SUBSET JobIds] /\ Daemon \in Tickers
    BY ConstantsAssumption DEF IInv, CallInv, CallTypes, ListInv, TickTypes, Callers, PCs, BusyPCs
<1>2. ASSUME UNCHANGED dispatched, todo'[Daemon] \subseteq todo[Daemon],
             pc'[Daemon] \notin BusyPCs \/ UNCHANGED callVars
      PROVE  Owed' \subseteq Owed
    BY <1>2 DEF Owed, InHand, callVars
<1>3. CASE TickEnqueue(Daemon)
    <2>1. pc'[Daemon] = "enqueue"
        BY <1>1, <1>3 DEF TickEnqueue
    <2> QED
        BY <1>2, <1>3, <2>1 DEF TickEnqueue, BusyPCs, Replies
<1>4. CASE EnqueueOne(Daemon)
    BY <1>2, <1>4 DEF EnqueueOne
<1>5. CASE MarkRan(Daemon)
    <2>1. pc'[Daemon] = "idle"
        BY <1>1, <1>5 DEF MarkRan
    <2> QED
        BY <1>2, <1>5, <2>1 DEF MarkRan, BusyPCs, Replies
<1>6. CASE DispatchSkip(Daemon)
    <2>1. todo'[Daemon] \subseteq todo[Daemon]
        BY <1>1, <1>6 DEF DispatchSkip, Drop
    <2> QED
        BY <1>2, <1>6, <2>1 DEF DispatchSkip
<1>7. CASE DispatchRefused(Daemon)
    <2>1. todo'[Daemon] \subseteq todo[Daemon]
        BY <1>1, <1>7 DEF DispatchRefused, Drop
    <2> QED
        BY <1>2, <1>7, <2>1 DEF DispatchRefused
<1>8. CASE DispatchCall(Daemon)
    <2>1. PICK j \in JobIds : j \in todo[Daemon] /\ Drop(Daemon, j) /\ Call(Daemon, j)
        BY <1>8 DEF DispatchCall, Oldest
    <2>2. todo'[Daemon] \subseteq todo[Daemon] /\ cur'[Daemon] = j
        BY <1>1, <2>1 DEF Drop, Call
    <2>3. Owed' \subseteq Owed
        BY <2>1, <2>2 DEF Owed, InHand
    <2> QED
        BY <1>8, <2>3 DEF DispatchCall
<1>9. CASE DispatchDone(Daemon)
    <2>1. pc'[Daemon] = "dispatch" /\ UNCHANGED todo
        BY <1>1, <1>9 DEF DispatchDone, Return, tickVars
    <2>2. Owed' \subseteq Owed
        BY <2>1 DEF Owed, InHand, BusyPCs, Replies
    <2>3. pc[Daemon] \in BusyPCs /\ InHand = {cur[Daemon]}
        BY <1>9 DEF DispatchDone, BusyPCs, InHand
    <2>4. cur[Daemon] \in 1..made /\ RowTypes
        BY <1>1, <2>3 DEF IInv, CallInv, CallerRefs
    <2>5. CASE pc[Daemon] = "ok" /\ status[cur[Daemon]] = "queued"
        <3>1. MarkStarted(cur[Daemon]) /\ dispatched' = dispatched \union {cur[Daemon]}
            BY <1>9, <2>5 DEF DispatchDone
        <3>2. status'[cur[Daemon]] = "running"
            BY <2>4, <2>5, <3>1, ConstantsAssumption DEF MarkStarted, RowTypes, JobIds
        <3> QED
            BY <2>2, <2>3, <3>1, <3>2
    <2>6. CASE ~(pc[Daemon] = "ok" /\ status[cur[Daemon]] = "queued")
        BY <1>9, <2>2, <2>6 DEF DispatchDone
    <2> QED
        BY <2>5, <2>6
<1>10. CASE TickEnd(Daemon)
    <2>1. pc'[Daemon] = "idle"
        BY <1>1, <1>10 DEF TickEnd
    <2> QED
        BY <1>2, <1>10, <2>1 DEF TickEnd, BusyPCs, Replies, tickVars
<1>11. CASE WriteLost(Daemon)
    <2>1. pc'[Daemon] \in {"idle", "dispatch"}
        BY <1>1, <1>11 DEF WriteLost, Return
    <2> QED
        BY <1>2, <1>11, <2>1 DEF WriteLost, BusyPCs, Replies, tickVars
<1> QED
    BY <1>3, <1>4, <1>5, <1>6, <1>7, <1>8, <1>9, <1>10, <1>11 DEF Ticker

\* The steps of the agent, of the finalizer, of time and of the restarts.
LEMMA OtherOwed ==
    ASSUME IInv,
           \/ \E j \in JobIds : Worker(j) \/ WriteManifest(j) \/ Age(j)
                                 \/ FinalizerFails(j)
           \/ Finalizer \/ ScheduleDue \/ AgentRestart \/ PanelRestart
           \/ UNCHANGED vars
    PROVE  OwedShrinks
<1>1. /\ pc \in [Callers -> PCs] /\ Daemon \in Callers
      /\ todo \in [Tickers -> SUBSET JobIds] /\ Daemon \in Tickers
    BY ConstantsAssumption DEF IInv, CallInv, CallTypes, ListInv, TickTypes, Callers, PCs, BusyPCs
<1>2. ASSUME UNCHANGED <<callVars, todo, dispatched>> PROVE OwedShrinks
    BY <1>2 DEF OwedShrinks, Owed, InHand, callVars
<1>3. ASSUME UNCHANGED <<cur, todo, dispatched>>,
             pc'[Daemon] \in BusyPCs => pc[Daemon] \in BusyPCs
      PROVE  OwedShrinks
    BY <1>3 DEF OwedShrinks, Owed, InHand
<1>4. ASSUME NEW j \in JobIds, RestoreDone(j) PROVE OwedShrinks
    <2>1. pc'[Daemon] \in BusyPCs => pc[Daemon] \in BusyPCs
        BY <1>1, <1>4 DEF RestoreDone, BusyPCs
    <2> QED
        BY <1>3, <1>4, <2>1 DEF RestoreDone, tickVars
<1>5. ASSUME NEW j \in JobIds, OrchestratorExit(j) PROVE OwedShrinks
    BY <1>2, <1>5 DEF OrchestratorExit, tickVars
<1>6. ASSUME NEW j \in JobIds, WriteManifest(j) PROVE OwedShrinks
    BY <1>2, <1>6 DEF WriteManifest, tickVars
<1>7. ASSUME NEW j \in JobIds, Age(j) PROVE OwedShrinks
    BY <1>2, <1>7 DEF Age, tickVars
<1>8. ASSUME Finalizer PROVE OwedShrinks
    BY <1>2, <1>8
    DEF Finalizer, FinalizerTick, Stalled, Finalize, StillRunning, FinalizerNext, tickVars
<1>9. ASSUME ScheduleDue PROVE OwedShrinks
    BY <1>2, <1>9 DEF ScheduleDue
<1>10. ASSUME AgentRestart PROVE OwedShrinks
    <2>1. pc'[Daemon] \in BusyPCs => pc[Daemon] \in BusyPCs
        BY <1>1, <1>10 DEF AgentRestart, BusyPCs
    <2> QED
        BY <1>3, <1>10, <2>1 DEF AgentRestart, tickVars
<1>11. ASSUME PanelRestart PROVE OwedShrinks
    <2>1. pc'[Daemon] = "idle" /\ todo'[Daemon] = {} /\ UNCHANGED dispatched
        BY <1>1, <1>11 DEF PanelRestart
    <2> QED
        BY <2>1 DEF OwedShrinks, Owed, InHand, BusyPCs, Replies
<1>12. ASSUME UNCHANGED vars PROVE OwedShrinks
    BY <1>2, <1>12 DEF vars, tickVars
<1>13. ASSUME NEW j \in JobIds, FinalizerFails(j) PROVE OwedShrinks
    BY <1>2, <1>13 DEF FinalizerFails, FinalizerNext, tickVars
<1> QED
    BY <1>4, <1>5, <1>6, <1>7, <1>8, <1>9, <1>10, <1>11, <1>12, <1>13 DEF Worker

\* The tick reads no more rows than the cap leaves room for beside every row
\* that runs, its own included.
LEMMA TickReads ==
    ASSUME IInv, TickDispatch(Daemon)
    PROVE  Cardinality(Counted') <= MaxConcurrent /\ UNCHANGED <<dispatched, status>>
<1> DEFINE n == MaxConcurrent - Cardinality(Running)
           Q == ListQueuedOldest(n)
<1>1. /\ pc \in [Callers -> PCs] /\ Daemon \in Callers
      /\ todo \in [Tickers -> SUBSET JobIds] /\ Daemon \in Tickers
    BY ConstantsAssumption DEF IInv, CallInv, CallTypes, ListInv, TickTypes, Callers, PCs, BusyPCs
<1>2. UNCHANGED <<dispatched, status>> /\ Q # {} /\ pc' = [pc EXCEPT ![Daemon] = "dispatch"]
      /\ todo' = [todo EXCEPT ![Daemon] = Q]
    BY DEF TickDispatch, rowVars
<1>3. pc'[Daemon] = "dispatch" /\ todo'[Daemon] = Q
    BY <1>1, <1>2
<1>4. IsFiniteSet(JobIds) /\ Running \subseteq JobIds /\ Q \subseteq JobIds
    BY FS_Interval, ConstantsAssumption DEF JobIds, Running, Queued, ListQueuedOldest
<1>5. IsFiniteSet(Running) /\ IsFiniteSet(Q)
    BY <1>4, FS_Subset
<1>6. Cardinality(Running) \in Nat /\ Cardinality(Q) \in Nat
    BY <1>5, FS_CardinalityType
<1>7. n \in Int
    BY <1>6, ConstantsAssumption
<1>8. Cardinality(Q) <= n
    <2> HIDE DEF n
    <2> QED
        BY <1>2, <1>7, LimitKept
<1>9. Counted' \subseteq Running \union Q
    <2> HIDE DEF Q
    <2>1. Running' = Running
        BY <1>2 DEF Running
    <2>2. InHand' = {}
        BY <1>3 DEF InHand, BusyPCs, Replies
    <2> QED
        BY <1>2, <1>3, <2>1, <2>2 DEF Counted, Owed
<1> HIDE DEF Q
<1>10. /\ IsFiniteSet(Running \union Q)
       /\ Cardinality(Running \union Q) =
             Cardinality(Running) + Cardinality(Q) - Cardinality(Running \intersect Q)
       /\ Cardinality(Running \intersect Q) \in Nat
    <2>1. IsFiniteSet(Running \intersect Q)
        BY <1>5, FS_Subset
    <2> QED
        BY <1>5, <2>1, FS_Union, FS_CardinalityType
<1>11. Cardinality(Running \union Q) <= MaxConcurrent /\ Cardinality(Running \union Q) \in Nat
    BY <1>6, <1>8, <1>10, FS_CardinalityType, ConstantsAssumption
<1>12. Cardinality(Counted') <= Cardinality(Running \union Q) /\ Cardinality(Counted') \in Nat
    BY <1>9, <1>10, FS_Subset, FS_CardinalityType
<1> QED
    BY <1>2, <1>11, <1>12, ConstantsAssumption

\* The counted rows are rows: there are finitely many.
LEMMA CountedFinite == ASSUME IInv PROVE IsFiniteSet(Counted)
<1>1. InHand \subseteq JobIds
    BY ConstantsAssumption
    DEF InHand, IInv, RowTypes, CallInv, CallerRefs, Callers, JobIds
<1>2. Counted \subseteq JobIds
    BY <1>1, ConstantsAssumption DEF Counted, Owed, Running, IInv, ListInv, TickTypes
<1>3. IsFiniteSet(JobIds)
    BY FS_Interval, ConstantsAssumption DEF JobIds
<1> QED
    BY <1>2, <1>3, FS_Subset

\* Between two reads of the list the counted rows only become fewer.
LEMMA CountedStep ==
    ASSUME IInv, CapInv, [Next]_vars,
           Owed' \subseteq Owed, dispatched' \subseteq dispatched \union InHand,
           \A j \in dispatched' \ dispatched : status'[j] = "running"
    PROVE  CapInv'
<1>1. DispatchedOnce'
    BY NotRestarted DEF CapInv, DispatchedOnce
<1>2. Counted' \subseteq Counted
    <2> SUFFICES ASSUME NEW j \in (dispatched \intersect Running)', j \notin Owed
                 PROVE  j \in dispatched \intersect Running
        BY DEF Counted
    <2>1. j \in dispatched /\ status'[j] = "running"
        BY DEF Running, Owed
    <2>2. status[j] = "running"
        BY <2>1, NotRestarted DEF CapInv
    <2> QED
        BY <2>1, <2>2 DEF Running
<1>3. IsFiniteSet(Counted)
    BY CountedFinite
<1>4. Cardinality(Counted') <= Cardinality(Counted) /\ Cardinality(Counted) \in Nat
      /\ Cardinality(Counted') \in Nat
    BY <1>2, <1>3, FS_Subset, FS_CardinalityType
<1> QED
    BY <1>1, <1>4, ConstantsAssumption DEF CapInv

LEMMA CapStep ==
    ASSUME Tickers = {Daemon}, IInv, CapInv, [Next]_vars
    PROVE  CapInv'
<1>1. ASSUME OwedShrinks PROVE CapInv'
    <2>1. /\ Owed' \subseteq Owed /\ dispatched' \subseteq dispatched \union InHand
          /\ \A j \in dispatched' \ dispatched : status'[j] = "running"
        BY <1>1 DEF OwedShrinks
    <2> QED
        BY <2>1, CountedStep
<1>2. ASSUME NEW h \in Handlers, Handler(h) \/ HandlerGone(h) PROVE CapInv'
    BY <1>1, <1>2, HandlerOwed
<1>3. ASSUME NEW t \in Tickers, Ticker(t) \/ WriteLost(t) PROVE CapInv'
    <2>1. Ticker(Daemon) \/ WriteLost(Daemon)
        BY <1>3
    <2>2. CASE TickDispatch(Daemon)
        <3>1. Cardinality(Counted') <= MaxConcurrent /\ UNCHANGED <<dispatched, status>>
            BY <2>2, TickReads
        <3> QED
            BY <3>1 DEF CapInv, DispatchedOnce
    <2>3. CASE ~TickDispatch(Daemon)
        <3>1. /\ Owed' \subseteq Owed /\ dispatched' \subseteq dispatched \union InHand
              /\ \A j \in dispatched' \ dispatched : status'[j] = "running"
            BY <2>1, <2>3, TickOwed
        <3> QED
            BY <3>1, CountedStep
    <2> QED
        BY <2>2, <2>3
<1>4. ASSUME NEW c \in Callers, Timeout(c) \/ \E j \in JobIds : Serve(c, j) PROVE CapInv'
    BY <1>1, <1>4, ServeOwed
<1>5. ASSUME \/ \E j \in JobIds : Worker(j) \/ WriteManifest(j) \/ Age(j)
                                   \/ FinalizerFails(j)
             \/ Finalizer \/ ScheduleDue \/ AgentRestart \/ PanelRestart
             \/ UNCHANGED vars
      PROVE  CapInv'
    BY <1>1, <1>5, OtherOwed
<1> QED
    BY <1>2, <1>3, <1>4, <1>5 DEF Next

\* With the daemon as the only ticker, the dispatcher never keeps more rows of
\* its own in running than backup_max_concurrent_jobs, whatever the cap and
\* however handlers, finalizer, timeouts and restarts interleave with a tick.
THEOREM CapAlwaysRespected ==
    ASSUME Tickers = {Daemon}
    PROVE  Spec => []CapRespected
<1>1. Init => CapInv
    <2> SUFFICES ASSUME Init PROVE CapInv
        OBVIOUS
    <2>1. Counted = {} /\ DispatchedOnce
        BY ConstantsAssumption
        DEF Init, Counted, Owed, InHand, BusyPCs, Replies, DispatchedOnce, Callers
    <2>2. Cardinality({}) = 0
        BY FS_EmptySet
    <2> QED
        BY <2>1, <2>2, ConstantsAssumption DEF CapInv
<1>2. IInv /\ CapInv /\ [Next]_vars => CapInv'
    BY CapStep
<1>3. IInv /\ CapInv => CapRespected
    <2> SUFFICES ASSUME IInv, CapInv PROVE CapRespected
        OBVIOUS
    <2>1. dispatched \intersect Running \subseteq Counted
        BY DEF Counted
    <2>2. IsFiniteSet(Counted)
        BY CountedFinite
    <2>3. /\ Cardinality(dispatched \intersect Running) <= Cardinality(Counted)
          /\ Cardinality(Counted) \in Nat
          /\ Cardinality(dispatched \intersect Running) \in Nat
        BY <2>1, <2>2, FS_Subset, FS_CardinalityType
    <2> QED
        BY <2>3, ConstantsAssumption DEF CapInv, CapRespected
<1> QED
    BY <1>1, <1>2, <1>3, Invariance, PTL DEF Spec

=============================================================================
