---------------------------- MODULE BackupLedger ----------------------------
(***************************************************************************)
(* What the table of backup jobs promises its reader, whoever writes it:   *)
(* a row is opened once; it says running only after the agent has begun    *)
(* the work; it says good only when there is something to restore from, or *)
(* when it was itself a restore; and once it is closed it is never open    *)
(* again, though its verdict may change.                                   *)
(***************************************************************************)
CONSTANTS Ids       \* the rows that may ever exist

VARIABLES
    phase,      \* "none", "queued", "running", "good" or "bad"
    restores,   \* rows that ask for a restore
    begun,      \* rows whose work the agent has begun
    kept        \* rows with a complete snapshot in their repository

vars == <<phase, restores, begun, kept>>

Init ==
    /\ phase = [j \in Ids |-> "none"]
    /\ restores = {} /\ begun = {} /\ kept = {}

Open(j) ==
    /\ phase[j] = "none"
    /\ phase' = [phase EXCEPT ![j] = "queued"]
    /\ restores' \in {restores, restores \union {j}}
    /\ UNCHANGED <<begun, kept>>

Begin(j) ==
    /\ phase[j] # "none"
    /\ begun' = begun \union {j}
    /\ UNCHANGED <<phase, restores, kept>>

\* a snapshot of work in progress may be completed at any later time
Keep(j) ==
    /\ j \in begun \ restores
    /\ kept' = kept \union {j}
    /\ UNCHANGED <<phase, restores, begun>>

Start(j) ==
    /\ phase[j] = "queued" /\ j \in begun \union restores
    /\ phase' = [phase EXCEPT ![j] = "running"]
    /\ UNCHANGED <<restores, begun, kept>>

Close(j, verdict) ==
    /\ phase[j] # "none"
    /\ verdict = "good" => j \in kept \union restores
    /\ phase' = [phase EXCEPT ![j] = verdict]
    /\ UNCHANGED <<restores, begun, kept>>

Next ==
    \E j \in Ids :
        \/ Open(j) \/ Begin(j) \/ Keep(j) \/ Start(j)
        \/ \E verdict \in {"good", "bad"} : Close(j, verdict)

Spec == Init /\ [][Next]_vars
=============================================================================
