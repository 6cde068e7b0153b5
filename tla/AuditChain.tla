----------------------------- MODULE AuditChain -----------------------------
(***************************************************************************)
(* The unified audit log of panel-api (package internal/audit): Record     *)
(* hands an event to a detached goroutine that publishes it on a Redis     *)
(* stream or falls back to a direct insert; one Consumer seals the events  *)
(* into a hash chain; `jabali audit verify` recomputes the chain and       *)
(* `jabali audit prune` removes old rows.                                  *)
(*                                                                         *)
(* An event is its id and its time.  Time is kept the way the code keeps   *)
(* it: whole microseconds, which the DATETIME(6) column stores, and a      *)
(* sub-microsecond part, which only the in-memory event and the stream     *)
(* carry.  SHA-256 is a constructor: two hashes are equal exactly when     *)
(* their inputs are.  Every remote call may fail; MaxFaults bounds how     *)
(* often, MaxCrashes how often the process restarts, MaxClock the time.    *)
(***************************************************************************)
EXTENDS Naturals, Sequences, FiniteSets

CONSTANTS Ids,         \* ULIDs, ordered as numbers
          Fracs,       \* sub-microsecond parts a clock reading may have
          Folded,      \* ids of the db_admin_audit rows migration 138 folds in
          Retention,   \* --days of the prune command, in clock units
          SweepLimit,  \* rows one sweep takes
          Faulty,      \* which of "redis" and "db" may fail a call
          MaxClock, MaxFaults, MaxCrashes

ASSUME AuditAssumption ==
    /\ Ids \subseteq Nat /\ Folded \subseteq Ids
    /\ Fracs \subseteq Nat /\ 0 \in Fracs
    /\ Faulty \subseteq {"redis", "db"}
    /\ Retention \in Nat \ {0} /\ SweepLimit \in Nat \ {0}
    /\ MaxClock \in Nat /\ MaxFaults \in Nat /\ MaxCrashes \in Nat

VARIABLES
    clock,     \* wall clock, microseconds
    rec,       \* id -> progress of the recording goroutine
    stamp,     \* id -> the event's time [us, frac]
    group,     \* whether the consumer group exists
    stream,    \* entries the group has not delivered yet
    pel,       \* delivered and not acknowledged
    missed,    \* entries added before the group was created at "$"
    rows,      \* table audit_events
    pc, cur, prev, batch,   \* the Consumer: position, message, head, sweep
    cli,       \* the prune command
    faults, crashes,
    disorder,  \* history: a row was sealed below an already sealed row
    pruned     \* history: a sealed row was pruned

vars == <<clock, rec, stamp, group, stream, pel, missed, rows, pc, cur, prev,
          batch, cli, faults, crashes, disorder, pruned>>

redis == <<group, stream, pel, missed>>
consumer == <<pc, cur, prev, batch>>
ghosts == <<disorder, pruned>>

RecStates == {"none", "publish", "fallback", "expired", "done", "lost", "killed"}
NoHash == <<>>

-----------------------------------------------------------------------------
(* Rows, their order and their hashes.                                     *)

computeRowHash(p, id, us, frac) == <<p, id, us, frac>>

Less(r, s) == r.ts < s.ts \/ (r.ts = s.ts /\ r.id < s.id)

Sealed(R) == {r \in R : r.hash # NoHash}
Unsealed(R) == {r \in R : r.hash = NoHash}

Latest(S) == CHOOSE r \in S : \A s \in S : s = r \/ Less(s, r)

\* Mutant: ORDER BY ts ASC finds the first sealed row instead of the head.
LatestRowHash_Oldest(R) ==
    IF Sealed(R) = {} THEN NoHash
    ELSE (CHOOSE r \in Sealed(R) : \A s \in Sealed(R) : s = r \/ Less(r, s)).hash

LatestRowHash(R) == IF Sealed(R) = {} THEN NoHash ELSE Latest(Sealed(R)).hash

\* Mutant: audit_events without its primary key.
HasRow_NoKey(R, id) == FALSE

HasRow(R, id) == \E r \in R : r.id = id

\* q lists the ids of the n oldest unsealed rows in (ts, id) order.
ListUnsealed(R, n, q) ==
    /\ \A i \in DOMAIN q : \E r \in Unsealed(R) :
          /\ r.id = q[i]
          /\ \A s \in Unsealed(R) : Less(s, r) <=> \E j \in 1..(i - 1) : q[j] = s.id
    /\ \/ Len(q) = n
       \/ \A r \in Unsealed(R) : \E i \in DOMAIN q : q[i] = r.id

\* What `jabali audit verify` accepts: every sealed row's hash is recomputed
\* from the stored columns and the hash of the sealed row before it.
Below(R, r) == {s \in Sealed(R) : Less(s, r)}
RowVerifies(R, r) ==
    r.hash = computeRowHash(IF Below(R, r) = {} THEN NoHash ELSE Latest(Below(R, r)).hash,
                            r.id, r.ts, 0)
VerifyChain(R) == \A r \in Sealed(R) : RowVerifies(R, r)

-----------------------------------------------------------------------------
Init ==
    /\ clock = 1
    /\ rec = [i \in Ids |-> IF i \in Folded THEN "done" ELSE "none"]
    /\ stamp = [i \in Ids |-> [us |-> 0, frac |-> 0]]
    /\ group \in BOOLEAN   \* first boot, or a stream kept from an earlier one
    /\ stream = <<>> /\ pel = {} /\ missed = {}
    /\ rows = {[id |-> i, ts |-> 0, prev |-> NoHash, hash |-> NoHash] : i \in Folded}
    /\ pc = "start" /\ cur = 0 /\ prev = NoHash /\ batch = <<>>
    /\ cli = "idle"
    /\ faults = 0 /\ crashes = 0
    /\ disorder = FALSE /\ pruned = FALSE

Fault(what) ==
    /\ what \in Faulty /\ faults < MaxFaults
    /\ faults' = faults + 1

Tick ==
    /\ clock < MaxClock
    /\ clock' = clock + 1
    /\ UNCHANGED <<rec, stamp, redis, rows, consumer, cli, faults, crashes, ghosts>>

-----------------------------------------------------------------------------
(* The Recorder.                                                           *)

Record(id) ==
    /\ rec[id] = "none"
    /\ \E f \in Fracs : stamp' = [stamp EXCEPT ![id] = [us |-> clock, frac |-> f]]
    /\ rec' = [rec EXCEPT ![id] = "publish"]
    /\ UNCHANGED <<clock, redis, rows, consumer, cli, faults, crashes, ghosts>>

\* XADD reaches the stream; an entry older than the group is never delivered.
XAdd(id) ==
    IF group THEN stream' = Append(stream, id) /\ UNCHANGED missed
             ELSE missed' = missed \cup {id} /\ UNCHANGED stream

PublishOk(id) ==
    /\ rec[id] = "publish"
    /\ XAdd(id)
    /\ rec' = [rec EXCEPT ![id] = "done"]
    /\ UNCHANGED <<clock, stamp, group, pel, rows, consumer, cli, faults, crashes, ghosts>>

\* Publish reports an error.  The entry may have been added all the same, and
\* a Redis that hangs uses up the 5 s context the fallback shares.
PublishErr(id) ==
    /\ rec[id] = "publish"
    /\ Fault("redis")
    /\ XAdd(id) \/ UNCHANGED <<stream, missed>>
    /\ \E next \in {"fallback", "expired"} : rec' = [rec EXCEPT ![id] = next]
    /\ UNCHANGED <<clock, stamp, group, pel, rows, consumer, cli, crashes, ghosts>>

\* Mutant: the event is inserted before its ULID is assigned.
FallbackRow_NoId(id) == [id |-> 0, ts |-> stamp[id].us, prev |-> NoHash, hash |-> NoHash]

FallbackRow(id) == [id |-> id, ts |-> stamp[id].us, prev |-> NoHash, hash |-> NoHash]

FallbackCreate(id) ==
    /\ rec[id] = "fallback"
    /\ IF HasRow(rows, id)
       THEN rec' = [rec EXCEPT ![id] = "lost"] /\ UNCHANGED rows  \* duplicate key
       ELSE rec' = [rec EXCEPT ![id] = "done"] /\ rows' = rows \cup {FallbackRow(id)}
    /\ UNCHANGED <<clock, stamp, redis, consumer, cli, faults, crashes, ghosts>>

FallbackErr(id) ==
    /\ \/ rec[id] = "fallback" /\ Fault("db")
       \/ rec[id] = "expired" /\ UNCHANGED faults
    /\ rec' = [rec EXCEPT ![id] = "lost"]
    /\ UNCHANGED <<clock, stamp, redis, rows, consumer, cli, crashes, ghosts>>

-----------------------------------------------------------------------------
(* The Consumer.                                                           *)

\* Sealing r with head p: the history variable notes a row sealed too late.
NoteSeal(r) == disorder' = (disorder \/ \E s \in Sealed(rows) : Less(r, s))

EnsureGroup ==
    /\ pc = "start"
    /\ \/ group' = TRUE /\ pc' = "list" /\ UNCHANGED faults
       \/ Fault("redis") /\ pc' = "dead" /\ UNCHANGED group
    /\ UNCHANGED <<clock, rec, stamp, stream, pel, missed, rows, cur, prev, batch,
                   cli, crashes, ghosts>>

SweepList ==
    /\ pc = "list"
    /\ \/ /\ \E k \in 0..SweepLimit : \E q \in [1..k -> Ids] :
                ListUnsealed(rows, SweepLimit, q) /\ batch' = q
          /\ pc' = "sweep" /\ UNCHANGED faults
       \/ Fault("db") /\ batch' = <<>> /\ pc' = "read"
    /\ UNCHANGED <<clock, rec, stamp, redis, rows, cur, prev, cli, crashes, ghosts>>

SweepHead ==
    /\ pc = "sweep" /\ batch # <<>>
    /\ \/ prev' = LatestRowHash(rows) /\ pc' = "set" /\ UNCHANGED <<batch, faults>>
       \/ Fault("db") /\ batch' = <<>> /\ pc' = "read" /\ UNCHANGED prev
    /\ UNCHANGED <<clock, rec, stamp, redis, rows, cur, cli, crashes, ghosts>>

SweepDone ==
    /\ pc = "sweep" /\ batch = <<>>
    /\ pc' = "read"
    /\ UNCHANGED <<clock, rec, stamp, redis, rows, cur, prev, batch, cli, faults,
                   crashes, ghosts>>

SweptRow(r) == [id |-> r.id, ts |-> r.ts, prev |-> prev,
                hash |-> computeRowHash(prev, r.id, r.ts, 0)]

\* SetHashes, gated by row_hash IS NULL; any error skips to the next row.
SetHashes ==
    /\ pc = "set"
    /\ pc' = "sweep" /\ batch' = Tail(batch)
    /\ \/ \E r \in Unsealed(rows) :
             /\ r.id = Head(batch)
             /\ rows' = (rows \ {r}) \cup {SweptRow(r)}
             /\ NoteSeal(r)
             /\ UNCHANGED faults
       \/ /\ \A r \in Unsealed(rows) : r.id # Head(batch)
          /\ UNCHANGED <<rows, disorder, faults>>
       \/ Fault("db") /\ UNCHANGED <<rows, disorder>>
    /\ UNCHANGED <<clock, rec, stamp, redis, cur, prev, cli, crashes, pruned>>

\* XREADGROUP ">" with a batch of one: only entries never delivered before.
ReadMessage ==
    /\ pc = "read" /\ stream # <<>>
    /\ pel' = pel \cup {Head(stream)} /\ stream' = Tail(stream)
    /\ \/ cur' = Head(stream) /\ pc' = "seal" /\ UNCHANGED faults
       \/ Fault("redis") /\ UNCHANGED <<cur, pc>>      \* the reply is lost
    /\ UNCHANGED <<clock, rec, stamp, group, missed, rows, prev, batch, cli, crashes, ghosts>>

\* Mutant: an idle read goes back to reading without a sweep.
ReadIdle_NoSweep ==
    /\ pc = "read" /\ stream = <<>>
    /\ UNCHANGED vars

ReadIdle ==
    /\ pc = "read" /\ stream = <<>>
    /\ pc' = "list"
    /\ UNCHANGED <<clock, rec, stamp, redis, rows, cur, prev, batch, cli, faults,
                   crashes, ghosts>>

Seal ==
    /\ pc = "seal"
    /\ \/ prev' = LatestRowHash(rows) /\ pc' = "create" /\ UNCHANGED faults
       \/ Fault("db") /\ pc' = "read" /\ UNCHANGED prev
    /\ UNCHANGED <<clock, rec, stamp, redis, rows, cur, batch, cli, crashes, ghosts>>

SealedRow(id) ==
    [id |-> id, ts |-> stamp[id].us, prev |-> prev,
     hash |-> computeRowHash(prev, id, stamp[id].us, stamp[id].frac)]

\* Mutant: the insert is an upsert.
Create_Upsert ==
    /\ pc = "create"
    /\ rows' = {r \in rows : r.id # cur} \cup {SealedRow(cur)}
    /\ NoteSeal(SealedRow(cur))
    /\ pc' = "ack"
    /\ UNCHANGED <<clock, rec, stamp, redis, cur, prev, batch, cli, faults, crashes, pruned>>

Create ==
    /\ pc = "create"
    /\ \/ /\ ~HasRow(rows, cur)
          /\ rows' = rows \cup {SealedRow(cur)}
          /\ NoteSeal(SealedRow(cur))
          /\ pc' = "ack" /\ UNCHANGED faults
       \/ HasRow(rows, cur) /\ pc' = "read" /\ UNCHANGED <<rows, disorder, faults>>
       \/ Fault("db") /\ pc' = "read" /\ UNCHANGED <<rows, disorder>>
    /\ UNCHANGED <<clock, rec, stamp, redis, cur, prev, batch, cli, crashes, pruned>>

Ack ==
    /\ pc = "ack"
    /\ pc' = "read"
    /\ \/ pel' = pel \ {cur} /\ UNCHANGED faults
       \/ Fault("redis") /\ UNCHANGED pel
    /\ UNCHANGED <<clock, rec, stamp, group, stream, missed, rows, cur, prev, batch,
                   cli, crashes, ghosts>>

-----------------------------------------------------------------------------
(* Restart of the panel process, and the prune command.                    *)

Crash ==
    /\ crashes < MaxCrashes
    /\ crashes' = crashes + 1
    /\ rec' = [i \in Ids |-> IF rec[i] \in {"publish", "fallback", "expired"}
                             THEN "killed" ELSE rec[i]]
    /\ pc' = "start" /\ cur' = 0 /\ prev' = NoHash /\ batch' = <<>>
    /\ UNCHANGED <<clock, stamp, redis, rows, cli, faults, ghosts>>

\* Mutant: the cutoff is inclusive, ts <= now - days.
PruneDelete_Inclusive ==
    /\ cli = "idle" /\ clock > Retention
    /\ LET old == {r \in rows : r.ts <= clock - Retention}
       IN  rows' = rows \ old /\ pruned' = (pruned \/ Sealed(old) # {})
    /\ cli' = "record"
    /\ UNCHANGED <<clock, rec, stamp, redis, consumer, faults, crashes, disorder>>

PruneDelete ==
    /\ cli = "idle" /\ clock > Retention
    /\ LET old == {r \in rows : r.ts < clock - Retention}
       IN  rows' = rows \ old /\ pruned' = (pruned \/ Sealed(old) # {})
    /\ cli' = "record"
    /\ UNCHANGED <<clock, rec, stamp, redis, consumer, faults, crashes, disorder>>

\* The prune leaves an unsealed row of its own; an error is ignored.
PruneRecord ==
    /\ cli = "record"
    /\ cli' = "idle"
    /\ \/ \E id \in Ids :
             /\ rec[id] = "none"
             /\ rec' = [rec EXCEPT ![id] = "done"]
             /\ stamp' = [stamp EXCEPT ![id] = [us |-> clock, frac |-> 0]]
             /\ rows' = rows \cup {[id |-> id, ts |-> clock, prev |-> NoHash, hash |-> NoHash]}
             /\ UNCHANGED faults
       \/ Fault("db") /\ UNCHANGED <<rec, stamp, rows>>
    /\ UNCHANGED <<clock, redis, consumer, crashes, ghosts>>

-----------------------------------------------------------------------------
Consume == \/ EnsureGroup \/ SweepList \/ SweepHead \/ SweepDone \/ SetHashes
           \/ ReadMessage \/ ReadIdle \/ Seal \/ Create \/ Ack

Recorder(id) == \/ PublishOk(id) \/ PublishErr(id) \/ FallbackCreate(id) \/ FallbackErr(id)

Next == \/ Tick \/ Consume \/ Crash \/ PruneDelete \/ PruneRecord
        \/ \E id \in Ids : Record(id) \/ Recorder(id)

Spec == Init /\ [][Next]_vars

\* The consumer loop and the recording goroutines are never starved.
FairSpec == Spec /\ WF_vars(Consume) /\ \A id \in Ids : WF_vars(Recorder(id))
-----------------------------------------------------------------------------
(* Properties.                                                             *)

RecorderTypes ==
    /\ clock \in Nat /\ faults \in Nat /\ crashes \in Nat
    /\ rec \in [Ids -> RecStates]
    /\ stamp \in [Ids -> [us : Nat, frac : Fracs]]
    /\ cli \in {"idle", "record"}
StreamTypes ==
    /\ group \in BOOLEAN
    /\ stream \in Seq(Ids)
    /\ pel \subseteq Ids /\ missed \subseteq Ids
TableTypes ==
    /\ \A r \in rows : r.id \in Ids /\ r.ts \in Nat
    /\ disorder \in BOOLEAN /\ pruned \in BOOLEAN
ConsumerTypes ==
    /\ pc \in {"start", "list", "sweep", "set", "read", "seal", "create", "ack", "dead"}
    /\ cur \in Ids \cup {0}
    /\ batch \in Seq(Ids)

\* Every variable has its type: recorders, stream and group, table, consumer.
TypeOK == RecorderTypes /\ StreamTypes /\ TableTypes /\ ConsumerTypes

\* An event that reached the table by the fallback and by the stream (an XADD
\* that succeeded but reported an error) still has one row.
OneRowPerEvent == \A r, s \in rows : r.id = s.id => r = s

\* Which sealed rows carry a sub-microsecond time that the column dropped.
LostPrecision(r) == r.hash[4] # 0

\* As long as rows were sealed in (ts, id) order and none was pruned, `audit
\* verify` rejects a row only because its time lost precision in the table.
VerifyBreaksOnlyForCause ==
    ~disorder /\ ~pruned =>
        \A r \in Sealed(rows) : RowVerifies(rows, r) \/ LostPrecision(r)

\* An event that something will still write, or that has its row, or that is
\* past the retention limit.  The pending list is no such place: XREADGROUP ">"
\* never hands out an entry twice, and nothing claims it.
Held(id) ==
    \/ HasRow(rows, id)
    \/ \E i \in DOMAIN stream : stream[i] = id
    \/ pc \in {"seal", "create"} /\ cur = id
    \/ stamp[id].us + Retention < clock

\* Events whose goroutine ran to its end and that will never have a row.  Not
\* counted: goroutines a restart killed, and entries older than the group,
\* which is created at "$".
Vanished == {id \in Ids \ missed : rec[id] \in {"done", "lost", "expired"} /\ ~Held(id)}

\* Each failed call and each restart costs at most one event: whatever is left
\* in the pending list, expires with the shared 5 s context or is dropped with
\* "EVENT LOST" was hit by a failure of its own.
NothingVanishes == IsFiniteSet(Vanished) /\ Cardinality(Vanished) <= faults + crashes

\* A sealed row is never rewritten; only the prune command, and only past the
\* retention limit, takes it away.
SealedRowsAppendOnly ==
    [][\A r \in Sealed(rows) : r \in rows' \/ (PruneDelete /\ r.ts < clock - Retention)]_vars

\* A row inserted without hashes, by the fallback, the prune command or the
\* fold-in of migration 138, is sealed once the stream is idle, unless the
\* consumer never started or the row was pruned.  For the folded-in rows the
\* runbook says the opposite: they "stay NULL by design".
UnsealedEventuallySealed ==
    \A id \in Ids :
        (\E r \in Unsealed(rows) : r.id = id)
            ~> (pc = "dead" \/ ~\E r \in Unsealed(rows) : r.id = id)
=============================================================================
