-------------------------- MODULE AuditChain_proofs --------------------------
(***************************************************************************)
(* Proofs about AuditChain for every set of ids, every clock and every     *)
(* bound on faults and restarts.                                           *)
(*                                                                         *)
(* The argument for the chain: there is one sealer, so between reading the *)
(* head (pc = "set" or "create") and writing the row no other row becomes  *)
(* sealed; while no row was sealed below another and none was pruned, the  *)
(* head is the last row in (ts, id) order, so the new row's predecessor    *)
(* for the verifier is the row its hash was computed from.                 *)
(*                                                                         *)
(* The argument for the lost events: a step makes at most one event more   *)
(* unreachable, and only a step that spends a fault or a restart does.     *)
(***************************************************************************)
EXTENDS AuditChain, FiniteSetTheorems, TLAPS

\* Every event the system holds has been recorded.
Known(id) == id \in Ids /\ rec[id] # "none"

Started ==
    /\ \A r \in rows : Known(r.id)
    /\ \A i \in DOMAIN stream : Known(stream[i])
    /\ \A id \in pel \cup missed : Known(id)
    /\ pc \in {"seal", "create", "ack"} => Known(cur)

RowTimes == \A r \in rows : r.ts = stamp[r.id].us

\* What is known of the sealed rows R while sealing stayed in order.
HasHead(R) ==
    Sealed(R) # {} => \E h \in Sealed(R) : \A s \in Sealed(R) : s = h \/ Less(s, h)
ChainGood(R) ==
    /\ HasHead(R)
    /\ \A r \in Sealed(R) : RowVerifies(R, r) \/ LostPrecision(r)

\* The head the consumer read is still the head when it writes.
HeadFresh == pc \in {"set", "create"} => prev = LatestRowHash(rows)

BatchReady == pc = "set" => batch # <<>>

IInv ==
    /\ TypeOK /\ Started /\ OneRowPerEvent /\ RowTimes /\ BatchReady
    /\ NothingVanishes
    /\ ~disorder /\ ~pruned => ChainGood(rows) /\ HeadFresh

-----------------------------------------------------------------------------
(* Lemmas about the operators.                                             *)

\* A computed hash is never the NULL hash, and its fourth part is the signed
\* sub-microsecond time (computeRowHash, consumer.go).
LEMMA HashNotNull ==
    \A p, i, t, f : computeRowHash(p, i, t, f) # NoHash /\ computeRowHash(p, i, t, f)[4] = f
BY DEF computeRowHash, NoHash

\* What the stream and the sweep do with a sequence of ids.
LEMMA SeqFacts ==
    ASSUME NEW S, NEW q \in Seq(S), NEW e \in S
    PROVE  /\ Append(q, e) \in Seq(S)
           /\ \A i \in DOMAIN Append(q, e) : Append(q, e)[i] = e \/ \E j \in DOMAIN q : Append(q, e)[i] = q[j]
           /\ \E i \in DOMAIN Append(q, e) : Append(q, e)[i] = e
           /\ q # <<>> => /\ Head(q) \in S /\ Tail(q) \in Seq(S)
                          /\ \E i \in DOMAIN q : q[i] = Head(q)
                          /\ \A i \in DOMAIN Tail(q) : \E j \in DOMAIN q : Tail(q)[i] = q[j]
                          /\ \A i \in DOMAIN q : q[i] = Head(q) \/ \E j \in DOMAIN Tail(q) : Tail(q)[j] = q[i]
<1>1. Append(q, e) \in Seq(S) /\ Len(Append(q, e)) = Len(q) + 1
    OBVIOUS
<1>2. \A i \in 1..Len(q) : Append(q, e)[i] = q[i]
    OBVIOUS
<1>3. Append(q, e)[Len(q) + 1] = e
    OBVIOUS
<1>4. DOMAIN Append(q, e) = 1..(Len(q) + 1) /\ DOMAIN q = 1..Len(q) /\ Len(q) \in Nat
    BY <1>1
<1>5. ASSUME q # <<>>
      PROVE  /\ Head(q) \in S /\ Tail(q) \in Seq(S)
             /\ \E i \in DOMAIN q : q[i] = Head(q)
             /\ \A i \in DOMAIN Tail(q) : \E j \in DOMAIN q : Tail(q)[i] = q[j]
             /\ \A i \in DOMAIN q : q[i] = Head(q) \/ \E j \in DOMAIN Tail(q) : Tail(q)[j] = q[i]
    <2>1. Len(q) >= 1 /\ Head(q) = q[1] /\ Tail(q) \in Seq(S) /\ Len(Tail(q)) = Len(q) - 1
        BY <1>5
    <2>2. DOMAIN Tail(q) = 1..(Len(q) - 1)
        BY <2>1
    <2>3. \A i \in 1..(Len(q) - 1) : Tail(q)[i] = q[i + 1]
        BY <2>1
    <2>4. ASSUME NEW i \in DOMAIN q, i # 1 PROVE \E j \in DOMAIN Tail(q) : Tail(q)[j] = q[i]
        <3>1. i - 1 \in 1..(Len(q) - 1)
            BY <1>4, <2>4
        <3> QED
            BY <2>2, <2>3, <3>1
    <2> QED
        BY <1>4, <2>1, <2>2, <2>3, <2>4
<1> QED
    BY <1>1, <1>2, <1>3, <1>4, <1>5

\* The row above all others in the (ts, id) order is the one ORDER BY ts DESC,
\* id DESC LIMIT 1 returns.
LEMMA LatestIsHead ==
    ASSUME NEW S, NEW h \in S, \A s \in S : s = h \/ Less(s, h),
           \A s \in S : s.id \in Nat /\ s.ts \in Nat
    PROVE  Latest(S) = h
<1> DEFINE P(r) == \A s \in S : s = r \/ Less(s, r)
<1>1. P(h)
    OBVIOUS
<1>2. \A r \in S : P(r) => r = h
    <2> SUFFICES ASSUME NEW r \in S, P(r), r # h PROVE FALSE
        OBVIOUS
    <2>1. Less(h, r) /\ Less(r, h)
        OBVIOUS
    <2>2. h.ts \in Nat /\ r.ts \in Nat /\ h.id \in Nat /\ r.id \in Nat
        OBVIOUS
    <2> QED
        BY <2>1, <2>2 DEF Less
<1> QED
    BY <1>1, <1>2 DEF Latest

\* Sealing a row that no sealed row follows, with the hash of the head, keeps a
\* good chain good: the step the consumer takes in Create and in SetHashes.
LEMMA SealExtendsChain ==
    ASSUME NEW R, NEW R2, NEW n, NEW f,
           \A r \in Sealed(R) : r.id \in Nat /\ r.ts \in Nat /\ r.id # n.id,
           n.id \in Nat, n.ts \in Nat,
           Sealed(R2) = Sealed(R) \cup {n},
           \A s \in Sealed(R) : ~Less(n, s),
           n.hash = computeRowHash(LatestRowHash(R), n.id, n.ts, f),
           ChainGood(R)
    PROVE  ChainGood(R2)
<1>1. \A s \in Sealed(R) : Less(s, n)
    BY DEF Less
<1>2. HasHead(R2)
    BY <1>1 DEF HasHead
<1>3. ~Less(n, n)
    BY DEF Less
<1>4. Below(R2, n) = Sealed(R)
    BY <1>1, <1>3 DEF Below
<1>5. LatestRowHash(R) = IF Below(R2, n) = {} THEN NoHash ELSE Latest(Below(R2, n)).hash
    BY <1>4 DEF LatestRowHash
<1>6. RowVerifies(R2, n) \/ LostPrecision(n)
    <2>1. CASE f = 0
        BY <1>5, <2>1 DEF RowVerifies
    <2>2. CASE f # 0
        BY <2>2, HashNotNull DEF LostPrecision
    <2> QED
        BY <2>1, <2>2
<1>7. ASSUME NEW r \in Sealed(R) PROVE RowVerifies(R2, r) \/ LostPrecision(r)
    <2>1. Below(R2, r) = Below(R, r)
        BY DEF Below
    <2>2. RowVerifies(R, r) \/ LostPrecision(r)
        BY DEF ChainGood
    <2> QED
        BY <2>1, <2>2 DEF RowVerifies
<1> QED
    BY <1>2, <1>6, <1>7 DEF ChainGood

\* Verification and the head depend on the sealed rows only.
LEMMA SealedDecides ==
    ASSUME NEW R, NEW R2, Sealed(R2) = Sealed(R)
    PROVE  /\ ChainGood(R) => ChainGood(R2)
           /\ LatestRowHash(R2) = LatestRowHash(R)
<1>1. LatestRowHash(R2) = LatestRowHash(R)
    BY DEF LatestRowHash
<1>2. ASSUME ChainGood(R) PROVE ChainGood(R2)
    <2>1. HasHead(R2)
        BY <1>2 DEF HasHead, ChainGood
    <2>2. ASSUME NEW r \in Sealed(R2) PROVE RowVerifies(R2, r) \/ LostPrecision(r)
        <3>1. Below(R2, r) = Below(R, r)
            BY DEF Below
        <3>2. RowVerifies(R, r) \/ LostPrecision(r)
            BY <1>2, <2>2 DEF ChainGood
        <3> QED
            BY <3>1, <3>2 DEF RowVerifies
    <2> QED
        BY <2>1, <2>2 DEF ChainGood
<1> QED
    BY <1>1, <1>2

-----------------------------------------------------------------------------
(* The inductive invariant.                                                *)

LEMMA InitIInv == Init => IInv
<1> SUFFICES ASSUME Init PROVE IInv
    OBVIOUS
<1> USE AuditAssumption DEF Init
<1>1. TypeOK
    <2>1. RecorderTypes
        BY DEF RecorderTypes, RecStates
    <2>2. stream \in Seq(Ids) /\ pel \subseteq Ids /\ missed \subseteq Ids
        OBVIOUS
    <2>4. StreamTypes
        BY <2>2 DEF StreamTypes
    <2>5. TableTypes
        <3>1. \A r \in rows : r.id \in Folded /\ r.ts = 0
            OBVIOUS
        <3>2. Folded \subseteq Ids /\ disorder = FALSE /\ pruned = FALSE
            OBVIOUS
        <3> HIDE DEF Init
        <3> QED
            BY <3>1, <3>2 DEF TableTypes
    <2>3. ConsumerTypes
        BY DEF ConsumerTypes
    <2> QED
        BY <2>1, <2>3, <2>4, <2>5 DEF TypeOK
<1>2. Started /\ OneRowPerEvent /\ RowTimes /\ BatchReady
    BY DEF Started, Known, OneRowPerEvent, RowTimes, BatchReady
<1>3. NothingVanishes
    <2>1. ASSUME NEW id \in Ids, rec[id] = "done" PROVE \E r \in rows : r.id = id
        <3>1. id \in Folded
            BY <2>1
        <3>2. [id |-> id, ts |-> 0, prev |-> NoHash, hash |-> NoHash] \in rows
            BY <3>1
        <3> QED
            BY <3>2
    <2>2. \A id \in Ids : rec[id] \in {"done", "none"}
        OBVIOUS
    <2>3. Vanished = {}
        BY <2>1, <2>2 DEF Vanished, Held, HasRow
    <2>4. faults = 0 /\ crashes = 0
        OBVIOUS
    <2> HIDE DEF Init
    <2> QED
        BY <2>3, <2>4, FS_EmptySet DEF NothingVanishes
<1>4. Sealed(rows) = {}
    BY DEF Sealed
<1>5. ChainGood(rows) /\ HeadFresh
    BY <1>4 DEF ChainGood, HasHead, HeadFresh
<1> QED
    BY <1>1, <1>2, <1>3, <1>5 DEF IInv

\* Type correctness is preserved by every step.
LEMMA TypeStep == IInv /\ [Next]_vars => TypeOK'
<1> SUFFICES ASSUME IInv, [Next]_vars PROVE TypeOK'
    OBVIOUS
<1> USE AuditAssumption DEF RecorderTypes, StreamTypes, TableTypes, ConsumerTypes, RecStates,
        redis, consumer, ghosts, Fault
<1>0. RecorderTypes /\ StreamTypes /\ TableTypes /\ ConsumerTypes /\ Started /\ BatchReady
    BY DEF IInv, TypeOK
<1>1. CASE Tick
    BY <1>0, <1>1 DEF Tick, TypeOK
<1>2. CASE Crash
    BY <1>0, <1>2 DEF Crash, TypeOK
<1>3. CASE PruneDelete
    BY <1>0, <1>3 DEF PruneDelete, TypeOK
<1>4. CASE PruneRecord
    <2>1. RecorderTypes'
        BY <1>0, <1>4 DEF PruneRecord
    <2>2. StreamTypes'
        BY <1>0, <1>4 DEF PruneRecord
    <2>3. TableTypes'
        BY <1>0, <1>4 DEF PruneRecord
    <2>4. ConsumerTypes'
        BY <1>0, <1>4 DEF PruneRecord
    <2> QED
        BY <2>1, <2>2, <2>3, <2>4 DEF TypeOK
<1>5. ASSUME NEW id \in Ids, Record(id) PROVE TypeOK'
    BY <1>0, <1>5 DEF Record, TypeOK
<1>6. ASSUME NEW id \in Ids, PublishOk(id) PROVE TypeOK'
    <2>1. RecorderTypes'
        BY <1>0, <1>6 DEF PublishOk, XAdd
    <2>2. StreamTypes'
        <3>1. Append(stream, id) \in Seq(Ids)
            BY <1>0, SeqFacts
        <3>2. stream' \in {stream, Append(stream, id)} /\ missed' \subseteq missed \cup {id}
            BY <1>6 DEF PublishOk, XAdd
        <3>3. group' = group /\ pel' = pel
            BY <1>6 DEF PublishOk
        <3> QED
            BY <1>0, <3>1, <3>2, <3>3
    <2>3. TableTypes'
        BY <1>0, <1>6 DEF PublishOk, XAdd
    <2>4. ConsumerTypes'
        BY <1>0, <1>6 DEF PublishOk, XAdd
    <2> QED
        BY <2>1, <2>2, <2>3, <2>4 DEF TypeOK
<1>7. ASSUME NEW id \in Ids, PublishErr(id) PROVE TypeOK'
    <2>1. RecorderTypes'
        BY <1>0, <1>7 DEF PublishErr, XAdd
    <2>2. StreamTypes'
        <3>1. Append(stream, id) \in Seq(Ids)
            BY <1>0, SeqFacts
        <3>2. stream' \in {stream, Append(stream, id)} /\ missed' \subseteq missed \cup {id}
            BY <1>7 DEF PublishErr, XAdd
        <3>3. group' = group /\ pel' = pel
            BY <1>7 DEF PublishErr
        <3> QED
            BY <1>0, <3>1, <3>2, <3>3
    <2>3. TableTypes'
        BY <1>0, <1>7 DEF PublishErr, XAdd
    <2>4. ConsumerTypes'
        BY <1>0, <1>7 DEF PublishErr, XAdd
    <2> QED
        BY <2>1, <2>2, <2>3, <2>4 DEF TypeOK
<1>8. ASSUME NEW id \in Ids, FallbackCreate(id) PROVE TypeOK'
    BY <1>0, <1>8 DEF FallbackCreate, FallbackRow, TypeOK
<1>9. ASSUME NEW id \in Ids, FallbackErr(id) PROVE TypeOK'
    BY <1>0, <1>9 DEF FallbackErr, TypeOK
<1>10. CASE EnsureGroup
    <2>1. RecorderTypes' /\ TableTypes'
        BY <1>0, <1>10 DEF EnsureGroup
    <2>2. StreamTypes'
        BY <1>0, <1>10 DEF EnsureGroup
    <2>3. ConsumerTypes'
        BY <1>0, <1>10 DEF EnsureGroup
    <2> QED
        BY <2>1, <2>2, <2>3 DEF TypeOK
<1>11. CASE SweepList
    <2>1. RecorderTypes'
        BY <1>0, <1>11 DEF SweepList
    <2>2. StreamTypes'
        BY <1>0, <1>11 DEF SweepList
    <2>3. TableTypes'
        BY <1>0, <1>11 DEF SweepList
    <2>4. ConsumerTypes'
        <3>1. batch' = <<>> \/ \E k \in 0..SweepLimit : batch' \in [1..k -> Ids]
            BY <1>11 DEF SweepList
        <3>2. batch' \in Seq(Ids)
            <4>1. <<>> \in Seq(Ids)
                OBVIOUS
            <4>2. ASSUME NEW k \in 0..SweepLimit, batch' \in [1..k -> Ids] PROVE batch' \in Seq(Ids)
                BY <4>2
            <4> QED
                BY <3>1, <4>1, <4>2
        <3>3. cur' = cur /\ pc' \in {"sweep", "read"}
            BY <1>11 DEF SweepList
        <3> QED
            BY <1>0, <3>2, <3>3
    <2> QED
        BY <2>1, <2>2, <2>3, <2>4 DEF TypeOK
<1>12. CASE SweepHead
    <2>1. RecorderTypes'
        BY <1>0, <1>12 DEF SweepHead
    <2>2. StreamTypes'
        BY <1>0, <1>12 DEF SweepHead
    <2>3. TableTypes'
        BY <1>0, <1>12 DEF SweepHead
    <2>4. ConsumerTypes'
        <3>1. batch' \in Seq(Ids)
            <4>1. <<>> \in Seq(Ids)
                OBVIOUS
            <4>2. batch' \in {batch, <<>>}
                BY <1>12 DEF SweepHead
            <4> QED
                BY <1>0, <4>1, <4>2
        <3>2. cur' = cur /\ pc' \in {"set", "read"}
            BY <1>12 DEF SweepHead
        <3> QED
            BY <1>0, <3>1, <3>2
    <2> QED
        BY <2>1, <2>2, <2>3, <2>4 DEF TypeOK
<1>13. CASE SweepDone
    BY <1>0, <1>13 DEF SweepDone, TypeOK
<1>14. CASE SetHashes
    <2>1. RecorderTypes'
        BY <1>0, <1>14 DEF SetHashes
    <2>2. StreamTypes'
        BY <1>0, <1>14 DEF SetHashes, SweptRow, NoteSeal, BatchReady, Unsealed
    <2>3. TableTypes'
        <3>1. \A r \in rows' : r \in rows \/ \E s \in rows : r = SweptRow(s)
            BY <1>14 DEF SetHashes, Unsealed
        <3>2. \A s \in rows : SweptRow(s).id = s.id /\ SweptRow(s).ts = s.ts
            BY DEF SweptRow
        <3>3. disorder' \in BOOLEAN
            BY <1>0, <1>14 DEF SetHashes, NoteSeal
        <3>4. pruned' = pruned /\ pruned \in BOOLEAN
            BY <1>0, <1>14 DEF SetHashes
        <3>5. \A r \in rows : r.id \in Ids /\ r.ts \in Nat
            BY <1>0
        <3>6. \A r \in rows' : r.id \in Ids /\ r.ts \in Nat
            BY <3>1, <3>2, <3>5
        <3> QED
            BY <3>3, <3>4, <3>6
    <2>4. ConsumerTypes'
        BY <1>0, <1>14 DEF SetHashes, SweptRow, NoteSeal, BatchReady, Unsealed
    <2> QED
        BY <2>1, <2>2, <2>3, <2>4 DEF TypeOK
<1>15. CASE ReadMessage
    <2>1. RecorderTypes'
        BY <1>0, <1>15 DEF ReadMessage
    <2>2. StreamTypes'
        <3>1. Head(stream) \in Ids /\ Tail(stream) \in Seq(Ids)
            BY <1>0, <1>15 DEF ReadMessage
        <3>2. stream' = Tail(stream) /\ pel' = pel \cup {Head(stream)}
            BY <1>15 DEF ReadMessage
        <3>3. group' = group /\ missed' = missed
            BY <1>15 DEF ReadMessage
        <3> QED
            BY <1>0, <3>1, <3>2, <3>3
    <2>3. TableTypes'
        BY <1>0, <1>15 DEF ReadMessage
    <2>4. ConsumerTypes'
        BY <1>0, <1>15 DEF ReadMessage
    <2> QED
        BY <2>1, <2>2, <2>3, <2>4 DEF TypeOK
<1>16. CASE ReadIdle
    BY <1>0, <1>16 DEF ReadIdle, TypeOK
<1>17. CASE Seal
    BY <1>0, <1>17 DEF Seal, TypeOK
<1>18. CASE Create
    <2>1. RecorderTypes'
        BY <1>0, <1>18 DEF Create, NoteSeal, SealedRow, Started, Known
    <2>2. StreamTypes'
        BY <1>0, <1>18 DEF Create, NoteSeal, SealedRow, Started, Known
    <2>3. TableTypes'
        <3>1. \A r \in rows' : r \in rows \/ r = SealedRow(cur)
            BY <1>18 DEF Create
        <3>2. SealedRow(cur).id \in Ids /\ SealedRow(cur).ts \in Nat
            BY <1>0, <1>18 DEF Create, SealedRow, Started, Known
        <3>3. disorder' \in BOOLEAN
            BY <1>0, <1>18 DEF Create, NoteSeal
        <3>4. pruned' = pruned
            BY <1>18 DEF Create
        <3> QED
            BY <1>0, <3>1, <3>2, <3>3, <3>4
    <2>4. ConsumerTypes'
        BY <1>0, <1>18 DEF Create, NoteSeal, SealedRow, Started, Known
    <2> QED
        BY <2>1, <2>2, <2>3, <2>4 DEF TypeOK
<1>19. CASE Ack
    <2>1. RecorderTypes' /\ TableTypes' /\ ConsumerTypes'
        BY <1>0, <1>19 DEF Ack
    <2>2. StreamTypes'
        BY <1>0, <1>19 DEF Ack
    <2> QED
        BY <2>1, <2>2 DEF TypeOK
<1>20. CASE UNCHANGED vars
    BY <1>0, <1>20 DEF vars, TypeOK
<1> QED
    BY <1>1, <1>2, <1>3, <1>4, <1>5, <1>6, <1>7, <1>8, <1>9, <1>10, <1>11, <1>12, <1>13,
       <1>14, <1>15, <1>16, <1>17, <1>18, <1>19, <1>20 DEF Next, Consume, Recorder

\* A recorded event stays recorded, and its time does not change.
LEMMA RecordedStays ==
    ASSUME IInv, [Next]_vars, NEW id \in Ids, rec[id] # "none"
    PROVE  rec'[id] # "none" /\ stamp'[id] = stamp[id]
<1>1. rec \in [Ids -> RecStates] /\ stamp \in [Ids -> [us : Nat, frac : Fracs]]
    BY DEF IInv, TypeOK, RecorderTypes
<1>2. CASE Tick \/ Consume \/ PruneDelete \/ UNCHANGED vars
    BY <1>2 DEF Tick, Consume, EnsureGroup, SweepList, SweepHead, SweepDone, SetHashes,
       ReadMessage, ReadIdle, Seal, Create, Ack, PruneDelete, vars
<1>3. CASE Crash
    BY <1>1, <1>3 DEF Crash
<1>4. CASE PruneRecord
    BY <1>1, <1>4 DEF PruneRecord
<1>5. ASSUME NEW i \in Ids, Record(i) PROVE rec'[id] # "none" /\ stamp'[id] = stamp[id]
    BY <1>1, <1>5 DEF Record
<1>6. ASSUME NEW i \in Ids, Recorder(i) PROVE rec'[id] # "none" /\ stamp'[id] = stamp[id]
    BY <1>1, <1>6 DEF Recorder, PublishOk, PublishErr, FallbackCreate, FallbackErr
<1> QED
    BY <1>2, <1>3, <1>4, <1>5, <1>6 DEF Next

\* What a step does to the table: nothing, a prune, a new row without hashes
\* for an event that had none, or one row sealed by the consumer.
Insert(n) ==
    /\ rows' = rows \cup {n} /\ ~HasRow(rows, n.id)
    /\ n.hash = NoHash /\ n.id \in Ids /\ rec'[n.id] # "none" /\ n.ts = stamp'[n.id].us
SealInsert(n) ==
    /\ pc = "create" /\ pc' = "ack" /\ cur' = cur
    /\ rows' = rows \cup {n} /\ ~HasRow(rows, n.id) /\ n = SealedRow(cur) /\ n.id = cur
SealUpdate(r) ==
    /\ pc = "set" /\ pc' = "sweep"
    /\ r \in Unsealed(rows) /\ rows' = (rows \ {r}) \cup {SweptRow(r)}

LEMMA TableSteps ==
    ASSUME IInv, [Next]_vars
    PROVE  \/ rows' = rows /\ disorder' = disorder /\ pruned' = pruned
           \/ PruneDelete
           \/ \E n : Insert(n) /\ disorder' = disorder /\ pruned' = pruned
           \/ \E n : SealInsert(n) /\ NoteSeal(n) /\ pruned' = pruned
           \/ \E r : SealUpdate(r) /\ NoteSeal(r) /\ pruned' = pruned
<1> DEFINE Goal ==
           \/ rows' = rows /\ disorder' = disorder /\ pruned' = pruned
           \/ PruneDelete
           \/ \E n : Insert(n) /\ disorder' = disorder /\ pruned' = pruned
           \/ \E n : SealInsert(n) /\ NoteSeal(n) /\ pruned' = pruned
           \/ \E r : SealUpdate(r) /\ NoteSeal(r) /\ pruned' = pruned
<1>1. rec \in [Ids -> RecStates] /\ stamp \in [Ids -> [us : Nat, frac : Fracs]] /\ Started
    BY DEF IInv, TypeOK, RecorderTypes
<1>2. CASE Tick \/ Crash \/ EnsureGroup \/ SweepList \/ SweepHead \/ SweepDone \/ ReadMessage
           \/ ReadIdle \/ Seal \/ Ack \/ UNCHANGED vars
    BY <1>2 DEF Tick, Crash, EnsureGroup, SweepList, SweepHead, SweepDone, ReadMessage, ReadIdle,
       Seal, Ack, vars, ghosts
<1>3. ASSUME NEW id \in Ids, Record(id) \/ PublishOk(id) \/ PublishErr(id) \/ FallbackErr(id) PROVE Goal
    BY <1>3 DEF Record, PublishOk, PublishErr, FallbackErr, ghosts
<1>4. ASSUME NEW id \in Ids, FallbackCreate(id) PROVE Goal
    <2>1. CASE HasRow(rows, id)
        BY <1>4, <2>1 DEF FallbackCreate, ghosts
    <2>2. CASE ~HasRow(rows, id)
        <3>1. rows' = rows \cup {FallbackRow(id)} /\ rec' = [rec EXCEPT ![id] = "done"] /\ stamp' = stamp
              /\ disorder' = disorder /\ pruned' = pruned
            BY <1>4, <2>2 DEF FallbackCreate, ghosts
        <3>2. FallbackRow(id).id = id /\ FallbackRow(id).hash = NoHash /\ FallbackRow(id).ts = stamp[id].us
            BY DEF FallbackRow
        <3>3. Insert(FallbackRow(id))
            BY <1>1, <2>2, <3>1, <3>2 DEF Insert
        <3> QED
            BY <3>1, <3>3
    <2> QED
        BY <2>1, <2>2
<1>5. CASE PruneRecord
    <2>1. CASE rows' = rows
        BY <1>5, <2>1 DEF PruneRecord, ghosts
    <2>2. CASE rows' # rows
        <3>1. PICK id \in Ids :
                /\ rec[id] = "none"
                /\ rec' = [rec EXCEPT ![id] = "done"]
                /\ stamp' = [stamp EXCEPT ![id] = [us |-> clock, frac |-> 0]]
                /\ rows' = rows \cup {[id |-> id, ts |-> clock, prev |-> NoHash, hash |-> NoHash]}
            BY <1>5, <2>2 DEF PruneRecord
        <3> DEFINE n == [id |-> id, ts |-> clock, prev |-> NoHash, hash |-> NoHash]
        <3>2. ~HasRow(rows, id)
            BY <1>1, <3>1 DEF HasRow, Started, Known
        <3>3. rec'[id] = "done" /\ stamp'[id].us = clock
            BY <1>1, <3>1
        <3>4. Insert(n)
            BY <3>1, <3>2, <3>3 DEF Insert
        <3> QED
            BY <1>5, <3>4 DEF PruneRecord, ghosts
    <2> QED
        BY <2>1, <2>2
<1>6. CASE SetHashes
    BY <1>6 DEF SetHashes, SealUpdate
<1>7. CASE Create
    <2>1. SealedRow(cur).id = cur
        BY DEF SealedRow
    <2> QED
        BY <1>7, <2>1 DEF Create, SealInsert
<1>8. CASE PruneDelete
    BY <1>8
<1> QED
    BY <1>2, <1>3, <1>4, <1>5, <1>6, <1>7, <1>8 DEF Next, Consume, Recorder

\* One row per event, and a row has the time of its event.
LEMMA TableStep ==
    ASSUME IInv, [Next]_vars
    PROVE  OneRowPerEvent' /\ RowTimes' /\ \A r \in rows' : r.id \in Ids /\ rec'[r.id] # "none"
<1>1. /\ OneRowPerEvent /\ RowTimes
      /\ \A r \in rows : r.id \in Ids /\ rec[r.id] # "none"
    BY DEF IInv, Started, Known
<1>2. \A r \in rows : r.ts = stamp'[r.id].us /\ rec'[r.id] # "none"
    BY <1>1, RecordedStays DEF RowTimes
<1>3. CASE rows' = rows \/ PruneDelete
    <2>1. rows' \subseteq rows
        BY <1>3 DEF PruneDelete
    <2> QED
        BY <1>1, <1>2, <2>1 DEF OneRowPerEvent, RowTimes
<1>4. ASSUME NEW n, rows' = rows \cup {n}, ~HasRow(rows, n.id), n.id \in Ids, rec'[n.id] # "none",
             n.ts = stamp'[n.id].us
      PROVE  OneRowPerEvent' /\ RowTimes' /\ \A r \in rows' : r.id \in Ids /\ rec'[r.id] # "none"
    BY <1>1, <1>2, <1>4 DEF OneRowPerEvent, RowTimes, HasRow
<1>5. ASSUME NEW n, SealInsert(n)
      PROVE  n.id \in Ids /\ rec'[n.id] # "none" /\ n.ts = stamp'[n.id].us
    <2>1. Known(cur)
        BY <1>5 DEF IInv, Started, SealInsert
    <2>2. n.ts = stamp[cur].us
        BY <1>5 DEF SealInsert, SealedRow
    <2> QED
        BY <1>5, <2>1, <2>2, RecordedStays DEF Known, SealInsert
<1>6. ASSUME NEW r, SealUpdate(r)
      PROVE  OneRowPerEvent' /\ RowTimes' /\ \A s \in rows' : s.id \in Ids /\ rec'[s.id] # "none"
    <2>1. r \in rows /\ SweptRow(r).id = r.id /\ SweptRow(r).ts = r.ts
        BY <1>6 DEF SealUpdate, SweptRow, Unsealed
    <2> QED
        BY <1>1, <1>2, <1>6, <2>1 DEF OneRowPerEvent, RowTimes, SealUpdate
<1> QED
    BY TableSteps, <1>3, <1>4, <1>5, <1>6 DEF Insert, SealInsert

\* What the stream, its pending list and the consumer hold has been recorded.
LEMMA StartedStep ==
    ASSUME IInv, [Next]_vars
    PROVE  Started' /\ BatchReady'
<1>0. /\ TypeOK /\ Started /\ BatchReady /\ stream \in Seq(Ids)
      /\ \A id \in Ids : Known(id) => Known(id)'
    BY RecordedStays DEF IInv, TypeOK, StreamTypes, Known
<1>1. (\A r \in rows : Known(r.id))'
    BY TableStep DEF Known
<1>6. \A i \in DOMAIN stream : stream[i] \in Ids /\ rec'[stream[i]] # "none"
    BY <1>0 DEF Started, Known
<1>2. (\A i \in DOMAIN stream : Known(stream[i]))'
    <2>1. CASE stream' = stream
        BY <1>6, <2>1 DEF Known
    <2>2. ASSUME NEW id \in Ids, PublishOk(id) \/ PublishErr(id), stream' = Append(stream, id)
          PROVE  (\A i \in DOMAIN stream : Known(stream[i]))'
        <3>1. Known(id)
            BY <2>2 DEF PublishOk, PublishErr, Known
        <3>2. \A i \in DOMAIN stream' : stream'[i] = id \/ \E j \in DOMAIN stream : stream'[i] = stream[j]
            BY <1>0, <2>2, SeqFacts
        <3> QED
            BY <1>0, <1>6, <3>1, <3>2 DEF Known
    <2>3. CASE ReadMessage
        <3>1. stream # <<>> /\ stream' = Tail(stream)
            BY <2>3 DEF ReadMessage
        <3>2. \A i \in DOMAIN stream' : \E j \in DOMAIN stream : stream'[i] = stream[j]
            <4>1. PICK e \in Ids : TRUE
                BY <1>0, <3>1
            <4> QED
                BY <1>0, <3>1, <4>1, SeqFacts
        <3> QED
            BY <1>6, <3>2 DEF Known
    <2> QED
        BY <2>1, <2>2, <2>3 DEF Next, Consume, Recorder, Tick, Crash, EnsureGroup, SweepList, SweepHead,
           SweepDone, SetHashes, ReadIdle, Seal, Create, Ack, PruneDelete, PruneRecord, Record,
           PublishOk, PublishErr, XAdd, FallbackCreate, FallbackErr, vars, redis
<1>3. (\A id \in pel \cup missed : Known(id))'
    <2>1. CASE pel' \subseteq pel /\ missed' = missed
        BY <1>0, <2>1 DEF Started, Known
    <2>2. ASSUME NEW id \in Ids, PublishOk(id) \/ PublishErr(id)
          PROVE  (\A i \in pel \cup missed : Known(i))'
        <3>1. Known(id) /\ pel' = pel /\ missed' \subseteq missed \cup {id}
            BY <2>2 DEF PublishOk, PublishErr, XAdd, Known
        <3> QED
            BY <1>0, <3>1 DEF Started, Known
    <2>3. CASE ReadMessage
        <3>1. stream # <<>> /\ pel' = pel \cup {Head(stream)} /\ missed' = missed
            BY <2>3 DEF ReadMessage
        <3>2. Known(Head(stream))
            BY <1>0, <3>1 DEF Started
        <3> QED
            BY <1>0, <3>1, <3>2 DEF Started, Known
    <2> QED
        BY <2>1, <2>2, <2>3 DEF Next, Consume, Recorder, Tick, Crash, EnsureGroup, SweepList, SweepHead,
           SweepDone, SetHashes, ReadIdle, Seal, Create, Ack, PruneDelete, PruneRecord, Record,
           FallbackCreate, FallbackErr, vars, redis
<1>4. (pc \in {"seal", "create", "ack"} => Known(cur))'
    <2>1. CASE ReadMessage
        <3>1. stream # <<>> /\ (pc' = "seal" => cur' = Head(stream)) /\ pc' \in {"read", "seal"}
            BY <2>1 DEF ReadMessage
        <3>2. Known(Head(stream))
            BY <1>0, <3>1 DEF Started
        <3> QED
            BY <1>0, <3>1, <3>2 DEF Known
    <2>2. CASE ~ReadMessage
        <3>1. pc' \in {"seal", "create", "ack"} => cur' = cur /\ pc \in {"seal", "create", "ack"}
            BY <2>2 DEF Next, Consume, Recorder, Tick, Crash, EnsureGroup, SweepList, SweepHead,
               SweepDone, SetHashes, ReadIdle, Seal, Create, Ack, PruneDelete, PruneRecord, Record,
               PublishOk, PublishErr, FallbackCreate, FallbackErr, vars, consumer
        <3> QED
            BY <1>0, <3>1 DEF Started, Known
    <2> QED
        BY <2>1, <2>2
<1>5. BatchReady'
    BY <1>0 DEF BatchReady, Next, Consume, Recorder, Tick, Crash, EnsureGroup, SweepList, SweepHead,
       SweepDone, SetHashes, ReadMessage, ReadIdle, Seal, Create, Ack, PruneDelete, PruneRecord, Record,
       PublishOk, PublishErr, FallbackCreate, FallbackErr, vars, consumer
<1> QED
    BY <1>1, <1>2, <1>3, <1>4, <1>5 DEF Started

\* The chain stays good and the consumer's head fresh while sealing is in order.
LEMMA ChainStep ==
    ASSUME IInv, [Next]_vars, ~disorder', ~pruned'
    PROVE  ChainGood(rows') /\ HeadFresh'
<1>0. /\ \A r \in rows : r.id \in Nat /\ r.ts \in Nat
      /\ OneRowPerEvent /\ Started /\ RecorderTypes
      /\ ~disorder /\ ~pruned => ChainGood(rows) /\ HeadFresh
    BY AuditAssumption DEF IInv, TypeOK, TableTypes
<1>1. pc' \in {"set", "create"} =>
          (pc \in {"set", "create"} /\ prev' = prev) \/ prev' = LatestRowHash(rows)
    BY DEF Next, Consume, Recorder, Tick, Crash, EnsureGroup, SweepList, SweepHead, SweepDone, SetHashes,
       ReadMessage, ReadIdle, Seal, Create, Ack, PruneDelete, PruneRecord, Record, PublishOk,
       PublishErr, FallbackCreate, FallbackErr, vars, consumer
<1>2. ASSUME ~disorder, ~pruned, Sealed(rows') = Sealed(rows)
      PROVE  ChainGood(rows') /\ HeadFresh'
    <2>1. ChainGood(rows') /\ LatestRowHash(rows') = LatestRowHash(rows)
        BY <1>0, <1>2, SealedDecides
    <2>2. HeadFresh'
        BY <1>0, <1>1, <1>2, <2>1 DEF HeadFresh
    <2> QED
        BY <2>1, <2>2
<1>3. CASE rows' = rows /\ disorder' = disorder /\ pruned' = pruned
    BY <1>2, <1>3
<1>4. CASE PruneDelete
    <2>1. disorder' = disorder /\ Sealed(rows') = Sealed(rows) /\ ~pruned
        BY <1>4 DEF PruneDelete, Sealed
    <2> QED
        BY <1>2, <2>1
<1>5. ASSUME NEW n, Insert(n), disorder' = disorder, pruned' = pruned
      PROVE  ChainGood(rows') /\ HeadFresh'
    <2>1. Sealed(rows') = Sealed(rows)
        BY <1>5 DEF Insert, Sealed
    <2> QED
        BY <1>2, <1>5, <2>1
<1>6. ASSUME NEW n, SealInsert(n), NoteSeal(n), pruned' = pruned
      PROVE  ChainGood(rows') /\ HeadFresh'
    <2>1. ~disorder /\ ~pruned /\ \A s \in Sealed(rows) : ~Less(n, s)
        BY <1>6 DEF NoteSeal
    <2>2. cur \in Ids /\ cur \in Nat /\ prev = LatestRowHash(rows)
        BY <1>0, <1>6, <2>1, AuditAssumption DEF Started, Known, SealInsert, HeadFresh
    <2>3. /\ n.hash = computeRowHash(LatestRowHash(rows), n.id, n.ts, stamp[cur].frac)
          /\ n.id = cur /\ n.ts = stamp[cur].us /\ n.ts \in Nat
        BY <1>0, <1>6, <2>2 DEF SealInsert, SealedRow, RecorderTypes
    <2>4. Sealed(rows') = Sealed(rows) \cup {n}
        BY <1>6, <2>3, HashNotNull DEF SealInsert, Sealed
    <2>5. \A r \in Sealed(rows) : r.id \in Nat /\ r.ts \in Nat /\ r.id # n.id
        BY <1>0, <1>6 DEF Sealed, SealInsert, HasRow
    <2>6. ChainGood(rows')
        BY <1>0, <2>1, <2>2, <2>3, <2>4, <2>5, SealExtendsChain
    <2> QED
        BY <1>6, <2>6 DEF SealInsert, HeadFresh
<1>7. ASSUME NEW r, SealUpdate(r), NoteSeal(r), pruned' = pruned
      PROVE  ChainGood(rows') /\ HeadFresh'
    <2> DEFINE n == SweptRow(r)
    <2>1. ~disorder /\ ~pruned /\ \A s \in Sealed(rows) : ~Less(r, s)
        BY <1>7 DEF NoteSeal
    <2>2. prev = LatestRowHash(rows) /\ r \in rows /\ r.hash = NoHash
        BY <1>0, <1>7, <2>1 DEF SealUpdate, HeadFresh, Unsealed
    <2>3. /\ n.hash = computeRowHash(LatestRowHash(rows), n.id, n.ts, 0)
          /\ n.id = r.id /\ n.ts = r.ts
        BY <2>2 DEF SweptRow
    <2>4. Sealed(rows') = Sealed(rows) \cup {n}
        BY <1>7, <2>2, <2>3, HashNotNull DEF SealUpdate, Sealed
    <2>5. \A s \in Sealed(rows) : s.id \in Nat /\ s.ts \in Nat /\ s.id # n.id
        BY <1>0, <2>2, <2>3 DEF Sealed, OneRowPerEvent
    <2>6. \A s \in Sealed(rows) : ~Less(n, s)
        BY <2>1, <2>3 DEF Less
    <2>7. n.id \in Nat /\ n.ts \in Nat
        BY <1>0, <2>2, <2>3
    <2> HIDE DEF n
    <2>8. ChainGood(rows')
        BY <1>0, <2>1, <2>3, <2>4, <2>5, <2>6, <2>7, SealExtendsChain
    <2> QED
        BY <1>7, <2>8 DEF SealUpdate, HeadFresh
<1> QED
    BY TableSteps, <1>3, <1>4, <1>5, <1>6, <1>7

\* A row survives every step but a prune past the retention limit.
LEMMA RowsKept ==
    ASSUME IInv, [Next]_vars, NEW id \in Ids, HasRow(rows, id)
    PROVE  HasRow(rows', id) \/ stamp'[id].us + Retention < clock'
<1>0. RowTimes /\ Started /\ \A r \in rows : r.ts \in Nat
    BY DEF IInv, TypeOK, TableTypes
<1>1. PICK r \in rows : r.id = id
    BY DEF HasRow
<1>2. r.ts = stamp'[id].us /\ r.ts \in Nat
    BY <1>0, <1>1, RecordedStays DEF RowTimes, Started, Known
<1>3. CASE rows \subseteq rows'
    BY <1>1, <1>3 DEF HasRow
<1>4. CASE PruneDelete
    <2>1. r \in rows' \/ r.ts < clock - Retention
        BY <1>1, <1>4 DEF PruneDelete
    <2>2. clock' = clock /\ clock \in Nat /\ Retention \in Nat
        BY <1>4, AuditAssumption DEF PruneDelete, IInv, TypeOK, RecorderTypes
    <2> QED
        BY <1>1, <1>2, <2>1, <2>2 DEF HasRow
<1>5. ASSUME NEW s, SealUpdate(s) PROVE HasRow(rows', id)
    <2>1. SweptRow(s).id = s.id
        BY DEF SweptRow
    <2> QED
        BY <1>1, <1>5, <2>1 DEF SealUpdate, HasRow
<1> QED
    BY TableSteps, <1>3, <1>4, <1>5 DEF Insert, SealInsert

\* The one event a failed call or a restart can cost: the message in the lost
\* reply, the message in the consumer's hand, or the event of the goroutine
\* that failed.
Struck(id) ==
    \/ crashes' = crashes + 1 /\ faults' = faults /\ id = cur
    \/ /\ crashes' = crashes /\ faults' = faults + 1
       /\ \/ rec' = rec /\ pc = "read" /\ id = Head(stream)
          \/ rec' = rec /\ pc \in {"seal", "create"} /\ id = cur
          \/ rec[id] # rec'[id] /\ \E v : rec' = [rec EXCEPT ![id] = v]

\* An entry stays in the stream until the consumer takes it into its hand, or
\* the reply that carries it is lost.
LEMMA StreamKept ==
    ASSUME IInv, [Next]_vars, NEW id \in Ids, \E i \in DOMAIN stream : stream[i] = id
    PROVE  (\E i \in DOMAIN stream : stream[i] = id)' \/ (pc' = "seal" /\ cur' = id) \/ Struck(id)
<1>0. stream \in Seq(Ids)
    BY DEF IInv, TypeOK, StreamTypes
<1>1. CASE stream' = stream
    BY <1>1
<1>2. ASSUME NEW e \in Ids, stream' = Append(stream, e)
      PROVE  (\E i \in DOMAIN stream : stream[i] = id)'
    <2>1. \A j \in DOMAIN stream : j \in DOMAIN Append(stream, e) /\ Append(stream, e)[j] = stream[j]
        BY <1>0
    <2> QED
        BY <1>2, <2>1
<1>3. CASE ReadMessage
    <2>1. stream # <<>> /\ stream' = Tail(stream) /\ pc = "read" /\ rec' = rec /\ crashes' = crashes
        BY <1>3 DEF ReadMessage
    <2>2. \A i \in DOMAIN stream : stream[i] = Head(stream)
                                  \/ \E j \in DOMAIN Tail(stream) : Tail(stream)[j] = stream[i]
        BY <1>0, <2>1, SeqFacts
    <2>3. (pc' = "seal" /\ cur' = Head(stream)) \/ faults' = faults + 1
        BY <1>3 DEF ReadMessage, Fault
    <2> QED
        BY <2>1, <2>2, <2>3 DEF Struck
<1> QED
    BY <1>1, <1>2, <1>3 DEF Next, Consume, Recorder, Tick, Crash, EnsureGroup, SweepList, SweepHead,
       SweepDone, SetHashes, ReadIdle, Seal, Create, Ack, PruneDelete, PruneRecord, Record,
       PublishOk, PublishErr, XAdd, FallbackCreate, FallbackErr, vars, redis

\* The message in the consumer's hand gets its row unless a call fails or the
\* process restarts.
LEMMA HandKept ==
    ASSUME IInv, [Next]_vars, pc \in {"seal", "create"}
    PROVE  (pc' \in {"seal", "create"} /\ cur' = cur) \/ HasRow(rows', cur) \/ Struck(cur)
<1>1. CASE Seal
    BY <1>1 DEF Seal, Fault, Struck
<1>2. CASE Create
    <2>1. SealedRow(cur).id = cur
        BY DEF SealedRow
    <2> QED
        BY <1>2, <2>1 DEF Create, Fault, Struck, HasRow
<1>3. CASE Crash
    BY <1>3 DEF Crash, Struck
<1> QED
    BY <1>1, <1>2, <1>3 DEF Next, Consume, Recorder, Tick, EnsureGroup, SweepList, SweepHead,
       SweepDone, SetHashes, ReadMessage, ReadIdle, Ack, PruneDelete, PruneRecord, Record,
       PublishOk, PublishErr, FallbackCreate, FallbackErr, vars, consumer

\* An event that is held stays held, but for the one that was struck.
LEMMA HeldStep ==
    ASSUME IInv, [Next]_vars, NEW id \in Ids, rec[id] # "none", Held(id)
    PROVE  Held(id)' \/ Struck(id)
<1>0. clock \in Nat /\ Retention \in Nat /\ stamp[id].us \in Nat
    BY AuditAssumption DEF IInv, TypeOK, RecorderTypes
<1>1. clock' \in Nat /\ clock' >= clock
    BY <1>0 DEF Next, Consume, Recorder, Tick, Crash, EnsureGroup, SweepList, SweepHead, SweepDone,
       SetHashes, ReadMessage, ReadIdle, Seal, Create, Ack, PruneDelete, PruneRecord, Record,
       PublishOk, PublishErr, FallbackCreate, FallbackErr, vars
<1>2. CASE stamp[id].us + Retention < clock
    BY <1>0, <1>1, <1>2, RecordedStays DEF Held
<1>3. CASE HasRow(rows, id)
    BY <1>3, RowsKept DEF Held
<1>4. CASE \E i \in DOMAIN stream : stream[i] = id
    BY <1>4, StreamKept DEF Held
<1>5. CASE pc \in {"seal", "create"} /\ cur = id
    BY <1>5, HandKept DEF Held
<1> QED
    BY <1>2, <1>3, <1>4, <1>5 DEF Held

\* The end of a recording goroutine leaves its event held or older than the
\* group, unless the call it ended with failed.
LEMMA EndsHeld ==
    ASSUME IInv, [Next]_vars, NEW id \in Ids,
           rec[id] \notin {"done", "lost", "expired"}, rec'[id] \in {"done", "lost", "expired"}
    PROVE  Held(id)' \/ id \in missed' \/ Struck(id)
<1>0. rec \in [Ids -> RecStates] /\ stream \in Seq(Ids)
    BY DEF IInv, TypeOK, RecorderTypes, StreamTypes
<1>1. PublishOk(id) \/ PublishErr(id) \/ FallbackCreate(id) \/ FallbackErr(id) \/ PruneRecord
    BY <1>0 DEF Next, Consume, Recorder, Tick, Crash, EnsureGroup, SweepList, SweepHead,
       SweepDone, SetHashes, ReadMessage, ReadIdle, Seal, Create, Ack, PruneDelete, Record,
       PublishOk, PublishErr, FallbackCreate, FallbackErr, vars
<1>2. CASE PublishOk(id)
    BY <1>0, <1>2, SeqFacts DEF PublishOk, XAdd, Held
<1>3. CASE PublishErr(id) \/ FallbackErr(id)
    BY <1>0, <1>3 DEF PublishErr, FallbackErr, Fault, Struck
<1>4. CASE FallbackCreate(id)
    <2>1. FallbackRow(id).id = id
        BY DEF FallbackRow
    <2>2. HasRow(rows', id)
        BY <1>4, <2>1 DEF FallbackCreate, HasRow
    <2> QED
        BY <2>2 DEF Held
<1>5. CASE PruneRecord
    <2>1. [id |-> id, ts |-> clock, prev |-> NoHash, hash |-> NoHash] \in rows'
        BY <1>0, <1>5 DEF PruneRecord
    <2> QED
        BY <2>1 DEF Held, HasRow
<1> QED
    BY <1>1, <1>2, <1>3, <1>4, <1>5

\* The arithmetic of a count that grows with the budget it is charged to.
LEMMA SumNat == \A a, b \in Nat : a + b \in Nat
OBVIOUS

LEMMA AtMost ==
    \A c, d, m, n \in Nat : c <= m /\ d <= c /\ n >= m => d <= n
OBVIOUS

LEMMA AtMostOneMore ==
    \A c, d, m, n \in Nat : c <= m /\ d <= c + 1 /\ n = m + 1 => d <= n
OBVIOUS

\* Each failed call and each restart costs at most one event.
LEMMA VanishStep ==
    ASSUME IInv, [Next]_vars
    PROVE  NothingVanishes'
<1>0. /\ IsFiniteSet(Vanished) /\ Cardinality(Vanished) <= faults + crashes
      /\ faults \in Nat /\ crashes \in Nat /\ rec \in [Ids -> RecStates]
    BY DEF IInv, TypeOK, RecorderTypes, NothingVanishes
<1>1. missed \subseteq missed'
    BY DEF Next, Consume, Recorder, Tick, Crash, EnsureGroup, SweepList, SweepHead, SweepDone,
       SetHashes, ReadMessage, ReadIdle, Seal, Create, Ack, PruneDelete, PruneRecord, Record,
       PublishOk, PublishErr, FallbackCreate, FallbackErr, XAdd, vars, redis
<1>2. ASSUME NEW id \in Vanished', id \notin Vanished PROVE Struck(id)
    <2>1. id \in Ids /\ id \notin missed' /\ rec'[id] \in {"done", "lost", "expired"} /\ ~Held(id)'
        BY <1>2 DEF Vanished
    <2>2. CASE rec[id] \in {"done", "lost", "expired"}
        <3>1. Held(id)
            BY <1>1, <1>2, <2>1, <2>2 DEF Vanished
        <3> QED
            BY <2>1, <2>2, <3>1, HeldStep
    <2>3. CASE rec[id] \notin {"done", "lost", "expired"}
        BY <2>1, <2>3, EndsHeld
    <2> QED
        BY <2>2, <2>3
<1>3. ASSUME NEW a, NEW b, Struck(a), Struck(b), a \in Ids, b \in Ids PROVE a = b
    <2>1. ASSUME crashes' = crashes + 1 PROVE a = b
        BY <1>0, <1>3, <2>1 DEF Struck
    <2>2. ASSUME crashes' # crashes + 1, rec' = rec PROVE a = b
        BY <1>0, <1>3, <2>2 DEF Struck
    <2>3. ASSUME crashes' # crashes + 1, rec' # rec PROVE a = b
        <3>1. rec[a] # rec'[a] /\ rec[b] # rec'[b]
            BY <1>3, <2>3 DEF Struck
        <3>2. PICK v : rec' = [rec EXCEPT ![a] = v]
            BY <1>3, <2>3 DEF Struck
        <3> QED
            BY <1>0, <1>3, <3>1, <3>2
    <2> QED
        BY <2>1, <2>2, <2>3
<1>4. faults' \in Nat /\ crashes' \in Nat /\ faults' + crashes' >= faults + crashes
    BY <1>0 DEF Next, Consume, Recorder, Tick, Crash, EnsureGroup, SweepList, SweepHead, SweepDone,
       SetHashes, ReadMessage, ReadIdle, Seal, Create, Ack, PruneDelete, PruneRecord, Record,
       PublishOk, PublishErr, FallbackCreate, FallbackErr, Fault, vars
<1>7. Cardinality(Vanished) <= faults + crashes /\ faults + crashes \in Nat /\ faults' + crashes' \in Nat
    <2>1. faults \in Nat /\ crashes \in Nat
        BY <1>0, Zenon
    <2>3. faults + crashes \in Nat
        BY <2>1
    <2>4. faults' \in Nat /\ crashes' \in Nat
        BY <1>4, Zenon
    <2>5. faults' + crashes' \in Nat
        BY <2>4, SumNat, Zenon
    <2>2. faults + crashes \in Nat /\ faults' + crashes' \in Nat
        BY <2>3, <2>5
    <2> QED
        BY <1>0, <2>2, Zenon
<1>5. CASE Vanished' \subseteq Vanished
    <2>1. IsFiniteSet(Vanished') /\ Cardinality(Vanished') <= Cardinality(Vanished)
        BY <1>0, <1>5, FS_Subset
    <2>2. Cardinality(Vanished) \in Nat /\ Cardinality(Vanished') \in Nat
        BY <1>0, <2>1, FS_CardinalityType
    <2>3. Cardinality(Vanished') <= faults' + crashes'
        BY <1>4, <1>7, <2>1, <2>2, AtMost
    <2> QED
        BY <2>1, <2>3, Zenon DEF NothingVanishes
<1>6. CASE ~(Vanished' \subseteq Vanished)
    <2>1. PICK x \in Vanished' : x \notin Vanished
        BY <1>6
    <2>2. Vanished' \subseteq Ids
        BY DEF Vanished
    <2>3. Vanished' \subseteq Vanished \cup {x}
        BY <1>2, <1>3, <2>1, <2>2
    <2>4. Struck(x)
        BY <1>2, <2>1
    <2>5. faults' + crashes' = faults + crashes + 1
        BY <1>0, <2>4 DEF Struck
    <2>6. IsFiniteSet(Vanished \cup {x}) /\ Cardinality(Vanished \cup {x}) = Cardinality(Vanished) + 1
        BY <1>0, <2>1, FS_AddElement
    <2>7. IsFiniteSet(Vanished') /\ Cardinality(Vanished') <= Cardinality(Vanished \cup {x})
        BY <2>3, <2>6, FS_Subset
    <2>8. Cardinality(Vanished) \in Nat /\ Cardinality(Vanished') \in Nat
        BY <1>0, <2>7, FS_CardinalityType
    <2>9. Cardinality(Vanished') <= faults' + crashes'
        BY <1>4, <1>7, <2>5, <2>6, <2>7, <2>8, AtMostOneMore
    <2> QED
        BY <2>7, <2>9, Zenon DEF NothingVanishes
<1> QED
    BY <1>5, <1>6

-----------------------------------------------------------------------------
(* The theorems.                                                           *)

LEMMA NextIInv == IInv /\ [Next]_vars => IInv'
    BY TypeStep, TableStep, StartedStep, ChainStep, VanishStep DEF IInv

\* Every reachable state of the audit log is well typed (TypeOK).
THEOREM TypeCorrect == Spec => []TypeOK
<1>1. IInv => TypeOK
    BY DEF IInv
<1> QED
    BY InitIInv, NextIInv, <1>1, PTL DEF Spec

\* One row per event, whatever the stream and the fallback do twice: the
\* primary key check of Create against the insert of the fallback.
THEOREM OneRow == Spec => []OneRowPerEvent
<1>1. IInv => OneRowPerEvent
    BY DEF IInv
<1> QED
    BY InitIInv, NextIInv, <1>1, PTL DEF Spec

\* `audit verify` rejects an unpruned chain sealed in order only where a
\* sub-microsecond time was lost (Consumer.seal against VerifyChain).
THEOREM ChainVerifies == Spec => []VerifyBreaksOnlyForCause
<1>1. IInv => VerifyBreaksOnlyForCause
    BY DEF IInv, VerifyBreaksOnlyForCause, ChainGood
<1> QED
    BY InitIInv, NextIInv, <1>1, PTL DEF Spec

\* Each failed call and each restart costs the log at most one event: no other
\* interleaving of recorder, consumer and prune leaves an event without a row.
THEOREM NothingVanishesEver == Spec => []NothingVanishes
<1>1. IInv => NothingVanishes
    BY DEF IInv
<1> QED
    BY InitIInv, NextIInv, <1>1, PTL DEF Spec

\* A sealed row is never rewritten, and deleted only by the prune command past
\* the retention limit (SetHashes, Create, PruneOlderThan).
THEOREM AppendOnly == Spec => SealedRowsAppendOnly
<1>1. IInv /\ [Next]_vars =>
        [\A r \in Sealed(rows) : r \in rows' \/ (PruneDelete /\ r.ts < clock - Retention)]_vars
    <2> SUFFICES ASSUME IInv, [Next]_vars, NEW r \in Sealed(rows)
                 PROVE  r \in rows' \/ (PruneDelete /\ r.ts < clock - Retention)
        OBVIOUS
    <2>1. ASSUME NEW s, SealUpdate(s) PROVE r \in rows'
        BY <2>1 DEF SealUpdate, Sealed, Unsealed
    <2>2. CASE PruneDelete
        BY <2>2 DEF PruneDelete, Sealed
    <2> QED
        BY TableSteps, <2>1, <2>2 DEF Insert, SealInsert, Sealed
<1> QED
    BY InitIInv, NextIInv, <1>1, PTL DEF Spec, SealedRowsAppendOnly
==============================================================================
