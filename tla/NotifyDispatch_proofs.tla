------------------------ MODULE NotifyDispatch_proofs ------------------------
(***************************************************************************)
(* Proofs about NotifyDispatch for every set of channels and envelopes and *)
(* every bound.                                                            *)
(*                                                                         *)
(* At most once: an entry above the group's last-delivered id has been     *)
(* handed to nobody, the entries of the consumer's batch have not been     *)
(* begun, and the reclaim loop, which raises delivery counts, never puts   *)
(* an entry back into a batch.  No loss: a read takes the oldest entries,  *)
(* so that none is passed over when last-delivered moves, and an entry     *)
(* leaves the stream only with its acknowledgement or its dead-letter row. *)
(***************************************************************************)
EXTENDS NotifyDispatch, FiniteSetTheorems, WellFoundedInduction, TLAPS

FanStates == {"none", "todo", "sent", "failing", "refusing", "tripping",
              "disabling", "refused", "failed"}

\* The stream: a pending entry has been delivered and is still there, and only
\* a pending entry can be idle.
Queue ==
    /\ added \in 0..MaxEntries /\ env \in [Ids -> AllEnvelopes]
    /\ stream \subseteq 1..added /\ last \in 0..added
    /\ group \in {NoGroup} \union (0..added)
    /\ pel \in [Ids -> 0..MaxRetries] /\ idle \subseteq Ids
    /\ \A i \in Ids : pel[i] > 0 => i \in stream /\ i <= last
    /\ \A i \in idle : pel[i] > 0

\* The consumer: what it holds was delivered, and a fan-out has its entry.
Dispatcher ==
    /\ phase \in Phases
    /\ batch \subseteq 1..last /\ cur \in 0..last
    /\ stage \in {"idle", "resolve", "fan"}
    /\ fan \in [Channels -> FanStates]
    /\ stage = "idle" <=> cur = 0
    /\ stage # "fan" => fan = Idle

\* The reclaim loop: its list has a line for an entry, whose count nobody but
\* itself raises.
Reclaim ==
    /\ listed \subseteq Ids \X (1..MaxRetries)
    /\ moving \in DeadRows \union {None}
    /\ \A p \in listed : p[1] <= last /\ pel[p[1]] <= p[2]
    /\ \A p, q \in listed : p[1] = q[1] => p = q

Operators ==
    /\ dlq \subseteq DeadRows
    /\ row \in [Channels -> {"on", "off", "gone"}]
    /\ failures \in [Channels -> 0..BreakerLimit]
    /\ patch \subseteq Channels \X {"on", "off"}
    /\ patches \in 0..MaxPatches /\ faults \in 0..MaxFaults
    /\ replay \in [Admins -> SUBSET DeadRows]

\* What has been done with an entry: nothing before it is taken from the batch,
\* and no channel has it while the fan-out still has to send it there.
History ==
    /\ tried \in [Ids -> 0..1] /\ sent \in [Ids \X Channels -> 0..1]
    /\ \A i \in Ids : i > last \/ i \in batch => tried[i] = 0
    /\ \A i \in Ids : tried[i] = 0 => \A c \in Channels : sent[<<i, c>>] = 0
    /\ stage # "idle" => tried[cur] = 1
    /\ stage = "resolve" => \A c \in Channels : sent[<<cur, c>>] = 0
    /\ \A c \in Channels : fan[c] = "todo" => sent[<<cur, c>>] = 0

IInv == Queue /\ Dispatcher /\ Reclaim /\ Operators /\ History /\ Accounted

-----------------------------------------------------------------------------
(* What a read hands out.                                                  *)

\* A set of bounded numbers has its maximum.
LEMMA MaxOfBounded ==
    ASSUME NEW n \in Nat, NEW S, S \subseteq 0..n, S # {}
    PROVE  Max(S) \in S /\ \A y \in S : y <= Max(S)
<1> DEFINE T == {n - x : x \in S}
           R == OpToRel(<, Nat)
<1>1. T \subseteq Nat /\ T # {}
    <2>1. \A x \in S : n - x \in Nat
        OBVIOUS
    <2>2. PICK x \in S : TRUE
        OBVIOUS
    <2>3. n - x \in T
        BY <2>2
    <2> QED
        BY <2>1, <2>3
<1>2. PICK t \in T : \A u \in T : ~(<<u, t>> \in R)
    <2> HIDE DEF T, R
    <2> QED
        BY <1>1, NatLessThanWellFounded, WFMin DEF R
<1>3. \A u \in T : ~(u < t)
    BY <1>1, <1>2 DEF OpToRel
<1>4. PICK x \in S : t = n - x
    BY <1>2
<1>5. \A y \in S : x >= y
    BY <1>3, <1>4
<1> QED
    BY <1>4, <1>5 DEF Max

\* The oldest entries are a first part of the waiting ones: none below a chosen
\* one is passed over.
LEMMA OldestFirst ==
    ASSUME NEW n \in Nat, NEW S, S \subseteq 1..n, NEW count \in Nat,
           NEW m \in Oldest(S, count), NEW i \in S, i <= m
    PROVE  i \in Oldest(S, count)
<1> DEFINE A == {k \in S : k < i}
           B == {k \in S : k < m}
<1>1. IsFiniteSet(1..n)
    BY FS_Interval
<1>2. IsFiniteSet(B) /\ A \subseteq B
    <2>1. m \in S /\ \A k \in S : k \in Int
        BY DEF Oldest
    <2>2. ASSUME NEW k \in A PROVE k \in B
        <3>1. k \in S /\ k < i
            OBVIOUS
        <3>2. k < m
            BY <2>1, <3>1
        <3> QED
            BY <3>1, <3>2
    <2>3. B \in SUBSET (1..n)
        OBVIOUS
    <2> QED
        BY <1>1, <2>2, <2>3, FS_Subset
<1>3. Cardinality(A) <= Cardinality(B) /\ Cardinality(A) \in Nat /\ Cardinality(B) \in Nat
    BY <1>2, FS_Subset, FS_CardinalityType
<1>4. Cardinality(B) < count
    BY DEF Oldest
<1>5. Cardinality(A) < count
    BY <1>3, <1>4
<1> QED
    BY <1>5 DEF Oldest

\* A read moves last-delivered to the newest entry it hands out, and everything
\* that was waiting up to there is handed out.
LEMMA ReadTakesAll ==
    ASSUME Queue, Oldest(Fresh, BatchSize) # {}
    PROVE  LET got == Oldest(Fresh, BatchSize)
               top == Max({last} \union got)
           IN  /\ got \subseteq stream /\ \A i \in got : i > last /\ i <= top
               /\ top \in last..added
               /\ \A i \in Fresh : i \in got \/ i > top
<1> DEFINE got == Oldest(Fresh, BatchSize)
           top == Max({last} \union got)
<1>0. added \in Nat /\ last \in 0..added
    BY ConstantsAssumption DEF Queue
<1>1. /\ Fresh \subseteq 1..added /\ got \subseteq Fresh
      /\ \A i \in Fresh : i \in stream /\ i > last
    BY DEF Queue, Fresh, Oldest
<1>2. top \in {last} \union got /\ \A y \in {last} \union got : y <= top
    <2> HIDE DEF got
    <2>1. {last} \union got \subseteq 0..added
        BY <1>0, <1>1
    <2> QED
        BY <1>0, <2>1, MaxOfBounded
<1>3. top \in got
    <2>1. PICK i \in got : TRUE
        OBVIOUS
    <2> HIDE DEF top, got
    <2>2. i \in Int /\ i > last /\ i <= top /\ last \in Int
        BY <1>0, <1>1, <1>2
    <2>3. top # last
        BY <2>2
    <2> QED
        BY <1>2, <2>3
<1>4. ASSUME NEW i \in Fresh, i <= top PROVE i \in got
    <2> HIDE DEF top
    <2> QED
        BY <1>0, <1>1, <1>3, <1>4, OldestFirst, ConstantsAssumption
<1> HIDE DEF top
<1>5. top \in last..added /\ \A i \in Fresh : i \in got \/ i > top
    BY <1>0, <1>1, <1>2, <1>3, <1>4
<1>6. got \subseteq stream /\ \A i \in got : i > last /\ i <= top
    BY <1>1, <1>2
<1> QED
    BY <1>5, <1>6 DEF top

-----------------------------------------------------------------------------
(* Steps by what they do to the queue.                                     *)

\* What the rest of the dispatcher relies on when the queue moves: ids are
\* handed out once, counts do not grow by themselves, nothing gets lost.
QueueStep ==
    /\ Queue'
    /\ last' >= last /\ added' >= added
    /\ Accounted'

LEMMA QueueUnchanged ==
    ASSUME IInv, UNCHANGED queueVars, done \subseteq done', refused \subseteq refused', dead \subseteq dead'
    PROVE  QueueStep
BY DEF IInv, Queue, Accounted, Fresh, QueueStep, queueVars

LEMMA AckStep ==
    ASSUME IInv, NEW i \in Ids, AckAndDelete(i), i \in done' \union refused' \union dead',
           done \subseteq done', refused \subseteq refused', dead \subseteq dead'
    PROVE  QueueStep /\ UNCHANGED <<last, added>> /\ \A k \in Ids : pel'[k] <= pel[k]
<1>0. /\ pel \in [Ids -> 0..MaxRetries] /\ 0 \in 0..MaxRetries
      /\ \A k \in Ids : pel[k] \in Nat
    BY ConstantsAssumption DEF IInv, Queue
<1>1. /\ pel' \in [Ids -> 0..MaxRetries] /\ pel'[i] = 0
      /\ \A k \in Ids \ {i} : pel'[k] = pel[k]
      /\ stream' = stream \ {i} /\ idle' = idle \ {i}
      /\ UNCHANGED <<added, env, group, last>>
    BY <1>0 DEF AckAndDelete
<1>2. Queue'
    <2>1. \A k \in Ids : pel'[k] > 0 => k \in stream' /\ k <= last'
        BY <1>0, <1>1 DEF IInv, Queue
    <2>2. \A k \in idle' : pel'[k] > 0
        BY <1>0, <1>1 DEF IInv, Queue
    <2> QED
        BY <1>1, <2>1, <2>2 DEF IInv, Queue
<1>3. Accounted'
    <2> SUFFICES ASSUME NEW k \in 1..added, k # i
                 PROVE  k \in Fresh' \/ (k \in stream' /\ pel'[k] > 0) \/ k \in done' \union refused' \/ k \in dead' \/ k <= group'
        BY <1>1 DEF Accounted
    <2>1. k \in Ids
        BY ConstantsAssumption DEF IInv, Queue, Ids
    <2> QED
        BY <1>1, <2>1 DEF IInv, Accounted, Fresh
<1>4. \A k \in Ids : pel'[k] <= pel[k]
    BY <1>0, <1>1
<1> QED
    BY <1>1, <1>2, <1>3, <1>4 DEF QueueStep, IInv, Queue

LEMMA XAddStep ==
    ASSUME IInv, NEW e \in AllEnvelopes, XAdd(e), UNCHANGED <<group, last, pel, idle, done, refused, dead>>
    PROVE  QueueStep
<1>0. /\ added \in Nat /\ MaxEntries \in Nat /\ added < MaxEntries /\ added' = added + 1
      /\ added + 1 \in Ids /\ last \in 0..added
    BY ConstantsAssumption DEF IInv, Queue, XAdd, Ids
<1>1. /\ env' \in [Ids -> AllEnvelopes] /\ stream' = stream \union {added + 1}
    BY DEF IInv, Queue, XAdd
<1>2. Queue'
    BY <1>0, <1>1 DEF IInv, Queue
<1>3. Accounted'
    <2> SUFFICES ASSUME NEW k \in 1..(added + 1)
                 PROVE  k \in Fresh' \/ (k \in stream' /\ pel'[k] > 0) \/ k \in done' \union refused' \/ k \in dead' \/ k <= group'
        BY <1>0 DEF Accounted
    <2>1. CASE k = added + 1
        BY <1>0, <1>1, <2>1 DEF Fresh
    <2>2. CASE k # added + 1
        <3>1. k \in 1..added
            BY <1>0, <2>2
        <3> QED
            BY <1>1, <3>1 DEF IInv, Accounted, Fresh
    <2> QED
        BY <2>1, <2>2
<1> QED
    BY <1>0, <1>2, <1>3 DEF QueueStep

LEMMA ReadStep ==
    ASSUME IInv, Read
    PROVE  /\ QueueStep
           /\ batch' \subseteq {i \in 1..last' : i > last}
           /\ \A k \in Ids : k <= last => pel'[k] = pel[k]
<1> DEFINE got == Oldest(Fresh, BatchSize)
<1>1. /\ got # {} /\ last' = Max({last} \union got)
      /\ pel' = [i \in Ids |-> IF i \in got THEN pel[i] + 1 ELSE pel[i]]
      /\ idle' = idle \ got /\ batch' \in {got, {}}
      /\ UNCHANGED <<added, env, stream, group, done, refused, dead>>
    BY DEF Read, Deliverable, Try, historyVars
<1>2. /\ got \subseteq stream /\ \A i \in got : i > last /\ i <= last'
      /\ last' \in last..added
      /\ \A i \in Fresh : i \in got \/ i > last'
    BY <1>1, ReadTakesAll DEF IInv
<1> HIDE DEF got
<1>3. /\ added \in 0..MaxEntries /\ last \in 0..added /\ stream \subseteq 1..added
      /\ MaxRetries \in Nat \ {0} /\ pel \in [Ids -> 0..MaxRetries]
      /\ MaxEntries \in Nat /\ stream \subseteq Ids
      /\ \A i \in Ids : pel[i] > 0 => i \in stream /\ i <= last
    BY ConstantsAssumption DEF IInv, Queue, Ids
<1>4. \A i \in got : i \in Ids /\ pel[i] = 0 /\ pel'[i] = 1
    BY <1>1, <1>2, <1>3
<1>5. /\ \A i \in Ids \ got : pel'[i] = pel[i]
      /\ pel' \in [Ids -> 0..MaxRetries]
    BY <1>1, <1>3, <1>4
<1>6. Queue'
    <2>1. \A i \in Ids : pel'[i] > 0 => i \in stream' /\ i <= last'
        <3> SUFFICES ASSUME NEW i \in Ids, pel'[i] > 0
                     PROVE  i \in stream' /\ i <= last'
            OBVIOUS
        <3>1. CASE i \in got
            BY <1>1, <1>2, <3>1
        <3>2. CASE i \notin got
            <4>1. i \in stream /\ i <= last /\ i \in Int /\ last' \in Int /\ last <= last'
                BY <1>2, <1>3, <1>5, <3>2 DEF Ids
            <4> QED
                BY <1>1, <1>3, <4>1
        <3> QED
            BY <3>1, <3>2
    <2>2. \A i \in idle' : pel'[i] > 0
        BY <1>1, <1>5 DEF IInv, Queue
    <2> QED
        BY <1>1, <1>2, <1>3, <1>5, <2>1, <2>2 DEF IInv, Queue
<1>7. Accounted'
    <2> SUFFICES ASSUME NEW k \in 1..added
                 PROVE  k \in Fresh' \/ (k \in stream' /\ pel'[k] > 0) \/ k \in done' \union refused' \/ k \in dead' \/ k <= group'
        BY <1>1 DEF Accounted
    <2>1. CASE k \in got
        BY <1>1, <1>2, <1>4, <2>1
    <2>2. CASE k \notin got
        <3>1. k \in Ids /\ pel'[k] = pel[k]
            BY <1>3, <1>5, <2>2 DEF Ids
        <3>2. k \in Fresh => k \in Fresh'
            BY <1>1, <1>2, <2>2 DEF Fresh
        <3> QED
            BY <1>1, <3>1, <3>2 DEF IInv, Accounted
    <2> QED
        BY <2>1, <2>2
<1>8. batch' \subseteq {i \in 1..last' : i > last}
    BY <1>1, <1>2, <1>3
<1>9. \A k \in Ids : k <= last => pel'[k] = pel[k]
    BY <1>2, <1>3, <1>5 DEF Ids
<1> QED
    BY <1>1, <1>2, <1>3, <1>6, <1>7, <1>8, <1>9 DEF QueueStep

LEMMA TimePassesStep ==
    ASSUME IInv, NEW i \in Ids, TimePasses(i)
    PROVE  QueueStep
<1>1. Queue'
    BY DEF IInv, Queue, TimePasses
<1>2. Accounted' /\ UNCHANGED <<last, added>>
    BY DEF IInv, Accounted, Fresh, TimePasses, historyVars
<1> QED
    BY <1>1, <1>2 DEF QueueStep, IInv, Queue

LEMMA ClaimStep ==
    ASSUME IInv, NEW p \in listed, Claim(p)
    PROVE  QueueStep /\ \A k \in Ids \ {p[1]} : pel'[k] = pel[k]
<1>0. /\ p[1] \in Ids /\ p[2] \in 1..MaxRetries /\ pel[p[1]] <= p[2] /\ p[2] < MaxRetries
      /\ MaxRetries \in Nat /\ pel[p[1]] \in Nat
    BY ConstantsAssumption DEF IInv, Reclaim, Claim, Exhausted, Queue
<1>1. /\ pel' \in [Ids -> 0..MaxRetries]
      /\ \A k \in Ids \ {p[1]} : pel'[k] = pel[k]
      /\ pel'[p[1]] > pel[p[1]] => p[1] \in idle
      /\ pel'[p[1]] >= pel[p[1]]
    BY <1>0 DEF IInv, Queue, Claim
<1>2. UNCHANGED <<added, env, stream, group, last, done, refused, dead>> /\ idle' \subseteq idle
    BY DEF Claim, historyVars
<1>3. \A k \in Ids : pel[k] \in Nat /\ pel'[k] \in Nat
    BY <1>0, <1>1 DEF IInv, Queue
<1>4. Queue'
    BY <1>0, <1>1, <1>2, <1>3 DEF IInv, Queue
<1>5. Accounted'
    <2> SUFFICES ASSUME NEW k \in 1..added
                 PROVE  k \in Fresh' \/ (k \in stream' /\ pel'[k] > 0) \/ k \in done' \union refused' \/ k \in dead' \/ k <= group'
        BY <1>2 DEF Accounted
    <2>1. k \in Ids
        BY ConstantsAssumption DEF IInv, Queue, Ids
    <2> QED
        BY <1>0, <1>1, <1>2, <1>3, <2>1 DEF IInv, Accounted, Fresh
<1> QED
    BY <1>1, <1>2, <1>4, <1>5 DEF QueueStep, IInv, Queue

-----------------------------------------------------------------------------
(* The parts that do not move.                                             *)

LEMMA DispatcherUnchanged ==
    ASSUME IInv, Queue', last' >= last, UNCHANGED <<cur, stage, fan>>, batch' \subseteq batch,
           phase' \in Phases
    PROVE  Dispatcher'
<1>1. last \in Nat /\ last' \in Nat
    BY ConstantsAssumption DEF IInv, Queue
<1> QED
    BY <1>1 DEF IInv, Dispatcher

LEMMA ReclaimUnchanged ==
    ASSUME IInv, Queue', last' >= last, UNCHANGED moving, listed' \subseteq listed,
           \A p \in listed' : pel'[p[1]] <= pel[p[1]]
    PROVE  Reclaim'
<1>1. last \in Nat /\ last' \in Nat
    BY ConstantsAssumption DEF IInv, Queue
<1>2. ASSUME NEW p \in listed' PROVE p[1] <= last' /\ pel'[p[1]] <= p[2]
    <2>1. p \in listed /\ p[1] \in Ids /\ p[2] \in Nat /\ pel[p[1]] \in Nat /\ pel'[p[1]] \in Nat
        BY ConstantsAssumption DEF IInv, Reclaim, Queue
    <2> QED
        BY <1>1, <2>1 DEF IInv, Reclaim, Ids
<1> QED
    BY <1>2 DEF IInv, Reclaim

LEMMA HistoryUnchanged ==
    ASSUME IInv, Queue', last' >= last, UNCHANGED <<tried, sent, cur, stage>>,
           batch' \subseteq batch,
           \A c \in Channels : fan'[c] = "todo" => fan[c] = "todo"
    PROVE  History'
<1>1. last \in Nat /\ last' \in Nat
    BY ConstantsAssumption DEF IInv, Queue
<1>2. \A i \in Ids : i > last' => i > last
    BY <1>1 DEF Ids
<1> QED
    BY <1>2 DEF IInv, History

LEMMA OperatorsUnchanged ==
    ASSUME IInv, UNCHANGED <<dlq, row, failures, patch, patches, replay>>,
           UNCHANGED faults \/ Fault
    PROVE  Operators'
<1>1. faults' \in 0..MaxFaults
    BY ConstantsAssumption DEF IInv, Operators, Fault
<1> QED
    BY <1>1 DEF IInv, Operators

LEMMA FaultTyped ==
    ASSUME IInv, UNCHANGED faults \/ Fault
    PROVE  faults' \in 0..MaxFaults
BY ConstantsAssumption DEF IInv, Operators, Fault

\* An entry goes to the dead-letter stream with its acknowledgement.
LEMMA ToDLQStep ==
    ASSUME IInv, NEW d \in DeadRows, UNCHANGED <<done, refused>>,
           Try(ToDLQ(d), UNCHANGED <<queueVars, dlq, dead>>)
    PROVE  /\ QueueStep /\ UNCHANGED <<last, added>> /\ \A k \in Ids : pel'[k] <= pel[k]
           /\ dlq' \subseteq DeadRows /\ faults' \in 0..MaxFaults
<1>1. d.id \in Ids /\ dlq \subseteq DeadRows
    BY DEF DeadRows, IInv, Operators
<1>2. CASE ToDLQ(d) /\ UNCHANGED faults
    BY <1>1, <1>2, AckStep, FaultTyped DEF ToDLQ
<1>3. CASE UNCHANGED <<queueVars, dlq, dead>> /\ Fault
    <2>1. \A k \in Ids : pel[k] \in Nat
        BY ConstantsAssumption DEF IInv, Queue
    <2> QED
        BY <1>1, <1>3, <2>1, QueueUnchanged, FaultTyped DEF queueVars
<1> QED
    BY <1>2, <1>3 DEF Try

\* An entry handled to the end is acknowledged, or stays pending.
LEMMA TryAckStep ==
    ASSUME IInv, NEW i \in Ids, i \in done' \union refused',
           done \subseteq done', refused \subseteq refused', UNCHANGED dead,
           Try(AckAndDelete(i), UNCHANGED queueVars)
    PROVE  /\ QueueStep /\ UNCHANGED <<last, added>> /\ \A k \in Ids : pel'[k] <= pel[k]
           /\ UNCHANGED faults \/ Fault
<1>1. CASE AckAndDelete(i) /\ UNCHANGED faults
    BY <1>1, AckStep
<1>2. CASE UNCHANGED queueVars /\ Fault
    <2>1. \A k \in Ids : pel[k] \in Nat
        BY ConstantsAssumption DEF IInv, Queue
    <2> QED
        BY <1>2, <2>1, QueueUnchanged DEF queueVars
<1> QED
    BY <1>1, <1>2 DEF Try

LEMMA PhaseTyped == IInv /\ UNCHANGED phase => phase' \in Phases
BY DEF IInv, Dispatcher

\* The list of the reclaim loop while the queue's counts do not grow.
LEMMA ListedIds == IInv => \A p \in listed : p[1] \in Ids
BY DEF IInv, Reclaim

\* The steps that leave the queue, its counts and the history alone.
LEMMA QuietQueue ==
    ASSUME IInv, UNCHANGED queueVars
    PROVE  /\ last' >= last /\ last \in Nat /\ \A k \in Ids : pel'[k] <= pel[k]
           /\ Queue'
BY ConstantsAssumption DEF IInv, Queue, queueVars

-----------------------------------------------------------------------------
(* The consumer.                                                           *)

LEMMA PublishIInv == IInv /\ Publish => IInv'
<1> SUFFICES ASSUME IInv, Publish PROVE IInv'
    OBVIOUS
<1>1. PICK e \in Envelopes : XAdd(e)
    BY DEF Publish
<1>2. /\ UNCHANGED <<group, last, pel, idle, dlq, phase, batch, cur, stage, fan, listed, moving, row,
                     failures, patch, patches, replay, faults, tried, sent, done, refused, dead>>
      /\ e \in AllEnvelopes
    BY ConstantsAssumption DEF Publish, consumerVars, reclaimVars, channelVars, adminVars, historyVars
<1>3. QueueStep
    BY <1>1, <1>2, XAddStep
<1>4. Queue' /\ Accounted' /\ last' >= last /\ \A k \in Ids : pel'[k] <= pel[k]
    BY <1>2, <1>3, ConstantsAssumption DEF QueueStep, IInv, Queue
<1>5. Dispatcher' /\ Reclaim' /\ History' /\ Operators'
    BY <1>2, <1>4, PhaseTyped, ListedIds, DispatcherUnchanged, ReclaimUnchanged, HistoryUnchanged,
       OperatorsUnchanged
<1> QED
    BY <1>4, <1>5 DEF IInv

LEMMA TimePassesIInv ==
    ASSUME IInv, NEW i \in Ids, TimePasses(i)
    PROVE  IInv'
<1>1. UNCHANGED <<last, pel, dlq, phase, batch, cur, stage, fan, listed, moving, row,
                  failures, patch, patches, replay, faults, tried, sent, done, refused, dead>>
    BY DEF TimePasses, consumerVars, reclaimVars, channelVars, adminVars, historyVars
<1>2. Queue' /\ Accounted' /\ last' >= last /\ \A k \in Ids : pel'[k] <= pel[k]
    BY <1>1, TimePassesStep, ConstantsAssumption DEF QueueStep, IInv, Queue
<1>3. Dispatcher' /\ Reclaim' /\ History' /\ Operators'
    BY <1>1, <1>2, PhaseTyped, ListedIds, DispatcherUnchanged, ReclaimUnchanged, HistoryUnchanged,
       OperatorsUnchanged
<1> QED
    BY <1>2, <1>3 DEF IInv

LEMMA ReadIInv == IInv /\ Read => IInv'
<1> SUFFICES ASSUME IInv, Read PROVE IInv'
    OBVIOUS
<1>1. /\ batch = {} /\ cur = 0
      /\ UNCHANGED <<dlq, phase, cur, stage, fan, listed, moving, row, failures, patch, patches,
                     replay, tried, sent>>
      /\ UNCHANGED faults \/ Fault
    BY DEF Read, Try, reclaimVars, channelVars, adminVars, historyVars
<1>2. /\ Queue' /\ Accounted' /\ last' >= last
      /\ batch' \subseteq {i \in 1..last' : i > last}
      /\ \A k \in Ids : k <= last => pel'[k] = pel[k]
    BY ReadStep DEF QueueStep
<1>3. last \in Nat /\ last' \in Nat
    BY <1>2, ConstantsAssumption DEF IInv, Queue
<1>4. Dispatcher'
    BY <1>1, <1>2, <1>3 DEF IInv, Dispatcher
<1>5. Reclaim'
    <2>1. \A p \in listed' : pel'[p[1]] <= pel[p[1]]
        <3> SUFFICES ASSUME NEW p \in listed PROVE pel'[p[1]] <= pel[p[1]]
            BY <1>1
        <3>1. p[1] \in Ids /\ p[1] <= last /\ pel[p[1]] \in Nat
            BY ConstantsAssumption DEF IInv, Reclaim, Queue
        <3> QED
            BY <1>2, <3>1
    <2> QED
        BY <1>1, <1>2, <2>1, ReclaimUnchanged
<1>6. History'
    <2>1. \A i \in Ids : i > last' \/ i \in batch' => i > last
        BY <1>2, <1>3 DEF Ids
    <2> QED
        BY <1>1, <2>1 DEF IInv, History
<1>7. Operators'
    BY <1>1, OperatorsUnchanged
<1> QED
    BY <1>2, <1>4, <1>5, <1>6, <1>7 DEF IInv

\* Start: a group created now lies behind every entry.  The consumer loop may
\* end; what it held it had finished.
LEMMA StartIInv == IInv /\ (EnsureGroup \/ ReadGivesUp) => IInv'
<1> SUFFICES ASSUME IInv, EnsureGroup \/ ReadGivesUp PROVE IInv'
    OBVIOUS
<1>1. /\ UNCHANGED <<added, env, stream, pel, idle, dlq, batch, cur, stage, fan, listed, moving,
                     row, failures, patch, patches, replay, tried, sent, done, refused, dead>>
      /\ phase' \in Phases
      /\ UNCHANGED faults \/ Fault
    BY DEF EnsureGroup, ReadGivesUp, Phases, queueVars, reclaimVars, channelVars, adminVars, historyVars
<1>2. UNCHANGED <<group, last>> \/ (group' = added /\ last' = added)
    BY DEF EnsureGroup, ReadGivesUp, queueVars
<1>3. added \in Nat /\ last \in 0..added /\ \A k \in Ids : pel[k] \in Nat
    BY ConstantsAssumption DEF IInv, Queue
<1>4. last' \in 0..added /\ last' >= last
    BY <1>2, <1>3
<1>5. Queue'
    <2>1. group' \in {NoGroup} \union (0..added)
        BY <1>2, <1>3 DEF IInv, Queue
    <2>2. \A k \in Ids : pel[k] > 0 => k <= last'
        BY <1>3, <1>4 DEF IInv, Queue, Ids
    <2> QED
        BY <1>1, <1>4, <2>1, <2>2 DEF IInv, Queue
<1>6. Accounted'
    <2>1. CASE UNCHANGED <<group, last>>
        BY <1>1, <2>1 DEF IInv, Accounted, Fresh
    <2>2. CASE group' = added
        BY <1>1, <1>3, <2>2 DEF Accounted
    <2> QED
        BY <1>2, <2>1, <2>2
<1>7. \A k \in Ids : pel'[k] <= pel[k]
    BY <1>1, <1>3
<1>9. Dispatcher' /\ History'
    BY <1>1, <1>4, <1>5, DispatcherUnchanged, HistoryUnchanged
<1>10. Reclaim'
    <2>1. listed' = listed /\ moving' = moving
        BY <1>1
    <2>2. \A p \in listed' : pel'[p[1]] <= pel[p[1]]
        BY <1>7, <2>1, ListedIds
    <2> QED
        BY <1>4, <1>5, <2>1, <2>2, ReclaimUnchanged
<1>8. Dispatcher' /\ Reclaim' /\ History' /\ Operators'
    BY <1>1, <1>9, <1>10, OperatorsUnchanged
<1> QED
    BY <1>5, <1>6, <1>8 DEF IInv

LEMMA ProcessIInv ==
    ASSUME IInv, NEW i \in Ids, ProcessMalformed(i) \/ ProcessMuted(i)
    PROVE  IInv'
<1>1. /\ batch' \subseteq batch
      /\ UNCHANGED <<phase, cur, stage, fan, listed, moving, row, failures, patch, patches, replay,
                     tried, sent>>
    BY DEF ProcessMalformed, ProcessMuted, reclaimVars, channelVars, adminVars
<1>2. /\ Queue' /\ Accounted' /\ UNCHANGED last /\ \A k \in Ids : pel'[k] <= pel[k]
      /\ dlq' \subseteq DeadRows /\ faults' \in 0..MaxFaults
    <2>1. CASE ProcessMalformed(i)
        <3> DEFINE d == [id |-> i, reason |-> "parse_error", payload |-> "kept"]
        <3>1. d \in DeadRows /\ UNCHANGED <<done, refused>> /\ Try(ToDLQ(d), UNCHANGED <<queueVars, dlq, dead>>)
            BY <2>1 DEF ProcessMalformed, DeadRows
        <3> HIDE DEF d
        <3> QED
            BY <3>1, ToDLQStep DEF QueueStep
    <2>2. CASE ProcessMuted(i)
        BY <2>2, TryAckStep, FaultTyped DEF ProcessMuted, QueueStep, IInv, Operators
    <2> QED
        BY <2>1, <2>2
<1>3. last' >= last
    BY <1>2, ConstantsAssumption DEF IInv, Queue
<1>4. Dispatcher' /\ Reclaim' /\ History'
    BY <1>1, <1>2, <1>3, PhaseTyped, ListedIds, DispatcherUnchanged, ReclaimUnchanged, HistoryUnchanged
<1>5. Operators'
    BY <1>1, <1>2 DEF IInv, Operators
<1> QED
    BY <1>2, <1>4, <1>5 DEF IInv

LEMMA PassIInv ==
    ASSUME IInv, NEW i \in Ids, Pass(i)
    PROVE  IInv'
<1>1. /\ i \in batch /\ cur = 0 /\ batch' = batch \ {i} /\ cur' = i /\ stage' = "resolve"
      /\ tried' = [tried EXCEPT ![i] = @ + 1] /\ UNCHANGED queueVars
      /\ UNCHANGED <<dlq, phase, fan, listed, moving, row, failures, patch, patches, replay, sent, done,
                     refused, dead>>
      /\ UNCHANGED faults \/ Fault
    BY DEF Pass, Taken, reclaimVars, channelVars, adminVars
<1>2. QueueStep /\ last' >= last /\ (\A k \in Ids : pel'[k] <= pel[k]) /\ UNCHANGED last
    BY <1>1, QueueUnchanged, QuietQueue DEF queueVars
<1>3. Reclaim' /\ Operators'
    BY <1>1, <1>2, ListedIds, ReclaimUnchanged, OperatorsUnchanged DEF QueueStep
<1>4. Dispatcher'
    <2>1. i \in 1..last /\ stage # "fan" /\ last \in Nat
        BY <1>1, <1>2, QuietQueue DEF IInv, Dispatcher
    <2> QED
        BY <1>1, <1>2, <2>1 DEF IInv, Dispatcher
<1>5. History'
    <2>0. tried[i] = 0 /\ stage # "fan"
        BY <1>1 DEF IInv, History, Dispatcher
    <2>1. tried[i] = 0 /\ tried' = [tried EXCEPT ![i] = 1] /\ stage # "fan"
        BY <1>1, <2>0 DEF IInv, History
    <2>2. \A c \in Channels : sent[<<i, c>>] = 0 /\ fan[c] = "none"
        BY <2>1 DEF IInv, History, Dispatcher, Idle
    <2>3. i <= last /\ last \in Nat
        BY <1>1, <1>2, QuietQueue DEF IInv, Dispatcher
    <2>4. tried' \in [Ids -> 0..1] /\ tried'[i] = 1 /\ \A k \in Ids \ {i} : tried'[k] = tried[k]
        BY <2>1 DEF IInv, History
    <2>5. \A k \in Ids : k > last' \/ k \in batch' => k # i /\ (k > last \/ k \in batch)
        BY <1>1, <1>2, <2>3 DEF Ids
    <2> QED
        BY <1>1, <2>2, <2>4, <2>5 DEF IInv, History
<1> QED
    BY <1>2, <1>3, <1>4, <1>5 DEF IInv, QueueStep

\* The entry is let go: the consumer is idle again.
LEMMA LetGo ==
    ASSUME IInv, Queue', UNCHANGED <<last, phase, batch, tried, sent>>, cur' = 0, stage' = "idle", fan' = Idle
    PROVE  Dispatcher' /\ History'
<1>1. last \in Nat
    BY ConstantsAssumption DEF IInv, Queue
<1>2. fan' \in [Channels -> FanStates] /\ \A c \in Channels : fan'[c] = "none"
    BY DEF Idle, FanStates
<1>3. Dispatcher'
    BY <1>1, <1>2 DEF IInv, Dispatcher, Idle
<1>4. History'
    BY <1>2 DEF IInv, History
<1> QED
    BY <1>3, <1>4

LEMMA EndIInv == IInv /\ (ResolveFails \/ NoTargets \/ FanOutEnds) => IInv'
<1> SUFFICES ASSUME IInv, ResolveFails \/ NoTargets \/ FanOutEnds PROVE IInv'
    OBVIOUS
<1>1. /\ stage # "idle" /\ cur' = 0 /\ stage' = "idle"
      /\ UNCHANGED <<dlq, phase, batch, listed, moving, row, failures, patch, patches, replay, tried, sent>>
    BY DEF ResolveFails, NoTargets, FanOutEnds, reclaimVars, channelVars, adminVars, historyVars
<1>2. fan' = Idle
    BY DEF ResolveFails, NoTargets, FanOutEnds, IInv, Dispatcher
<1>3. cur \in Ids
    BY <1>1, ConstantsAssumption DEF IInv, Dispatcher, Queue, Ids
<1>4. /\ Queue' /\ Accounted' /\ UNCHANGED last /\ \A k \in Ids : pel'[k] <= pel[k]
      /\ UNCHANGED faults \/ Fault
    <2>1. CASE ResolveFails
        BY <2>1, QueueUnchanged, QuietQueue DEF ResolveFails, QueueStep, queueVars, historyVars
    <2>2. CASE NoTargets
        BY <1>3, <2>2, TryAckStep DEF NoTargets, QueueStep
    <2>3. CASE FanOutEnds /\ Complete
        <3>1. /\ cur \in done' \union refused' /\ done \subseteq done' /\ refused \subseteq refused'
              /\ UNCHANGED dead /\ Try(AckAndDelete(cur), UNCHANGED queueVars)
            BY <2>3 DEF FanOutEnds, Complete
        <3> QED
            BY <1>3, <3>1, TryAckStep DEF QueueStep
    <2>4. CASE FanOutEnds /\ ~Complete
        <3>1. done \subseteq done' /\ refused \subseteq refused' /\ UNCHANGED <<dead, queueVars, faults>>
            BY <2>4 DEF FanOutEnds, Complete
        <3> QED
            BY <3>1, QueueUnchanged, QuietQueue DEF QueueStep, queueVars
    <2> QED
        BY <2>1, <2>2, <2>3, <2>4
<1>5. last' >= last
    BY <1>4, ConstantsAssumption DEF IInv, Queue
<1>6. Dispatcher' /\ History'
    BY <1>1, <1>2, <1>4, LetGo
<1>7. Reclaim' /\ Operators'
    BY <1>1, <1>4, <1>5, ListedIds, ReclaimUnchanged, OperatorsUnchanged
<1> QED
    BY <1>4, <1>6, <1>7 DEF IInv

LEMMA FanOutIInv == IInv /\ FanOut => IInv'
<1> SUFFICES ASSUME IInv, FanOut PROVE IInv'
    OBVIOUS
<1>1. /\ stage = "resolve" /\ stage' = "fan" /\ UNCHANGED queueVars
      /\ fan' = [c \in Channels |-> IF c \in resolveTargets(cur) THEN "todo" ELSE "none"]
      /\ UNCHANGED <<dlq, phase, batch, cur, listed, moving, row, failures, patch, patches, replay,
                     faults, tried, sent, done, refused, dead>>
    BY DEF FanOut, reclaimVars, channelVars, adminVars, historyVars
<1>2. QueueStep /\ last' >= last /\ (\A k \in Ids : pel'[k] <= pel[k]) /\ UNCHANGED last
    BY <1>1, QueueUnchanged, QuietQueue DEF queueVars
<1>3. Reclaim' /\ Operators'
    BY <1>1, <1>2, ListedIds, ReclaimUnchanged, OperatorsUnchanged DEF QueueStep
<1>4. Dispatcher'
    BY <1>1, <1>2 DEF IInv, Dispatcher, FanStates
<1>5. History'
    BY <1>1, <1>2 DEF IInv, History
<1> QED
    BY <1>2, <1>3, <1>4, <1>5 DEF IInv, QueueStep

\* A send and what the breaker makes of its failure.
LEMMA SendIInv ==
    ASSUME IInv, NEW c \in Channels,
           \/ SendRefused(c) \/ SendOk(c) \/ SendFails(c)
           \/ BreakerHolds(c) \/ BreakerTrips(c) \/ TripBreaker(c)
    PROVE  IInv'
<1>1. /\ fan[c] # "none" /\ UNCHANGED queueVars
      /\ UNCHANGED <<dlq, phase, batch, cur, stage, listed, moving, patch, patches, replay, tried, done,
                     refused, dead>>
    BY DEF SendRefused, SendOk, SendFails, BreakerHolds, BreakerTrips, TripBreaker,
           reclaimVars, adminVars, historyVars
<1>2. QueueStep /\ last' >= last /\ (\A k \in Ids : pel'[k] <= pel[k]) /\ UNCHANGED last
    BY <1>1, QueueUnchanged, QuietQueue DEF queueVars
<1>3. PICK v \in FanStates \ {"todo"} : fan' = [fan EXCEPT ![c] = v]
    <2>1. CASE SendRefused(c)
        BY <2>1 DEF SendRefused, FanStates
    <2>2. CASE SendOk(c)
        BY <2>2 DEF SendOk, FanStates
    <2>3. CASE SendFails(c)
        BY <2>3 DEF SendFails, FanStates
    <2>4. CASE BreakerTrips(c)
        BY <2>4 DEF BreakerTrips, FanStates
    <2>5. CASE BreakerHolds(c) \/ TripBreaker(c)
        BY <2>5 DEF BreakerHolds, TripBreaker, Settle, FanStates
    <2> QED
        BY <2>1, <2>2, <2>3, <2>4, <2>5
<1>4. stage = "fan" /\ cur \in Ids
    <2>1. stage = "fan"
        BY <1>1 DEF IInv, Dispatcher, Idle
    <2> QED
        BY <2>1, ConstantsAssumption DEF IInv, Dispatcher, Queue, Ids
<1>5. Reclaim'
    BY <1>1, <1>2, ListedIds, ReclaimUnchanged DEF QueueStep
<1>6. /\ fan' \in [Channels -> FanStates] /\ fan'[c] # "todo"
      /\ \A d \in Channels \ {c} : fan'[d] = fan[d]
    BY <1>3 DEF IInv, Dispatcher
<1>7. Dispatcher'
    BY <1>1, <1>2, <1>4, <1>6 DEF IInv, Dispatcher
<1>8. History'
    <2>1. CASE SendOk(c)
        <3>1. fan[c] = "todo" /\ sent' = [sent EXCEPT ![<<cur, c>>] = @ + 1]
            BY <2>1 DEF SendOk
        <3>2. sent[<<cur, c>>] = 0 /\ <<cur, c>> \in Ids \X Channels /\ tried[cur] = 1
            BY <1>4, <3>1 DEF IInv, History
        <3>3. /\ sent' \in [Ids \X Channels -> 0..1]
              /\ \A x \in (Ids \X Channels) \ {<<cur, c>>} : sent'[x] = sent[x]
            BY <3>1, <3>2 DEF IInv, History
        <3>4. \A i \in Ids, d \in Channels : i # cur \/ d # c => sent'[<<i, d>>] = sent[<<i, d>>]
            BY <3>3
        <3> QED
            BY <1>1, <1>2, <1>4, <1>6, <3>2, <3>3, <3>4 DEF IInv, History
    <2>2. CASE ~SendOk(c)
        <3>1. UNCHANGED sent
            BY <2>2 DEF SendRefused, SendFails, BreakerHolds, BreakerTrips, TripBreaker, historyVars
        <3> QED
            BY <1>1, <1>2, <1>6, <3>1, HistoryUnchanged DEF QueueStep
    <2> QED
        BY <2>1, <2>2
<1>9. Operators'
    <2>1. UNCHANGED faults \/ Fault
        BY DEF SendRefused, SendOk, SendFails, BreakerHolds, BreakerTrips, TripBreaker, Try
    <2>2. row' \in [Channels -> {"on", "off", "gone"}]
        BY DEF SendRefused, SendOk, SendFails, BreakerHolds, BreakerTrips, TripBreaker, Try,
               channelVars, IInv, Operators
    <2>3. failures' \in [Channels -> 0..BreakerLimit]
        <3>0. failures \in [Channels -> 0..BreakerLimit] /\ BreakerLimit \in Nat
            BY ConstantsAssumption DEF IInv, Operators
        <3>1. CASE SendFails(c)
            <4>1. \/ failures' = [failures EXCEPT ![c] =
                           IF row[c] # "gone" /\ @ < BreakerLimit THEN @ + 1 ELSE @]
                  \/ UNCHANGED failures
                BY <3>1 DEF SendFails, Try
            <4> QED
                BY <3>0, <4>1
        <3>2. CASE ~SendFails(c)
            <4>1. failures' = [failures EXCEPT ![c] = 0] \/ UNCHANGED failures
                BY <3>2 DEF SendRefused, SendOk, BreakerHolds, BreakerTrips, TripBreaker, Try,
                            channelVars
            <4> QED
                BY <3>0, <4>1
        <3> QED
            BY <3>1, <3>2
    <2> QED
        BY <1>1, <2>1, <2>2, <2>3, FaultTyped DEF IInv, Operators
<1> QED
    BY <1>2, <1>5, <1>7, <1>8, <1>9 DEF IInv, QueueStep

-----------------------------------------------------------------------------
(* The reclaim loop and the operators.                                     *)

LEMMA ReclaimIInv == IInv /\ Reclaimer => IInv'
<1> SUFFICES ASSUME IInv, Reclaimer PROVE IInv'
    OBVIOUS
<1>0. UNCHANGED <<phase, batch, cur, stage, fan, row, failures, patch, patches, replay, tried, sent, done,
                  refused>>
    BY DEF Reclaimer, Pending, Claim, RangeOne, MoveToDLQ, consumerVars, channelVars, adminVars,
           historyVars
<1>k. Queue' /\ last' >= last => Dispatcher' /\ History'
    BY <1>0, PhaseTyped, DispatcherUnchanged, HistoryUnchanged
<1>1. CASE Pending
    <2>1. /\ listed' = {<<i, pel[i]>> : i \in idle} /\ UNCHANGED <<moving, dlq, faults, dead>>
          /\ UNCHANGED queueVars
        BY <1>1 DEF Pending, Stale, historyVars
    <2>2. QueueStep /\ last' >= last /\ UNCHANGED <<last, pel>>
        BY <1>0, <2>1, QueueUnchanged, QuietQueue DEF queueVars
    <2>3. \A i \in idle : /\ i \in Ids /\ i <= last /\ pel[i] \in 1..MaxRetries /\ pel[i] <= pel[i]
        BY ConstantsAssumption DEF IInv, Queue
    <2>4. Reclaim'
        <3>1. listed' \subseteq Ids \X (1..MaxRetries)
            BY <2>1, <2>3
        <3>2. \A p \in listed' : p[1] <= last' /\ pel'[p[1]] <= p[2]
            BY <2>1, <2>2, <2>3
        <3>3. \A p, q \in listed' : p[1] = q[1] => p = q
            BY <2>1
        <3> QED
            BY <2>1, <3>1, <3>2, <3>3 DEF IInv, Reclaim
    <2>5. Operators'
        BY <1>0, <2>1, OperatorsUnchanged
    <2> QED
        BY <1>k, <2>2, <2>4, <2>5 DEF IInv, QueueStep
<1>2. CASE MoveToDLQ
    <2>1. moving # None /\ moving' = None /\ UNCHANGED <<listed, done, refused>>
          /\ Try(ToDLQ(moving), UNCHANGED <<queueVars, dlq, dead>>)
        BY <1>2 DEF MoveToDLQ
    <2>2. moving \in DeadRows
        BY <2>1 DEF IInv, Reclaim
    <2>3. /\ Queue' /\ Accounted' /\ UNCHANGED last /\ \A k \in Ids : pel'[k] <= pel[k]
          /\ dlq' \subseteq DeadRows /\ faults' \in 0..MaxFaults
        BY <2>1, <2>2, ToDLQStep DEF QueueStep
    <2>4. last' >= last
        BY <2>3, ConstantsAssumption DEF IInv, Queue
    <2>5. Reclaim'
        <3>1. ASSUME NEW p \in listed PROVE p[1] <= last' /\ pel'[p[1]] <= p[2]
            <4>1. /\ p[1] \in Ids /\ p[2] \in Nat /\ pel[p[1]] \in Nat /\ pel'[p[1]] \in Nat
                  /\ pel[p[1]] <= p[2] /\ p[1] <= last
                BY <2>3, ConstantsAssumption DEF IInv, Reclaim, Queue
            <4> QED
                BY <2>3, <4>1
        <3> QED
            BY <2>1, <3>1 DEF IInv, Reclaim
    <2>6. Operators'
        BY <1>0, <2>3 DEF IInv, Operators
    <2> QED
        BY <1>k, <2>3, <2>4, <2>5, <2>6 DEF IInv
<1>3. ASSUME NEW p \in listed, Claim(p) PROVE IInv'
    <2>1. listed' = listed \ {p} /\ UNCHANGED <<moving, dlq, faults, dead, last>>
        BY <1>3 DEF Claim, historyVars
    <2>2. QueueStep /\ \A k \in Ids \ {p[1]} : pel'[k] = pel[k]
        BY <1>3, ClaimStep
    <2>3. \A q \in listed' : pel'[q[1]] <= pel[q[1]]
        <3> SUFFICES ASSUME NEW q \in listed, q # p PROVE pel'[q[1]] <= pel[q[1]]
            BY <2>1
        <3>1. q[1] \in Ids /\ q[1] # p[1] /\ pel[q[1]] \in Nat
            BY ConstantsAssumption DEF IInv, Reclaim, Queue
        <3> QED
            BY <2>2, <3>1
    <2>4. Reclaim' /\ Operators'
        BY <1>0, <2>1, <2>2, <2>3, ReclaimUnchanged, OperatorsUnchanged DEF QueueStep
    <2> QED
        BY <1>k, <2>2, <2>4 DEF IInv, QueueStep
<1>4. ASSUME NEW p \in listed, RangeOne(p) PROVE IInv'
    <2>1. /\ listed' = listed \ {p} /\ UNCHANGED <<dlq, dead>> /\ UNCHANGED queueVars
          /\ UNCHANGED faults \/ Fault
        BY <1>4 DEF RangeOne, historyVars
    <2>2. QueueStep /\ last' >= last /\ UNCHANGED <<last, pel>>
        BY <1>0, <2>1, QueueUnchanged, QuietQueue DEF queueVars
    <2>3. moving' \in DeadRows
        <3>1. p[1] \in Ids
            BY ListedIds
        <3> QED
            BY <1>4, <3>1 DEF RangeOne, DeadRows
    <2>4. Reclaim'
        BY <2>1, <2>2, <2>3 DEF IInv, Reclaim
    <2>5. Operators'
        BY <1>0, <2>1, OperatorsUnchanged
    <2> QED
        BY <1>k, <2>2, <2>4, <2>5 DEF IInv, QueueStep
<1> QED
    BY <1>1, <1>2, <1>3, <1>4 DEF Reclaimer

LEMMA OperatorIInv == IInv /\ Operator => IInv'
<1> SUFFICES ASSUME IInv, Operator PROVE IInv'
    OBVIOUS
<1>0. UNCHANGED <<phase, batch, cur, stage, fan, listed, moving, faults, tried, sent, done, refused, dead,
                  group, last, pel, idle>>
    BY DEF Operator, PatchWrite, Drop, PatchRead, DeleteChannel, ReplayRead, ReplayOne,
           consumerVars, reclaimVars, historyVars, queueVars
<1>1. QueueStep
    <2>1. CASE UNCHANGED queueVars
        BY <1>0, <2>1, QueueUnchanged
    <2>2. ASSUME NEW a \in Admins, ReplayOne(a) PROVE QueueStep
        <3>1. PICK d \in replay[a] :
                 XAdd(env[d.id]) \/ UNCHANGED <<added, env, stream>>
            BY <2>2 DEF ReplayOne
        <3>2. env[d.id] \in AllEnvelopes
            <4>1. d \in DeadRows
                BY <3>1 DEF IInv, Operators
            <4> QED
                BY <4>1 DEF DeadRows, IInv, Queue
        <3>3. CASE UNCHANGED <<added, env, stream>>
            BY <1>0, <2>1, <3>3 DEF queueVars
        <3> QED
            BY <1>0, <3>1, <3>2, <3>3, XAddStep
    <2> QED
        BY <2>1, <2>2 DEF Operator, PatchWrite, Drop, PatchRead, DeleteChannel, ReplayRead
<1>2. Queue' /\ Accounted' /\ last' >= last /\ \A k \in Ids : pel'[k] <= pel[k]
    BY <1>0, <1>1, ConstantsAssumption DEF QueueStep, IInv, Queue
<1>3. Dispatcher' /\ Reclaim' /\ History'
    BY <1>0, <1>2, PhaseTyped, ListedIds, DispatcherUnchanged, ReclaimUnchanged, HistoryUnchanged
<1>4. Operators'
    <2>1. CASE PatchWrite
        BY <1>0, <2>1 DEF PatchWrite, IInv, Operators
    <2>2. CASE Drop
        BY <1>0, <2>2 DEF Drop, adminVars, channelVars, IInv, Operators
    <2>3. ASSUME NEW c \in Channels, PatchRead(c) PROVE Operators'
        <3>1. PICK e \in {"on", "off"} : patch' = {<<c, e>>}
            BY <2>3 DEF PatchRead, IInv, Operators
        <3>2. patches' \in 0..MaxPatches
            BY <2>3, ConstantsAssumption DEF PatchRead, IInv, Operators
        <3> QED
            BY <1>0, <2>3, <3>1, <3>2 DEF PatchRead, channelVars, IInv, Operators
    <2>4. ASSUME NEW c \in Channels, DeleteChannel(c) PROVE Operators'
        <3>1. patches' \in 0..MaxPatches
            BY <2>4, ConstantsAssumption DEF DeleteChannel, IInv, Operators
        <3>2. row' \in [Channels -> {"on", "off", "gone"}] /\ failures' \in [Channels -> 0..BreakerLimit]
            BY <2>4, ConstantsAssumption DEF DeleteChannel, IInv, Operators
        <3> QED
            BY <1>0, <2>4, <3>1, <3>2 DEF DeleteChannel, IInv, Operators
    <2>5. ASSUME NEW a \in Admins, ReplayRead(a) PROVE Operators'
        <3>1. replay' \in [Admins -> SUBSET DeadRows]
            BY <2>5 DEF ReplayRead, IInv, Operators
        <3> QED
            BY <1>0, <2>5, <3>1 DEF ReplayRead, channelVars, IInv, Operators
    <2>6. ASSUME NEW a \in Admins, ReplayOne(a) PROVE Operators'
        <3>1. replay' \in [Admins -> SUBSET DeadRows] /\ dlq' \subseteq DeadRows
            BY <2>6 DEF ReplayOne, IInv, Operators
        <3> QED
            BY <1>0, <2>6, <3>1 DEF ReplayOne, channelVars, IInv, Operators
    <2> QED
        BY <2>1, <2>2, <2>3, <2>4, <2>5, <2>6 DEF Operator
<1> QED
    BY <1>2, <1>3, <1>4 DEF IInv

LEMMA RestartIInv == IInv /\ PanelRestart => IInv'
<1> SUFFICES ASSUME IInv, PanelRestart PROVE IInv'
    OBVIOUS
<1>1. /\ batch' = {} /\ cur' = 0 /\ stage' = "idle" /\ fan' = Idle /\ Fault /\ phase' = "start"
      /\ listed' = {} /\ moving' = None /\ patch' = {} /\ replay' = [a \in Admins |-> {}]
      /\ UNCHANGED queueVars
      /\ UNCHANGED <<dlq, row, failures, patches, tried, sent, done, refused, dead>>
    BY DEF PanelRestart, channelVars, historyVars
<1>2. QueueStep /\ UNCHANGED last /\ last \in Nat
    BY <1>1, QueueUnchanged, QuietQueue DEF queueVars
<1>3. fan' \in [Channels -> FanStates] /\ \A c \in Channels : fan'[c] = "none"
    BY <1>1 DEF Idle, FanStates
<1>4. Dispatcher'
    BY <1>1, <1>2, <1>3 DEF Dispatcher, Idle, Phases
<1>5. Reclaim'
    BY <1>1 DEF Reclaim
<1>6. History'
    BY <1>1, <1>2, <1>3 DEF IInv, History
<1>7. Operators'
    <2>1. replay' \in [Admins -> SUBSET DeadRows]
        BY <1>1
    <2> QED
        BY <1>1, <2>1, FaultTyped DEF IInv, Operators
<1> QED
    BY <1>2, <1>4, <1>5, <1>6, <1>7 DEF IInv, QueueStep

LEMMA StutterIInv == IInv /\ UNCHANGED vars => IInv'
BY DEF IInv, Queue, Dispatcher, Reclaim, Operators, History, Accounted, Fresh, Idle, vars,
       queueVars, consumerVars, reclaimVars, channelVars, adminVars, historyVars

LEMMA InitIInv == Init => IInv
<1> SUFFICES ASSUME Init PROVE IInv
    OBVIOUS
<1> USE ConstantsAssumption DEF Init
<1>1. Queue
    <2>1. [to |-> {}, form |-> "ok"] \in AllEnvelopes
        BY DEF AllEnvelopes
    <2>2. env \in [Ids -> AllEnvelopes] /\ pel \in [Ids -> 0..MaxRetries]
        BY <2>1
    <2> QED
        BY <2>2 DEF Queue
<1>2. Dispatcher
    <2>1. fan \in [Channels -> FanStates]
        BY DEF Idle, FanStates
    <2> QED
        BY <2>1 DEF Dispatcher, Phases
<1>3. Reclaim
    BY DEF Reclaim
<1>4. Operators
    <2>1. /\ row \in [Channels -> {"on", "off", "gone"}]
          /\ failures \in [Channels -> 0..BreakerLimit]
          /\ replay \in [Admins -> SUBSET DeadRows]
        OBVIOUS
    <2> QED
        BY <2>1 DEF Operators
<1>5. History
    BY DEF History, Idle
<1>6. Accounted
    BY DEF Accounted
<1> QED
    BY <1>1, <1>2, <1>3, <1>4, <1>5, <1>6 DEF IInv

-----------------------------------------------------------------------------
\* The inductive invariant holds of every behaviour: what is above
\* last-delivered or in the batch is untouched, and every entry is accounted
\* for.
THEOREM Invariance == Spec => []IInv
<1>1. IInv /\ [Next]_vars => IInv'
    BY PublishIInv, StartIInv, TimePassesIInv, ReadIInv, ProcessIInv, PassIInv, EndIInv, FanOutIInv,
       SendIInv, ReclaimIInv, OperatorIInv, RestartIInv, StutterIInv DEF Next, Consumer
<1> QED
    BY InitIInv, <1>1, PTL DEF Spec

\* Queue, dispatcher, channels and operators keep their types for every number
\* of entries: the delivery count never passes MaxRetries, though the reclaim
\* loop decides on a copy of it, and the failure count never passes the limit.
THEOREM TypeCorrect == Spec => []TypeOK
<1>1. IInv => TypeOK
    <2> SUFFICES ASSUME IInv PROVE TypeOK
        OBVIOUS
    <2>1. batch \subseteq 1..added /\ cur \in 0..added
        BY ConstantsAssumption DEF IInv, Queue, Dispatcher
    <2>2. idle \subseteq stream
        BY DEF IInv, Queue
    <2> QED
        BY <2>1, <2>2 DEF IInv, Queue, Dispatcher, Reclaim, Operators, TypeOK, FanStates
<1> QED
    BY Invariance, <1>1, PTL

\* The dispatcher loses no entry younger than its group, for every number of
\* entries and of failures: it waits, is pending, was handled to the end, was
\* acknowledged with a channel refusing it, or was dead-lettered (EnsureGroup,
\* process, reclaim, AckAndDelete, ToDLQ).
THEOREM NothingIsLost == Spec => []Accounted
<1>1. IInv => Accounted
    BY DEF IInv
<1> QED
    BY Invariance, <1>1, PTL

\* XCLAIM by the reclaim loop never makes the consumer send an entry again: an
\* entry reaches a channel, and the bell, at most once.
THEOREM DeliveredAtMostOnce == Spec => []AtMostOnce
<1>1. IInv => AtMostOnce
    BY DEF IInv, History, AtMostOnce
<1> QED
    BY Invariance, <1>1, PTL

-----------------------------------------------------------------------------
(* Dead letters without a payload.                                         *)

\* The consumer is through with the entry, or sends it to the dead-letter
\* stream itself, with its payload.
Finished(i) == i \in done \union refused \/ env[i].form = "malformed"

FinishedNext(i) == i \in done' \union refused' \/ env'[i].form = "malformed"

\* An entry the reclaim loop has listed leaves the stream only by the consumer:
\* the loop moves its entries one by one, and each is on the list once.
DeadLetters ==
    /\ \A p \in listed : p[1] \in stream \/ Finished(p[1])
    /\ \A p \in listed : moving # None => moving.id # p[1]
    /\ moving # None => moving.id <= last
    /\ moving # None => (moving.payload = "gone" => Finished(moving.id))
    /\ \A d \in dlq : d.id <= last /\ (d.payload = "gone" => Finished(d.id))

\* What was finished stays so: an id is used once.
LEMMA FinishedStays ==
    ASSUME IInv, [Next]_vars, NEW i \in Ids, i <= last, Finished(i)
    PROVE  FinishedNext(i)
<1>0. added \in Nat /\ last \in 0..added /\ env \in [Ids -> AllEnvelopes]
    BY ConstantsAssumption DEF IInv, Queue
<1>1. done \subseteq done' /\ refused \subseteq refused'
    BY DEF Next, Consumer, Reclaimer, Operator, Publish, EnsureGroup, TimePasses, Read, ReadGivesUp,
       ProcessMalformed, ProcessMuted, Pass, ResolveFails, NoTargets, FanOut, SendRefused, SendOk,
       SendFails, BreakerHolds, BreakerTrips, TripBreaker, FanOutEnds, Pending, Claim, RangeOne,
       MoveToDLQ, PatchRead, PatchWrite, DeleteChannel, ReplayRead, ReplayOne, Drop, PanelRestart,
       vars, historyVars
<1>2. env' = env \/ \E e : env' = [env EXCEPT ![added + 1] = e]
    BY DEF Next, Consumer, Reclaimer, Operator, Publish, EnsureGroup, TimePasses, Read, ReadGivesUp,
       ProcessMalformed, ProcessMuted, Pass, ResolveFails, NoTargets, FanOut, SendRefused, SendOk,
       SendFails, BreakerHolds, BreakerTrips, TripBreaker, FanOutEnds, Pending, Claim, RangeOne,
       MoveToDLQ, PatchRead, PatchWrite, DeleteChannel, ReplayRead, ReplayOne, Drop, PanelRestart,
       vars, queueVars, XAdd, Try, ToDLQ, AckAndDelete
<1>3. i # added + 1
    BY <1>0 DEF Ids
<1>4. env'[i] = env[i]
    BY <1>0, <1>2, <1>3
<1> QED
    BY <1>1, <1>4 DEF Finished, FinishedNext

\* An entry leaves the stream finished, or by the hand of the reclaim loop.
LEMMA StreamLeft ==
    ASSUME IInv, [Next]_vars, NEW i \in stream, i \notin stream'
    PROVE  FinishedNext(i) \/ (MoveToDLQ /\ i = moving.id)
<1>1. ASSUME NEW k \in Ids, ProcessMalformed(k) PROVE FinishedNext(i)
    <2>1. env' = env /\ env[k].form = "malformed"
        BY <1>1 DEF ProcessMalformed, Try, ToDLQ, AckAndDelete, queueVars
    <2>2. i = k
        BY <1>1 DEF ProcessMalformed, Try, ToDLQ, AckAndDelete, queueVars
    <2> QED
        BY <2>1, <2>2 DEF FinishedNext
<1>2. ASSUME NEW k \in Ids, ProcessMuted(k) PROVE FinishedNext(i)
    BY <1>2 DEF ProcessMuted, Try, AckAndDelete, queueVars, FinishedNext
<1>3. CASE NoTargets
    BY <1>3 DEF NoTargets, Try, AckAndDelete, queueVars, FinishedNext
<1>4. CASE FanOutEnds
    <2>1. Complete /\ i = cur
        BY <1>4 DEF FanOutEnds, Try, AckAndDelete, queueVars
    <2>2. cur \in done' \union refused'
        BY <1>4, <2>1 DEF FanOutEnds, Complete
    <2> QED
        BY <2>1, <2>2 DEF FinishedNext
<1>5. CASE MoveToDLQ
    BY <1>5 DEF MoveToDLQ, Try, ToDLQ, AckAndDelete, queueVars
<1> QED
    BY <1>1, <1>2, <1>3, <1>4, <1>5
    DEF Next, Consumer, Reclaimer, Operator, Publish, EnsureGroup, TimePasses, Read, ReadGivesUp,
       Pass, ResolveFails, FanOut, SendRefused, SendOk, SendFails, BreakerHolds, BreakerTrips,
       TripBreaker, Pending, Claim, RangeOne, PatchRead, PatchWrite, DeleteChannel, ReplayRead,
       ReplayOne, Drop, PanelRestart, vars, queueVars, XAdd

\* The reclaim loop's list and the row in its hand.
LEMMA ReclaimMoves ==
    ASSUME [Next]_vars
    PROVE  \/ listed' \subseteq listed /\ moving' = moving /\ ~MoveToDLQ
           \/ MoveToDLQ /\ listed' = listed /\ moving' = None
           \/ listed' = {} /\ moving' = None
           \/ Pending
           \/ \E p \in listed : RangeOne(p)
<1>1. ASSUME MoveToDLQ PROVE listed' = listed /\ moving' = None
    BY <1>1 DEF MoveToDLQ
<1>2. CASE ~MoveToDLQ
    BY <1>2 DEF Next, Consumer, Reclaimer, Operator, Publish, EnsureGroup, TimePasses, Read, ReadGivesUp,
       ProcessMalformed, ProcessMuted, Pass, ResolveFails, NoTargets, FanOut, SendRefused, SendOk,
       SendFails, BreakerHolds, BreakerTrips, TripBreaker, FanOutEnds, Claim,
       PatchRead, PatchWrite, DeleteChannel, ReplayRead, ReplayOne, Drop, PanelRestart,
       vars, reclaimVars
<1> QED
    BY <1>1, <1>2

\* The rows of the dead-letter stream.
LEMMA RowsAdded ==
    ASSUME IInv, [Next]_vars, NEW d \in dlq', d \notin dlq
    PROVE  \/ MoveToDLQ /\ d = moving
           \/ d.id \in batch /\ d.payload = "kept"
<1>1. ASSUME NEW k \in Ids, ProcessMalformed(k) PROVE d.id \in batch /\ d.payload = "kept"
    <2> DEFINE r == [id |-> k, reason |-> "parse_error", payload |-> "kept"]
    <2>1. d = r /\ k \in batch
        BY <1>1 DEF ProcessMalformed, Taken, Try, ToDLQ
    <2> QED
        BY <2>1
<1>2. CASE MoveToDLQ
    BY <1>2 DEF MoveToDLQ, Try, ToDLQ
<1> QED
    BY <1>1, <1>2 DEF Next, Consumer, Reclaimer, Operator, Publish, EnsureGroup, TimePasses, Read,
       ReadGivesUp, ProcessMuted, Pass, ResolveFails, NoTargets, FanOut, SendRefused, SendOk,
       SendFails, BreakerHolds, BreakerTrips, TripBreaker, FanOutEnds, Pending, Claim, RangeOne,
       PatchRead, PatchWrite, DeleteChannel, ReplayRead, ReplayOne, Drop, PanelRestart, vars

LEMMA LastGrows ==
    ASSUME IInv, [Next]_vars
    PROVE  last' >= last /\ last \in Nat /\ last' \in Nat
<1>0. last \in Nat /\ added \in Nat /\ last <= added
    BY ConstantsAssumption DEF IInv, Queue
<1>1. CASE Read
    BY <1>0, <1>1, ReadStep, ConstantsAssumption DEF QueueStep, Queue
<1>2. CASE EnsureGroup
    BY <1>0, <1>2 DEF EnsureGroup
<1>3. CASE ~Read /\ ~EnsureGroup
    <2>1. last' = last
        BY <1>3 DEF Next, Consumer, Reclaimer, Operator, Publish, TimePasses, ReadGivesUp,
           ProcessMalformed, ProcessMuted, Pass, ResolveFails, NoTargets, FanOut, SendRefused, SendOk,
           SendFails, BreakerHolds, BreakerTrips, TripBreaker, FanOutEnds, Pending, Claim, RangeOne,
           MoveToDLQ, PatchRead, PatchWrite, DeleteChannel, ReplayRead, ReplayOne, Drop, PanelRestart,
           vars, queueVars, Try, ToDLQ, AckAndDelete
    <2> QED
        BY <1>0, <2>1
<1> QED
    BY <1>1, <1>2, <1>3

LEMMA DeadLettersStep == IInv /\ DeadLetters /\ [Next]_vars => DeadLetters'
<1> SUFFICES ASSUME IInv, DeadLetters, [Next]_vars PROVE DeadLetters'
    OBVIOUS
<1>0. /\ \A p \in listed : p[1] \in Ids /\ p[1] <= last
      /\ moving # None => moving.id \in Ids /\ moving.id <= last
      /\ \A d \in dlq : d.id \in Ids
      /\ last \in Nat /\ last' \in Nat /\ last' >= last
    BY LastGrows DEF IInv, Reclaim, Operators, DeadRows, DeadLetters
<1>1. ASSUME NEW p \in listed, ~(MoveToDLQ /\ p[1] = moving.id)
      PROVE  p[1] \in stream' \/ FinishedNext(p[1])
    BY <1>0, <1>1, FinishedStays, StreamLeft DEF DeadLetters
<1>2. ASSUME moving # None
      PROVE  moving.id <= last' /\ (moving.payload = "gone" => FinishedNext(moving.id))
    <2>1. moving.id \in Ids /\ moving.id <= last /\ (moving.payload = "gone" => Finished(moving.id))
        BY <1>0, <1>2 DEF DeadLetters
    <2>2. moving.id <= last'
        BY <1>0, <2>1 DEF Ids
    <2> QED
        BY <2>1, <2>2, FinishedStays
<1>3. ASSUME NEW d \in dlq'
      PROVE  d.id <= last' /\ (d.payload = "gone" => FinishedNext(d.id))
    <2>1. CASE d \in dlq
        BY <1>0, <2>1, FinishedStays DEF DeadLetters, Ids
    <2>2. CASE MoveToDLQ /\ d = moving
        BY <1>2, <2>2 DEF MoveToDLQ
    <2>3. CASE d.id \in batch /\ d.payload = "kept"
        <3>1. d.id \in 1..last
            BY <2>3 DEF IInv, Dispatcher
        <3> QED
            BY <1>0, <2>3, <3>1
    <2> QED
        BY <2>1, <2>2, <2>3, RowsAdded
<1> DEFINE Listed == \A p \in listed' : p[1] \in stream' \/ FinishedNext(p[1])
           Apart == \A p \in listed' : moving' # None => moving'.id # p[1]
           Below == moving' # None => moving'.id <= last'
           Kept == moving' # None => (moving'.payload = "gone" => FinishedNext(moving'.id))
<1>4. Listed /\ Apart /\ Below /\ Kept
    <2>1. CASE listed' \subseteq listed /\ moving' = moving /\ ~MoveToDLQ
        <3>1. Listed
            BY <1>1, <2>1
        <3>2. Apart
            BY <2>1 DEF DeadLetters
        <3>3. Below /\ Kept
            BY <1>2, <2>1
        <3> QED
            BY <3>1, <3>2, <3>3
    <2>2. CASE MoveToDLQ /\ listed' = listed /\ moving' = None
        <3>1. moving # None
            BY <2>2 DEF MoveToDLQ
        <3>2. \A p \in listed : p[1] # moving.id
            BY <3>1 DEF DeadLetters
        <3>3. Listed
            BY <1>1, <2>2, <3>2
        <3> QED
            BY <2>2, <3>3
    <2>3. CASE listed' = {} /\ moving' = None
        BY <2>3
    <2>4. CASE Pending
        <3>1. /\ listed' = {<<i, pel[i]>> : i \in idle} /\ moving' = None
              /\ stream' = stream
            BY <2>4 DEF Pending, Stale, queueVars
        <3>2. idle \subseteq stream
            BY DEF IInv, Queue
        <3>3. Listed
            BY <3>1, <3>2
        <3> QED
            BY <3>1, <3>3
    <2>5. ASSUME NEW p \in listed, RangeOne(p) PROVE Listed /\ Apart /\ Below /\ Kept
        <3>1. PICK how \in {"kept", "gone", "failed"} :
                /\ how = "gone" => p[1] \notin stream
                /\ moving' = [id |-> p[1], reason |-> "max_retries_exceeded", payload |-> how]
            BY <2>5 DEF RangeOne
        <3>2. listed' = listed \ {p} /\ moving = None
            BY <2>5 DEF RangeOne, First
        <3>3. moving'.id = p[1] /\ moving'.payload = how
            BY <3>1
        <3>4. Listed
            <4>1. ~MoveToDLQ
                BY <3>2 DEF MoveToDLQ
            <4> QED
                BY <1>1, <3>2, <4>1
        <3>5. Apart
            BY <3>2, <3>3 DEF IInv, Reclaim
        <3>6. Below
            BY <1>0, <3>3 DEF Ids
        <3>7. how = "gone" => FinishedNext(p[1])
            <4>1. how = "gone" => Finished(p[1])
                BY <3>1 DEF DeadLetters
            <4> QED
                BY <1>0, <4>1, FinishedStays
        <3>8. Kept
            BY <3>3, <3>7
        <3> QED
            BY <3>4, <3>5, <3>6, <3>8
    <2> QED
        BY <2>1, <2>2, <2>3, <2>4, <2>5, ReclaimMoves
<1>5. DeadLetters' <=>
        /\ Listed /\ Apart /\ Below /\ Kept
        /\ \A d \in dlq' : d.id <= last' /\ (d.payload = "gone" => FinishedNext(d.id))
    BY DEF DeadLetters, Finished, FinishedNext
<1> QED
    BY <1>3, <1>4, <1>5

\* A dead letter has lost its payload only when XRANGE failed or when the
\* consumer was through with the entry after the reclaim loop had listed it
\* (reclaim's RangeOne and ToDLQ against process).
THEOREM PayloadForReplay == Spec => []ReplayHasPayload
<1>1. Init => DeadLetters
    BY DEF Init, DeadLetters
<1>2. IInv /\ DeadLetters => ReplayHasPayload
    BY DEF DeadLetters, ReplayHasPayload, Finished
<1> QED
    BY Invariance, DeadLettersStep, <1>1, <1>2, PTL DEF Spec

=============================================================================
