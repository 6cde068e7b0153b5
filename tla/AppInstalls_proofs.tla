-------------------------- MODULE AppInstalls_proofs --------------------------
(***************************************************************************)
(* Proofs about AppInstalls for every set of domains, subdirectories and   *)
(* types and every bound.                                                  *)
(*                                                                         *)
(* The argument: until its row is inserted, an install is nobody's but its *)
(* request's, whose compensation ends with the database's row.  From then  *)
(* on the install row keeps the database, and who takes the row away goes  *)
(* on to the database, since only a row made by the scan, which never had  *)
(* one, names none.  The exceptions are recorded in adrift where they      *)
(* happen, the rows of a deleted domain among them.                        *)
(***************************************************************************)
EXTENDS AppInstalls, SequenceTheorems, TLAPS

Steps == {"db", "user", "schema", "account"}
JobPcs == {"none", "chain", "undo", "insert", "mark", "lookup", "agent", "ready",
           "failed", "over"}
DelPcs == {"idle", "resolve", "mark", "agent", "user", "row", "schema", "db"}

Jobs == [pc: JobPcs, clone: BOOLEAN, slot: Slots \cup {<<>>}, type: Types,
         src: Domains \cup {<<>>}, from: Nat, todo: Seq(Steps)]
Dels == [pc: DelPcs, slot: Slots \cup {<<>>}, type: Types, db: BOOLEAN, user: BOOLEAN]

\* A request or goroutine at work knows its place; a list of steps that is being
\* gone through is not empty; the chain begins with the database's row and a
\* compensation ends with it.
JobShape(j) ==
    /\ j.pc \in {"chain", "undo"} => j.todo # <<>>
    /\ j.pc = "chain" => \A i \in 2 .. Len(j.todo) : j.todo[i] # "db"
    /\ j.pc = "undo" => j.todo[Len(j.todo)] = "db"
    /\ j.pc \in {"chain", "undo", "insert", "mark", "lookup", "agent"} =>
          j.slot \in Slots /\ (j.clone => j.src \in Domains)

ReadyRows == {n \in Ids : inst[n] # NoRow /\ inst[n].status = "ready"}

\* The list of the ready rows names each of them once.
RowsOK ==
    /\ inst \in [Ids -> Row \cup {NoRow}]
    /\ ready \in Seq(Ids)
    /\ \A i, k \in 1 .. Len(ready) : ready[i] = ready[k] => i = k
    /\ ToSet(ready) = ReadyRows
HostOK == parts \in [Ids -> SUBSET Parts] /\ files \in [Slots -> SUBSET Types]
JobsOK == job \in [Ids -> Jobs] /\ \A n \in Ids : JobShape(job[n])
DelsOK ==
    /\ del \in [Ids -> [Deleters -> Dels]]
    /\ dbdel \in [Ids -> {"idle", "grant", "schema", "db"}]
PassOK == pass \in [pc: {"idle", "sweep", "probe"}, todo: SUBSET Ids]
Counters == asked \in 0 .. MaxDeletes /\ faults \in 0 .. MaxFaults
DomsOK == doms \subseteq Domains /\ adrift \subseteq Ids

\* Before its row is inserted an install has no row and no delete.
Early == {"none", "chain", "undo", "insert"}
Alone(n) ==
    job[n].pc \in Early =>
        inst[n] = NoRow /\ \A w \in Deleters : del[n][w].pc = "idle"

\* What was never asked for, what the scan found and what a delete takes for that
\* has no database.
Unmade(n) ==
    /\ job[n].pc = "none" => parts[n] = {}
    /\ job[n].pc = "chain" /\ job[n].todo[1] = "db" => parts[n] = {}
    /\ inst[n] # NoRow /\ ~ inst[n].db => parts[n] = {} /\ job[n].pc = "over"
    /\ \A w \in Deleters : del[n][w].pc # "idle" /\ ~ del[n][w].db
                              => parts[n] = {} /\ job[n].pc = "over"

\* Unless it was set adrift, a database row is kept by the install row, by the
\* request before it has inserted one, or by a delete that has taken the row away.
Kept(n) ==
    "db" \in parts[n] /\ n \notin adrift =>
        \/ inst[n] # NoRow
        \/ job[n].pc \in Early
        \/ \E w \in Deleters : del[n][w].pc \in {"schema", "db"}

History(n) == Alone(n) /\ Unmade(n) /\ Kept(n)

IInv == /\ RowsOK /\ HostOK /\ JobsOK /\ DelsOK /\ PassOK /\ Counters
        /\ \A n \in Ids : History(n)

-----------------------------------------------------------------------------
(* The list of the ready rows.                                             *)

\* Taking a row off the list takes off that row and no other.
LEMMA WithoutOne ==
    ASSUME RowsOK, NEW n \in Ids
    PROVE  /\ Without(n) \in Seq(Ids)
           /\ \A i, k \in 1 .. Len(Without(n)) : Without(n)[i] = Without(n)[k] => i = k
           /\ ToSet(Without(n)) = ToSet(ready) \ {n}
<1> USE DEF RowsOK, ToSet
<1>1. CASE n \notin ToSet(ready)
    BY <1>1 DEF Without
<1>2. CASE n \in ToSet(ready)
    <2> DEFINE i == CHOOSE i \in DOMAIN ready : ready[i] = n
               r == Without(n)
    <2>0. DOMAIN ready = 1 .. Len(ready) /\ Len(ready) \in Nat
        OBVIOUS
    <2>1. i \in 1 .. Len(ready) /\ ready[i] = n
        BY <1>2, <2>0
    <2>2. r = SubSeq(ready, 1, i - 1) \o SubSeq(ready, i + 1, Len(ready))
        BY <1>2 DEF Without, RemoveAt
    <2> HIDE DEF i
    <2>3. /\ SubSeq(ready, 1, i - 1) \in Seq(Ids)
          /\ Len(SubSeq(ready, 1, i - 1)) = i - 1
          /\ \A k \in 1 .. i - 1 : SubSeq(ready, 1, i - 1)[k] = ready[k]
        BY <2>0, <2>1
    <2>4. /\ SubSeq(ready, i + 1, Len(ready)) \in Seq(Ids)
          /\ Len(SubSeq(ready, i + 1, Len(ready))) = Len(ready) - i
          /\ \A k \in 1 .. Len(ready) - i :
                SubSeq(ready, i + 1, Len(ready))[k] = ready[i + k]
        <3>1. \A k \in (i + 1) .. Len(ready) : ready[k] \in Ids
            BY <2>0, <2>1
        <3>2. i + 1 \in 1 .. Len(ready) + 1 /\ i \in Nat
            BY <2>0, <2>1
        <3>3. CASE i = Len(ready)
            BY <2>0, <3>2, <3>3, SubSeqProperties
        <3>4. CASE i # Len(ready)
            <4> DEFINE m == i + 1
                       l == Len(ready)
                       t == SubSeq(ready, m, l)
            <4>1. m \in Int /\ l \in Int /\ m <= l /\ \A k \in m .. l : ready[k] \in Ids
                <5> HIDE DEF RowsOK, ToSet, r, t
                <5>1. \A k \in m .. l : ready[k] \in Ids
                    BY <3>1
                <5>2. l \in Nat /\ i \in 1 .. l /\ i # l
                    BY <2>0, <2>1, <3>4
                <5> HIDE DEF l
                <5>3. m \in Int /\ l \in Int /\ m <= l
                    BY <5>2
                <5> QED
                    BY <5>1, <5>3
            <4>2. l - m + 1 = l - i /\ \A k \in Nat : m + k - 1 = i + k
                BY <2>0, <3>2
            <4> HIDE DEF m, l
            <4>3. /\ t \in Seq(Ids) /\ Len(t) = l - m + 1
                  /\ \A k \in 1 .. l - m + 1 : t[k] = ready[m + k - 1]
                BY <4>1, SubSeqProperties
            <4> HIDE DEF t
            <4>4. ASSUME NEW k \in 1 .. l - m + 1 PROVE t[k] = ready[i + k]
                <5>1. m + k - 1 = i + k
                    BY <4>1, <4>2
                <5> QED
                    BY <4>3, <5>1
            <4>5. /\ t \in Seq(Ids) /\ Len(t) = l - i
                  /\ \A k \in 1 .. l - i : t[k] = ready[i + k]
                BY <4>2, <4>3, <4>4
            <4> QED
                BY <4>5 DEF t, m, l
        <3> QED
            BY <3>3, <3>4
    <2>5. /\ r \in Seq(Ids) /\ Len(r) = Len(ready) - 1
          /\ \A k \in 1 .. Len(r) : r[k] = ready[IF k < i THEN k ELSE k + 1]
        <3> DEFINE a == SubSeq(ready, 1, i - 1)
                   b == SubSeq(ready, i + 1, Len(ready))
        <3>1. r = a \o b /\ a \in Seq(Ids) /\ b \in Seq(Ids)
            BY <2>2, <2>3, <2>4
        <3>2. Len(a) = i - 1 /\ Len(b) = Len(ready) - i
            BY <2>3, <2>4
        <3>3. /\ \A k \in 1 .. i - 1 : a[k] = ready[k]
              /\ \A k \in 1 .. Len(ready) - i : b[k] = ready[i + k]
            BY <2>3, <2>4
        <3> HIDE DEF a, b, r
        <3>4. /\ r \in Seq(Ids) /\ Len(r) = Len(a) + Len(b)
              /\ \A k \in 1 .. Len(a) + Len(b) :
                    r[k] = IF k <= Len(a) THEN a[k] ELSE b[k - Len(a)]
            BY <3>1, ConcatProperties
        <3>5. ASSUME NEW k \in 1 .. Len(r)
              PROVE  r[k] = ready[IF k < i THEN k ELSE k + 1]
            <4>1. CASE k < i
                BY <2>0, <2>1, <3>2, <3>3, <3>4, <4>1
            <4>2. CASE ~(k < i)
                <5>1. k - (i - 1) \in 1 .. Len(ready) - i /\ i + (k - (i - 1)) = k + 1
                    BY <2>0, <2>1, <3>2, <3>4, <4>2
                <5>2. r[k] = b[k - (i - 1)]
                    BY <2>0, <2>1, <3>2, <3>4, <4>2
                <5> QED
                    BY <3>3, <4>2, <5>1, <5>2
            <4> QED
                BY <4>1, <4>2
        <3> QED
            BY <2>0, <2>1, <3>2, <3>4, <3>5
    <2> HIDE DEF r
    <2>6. \A j, k \in 1 .. Len(r) : r[j] = r[k] => j = k
        BY <2>0, <2>1, <2>5
    <2>7. ToSet(r) = ToSet(ready) \ {n}
        <3>1. DOMAIN r = 1 .. Len(r)
            BY <2>5
        <3>2. ASSUME NEW k \in 1 .. Len(r) PROVE r[k] \in ToSet(ready) \ {n}
            <4> DEFINE m == IF k < i THEN k ELSE k + 1
            <4>1. m \in 1 .. Len(ready) /\ m # i
                BY <2>0, <2>1, <2>5
            <4>2. r[k] = ready[m]
                BY <2>5
            <4> HIDE DEF m
            <4> QED
                BY <2>0, <2>1, <4>1, <4>2
        <3>3. ASSUME NEW k \in 1 .. Len(ready), ready[k] # n PROVE ready[k] \in ToSet(r)
            <4>1. CASE k < i
                <5>1. k \in 1 .. Len(r) /\ r[k] = ready[k]
                    BY <2>0, <2>1, <2>5, <4>1
                <5> QED
                    BY <3>1, <5>1
            <4>2. CASE k > i
                <5>1. k - 1 \in 1 .. Len(r) /\ r[k - 1] = ready[k]
                    BY <2>0, <2>1, <2>5, <4>2
                <5> QED
                    BY <3>1, <5>1
            <4> QED
                BY <2>1, <3>3, <4>1, <4>2
        <3> QED
            BY <2>0, <3>1, <3>2, <3>3
    <2> QED
        BY <2>5, <2>6, <2>7 DEF r
<1> QED
    BY <1>1, <1>2

\* A row that is not on the list can be put at its end.
LEMMA AppendOne ==
    ASSUME NEW s \in Seq(Ids), NEW n \in Ids, n \notin ToSet(s),
           \A i, k \in 1 .. Len(s) : s[i] = s[k] => i = k
    PROVE  /\ Append(s, n) \in Seq(Ids)
           /\ \A i, k \in 1 .. Len(Append(s, n)) : Append(s, n)[i] = Append(s, n)[k] => i = k
           /\ ToSet(Append(s, n)) = ToSet(s) \cup {n}
<1> USE DEF ToSet
<1> DEFINE r == Append(s, n)
<1>1. /\ r \in Seq(Ids) /\ Len(r) = Len(s) + 1 /\ r[Len(s) + 1] = n
      /\ \A i \in 1 .. Len(s) : r[i] = s[i]
    OBVIOUS
<1>2. DOMAIN r = 1 .. Len(s) + 1 /\ DOMAIN s = 1 .. Len(s) /\ Len(s) \in Nat
    BY <1>1
<1> HIDE DEF r
<1>3. \A i \in 1 .. Len(s) : s[i] # n
    BY <1>2
<1>4. \A i, k \in 1 .. Len(r) : r[i] = r[k] => i = k
    <2>1. \A i \in 1 .. Len(r) : i = Len(s) + 1 \/ i \in 1 .. Len(s)
        BY <1>1, <1>2
    <2> QED
        BY <1>1, <1>2, <1>3, <2>1
<1>5. ToSet(r) = ToSet(s) \cup {n}
    <2>1. \A i \in 1 .. Len(s) + 1 : i = Len(s) + 1 \/ i \in 1 .. Len(s)
        BY <1>2
    <2>2. Len(s) + 1 \in DOMAIN r /\ \A i \in 1 .. Len(s) : i \in DOMAIN r
        BY <1>2
    <2> QED
        BY <1>1, <1>2, <2>1, <2>2
<1> QED
    BY <1>1, <1>4, <1>5 DEF r

\* What UpdateStatus does to the rows: it leaves each what it was but for the
\* status, and there where it was.
LEMMA UpdateStatusRows ==
    ASSUME RowsOK, NEW n \in Ids, NEW status \in Statuses, UpdateStatus(n, status)
    PROVE  /\ RowsOK'
           /\ \A m \in Ids : inst'[m] = NoRow <=> inst[m] = NoRow
           /\ \A m \in Ids : inst[m] # NoRow => inst'[m].db = inst[m].db
<1>0. inst \in [Ids -> Row \cup {NoRow}] /\ ready \in Seq(Ids)
    BY DEF RowsOK
<1>1. CASE inst[n] = NoRow
    BY <1>1 DEF UpdateStatus, RowsOK, ReadyRows
<1>2. CASE inst[n] # NoRow
    <2> DEFINE r == [inst[n] EXCEPT !.status = status]
    <2>1. inst[n] \in Row
        BY <1>0, <1>2
    <2>2. r \in Row /\ r.status = status /\ r.db = inst[n].db
        BY <2>1 DEF Row
    <2>3. /\ inst' = [inst EXCEPT ![n] = r]
          /\ ready' = IF status = "ready" THEN Append(Without(n), n) ELSE Without(n)
        BY <1>2 DEF UpdateStatus
    <2> HIDE DEF r
    <2>4. r # NoRow
        BY <2>2, NoRowAssumption
    <2>5. /\ inst' \in [Ids -> Row \cup {NoRow}] /\ inst'[n] = r
          /\ \A m \in Ids : m # n => inst'[m] = inst[m]
        BY <1>0, <2>2, <2>3
    <2>6. ReadyRows' = (ReadyRows \ {n}) \cup (IF status = "ready" THEN {n} ELSE {})
        BY <2>2, <2>4, <2>5 DEF ReadyRows
    <2>7. ToSet(ready) = ReadyRows
        BY DEF RowsOK
    <2>8. CASE status = "ready"
        <3>1. n \notin ToSet(Without(n))
            BY WithoutOne
        <3>2. ready' = Append(Without(n), n)
            BY <2>3, <2>8
        <3>3. /\ ready' \in Seq(Ids) /\ ToSet(ready') = ToSet(Without(n)) \cup {n}
              /\ \A i, k \in 1 .. Len(ready') : ready'[i] = ready'[k] => i = k
            BY <3>1, <3>2, WithoutOne, AppendOne
        <3>4. ToSet(ready') = ReadyRows'
            BY <2>6, <2>7, <2>8, <3>3, WithoutOne
        <3> QED
            BY <1>2, <2>2, <2>4, <2>5, <3>3, <3>4 DEF RowsOK, ToSet
    <2>9. CASE status # "ready"
        BY <2>3, <2>5, <2>6, <2>7, <2>9, <1>2, <2>4, <2>2, WithoutOne DEF RowsOK
    <2> QED
        BY <2>8, <2>9
<1> QED
    BY <1>1, <1>2

LEMMA DeleteRowRows ==
    ASSUME RowsOK, NEW n \in Ids, DeleteRow(n)
    PROVE  RowsOK' /\ inst'[n] = NoRow /\ \A m \in Ids \ {n} : inst'[m] = inst[m]
<1>1. /\ inst' \in [Ids -> Row \cup {NoRow}] /\ inst'[n] = NoRow
      /\ \A m \in Ids \ {n} : inst'[m] = inst[m]
    BY DEF DeleteRow, RowsOK
<1>2. ReadyRows' = ReadyRows \ {n}
    BY <1>1 DEF ReadyRows
<1> QED
    BY <1>1, <1>2, WithoutOne DEF DeleteRow, RowsOK

LEMMA InsertRows ==
    ASSUME RowsOK, NEW n \in Ids, inst[n] = NoRow, NEW s \in Slots, NEW t \in Types,
           NEW status \in Statuses, NEW db \in BOOLEAN, Insert(n, s, t, status, db)
    PROVE  /\ RowsOK' /\ inst'[n] # NoRow /\ inst'[n].db = db
           /\ \A m \in Ids \ {n} : inst'[m] = inst[m]
<1> DEFINE r == [slot |-> s, type |-> t, status |-> status, db |-> db]
<1>1. r \in Row /\ r.status = status /\ r.db = db
    BY DEF Row
<1>2. /\ inst' = [inst EXCEPT ![n] = r]
      /\ ready' = IF status = "ready" THEN Append(ready, n) ELSE ready
    BY DEF Insert
<1> HIDE DEF r
<1>3. r # NoRow
    BY <1>1, NoRowAssumption
<1>4. /\ inst' \in [Ids -> Row \cup {NoRow}] /\ inst'[n] = r
      /\ \A m \in Ids \ {n} : inst'[m] = inst[m]
    BY <1>1, <1>2 DEF RowsOK
<1>5. ReadyRows' = ReadyRows \cup (IF status = "ready" THEN {n} ELSE {})
    BY <1>1, <1>3, <1>4 DEF ReadyRows
<1>6. n \notin ReadyRows /\ ReadyRows = ToSet(ready)
    BY DEF ReadyRows, RowsOK
<1>7. RowsOK'
    <2>1. CASE status = "ready"
        BY <1>2, <1>4, <1>5, <1>6, <2>1, AppendOne DEF RowsOK
    <2>2. CASE status # "ready"
        BY <1>2, <1>4, <1>5, <1>6, <2>2 DEF RowsOK
    <2> QED
        BY <2>1, <2>2
<1> QED
    BY <1>1, <1>3, <1>4, <1>7

-----------------------------------------------------------------------------
(* What the other tables and lists look like after a step.                 *)

LEMMA StepsOfLists == ToSet(Chain) = Steps /\ ToSet(CleanUp) = {"user", "row", "schema", "db"}
<1>1. DOMAIN Chain = 1 .. 4 /\ DOMAIN CleanUp = 1 .. 4
    BY DEF Chain, CleanUp
<1>2. /\ Chain[1] = "db" /\ Chain[2] = "user" /\ Chain[3] = "schema" /\ Chain[4] = "account"
      /\ CleanUp[1] = "user" /\ CleanUp[2] = "row" /\ CleanUp[3] = "schema"
      /\ CleanUp[4] = "db"
    BY DEF Chain, CleanUp
<1>3. 1 .. 4 = {1, 2, 3, 4}
    OBVIOUS
<1> QED
    BY <1>1, <1>2, <1>3 DEF ToSet, Steps

\* The rest of a list that has more than one step ends as the list does.
LEMMA ChainBegins ==
    /\ Chain \in Seq(Steps) /\ Chain # <<>>
    /\ \A i \in 2 .. Len(Chain) : Chain[i] # "db"
<1>1. Chain \in Seq(Steps) /\ Chain # <<>> /\ Len(Chain) = 4
    BY DEF Chain, Steps
<1>2. Chain[2] = "user" /\ Chain[3] = "schema" /\ Chain[4] = "account"
    BY DEF Chain
<1>3. \A i \in 2 .. 4 : i = 2 \/ i = 3 \/ i = 4
    OBVIOUS
<1> QED
    BY <1>1, <1>2, <1>3

LEMMA RestOfList ==
    ASSUME NEW s \in Seq(Steps), s # <<>>, Len(s) # 1
    PROVE  Tail(s) \in Seq(Steps) /\ Tail(s) # <<>> /\ Tail(s)[Len(Tail(s))] = s[Len(s)]
<1> DEFINE t == Tail(s)
           l == Len(s)
<1>0. t \in Seq(Steps)
    OBVIOUS
<1>1. l \in Nat /\ l # 0
    OBVIOUS
<1>2. Len(t) = l - 1 /\ \A i \in 1 .. Len(t) : t[i] = s[i + 1]
    BY HeadTailProperties
<1>3. Len(<<>>) = 0
    OBVIOUS
<1> HIDE DEF t, l
<1>4. Len(t) \in 1 .. Len(t) /\ Len(t) + 1 = l
    BY <1>1, <1>2 DEF l
<1>5. t # <<>>
    BY <1>3, <1>4
<1> QED
    BY <1>0, <1>2, <1>4, <1>5 DEF t, l

LEMMA JobTyped ==
    ASSUME JobsOK, NEW n \in Ids, NEW r \in Jobs, JobShape(r),
           job' = [job EXCEPT ![n] = r]
    PROVE  JobsOK' /\ job'[n] = r /\ \A m \in Ids \ {n} : job'[m] = job[m]
<1>1. job' \in [Ids -> Jobs] /\ job'[n] = r /\ \A m \in Ids \ {n} : job'[m] = job[m]
    BY DEF JobsOK
<1>2. \A m \in Ids : JobShape(job'[m])
    BY <1>1 DEF JobsOK
<1> QED
    BY <1>1, <1>2 DEF JobsOK, JobShape

LEMMA NoJobTyped ==
    /\ NoJob \in Jobs /\ JobShape(NoJob)
    /\ \A pc \in {"ready", "failed", "over"} :
          /\ [NoJob EXCEPT !.pc = pc] \in Jobs
          /\ JobShape([NoJob EXCEPT !.pc = pc])
          /\ [NoJob EXCEPT !.pc = pc].pc = pc
<1>1. "wordpress" \in Types /\ <<>> \in Seq(Steps)
    BY AppBounds
<1> QED
    BY <1>1 DEF NoJob, Jobs, JobShape, JobPcs

LEMMA OverTyped ==
    ASSUME JobsOK, NEW n \in Ids, Over(n)
    PROVE  JobsOK' /\ job'[n].pc = "over" /\ \A m \in Ids \ {n} : job'[m] = job[m]
<1> DEFINE r == [NoJob EXCEPT !.pc = "over"]
<1>1. r \in Jobs /\ JobShape(r) /\ r.pc = "over"
    BY NoJobTyped
<1>2. job' = [job EXCEPT ![n] = r]
    BY DEF Over
<1> HIDE DEF r
<1> QED
    BY <1>1, <1>2, JobTyped

LEMMA AfterTyped ==
    ASSUME JobsOK, NEW n \in Ids, NEW ok \in BOOLEAN, After(n, ok)
    PROVE  /\ JobsOK' /\ job'[n].pc \in {"ready", "failed"}
           /\ \A m \in Ids \ {n} : job'[m] = job[m]
<1> DEFINE pc == IF ok THEN "ready" ELSE "failed"
           r == [NoJob EXCEPT !.pc = pc]
<1>0. pc \in {"ready", "failed"}
    OBVIOUS
<1>2. job' = [job EXCEPT ![n] = r]
    BY DEF After
<1> HIDE DEF pc
<1>1. r \in Jobs /\ JobShape(r) /\ r.pc = pc
    BY <1>0, NoJobTyped
<1> HIDE DEF r
<1> QED
    BY <1>0, <1>1, <1>2, JobTyped

\* A goroutine or request that only goes on to another of its steps.
LEMMA GotoTyped ==
    ASSUME JobsOK, NEW n \in Ids, NEW pc \in {"insert", "mark", "lookup", "agent"},
           job[n].pc \in {"chain", "insert", "mark", "lookup"},
           job' = [job EXCEPT ![n].pc = pc]
    PROVE  JobsOK' /\ job'[n].pc = pc /\ \A m \in Ids \ {n} : job'[m] = job[m]
<1> DEFINE r == [job[n] EXCEPT !.pc = pc]
<1>1. r \in Jobs /\ JobShape(r) /\ r.pc = pc
    BY DEF JobsOK, JobShape, Jobs, JobPcs
<1>2. job' = [job EXCEPT ![n] = r]
    BY DEF JobsOK
<1> HIDE DEF r
<1> QED
    BY <1>1, <1>2, JobTyped

\* Every compensation ends with the database's row; there is none when the first
\* step failed.
LEMMA UndoLists ==
    ASSUME NEW clone \in BOOLEAN, NEW x \in Steps \cup {"row"}, NEW list \in Undo(clone, x)
    PROVE  /\ list \in Seq(Steps)
           /\ list = <<>> => x = "db"
           /\ list # <<>> => list[Len(list)] = "db"
<1> DEFINE rows == <<"user", "db">>
           all == <<"account", "schema">> \o rows
           short == <<"schema">> \o rows
<1>1. /\ rows \in Seq(Steps) /\ Len(rows) = 2 /\ rows[2] = "db"
      /\ <<"account", "schema">> \in Seq(Steps) /\ Len(<<"account", "schema">>) = 2
      /\ <<"schema">> \in Seq(Steps) /\ Len(<<"schema">>) = 1
    BY DEF Steps
<1>2. all \in Seq(Steps) /\ Len(all) = 4 /\ all[4] = "db"
    BY <1>1, ConcatProperties
<1>3. short \in Seq(Steps) /\ Len(short) = 3 /\ short[3] = "db"
    BY <1>1, ConcatProperties
<1>4. ASSUME x = "db" PROVE list = <<>>
    <2>1. Undo(clone, "db") = {<<>>}
        BY DEF Undo
    <2> QED
        BY <1>4, <2>1
<1>5. x # "db" => list \in {rows, all, short}
    BY DEF Undo
<1> HIDE DEF rows, all, short
<1>6. CASE x = "db"
    BY <1>4, <1>6
<1>7. CASE x # "db"
    <2>0. /\ rows \in Seq(Steps) /\ Len(rows) # 0 /\ rows[Len(rows)] = "db"
          /\ all \in Seq(Steps) /\ Len(all) # 0 /\ all[Len(all)] = "db"
          /\ short \in Seq(Steps) /\ Len(short) # 0 /\ short[Len(short)] = "db"
        <3>1. /\ Len(rows) = 2 /\ rows[2] = "db" /\ Len(all) = 4 /\ all[4] = "db"
              /\ Len(short) = 3 /\ short[3] = "db"
            BY <1>1, <1>2, <1>3
        <3>2. rows[Len(rows)] = "db" /\ all[Len(all)] = "db" /\ short[Len(short)] = "db"
            BY <3>1, Zenon
        <3> QED
            BY <1>1, <1>2, <1>3, <3>2
    <2>1. ASSUME NEW l \in {rows, all, short}
          PROVE  l \in Seq(Steps) /\ Len(l) # 0 /\ l[Len(l)] = "db"
        BY <2>0
    <2>2. \A l \in Seq(Steps) : l = <<>> => Len(l) = 0
        OBVIOUS
    <2> QED
        BY <1>5, <1>7, <2>1, <2>2
<1> QED
    BY <1>6, <1>7

LEMMA GoUndoTyped ==
    ASSUME JobsOK, NEW n \in Ids, NEW x \in Steps \cup {"row"},
           job[n].pc \in {"chain", "insert"}, GoUndo(n, x)
    PROVE  /\ JobsOK' /\ \A m \in Ids \ {n} : job'[m] = job[m]
           /\ \/ job'[n].pc = "undo"
              \/ job'[n].pc = "over" /\ x = "db"
<1>0. job[n] \in Jobs /\ job[n].clone \in BOOLEAN /\ JobShape(job[n])
    BY DEF JobsOK, Jobs
<1>1. PICK list \in Undo(job[n].clone, x) :
        IF list = <<>> THEN Over(n)
        ELSE job' = [job EXCEPT ![n].pc = "undo", ![n].todo = list]
    BY DEF GoUndo
<1>2. /\ list \in Seq(Steps) /\ (list = <<>> => x = "db")
      /\ list # <<>> => list[Len(list)] = "db"
    BY <1>0, UndoLists
<1>3. CASE list = <<>>
    BY <1>1, <1>2, <1>3, OverTyped
<1>4. CASE list # <<>>
    <2> DEFINE r == [job[n] EXCEPT !.pc = "undo", !.todo = list]
    <2>1. r \in Jobs /\ r.pc = "undo"
        BY <1>0, <1>2 DEF Jobs, JobPcs
    <2>2. r.todo = list /\ r.slot = job[n].slot /\ r.clone = job[n].clone /\ r.src = job[n].src
        BY <1>0 DEF Jobs
    <2>3. job' = [job EXCEPT ![n] = r]
        BY <1>0, <1>1, <1>4 DEF JobsOK
    <2> HIDE DEF r
    <2>4. JobShape(r)
        BY <1>0, <1>2, <1>4, <2>1, <2>2 DEF JobShape
    <2> QED
        BY <2>1, <2>3, <2>4, JobTyped
<1> QED
    BY <1>3, <1>4

\* Removing a part removes no other install's, and takes the install's own row
\* along only with the database's row.
LEMMA RemovePartTyped ==
    ASSUME RowsOK, HostOK, NEW n \in Ids, NEW x, RemovePart(n, x)
    PROVE  /\ RowsOK' /\ parts' \in [Ids -> SUBSET Parts]
           /\ parts'[n] \subseteq parts[n] /\ (x = "db" => "db" \notin parts'[n])
           /\ inst'[n] = inst[n] \/ (inst'[n] = NoRow /\ x = "db")
           /\ \A m \in Ids \ {n} : parts'[m] = parts[m] /\ inst'[m] = inst[m]
<1>1. PICK gone : /\ parts' = [parts EXCEPT ![n] = parts[n] \ gone]
                  /\ x = "db" => gone = {"db", "grant"}
    <2> DEFINE g == CASE x = "db" -> {"db", "grant"}
                      [] x = "user" -> {"user", "grant"}
                      [] OTHER -> {x}
    <2>1. parts' = [parts EXCEPT ![n] = parts[n] \ g]
        BY Zenon DEF RemovePart
    <2>2. x = "db" => g = {"db", "grant"}
        OBVIOUS
    <2> QED
        BY <2>1, <2>2
<1>2. /\ parts' \in [Ids -> SUBSET Parts] /\ parts'[n] = parts[n] \ gone
      /\ \A m \in Ids \ {n} : parts'[m] = parts[m]
    BY <1>1 DEF HostOK
<1>3. (x = "db" /\ DeleteRow(n)) \/ UNCHANGED <<inst, ready>>
    BY DEF RemovePart
<1>4. CASE x = "db" /\ DeleteRow(n)
    BY <1>1, <1>2, <1>4, DeleteRowRows
<1>5. CASE UNCHANGED <<inst, ready>>
    BY <1>1, <1>2, <1>5 DEF RowsOK, ReadyRows
<1> QED
    BY <1>3, <1>4, <1>5

LEMMA NoDelTyped == NoDel \in Dels /\ NoDel.pc = "idle"
BY AppBounds DEF NoDel, Dels, DelPcs

LEMMA DelTyped ==
    ASSUME DelsOK, NEW n \in Ids, NEW w \in Deleters, NEW r \in Dels,
           del' = [del EXCEPT ![n][w] = r]
    PROVE  /\ del' \in [Ids -> [Deleters -> Dels]] /\ del'[n][w] = r
           /\ \A v \in Deleters \ {w} : del'[n][v] = del[n][v]
           /\ \A m \in Ids \ {n} : del'[m] = del[m]
BY DEF DelsOK

\* The order of a cleanup.
LEMMA ThenTyped ==
    ASSUME DelsOK, NEW n \in Ids, NEW w \in Deleters,
           NEW x \in {"user", "row", "schema", "db"}
    PROVE  /\ Then(n, w, x) \in Dels
           /\ x = "db" => Then(n, w, x) = NoDel
           /\ x = "schema" => Then(n, w, x).pc = "db"
           /\ x = "row" /\ del[n][w].db => Then(n, w, x).pc = "schema"
           /\ Then(n, w, x) = NoDel \/ Then(n, w, x).db = del[n][w].db
<1> DEFINE i == CHOOSE i \in 1 .. 3 : CleanUp[i] = x
           r == [del[n][w] EXCEPT !.pc = CleanUp[1 + i]]
<1>0. del[n][w] \in Dels
    BY DEF DelsOK
<1>1. CleanUp[1] = "user" /\ CleanUp[2] = "row" /\ CleanUp[3] = "schema" /\ CleanUp[4] = "db"
    BY DEF CleanUp
<1>2. CASE x = "db" \/ (x = "row" /\ ~ del[n][w].db)
    <2>1. Then(n, w, x) = NoDel
        BY <1>2 DEF Then
    <2> QED
        BY <1>2, <2>1, NoDelTyped
<1>3. CASE ~ (x = "db" \/ (x = "row" /\ ~ del[n][w].db))
    <2>1. Then(n, w, x) = r
        BY <1>3 DEF Then
    <2>2. PICK k \in 1 .. 3 : CleanUp[k] = x
        BY <1>1, <1>3
    <2>3. i \in 1 .. 3 /\ CleanUp[i] = x
        BY <2>2
    <2> HIDE DEF i
    <2>4. /\ CleanUp[1 + i] \in DelPcs
          /\ x = "schema" => CleanUp[1 + i] = "db"
          /\ x = "row" => CleanUp[1 + i] = "schema"
        <3>1. i = 1 \/ i = 2 \/ i = 3
            BY <2>3
        <3> QED
            BY <1>1, <2>3, <3>1 DEF DelPcs
    <2>5. r \in Dels /\ r.pc = CleanUp[1 + i] /\ r.db = del[n][w].db
        BY <1>0, <2>4 DEF Dels
    <2> QED
        BY <1>3, <2>1, <2>4, <2>5
<1> QED
    BY <1>2, <1>3

LEMMA FirstStepTyped ==
    ASSUME DelsOK, NEW n \in Ids, NEW w \in Deleters
    PROVE  /\ FirstStep(n, w) \in Dels /\ FirstStep(n, w).db = del[n][w].db
           /\ FirstStep(n, w).pc \in {"user", "row"}
<1>0. del[n][w] \in Dels
    BY DEF DelsOK
<1> QED
    BY <1>0 DEF FirstStep, Dels, DelPcs

LEMMA FilesTyped ==
    ASSUME HostOK
    PROVE  /\ \A s, t : Erased(s, t) \in [Slots -> SUBSET Types]
           /\ \A src \in Domains : \A dst : Rsync(src, dst) \in [Slots -> SUBSET Types]
<1>0. files \in [Slots -> SUBSET Types]
    BY DEF HostOK
<1>1. ASSUME NEW s, NEW t PROVE Erased(s, t) \in [Slots -> SUBSET Types]
    BY <1>0 DEF Erased
<1>2. ASSUME NEW src \in Domains, NEW dst PROVE Rsync(src, dst) \in [Slots -> SUBSET Types]
    <2>1. \A b \in Subs : files[<<src, b>>] \in SUBSET Types
        BY <1>0 DEF Slots
    <2>2. \A s \in Slots : s[2] \in Subs
        BY DEF Slots
    <2>3. Root \in Subs
        BY AppBounds
    <2> QED
        BY <1>0, <2>1, <2>2, <2>3 DEF Rsync
<1> QED
    BY <1>1, <1>2

LEMMA FaultTyped == Counters /\ Fault => faults' \in 0 .. MaxFaults
BY AppBounds DEF Counters, Fault

-----------------------------------------------------------------------------
(* A step of one install.                                                  *)

\* To another install nothing happens but a change of its row's status.
Same(m) ==
    /\ (inst'[m] = NoRow) <=> (inst[m] = NoRow)
    /\ inst[m] # NoRow => inst'[m].db = inst[m].db
    /\ parts'[m] = parts[m] /\ del'[m] = del[m] /\ dbdel'[m] = dbdel[m]
    /\ job'[m] = job[m]

\* What was set adrift stays adrift.
Steady == adrift \subseteq adrift'

LEMMA HistorySame ==
    ASSUME NEW m \in Ids, History(m), Same(m), Steady
    PROVE  History(m)'
BY DEF History, Alone, Unmade, Kept, Same, Steady

LEMMA OneInstall ==
    ASSUME IInv, NEW n \in Ids, Steady, \A m \in Ids \ {n} : Same(m), History(n)',
           RowsOK', HostOK', JobsOK', DelsOK', PassOK', Counters'
    PROVE  IInv'
<1>1. ASSUME NEW m \in Ids PROVE History(m)'
    <2>1. CASE m = n
        BY <2>1
    <2>2. CASE m # n
        <3>1. Same(m) /\ History(m)
            BY <2>2 DEF IInv
        <3> QED
            BY <3>1, HistorySame
    <2> QED
        BY <2>1, <2>2
<1>2. (\A m \in Ids : History(m))'
    BY <1>1
<1> QED
    BY <1>2 DEF IInv

LEMMA Unchanged ==
    /\ RowsOK /\ UNCHANGED <<inst, ready>> => RowsOK'
    /\ HostOK /\ UNCHANGED <<parts, files>> => HostOK'
    /\ JobsOK /\ UNCHANGED job => JobsOK'
    /\ DelsOK /\ UNCHANGED <<del, dbdel>> => DelsOK'
    /\ PassOK /\ UNCHANGED pass => PassOK'
    /\ Counters /\ UNCHANGED <<asked, faults>> => Counters'
BY DEF RowsOK, ReadyRows, HostOK, JobsOK, JobShape, DelsOK, PassOK, Counters

\* UNCHANGED bounds, or one fault more.
LEMMA Faulty ==
    ASSUME Counters, UNCHANGED asked, UNCHANGED faults \/ Fault
    PROVE  Counters'
BY FaultTyped DEF Counters

LEMMA RequestInstallIInv ==
    ASSUME IInv, NEW n \in Ids, NEW s \in Slots, NEW t \in Types, RequestInstall(n, s, t)
    PROVE  IInv'
<1> USE DEF IInv
<1> DEFINE r == [NoJob EXCEPT !.pc = "chain", !.slot = s, !.type = t, !.todo = Chain]
<1>1. job[n].pc = "none" /\ job' = [job EXCEPT ![n] = r]
    BY DEF RequestInstall, FreshId
<1>2. UNCHANGED <<inst, parts, files, ready, del, dbdel, pass, asked, adrift, faults>>
    BY DEF RequestInstall
<1>3. Chain \in Seq(Steps) /\ Chain # <<>> /\ \A i \in 2 .. Len(Chain) : Chain[i] # "db"
    BY ChainBegins
<1>4. r \in Jobs /\ JobShape(r) /\ r.pc = "chain"
    BY <1>3 DEF NoJob, Jobs, JobPcs, JobShape
<1> HIDE DEF r
<1>5. JobsOK' /\ job'[n] = r /\ \A m \in Ids \ {n} : job'[m] = job[m]
    BY <1>1, <1>4, JobTyped
<1>6. History(n)'
    BY <1>1, <1>2, <1>4, <1>5 DEF History, Alone, Unmade, Kept, Early
<1>7. Steady /\ \A m \in Ids \ {n} : Same(m)
    BY <1>2, <1>5 DEF Same, Steady
<1> QED
    BY <1>2, <1>5, <1>6, <1>7, Unchanged, OneInstall

LEMMA RequestCloneIInv ==
    ASSUME IInv, NEW n \in Ids, NEW q \in Ids, NEW d \in Domains, RequestClone(n, q, d)
    PROVE  IInv'
<1> USE DEF IInv
<1> DEFINE s == <<d, inst[q].slot[2]>>
           r == [NoJob EXCEPT !.pc = "chain", !.clone = TRUE, !.slot = s,
                              !.src = inst[q].slot[1], !.todo = Chain]
<1>1. job[n].pc = "none" /\ job' = [job EXCEPT ![n] = r]
    BY DEF RequestClone, FreshId
<1>2. UNCHANGED <<inst, parts, files, ready, del, dbdel, pass, asked, adrift, faults>>
    BY DEF RequestClone
<1>3. /\ Chain \in Seq(Steps) /\ Chain # <<>> /\ "wordpress" \in Types
      /\ \A i \in 2 .. Len(Chain) : Chain[i] # "db"
    BY AppBounds, ChainBegins
<1>4. s \in Slots /\ inst[q].slot[1] \in Domains
    <2>1. inst[q] \in Row
        BY DEF RequestClone, RowsOK
    <2> QED
        BY <2>1 DEF Row, Slots
<1>5. r \in Jobs /\ JobShape(r) /\ r.pc = "chain"
    BY <1>3, <1>4 DEF NoJob, Jobs, JobPcs, JobShape
<1> HIDE DEF r
<1>6. JobsOK' /\ job'[n] = r /\ \A m \in Ids \ {n} : job'[m] = job[m]
    BY <1>1, <1>5, JobTyped
<1>7. History(n)'
    BY <1>1, <1>2, <1>5, <1>6 DEF History, Alone, Unmade, Kept, Early
<1>8. Steady /\ \A m \in Ids \ {n} : Same(m)
    BY <1>2, <1>6 DEF Same, Steady
<1> QED
    BY <1>2, <1>6, <1>7, <1>8, Unchanged, OneInstall

\* The chain makes parts while nobody but the request knows of the install.
LEMMA ChainStepIInv ==
    ASSUME IInv, NEW n \in Ids, ChainStep(n)
    PROVE  IInv'
<1> USE DEF IInv
<1> DEFINE x == Head(job[n].todo)
<1>0. UNCHANGED <<inst, files, ready, del, dbdel, pass, asked, adrift>> /\ job[n].pc = "chain"
    BY DEF ChainStep
<1>1. job[n] \in Jobs /\ JobShape(job[n]) /\ job[n].todo \in Seq(Steps) /\ job[n].todo # <<>>
    BY <1>0 DEF JobsOK, JobShape, Jobs
<1>2. x \in Steps /\ Tail(job[n].todo) \in Seq(Steps)
    BY <1>1
<1>3. /\ UNCHANGED faults \/ Fault
      /\ \E new \in SUBSET Parts : parts' = [parts EXCEPT ![n] = parts[n] \cup new]
    <2>1. MadeBy(x) \in SUBSET Parts /\ {"user"} \in SUBSET Parts
        BY <1>2 DEF MadeBy, Parts, Steps
    <2>2. \A left \in LeftBy(x) : left \in SUBSET Parts
        BY <1>2 DEF LeftBy, Parts, Steps
    <2> QED
        BY <2>1, <2>2 DEF ChainStep
<1>4. /\ HostOK' /\ Counters' /\ Steady /\ RowsOK' /\ DelsOK' /\ PassOK'
      /\ \A m \in Ids \ {n} : parts'[m] = parts[m]
    <2>1. parts' \in [Ids -> SUBSET Parts] /\ \A m \in Ids \ {n} : parts'[m] = parts[m]
        BY <1>3 DEF HostOK
    <2> QED
        BY <1>0, <1>3, <2>1, Unchanged, Faulty DEF HostOK, Steady
<1>5. /\ JobsOK' /\ \A m \in Ids \ {n} : job'[m] = job[m]
      /\ \/ job'[n].pc \in {"insert", "undo"}
         \/ job'[n].pc = "chain" /\ job'[n].todo[1] # "db"
         \/ job'[n].pc = "over" /\ x = "db" /\ UNCHANGED parts
    <2>1. CASE job' = [job EXCEPT ![n].todo = Tail(@),
                                  ![n].pc = IF Len(job[n].todo) = 1 THEN "insert" ELSE @]
        <3> DEFINE pc == IF Len(job[n].todo) = 1 THEN "insert" ELSE "chain"
                   r == [job[n] EXCEPT !.todo = Tail(job[n].todo), !.pc = pc]
        <3>1. r \in Jobs /\ r.pc = pc /\ r.todo = Tail(job[n].todo) /\ r.slot = job[n].slot
              /\ r.clone = job[n].clone /\ r.src = job[n].src
            BY <1>1, <1>2 DEF Jobs, JobPcs
        <3>2. job' = [job EXCEPT ![n] = r]
            BY <1>0, <1>1, <2>1 DEF JobsOK
        <3>3. pc = "chain" => Tail(job[n].todo) # <<>>
            BY <1>1, RestOfList
        <3>6. /\ \A i \in 2 .. Len(Tail(job[n].todo)) : Tail(job[n].todo)[i] # "db"
              /\ pc = "chain" => Tail(job[n].todo)[1] # "db"
            <4> DEFINE s == job[n].todo
            <4>1. s \in Seq(Steps) /\ s # <<>> /\ \A i \in 2 .. Len(s) : s[i] # "db"
                BY <1>0, <1>1 DEF JobShape
            <4> HIDE DEF s
            <4>2. /\ Len(Tail(s)) = Len(s) - 1 /\ Len(s) \in Nat
                  /\ \A i \in 1 .. Len(s) - 1 : Tail(s)[i] = s[i + 1]
                BY <4>1
            <4>3. \A i \in 1 .. Len(s) - 1 : Tail(s)[i] # "db"
                BY <4>1, <4>2
            <4>4. Len(s) # 1 => 1 \in 1 .. Len(s) - 1
                BY <4>1, <4>2
            <4>5. \A i \in 2 .. Len(Tail(s)) : Tail(s)[i] # "db"
                BY <4>2, <4>3
            <4>6. pc = "chain" => Tail(s)[1] # "db"
                <5>1. pc = "chain" => Len(s) # 1
                    BY DEF s
                <5> QED
                    BY <4>3, <4>4, <5>1
            <4> QED
                BY <4>5, <4>6 DEF s
        <3>4. pc \in {"chain", "insert"}
            OBVIOUS
        <3> HIDE DEF r, pc
        <3>5. JobShape(r)
            BY <1>0, <1>1, <3>1, <3>3, <3>4, <3>6 DEF JobShape
        <3> QED
            BY <3>1, <3>2, <3>4, <3>5, <3>6, JobTyped
    <2>2. CASE GoUndo(n, x) /\ x # "db"
        BY <1>0, <1>2, <2>2, GoUndoTyped
    <2>3. CASE GoUndo(n, x) /\ x = "db" /\ UNCHANGED parts
        BY <1>0, <1>2, <2>3, GoUndoTyped
    <2>4. \/ job' = [job EXCEPT ![n].todo = Tail(@),
                                ![n].pc = IF Len(job[n].todo) = 1 THEN "insert" ELSE @]
          \/ GoUndo(n, x) /\ (x # "db" \/ UNCHANGED parts)
        <3>1. \A left \in LeftBy(x) : x = "db" => left = {}
            BY DEF LeftBy
        <3>2. ASSUME x = "db", \E left \in LeftBy(x) : parts' = [parts EXCEPT ![n] = @ \cup left]
              PROVE  UNCHANGED parts
            BY <3>1, <3>2 DEF HostOK
        <3> QED
            BY <3>2 DEF ChainStep
    <2> QED
        BY <2>1, <2>2, <2>3, <2>4
<1>6. History(n)'
    <2>1. inst'[n] = NoRow /\ \A w \in Deleters : del'[n][w].pc = "idle"
        BY <1>0 DEF History, Alone, Early
    <2> QED
        <3>1. x = job[n].todo[1]
            BY <1>1
        <3>2. job'[n].pc = "over" => parts'[n] = {}
            BY <1>0, <1>5, <3>1 DEF History, Unmade
        <3> QED
            BY <1>0, <1>5, <2>1, <3>2 DEF History, Alone, Unmade, Kept, Early
<1>7. \A m \in Ids \ {n} : Same(m)
    BY <1>0, <1>4, <1>5 DEF Same
<1> QED
    BY <1>4, <1>5, <1>6, <1>7, OneInstall

\* The last step of the compensation removes the database's row.
LEMMA UndoStepIInv ==
    ASSUME IInv, NEW n \in Ids, UndoStep(n)
    PROVE  IInv'
<1> USE DEF IInv
<1> DEFINE x == Head(job[n].todo)
<1>0. UNCHANGED <<files, del, dbdel, pass, asked>> /\ job[n].pc = "undo"
    BY DEF UndoStep
<1>1. /\ job[n] \in Jobs /\ JobShape(job[n]) /\ job[n].todo \in Seq(Steps)
      /\ job[n].todo # <<>> /\ job[n].todo[Len(job[n].todo)] = "db"
    BY <1>0 DEF JobsOK, JobShape, Jobs
<1>2. inst[n] = NoRow /\ \A w \in Deleters : del[n][w].pc = "idle"
    BY <1>0 DEF History, Alone, Early
<1>3. \/ RemovePart(n, x) /\ UNCHANGED <<adrift, faults>>
      \/ /\ Fault /\ UNCHANGED <<inst, ready, parts>>
         /\ adrift' = IF x = "db" THEN adrift \cup {n} ELSE adrift
    BY DEF UndoStep
<1>4. /\ RowsOK' /\ HostOK' /\ inst'[n] = NoRow
      /\ x = "db" => "db" \notin parts'[n] \/ n \in adrift'
      /\ \A m \in Ids \ {n} : parts'[m] = parts[m] /\ inst'[m] = inst[m]
    <2>1. CASE RemovePart(n, x)
        BY <1>0, <1>2, <2>1, RemovePartTyped DEF HostOK
    <2>2. CASE /\ Fault /\ UNCHANGED <<inst, ready, parts>>
               /\ adrift' = IF x = "db" THEN adrift \cup {n} ELSE adrift
        BY <1>0, <1>2, <2>2, Unchanged
    <2> QED
        BY <1>3, <2>1, <2>2
<1>5. Counters' /\ Steady /\ DelsOK' /\ PassOK'
    BY <1>0, <1>3, Faulty, Unchanged DEF Steady
<1>6. /\ JobsOK' /\ \A m \in Ids \ {n} : job'[m] = job[m]
      /\ job'[n].pc = "undo" \/ (job'[n].pc = "over" /\ x = "db")
    <2>1. CASE Len(job[n].todo) = 1
        <3>1. x = "db"
            BY <1>1, <2>1
        <3>2. Over(n)
            BY <2>1 DEF UndoStep
        <3> QED
            BY <3>1, <3>2, OverTyped
    <2>2. CASE Len(job[n].todo) # 1
        <3> DEFINE t == Tail(job[n].todo)
                   r == [job[n] EXCEPT !.todo = t]
        <3>1. t \in Seq(Steps) /\ t # <<>> /\ t[Len(t)] = "db"
            BY <1>1, <2>2, RestOfList
        <3>2. job' = [job EXCEPT ![n].todo = Tail(@)]
            BY <2>2 DEF UndoStep
        <3>3. job' = [job EXCEPT ![n] = r]
            BY <1>1, <3>2 DEF JobsOK
        <3> HIDE DEF t
        <3>4. /\ r \in Jobs /\ r.pc = "undo" /\ r.todo = t /\ r.slot = job[n].slot
              /\ r.clone = job[n].clone /\ r.src = job[n].src
            BY <1>0, <1>1, <3>1 DEF Jobs, JobPcs
        <3> HIDE DEF r
        <3>5. JobShape(r)
            BY <1>0, <1>1, <3>1, <3>4 DEF JobShape
        <3> QED
            BY <3>3, <3>4, <3>5, JobTyped
    <2> QED
        BY <2>1, <2>2
<1>7. History(n)'
    BY <1>0, <1>2, <1>4, <1>6 DEF History, Alone, Unmade, Kept, Early
<1>8. \A m \in Ids \ {n} : Same(m)
    BY <1>0, <1>4, <1>6 DEF Same
<1> QED
    BY <1>4, <1>5, <1>6, <1>7, <1>8, OneInstall

\* The row takes the database over from the request.
LEMMA InsertRowIInv ==
    ASSUME IInv, NEW n \in Ids, InsertRow(n)
    PROVE  IInv'
<1> USE DEF IInv
<1>0. UNCHANGED <<parts, files, del, dbdel, pass, asked, adrift>> /\ job[n].pc = "insert"
    BY DEF InsertRow
<1>1. job[n] \in Jobs /\ job[n].slot \in Slots /\ job[n].type \in Types /\ job[n].clone \in BOOLEAN
    BY <1>0 DEF JobsOK, JobShape, Jobs
<1>2. inst[n] = NoRow /\ \A w \in Deleters : del[n][w].pc = "idle"
    BY <1>0 DEF History, Alone, Early
<1>3. HostOK' /\ DelsOK' /\ PassOK'
    BY <1>0, Unchanged
<1>4. Counters' /\ Steady
    <2>1. UNCHANGED faults \/ Fault
        BY DEF InsertRow
    <2> QED
        BY <1>0, <2>1, Faulty DEF Steady
<1> DEFINE status == IF job[n].clone THEN "cloning" ELSE "pending"
           pc == IF job[n].clone THEN "lookup" ELSE "mark"
<1>5. \/ /\ Insert(n, job[n].slot, job[n].type, status, TRUE)
         /\ job' = [job EXCEPT ![n].pc = pc]
      \/ GoUndo(n, "row") /\ UNCHANGED <<inst, ready>>
    BY DEF InsertRow
<1>6. status \in Statuses /\ pc \in {"lookup", "mark"}
    BY DEF Statuses, InProgress
<1> HIDE DEF status, pc
<1>7. CASE /\ Insert(n, job[n].slot, job[n].type, status, TRUE)
           /\ job' = [job EXCEPT ![n].pc = pc]
    <2>1. /\ RowsOK' /\ inst'[n] # NoRow /\ inst'[n].db = TRUE
          /\ \A m \in Ids \ {n} : inst'[m] = inst[m]
        BY <1>1, <1>2, <1>6, <1>7, InsertRows
    <2>2. JobsOK' /\ job'[n].pc = pc /\ \A m \in Ids \ {n} : job'[m] = job[m]
        BY <1>0, <1>6, <1>7, GotoTyped
    <2>3. History(n)'
        BY <1>0, <1>2, <1>6, <2>1, <2>2 DEF History, Alone, Unmade, Kept, Early
    <2>4. \A m \in Ids \ {n} : Same(m)
        BY <1>0, <2>1, <2>2 DEF Same
    <2> QED
        BY <1>3, <1>4, <2>1, <2>2, <2>3, <2>4, OneInstall
<1>8. CASE GoUndo(n, "row") /\ UNCHANGED <<inst, ready>>
    <2>1. JobsOK' /\ job'[n].pc = "undo" /\ \A m \in Ids \ {n} : job'[m] = job[m]
        BY <1>0, <1>8, GoUndoTyped
    <2>2. History(n)'
        BY <1>0, <1>2, <1>8, <2>1 DEF History, Alone, Unmade, Kept, Early
    <2>3. \A m \in Ids \ {n} : Same(m)
        BY <1>0, <1>8, <2>1 DEF Same
    <2> QED
        BY <1>3, <1>4, <1>8, <2>1, <2>2, <2>3, Unchanged, OneInstall
<1> QED
    BY <1>5, <1>7, <1>8

LEMMA HandlerGoneIInv ==
    ASSUME IInv, NEW n \in Ids, HandlerGone(n)
    PROVE  IInv'
<1> USE DEF IInv
<1>1. /\ UNCHANGED <<inst, parts, files, ready, del, dbdel, pass, asked>> /\ Fault /\ Over(n)
      /\ adrift' = adrift \cup {n}
    BY DEF HandlerGone
<1>2. JobsOK' /\ job'[n].pc = "over" /\ \A m \in Ids \ {n} : job'[m] = job[m]
    BY <1>1, OverTyped
<1>3. Counters' /\ Steady
    BY <1>1, Faulty DEF Steady
<1>4. History(n)'
    BY <1>1, <1>2, <1>3 DEF History, Alone, Unmade, Kept, Early
<1>5. \A m \in Ids \ {n} : Same(m)
    BY <1>1, <1>2 DEF Same
<1> QED
    BY <1>1, <1>2, <1>3, <1>4, <1>5, Unchanged, OneInstall

\* Once the row is inserted a goroutine owns nothing: what it does, and that it
\* ends, leaves the owners of the database as they are.
LEMMA GoroutineIInv ==
    ASSUME IInv, NEW n \in Ids, job[n].pc \notin Early \cup {"over"},
           job'[n].pc \notin Early, \A m \in Ids \ {n} : job'[m] = job[m],
           \A m \in Ids : (inst'[m] = NoRow) <=> (inst[m] = NoRow),
           \A m \in Ids : inst[m] # NoRow => inst'[m].db = inst[m].db,
           UNCHANGED <<parts, del, dbdel, pass, asked, adrift>>, UNCHANGED faults \/ Fault,
           RowsOK', HostOK', JobsOK'
    PROVE  IInv'
<1> USE DEF IInv
<1>1. DelsOK' /\ PassOK' /\ Counters' /\ Steady
    BY Unchanged, Faulty DEF Steady
<1>2. History(n)'
    BY <1>1 DEF History, Alone, Unmade, Kept, Early, Steady
<1>3. \A m \in Ids \ {n} : Same(m)
    BY DEF Same
<1> QED
    BY <1>1, <1>2, <1>3, OneInstall

LEMMA JobStepIInv ==
    ASSUME IInv, NEW n \in Ids,
           Mark(n) \/ AgentInstall(n) \/ CloneLookup(n) \/ AgentClone(n) \/ WriteStatus(n)
    PROVE  IInv'
<1> USE DEF IInv
<1>0. UNCHANGED <<parts, del, dbdel, pass, asked, adrift>> /\ (UNCHANGED faults \/ Fault)
    BY DEF Mark, AgentInstall, CloneLookup, AgentClone, WriteStatus
<1>1. job[n].pc \in {"mark", "agent", "lookup", "ready", "failed"}
    BY DEF Mark, AgentInstall, CloneLookup, AgentClone, WriteStatus
<1>2. job[n].pc \notin Early \cup {"over"}
    BY <1>1 DEF Early
<1>3. /\ RowsOK'
      /\ \A m \in Ids : (inst'[m] = NoRow) <=> (inst[m] = NoRow)
      /\ \A m \in Ids : inst[m] # NoRow => inst'[m].db = inst[m].db
    <2>1. \/ UNCHANGED <<inst, ready>>
          \/ \E status \in {"installing", "ready", "failed"} : UpdateStatus(n, status)
        BY DEF Mark, AgentInstall, CloneLookup, AgentClone, WriteStatus
    <2>2. {"installing", "ready", "failed"} \subseteq Statuses
        BY DEF Statuses, InProgress
    <2>3. CASE UNCHANGED <<inst, ready>>
        BY <2>3, Unchanged
    <2>4. ASSUME NEW status \in {"installing", "ready", "failed"}, UpdateStatus(n, status)
          PROVE  /\ RowsOK'
                 /\ \A m \in Ids : (inst'[m] = NoRow) <=> (inst[m] = NoRow)
                 /\ \A m \in Ids : inst[m] # NoRow => inst'[m].db = inst[m].db
        <3>1. status \in Statuses
            BY <2>2
        <3> QED
            BY <2>4, <3>1, UpdateStatusRows
    <2> QED
        BY <2>1, <2>3, <2>4
<1>4. HostOK'
    <2>0. job[n] \in Jobs /\ JobShape(job[n]) /\ files \in [Slots -> SUBSET Types]
        BY DEF JobsOK, HostOK
    <2>1. CASE Mark(n) \/ CloneLookup(n) \/ WriteStatus(n)
        BY <2>1, Unchanged DEF Mark, CloneLookup, WriteStatus
    <2>2. CASE AgentInstall(n)
        <3> DEFINE with == [files EXCEPT ![job[n].slot] = @ \cup {job[n].type}]
                   none == [files EXCEPT ![job[n].slot] = @ \ {job[n].type}]
        <3>1. job[n].type \in Types
            BY <2>0 DEF Jobs
        <3>2. {files, with, none} \subseteq [Slots -> SUBSET Types]
            <4>1. with \in [Slots -> SUBSET Types]
                BY <2>0, <3>1
            <4>2. none \in [Slots -> SUBSET Types]
                BY <2>0, <3>1
            <4> HIDE DEF with, none
            <4> QED
                BY <2>0, <4>1, <4>2
        <3>3. files' \in {files, with, none}
            BY <2>2 DEF AgentInstall
        <3> QED
            BY <1>0, <3>2, <3>3 DEF HostOK
    <2>3. CASE AgentClone(n)
        <3>1. job[n].src \in Domains
            BY <2>0, <2>3 DEF AgentClone, JobShape
        <3>2. files' \in {files, Rsync(job[n].src, job[n].slot)}
            BY <2>3 DEF AgentClone
        <3> QED
            BY <1>0, <2>0, <3>1, <3>2, FilesTyped DEF HostOK
    <2> QED
        BY <2>1, <2>2, <2>3
<1>5. JobsOK' /\ job'[n].pc \notin Early /\ \A m \in Ids \ {n} : job'[m] = job[m]
    <2>1. CASE Over(n)
        BY <2>1, OverTyped DEF Early
    <2>2. ASSUME NEW ok \in BOOLEAN, After(n, ok)
          PROVE  JobsOK' /\ job'[n].pc \notin Early /\ \A m \in Ids \ {n} : job'[m] = job[m]
        BY <2>2, AfterTyped DEF Early
    <2>3. CASE Mark(n) /\ job' = [job EXCEPT ![n].pc = "agent"]
        BY <2>3, GotoTyped DEF Mark, Early
    <2>4. ASSUME NEW q \in Ids, job[n].pc = "lookup",
                 job' = [job EXCEPT ![n].pc = "agent", ![n].from = q]
          PROVE  JobsOK' /\ job'[n].pc \notin Early /\ \A m \in Ids \ {n} : job'[m] = job[m]
        <3> DEFINE r == [job[n] EXCEPT !.pc = "agent", !.from = q]
        <3>0. job[n] \in Jobs /\ JobShape(job[n]) /\ q \in Nat
            BY AppBounds DEF JobsOK, Ids
        <3>1. /\ r \in Jobs /\ r.pc = "agent" /\ r.slot = job[n].slot
              /\ r.clone = job[n].clone /\ r.src = job[n].src
            BY <3>0 DEF Jobs, JobPcs
        <3>2. job' = [job EXCEPT ![n] = r]
            BY <2>4, <3>0 DEF JobsOK
        <3> HIDE DEF r
        <3>3. JobShape(r)
            BY <2>4, <3>0, <3>1 DEF JobShape
        <3> QED
            BY <3>1, <3>2, <3>3, JobTyped DEF Early
    <2>5. CASE Mark(n)
        BY <2>1, <2>3, <2>5 DEF Mark
    <2>6. CASE AgentInstall(n)
        <3>1. After(n, TRUE) \/ After(n, FALSE) \/ Over(n)
            BY <2>6 DEF AgentInstall
        <3> QED
            BY <2>1, <2>2, <3>1
    <2>7. CASE CloneLookup(n)
        <3>1. \/ After(n, FALSE)
              \/ \E q \in Ids : job' = [job EXCEPT ![n].pc = "agent", ![n].from = q]
            BY <2>7 DEF CloneLookup
        <3> QED
            BY <2>2, <2>4, <2>7, <3>1 DEF CloneLookup
    <2>8. CASE AgentClone(n)
        <3>1. (\E ok \in BOOLEAN : After(n, ok)) \/ Over(n)
            BY <2>8 DEF AgentClone
        <3> QED
            BY <2>1, <2>2, <3>1
    <2>9. CASE WriteStatus(n)
        BY <2>1, <2>9 DEF WriteStatus
    <2> QED
        BY <2>5, <2>6, <2>7, <2>8, <2>9
<1> QED
    BY <1>0, <1>2, <1>3, <1>4, <1>5, GoroutineIInv

\* What the scan finds is a row of nobody's request: it has no database.
LEMMA ScanIInv ==
    ASSUME IInv, NEW n \in Ids, NEW s \in Slots, NEW t \in Types, Scan(n, s, t)
    PROVE  IInv'
<1> USE DEF IInv
<1>1. /\ UNCHANGED <<parts, files, del, dbdel, pass, asked, adrift, faults>> /\ Over(n)
      /\ job[n].pc = "none" /\ Insert(n, s, t, "ready", FALSE)
    BY DEF Scan, FreshId
<1>2. /\ inst[n] = NoRow /\ parts[n] = {} /\ \A w \in Deleters : del[n][w].pc = "idle"
    BY <1>1 DEF History, Alone, Unmade, Early
<1>3. "ready" \in Statuses
    BY DEF Statuses
<1>4. /\ RowsOK' /\ inst'[n] # NoRow /\ inst'[n].db = FALSE
      /\ \A m \in Ids \ {n} : inst'[m] = inst[m]
    BY <1>1, <1>2, <1>3, InsertRows
<1>5. JobsOK' /\ job'[n].pc = "over" /\ \A m \in Ids \ {n} : job'[m] = job[m]
    BY <1>1, OverTyped
<1>6. History(n)'
    BY <1>1, <1>2, <1>4, <1>5 DEF History, Alone, Unmade, Kept, Early
<1>7. Steady /\ \A m \in Ids \ {n} : Same(m)
    BY <1>1, <1>4, <1>5 DEF Same, Steady
<1> QED
    BY <1>1, <1>4, <1>5, <1>6, <1>7, Unchanged, OneInstall

-----------------------------------------------------------------------------
(* Deletes.                                                                *)

\* A delete works on an install whose request is over, and knows whether it has a
\* database; it remains to show, of each step, that the database is kept.
LEMMA DeleterIInv ==
    ASSUME IInv, NEW n \in Ids, NEW w \in Deleters, NEW r \in Dels,
           del' = [del EXCEPT ![n][w] = r], UNCHANGED <<job, dbdel, pass>>,
           \/ inst[n] # NoRow /\ r.db = inst[n].db
           \/ del[n][w].pc # "idle" /\ (r.pc = "idle" \/ r.db = del[n][w].db),
           inst'[n] = NoRow \/ (inst[n] # NoRow /\ inst'[n].db = inst[n].db),
           parts'[n] \subseteq parts[n],
           \A m \in Ids \ {n} :
              /\ (inst'[m] = NoRow) <=> (inst[m] = NoRow)
              /\ inst[m] # NoRow => inst'[m].db = inst[m].db
              /\ parts'[m] = parts[m],
           Kept(n)', Steady, RowsOK', HostOK', Counters'
    PROVE  IInv'
<1> USE DEF IInv
<1>1. /\ del' \in [Ids -> [Deleters -> Dels]] /\ del'[n][w] = r
      /\ \A v \in Deleters \ {w} : del'[n][v] = del[n][v]
      /\ \A m \in Ids \ {n} : del'[m] = del[m]
    BY DelTyped
<1>2. DelsOK' /\ JobsOK' /\ PassOK'
    BY <1>1, Unchanged DEF DelsOK
<1>3. job[n].pc \notin Early /\ job'[n].pc = job[n].pc
    BY DEF History, Alone
<1>4. Alone(n)'
    BY <1>3 DEF Alone
<1>5. Unmade(n)'
    <2>1. job'[n].pc # "none" /\ job'[n].pc # "chain"
        BY <1>3 DEF Early
    <2>2. inst'[n] # NoRow /\ ~ inst'[n].db => parts'[n] = {} /\ job'[n].pc = "over"
        BY <1>3 DEF History, Unmade
    <2>3. ASSUME NEW v \in Deleters, del'[n][v].pc # "idle", ~ del'[n][v].db
          PROVE  parts'[n] = {} /\ job'[n].pc = "over"
        <3>1. CASE v = w
            BY <1>1, <1>3, <2>3, <3>1 DEF History, Unmade
        <3>2. CASE v # w
            BY <1>1, <1>3, <2>3, <3>2 DEF History, Unmade
        <3> QED
            BY <3>1, <3>2
    <2> QED
        BY <2>1, <2>2, <2>3 DEF Unmade
<1>6. \A m \in Ids \ {n} : Same(m)
    BY <1>1 DEF Same
<1> QED
    BY <1>2, <1>4, <1>5, <1>6, OneInstall DEF History

LEMMA ApiDeleteIInv ==
    ASSUME IInv, NEW n \in Ids, ApiDelete(n)
    PROVE  IInv'
<1> USE DEF IInv
<1> DEFINE r == [Deleting(n, "resolve") EXCEPT !.user = FALSE]
<1>1. /\ inst[n] # NoRow /\ Ask /\ UpdateStatus(n, "deleting")
      /\ del' = [del EXCEPT ![n]["api"] = r]
      /\ UNCHANGED <<parts, files, job, dbdel, pass, adrift, faults>>
    BY DEF ApiDelete
<1>2. inst[n] \in Row /\ "api" \in Deleters /\ "deleting" \in Statuses
    BY <1>1 DEF RowsOK, Deleters, Statuses, InProgress
<1>3. r \in Dels /\ r.db = inst[n].db
    BY <1>2 DEF Deleting, Dels, DelPcs, Row
<1> HIDE DEF r
<1>4. /\ RowsOK' /\ \A m \in Ids : (inst'[m] = NoRow) <=> (inst[m] = NoRow)
      /\ \A m \in Ids : inst[m] # NoRow => inst'[m].db = inst[m].db
    BY <1>1, <1>2, UpdateStatusRows
<1>5. Kept(n)'
    BY <1>1, <1>4 DEF Kept
<1>6. Counters' /\ Steady /\ HostOK'
    BY <1>1, AppBounds, Unchanged DEF Ask, Counters, Steady
<1> QED
    BY <1>1, <1>2, <1>3, <1>4, <1>5, <1>6, DeleterIInv

LEMMA ApiResolveIInv ==
    ASSUME IInv, NEW n \in Ids, ApiResolve(n)
    PROVE  IInv'
<1> USE DEF IInv
<1> DEFINE d == del[n]["api"]
           found == [d EXCEPT !.pc = "agent", !.user = d.db /\ "grant" \in parts[n]]
<1>1. /\ d.pc = "resolve" /\ UNCHANGED <<inst, parts, files, ready, job, dbdel, pass, asked, adrift>>
      /\ UNCHANGED faults \/ Fault
      /\ \/ del' = [del EXCEPT ![n]["api"] = found]
         \/ del' = [del EXCEPT ![n]["api"] = NoDel]
    BY DEF ApiResolve
<1>2. d \in Dels /\ "api" \in Deleters
    BY DEF DelsOK, Deleters
<1>3. /\ found \in Dels /\ found.db = d.db /\ found.pc = "agent"
      /\ NoDel \in Dels /\ NoDel.pc = "idle"
    BY <1>2, NoDelTyped DEF Dels, DelPcs
<1> HIDE DEF found
<1>4. PICK r \in Dels : /\ del' = [del EXCEPT ![n]["api"] = r]
                        /\ r.pc = "idle" \/ r.db = d.db
    BY <1>1, <1>3
<1>5. RowsOK' /\ HostOK' /\ Counters' /\ Steady
    BY <1>1, Unchanged, Faulty DEF Steady
<1>6. Kept(n)'
    <2>1. \A v \in Deleters \ {"api"} : del'[n][v] = del[n][v]
        BY <1>2, <1>4, DelTyped
    <2> QED
        BY <1>1, <1>5, <2>1 DEF History, Kept, Steady
<1> QED
    BY <1>1, <1>2, <1>4, <1>5, <1>6, DeleterIInv DEF RowsOK

LEMMA CliDeleteIInv ==
    ASSUME IInv, NEW n \in Ids, CliDelete(n)
    PROVE  IInv'
<1> USE DEF IInv
<1> DEFINE r == Deleting(n, "mark")
<1>1. /\ inst[n] # NoRow /\ Ask /\ del' = [del EXCEPT ![n]["cli"] = r]
      /\ UNCHANGED <<inst, parts, files, ready, job, dbdel, pass, adrift, faults>>
    BY DEF CliDelete
<1>2. inst[n] \in Row /\ "cli" \in Deleters
    BY <1>1 DEF RowsOK, Deleters
<1>3. r \in Dels /\ r.db = inst[n].db
    BY <1>2 DEF Deleting, Dels, DelPcs, Row
<1> HIDE DEF r
<1>4. Kept(n)'
    BY <1>1 DEF Kept
<1>5. Counters' /\ Steady /\ HostOK' /\ RowsOK'
    BY <1>1, AppBounds, Unchanged DEF Ask, Counters, Steady
<1> QED
    BY <1>1, <1>2, <1>3, <1>4, <1>5, DeleterIInv

LEMMA CliMarkIInv ==
    ASSUME IInv, NEW n \in Ids, CliMark(n)
    PROVE  IInv'
<1> USE DEF IInv
<1> DEFINE d == del[n]["cli"]
           marked == [d EXCEPT !.pc = "agent"]
<1>2. d \in Dels /\ "cli" \in Deleters /\ "deleting" \in Statuses
    BY DEF DelsOK, Deleters, Statuses, InProgress
<1>1. /\ d.pc = "mark" /\ UNCHANGED <<parts, files, job, dbdel, pass, asked, adrift>>
      /\ UNCHANGED faults \/ Fault
      /\ UpdateStatus(n, "deleting") \/ UNCHANGED <<inst, ready>>
      /\ \/ del' = [del EXCEPT ![n]["cli"] = marked]
         \/ del' = [del EXCEPT ![n]["cli"] = NoDel]
    BY <1>2 DEF CliMark, DelsOK
<1>3. /\ marked \in Dels /\ marked.db = d.db
      /\ NoDel \in Dels /\ NoDel.pc = "idle"
    BY <1>2, NoDelTyped DEF Dels, DelPcs
<1> HIDE DEF marked
<1>4. PICK r \in Dels : /\ del' = [del EXCEPT ![n]["cli"] = r]
                        /\ r.pc = "idle" \/ r.db = d.db
    BY <1>1, <1>3
<1>5. HostOK' /\ Counters' /\ Steady
    BY <1>1, Unchanged, Faulty DEF Steady
<1>6. /\ RowsOK' /\ \A m \in Ids : (inst'[m] = NoRow) <=> (inst[m] = NoRow)
      /\ \A m \in Ids : inst[m] # NoRow => inst'[m].db = inst[m].db
    BY <1>1, <1>2, UpdateStatusRows, Unchanged
<1>7. Kept(n)'
    <2>1. \A v \in Deleters \ {"cli"} : del'[n][v] = del[n][v]
        BY <1>2, <1>4, DelTyped
    <2> QED
        BY <1>1, <1>5, <1>6, <2>1 DEF History, Kept, Steady
<1> QED
    BY <1>1, <1>2, <1>4, <1>5, <1>6, <1>7, DeleterIInv DEF RowsOK

LEMMA AgentDeleteIInv ==
    ASSUME IInv, NEW n \in Ids, NEW w \in Deleters, AgentDelete(n, w)
    PROVE  IInv'
<1> USE DEF IInv
<1> DEFINE d == del[n][w]
<1>1. /\ d.pc = "agent" /\ UNCHANGED <<parts, job, dbdel, pass, asked, adrift>>
      /\ UNCHANGED faults \/ Fault
      /\ UpdateStatus(n, "failed") \/ UNCHANGED <<inst, ready>>
      /\ files' \in {files, Erased(d.slot, d.type)}
      /\ \/ del' = [del EXCEPT ![n][w] = FirstStep(n, w)]
         \/ del' = [del EXCEPT ![n][w] = NoDel]
    BY DEF AgentDelete
<1>2. d \in Dels /\ "failed" \in Statuses
    BY DEF DelsOK, Statuses
<1>3. PICK r \in Dels : /\ del' = [del EXCEPT ![n][w] = r]
                        /\ r.pc = "idle" \/ r.db = d.db
    BY <1>1, FirstStepTyped, NoDelTyped
<1>4. HostOK' /\ Counters' /\ Steady
    BY <1>1, FilesTyped, Faulty DEF HostOK, Steady
<1>5. /\ RowsOK' /\ \A m \in Ids : (inst'[m] = NoRow) <=> (inst[m] = NoRow)
      /\ \A m \in Ids : inst[m] # NoRow => inst'[m].db = inst[m].db
    BY <1>1, <1>2, UpdateStatusRows, Unchanged
<1>6. Kept(n)'
    <2>1. \A v \in Deleters \ {w} : del'[n][v] = del[n][v]
        BY <1>3, DelTyped
    <2> QED
        BY <1>1, <1>4, <1>5, <2>1 DEF History, Kept, Steady
<1> QED
    BY <1>1, <1>3, <1>4, <1>5, <1>6, DeleterIInv

\* Who takes the row away goes on to the database: the row's part is followed by
\* the schema's and the database's, unless there is none or another delete, which
\* took the row away before, has it.
LEMMA CleanStepIInv ==
    ASSUME IInv, NEW n \in Ids, NEW w \in Deleters, CleanStep(n, w)
    PROVE  IInv'
<1> USE DEF IInv
<1> DEFINE d == del[n][w]
           x == d.pc
           users == {"grant", "account", "user"}
           stops == x = "row" /\ w = "cli"
<1>0. /\ x \in {"user", "row", "schema", "db"} /\ UNCHANGED <<files, job, dbdel, pass, asked>>
      /\ UNCHANGED faults \/ Fault
      /\ UNCHANGED adrift \/ (adrift' = IF x = "db" THEN adrift \cup {n} ELSE adrift)
    BY StepsOfLists DEF CleanStep
<1>1. d \in Dels /\ x # "idle" /\ (~ d.db => parts[n] = {}) /\ job[n].pc \notin Early
    BY <1>0 DEF DelsOK, History, Alone, Unmade
<1>2. Counters' /\ Steady
    BY <1>0, Faulty DEF Steady
<1>3. ASSUME Kept(n)', RowsOK', parts' \in [Ids -> SUBSET Parts], parts'[n] \subseteq parts[n],
             inst'[n] = NoRow \/ inst'[n] = inst[n],
             \A m \in Ids \ {n} : inst'[m] = inst[m] /\ parts'[m] = parts[m],
             del' = [del EXCEPT ![n][w] = NoDel] \/ del' = [del EXCEPT ![n][w] = Then(n, w, x)]
      PROVE  IInv'
    <2>1. PICK r \in Dels : /\ del' = [del EXCEPT ![n][w] = r]
                            /\ r.pc = "idle" \/ r.db = d.db
        BY <1>0, <1>3, ThenTyped, NoDelTyped
    <2>2. HostOK'
        BY <1>0, <1>3 DEF HostOK
    <2>3. inst'[n] = NoRow \/ (inst[n] # NoRow /\ inst'[n].db = inst[n].db)
        BY <1>3
    <2> QED
        BY <1>0, <1>1, <1>2, <1>3, <2>1, <2>2, <2>3, DeleterIInv
<1>4. ASSUME Fault, adrift' = IF x = "db" THEN adrift \cup {n} ELSE adrift,
             del' = [del EXCEPT ![n][w] = IF stops THEN NoDel ELSE Then(n, w, x)],
             \/ UNCHANGED parts
             \/ \E y \in users : parts' = [parts EXCEPT ![n] = @ \ (users \ {y})],
             UNCHANGED <<inst, ready>>
      PROVE  IInv'
    <2>1. parts' \in [Ids -> SUBSET Parts] /\ parts'[n] \subseteq parts[n]
          /\ \A m \in Ids \ {n} : parts'[m] = parts[m]
        BY <1>4 DEF HostOK
    <2>2. Kept(n)'
        <3> DEFINE r == IF stops THEN NoDel ELSE Then(n, w, x)
        <3>1. r \in Dels /\ (x = "schema" => r.pc = "db")
            BY <1>0, ThenTyped, NoDelTyped
        <3>2. del' = [del EXCEPT ![n][w] = r]
            BY <1>4
        <3> HIDE DEF r
        <3>3. del'[n][w] = r /\ \A v \in Deleters \ {w} : del'[n][v] = del[n][v]
            BY <3>1, <3>2, DelTyped
        <3>4. CASE x \in {"user", "row"}
            BY <1>0, <1>1, <1>4, <2>1, <3>3, <3>4 DEF History, Kept
        <3>5. CASE x = "schema"
            BY <3>1, <3>3, <3>5 DEF Kept
        <3>6. CASE x = "db"
            BY <1>4, <3>6 DEF Kept
        <3> QED
            BY <1>0, <3>4, <3>5, <3>6
    <2>3. del' = [del EXCEPT ![n][w] = NoDel] \/ del' = [del EXCEPT ![n][w] = Then(n, w, x)]
        BY <1>4
    <2> HIDE DEF x, d
    <2> QED
        BY <1>3, <1>4, <2>1, <2>2, <2>3, Unchanged
<1>5. ASSUME UNCHANGED <<adrift, faults>>,
             del' = [del EXCEPT ![n][w] = IF stops /\ inst[n] = NoRow
                                          THEN NoDel ELSE Then(n, w, x)],
             \/ x = "row" /\ DeleteRow(n) /\ UNCHANGED parts
             \/ /\ x = "user" /\ parts' = [parts EXCEPT ![n] = @ \ users]
                /\ UNCHANGED <<inst, ready>>
             \/ x = "schema" /\ UNCHANGED <<inst, ready, parts>>
             \/ x \in {"schema", "db"} /\ RemovePart(n, x)
      PROVE  IInv'
    <2> DEFINE r == IF stops /\ inst[n] = NoRow THEN NoDel ELSE Then(n, w, x)
    <2>0. r \in Dels
        BY <1>0, ThenTyped, NoDelTyped
    <2>1. del' = [del EXCEPT ![n][w] = r]
        BY <1>5
    <2>2. del'[n][w] = r /\ \A v \in Deleters \ {w} : del'[n][v] = del[n][v]
        <3> HIDE DEF r
        <3> QED
            BY <2>0, <2>1, DelTyped
    <2>3. r = NoDel \/ r = Then(n, w, x)
        OBVIOUS
    <2>4. /\ x = "schema" => r.pc = "db"
          /\ x = "row" /\ d.db => r.pc = "schema" \/ (stops /\ inst[n] = NoRow)
        BY ThenTyped, <1>0
    <2> HIDE DEF r
    <2>5. /\ RowsOK' /\ parts' \in [Ids -> SUBSET Parts] /\ parts'[n] \subseteq parts[n]
          /\ inst'[n] = NoRow \/ inst'[n] = inst[n]
          /\ x \in {"user", "schema"} => inst'[n] = inst[n]
          /\ x = "db" => "db" \notin parts'[n]
          /\ \A m \in Ids \ {n} : inst'[m] = inst[m] /\ parts'[m] = parts[m]
        <3>1. CASE x = "row" /\ DeleteRow(n) /\ UNCHANGED parts
            BY <3>1, DeleteRowRows DEF HostOK
        <3>2. CASE /\ x = "user" /\ parts' = [parts EXCEPT ![n] = @ \ users]
                   /\ UNCHANGED <<inst, ready>>
            BY <3>2, Unchanged DEF HostOK
        <3>3. CASE x = "schema" /\ UNCHANGED <<inst, ready, parts>>
            BY <3>3, Unchanged DEF HostOK
        <3>4. CASE x \in {"schema", "db"} /\ RemovePart(n, x)
            <4> HIDE DEF x
            <4> QED
                BY <3>4, RemovePartTyped
        <3> QED
            BY <1>5, <3>1, <3>2, <3>3, <3>4
    <2>6. Kept(n)'
        <3>1. CASE x = "row"
            BY <1>0, <1>1, <1>5, <2>2, <2>4, <2>5, <3>1 DEF History, Kept
        <3>2. CASE x = "user"
            BY <1>0, <1>1, <1>5, <2>2, <2>5, <3>2 DEF History, Kept
        <3>3. CASE x = "schema"
            BY <2>2, <2>4, <3>3 DEF Kept
        <3>4. CASE x = "db"
            BY <2>5, <3>4 DEF Kept
        <3> QED
            BY <1>0, <3>1, <3>2, <3>3, <3>4
    <2>7. del' = [del EXCEPT ![n][w] = NoDel] \/ del' = [del EXCEPT ![n][w] = Then(n, w, x)]
        BY <2>1, <2>3
    <2> HIDE DEF x, d
    <2> QED
        BY <1>3, <2>5, <2>6, <2>7
<1> QED
    <2>1. \/ /\ CASE x = "row" -> DeleteRow(n) /\ UNCHANGED parts
                  [] x = "user" -> /\ parts' = [parts EXCEPT ![n] = @ \ users]
                                   /\ UNCHANGED <<inst, ready>>
                  [] x = "schema" /\ "db" \notin parts[n] -> UNCHANGED <<inst, ready, parts>>
                  [] OTHER -> RemovePart(n, x)
             /\ del' = [del EXCEPT ![n][w] = IF stops /\ inst[n] = NoRow
                                             THEN NoDel ELSE Then(n, w, x)]
             /\ UNCHANGED <<adrift, faults>>
          \/ /\ Fault
             /\ adrift' = IF x = "db" THEN adrift \cup {n} ELSE adrift
             /\ del' = [del EXCEPT ![n][w] = IF stops THEN NoDel ELSE Then(n, w, x)]
             /\ \/ UNCHANGED parts
                \/ /\ x = "user"
                   /\ \E y \in users : parts' = [parts EXCEPT ![n] = @ \ (users \ {y})]
             /\ UNCHANGED <<inst, ready>>
        BY Zenon DEF CleanStep
    <2>2. CASE /\ Fault
               /\ adrift' = IF x = "db" THEN adrift \cup {n} ELSE adrift
               /\ del' = [del EXCEPT ![n][w] = IF stops THEN NoDel ELSE Then(n, w, x)]
               /\ \/ UNCHANGED parts
                  \/ /\ x = "user"
                     /\ \E y \in users : parts' = [parts EXCEPT ![n] = @ \ (users \ {y})]
               /\ UNCHANGED <<inst, ready>>
        BY <1>4, <2>2, Zenon
    <2>3. CASE /\ CASE x = "row" -> DeleteRow(n) /\ UNCHANGED parts
                    [] x = "user" -> /\ parts' = [parts EXCEPT ![n] = @ \ users]
                                     /\ UNCHANGED <<inst, ready>>
                    [] x = "schema" /\ "db" \notin parts[n] -> UNCHANGED <<inst, ready, parts>>
                    [] OTHER -> RemovePart(n, x)
               /\ del' = [del EXCEPT ![n][w] = IF stops /\ inst[n] = NoRow
                                               THEN NoDel ELSE Then(n, w, x)]
               /\ UNCHANGED <<adrift, faults>>
        <3>1. \/ x = "row" /\ DeleteRow(n) /\ UNCHANGED parts
              \/ /\ x = "user" /\ parts' = [parts EXCEPT ![n] = @ \ users]
                 /\ UNCHANGED <<inst, ready>>
              \/ x = "schema" /\ UNCHANGED <<inst, ready, parts>>
              \/ x \in {"schema", "db"} /\ RemovePart(n, x)
            BY <1>0, <2>3
        <3> QED
            BY <1>5, <2>3, <3>1, Zenon
    <2> QED
        BY <2>1, <2>2, <2>3

\* The databases page: begun where no row names the database, it removes the
\* database's row last.
LEMMA DbDeleteIInv ==
    ASSUME IInv, NEW n \in Ids, DbDelete(n)
    PROVE  IInv'
<1> USE DEF IInv
<1>1. /\ Ask /\ dbdel' = [dbdel EXCEPT ![n] = "grant"]
      /\ UNCHANGED <<inst, parts, files, ready, job, del, pass, adrift, faults>>
    BY DEF DbDelete
<1>2. dbdel'[n] = "grant" /\ DelsOK' /\ \A m \in Ids \ {n} : dbdel'[m] = dbdel[m]
    BY <1>1 DEF DelsOK
<1>3. History(n)'
    BY <1>1, <1>2 DEF History, Alone, Unmade, Kept
<1>4. Counters' /\ Steady
    BY <1>1, AppBounds DEF Ask, Counters, Steady
<1>5. \A m \in Ids \ {n} : Same(m)
    BY <1>1, <1>2 DEF Same
<1> QED
    BY <1>1, <1>2, <1>3, <1>4, <1>5, Unchanged, OneInstall

LEMMA DbDeleteStepIInv ==
    ASSUME IInv, NEW n \in Ids, DbDeleteStep(n)
    PROVE  IInv'
<1> USE DEF IInv
<1> DEFINE x == dbdel[n]
           y == CASE x = "grant"  -> "schema"
                  [] x = "schema" -> "db"
                  [] x = "db"     -> "idle"
<1>0. x \in {"grant", "schema", "db"} /\ UNCHANGED <<files, job, del, pass, asked, adrift>>
    BY DEF DbDeleteStep, DelsOK
<1>1. \/ RemovePart(n, x) /\ dbdel' = [dbdel EXCEPT ![n] = y] /\ UNCHANGED faults
      \/ Fault /\ dbdel' = [dbdel EXCEPT ![n] = "idle"] /\ UNCHANGED <<inst, ready, parts>>
    BY DEF DbDeleteStep
<1>2. y \in {"schema", "db", "idle"} /\ (y = "idle" => x = "db")
    BY <1>0
<1> HIDE DEF y
<1>3. Counters' /\ Steady /\ JobsOK' /\ PassOK'
    BY <1>0, <1>1, Faulty, Unchanged DEF Steady
<1>4. CASE RemovePart(n, x) /\ dbdel' = [dbdel EXCEPT ![n] = y] /\ UNCHANGED faults
    <2>1. /\ RowsOK' /\ parts' \in [Ids -> SUBSET Parts]
          /\ parts'[n] \subseteq parts[n] /\ (x = "db" => "db" \notin parts'[n])
          /\ inst'[n] = inst[n] \/ (inst'[n] = NoRow /\ x = "db")
          /\ \A m \in Ids \ {n} : parts'[m] = parts[m] /\ inst'[m] = inst[m]
        <3> HIDE DEF x
        <3> QED
            BY <1>4, RemovePartTyped
    <2>2. dbdel'[n] = y /\ DelsOK' /\ \A m \in Ids \ {n} : dbdel'[m] = dbdel[m]
        BY <1>0, <1>2, <1>4 DEF DelsOK
    <2>3. HostOK'
        BY <1>0, <2>1 DEF HostOK
    <2>4. History(n)'
        <3>1. Alone(n)' /\ Unmade(n)'
            BY <1>0, <2>1 DEF History, Alone, Unmade
        <3>2. Kept(n)'
            BY <1>0, <2>1 DEF History, Kept
        <3> QED
            BY <3>1, <3>2 DEF History
    <2>5. \A m \in Ids \ {n} : Same(m)
        BY <1>0, <2>1, <2>2 DEF Same
    <2> QED
        BY <1>3, <2>1, <2>2, <2>3, <2>4, <2>5, OneInstall
<1>5. CASE /\ Fault /\ dbdel' = [dbdel EXCEPT ![n] = "idle"]
           /\ UNCHANGED <<inst, ready, parts>>
    <2>1. DelsOK' /\ \A m \in Ids \ {n} : dbdel'[m] = dbdel[m]
        BY <1>0, <1>5 DEF DelsOK
    <2>2. History(n)'
        BY <1>0, <1>5 DEF History, Alone, Unmade, Kept
    <2>3. \A m \in Ids \ {n} : Same(m)
        BY <1>0, <1>5, <2>1 DEF Same
    <2> QED
        BY <1>0, <1>3, <1>5, <2>1, <2>2, <2>3, Unchanged, OneInstall
<1> QED
    BY <1>1, <1>4, <1>5

-----------------------------------------------------------------------------
(* The reconciler, the owner, a restart.                                   *)

LEMMA NoOwnerIInv ==
    ASSUME IInv, \A m \in Ids : Same(m), Steady, UNCHANGED <<job, del, dbdel>>,
           RowsOK', HostOK', PassOK', Counters'
    PROVE  IInv'
<1> USE DEF IInv
<1>1. \A m \in Ids : History(m)'
    BY HistorySame
<1>2. (\A m \in Ids : History(m))'
    BY <1>1
<1> QED
    BY <1>2, Unchanged

LEMMA PassStepIInv == IInv /\ PassStep => IInv'
<1> SUFFICES ASSUME IInv, PassStep PROVE IInv'
    OBVIOUS
<1> USE DEF IInv
<1>0. UNCHANGED <<parts, files, job, del, dbdel, asked, adrift>> /\ (UNCHANGED faults \/ Fault)
    BY DEF PassStep, ProbeList, SweepList, SweepOne, ProbeOne
<1>1. HostOK' /\ Counters' /\ Steady
    BY <1>0, Unchanged, Faulty DEF Steady
<1>2. /\ RowsOK'
      /\ \A m \in Ids : (inst'[m] = NoRow) <=> (inst[m] = NoRow)
      /\ \A m \in Ids : inst[m] # NoRow => inst'[m].db = inst[m].db
    <2>1. UNCHANGED <<inst, ready>> \/ \E n \in Ids : UpdateStatus(n, "failed")
        BY DEF PassStep, ProbeList, SweepList, SweepOne, ProbeOne
    <2>2. CASE UNCHANGED <<inst, ready>>
        BY <2>2, Unchanged
    <2>3. "failed" \in Statuses
        BY DEF Statuses
    <2> QED
        BY <2>1, <2>2, <2>3, UpdateStatusRows
<1>3. PassOK'
    <2>0. pass \in [pc: {"idle", "sweep", "probe"}, todo: SUBSET Ids] /\ Resting \in
            [pc: {"idle", "sweep", "probe"}, todo: SUBSET Ids]
        BY DEF PassOK, Resting
    <2>1. CASE ProbeList
        <3>1. Batch \subseteq Ids
            <4> DEFINE l == IF Len(ready) < ProbeBatch THEN Len(ready) ELSE ProbeBatch
            <4>1. ready \in Seq(Ids) /\ ProbeBatch \in Nat /\ Len(ready) \in Nat
                BY AppBounds DEF RowsOK
            <4>2. l \in Int /\ \A i \in 1 .. l : ready[i] \in Ids
                BY <4>1
            <4>3. Batch = ToSet(SubSeq(ready, 1, l))
                BY DEF Batch
            <4> HIDE DEF l
            <4>4. SubSeq(ready, 1, l) \in Seq(Ids)
                BY <4>2, SubSeqProperties
            <4>5. \A s \in Seq(Ids) : ToSet(s) \subseteq Ids
                BY DEF ToSet
            <4> QED
                BY <4>3, <4>4, <4>5
        <3> QED
            BY <2>0, <2>1, <3>1 DEF ProbeList, PassOK
    <2>2. ASSUME NEW n \in Ids, SweepList(n) PROVE PassOK'
        <3>1. PICK S \in SUBSET Sweepable : pass' = [pc |-> "sweep", todo |-> {n} \cup S]
            BY <2>2 DEF SweepList
        <3> QED
            BY <3>1 DEF Sweepable, PassOK
    <2>3. ASSUME NEW n \in Ids, SweepOne(n) \/ ProbeOne(n) PROVE PassOK'
        <3>1. pass' = Rest(n)
            BY <2>3 DEF SweepOne, ProbeOne
        <3>2. Rest(n) \in [pc: {"idle", "sweep", "probe"}, todo: SUBSET Ids]
            BY <2>0 DEF Rest
        <3> QED
            BY <3>1, <3>2 DEF PassOK
    <2> QED
        BY <2>1, <2>2, <2>3 DEF PassStep
<1>4. \A m \in Ids : Same(m)
    BY <1>0, <1>2 DEF Same
<1> QED
    BY <1>0, <1>1, <1>2, <1>3, <1>4, NoOwnerIInv

LEMMA OwnerEditsIInv ==
    ASSUME IInv, NEW s \in Slots, NEW t \in Types, OwnerEdits(s, t)
    PROVE  IInv'
<1> USE DEF IInv
<1>1. /\ UNCHANGED <<inst, parts, ready, job, del, dbdel, pass, asked, adrift>> /\ Fault
      /\ files' = [files EXCEPT ![s] = IF t \in @ THEN @ \ {t} ELSE @ \cup {t}]
    BY DEF OwnerEdits
<1>2. HostOK'
    BY <1>1 DEF HostOK
<1>3. Counters' /\ Steady
    BY <1>1, Faulty DEF Steady
<1>4. \A m \in Ids : Same(m)
    BY <1>1 DEF Same
<1> QED
    BY <1>1, <1>2, <1>3, <1>4, Unchanged, NoOwnerIInv

\* The rows of a deleted domain go, and with them the only keepers of their
\* databases: those are set adrift. Every other install is as it was.
LEMMA DeleteDomainIInv ==
    ASSUME IInv, NEW d \in Domains, DeleteDomain(d)
    PROVE  IInv'
<1> USE DEF IInv
<1> DEFINE with == {n \in Ids : inst[n] # NoRow /\ inst[n].slot[1] = d}
<1>0. /\ Ask /\ UNCHANGED <<parts, files, job, del, dbdel, pass, faults>>
      /\ inst' = [n \in Ids |-> IF n \in with THEN NoRow ELSE inst[n]]
      /\ ready' \in WithoutAll(with) /\ adrift' = adrift \cup with
    BY DEF DeleteDomain
<1>1. with \subseteq Ids
    OBVIOUS
<1> HIDE DEF with
<1>2. /\ inst' \in [Ids -> Row \cup {NoRow}]
      /\ \A n \in Ids : inst'[n] = IF n \in with THEN NoRow ELSE inst[n]
    BY <1>0 DEF RowsOK
<1>3. RowsOK'
    <2>1. ready \in Seq(Ids) /\ DOMAIN ready = 1 .. Len(ready) /\ ToSet(ready) = ReadyRows
        BY DEF RowsOK
    <2>2. ready' \in Seq(Ids)
        <3>0. Len(ready) \in Nat /\ ready' \in SeqOf(ToSet(ready) \ with, Len(ready))
            BY <1>0, <2>1 DEF WithoutAll
        <3>1. PICK k \in 0 .. Len(ready) : ready' \in [1 .. k -> ToSet(ready) \ with]
            <4> DEFINE S == ToSet(ready) \ with
                       l == Len(ready)
            <4>1. ready' \in UNION {[1 .. k -> S] : k \in 0 .. l}
                BY <3>0 DEF SeqOf
            <4> HIDE DEF S, l
            <4>2. \E k \in 0 .. l : ready' \in [1 .. k -> S]
                BY <4>1
            <4> QED
                BY <4>2 DEF S, l
        <3>2. ToSet(ready) \subseteq Ids
            BY <2>1 DEF ReadyRows
        <3>3. ready' \in [1 .. k -> Ids]
            BY <3>1, <3>2
        <3> QED
            BY <3>0, <3>3, SeqDef
    <2>3. ToSet(ready') = ToSet(ready) \ with
        BY <1>0 DEF WithoutAll
    <2>4. ReadyRows' = ReadyRows \ with
        BY <1>2 DEF ReadyRows
    <2>5. ASSUME NEW i \in 1 .. Len(ready'), NEW k \in 1 .. Len(ready'), ready'[i] = ready'[k],
                 i < k
          PROVE  FALSE
        <3>1. i \in DOMAIN ready' /\ k \in DOMAIN ready'
            BY <2>2
        <3>2. PICK a, b \in DOMAIN ready : a < b /\ ready[a] = ready'[i] /\ ready[b] = ready'[k]
            BY <1>0, <2>5, <3>1 DEF WithoutAll
        <3>3. a = b
            BY <2>1, <2>5, <3>2 DEF RowsOK
        <3> QED
            BY <2>1, <3>2, <3>3
    <2>6. \A i, k \in 1 .. Len(ready') : ready'[i] = ready'[k] => i = k
        <3>1. Len(ready') \in Nat
            BY <2>2
        <3> QED
            BY <2>5, <3>1
    <2> QED
        BY <1>2, <2>1, <2>2, <2>3, <2>4, <2>6 DEF RowsOK
<1>4. HostOK' /\ JobsOK' /\ DelsOK' /\ PassOK' /\ Counters'
    BY <1>0, AppBounds, Unchanged DEF Ask, Counters
<1>5. ASSUME NEW n \in Ids PROVE History(n)'
    <2>1. CASE n \in with
        <3>1. inst'[n] = NoRow /\ n \in adrift'
            BY <1>0, <1>2, <2>1
        <3> QED
            BY <1>0, <3>1 DEF History, Alone, Unmade, Kept
    <2>2. CASE n \notin with
        <3>1. inst'[n] = inst[n] /\ adrift \subseteq adrift'
            BY <1>0, <1>2, <2>2
        <3> QED
            BY <1>0, <3>1 DEF History, Alone, Unmade, Kept
    <2> QED
        BY <2>1, <2>2
<1>6. (\A n \in Ids : History(n))'
    BY <1>5
<1> QED
    BY <1>3, <1>4, <1>6

LEMMA RestartIInv == IInv /\ Restart => IInv'
<1> SUFFICES ASSUME IInv, Restart PROVE IInv'
    OBVIOUS
<1> USE DEF IInv
<1> DEFINE over == [NoJob EXCEPT !.pc = "over"]
<1>0. /\ Fault /\ UNCHANGED <<inst, parts, files, ready, asked>>
      /\ adrift' = adrift \cup {n \in Ids : \/ job[n].pc \in {"chain", "undo", "insert"}
                                          \/ del[n]["api"].pc \in {"schema", "db"}}
      /\ job' = [n \in Ids |-> IF job[n].pc = "none" THEN NoJob ELSE over]
      /\ del' = [n \in Ids |-> [del[n] EXCEPT !["api"] = NoDel]]
      /\ dbdel' = [n \in Ids |-> "idle"] /\ pass' = Resting
    BY DEF Restart
<1>1. over \in Jobs /\ JobShape(over) /\ over.pc = "over" /\ NoJob \in Jobs /\ JobShape(NoJob)
    BY NoJobTyped
<1>2. NoJob.pc = "none" /\ NoDel \in Dels /\ NoDel.pc = "idle"
    BY NoDelTyped DEF NoJob
<1> HIDE DEF over
<1>3. JobsOK'
    <2>1. job' \in [Ids -> Jobs]
        BY <1>0, <1>1
    <2>2. \A n \in Ids : JobShape(job'[n])
        BY <1>0, <1>1
    <2> QED
        BY <2>1, <2>2 DEF JobsOK, JobShape
<1>4. DelsOK' /\ PassOK' /\ RowsOK' /\ HostOK'
    BY <1>0, <1>2, Unchanged DEF DelsOK, PassOK, Resting
<1>5. Counters'
    BY <1>0, Faulty
<1>6. ASSUME NEW n \in Ids PROVE History(n)'
    <2>1. \/ job'[n].pc = "none" /\ job[n].pc = "none"
          \/ job'[n].pc = "over" /\ job[n].pc # "none"
        BY <1>0, <1>1, <1>2
    <2>2. \A w \in Deleters : del'[n][w] = del[n][w] \/ del'[n][w].pc = "idle"
        BY <1>0, <1>2 DEF DelsOK
    <2>3. Alone(n)' /\ Unmade(n)'
        BY <1>0, <2>1, <2>2 DEF History, Alone, Unmade, Early
    <2>4. Kept(n)'
        <3>1. n \notin adrift' => /\ n \notin adrift /\ (job[n].pc \in Early => job[n].pc = "none")
                                 /\ del[n]["api"].pc \notin {"schema", "db"}
            BY <1>0 DEF Early
        <3>2. \A w \in Deleters : w # "api" => del'[n][w] = del[n][w]
            BY <1>0 DEF DelsOK
        <3> QED
            BY <1>0, <2>1, <3>1, <3>2 DEF History, Kept, Early
    <2> QED
        BY <2>3, <2>4 DEF History
<1>7. (\A n \in Ids : History(n))'
    BY <1>6
<1> QED
    BY <1>3, <1>4, <1>5, <1>7

LEMMA InitIInv == Init => IInv
<1> SUFFICES ASSUME Init PROVE IInv
    OBVIOUS
<1> USE DEF Init
<1>1. RowsOK
    <2>1. ready \in Seq(Ids) /\ Len(ready) = 0 /\ DOMAIN ready = {}
        OBVIOUS
    <2>2. ToSet(ready) = {} /\ ReadyRows = {}
        BY <2>1 DEF ToSet, ReadyRows
    <2> QED
        BY <2>1, <2>2 DEF RowsOK
<1>2. JobsOK
    BY NoJobTyped DEF JobsOK
<1>3. HostOK /\ DelsOK /\ PassOK /\ Counters
    BY AppBounds, NoDelTyped DEF HostOK, DelsOK, PassOK, Counters, Resting
<1>4. \A n \in Ids : History(n)
    BY NoDelTyped DEF History, Alone, Unmade, Kept, NoJob
<1> QED
    BY <1>1, <1>2, <1>3, <1>4 DEF IInv

LEMMA StutterIInv == IInv /\ UNCHANGED vars => IInv'
<1> SUFFICES ASSUME IInv, UNCHANGED vars PROVE IInv'
    OBVIOUS
<1>1. \A m \in Ids : Same(m)
    BY DEF Same, vars
<1> QED
    BY <1>1, NoOwnerIInv, Unchanged DEF IInv, Steady, vars

-----------------------------------------------------------------------------
\* The inductive invariant holds of every behaviour: the rows and the list of the
\* ready ones agree, a compensation ends with the database's row, and whoever
\* takes an install's row away goes on to its database.
THEOREM Invariance == Spec => [](IInv /\ DomsOK)
<1>0. Init => DomsOK
    BY DEF Init, DomsOK
<1>2. DomsOK /\ [Next]_vars => DomsOK'
    <2> SUFFICES ASSUME DomsOK, [Next]_vars PROVE doms' \subseteq Domains /\ adrift' \subseteq Ids
        BY DEF DomsOK
    <2> USE DEF DomsOK
    <2>1. ASSUME NEW n \in Ids, JobStep(n) \/ HandlerGone(n)
          PROVE  doms' \subseteq Domains /\ adrift' \subseteq Ids
        BY <2>1 DEF JobStep, HandlerGone, ChainStep, UndoStep, InsertRow, Mark, AgentInstall,
                    CloneLookup, AgentClone, WriteStatus
    <2>2. ASSUME NEW n \in Ids, DeleteStep(n)
          PROVE  doms' \subseteq Domains /\ adrift' \subseteq Ids
        BY <2>2 DEF DeleteStep, ApiResolve, CliMark, DbDeleteStep, AgentDelete, CleanStep
    <2>3. ASSUME NEW n \in Ids, ApiDelete(n) \/ CliDelete(n) \/ DbDelete(n)
          PROVE  doms' \subseteq Domains /\ adrift' \subseteq Ids
        BY <2>3 DEF ApiDelete, CliDelete, DbDelete
    <2>4. ASSUME NEW n \in Ids, NEW t \in Types, NEW s \in Asked \cup Slots,
                 RequestInstall(n, s, t) \/ Scan(n, s, t)
          PROVE  doms' \subseteq Domains /\ adrift' \subseteq Ids
        BY <2>4 DEF RequestInstall, Scan
    <2>5. ASSUME NEW n \in Ids, NEW m \in Ids, NEW d \in Domains, RequestClone(n, m, d)
          PROVE  doms' \subseteq Domains /\ adrift' \subseteq Ids
        BY <2>5 DEF RequestClone
    <2>6. ASSUME NEW d \in Domains, DeleteDomain(d)
          PROVE  doms' \subseteq Domains /\ adrift' \subseteq Ids
        BY <2>6 DEF DeleteDomain
    <2>7. ASSUME NEW s \in Slots, NEW t \in Types, OwnerEdits(s, t)
          PROVE  doms' \subseteq Domains /\ adrift' \subseteq Ids
        BY <2>7 DEF OwnerEdits
    <2>8. CASE PassStep
        BY <2>8 DEF PassStep, ProbeList, SweepList, SweepOne, ProbeOne
    <2>9. CASE Restart
        BY <2>9 DEF Restart
    <2>10. CASE UNCHANGED vars
        BY <2>10 DEF vars
    <2> QED
        BY <2>1, <2>2, <2>3, <2>4, <2>5, <2>6, <2>7, <2>8, <2>9, <2>10 DEF Next
<1>1. IInv /\ [Next]_vars => IInv'
    <2> SUFFICES ASSUME IInv, [Next]_vars PROVE IInv'
        OBVIOUS
    <2>1. ASSUME NEW n \in Ids, JobStep(n) PROVE IInv'
        BY <2>1, ChainStepIInv, UndoStepIInv, InsertRowIInv, JobStepIInv DEF JobStep
    <2>2. ASSUME NEW n \in Ids, HandlerGone(n) PROVE IInv'
        BY <2>2, HandlerGoneIInv
    <2>3. ASSUME NEW n \in Ids, DeleteStep(n) PROVE IInv'
        BY <2>3, ApiResolveIInv, CliMarkIInv, DbDeleteStepIInv, AgentDeleteIInv,
           CleanStepIInv DEF DeleteStep
    <2>4. ASSUME NEW n \in Ids, ApiDelete(n) \/ CliDelete(n) \/ DbDelete(n) PROVE IInv'
        BY <2>4, ApiDeleteIInv, CliDeleteIInv, DbDeleteIInv
    <2>5. ASSUME NEW n \in Ids, NEW t \in Types, NEW s \in Asked, RequestInstall(n, s, t)
          PROVE  IInv'
        <3>1. s \in Slots
            BY AppBounds DEF Slots
        <3> QED
            BY <2>5, <3>1, RequestInstallIInv
    <2>6. ASSUME NEW n \in Ids, NEW t \in Types, NEW s \in Slots, Scan(n, s, t) PROVE IInv'
        BY <2>6, ScanIInv
    <2>7. ASSUME NEW n \in Ids, NEW m \in Ids, NEW d \in Domains, RequestClone(n, m, d)
          PROVE  IInv'
        BY <2>7, RequestCloneIInv
    <2>8. ASSUME NEW s \in Slots, NEW t \in Types, OwnerEdits(s, t) PROVE IInv'
        BY <2>8, OwnerEditsIInv
    <2>12. ASSUME NEW d \in Domains, DeleteDomain(d) PROVE IInv'
        BY <2>12, DeleteDomainIInv
    <2>9. CASE PassStep
        BY <2>9, PassStepIInv
    <2>10. CASE Restart
        BY <2>10, RestartIInv
    <2>11. CASE UNCHANGED vars
        BY <2>11, StutterIInv
    <2> QED
        BY <2>1, <2>2, <2>3, <2>4, <2>5, <2>6, <2>7, <2>8, <2>9, <2>10, <2>11,
           <2>12 DEF Next
<1> QED
    BY InitIInv, <1>0, <1>1, <1>2, PTL DEF Spec

\* Rows, lists and progress keep their types, and ListReadyByUpdatedAtAsc lists
\* the ready rows and no others, for every number of installs and whatever
\* requests, goroutines, deletes and the reconciler do in whatever order.
THEOREM TypeCorrect == Spec => []TypeOK
<1>1. IInv /\ DomsOK => TypeOK
    <2> SUFFICES ASSUME IInv, DomsOK PROVE TypeOK
        OBVIOUS
    <2> USE DEF IInv
    <2>1. ASSUME NEW n \in Ids
          PROVE  /\ job[n].pc \in {"none", "chain", "undo", "insert", "mark", "lookup",
                                   "agent", "ready", "failed", "over"}
                 /\ ToSet(job[n].todo) \subseteq ToSet(Chain)
                 /\ \A w \in Deleters :
                       del[n][w].pc \in {"idle", "resolve", "mark", "agent"}
                                           \cup ToSet(CleanUp)
                 /\ dbdel[n] \in {"idle", "grant", "schema", "db"}
        <3>1. job[n] \in Jobs /\ \A w \in Deleters : del[n][w] \in Dels
            BY DEF JobsOK, DelsOK
        <3>2. \A s \in Seq(Steps) : ToSet(s) \subseteq Steps
            BY DEF ToSet
        <3>3. job[n].pc \in JobPcs /\ job[n].todo \in Seq(Steps)
            BY <3>1 DEF Jobs
        <3>4. \A w \in Deleters : del[n][w].pc \in DelPcs
            BY <3>1 DEF Dels
        <3> QED
            BY <3>2, <3>3, <3>4, StepsOfLists DEF DelsOK, JobPcs, DelPcs
    <2>2. pass.todo \subseteq Ids
        BY DEF PassOK
    <2> QED
        BY <2>1, <2>2 DEF TypeOK, RowsOK, ReadyRows, HostOK, Counters, DomsOK
<1> QED
    BY Invariance, <1>1, PTL

\* However InstallApplication, the clone, both deletes, the databases page and failed
\* calls race, and for any number of installs, a database row made for an install has
\* its install row or somebody at work who will give it up, unless it was set adrift:
\* its request or delete was killed, the delete of the very row failed, or the install
\* row went with its domain.
THEOREM DatabasesAlwaysOwned == Spec => []DatabasesAreOwned
<1>1. IInv => DatabasesAreOwned
    <2>1. \A n \in Ids : job[n].pc = "none" /\ IInv => parts[n] = {}
        BY DEF IInv, History, Unmade
    <2> QED
        BY <2>1 DEF IInv, History, Kept, DatabasesAreOwned, Keeper, Early
<1> QED
    BY Invariance, <1>1, PTL

=============================================================================
