-------------------------- MODULE DomainSites_proofs --------------------------
(***************************************************************************)
(* Proofs about DomainSites for every set of domains and clients and every *)
(* bound.                                                                  *)
(*                                                                         *)
(* The argument: ids are handed out once.  A copy of a row therefore never *)
(* stands for the row of another domain, however long a pass or a request  *)
(* has held it and whatever was deleted and created meanwhile, so an       *)
(* UPDATE ... WHERE id = ? with that copy writes its own domain's row or   *)
(* none.                                                                   *)
(***************************************************************************)
EXTENDS DomainSites, TLAPS

\* The copies whose id is, if any row's, that of their domain's row.
Known ==
    {c \in Copies :
        /\ c.id <= ids
        /\ \A e \in Domains : row[e] # NoRow /\ row[e].id = c.id => e = c.d}

\* What a pass and a request hold at each of their steps.
PassCopies ==
    {Idle}
      \union [at : {"quota"}, mark : BOOLEAN, todo : SUBSET Known]
      \union [at : {"rows"}, sites : SUBSET Domains]
      \union [at : {"next"}, todo : SUBSET Known]
      \union [at : {"save", "push", "vhost"}, cur : Known, todo : SUBSET Known]
ReqCopies ==
    {Idle}
      \union [at : {"insert"}, d : Domains]
      \union [at : {"update"}, to : Known, shell : BOOLEAN]
      \union [at : {"zone"}, to : Known, on : BOOLEAN]
      \union [at : {"bulk"}, on : BOOLEAN]

Table ==
    /\ row \in [Domains -> {NoRow} \union Rows] /\ ids \in 0..MaxIds
    /\ \A d \in Domains : row[d] # NoRow => row[d].id <= ids
    /\ \A d, e \in Domains :
          row[d] # NoRow /\ row[e] # NoRow /\ row[d].id = row[e].id => d = e
Owner == suspended \in BOOLEAN /\ usage \in Usages
Host ==
    /\ file \in [Domains -> Vhosts] /\ live \in [Domains -> Vhosts]
    /\ owed \in BOOLEAN /\ zone \in [Domains -> BOOLEAN]
    /\ tear \subseteq [d : Domains, at : {"vhost", "zone"}]
Queue == queue \in Seq(1..MaxIds) /\ Len(queue) <= QueueCap
Held == pass \in [Passes -> PassCopies] /\ req \in [Clients -> ReqCopies]
Counters == asked \in 0..MaxAsked /\ faults \in 0..MaxFaults

IInv == Table /\ Owner /\ Host /\ Queue /\ Held /\ Counters

\* An id names one domain for good: no two rows have the same id, and the id of a
\* copy that a pass or a request holds is no other domain's.
IdNamesOneDomain ==
    /\ \A d, e \in Domains :
          row[d] # NoRow /\ row[e] # NoRow /\ row[d].id = row[e].id => d = e
    /\ \A p \in Passes :
          /\ pass[p].at \in {"quota", "next", "save", "push", "vhost"}
                => pass[p].todo \subseteq Known
          /\ pass[p].at \in {"save", "push", "vhost"} => pass[p].cur \in Known
    /\ \A c \in Clients : req[c].at \in {"update", "zone"} => req[c].to \in Known

-----------------------------------------------------------------------------
(* What the copies look like.                                              *)

\* The step a pass or a request has reached tells which copies it holds.
LEMMA PassShape ==
    ASSUME NEW r \in PassCopies
    PROVE  /\ r.at \in {"idle", "quota", "rows", "next", "save", "push", "vhost"}
           /\ r.at = "quota" => r \in [at : {"quota"}, mark : BOOLEAN, todo : SUBSET Known]
           /\ r.at = "rows" => r \in [at : {"rows"}, sites : SUBSET Domains]
           /\ r.at = "next" => r \in [at : {"next"}, todo : SUBSET Known]
           /\ r.at \in {"save", "push", "vhost"} =>
                 r \in [at : {"save", "push", "vhost"}, cur : Known, todo : SUBSET Known]
BY DEF PassCopies, Idle

LEMMA ReqShape ==
    ASSUME NEW r \in ReqCopies
    PROVE  /\ r.at \in {"idle", "insert", "update", "zone", "bulk"}
           /\ r.at = "insert" => r \in [at : {"insert"}, d : Domains]
           /\ r.at = "update" => r \in [at : {"update"}, to : Known, shell : BOOLEAN]
           /\ r.at = "zone" => r \in [at : {"zone"}, to : Known, on : BOOLEAN]
           /\ r.at = "bulk" => r \in [at : {"bulk"}, on : BOOLEAN]
BY DEF ReqCopies, Idle

LEMMA IdleHeld == Idle \in PassCopies /\ Idle \in ReqCopies
BY DEF PassCopies, ReqCopies

\* A copy just read is known.
LEMMA CopyKnown ==
    ASSUME Table, NEW d \in Domains, row[d] # NoRow
    PROVE  Copy(d) \in Known /\ Copy(d).d = d
<1>1. row[d] \in Rows
    BY DEF Table
<1>2. Copy(d) \in Copies /\ Copy(d).id = row[d].id /\ Copy(d).d = d
    BY <1>1 DEF Copy, Copies, Rows
<1> QED
    BY <1>2 DEF Table, Known

LEMMA AllCopiesKnown == Table => AllCopies \subseteq Known
BY CopyKnown DEF AllCopies

LEMMA VisitsHeld ==
    ASSUME NEW S \in SUBSET Known
    PROVE  Visits(S) \in PassCopies
BY DEF Visits, PassCopies

\* What is held stays what it is when no known copy becomes unknown.
LEMMA HeldMonotone ==
    ASSUME Known \subseteq Known'
    PROVE  PassCopies \subseteq PassCopies' /\ ReqCopies \subseteq ReqCopies'
<1>1. ASSUME NEW r \in PassCopies PROVE r \in PassCopies'
    BY <1>1 DEF PassCopies
<1>2. ASSUME NEW r \in ReqCopies PROVE r \in ReqCopies'
    BY <1>2 DEF ReqCopies
<1> QED
    BY <1>1, <1>2

-----------------------------------------------------------------------------
(* The table.                                                              *)

\* Rows that are written or deleted keep their ids to their domains.
LEMMA RowsWritten ==
    ASSUME Table, UNCHANGED ids, row' \in [Domains -> {NoRow} \union Rows],
           \A d \in Domains : \/ row'[d] = NoRow
                              \/ row[d] # NoRow /\ row'[d].id = row[d].id
    PROVE  Table' /\ Known \subseteq Known'
BY DEF Table, Known

LEMMA UpdateTable ==
    ASSUME Table, UNCHANGED ids, NEW c \in Known, NEW on \in BOOLEAN,
           NEW quota \in BOOLEAN, Update(c, on, quota)
    PROVE  Table' /\ Known \subseteq Known'
<1>1. c.d \in Domains
    BY DEF Known, Copies
<1>2. CASE Exists(c)
    <2> DEFINE r == [row[c.d] EXCEPT !.on = on, !.quota = quota]
    <2>1. row[c.d] \in Rows /\ row[c.d] # NoRow
        BY <1>1, <1>2 DEF Exists, Table
    <2>2. r \in Rows /\ r.id = row[c.d].id
        BY <2>1 DEF Rows
    <2>3. row' = [row EXCEPT ![c.d] = r]
        BY <1>1, <1>2, <2>1 DEF Update, Table
    <2> HIDE DEF r
    <2>4. row' \in [Domains -> {NoRow} \union Rows]
        BY <1>1, <2>2, <2>3 DEF Table
    <2>5. \A d \in Domains : row'[d] = NoRow \/ (row[d] # NoRow /\ row'[d].id = row[d].id)
        BY <1>1, <2>1, <2>2, <2>3 DEF Table
    <2> QED
        BY <2>4, <2>5, RowsWritten
<1>3. CASE ~Exists(c)
    <2>1. row' = row
        BY <1>3 DEF Update
    <2> QED
        BY <2>1, RowsWritten DEF Table
<1> QED
    BY <1>2, <1>3

LEMMA BulkTable ==
    ASSUME Table, UNCHANGED ids, NEW on \in BOOLEAN, BulkSetEnabledByUserID(on)
    PROVE  Table' /\ Known \subseteq Known'
<1>1. \A d \in Domains : row[d] # NoRow =>
         [row[d] EXCEPT !.on = on] \in Rows /\ [row[d] EXCEPT !.on = on].id = row[d].id
    BY DEF Table, Rows
<1>2. row' \in [Domains -> {NoRow} \union Rows]
    BY <1>1 DEF BulkSetEnabledByUserID, Table
<1>3. \A d \in Domains : row'[d] = NoRow \/ (row[d] # NoRow /\ row'[d].id = row[d].id)
    BY <1>1 DEF BulkSetEnabledByUserID, Table
<1> QED
    BY <1>2, <1>3, RowsWritten

\* A new row has an id that no row and no copy has had.
LEMMA InsertTable ==
    ASSUME Table, NEW d \in Domains, ids < MaxIds, ids' = ids + 1,
           row' = [row EXCEPT ![d] = [id |-> ids + 1, on |-> TRUE, quota |-> FALSE]]
    PROVE  Table' /\ Known \subseteq Known' /\ ids + 1 \in 1..MaxIds
<1> DEFINE r == [id |-> ids + 1, on |-> TRUE, quota |-> FALSE]
<1>0. ids \in Nat /\ ids' \in 0..MaxIds /\ ids + 1 \in 1..MaxIds
    BY BoundsAssumption DEF Table
<1>1. r \in Rows /\ r.id = ids + 1
    BY <1>0 DEF Rows
<1>2. row' = [row EXCEPT ![d] = r]
    OBVIOUS
<1> HIDE DEF r
<1>3. /\ row' \in [Domains -> {NoRow} \union Rows] /\ row'[d] = r
      /\ \A e \in Domains \ {d} : row'[e] = row[e]
    BY <1>1, <1>2 DEF Table
<1>4. \A e \in Domains \ {d} : row'[e] # NoRow => row'[e].id \in Nat /\ row'[e].id <= ids
    <2>1. \A e \in Domains : row[e] # NoRow => row[e] \in Rows
        BY DEF Table
    <2>2. \A x \in Rows : x.id \in Nat
        BY BoundsAssumption DEF Rows
    <2> QED
        BY <1>3, <2>1, <2>2 DEF Table
<1>5. \A e \in Domains : row'[e] # NoRow => row'[e].id <= ids'
    BY <1>0, <1>1, <1>3, <1>4
<1>6. \A e, f \in Domains :
        row'[e] # NoRow /\ row'[f] # NoRow /\ row'[e].id = row'[f].id => e = f
    <2>1. \A e \in Domains \ {d} : row'[e] # NoRow => row'[e].id # ids + 1
        BY <1>0, <1>4
    <2> QED
        BY <1>1, <1>3, <2>1 DEF Table
<1>7. Known \subseteq Known'
    <2>1. ASSUME NEW c \in Known PROVE c \in Known'
        <3>1. c \in Copies /\ c.id \in Nat /\ c.id <= ids
            BY BoundsAssumption DEF Known, Copies
        <3>2. c.id <= ids' /\ c.id # ids + 1
            BY <1>0, <3>1
        <3>3. \A e \in Domains : row'[e] # NoRow /\ row'[e].id = c.id => e = c.d
            BY <1>1, <1>3, <3>2 DEF Known
        <3> QED
            BY <3>1, <3>2, <3>3 DEF Known
    <2> QED
        BY <2>1
<1> QED
    BY <1>0, <1>3, <1>5, <1>6, <1>7 DEF Table

LEMMA ScheduleQueue ==
    ASSUME Queue, NEW id \in 1..MaxIds, Schedule(id)
    PROVE  Queue'
<1>1. CASE Len(queue) < QueueCap
    BY <1>1, BoundsAssumption DEF Queue, Schedule
<1>2. CASE ~(Len(queue) < QueueCap)
    BY <1>2 DEF Queue, Schedule
<1> QED
    BY <1>1, <1>2

-----------------------------------------------------------------------------
(* Steps of a pass and of a request.                                       *)

LEMMA PassGoes ==
    ASSUME Held, NEW p \in Passes, NEW r \in PassCopies, Step(p, r), UNCHANGED req,
           Known \subseteq Known'
    PROVE  Held'
BY HeldMonotone DEF Held, Step

LEMMA ReqGoes ==
    ASSUME Held, NEW c \in Clients, NEW r \in ReqCopies, req' = [req EXCEPT ![c] = r],
           UNCHANGED pass, Known \subseteq Known'
    PROVE  Held'
BY HeldMonotone DEF Held

LEMMA Unchanged ==
    /\ Table /\ UNCHANGED <<row, ids>> => Table' /\ Known \subseteq Known'
    /\ Owner /\ UNCHANGED <<suspended, usage>> => Owner'
    /\ Host /\ UNCHANGED <<file, live, owed, zone, tear>> => Host'
    /\ Queue /\ UNCHANGED queue => Queue'
BY DEF Table, Known, Owner, Host, Queue

LEMMA Counted ==
    ASSUME Counters, UNCHANGED bounds \/ Ask \/ Fault
    PROVE  Counters'
BY BoundsAssumption DEF Counters, bounds, Ask, Fault

LEMMA VhostWritten ==
    ASSUME Host, NEW c, UNCHANGED <<zone, tear>>, writeVhost(c) \/ writeVhostFails(c)
    PROVE  Host'
<1>0. file \in [Domains -> Vhosts] /\ live \in [Domains -> Vhosts]
    BY DEF Host
<1>1. Want(c) \in Vhosts /\ "none" \in Vhosts
    BY DEF Want, Vhosts
<1>2. file' \in [Domains -> Vhosts] /\ live' \in [Domains -> Vhosts]
    BY <1>0, <1>1 DEF writeVhost, writeVhostFails, Reload, ReloadFails, nginx
<1>3. owed' \in BOOLEAN
    BY DEF Host, writeVhost, writeVhostFails, Reload, ReloadFails, nginx
<1> QED
    BY <1>2, <1>3 DEF Host

LEMMA PassStepIInv ==
    ASSUME IInv, NEW p \in Passes, ReconcileAll(p) \/ PassStep(p)
    PROVE  IInv'
<1> USE DEF IInv
<1>0. UNCHANGED <<ids, suspended, usage, tear, req>> /\ Owner'
    BY Unchanged DEF ReconcileAll, PassStep, QuotaWrite, ListSites, ListRows,
                     FindZone, BumpSerial, PushZone, createDomainOnAgent
<1>1. Counters'
    <2>1. UNCHANGED bounds \/ Ask \/ Fault
        BY DEF ReconcileAll, PassStep, QuotaWrite, ListSites, ListRows,
               FindZone, BumpSerial, PushZone, createDomainOnAgent
    <2> QED
        BY <2>1, Counted
<1>2. pass[p] \in PassCopies
    BY DEF Held
<1>3. AllCopies \subseteq Known
    BY AllCopiesKnown
<1>4. ASSUME NEW r \in PassCopies, Step(p, r), UNCHANGED <<row, file, live, owed, zone, queue>>
      PROVE  IInv'
    BY <1>0, <1>1, <1>4, Unchanged, PassGoes
<1>5. CASE ReconcileAll(p)
    <2> DEFINE r == [at |-> "quota", mark |-> usage = "high", todo |-> QuotaTodo]
    <2>1. QuotaTodo \subseteq Known
        BY <1>3 DEF QuotaTodo
    <2>2. r \in PassCopies
        BY <2>1 DEF PassCopies
    <2>3. Step(p, r) /\ UNCHANGED <<row, file, live, owed, zone, queue>>
        BY <1>5 DEF ReconcileAll, host, nginx
    <2> HIDE DEF r
    <2> QED
        BY <1>4, <2>2, <2>3
<1>6. CASE QuotaWrite(p)
    <2>1. pass[p] \in [at : {"quota"}, mark : BOOLEAN, todo : SUBSET Known]
        BY <1>2, <1>6, PassShape DEF QuotaWrite
    <2>2. PICK c \in pass[p].todo :
             /\ Step(p, [pass[p] EXCEPT !.todo = @ \ {c}])
             /\ \/ Update(c, ~pass[p].mark, pass[p].mark) /\ Schedule(c.id)
                \/ UNCHANGED <<row, queue>>
        BY <1>6 DEF QuotaWrite
    <2> DEFINE r == [pass[p] EXCEPT !.todo = pass[p].todo \ {c}]
    <2>3. r \in PassCopies /\ Step(p, r)
        BY <2>1, <2>2 DEF PassCopies
    <2>4. c \in Known /\ c.id \in 1..MaxIds /\ pass[p].mark \in BOOLEAN
        BY <2>1, <2>2 DEF Known, Copies
    <2> HIDE DEF r
    <2>5. Table' /\ Known \subseteq Known' /\ Queue'
        <3>1. CASE Update(c, ~pass[p].mark, pass[p].mark) /\ Schedule(c.id)
            <4>1. (~pass[p].mark) \in BOOLEAN
                BY <2>4
            <4> QED
                BY <1>0, <2>4, <3>1, <4>1, UpdateTable, ScheduleQueue
        <3>2. CASE UNCHANGED <<row, queue>>
            BY <1>0, <3>2, Unchanged
        <3> QED
            BY <2>2, <3>1, <3>2
    <2>6. UNCHANGED <<file, live, owed, zone>>
        BY <1>6 DEF QuotaWrite, host, nginx
    <2> QED
        BY <1>0, <1>1, <2>3, <2>5, <2>6, Unchanged, PassGoes
<1>7. CASE ListSites(p)
    <2> DEFINE r == [at |-> "rows", sites |-> {d \in Domains : file[d] # "none"}]
    <2>1. r \in PassCopies
        BY DEF PassCopies
    <2>2. Step(p, r) \/ Step(p, Idle)
        BY <1>7 DEF ListSites
    <2>3. UNCHANGED <<row, file, live, owed, zone, queue>>
        BY <1>7 DEF ListSites, host, nginx
    <2> HIDE DEF r
    <2> QED
        BY <1>4, <2>1, <2>2, <2>3, IdleHeld
<1>8. CASE ListRows(p)
    <2>1. ToVisit(pass[p].sites) \in SUBSET Known
        BY <1>3 DEF ToVisit
    <2>2. Visits(ToVisit(pass[p].sites)) \in PassCopies
        BY <2>1, VisitsHeld
    <2>3. Step(p, Visits(ToVisit(pass[p].sites))) /\ UNCHANGED <<row, file, live, owed, zone, queue>>
        BY <1>8 DEF ListRows, host, nginx
    <2> QED
        BY <1>4, <2>2, <2>3
<1>9. CASE FindZone(p)
    <2>1. pass[p] \in [at : {"next"}, todo : SUBSET Known]
        BY <1>2, <1>9, PassShape DEF FindZone
    <2>2. PICK c \in pass[p].todo : \E at \in {"save", "vhost"} :
             Step(p, [at |-> at, cur |-> c, todo |-> pass[p].todo \ {c}])
        BY <1>9 DEF FindZone
    <2>3. PICK at \in {"save", "vhost"} :
             Step(p, [at |-> at, cur |-> c, todo |-> pass[p].todo \ {c}])
        BY <2>2
    <2>4. [at |-> at, cur |-> c, todo |-> pass[p].todo \ {c}] \in PassCopies
        BY <2>1 DEF PassCopies
    <2>5. UNCHANGED <<row, file, live, owed, zone, queue>>
        BY <1>9 DEF FindZone, nginx
    <2> QED
        BY <1>4, <2>3, <2>4, <2>5
<1>10. CASE BumpSerial(p)
    <2> DEFINE r == [pass[p] EXCEPT !.at = "push"]
    <2>1. pass[p] \in [at : {"save", "push", "vhost"}, cur : Known, todo : SUBSET Known]
        BY <1>2, <1>10, PassShape DEF BumpSerial
    <2>2. r \in PassCopies
        BY <2>1 DEF PassCopies
    <2>3. Step(p, r) /\ UNCHANGED <<row, file, live, owed, zone, queue>>
        BY <1>10 DEF BumpSerial, nginx
    <2> HIDE DEF r
    <2> QED
        BY <1>4, <2>2, <2>3
<1>11. CASE PushZone(p)
    <2> DEFINE r == [pass[p] EXCEPT !.at = "vhost"]
    <2>1. pass[p] \in [at : {"save", "push", "vhost"}, cur : Known, todo : SUBSET Known]
        BY <1>2, <1>11, PassShape DEF PushZone
    <2>2. r \in PassCopies
        BY <2>1 DEF PassCopies
    <2>3. Step(p, r) /\ UNCHANGED <<row, file, live, owed, queue>>
        BY <1>11 DEF PushZone, nginx
    <2>4. Host'
        BY <1>0, <1>11 DEF PushZone, Host, nginx
    <2> HIDE DEF r
    <2> QED
        BY <1>0, <1>1, <2>2, <2>3, <2>4, Unchanged, PassGoes
<1>12. CASE createDomainOnAgent(p)
    <2>1. pass[p] \in [at : {"save", "push", "vhost"}, cur : Known, todo : SUBSET Known]
        BY <1>2, <1>12, PassShape DEF createDomainOnAgent
    <2>2. Visits(pass[p].todo) \in PassCopies
        BY <2>1, VisitsHeld
    <2>3. Step(p, Visits(pass[p].todo)) /\ UNCHANGED <<row, queue, zone>>
        BY <1>12 DEF createDomainOnAgent
    <2>4. Host'
        BY <1>0, <1>12, <2>3, VhostWritten DEF createDomainOnAgent
    <2> QED
        BY <1>0, <1>1, <2>2, <2>3, <2>4, Unchanged, PassGoes
<1> QED
    BY <1>5, <1>6, <1>7, <1>8, <1>9, <1>10, <1>11, <1>12 DEF PassStep

LEMMA ScheduledPassIInv ==
    ASSUME IInv, ReconcileOne \/ ReconcileAllForce
    PROVE  IInv'
<1> USE DEF IInv
<1>1. AllCopies \subseteq Known
    BY AllCopiesKnown
<1>2. CASE ReconcileOne
    <2> DEFINE S == {c \in AllCopies : c.id = Head(queue)}
    <2>1. Visits(S) \in PassCopies
        BY <1>1, VisitsHeld
    <2>2. /\ Step("loop", Visits(S)) /\ queue' = Tail(queue) /\ queue # <<>>
          /\ UNCHANGED <<row, ids, suspended, usage, file, live, owed, zone, tear, req, bounds>>
        BY <1>2 DEF ReconcileOne, host, nginx
    <2> HIDE DEF S
    <2>3. Queue'
        BY <2>2, BoundsAssumption DEF Queue
    <2>4. "loop" \in Passes
        BY DEF Passes
    <2> QED
        BY <2>1, <2>2, <2>3, <2>4, Unchanged, Counted, PassGoes
<1>3. CASE ReconcileAllForce
    <2>1. Visits(AllCopies) \in PassCopies /\ "request" \in Passes
        BY <1>1, VisitsHeld DEF Passes
    <2>2. /\ Step("request", Visits(AllCopies)) /\ Ask
          /\ UNCHANGED <<row, ids, suspended, usage, file, live, owed, zone, queue, tear, req>>
        BY <1>3 DEF ReconcileAllForce, host, nginx
    <2> QED
        BY <2>1, <2>2, Unchanged, Counted, PassGoes
<1> QED
    BY <1>2, <1>3

LEMMA TearStepIInv == IInv /\ TearStep => IInv'
<1> SUFFICES ASSUME IInv, NEW t \in tear, DeleteVhost(t) \/ DeleteZone(t) PROVE IInv'
    BY DEF TearStep
<1> USE DEF IInv
<1>1. /\ UNCHANGED <<row, ids, suspended, usage, queue, pass, req>>
      /\ UNCHANGED bounds \/ Fault
    BY DEF DeleteVhost, DeleteZone
<1>2. t \in [d : Domains, at : {"vhost", "zone"}]
    BY DEF Host
<1>3. Host'
    <2>1. CASE DeleteVhost(t)
        <3>1. [t EXCEPT !.at = "zone"] \in [d : Domains, at : {"vhost", "zone"}]
            BY <1>2
        <3>2. file' \in [Domains -> Vhosts] /\ live' \in [Domains -> Vhosts]
            BY <2>1 DEF DeleteVhost, Host, Reload, ReloadFails, Vhosts, nginx
        <3>4. owed' \in BOOLEAN
            BY <2>1 DEF DeleteVhost, Host, Reload, ReloadFails, nginx
        <3>3. /\ tear' = (tear \ {t}) \union {[t EXCEPT !.at = "zone"]}
              /\ zone' = zone
            BY <2>1 DEF DeleteVhost
        <3> QED
            BY <3>1, <3>2, <3>3, <3>4 DEF Host
    <2>2. CASE DeleteZone(t)
        BY <2>2 DEF DeleteZone, Host, nginx
    <2> QED
        BY <2>1, <2>2
<1>4. Held'
    BY <1>1, Unchanged, HeldMonotone DEF Held
<1> QED
    BY <1>1, <1>3, <1>4, Unchanged, Counted

LEMMA ReqStepIInv ==
    ASSUME IInv, NEW c \in Clients, ReqStep(c)
    PROVE  IInv'
<1> USE DEF IInv
<1>0. /\ UNCHANGED <<suspended, usage, file, live, owed, zone, pass, tear>> /\ End(c)
      /\ UNCHANGED bounds \/ Fault
    BY DEF ReqStep, createInsert, updateWrite, updateZoneWrite, suspendBulk, host, nginx
<1>1. req[c] \in ReqCopies
    BY DEF Held
<1>2. ASSUME Table', Known \subseteq Known', Queue'
      PROVE  IInv'
    <2>1. Held'
        BY <1>0, <1>2, IdleHeld, ReqGoes DEF End
    <2> QED
        BY <1>0, <1>2, <2>1, Unchanged, Counted
<1>3. CASE createInsert(c)
    <2>1. req[c].d \in Domains
        BY <1>1, <1>3, ReqShape DEF createInsert
    <2>2. CASE row[req[c].d] = NoRow /\ ids < MaxIds
        <3>1. /\ ids' = ids + 1 /\ Schedule(ids + 1)
              /\ row' = [row EXCEPT ![req[c].d] = [id |-> ids + 1, on |-> TRUE,
                                                   quota |-> FALSE]]
            BY <1>3, <2>2 DEF createInsert
        <3>2. Table' /\ Known \subseteq Known' /\ ids + 1 \in 1..MaxIds
            BY <2>1, <2>2, <3>1, InsertTable
        <3> QED
            BY <1>2, <3>1, <3>2, ScheduleQueue
    <2>3. CASE ~(row[req[c].d] = NoRow /\ ids < MaxIds)
        BY <1>2, <1>3, <2>3, Unchanged DEF createInsert
    <2> QED
        BY <2>2, <2>3
<1>4. CASE updateWrite(c)
    <2>1. req[c] \in [at : {"update"}, to : Known, shell : BOOLEAN]
        BY <1>1, <1>4, ReqShape DEF updateWrite
    <2>2. /\ req[c].to \in Known /\ req[c].to.on \in BOOLEAN /\ req[c].to.quota \in BOOLEAN
          /\ req[c].to.id \in 1..MaxIds
        BY <2>1 DEF Known, Copies
    <2>3. Update(req[c].to, req[c].to.on, req[c].to.quota) /\ UNCHANGED ids
        BY <1>4 DEF updateWrite
    <2>4. Table' /\ Known \subseteq Known'
        BY <2>2, <2>3, UpdateTable
    <2>5. UNCHANGED queue \/ Schedule(req[c].to.id)
        BY <1>4 DEF updateWrite
    <2>6. Queue'
        BY <2>2, <2>5, Unchanged, ScheduleQueue
    <2> QED
        BY <1>2, <2>4, <2>6
<1>5. CASE suspendBulk(c)
    <2>1. req[c].on \in BOOLEAN
        BY <1>1, <1>5, ReqShape DEF suspendBulk
    <2>2. /\ UNCHANGED <<ids, queue>>
          /\ BulkSetEnabledByUserID(req[c].on) \/ UNCHANGED row
        BY <1>5 DEF suspendBulk
    <2> QED
        BY <1>2, <2>1, <2>2, Unchanged, BulkTable
<1>6. CASE updateZoneWrite(c)
    <2>1. req[c].to.id \in 1..MaxIds
        <3>1. req[c] \in [at : {"zone"}, to : Known, on : BOOLEAN]
            BY <1>1, <1>6, ReqShape DEF updateZoneWrite
        <3> QED
            BY <3>1 DEF Known, Copies
    <2>2. UNCHANGED <<row, ids>> /\ (UNCHANGED queue \/ Schedule(req[c].to.id))
        BY <1>6 DEF updateZoneWrite
    <2>3. Queue'
        BY <2>1, <2>2, Unchanged, ScheduleQueue
    <2> QED
        BY <1>2, <2>2, <2>3, Unchanged
<1> QED
    BY <1>3, <1>4, <1>5, <1>6 DEF ReqStep

\* Requests begin with copies just read; a delete takes a row and its id away.
LEMMA BeginIInv ==
    ASSUME IInv, NEW c \in Clients,
           \/ \E d \in Domains : create(c, d) \/ update(c, d) \/ updateZone(c, d) \/ delete(c, d)
           \/ \E to \in BOOLEAN : suspend(c, to)
    PROVE  IInv'
<1> USE DEF IInv
<1>1. ASSUME NEW r \in ReqCopies, Begin(c, r), Owner',
             UNCHANGED <<row, ids, host, queue, pass, tear>>
      PROVE  IInv'
    <2>1. Held'
        BY <1>1, Unchanged, ReqGoes DEF Begin
    <2> QED
        BY <1>1, <2>1, Unchanged, Counted DEF Begin, host, nginx
<1>2. ASSUME NEW d \in Domains, create(c, d) PROVE IInv'
    <2>1. [at |-> "insert", d |-> d] \in ReqCopies
        BY DEF ReqCopies
    <2>2. /\ Begin(c, [at |-> "insert", d |-> d])
          /\ UNCHANGED <<row, ids, suspended, usage, host, queue, pass, tear>>
        BY <1>2 DEF create
    <2> QED
        BY <1>1, <2>1, <2>2, Unchanged
<1>3. ASSUME NEW d \in Domains, update(c, d) PROVE IInv'
    <2>1. PICK on \in BOOLEAN, shell \in BOOLEAN :
             Begin(c, [at |-> "update", to |-> [Copy(d) EXCEPT !.on = on], shell |-> shell])
        BY <1>3 DEF update
    <2> DEFINE k == [Copy(d) EXCEPT !.on = on]
               r == [at |-> "update", to |-> k, shell |-> shell]
    <2>2. Copy(d) \in Known
        BY <1>3, CopyKnown DEF update
    <2>3. k \in Copies /\ k.id = Copy(d).id /\ k.d = Copy(d).d
        BY <2>2 DEF Known, Copies
    <2>4. Begin(c, r)
        BY <2>1
    <2> HIDE DEF k
    <2>5. k \in Known
        BY <2>2, <2>3 DEF Known
    <2>6. r \in ReqCopies
        BY <2>5 DEF ReqCopies
    <2> HIDE DEF r
    <2>7. UNCHANGED <<row, ids, suspended, usage, host, queue, pass, tear>>
        BY <1>3 DEF update
    <2> QED
        BY <1>1, <2>4, <2>6, <2>7, Unchanged
<1>4. ASSUME NEW d \in Domains, delete(c, d) PROVE IInv'
    <2>1. /\ Ask /\ row' = [row EXCEPT ![d] = NoRow]
          /\ UNCHANGED <<ids, suspended, usage, file, live, owed, zone, queue, pass, req>>
        BY <1>4 DEF delete, nginx
    <2>2. Table' /\ Known \subseteq Known'
        <3>1. row' \in [Domains -> {NoRow} \union Rows]
            BY <2>1 DEF Table
        <3>2. \A e \in Domains : row'[e] = NoRow \/ (row[e] # NoRow /\ row'[e].id = row[e].id)
            BY <2>1 DEF Table
        <3> QED
            BY <2>1, <3>1, <3>2, RowsWritten
    <2>3. Host'
        <3>1. tear' = tear \union {[d |-> d, at |-> "vhost"]} \/ tear' = tear
            BY <1>4 DEF delete
        <3> QED
            BY <2>1, <3>1 DEF Host
    <2>4. Held'
        BY <2>1, <2>2, HeldMonotone DEF Held
    <2> QED
        BY <2>1, <2>2, <2>3, <2>4, Unchanged, Counted
<1>5. ASSUME NEW to \in BOOLEAN, suspend(c, to) PROVE IInv'
    <2>1. [at |-> "bulk", on |-> ~to] \in ReqCopies
        BY DEF ReqCopies
    <2>2. /\ Begin(c, [at |-> "bulk", on |-> ~to])
          /\ UNCHANGED <<row, ids, usage, host, queue, pass, tear>> /\ suspended' = to
        BY <1>5 DEF suspend
    <2>3. Owner'
        BY <2>2 DEF Owner
    <2> QED
        BY <1>1, <2>1, <2>2, <2>3
<1>6. ASSUME NEW d \in Domains, updateZone(c, d) PROVE IInv'
    <2>1. PICK on \in BOOLEAN : Begin(c, [at |-> "zone", to |-> Copy(d), on |-> on])
        BY <1>6 DEF updateZone
    <2>2. Copy(d) \in Known
        BY <1>6, CopyKnown DEF updateZone
    <2>3. [at |-> "zone", to |-> Copy(d), on |-> on] \in ReqCopies
        BY <2>2 DEF ReqCopies
    <2>4. UNCHANGED <<row, ids, suspended, usage, host, queue, pass, tear>>
        BY <1>6 DEF updateZone
    <2> QED
        BY <1>1, <2>1, <2>3, <2>4, Unchanged
<1> QED
    BY <1>2, <1>3, <1>4, <1>5, <1>6

LEMMA OtherIInv ==
    ASSUME IInv, UsageChanges \/ Restart
    PROVE  IInv'
<1> USE DEF IInv
<1>1. CASE UsageChanges
    <2>1. /\ UNCHANGED <<row, ids, suspended, file, live, owed, zone, queue, pass, tear, req>>
          /\ Ask /\ usage' \in Usages
        BY <1>1 DEF UsageChanges, host, nginx
    <2>2. Held'
        BY <2>1, Unchanged, HeldMonotone DEF Held
    <2>3. Owner'
        BY <2>1 DEF Owner
    <2> QED
        BY <2>1, <2>2, <2>3, Unchanged, Counted
<1>2. CASE Restart
    <2>1. /\ UNCHANGED <<row, ids, suspended, usage, file, live, owed, zone>> /\ Fault
          /\ queue' = <<>> /\ tear' = {}
          /\ pass' = [p \in Passes |-> Idle] /\ req' = [c \in Clients |-> Idle]
        BY <1>2 DEF Restart, host, nginx
    <2>2. Held'
        BY <2>1, IdleHeld, Unchanged, HeldMonotone DEF Held
    <2>3. Queue'
        BY <2>1, BoundsAssumption DEF Queue
    <2>4. Host'
        BY <2>1 DEF Host
    <2> QED
        BY <2>1, <2>2, <2>3, <2>4, Unchanged, Counted
<1> QED
    BY <1>1, <1>2

LEMMA InitIInv == Init => IInv
<1> SUFFICES ASSUME Init PROVE IInv
    OBVIOUS
<1> USE DEF Init
<1>0. /\ row \in [Domains -> {NoRow} \union Rows] /\ ids \in 0..MaxIds
      /\ \A d \in Domains : row[d] = NoRow
    BY BoundsAssumption
<1>1. Table
    BY <1>0 DEF Table
<1>4. Owner /\ Counters /\ Queue
    <2>1. suspended = FALSE /\ usage = "low" /\ asked = 0 /\ faults = 0 /\ queue = <<>>
        BY Zenon
    <2>2. Owner
        BY <2>1 DEF Owner, Usages
    <2>3. Counters
        BY <2>1, BoundsAssumption DEF Counters
    <2>4. Queue
        BY <2>1, BoundsAssumption DEF Queue
    <2> QED
        BY <2>2, <2>3, <2>4
<1>2. Host
    BY DEF Host, Vhosts
<1>3. Held
    BY IdleHeld DEF Held
<1> QED
    BY <1>1, <1>2, <1>3, <1>4 DEF IInv

LEMMA StutterIInv == IInv /\ UNCHANGED vars => IInv'
<1> SUFFICES ASSUME IInv, UNCHANGED vars PROVE IInv'
    OBVIOUS
<1>1. Held'
    BY Unchanged, HeldMonotone DEF IInv, vars, Held
<1> QED
    BY <1>1, Unchanged, Counted DEF IInv, vars, bounds

-----------------------------------------------------------------------------
\* The inductive invariant holds of every behaviour: ids are handed out once,
\* and every copy held is one whose id is no other domain's.
THEOREM Invariance == Spec => []IInv
<1>1. IInv /\ [Next]_vars => IInv'
    <2> SUFFICES ASSUME IInv, [Next]_vars PROVE IInv'
        OBVIOUS
    <2>1. ASSUME NEW p \in Passes, ReconcileAll(p) \/ PassStep(p) PROVE IInv'
        BY <2>1, PassStepIInv
    <2>2. CASE ReconcileOne \/ ReconcileAllForce
        BY <2>2, ScheduledPassIInv
    <2>3. CASE TearStep
        BY <2>3, TearStepIInv
    <2>4. ASSUME NEW c \in Clients, ReqStep(c) PROVE IInv'
        BY <2>4, ReqStepIInv
    <2>5. ASSUME NEW c \in Clients,
                 \/ \E d \in Domains : create(c, d) \/ update(c, d) \/ updateZone(c, d) \/ delete(c, d)
                 \/ \E to \in BOOLEAN : suspend(c, to)
          PROVE  IInv'
        BY <2>5, BeginIInv
    <2>6. CASE UsageChanges \/ Restart
        BY <2>6, OtherIInv
    <2>7. CASE UNCHANGED vars
        BY <2>7, StutterIInv
    <2> QED
        BY <2>1, <2>2, <2>3, <2>4, <2>5, <2>6, <2>7 DEF Next
<1> QED
    BY InitIInv, <1>1, PTL DEF Spec

\* Every step leaves each row of dns_zones absent, enabled or disabled.
LEMMA ZonesKept ==
    ASSUME zrow \in [Domains -> ZoneRows], [Next]_vars
    PROVE  zrow' \in [Domains -> ZoneRows]
<1> USE DEF ZoneRows
<1>1. ASSUME NEW c, NEW on, SaveZone(c, on) PROVE zrow' \in [Domains -> ZoneRows]
    BY <1>1 DEF SaveZone
<1>2. ASSUME NEW p \in Passes, ReconcileAll(p) \/ PassStep(p)
      PROVE  zrow' \in [Domains -> ZoneRows]
    <2>1. zrow' = zrow \/ \E c : SaveZone(c, TRUE)
        BY <1>2 DEF ReconcileAll, PassStep, QuotaWrite, ListSites, ListRows, FindZone,
                    BumpSerial, PushZone, createDomainOnAgent, host
    <2> QED
        BY <1>1, <2>1
<1>3. ASSUME NEW c \in Clients, ReqStep(c) PROVE zrow' \in [Domains -> ZoneRows]
    <2>1. zrow' = zrow \/ SaveZone(req[c].to, req[c].on)
        BY <1>3 DEF ReqStep, createInsert, updateWrite, updateZoneWrite, suspendBulk, host
    <2> QED
        BY <1>1, <2>1
<1>4. ASSUME NEW c \in Clients, NEW d \in Domains,
             create(c, d) \/ update(c, d) \/ updateZone(c, d) \/ delete(c, d)
      PROVE  zrow' \in [Domains -> ZoneRows]
    BY <1>4 DEF create, update, updateZone, delete, host
<1>5. ASSUME NEW c \in Clients, NEW to \in BOOLEAN, suspend(c, to)
      PROVE  zrow' = zrow
    BY <1>5 DEF suspend, host
<1>6. CASE ReconcileOne \/ ReconcileAllForce \/ UsageChanges \/ Restart \/ UNCHANGED vars
    BY <1>6 DEF ReconcileOne, ReconcileAllForce, UsageChanges, Restart, host, vars
<1>7. CASE TearStep
    BY <1>7 DEF TearStep, DeleteVhost, DeleteZone
<1> QED
    BY <1>2, <1>3, <1>4, <1>5, <1>6, <1>7 DEF Next

\* The tables, the host and the reconciler's queue keep their types, and the
\* queue its capacity, for every number of domains and requests.
THEOREM TypeCorrect == Spec => []TypeOK
<1>1. IInv /\ zrow \in [Domains -> ZoneRows] => TypeOK
    <2> SUFFICES ASSUME IInv, zrow \in [Domains -> ZoneRows] PROVE TypeOK
        OBVIOUS
    <2>1. \A p \in Passes : pass[p].at \in
             {"idle", "quota", "rows", "next", "save", "push", "vhost"}
        BY PassShape DEF IInv, Held
    <2>2. \A c \in Clients : req[c].at \in {"idle", "insert", "update", "zone", "bulk"}
        BY ReqShape DEF IInv, Held
    <2> QED
        BY <2>1, <2>2 DEF IInv, Table, Owner, Host, Queue, Counters, TypeOK
<1>2. Init => zrow \in [Domains -> ZoneRows]
    BY DEF Init, ZoneRows
<1>3. zrow \in [Domains -> ZoneRows] /\ [Next]_vars => (zrow \in [Domains -> ZoneRows])'
    BY ZonesKept
<1> QED
    BY Invariance, <1>1, <1>2, <1>3, PTL DEF Spec

\* UPDATE domains ... WHERE id = ? with a copy that a pass or a request read
\* earlier writes the row of the copy's own domain or none, and the id that
\* Schedule queues finds at most one row, although domains are deleted and
\* created again meanwhile: an id is never given to another domain.
THEOREM IdsNameOneDomain == Spec => []IdNamesOneDomain
<1>1. IInv => IdNamesOneDomain
    <2> SUFFICES ASSUME IInv PROVE IdNamesOneDomain
        OBVIOUS
    <2>1. ASSUME NEW p \in Passes
          PROVE  /\ pass[p].at \in {"quota", "next", "save", "push", "vhost"}
                       => pass[p].todo \subseteq Known
                 /\ pass[p].at \in {"save", "push", "vhost"} => pass[p].cur \in Known
        <3>1. pass[p] \in PassCopies
            BY DEF IInv, Held
        <3> QED
            BY <3>1, PassShape
    <2>2. ASSUME NEW c \in Clients, req[c].at \in {"update", "zone"} PROVE req[c].to \in Known
        <3>1. req[c] \in ReqCopies
            BY DEF IInv, Held
        <3> QED
            BY <2>2, <3>1, ReqShape
    <2> QED
        BY <2>1, <2>2 DEF IdNamesOneDomain, IInv, Table
<1> QED
    BY Invariance, <1>1, PTL

=============================================================================
