------------------------ MODULE RuntimeServices_proofs ------------------------
(***************************************************************************)
(* Proofs about RuntimeServices for every set of domains and of ports and  *)
(* every bound.                                                            *)
(*                                                                         *)
(* The argument: guard and goroutine name each other, and so do            *)
(* reservation and visit.  A goroutine takes the guard of its domain when  *)
(* it starts and gives it back when it returns, so the guard it gives back *)
(* is never one that another goroutine relies on.  A visit reserves a port *)
(* nobody has reserved, so the port it releases is its own.                *)
(***************************************************************************)
EXTENDS RuntimeServices, TLAPS

Doms == [managed : BOOLEAN, on : BOOLEAN]

Deciding == {"decide", "dispatch", "heal", "monitor", "crashed"}

\* What a visit, a converge goroutine and a request hold at each of their steps.
VisitCopies ==
    {Idle}
      \union [at : {"find", "allocate"}, d : Domains, dom : Doms]
      \union [at : {"remove", "delete"}, d : Domains, id : Nat]
      \union [at : {"create"}, d : Domains, on : BOOLEAN, port : Ports]
      \union [at : Deciding, d : Domains, on : BOOLEAN, svc : Rows]
ConvCopies ==
    {Idle}
      \union [at : {"mark", "deploy", "apply", "failed", "refetch"},
              d : Domains, id : Nat, rev : Nat, port : Ports, on : BOOLEAN]
      \union [at : {"save"}, d : Domains, on : BOOLEAN, rev : Nat, svc : Rows]
ReqCopies ==
    {Idle}
      \union [at : {"create"}, d : Domains, port : Ports]
      \union [at : {"save"}, d : Domains, svc : Rows]

Tables ==
    /\ dom \in [Domains -> Doms]
    /\ svc \in [Domains -> {NoRow} \union Rows] /\ ids \in Nat
    /\ unit \in [Domains -> {NoRow} \union Units]
Copies ==
    /\ visit \in [Visitors -> VisitCopies]
    /\ conv \in [Slots -> ConvCopies]
    /\ req \in ReqCopies
Counters == asked \in 0..MaxAsked /\ faults \in 0..MaxFaults

\* A goroutine at work holds the guard of its domain.
GuardHeld == \A k \in Slots : conv[k] # Idle => conv[k].d \in inflight

\* Two visits that hold a reservation hold different ports.
OwnPorts == \A v, w \in Visitors :
    v # w /\ visit[v].at = "create" /\ visit[w].at = "create"
      => visit[v].port # visit[w].port

Guards == inflight \subseteq Domains /\ GuardHeld /\ OneConverge
Reservations == reserved \subseteq Ports /\ OwnPorts /\ ReservationsEnd

IInv == Tables /\ Copies /\ Counters /\ Guards /\ Reservations

\* What a restart leaves the agent with, and the history.
LeftCopies == [at : {"deploy", "apply"}, d : Domains, id : Nat, rev : Nat,
               port : Ports, on : BOOLEAN]
Aftermath == left \subseteq LeftCopies /\ overwritten \subseteq Domains

-----------------------------------------------------------------------------
(* What the copies look like.                                              *)

\* The step a process has reached tells which copies it holds.
LEMMA VisitShape ==
    ASSUME NEW r \in VisitCopies
    PROVE  /\ r.at \in {"idle", "find", "remove", "delete", "allocate", "create"}
                        \union Deciding
           /\ r.at = "idle" => r = Idle
           /\ r.at \in {"find", "allocate"} =>
                r \in [at : {"find", "allocate"}, d : Domains, dom : Doms]
           /\ r.at \in {"remove", "delete"} =>
                r \in [at : {"remove", "delete"}, d : Domains, id : Nat]
           /\ r.at = "create" =>
                r \in [at : {"create"}, d : Domains, on : BOOLEAN, port : Ports]
           /\ r.at \in Deciding =>
                r \in [at : Deciding, d : Domains, on : BOOLEAN, svc : Rows]
BY DEF VisitCopies, Idle, Deciding

LEMMA ConvShape ==
    ASSUME NEW r \in ConvCopies
    PROVE  /\ r.at \in {"idle", "mark", "deploy", "apply", "failed", "refetch", "save"}
           /\ r.at = "idle" <=> r = Idle
           /\ r # Idle => r.d \in Domains
           /\ r.at \in {"mark", "deploy", "apply", "failed", "refetch"} =>
                r \in [at : {"mark", "deploy", "apply", "failed", "refetch"},
                       d : Domains, id : Nat, rev : Nat, port : Ports, on : BOOLEAN]
           /\ r.at = "save" =>
                r \in [at : {"save"}, d : Domains, on : BOOLEAN, rev : Nat, svc : Rows]
BY DEF ConvCopies, Idle

LEMMA ReqShape ==
    ASSUME NEW r \in ReqCopies
    PROVE  /\ r.at \in {"idle", "create", "save"}
           /\ r.at = "create" => r \in [at : {"create"}, d : Domains, port : Ports]
           /\ r.at = "save" => r \in [at : {"save"}, d : Domains, svc : Rows]
BY DEF ReqCopies, Idle

LEMMA IInvTypes == IInv /\ Aftermath => TypeOK
BY VisitShape, ConvShape, ReqShape
   DEF IInv, Tables, Copies, Counters, Guards, Reservations, TypeOK, Doms, Deciding,
       Aftermath, LeftCopies

LEMMA InitIInv == Init => IInv
<1> SUFFICES ASSUME Init PROVE IInv
    OBVIOUS
<1>1. Tables
    BY DEF Init, Tables, Doms
<1>2. Copies
    BY DEF Init, Copies, VisitCopies, ConvCopies, ReqCopies
<1>3. Counters
    BY BoundsAssumption DEF Init, Counters
<1>4. Guards
    BY DEF Init, Guards, GuardHeld, OneConverge
<1>5. Reservations
    BY DEF Init, Reservations, OwnPorts, ReservationsEnd, Idle
<1> QED
    BY <1>1, <1>2, <1>3, <1>4, <1>5 DEF IInv

-----------------------------------------------------------------------------
(* The repository's writes keep the rows well formed.                      *)

LEMMA CreateTyped ==
    ASSUME Tables, NEW d \in Domains, NEW port \in Ports, Create(d, port)
    PROVE  /\ svc' \in [Domains -> {NoRow} \union Rows] /\ ids' \in Nat
           /\ svc'[d] \in Rows
<1>1. [id |-> ids + 1, status |-> "pending", rev |-> ids + 1, port |-> port] \in Rows
    BY DEF Rows, Statuses, Tables
<1> QED
    BY <1>1 DEF Create, Tables

LEMMA SetStatusTyped ==
    ASSUME Tables, NEW d \in Domains, NEW id, NEW rev, NEW status \in Statuses,
           SetStatus(d, id, rev, status)
    PROVE  svc' \in [Domains -> {NoRow} \union Rows]
<1>1. CASE Has(d, id) /\ svc' = [svc EXCEPT ![d].status = status]
    <2>1. [svc[d] EXCEPT !.status = status] \in Rows
        BY <1>1 DEF Has, Tables, Rows
    <2> QED
        BY <1>1, <2>1 DEF Tables
<1>2. CASE UNCHANGED svc
    BY <1>2 DEF Tables
<1> QED
    BY <1>1, <1>2 DEF SetStatus

LEMMA UpdateTyped ==
    ASSUME Tables, NEW d \in Domains, NEW s \in Rows, Update(d, s)
    PROVE  svc' \in [Domains -> {NoRow} \union Rows]
<1>1. CASE svc[d] # NoRow
    <2>1. [s EXCEPT !.id = svc[d].id] \in Rows
        BY <1>1 DEF Tables, Rows
    <2> QED
        BY <1>1, <2>1 DEF Update, Tables
<1>2. CASE svc[d] = NoRow
    BY <1>2 DEF Update, Tables
<1> QED
    BY <1>1, <1>2

-----------------------------------------------------------------------------
(* The tables.                                                             *)

LEMMA VisitTables ==
    ASSUME IInv, NEW v \in Visitors, VisitStep(v)
    PROVE  Tables'
<1> USE VisitShape DEF IInv
<1>0. visit[v] \in VisitCopies
    BY DEF Copies
<1>1. CASE FindRow(v) \/ Allocate(v)
    BY <1>1 DEF FindRow, Allocate, Tables
<1>2. CASE RemoveUnit(v)
    BY <1>0, <1>2 DEF RemoveUnit, Remove, Tables
<1>3. CASE DeleteRow(v)
    BY <1>0, <1>3 DEF DeleteRow, Delete, Tables
<1>4. CASE CreateRow(v)
    BY <1>0, <1>4, CreateTyped DEF CreateRow, CreateRefused, Tables
<1>5. CASE Decide(v) \/ Dispatch(v) \/ Monitor(v)
    BY <1>5 DEF Decide, Dispatch, Monitor, Tables
<1>6. CASE Heal(v) \/ MarkCrashed(v)
    <2>1. visit[v].d \in Domains
        BY <1>0, <1>6 DEF Heal, MarkCrashed, Deciding
    <2>2. "running" \in Statuses /\ "failed" \in Statuses
        BY DEF Statuses
    <2>3. svc' \in [Domains -> {NoRow} \union Rows]
        BY <1>6, <2>1, <2>2, SetStatusTyped DEF Heal, MarkCrashed
    <2> QED
        BY <1>6, <2>3 DEF Heal, MarkCrashed, Tables
<1> QED
    BY <1>1, <1>2, <1>3, <1>4, <1>5, <1>6 DEF VisitStep

LEMMA ConvTables ==
    ASSUME IInv, NEW k \in Slots, ConvStep(k)
    PROVE  Tables'
<1> USE ConvShape DEF IInv
<1>0. conv[k] \in ConvCopies
    BY DEF Copies
<1>1. CASE MarkDeploying(k)
    <2>1. svc' \in [Domains -> {NoRow} \union Rows]
        BY <1>0, <1>1, SetStatusTyped DEF MarkDeploying, Statuses
    <2> QED
        BY <1>1, <2>1 DEF MarkDeploying, Tables
<1>2. CASE Deploy(k) \/ Refetch(k)
    BY <1>2 DEF Deploy, Refetch, Tables
<1>3. CASE Apply(k)
    <2>1. conv[k].d \in Domains /\ Applied(conv[k]) \in Units
        BY <1>0, <1>3 DEF Apply, Applied, Units
    <2> QED
        BY <1>3, <2>1 DEF Apply, Tables
<1>4. CASE ConvergeFailed(k)
    <2>1. svc' \in [Domains -> {NoRow} \union Rows]
        BY <1>0, <1>4, SetStatusTyped DEF ConvergeFailed, Statuses
    <2> QED
        BY <1>4, <2>1 DEF ConvergeFailed, Tables
<1>5. CASE SaveConverged(k)
    <2>1. conv[k].d \in Domains /\ conv[k].svc \in Rows
        BY <1>0, <1>5 DEF SaveConverged
    <2>2. [conv[k].svc EXCEPT !.status = IF conv[k].on THEN "running" ELSE "stopped"] \in Rows
        BY <2>1 DEF Rows, Statuses
    <2>3. svc' \in [Domains -> {NoRow} \union Rows]
        BY <1>5, <2>1, <2>2, UpdateTyped DEF SaveConverged, Tables
    <2> QED
        BY <1>5, <2>3 DEF SaveConverged, Tables
<1> QED
    BY <1>1, <1>2, <1>3, <1>4, <1>5 DEF ConvStep

LEMMA OtherTables ==
    ASSUME IInv, NEW d \in Domains,
           \/ getCreate \/ updateSave \/ updateDomain(d)
           \/ getRuntimeService(d) \/ updateRuntimeService(d)
           \/ UnitCrashes(d) \/ UnitRecovers(d)
    PROVE  Tables'
<1> USE ReqShape DEF IInv
<1>0. req \in ReqCopies
    BY DEF Copies
<1>1. CASE getCreate
    BY <1>0, <1>1, CreateTyped DEF getCreate, CreateRefused, Tables
<1>2. CASE updateSave
    <2>1. req.d \in Domains /\ req.svc \in Rows
        BY <1>0, <1>2 DEF updateSave
    <2>2. [req.svc EXCEPT !.status = "pending", !.rev = ids + 1] \in Rows /\ ids' \in Nat
        <3>1. ids + 1 \in Nat /\ ids' = ids + 1
            BY <1>2 DEF Tables, updateSave
        <3>2. [req.svc EXCEPT !.status = "pending"] \in Rows
            BY <2>1 DEF Rows, Statuses
        <3>3. [req.svc EXCEPT !.status = "pending", !.rev = ids + 1] =
              [[req.svc EXCEPT !.status = "pending"] EXCEPT !.rev = ids + 1]
            BY <2>1 DEF Rows
        <3> QED
            BY <3>1, <3>2, <3>3 DEF Rows
    <2>3. svc' \in [Domains -> {NoRow} \union Rows]
        BY <1>2, <2>1, <2>2, UpdateTyped DEF updateSave
    <2> QED
        BY <1>2, <2>2, <2>3 DEF updateSave, Tables
<1>3. CASE updateDomain(d)
    BY <1>3 DEF updateDomain, Tables, Doms
<1>4. CASE getRuntimeService(d) \/ updateRuntimeService(d)
    BY <1>4 DEF getRuntimeService, updateRuntimeService, Tables
<1>5. CASE UnitCrashes(d)
    <2>1. [unit[d] EXCEPT !.state = "failed"] \in Units
        BY <1>5 DEF UnitCrashes, Active, Tables, Units
    <2> QED
        BY <1>5, <2>1 DEF UnitCrashes, Tables
<1>6. CASE UnitRecovers(d)
    <2>1. [unit[d] EXCEPT !.state = "active"] \in Units
        BY <1>6 DEF UnitRecovers, Tables, Units
    <2> QED
        BY <1>6, <2>1 DEF UnitRecovers, Tables
<1> QED
    BY <1>1, <1>2, <1>3, <1>4, <1>5, <1>6

-----------------------------------------------------------------------------
(* The copies, the guard and the reservations.                             *)

\* A visit ends or goes on with copies of its own, and its reservation is its
\* own: the rest of the reconciler's state is as it was.
LEMMA VisitKeeps ==
    ASSUME IInv, NEW v \in Visitors, VisitStep(v)
    PROVE  Copies' /\ Counters' /\ Guards' /\ Reservations'
<1> USE VisitShape, ConvShape DEF IInv
<1>0. visit[v] \in VisitCopies /\ visit \in [Visitors -> VisitCopies]
    BY DEF Copies
<1>c. ASSUME NEW r \in VisitCopies, Goto(v, r)
      PROVE  /\ visit' \in [Visitors -> VisitCopies]
             /\ visit'[v] = r
             /\ \A w \in Visitors \ {v} : visit'[w] = visit[w]
    BY <1>0, <1>c DEF Goto
<1>i. Idle \in VisitCopies
    BY DEF VisitCopies
<1>g. ASSUME UNCHANGED <<inflight, conv>>
      PROVE  Guards'
    BY <1>g DEF Guards, GuardHeld, OneConverge
<1>r. ASSUME NEW r \in VisitCopies, Goto(v, r), visit[v].at # "create",
             r.at # "create", UNCHANGED reserved
      PROVE  Reservations'
    BY <1>c, <1>r DEF Reservations, OwnPorts, ReservationsEnd
<1>k. ASSUME NEW r \in VisitCopies, Goto(v, r), UNCHANGED <<conv, req>>
      PROVE  Copies'
    BY <1>c, <1>k DEF Copies
<1>1. CASE FindRow(v)
    <2> DEFINE d == visit[v].d
               r == IF visit[v].dom.managed
                    THEN IF svc[d] = NoRow THEN [visit[v] EXCEPT !.at = "allocate"]
                         ELSE [at |-> "decide", d |-> d, on |-> visit[v].dom.on,
                               svc |-> svc[d]]
                    ELSE IF svc[d] = NoRow THEN Idle
                         ELSE [at |-> "remove", d |-> d, id |-> svc[d].id]
    <2>1. visit[v] \in [at : {"find", "allocate"}, d : Domains, dom : Doms]
        BY <1>0, <1>1 DEF FindRow
    <2>2. svc[d] = NoRow \/ svc[d] \in Rows
        BY <2>1 DEF Tables
    <2>3. r \in VisitCopies /\ r.at # "create"
        BY <2>1, <2>2 DEF VisitCopies, Doms, Rows, Idle, Deciding
    <2>4. Goto(v, r) /\ UNCHANGED <<reserved, inflight, conv, req, asked, faults>>
        BY <1>1 DEF FindRow, bounds
    <2> HIDE DEF r
    <2>5. visit[v].at # "create"
        BY <1>1 DEF FindRow
    <2> QED
        BY <1>g, <1>r, <1>k, <2>3, <2>4, <2>5 DEF Counters
<1>2. CASE RemoveUnit(v)
    <2> DEFINE r == [visit[v] EXCEPT !.at = "delete"]
    <2>1. r \in VisitCopies /\ r.at # "create" /\ visit[v].at # "create"
        BY <1>0, <1>2 DEF RemoveUnit, VisitCopies
    <2>2. Goto(v, r) /\ UNCHANGED <<reserved, inflight, conv, req>>
        BY <1>2 DEF RemoveUnit
    <2>3. Counters'
        BY <1>2, BoundsAssumption DEF RemoveUnit, Fault, bounds, Counters
    <2> HIDE DEF r
    <2> QED
        BY <1>g, <1>r, <1>k, <2>1, <2>2, <2>3
<1>3. CASE DeleteRow(v)
    <2>1. /\ Goto(v, Idle) /\ visit[v].at # "create"
          /\ UNCHANGED <<reserved, inflight, conv, req, asked, faults>>
        BY <1>3 DEF DeleteRow, bounds
    <2> QED
        BY <1>g, <1>r, <1>k, <1>i, <2>1 DEF Counters, Idle
<1>4. CASE Allocate(v)
    <2>1. visit[v] \in [at : {"find", "allocate"}, d : Domains, dom : Doms]
        BY <1>0, <1>4 DEF Allocate
    <2>2. UNCHANGED <<inflight, conv, req, asked, faults>> /\ visit[v].at = "allocate"
        BY <1>4 DEF Allocate, bounds
    <2>3. CASE Free = {} /\ Goto(v, Idle) /\ UNCHANGED reserved
        BY <1>g, <1>r, <1>k, <1>i, <2>2, <2>3 DEF Counters, Idle
    <2>4. ASSUME NEW p \in Free, reserved' = reserved \union {p},
                 Goto(v, [at |-> "create", d |-> visit[v].d,
                          on |-> visit[v].dom.on, port |-> p])
          PROVE  Copies' /\ Counters' /\ Guards' /\ Reservations'
        <3> DEFINE r == [at |-> "create", d |-> visit[v].d,
                         on |-> visit[v].dom.on, port |-> p]
        <3>1. p \in Ports /\ p \notin reserved
            BY DEF Free
        <3>2. r \in VisitCopies /\ r.at = "create" /\ r.port = p
            BY <2>1, <3>1 DEF VisitCopies, Doms
        <3>3. Goto(v, r)
            BY <2>4
        <3> HIDE DEF r
        <3>4. Copies' /\ Counters' /\ Guards'
            BY <1>g, <1>k, <2>2, <3>2, <3>3 DEF Counters
        <3>5. \A w \in Visitors \ {v} : visit[w].at = "create" => visit[w].port \in reserved
            BY DEF Reservations, ReservationsEnd
        <3>6. OwnPorts'
            BY <1>c, <3>1, <3>2, <3>3, <3>5 DEF Reservations, OwnPorts
        <3>7. ReservationsEnd'
            BY <1>c, <2>2, <2>4, <3>2, <3>3 DEF Reservations, ReservationsEnd
        <3> QED
            BY <2>4, <3>1, <3>4, <3>6, <3>7 DEF Reservations
    <2> QED
        BY <1>4, <2>3, <2>4 DEF Allocate
<1>5. CASE CreateRow(v)
    <2>1. visit[v] \in [at : {"create"}, d : Domains, on : BOOLEAN, port : Ports]
        BY <1>0, <1>5 DEF CreateRow
    <2>2. PICK r \in VisitCopies : r.at # "create" /\ Goto(v, r)
        <3>1. CASE /\ Create(visit[v].d, visit[v].port)
                   /\ Goto(v, [at |-> "decide", d |-> visit[v].d, on |-> visit[v].on,
                               svc |-> svc'[visit[v].d]])
            <4>1. svc'[visit[v].d] \in Rows
                BY <2>1, <3>1, CreateTyped
            <4>2. [at |-> "decide", d |-> visit[v].d, on |-> visit[v].on,
                   svc |-> svc'[visit[v].d]] \in VisitCopies
                BY <2>1, <4>1 DEF VisitCopies, Deciding
            <4> QED
                BY <3>1, <4>2
        <3>2. CASE Goto(v, Idle)
            BY <1>i, <3>2 DEF Idle
        <3> QED
            BY <1>5, <3>1, <3>2 DEF CreateRow
    <2>3. /\ reserved' = reserved \ {visit[v].port} /\ visit[v].at = "create"
          /\ UNCHANGED <<inflight, conv, req, asked, faults>>
        BY <1>5 DEF CreateRow, bounds
    <2>4. Copies' /\ Counters' /\ Guards'
        BY <1>g, <1>k, <2>2, <2>3 DEF Counters
    <2>5. OwnPorts'
        BY <1>c, <2>2 DEF Reservations, OwnPorts
    <2>6. ReservationsEnd'
        BY <1>c, <2>2, <2>3 DEF Reservations, OwnPorts, ReservationsEnd
    <2> QED
        BY <2>3, <2>4, <2>5, <2>6 DEF Reservations
<1>6. CASE Dispatch(v)
    <2>1. visit[v] \in [at : Deciding, d : Domains, on : BOOLEAN, svc : Rows]
        BY <1>0, <1>6 DEF Dispatch, Deciding
    <2> DEFINE d == visit[v].d
               g == [at |-> "mark", d |-> d, id |-> visit[v].svc.id,
                     rev |-> visit[v].svc.rev, port |-> visit[v].svc.port,
                     on |-> visit[v].on]
    <2>2. Goto(v, Idle) /\ UNCHANGED <<reserved, req>> /\ visit[v].at # "create"
        BY <1>6 DEF Dispatch
    <2>3. Reservations'
        BY <1>i, <1>r, <2>2 DEF Idle
    <2>4. Counters'
        BY <1>6 DEF Dispatch, bounds, Counters
    <2>5. \/ UNCHANGED <<inflight, conv>>
          \/ d \notin inflight /\ inflight' = inflight \union {d} /\ TakeSlot(g)
        BY <1>6 DEF Dispatch, Snapshot
    <2>6. CASE UNCHANGED <<inflight, conv>>
        BY <1>g, <1>k, <1>i, <2>2, <2>3, <2>4, <2>6
    <2>7. CASE d \notin inflight /\ inflight' = inflight \union {d} /\ TakeSlot(g)
        <3>1. g \in ConvCopies /\ g.d = d /\ g # Idle /\ d \in Domains
            BY <2>1 DEF ConvCopies, Rows, Idle
        <3> HIDE DEF g, d
        <3>2. PICK k \in Slots : conv[k] = Idle /\ conv' = [conv EXCEPT ![k] = g]
            BY <2>7 DEF TakeSlot
        <3>3. conv \in [Slots -> ConvCopies]
            BY DEF Copies
        <3>4. conv' \in [Slots -> ConvCopies]
            BY <3>1, <3>2, <3>3
        <3>5. Copies'
            BY <1>c, <1>i, <2>2, <3>4 DEF Copies
        <3>6. GuardHeld'
            BY <2>7, <3>1, <3>2, <3>3 DEF Guards, GuardHeld
        <3>7. OneConverge'
            BY <2>7, <3>1, <3>2, <3>3 DEF Guards, GuardHeld, OneConverge
        <3> QED
            BY <2>3, <2>4, <2>7, <3>1, <3>5, <3>6, <3>7 DEF Guards
    <2> QED
        BY <2>5, <2>6, <2>7
<1>7. ASSUME Decide(v) \/ Heal(v) \/ Monitor(v) \/ MarkCrashed(v)
      PROVE  Copies' /\ Counters' /\ Guards' /\ Reservations'
    <2>1. /\ visit[v] \in [at : Deciding, d : Domains, on : BOOLEAN, svc : Rows]
          /\ visit[v].at # "create"
        BY <1>0, <1>7 DEF Decide, Heal, Monitor, MarkCrashed, Deciding
    <2>2. UNCHANGED <<reserved, inflight, conv, req>>
        BY <1>7 DEF Decide, Heal, Monitor, MarkCrashed
    <2>3. Counters'
        <3>1. UNCHANGED bounds \/ Fault
            BY <1>7 DEF Decide, Heal, Monitor, MarkCrashed, SetStatus
        <3> QED
            BY <3>1, BoundsAssumption DEF Fault, bounds, Counters
    <2>4. \A at \in Deciding :
             [visit[v] EXCEPT !.at = at] \in VisitCopies /\ [visit[v] EXCEPT !.at = at].at # "create"
        BY <2>1 DEF VisitCopies, Deciding
    <2>5. Goto(v, Idle) \/ \E at \in Deciding : Goto(v, [visit[v] EXCEPT !.at = at])
        <3>1. CASE Decide(v)
            BY <3>1 DEF Decide, Deciding
        <3>2. CASE Heal(v) \/ Monitor(v) \/ MarkCrashed(v)
            BY <3>2 DEF Heal, Monitor, MarkCrashed, Deciding
        <3> QED
            BY <1>7, <3>1, <3>2
    <2>6. PICK r \in VisitCopies : Goto(v, r) /\ r.at # "create"
        BY <1>i, <2>4, <2>5 DEF Idle
    <2> QED
        BY <1>g, <1>r, <1>k, <2>1, <2>2, <2>3, <2>6
<1> QED
    BY <1>1, <1>2, <1>3, <1>4, <1>5, <1>6, <1>7 DEF VisitStep

\* A goroutine gives back its own domain's guard, on which no other relies.
LEMMA ConvKeeps ==
    ASSUME IInv, NEW k \in Slots, ConvStep(k)
    PROVE  Copies' /\ Counters' /\ Guards' /\ Reservations'
<1> USE ConvShape DEF IInv
<1>0. conv[k] \in ConvCopies /\ conv \in [Slots -> ConvCopies]
    BY DEF Copies
<1>1. UNCHANGED <<reserved, visit, req>> /\ conv[k] # Idle
    BY DEF ConvStep, MarkDeploying, Deploy, Apply, ConvergeFailed, Refetch,
           SaveConverged, Idle
<1>2. Reservations'
    BY <1>1 DEF Reservations, OwnPorts, ReservationsEnd
<1>3. Counters'
    <2>1. UNCHANGED bounds \/ Fault
        BY DEF ConvStep, MarkDeploying, Deploy, Apply, ConvergeFailed, Refetch,
               SaveConverged, SetStatus
    <2> QED
        BY <2>1, BoundsAssumption DEF Fault, bounds, Counters
<1>4. ASSUME Return(k)
      PROVE  Copies' /\ Guards'
    <2>1. conv' \in [Slots -> ConvCopies]
        BY <1>0, <1>4 DEF Return, ConvCopies
    <2>2. GuardHeld'
        BY <1>0, <1>1, <1>4 DEF Return, Guards, GuardHeld, OneConverge
    <2>3. OneConverge'
        BY <1>0, <1>4 DEF Return, Guards, OneConverge
    <2> QED
        BY <1>1, <1>4, <2>1, <2>2, <2>3 DEF Copies, Guards, Return
<1>5. ASSUME NEW g \in ConvCopies, g # Idle, g.d = conv[k].d,
             conv' = [conv EXCEPT ![k] = g], UNCHANGED inflight
      PROVE  Copies' /\ Guards'
    <2>1. conv' \in [Slots -> ConvCopies]
        BY <1>0, <1>5
    <2>2. GuardHeld'
        BY <1>0, <1>1, <1>5 DEF Guards, GuardHeld
    <2>3. OneConverge'
        BY <1>0, <1>1, <1>5 DEF Guards, OneConverge
    <2> QED
        BY <1>1, <1>5, <2>1, <2>2, <2>3 DEF Copies, Guards
<1>6. ASSUME NEW at \in {"deploy", "apply", "failed", "refetch"}, Next1(k, at),
             conv[k].at \in {"mark", "deploy", "apply"}, UNCHANGED inflight
      PROVE  Copies' /\ Guards'
    <2> DEFINE g == [conv[k] EXCEPT !.at = at]
    <2>1. g \in ConvCopies /\ g # Idle /\ g.d = conv[k].d
        BY <1>0, <1>6 DEF ConvCopies, Idle
    <2>2. conv' = [conv EXCEPT ![k] = g]
        BY <1>0, <1>6 DEF Next1
    <2> HIDE DEF g
    <2> QED
        BY <1>5, <1>6, <2>1, <2>2
<1>7. CASE MarkDeploying(k)
    BY <1>2, <1>3, <1>6, <1>7 DEF MarkDeploying
<1>8. CASE Deploy(k)
    BY <1>2, <1>3, <1>6, <1>8 DEF Deploy
<1>9. CASE Apply(k)
    <2>1. /\ conv[k].at = "apply" /\ UNCHANGED inflight
          /\ Next1(k, "refetch") \/ Next1(k, "failed")
        BY <1>9 DEF Apply
    <2> QED
        BY <1>2, <1>3, <1>6, <2>1
<1>10. CASE ConvergeFailed(k)
    BY <1>2, <1>3, <1>4, <1>10 DEF ConvergeFailed
<1>11. CASE Refetch(k)
    <2> DEFINE g == [at |-> "save", d |-> conv[k].d, on |-> conv[k].on,
                     rev |-> conv[k].rev, svc |-> svc[conv[k].d]]
    <2>1. CASE Has(conv[k].d, conv[k].id)
        <3>1. conv[k].d \in Domains /\ conv[k].on \in BOOLEAN /\ conv[k].rev \in Nat
            BY <1>0, <1>11 DEF Refetch
        <3>2. svc[conv[k].d] \in Rows
            BY <2>1, <3>1 DEF Has, Tables
        <3>3. g \in ConvCopies /\ g # Idle /\ g.d = conv[k].d
            BY <3>1, <3>2 DEF ConvCopies, Idle
        <3>4. conv' = [conv EXCEPT ![k] = g] /\ UNCHANGED inflight
            BY <1>11, <2>1 DEF Refetch
        <3> HIDE DEF g
        <3> QED
            BY <1>2, <1>3, <1>5, <3>3, <3>4
    <2>2. CASE ~Has(conv[k].d, conv[k].id)
        BY <1>2, <1>3, <1>4, <1>11, <2>2 DEF Refetch
    <2> QED
        BY <2>1, <2>2
<1>12. CASE SaveConverged(k)
    BY <1>2, <1>3, <1>4, <1>12 DEF SaveConverged
<1> QED
    BY <1>7, <1>8, <1>9, <1>10, <1>11, <1>12 DEF ConvStep

\* The requests, systemd and a restart touch the row a request holds and the
\* counters; a restart drops guard, reservations and whoever held them.
LEMMA OtherKeeps ==
    ASSUME IInv, NEW d \in Domains,
           \/ getCreate \/ updateSave \/ updateDomain(d)
           \/ getRuntimeService(d) \/ updateRuntimeService(d)
           \/ UnitCrashes(d) \/ UnitRecovers(d)
    PROVE  Copies' /\ Counters' /\ Guards' /\ Reservations'
<1> USE DEF IInv
<1>1. UNCHANGED <<reserved, inflight, visit, conv>>
    BY DEF getCreate, updateSave, updateDomain, getRuntimeService,
           updateRuntimeService, UnitCrashes, UnitRecovers
<1>2. Reservations' /\ Guards'
    BY <1>1 DEF Reservations, OwnPorts, ReservationsEnd, Guards, GuardHeld,
                OneConverge
<1>3. Counters'
    <2>1. UNCHANGED bounds \/ Fault \/ Ask
        BY DEF getCreate, updateSave, updateDomain, getRuntimeService,
               updateRuntimeService, UnitCrashes, UnitRecovers, Begin
    <2> QED
        BY <2>1, BoundsAssumption DEF Ask, Fault, bounds, Counters
<1>4. req' \in ReqCopies
    <2>0. req \in ReqCopies /\ Idle \in ReqCopies
        BY DEF Copies, ReqCopies
    <2>1. CASE getCreate \/ updateSave
        BY <2>0, <2>1 DEF getCreate, updateSave
    <2>2. CASE getRuntimeService(d)
        BY <2>2 DEF getRuntimeService, Begin, ReqCopies
    <2>3. CASE updateRuntimeService(d)
        <3>1. req' = [at |-> "save", d |-> d, svc |-> svc[d]]
            BY <2>3 DEF updateRuntimeService, Begin
        <3>2. svc[d] \in Rows
            BY <2>3 DEF updateRuntimeService, Tables
        <3> QED
            BY <3>1, <3>2 DEF ReqCopies
    <2>4. CASE updateDomain(d) \/ UnitCrashes(d) \/ UnitRecovers(d)
        BY <2>0, <2>4 DEF updateDomain, UnitCrashes, UnitRecovers
    <2> QED
        BY <2>1, <2>2, <2>3, <2>4
<1> QED
    BY <1>1, <1>2, <1>3, <1>4 DEF Copies

LEMMA VisitIInv ==
    ASSUME IInv, NEW v \in Visitors, NEW d \in Domains, Visit(v, d)
    PROVE  IInv'
<1> USE DEF IInv
<1> DEFINE r == [at |-> "find", d |-> d, dom |-> dom[d]]
<1>1. r \in VisitCopies /\ r.at # "create"
    BY DEF Tables, VisitCopies
<1>2. visit[v].at # "create" /\ visit' = [visit EXCEPT ![v] = r]
    BY DEF Visit, Goto, Idle
<1>3. UNCHANGED <<dom, svc, ids, unit, reserved, inflight, conv, req>>
    BY DEF Visit
<1> HIDE DEF r
<1>4. Tables' /\ Copies' /\ Guards'
    BY <1>1, <1>2, <1>3 DEF Tables, Copies, Guards, GuardHeld, OneConverge
<1>5. Counters'
    <2>1. UNCHANGED bounds \/ Ask
        BY DEF Visit
    <2> QED
        BY <2>1, BoundsAssumption DEF Ask, bounds, Counters
<1>6. Reservations'
    BY <1>1, <1>2, <1>3 DEF Copies, Reservations, OwnPorts, ReservationsEnd
<1> QED
    BY <1>4, <1>5, <1>6

LEMMA RestartIInv == IInv /\ Restart => IInv'
<1> SUFFICES ASSUME IInv, Restart PROVE IInv'
    OBVIOUS
<1> USE DEF IInv, Restart
<1>1. Tables' /\ Counters'
    BY BoundsAssumption DEF Tables, Counters, Fault
<1>2. Copies'
    BY DEF Copies, VisitCopies, ConvCopies, ReqCopies
<1>3. Guards'
    BY DEF Guards, GuardHeld, OneConverge
<1>4. Reservations'
    BY DEF Reservations, OwnPorts, ReservationsEnd, Idle
<1> QED
    BY <1>1, <1>2, <1>3, <1>4

LEMMA AgentIInv ==
    ASSUME IInv, Aftermath, NEW g \in left, AgentGoesOn(g)
    PROVE  IInv'
<1> USE DEF IInv
<1>1. g \in LeftCopies
    BY DEF Aftermath
<1>2. g.d \in Domains /\ Applied(g) \in Units
    BY <1>1 DEF LeftCopies, Applied, Units
<1>3. UNCHANGED <<dom, svc, ids, reserved, inflight, visit, conv, req, asked, faults>>
    BY DEF AgentGoesOn, bounds
<1>4. Tables'
    BY <1>2, <1>3 DEF AgentGoesOn, Tables
<1> QED
    BY <1>3, <1>4 DEF Copies, Counters, Guards, Reservations, GuardHeld, OwnPorts,
                      OneConverge, ReservationsEnd

LEMMA StutterIInv == IInv /\ UNCHANGED vars => IInv'
BY DEF IInv, Tables, Copies, Counters, Guards, Reservations, GuardHeld, OwnPorts,
       OneConverge, ReservationsEnd, vars

\* Only a restart leaves the agent with a call, one that a goroutine was waiting
\* for; what is noted as overwritten is a domain.
LEMMA AftermathKept ==
    ASSUME IInv, Aftermath, [Next]_vars
    PROVE  Aftermath'
<1> USE DEF Aftermath
<1>1. ASSUME NEW d \in Domains, NEW rev, Notes(d, rev) PROVE overwritten' \subseteq Domains
    BY <1>1 DEF Notes
<1>2. ASSUME NEW d \in Domains, NEW id, NEW rev, NEW st, SetStatus(d, id, rev, st)
      PROVE  overwritten' \subseteq Domains
    BY <1>1, <1>2 DEF SetStatus
<1>3. ASSUME NEW d, NEW port, Create(d, port) \/ CreateRefused(d, port)
      PROVE  overwritten' \subseteq Domains
    BY <1>3 DEF Create, CreateRefused
<1>4. ASSUME NEW v \in Visitors, VisitStep(v) PROVE Aftermath'
    <2>0. visit[v] \in VisitCopies
        BY DEF IInv, Copies
    <2>1. UNCHANGED left
        BY <1>4 DEF VisitStep, FindRow, RemoveUnit, DeleteRow, Allocate, CreateRow, Decide,
                    Dispatch, Heal, Monitor, MarkCrashed
    <2>2. CASE Heal(v) \/ MarkCrashed(v)
        <3>1. visit[v].d \in Domains
            BY <2>0, <2>2, VisitShape DEF Heal, MarkCrashed, Deciding
        <3> QED
            BY <1>2, <2>1, <2>2, <3>1 DEF Heal, MarkCrashed
    <2>3. CASE CreateRow(v)
        BY <1>3, <2>1, <2>3 DEF CreateRow
    <2>4. CASE UNCHANGED overwritten
        BY <2>1, <2>4
    <2> QED
        BY <1>4, <2>2, <2>3, <2>4 DEF VisitStep, FindRow, RemoveUnit, DeleteRow, Allocate,
                                      Decide, Dispatch, Monitor
<1>5. ASSUME NEW k \in Slots, ConvStep(k) PROVE Aftermath'
    <2>1. UNCHANGED left /\ conv[k].d \in Domains
        <3>1. conv[k] \in ConvCopies /\ conv[k].at # "idle"
            BY <1>5 DEF IInv, Copies, ConvStep, MarkDeploying, Deploy, Apply, ConvergeFailed,
                        Refetch, SaveConverged
        <3>2. conv[k].d \in Domains
            BY <3>1, ConvShape
        <3> QED
            BY <1>5, <3>2 DEF ConvStep, MarkDeploying, Deploy, Apply, ConvergeFailed,
                              Refetch, SaveConverged
    <2>2. CASE MarkDeploying(k) \/ ConvergeFailed(k)
        BY <1>2, <2>1, <2>2 DEF MarkDeploying, ConvergeFailed
    <2>3. CASE SaveConverged(k)
        BY <1>1, <2>1, <2>3 DEF SaveConverged
    <2>4. CASE UNCHANGED overwritten
        BY <2>1, <2>4
    <2> QED
        BY <1>5, <2>2, <2>3, <2>4 DEF ConvStep, Deploy, Apply, Refetch
<1>6. CASE getCreate \/ updateSave
    BY <1>3, <1>6 DEF getCreate, updateSave
<1>7. ASSUME NEW d \in Domains,
             \/ updateDomain(d) \/ getRuntimeService(d) \/ updateRuntimeService(d)
             \/ UnitCrashes(d) \/ UnitRecovers(d) \/ \E v \in Visitors : Visit(v, d)
      PROVE  UNCHANGED <<left, overwritten>>
    BY <1>7 DEF updateDomain, getRuntimeService, updateRuntimeService, UnitCrashes,
                UnitRecovers, Visit
<1>8. CASE Restart
    <2>1. ASSUME NEW k \in Slots, conv[k].at \in {"deploy", "apply"}
          PROVE  conv[k] \in LeftCopies
        <3>1. conv[k] \in ConvCopies
            BY DEF IInv, Copies
        <3> QED
            BY <2>1, <3>1, ConvShape DEF LeftCopies
    <2> QED
        BY <1>8, <2>1 DEF Restart
<1>9. CASE UNCHANGED vars \/ \E g \in left : AgentGoesOn(g)
    BY <1>9 DEF vars, AgentGoesOn
<1> QED
    BY <1>4, <1>5, <1>6, <1>7, <1>8, <1>9 DEF Next

-----------------------------------------------------------------------------
\* The inductive invariant holds of every behaviour: the tables are well
\* formed, guard and goroutine name each other, and so do reservation and visit.
THEOREM Invariance == Spec => [](IInv /\ Aftermath)
<1>1. IInv /\ Aftermath /\ [Next]_vars => (IInv /\ Aftermath)'
    <2> SUFFICES ASSUME IInv, Aftermath, [Next]_vars PROVE IInv' /\ Aftermath'
        OBVIOUS
    <2>0. Aftermath'
        BY AftermathKept
    <2>1. ASSUME NEW v \in Visitors, VisitStep(v) PROVE IInv'
        BY <2>1, VisitTables, VisitKeeps DEF IInv
    <2>2. ASSUME NEW v \in Visitors, NEW d \in Domains, Visit(v, d) PROVE IInv'
        BY <2>2, VisitIInv
    <2>3. ASSUME NEW k \in Slots, ConvStep(k) PROVE IInv'
        BY <2>3, ConvTables, ConvKeeps DEF IInv
    <2>4. ASSUME NEW d \in Domains,
                 \/ updateDomain(d) \/ getRuntimeService(d)
                 \/ updateRuntimeService(d) \/ UnitCrashes(d) \/ UnitRecovers(d)
          PROVE  IInv'
        BY <2>4, OtherTables, OtherKeeps DEF IInv
    <2>5. ASSUME getCreate \/ updateSave PROVE IInv'
        <3>1. req.d \in Domains
            BY <2>5, ReqShape DEF getCreate, updateSave, IInv, Copies
        <3> QED
            BY <2>5, <3>1, OtherTables, OtherKeeps DEF IInv
    <2>6. ASSUME Restart PROVE IInv'
        BY <2>6, RestartIInv
    <2>7. ASSUME UNCHANGED vars PROVE IInv'
        BY <2>7, StutterIInv
    <2>8. ASSUME NEW g \in left, AgentGoesOn(g) PROVE IInv'
        BY <2>8, AgentIInv
    <2> QED
        BY <2>0, <2>1, <2>2, <2>3, <2>4, <2>5, <2>6, <2>7, <2>8 DEF Next
<1>2. Init => IInv /\ Aftermath
    BY InitIInv DEF Init, Aftermath
<1> QED
    BY <1>1, <1>2, PTL DEF Spec

\* The tables and the processes' copies keep their types for every set of
\* domains and ports, whatever reconcileRuntimeService, the converge
\* goroutines, the requests and systemd do, and in whatever order.
THEOREM TypeCorrect == Spec => []TypeOK
<1>1. IInv /\ Aftermath => TypeOK
    BY IInvTypes
<1> QED
    BY Invariance, <1>1, PTL

\* dispatchRuntimeConverge's LoadOrStore keeps a domain to one converge
\* goroutine of the panel, for any number of them and across its restarts.
THEOREM OneConvergeAlways == Spec => []OneConverge
<1>1. IInv => OneConverge
    BY DEF IInv, Guards
<1> QED
    BY Invariance, <1>1, PTL

\* PortAllocator.reserved holds the ports of the visits between Allocate and
\* the end of their insert and no others: it cannot fill up.
THEOREM ReservationsAlwaysEnd == Spec => []ReservationsEnd
<1>1. IInv => ReservationsEnd
    BY DEF IInv, Reservations
<1> QED
    BY Invariance, <1>1, PTL

=============================================================================
