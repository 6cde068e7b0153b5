--------------------------- MODULE RuntimeServices ---------------------------
(***************************************************************************)
(* Managed runtimes: a domain whose runtime is nodejs, python, go or docker *)
(* has a row in runtime_services and a systemd unit nginx proxies to.      *)
(*                                                                         *)
(* reconcileRuntimeService is called for a domain by the reconciler's loop *)
(* and by POST /reconcile, with a copy of the domain's row.  What is slow, *)
(* deploying and applying the unit, it leaves to a goroutine that outlives *)
(* the call; a guard per domain (runtimeInflight) keeps a second one from  *)
(* starting.  Requests change the row meanwhile.                           *)
(*                                                                         *)
(* A revision stands for all of a row's settings: every insert of a row    *)
(* and every request that saves one makes a new revision.  A visit and the *)
(* requests read and write in separate steps; Update is GORM's Save, which *)
(* inserts the row again when it is gone.                                  *)
(***************************************************************************)
EXTENDS Naturals

CONSTANTS
    Domains,    \* hosted domains
    Ports,      \* minPort .. maxPort of the allocators
    NoRow,      \* the value of a row, or a unit, that does not exist
    Slots,      \* bound: converge goroutines at once
    MaxAsked,   \* bound: requests
    MaxFaults   \* bound: failed calls, crashes of units, restarts

ASSUME BoundsAssumption ==
    MaxAsked \in Nat /\ MaxFaults \in Nat

Visitors == {"loop", "request"}
Statuses == {"pending", "deploying", "running", "stopped", "failed"}
Rows == [id : Nat, status : Statuses, rev : Nat, port : Ports]
Units == [rev : Nat, port : Ports, state : {"active", "failed", "stopped"}]

VARIABLES
    dom,        \* domains: is the runtime a managed one, is_enabled
    svc,        \* table runtime_services, by domain
    ids,        \* ids and revisions handed out so far
    unit,       \* the systemd unit, by domain
    reserved,   \* PortAllocator.reserved of the reconciler
    inflight,   \* Reconciler.runtimeInflight
    visit,      \* calls of reconcileRuntimeService
    conv,       \* goroutines of dispatchRuntimeConverge
    left,       \* calls the agent goes on with after a restart of the panel
    req,        \* the request being served
    overwritten,\* history: domains whose pending row was written over by a
                \* visit or a goroutine that worked with an older revision
    asked, faults

vars == <<dom, svc, ids, unit, reserved, inflight, visit, conv, left, req,
          overwritten, asked, faults>>
bounds == <<asked, faults>>

Idle == [at |-> "idle"]

Init ==
    /\ dom \in [Domains -> [managed : BOOLEAN, on : {TRUE}]]
    /\ svc = [d \in Domains |-> NoRow] /\ ids = 0
    /\ unit = [d \in Domains |-> NoRow]
    /\ reserved = {} /\ inflight = {}
    /\ visit = [v \in Visitors |-> Idle]
    /\ conv = [k \in Slots |-> Idle]
    /\ left = {}
    /\ req = Idle
    /\ overwritten = {}
    /\ asked = 0 /\ faults = 0

Ask == asked < MaxAsked /\ asked' = asked + 1 /\ UNCHANGED faults
Fault == faults < MaxFaults /\ faults' = faults + 1 /\ UNCHANGED asked

-----------------------------------------------------------------------------
(* runtime_service_repository.go and port_allocator.go.  domain_id and     *)
(* listen_port are unique.                                                 *)

Has(d, id) == svc[d] # NoRow /\ svc[d].id = id
PortInUse(p) == \E d \in Domains : svc[d] # NoRow /\ svc[d].port = p

Create(d, port) ==
    /\ svc[d] = NoRow /\ ~PortInUse(port)
    /\ ids' = ids + 1
    /\ svc' = [svc EXCEPT ![d] = [id |-> ids + 1, status |-> "pending",
                                  rev |-> ids + 1, port |-> port]]
    /\ overwritten' = overwritten \ {d}

CreateRefused(d, port) ==
    (svc[d] # NoRow \/ PortInUse(port)) /\ UNCHANGED <<svc, ids, overwritten>>

\* a write by somebody who worked with revision rev
Notes(d, rev) ==
    overwritten' = IF svc[d] # NoRow /\ svc[d].status = "pending" /\ svc[d].rev # rev
                   THEN overwritten \union {d} ELSE overwritten

\* WHERE id = ?; an error is ignored
SetStatus(d, id, rev, status) ==
    \/ Has(d, id) /\ svc' = [svc EXCEPT ![d].status = status]
       /\ Notes(d, rev) /\ UNCHANGED bounds
    \/ ~Has(d, id) /\ UNCHANGED <<svc, overwritten, bounds>>
    \/ Fault /\ UNCHANGED <<svc, overwritten>>

\* Save updates the row, or inserts it ON DUPLICATE KEY UPDATE: a newer row of
\* the domain is written over, and so is another domain's that has the port
Update(d, s) ==
    LET taken == {e \in Domains : svc[e] # NoRow /\ svc[e].port = s.port}
    IN svc' = IF svc[d] # NoRow
              THEN [svc EXCEPT ![d] = [s EXCEPT !.id = svc[d].id]]
              ELSE [e \in Domains |-> IF e = d THEN s
                                      ELSE IF e \in taken THEN NoRow
                                      ELSE svc[e]]

Delete(d, id) == svc' = IF Has(d, id) THEN [svc EXCEPT ![d] = NoRow] ELSE svc

\* Allocate: a port that no row has and that is not reserved
Free == {p \in Ports : p \notin reserved /\ ~PortInUse(p)}

-----------------------------------------------------------------------------
(* The agent: runtime.remove, runtime.apply, runtime.status                *)

Remove(d) == unit' = [unit EXCEPT ![d] = NoRow]

Busy(d, port) == \E e \in Domains \ {d} :
    unit[e] # NoRow /\ unit[e].state = "active" /\ unit[e].port = port

\* an enabled unit is (re)started, and fails where another unit has its port;
\* one that is not enabled is stopped
Applied(g) ==
    [rev |-> g.rev, port |-> g.port,
     state |-> IF ~g.on THEN "stopped"
               ELSE IF Busy(g.d, g.port) THEN "failed" ELSE "active"]

\* a first installation is refused when the port is bound on the host
Refused(g) == g.on /\ unit[g.d] = NoRow /\ Busy(g.d, g.port)

-----------------------------------------------------------------------------
(* reconcileRuntimeService                                                 *)

Goto(v, r) == visit' = [visit EXCEPT ![v] = r]

\* the copy of the domain's row; the pass began with it
Visit(v, d) ==
    /\ visit[v] = Idle
    /\ IF v = "loop" THEN UNCHANGED bounds ELSE Ask
    /\ Goto(v, [at |-> "find", d |-> d, dom |-> dom[d]])
    /\ UNCHANGED <<dom, svc, ids, unit, reserved, inflight, conv, left, req,
                   overwritten>>

\* FindByDomainID, and which way to go
FindRow(v) ==
    /\ visit[v].at = "find"
    /\ LET d == visit[v].d IN
       Goto(v, IF visit[v].dom.managed
               THEN IF svc[d] = NoRow THEN [visit[v] EXCEPT !.at = "allocate"]
                    ELSE [at |-> "decide", d |-> d, on |-> visit[v].dom.on,
                          svc |-> svc[d]]
               ELSE IF svc[d] = NoRow THEN Idle
                    ELSE [at |-> "remove", d |-> d, id |-> svc[d].id])
    /\ UNCHANGED <<dom, svc, ids, unit, reserved, inflight, conv, left, req,
                   overwritten, bounds>>

\* back to PHP or static: runtime.remove, whose error is ignored
RemoveUnit(v) ==
    /\ visit[v].at = "remove"
    /\ \/ Remove(visit[v].d) /\ UNCHANGED bounds
       \/ Fault /\ UNCHANGED unit
    /\ Goto(v, [visit[v] EXCEPT !.at = "delete"])
    /\ UNCHANGED <<dom, svc, ids, reserved, inflight, conv, left, req,
                   overwritten>>

DeleteRow(v) ==
    /\ visit[v].at = "delete"
    /\ Delete(visit[v].d, visit[v].id)
    /\ Goto(v, Idle)
    /\ UNCHANGED <<dom, ids, unit, reserved, inflight, conv, left, req,
                   overwritten, bounds>>

Allocate(v) ==
    /\ visit[v].at = "allocate"
    /\ \/ \E p \in Free :
            /\ reserved' = reserved \union {p}
            /\ Goto(v, [at |-> "create", d |-> visit[v].d,
                        on |-> visit[v].dom.on, port |-> p])
       \/ Free = {} /\ Goto(v, Idle) /\ UNCHANGED reserved
    /\ UNCHANGED <<dom, svc, ids, unit, inflight, conv, left, req,
                   overwritten, bounds>>

CreateRow_Leaks(v) ==
    /\ visit[v].at = "create"
    /\ \/ /\ Create(visit[v].d, visit[v].port)
          /\ Goto(v, [at |-> "decide", d |-> visit[v].d, on |-> visit[v].on,
                      svc |-> svc'[visit[v].d]])
          /\ reserved' = reserved \ {visit[v].port}
       \/ /\ CreateRefused(visit[v].d, visit[v].port)
          /\ Goto(v, Idle) /\ UNCHANGED reserved
    /\ UNCHANGED <<dom, unit, inflight, conv, left, req, bounds>>

\* the reservation is released whether the insert succeeds or is refused
CreateRow(v) ==
    /\ visit[v].at = "create"
    /\ \/ /\ Create(visit[v].d, visit[v].port)
          /\ Goto(v, [at |-> "decide", d |-> visit[v].d, on |-> visit[v].on,
                      svc |-> svc'[visit[v].d]])
       \/ /\ CreateRefused(visit[v].d, visit[v].port)
          /\ Goto(v, Idle)
    /\ reserved' = reserved \ {visit[v].port}
    /\ UNCHANGED <<dom, unit, inflight, conv, left, req, bounds>>

Active(d) == unit[d] # NoRow /\ unit[d].state = "active"
UnitFailed(d) == unit[d] # NoRow /\ unit[d].state = "failed"

\* shouldConverge, for the copy of the row and is_enabled
ShouldConverge(s, on) ==
    \/ s.status = "pending"
    \/ s.status = "running" /\ ~on
    \/ s.status = "stopped" /\ on

\* a failed row is probed first, as the unit may have come up again; a probe
\* that fails counts as not active
Decide(v) ==
    /\ visit[v].at = "decide"
    /\ LET s == visit[v].svc
           on == visit[v].on
           Goes(at) == Goto(v, [visit[v] EXCEPT !.at = at])
           probed == s.status = "failed" /\ on
       IN \/ ShouldConverge(s, on) /\ Goes("dispatch") /\ UNCHANGED bounds
          \/ probed /\ ~Active(visit[v].d) /\ Goes("dispatch") /\ UNCHANGED bounds
          \/ probed /\ Active(visit[v].d) /\ Goes("heal") /\ UNCHANGED bounds
          \/ probed /\ Active(visit[v].d) /\ Fault /\ Goes("dispatch")
          \/ s.status = "running" /\ on /\ Goes("monitor") /\ UNCHANGED bounds
          \/ /\ ~ShouldConverge(s, on) /\ ~probed /\ s.status # "running"
             /\ Goto(v, Idle) /\ UNCHANGED bounds
    /\ UNCHANGED <<dom, svc, ids, unit, reserved, inflight, conv, left, req,
                   overwritten>>

\* which slot a goroutine takes does not matter
TakeSlot(g) ==
    LET idle == {k \in Slots : conv[k] = Idle}
    IN idle # {} /\ conv' = [conv EXCEPT ![CHOOSE k \in idle : TRUE] = g]

\* the goroutine's copies
Snapshot(v) ==
    [at |-> "mark", d |-> visit[v].d, id |-> visit[v].svc.id,
     rev |-> visit[v].svc.rev, port |-> visit[v].svc.port, on |-> visit[v].on]

Dispatch_Unguarded(v) ==
    /\ visit[v].at = "dispatch"
    /\ inflight' = inflight \union {visit[v].d}
    /\ TakeSlot(Snapshot(v))
    /\ Goto(v, Idle)
    /\ UNCHANGED <<dom, svc, ids, unit, reserved, left, req, overwritten, bounds>>

\* dispatchRuntimeConverge: LoadOrStore, and the goroutine starts
Dispatch(v) ==
    /\ visit[v].at = "dispatch"
    /\ \/ visit[v].d \in inflight /\ UNCHANGED <<inflight, conv>>
       \/ /\ visit[v].d \notin inflight
          /\ inflight' = inflight \union {visit[v].d}
          /\ TakeSlot(Snapshot(v))
    /\ Goto(v, Idle)
    /\ UNCHANGED <<dom, svc, ids, unit, reserved, left, req, overwritten, bounds>>

Heal_Raw(v) ==
    /\ visit[v].at = "heal"
    /\ SetStatus(visit[v].d, visit[v].svc.id, visit[v].svc.rev, "active")
    /\ Goto(v, [visit[v] EXCEPT !.at = "monitor"])
    /\ UNCHANGED <<dom, ids, unit, reserved, inflight, conv, left, req>>

\* a failed row whose unit was found active runs again
Heal(v) ==
    /\ visit[v].at = "heal"
    /\ SetStatus(visit[v].d, visit[v].svc.id, visit[v].svc.rev, "running")
    /\ Goto(v, [visit[v] EXCEPT !.at = "monitor"])
    /\ UNCHANGED <<dom, ids, unit, reserved, inflight, conv, left, req>>

Monitor_NoCrash(v) ==
    /\ visit[v].at = "monitor" /\ Goto(v, Idle)
    /\ UNCHANGED <<dom, svc, ids, unit, reserved, inflight, conv, left, req,
                   overwritten, bounds>>

\* runtime.status of a running one
Monitor(v) ==
    /\ visit[v].at = "monitor"
    /\ \/ UnitFailed(visit[v].d) /\ Goto(v, [visit[v] EXCEPT !.at = "crashed"])
          /\ UNCHANGED bounds
       \/ ~UnitFailed(visit[v].d) /\ Goto(v, Idle) /\ UNCHANGED bounds
       \/ UnitFailed(visit[v].d) /\ Fault /\ Goto(v, Idle)
    /\ UNCHANGED <<dom, svc, ids, unit, reserved, inflight, conv, left, req,
                   overwritten>>

\* runtime.logs has been asked meanwhile
MarkCrashed(v) ==
    /\ visit[v].at = "crashed"
    /\ SetStatus(visit[v].d, visit[v].svc.id, visit[v].svc.rev, "failed")
    /\ Goto(v, Idle)
    /\ UNCHANGED <<dom, ids, unit, reserved, inflight, conv, left, req>>

-----------------------------------------------------------------------------
(* The goroutine of dispatchRuntimeConverge                                *)

Next1(k, at) == conv' = [conv EXCEPT ![k].at = at]

Return_KeepsGuard(k) ==
    conv' = [conv EXCEPT ![k] = Idle] /\ UNCHANGED inflight

\* deferred: the guard goes when the goroutine returns
Return(k) ==
    /\ conv' = [conv EXCEPT ![k] = Idle]
    /\ inflight' = inflight \ {conv[k].d}

MarkDeploying(k) ==
    /\ conv[k].at = "mark"
    /\ SetStatus(conv[k].d, conv[k].id, conv[k].rev, "deploying")
    /\ Next1(k, "deploy")
    /\ UNCHANGED <<dom, ids, unit, reserved, inflight, visit, left, req>>

\* npm install, pip install, go build, docker build
Deploy(k) ==
    /\ conv[k].at = "deploy"
    /\ \/ Next1(k, "apply") /\ UNCHANGED bounds
       \/ Fault /\ Next1(k, "failed")
    /\ UNCHANGED <<dom, svc, ids, unit, reserved, inflight, visit, left, req,
                   overwritten>>

\* runtime.apply, with the copies.  A call that fails may have written and
\* started the unit.
Apply(k) ==
    /\ conv[k].at = "apply"
    /\ LET g == conv[k]
           new == [unit EXCEPT ![g.d] = Applied(g)]
       IN \/ ~Refused(g) /\ unit' = new
             /\ Next1(k, "refetch") /\ UNCHANGED bounds
          \/ Refused(g) /\ Next1(k, "failed") /\ UNCHANGED <<unit, bounds>>
          \/ ~Refused(g) /\ Fault /\ unit' \in {unit, new} /\ Next1(k, "failed")
    /\ UNCHANGED <<dom, svc, ids, reserved, inflight, visit, left, req, overwritten>>

ConvergeFailed(k) ==
    /\ conv[k].at = "failed"
    /\ SetStatus(conv[k].d, conv[k].id, conv[k].rev, "failed")
    /\ Return(k)
    /\ UNCHANGED <<dom, ids, unit, reserved, visit, left, req>>

\* the row is read again; a row that is gone gets a SetStatus that finds none
Refetch(k) ==
    /\ conv[k].at = "refetch"
    /\ LET d == conv[k].d IN
       IF Has(d, conv[k].id)
       THEN /\ conv' = [conv EXCEPT ![k] =
                          [at |-> "save", d |-> d, on |-> conv[k].on,
                           rev |-> conv[k].rev, svc |-> svc[d]]]
            /\ UNCHANGED inflight
       ELSE Return(k)
    /\ UNCHANGED <<dom, svc, ids, unit, reserved, visit, left, req, overwritten,
                   bounds>>

\* the row as it was read again, with the new status; an error is ignored
SaveConverged(k) ==
    /\ conv[k].at = "save"
    /\ \/ /\ Update(conv[k].d, [conv[k].svc EXCEPT !.status =
                                    IF conv[k].on THEN "running" ELSE "stopped"])
          /\ Notes(conv[k].d, conv[k].rev) /\ UNCHANGED bounds
       \/ Fault /\ UNCHANGED <<svc, overwritten>>
    /\ Return(k)
    /\ UNCHANGED <<dom, ids, unit, reserved, visit, left, req>>

-----------------------------------------------------------------------------
(* Requests                                                                *)

Begin(r) == req = Idle /\ Ask /\ req' = r

\* PATCH /domains/:id: runtime_type, is_enabled
updateDomain(d) ==
    /\ Ask
    /\ dom' \in {[dom EXCEPT ![d] = x] :
                 x \in [managed : BOOLEAN, on : BOOLEAN] \ {dom[d]}}
    /\ UNCHANGED <<svc, ids, unit, reserved, inflight, visit, conv, left, req,
                   overwritten>>

\* GET .../runtime-service makes the row that is missing, with an allocator of
\* its own that knows no reservation
getRuntimeService(d) ==
    /\ dom[d].managed /\ svc[d] = NoRow
    /\ \E p \in {q \in Ports : ~PortInUse(q)} :
         Begin([at |-> "create", d |-> d, port |-> p])
    /\ UNCHANGED <<dom, svc, ids, unit, reserved, inflight, visit, conv, left,
                   overwritten>>

getCreate ==
    /\ req.at = "create"
    /\ Create(req.d, req.port) \/ CreateRefused(req.d, req.port)
    /\ req' = Idle
    /\ UNCHANGED <<dom, unit, reserved, inflight, visit, conv, left, bounds>>

\* PATCH .../runtime-service and POST .../restart read the row and save it as
\* pending
updateRuntimeService(d) ==
    /\ svc[d] # NoRow
    /\ Begin([at |-> "save", d |-> d, svc |-> svc[d]])
    /\ UNCHANGED <<dom, svc, ids, unit, reserved, inflight, visit, conv, left,
                   overwritten>>

updateSave ==
    /\ req.at = "save"
    /\ ids' = ids + 1
    /\ Update(req.d, [req.svc EXCEPT !.status = "pending", !.rev = ids + 1])
    /\ overwritten' = overwritten \ {req.d}
    /\ req' = Idle
    /\ UNCHANGED <<dom, unit, reserved, inflight, visit, conv, left, bounds>>

-----------------------------------------------------------------------------
\* systemd gives up on a unit (Restart=always within its limits), or brings a
\* failed one up again
UnitCrashes(d) ==
    /\ Fault /\ Active(d)
    /\ unit' = [unit EXCEPT ![d].state = "failed"]
    /\ UNCHANGED <<dom, svc, ids, reserved, inflight, visit, conv, left, req,
                   overwritten>>

UnitRecovers(d) ==
    /\ unit[d] # NoRow /\ unit[d].state = "failed" /\ ~Busy(d, unit[d].port)
    /\ unit' = [unit EXCEPT ![d].state = "active"]
    /\ UNCHANGED <<dom, svc, ids, reserved, inflight, visit, conv, left, req,
                   overwritten, bounds>>

\* the panel is restarted: the guard, the reservations and every goroutine go.
\* The agent does not cancel a command whose caller is gone.
Restart ==
    /\ Fault
    /\ left' = left \union {conv[k] : k \in {j \in Slots : conv[j].at \in {"deploy", "apply"}}}
    /\ reserved' = {} /\ inflight' = {}
    /\ visit' = [v \in Visitors |-> Idle] /\ conv' = [k \in Slots |-> Idle]
    /\ req' = Idle
    /\ UNCHANGED <<dom, svc, ids, unit, overwritten>>

\* such a command ends: a deploy leaves no trace here, runtime.apply may or may
\* not have reached the agent
AgentGoesOn(g) ==
    /\ g \in left /\ left' = left \ {g}
    /\ \/ UNCHANGED unit
       \/ g.at = "apply" /\ ~Refused(g) /\ unit' = [unit EXCEPT ![g.d] = Applied(g)]
    /\ UNCHANGED <<dom, svc, ids, reserved, inflight, visit, conv, req, overwritten,
                   bounds>>

-----------------------------------------------------------------------------
VisitStep(v) ==
    \/ FindRow(v) \/ RemoveUnit(v) \/ DeleteRow(v) \/ Allocate(v)
    \/ CreateRow(v) \/ Decide(v) \/ Dispatch(v) \/ Heal(v) \/ Monitor(v)
    \/ MarkCrashed(v)

ConvStep(k) ==
    \/ MarkDeploying(k) \/ Deploy(k) \/ Apply(k) \/ ConvergeFailed(k)
    \/ Refetch(k) \/ SaveConverged(k)

Next ==
    \/ \E v \in Visitors : VisitStep(v) \/ \E d \in Domains : Visit(v, d)
    \/ \E k \in Slots : ConvStep(k)
    \/ getCreate \/ updateSave
    \/ \E d \in Domains :
         \/ updateDomain(d) \/ getRuntimeService(d) \/ updateRuntimeService(d)
         \/ UnitCrashes(d) \/ UnitRecovers(d)
    \/ Restart \/ \E g \in left : AgentGoesOn(g)

Spec == Init /\ [][Next]_vars

\* ReconcileAll visits every enabled domain again and again (a disabled one only
\* while it has a vhost, which is not modelled here, so nothing is assumed of
\* it); calls, goroutines and requests go on.  Nothing is assumed of systemd, of
\* the agent after a restart or of the users.
FairSpec ==
    /\ Spec
    /\ \A d \in Domains : SF_vars(dom[d].on /\ Visit("loop", d))
    /\ \A v \in Visitors : WF_vars(VisitStep(v))
    /\ \A k \in Slots : WF_vars(ConvStep(k))
    /\ WF_vars(getCreate) /\ WF_vars(updateSave)

-----------------------------------------------------------------------------
\* Every variable has its type: rows, units, allocator, visits and goroutines.
TypeOK ==
    /\ dom \in [Domains -> [managed : BOOLEAN, on : BOOLEAN]]
    /\ svc \in [Domains -> {NoRow} \union Rows] /\ ids \in Nat
    /\ unit \in [Domains -> {NoRow} \union Units]
    /\ reserved \subseteq Ports /\ inflight \subseteq Domains
    /\ \A v \in Visitors : visit[v].at \in
         {"idle", "find", "remove", "delete", "allocate", "create", "decide",
          "dispatch", "heal", "monitor", "crashed"}
    /\ \A k \in Slots : conv[k].at \in
         {"idle", "mark", "deploy", "apply", "failed", "refetch", "save"}
    /\ \A g \in left : g.at \in {"deploy", "apply"}
    /\ req.at \in {"idle", "create", "save"}
    /\ overwritten \subseteq Domains
    /\ asked \in 0..MaxAsked /\ faults \in 0..MaxFaults

Status(d) == IF svc[d] = NoRow THEN "none" ELSE svc[d].status
Crashed(d) == Status(d) = "running" /\ UnitFailed(d)
Serves(d) == dom[d] = [managed |-> TRUE, on |-> TRUE]

\* The guard does what it is for: a domain has one converge goroutine at most,
\* whoever visits it and however long the last one deploys.  (It is about the
\* panel's goroutines: the agent may still be at work for one that a restart of
\* the panel ended.)
OneConverge == \A j, k \in Slots :
    j # k /\ conv[j] # Idle /\ conv[k] # Idle => conv[j].d # conv[k].d

\* The allocator's map does not fill up: a port is reserved only while a visit
\* is between Allocate and the end of its insert.
ReservationsEnd ==
    reserved = {visit[v].port : v \in {w \in Visitors : visit[w].at = "create"}}

\* A converge was tried with the row's own settings: the unit was applied from
\* them, or the deploy or the apply failed.
Converged(d) ==
    (svc[d] # NoRow /\ unit[d] # NoRow /\ unit[d].rev = svc[d].rev) \/ Status(d) = "failed"

\* Nobody works on the domain and its row says deploying: a restart, or the
\* write of the outcome that failed, has left it so, and no visit takes it up.
LeftDeploying(d) == Status(d) = "deploying" /\ d \notin inflight

\* A row that asks for a deploy gets one: while its domain is enabled and has a
\* managed runtime, a pending row is converged with the settings that were
\* saved with it, whatever visits, requests and goroutines run meanwhile.  Three
\* things the code does are excepted.  A PATCH or POST restart during a visit or
\* a converge is written over with the outcome of the older settings, running
\* say, and never deployed.  A restart, or the failed write of the outcome,
\* leaves the row deploying for good.  And a visit that read the domain before
\* its runtime was switched back removes the row.
PendingIsDeployed == \A d \in Domains :
    Serves(d) /\ Status(d) = "pending"
      ~> \/ ~Serves(d) \/ Converged(d)
         \/ d \in overwritten \/ LeftDeploying(d) \/ Status(d) = "none"

\* A crash is noticed: the row of an enabled domain does not go on saying
\* running while its unit has failed.
CrashIsNoticed == \A d \in Domains :
    Crashed(d) /\ Serves(d) ~> ~Crashed(d) \/ ~Serves(d)

=============================================================================
