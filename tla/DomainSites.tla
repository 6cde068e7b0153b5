----------------------------- MODULE DomainSites -----------------------------
(***************************************************************************)
(* The hosted domains of one user: the rows of table domains, the vhosts   *)
(* and DNS zones the root agent keeps on the host, and the reconciler that *)
(* makes the host follow the rows.                                         *)
(*                                                                         *)
(* Passes of the reconciler run in its own goroutine (the ticker and the   *)
(* queue of scheduled ids) and in requests to POST /reconcile.  A pass     *)
(* reads the rows once and calls the agent with those copies, one domain   *)
(* after the other; nothing keeps two passes apart, nor a pass from the    *)
(* goroutine that tears down a deleted domain.  Within a pass the domains  *)
(* are visited in any order (the code ranges over maps).                   *)
(*                                                                         *)
(* Of a row the model keeps is_enabled and is_quota_suspended; Update      *)
(* writes both, from a copy read earlier.  Of a row of dns_zones it keeps  *)
(* is_enabled, and so does every Save of one.  A vhost is rendered from    *)
(* the row: serving ("on"), or the suspended page ("off").  Certificates   *)
(* are module Certificates', runtimes module RuntimeServices'.             *)
(***************************************************************************)
EXTENDS Naturals, Sequences

CONSTANTS
    Domains,    \* names of hosted domains
    Clients,    \* requests and shells that may be under way at once
    NoRow,      \* the value of a row that does not exist
    QueueCap,   \* capacity of the reconciler's queue
    MaxIds,     \* bound: rows ever inserted
    MaxAsked,   \* bound: requests, commands and changes of the usage
    MaxFaults   \* bound: failed calls and restarts

ASSUME BoundsAssumption ==
    QueueCap \in Nat /\ MaxIds \in Nat /\ MaxAsked \in Nat /\ MaxFaults \in Nat

Passes == {"loop", "request"}
Usages == {"low", "mid", "high"}    \* at most 80 %, between, at least 100 %
Vhosts == {"none", "on", "off"}
ZoneRows == {"none", "on", "off"}
Rows == [id : 1..MaxIds, on : BOOLEAN, quota : BOOLEAN]
Copies == [d : Domains, id : 1..MaxIds, on : BOOLEAN, quota : BOOLEAN]

VARIABLES
    row,        \* table domains
    ids,        \* ids handed out so far
    suspended,  \* users.suspended of the owner
    usage,      \* the owner's month-to-date bytes against the quota
    file,       \* sites-enabled: the vhost on disk
    live,       \* the configuration nginx runs with
    owed,       \* history: a vhost changed and no reload has succeeded since
    zrow,       \* table dns_zones: no row, enabled or disabled
    zone,       \* zones PowerDNS serves
    queue,      \* Reconciler.queue
    pass,       \* the reconciler's passes
    tear,       \* ReconcileDeleted goroutines
    req,        \* requests and commands under way
    asked, faults

vars == <<row, ids, suspended, usage, file, live, owed, zrow, zone, queue, pass,
          tear, req, asked, faults>>
nginx == <<file, live, owed>>
host == <<nginx, zrow, zone>>
bounds == <<asked, faults>>

Idle == [at |-> "idle"]

Init ==
    /\ row = [d \in Domains |-> NoRow] /\ ids = 0
    /\ suspended = FALSE /\ usage = "low"
    /\ file = [d \in Domains |-> "none"] /\ live = file /\ owed = FALSE
    /\ zrow = [d \in Domains |-> "none"]
    /\ zone = [d \in Domains |-> FALSE]
    /\ queue = <<>>
    /\ pass = [p \in Passes |-> Idle]
    /\ tear = {}
    /\ req = [c \in Clients |-> Idle]
    /\ asked = 0 /\ faults = 0

Ask == asked < MaxAsked /\ asked' = asked + 1 /\ UNCHANGED faults
Fault == faults < MaxFaults /\ faults' = faults + 1 /\ UNCHANGED asked

Copy(d) == [d |-> d, id |-> row[d].id, on |-> row[d].on, quota |-> row[d].quota]
AllCopies == {Copy(d) : d \in {e \in Domains : row[e] # NoRow}}
Exists(c) == row[c.d] # NoRow /\ row[c.d].id = c.id

-----------------------------------------------------------------------------
(* domain_repository.go and Reconciler.Schedule                            *)

\* WHERE id = ?: a row deleted meanwhile is not written, and no error
Update(c, on, quota) ==
    row' = IF Exists(c)
           THEN [row EXCEPT ![c.d].on = on, ![c.d].quota = quota]
           ELSE row

BulkSetEnabledByUserID(on) ==
    row' = [d \in Domains |-> IF row[d] = NoRow THEN NoRow
                              ELSE [row[d] EXCEPT !.on = on]]

Schedule_Unbounded(id) == queue' = Append(queue, id)

\* non-blocking: a full queue drops the id
Schedule(id) ==
    queue' = IF Len(queue) < QueueCap THEN Append(queue, id) ELSE queue

-----------------------------------------------------------------------------
(* The agent: domain.create, domain.delete, dns.zone.*                     *)

Want(c) == IF c.on THEN "on" ELSE "off"

\* systemctl reload nginx: every file on disk takes effect
Reload == live' = file' /\ owed' = FALSE
ReloadFails == UNCHANGED live /\ owed' = TRUE

\* writeVhost: a vhost that is on disk as wanted is left alone, without a
\* reload, also when the reload after its last change failed; otherwise it is
\* written, nginx -t is run and nginx reloaded
writeVhost(c) ==
    IF file[c.d] = Want(c) THEN UNCHANGED nginx
    ELSE file' = [file EXCEPT ![c.d] = Want(c)] /\ Reload

\* the call fails before anything is done; nginx -t fails and both links of
\* the vhost are removed; the reload fails
writeVhostFails(c) ==
    \/ UNCHANGED nginx
    \/ /\ file[c.d] # Want(c)
       /\ file' \in {[file EXCEPT ![c.d] = v] : v \in {"none", Want(c)}}
       /\ ReloadFails

-----------------------------------------------------------------------------
(* Passes of the reconciler                                                *)

Step(p, s) == pass' = [pass EXCEPT ![p] = s]

\* the rows the quota loop changes: it skips the ones it has marked already,
\* or has not marked, and nothing else
QuotaTodo_SkipsDisabled ==
    CASE usage = "high" -> {c \in AllCopies : ~c.quota}
      [] usage = "low" -> {c \in AllCopies : c.quota /\ c.on}
      [] OTHER -> {}

QuotaTodo ==
    CASE usage = "high" -> {c \in AllCopies : ~c.quota}
      [] usage = "low" -> {c \in AllCopies : c.quota}
      [] OTHER -> {}

\* ReconcileAll begins: reconcileBandwidthQuotaEnforce has read the usage and
\* the user's rows
ReconcileAll(p) ==
    /\ pass[p] = Idle
    /\ IF p = "loop" THEN UNCHANGED bounds ELSE Ask
    /\ Step(p, [at |-> "quota", mark |-> usage = "high", todo |-> QuotaTodo])
    /\ UNCHANGED <<row, ids, suspended, usage, host, queue, tear, req>>

\* suspendUserDomains, unsuspendUserDomains: one row; a failed write is
\* logged and skipped
QuotaWrite(p) ==
    /\ pass[p].at = "quota"
    /\ \E c \in pass[p].todo :
         /\ Step(p, [pass[p] EXCEPT !.todo = @ \ {c}])
         /\ \/ /\ Update(c, ~pass[p].mark, pass[p].mark)
               /\ Schedule(c.id) /\ UNCHANGED bounds
            \/ Fault /\ UNCHANGED <<row, queue>>
    /\ UNCHANGED <<ids, suspended, usage, host, tear, req>>

\* domain.list: what sites-enabled holds.  A failure ends the pass.
ListSites(p) ==
    /\ pass[p].at = "quota" /\ pass[p].todo = {}
    /\ \/ /\ Step(p, [at |-> "rows",
                      sites |-> {d \in Domains : file[d] # "none"}])
          /\ UNCHANGED bounds
       \/ Fault /\ Step(p, Idle)
    /\ UNCHANGED <<row, ids, suspended, usage, host, queue, tear, req>>

ToVisit_MissingOnly(sites) ==
    {c \in AllCopies : IF c.on THEN c.d \notin sites ELSE c.d \in sites}

\* every enabled domain, and the disabled ones that have a vhost
ToVisit(sites) == {c \in AllCopies : c.on \/ c.d \in sites}

Visits(copies) == IF copies = {} THEN Idle ELSE [at |-> "next", todo |-> copies]

ListRows(p) ==
    /\ pass[p].at = "rows"
    /\ Step(p, Visits(ToVisit(pass[p].sites)))
    /\ UNCHANGED <<row, ids, suspended, usage, host, queue, tear, req, bounds>>

\* the loop takes an id from its queue; a row that is gone ends it
ReconcileOne ==
    /\ pass["loop"] = Idle /\ queue # <<>>
    /\ queue' = Tail(queue)
    /\ Step("loop", Visits({c \in AllCopies : c.id = Head(queue)}))
    /\ UNCHANGED <<row, ids, suspended, usage, host, tear, req, bounds>>

ReconcileAllForce ==
    /\ pass["request"] = Idle /\ Ask
    /\ Step("request", Visits(AllCopies))
    /\ UNCHANGED <<row, ids, suspended, usage, host, queue, tear, req>>

\* dnsZoneRepo.Save, by the zone's id.  Its foreign key refers to the domain's
\* row: without that row nothing is written.
SaveZone(c, on) ==
    zrow' = IF Exists(c) THEN [zrow EXCEPT ![c.d] = IF on THEN "on" ELSE "off"]
            ELSE zrow

\* the next domain of the pass: reconcileDNSZone reads its row of dns_zones or
\* inserts an enabled one; a disabled zone is not pushed, nor one that could
\* not be read or inserted
FindZone(p) ==
    /\ pass[p].at = "next"
    /\ \E c \in pass[p].todo :
         LET Goes(at) == Step(p, [at |-> at, cur |-> c, todo |-> pass[p].todo \ {c}])
         IN  \/ /\ Exists(c) /\ zrow[c.d] # "off" /\ Goes("save")
                /\ SaveZone(c, TRUE) /\ UNCHANGED bounds
             \/ /\ ~Exists(c) \/ zrow[c.d] = "off"
                /\ Goes("vhost") /\ UNCHANGED <<zrow, bounds>>
             \/ Fault /\ Goes("vhost") /\ UNCHANGED zrow
    /\ UNCHANGED <<row, ids, suspended, usage, nginx, zone, queue, tear, req>>

\* the records are listed and the row saved with a new serial: all of its
\* columns, is_enabled as it was read; an error of the save is ignored
BumpSerial(p) ==
    /\ pass[p].at = "save"
    /\ \/ SaveZone(pass[p].cur, TRUE) /\ UNCHANGED bounds
       \/ Fault /\ UNCHANGED zrow
    /\ Step(p, [pass[p] EXCEPT !.at = "push"])
    /\ UNCHANGED <<row, ids, suspended, usage, nginx, zone, queue, tear, req>>

\* dns.zone.upsert
PushZone(p) ==
    /\ pass[p].at = "push"
    /\ \/ zone' = [zone EXCEPT ![pass[p].cur.d] = TRUE] /\ UNCHANGED bounds
       \/ Fault /\ UNCHANGED zone
    /\ Step(p, [pass[p] EXCEPT !.at = "vhost"])
    /\ UNCHANGED <<row, ids, suspended, usage, nginx, zrow, queue, tear, req>>

\* domain.create, with the copy
createDomainOnAgent(p) ==
    /\ pass[p].at = "vhost"
    /\ \/ writeVhost(pass[p].cur) /\ UNCHANGED bounds
       \/ Fault /\ writeVhostFails(pass[p].cur)
    /\ Step(p, Visits(pass[p].todo))
    /\ UNCHANGED <<row, ids, suspended, usage, zrow, zone, queue, tear, req>>

-----------------------------------------------------------------------------
(* ReconcileDeleted: the goroutine of a deleted domain.  A failure is      *)
(* logged and not tried again.                                             *)

DeleteVhost(t) ==
    /\ t \in tear /\ t.at = "vhost"
    /\ \/ /\ file' = [file EXCEPT ![t.d] = "none"] /\ Reload
          /\ UNCHANGED bounds
       \/ Fault /\ UNCHANGED nginx
       \/ Fault /\ file' = [file EXCEPT ![t.d] = "none"] /\ ReloadFails
    /\ tear' = (tear \ {t}) \union {[t EXCEPT !.at = "zone"]}
    /\ UNCHANGED <<row, ids, suspended, usage, zrow, zone, queue, pass, req>>

DeleteZone(t) ==
    /\ t \in tear /\ t.at = "zone"
    /\ \/ zone' = [zone EXCEPT ![t.d] = FALSE] /\ UNCHANGED bounds
       \/ Fault /\ UNCHANGED zone
    /\ tear' = tear \ {t}
    /\ UNCHANGED <<row, ids, suspended, usage, nginx, zrow, queue, pass, req>>

-----------------------------------------------------------------------------
(* Requests and commands.  Each reads first and writes in a later step.    *)

Begin(c, r) == req[c] = Idle /\ Ask /\ req' = [req EXCEPT ![c] = r]
End(c) == req' = [req EXCEPT ![c] = Idle]

\* POST /domains: the owner was not suspended when it was looked up
create(c, d) ==
    /\ ~suspended /\ row[d] = NoRow /\ ids < MaxIds
    /\ Begin(c, [at |-> "insert", d |-> d])
    /\ UNCHANGED <<row, ids, suspended, usage, host, queue, pass, tear>>

\* the name is unique: a second insert is refused
createInsert(c) ==
    /\ req[c].at = "insert"
    /\ LET d == req[c].d IN
       IF row[d] = NoRow /\ ids < MaxIds
       THEN /\ ids' = ids + 1
            /\ row' = [row EXCEPT ![d] = [id |-> ids + 1, on |-> TRUE,
                                          quota |-> FALSE]]
            /\ Schedule(ids + 1)
       ELSE UNCHANGED <<row, ids, queue>>
    /\ End(c)
    /\ UNCHANGED <<suspended, usage, host, pass, tear, bounds>>

\* PATCH /domains/:id that sets is_enabled, or leaves it as it was read; and
\* the command domain enable|disable, which schedules nothing
update(c, d) ==
    /\ row[d] # NoRow
    /\ \E on \in BOOLEAN, shell \in BOOLEAN :
         Begin(c, [at |-> "update", to |-> [Copy(d) EXCEPT !.on = on],
                   shell |-> shell])
    /\ UNCHANGED <<row, ids, suspended, usage, host, queue, pass, tear>>

updateWrite(c) ==
    /\ req[c].at = "update"
    /\ Update(req[c].to, req[c].to.on, req[c].to.quota)
    /\ IF req[c].shell THEN UNCHANGED queue ELSE Schedule(req[c].to.id)
    /\ End(c)
    /\ UNCHANGED <<ids, suspended, usage, host, pass, tear, bounds>>

\* PATCH /domains/:id/dns/zone: reads the row of dns_zones and saves it
updateZone(c, d) ==
    /\ row[d] # NoRow /\ zrow[d] # "none"
    /\ \E on \in BOOLEAN : Begin(c, [at |-> "zone", to |-> Copy(d), on |-> on])
    /\ UNCHANGED <<row, ids, suspended, usage, host, queue, pass, tear>>

\* a domain deleted meanwhile fails the save, and nothing is scheduled
updateZoneWrite(c) ==
    /\ req[c].at = "zone"
    /\ SaveZone(req[c].to, req[c].on)
    /\ IF Exists(req[c].to) THEN Schedule(req[c].to.id) ELSE UNCHANGED queue
    /\ End(c)
    /\ UNCHANGED <<row, ids, suspended, usage, nginx, zone, pass, tear, bounds>>

\* DELETE /domains/:id starts the teardown; the command domain delete
\* removes the row and no more.  The row of dns_zones goes with it.
delete(c, d) ==
    /\ row[d] # NoRow /\ Ask
    /\ row' = [row EXCEPT ![d] = NoRow]
    /\ zrow' = [zrow EXCEPT ![d] = "none"]
    /\ \/ tear' = tear \union {[d |-> d, at |-> "vhost"]}
       \/ UNCHANGED tear
    /\ UNCHANGED <<ids, suspended, usage, nginx, zone, queue, pass, req>>

\* POST /admin/users/:id/suspend and unsuspend: the flag, then the domains
suspend(c, to) ==
    /\ suspended # to
    /\ Begin(c, [at |-> "bulk", on |-> ~to])
    /\ suspended' = to
    /\ UNCHANGED <<row, ids, usage, host, queue, pass, tear>>

suspendBulk(c) ==
    /\ req[c].at = "bulk"
    /\ \/ BulkSetEnabledByUserID(req[c].on) /\ UNCHANGED bounds
       \/ Fault /\ UNCHANGED row
    /\ End(c)
    /\ UNCHANGED <<ids, suspended, usage, host, queue, pass, tear>>

\* traffic is counted, a month begins, the package changes
UsageChanges ==
    /\ Ask /\ usage' \in Usages \ {usage}
    /\ UNCHANGED <<row, ids, suspended, host, queue, pass, tear, req>>

\* the panel is restarted
Restart ==
    /\ Fault
    /\ queue' = <<>> /\ pass' = [p \in Passes |-> Idle] /\ tear' = {}
    /\ req' = [c \in Clients |-> Idle]
    /\ UNCHANGED <<row, ids, suspended, usage, host>>

-----------------------------------------------------------------------------
PassStep(p) ==
    \/ QuotaWrite(p) \/ ListSites(p) \/ ListRows(p)
    \/ FindZone(p) \/ BumpSerial(p) \/ PushZone(p) \/ createDomainOnAgent(p)

TearStep == \E t \in tear : DeleteVhost(t) \/ DeleteZone(t)

ReqStep(c) ==
    createInsert(c) \/ updateWrite(c) \/ updateZoneWrite(c) \/ suspendBulk(c)

Next ==
    \/ \E p \in Passes : ReconcileAll(p) \/ PassStep(p)
    \/ ReconcileOne \/ ReconcileAllForce
    \/ TearStep
    \/ \E c \in Clients :
         \/ ReqStep(c)
         \/ \E d \in Domains :
              create(c, d) \/ update(c, d) \/ updateZone(c, d) \/ delete(c, d)
         \/ \E to \in BOOLEAN : suspend(c, to)
    \/ UsageChanges \/ Restart

Spec == Init /\ [][Next]_vars

\* the ticker comes again and again and select takes it; a pass, a teardown
\* and a request go on
FairSpec ==
    /\ Spec
    /\ SF_vars(ReconcileAll("loop")) /\ SF_vars(ReconcileOne)
    /\ \A p \in Passes : WF_vars(PassStep(p))
    /\ WF_vars(TearStep)
    /\ \A c \in Clients : WF_vars(ReqStep(c))

-----------------------------------------------------------------------------
\* Every variable has its type, and Schedule never exceeds the queue's capacity.
TypeOK ==
    /\ row \in [Domains -> {NoRow} \union Rows]
    /\ ids \in 0..MaxIds
    /\ suspended \in BOOLEAN /\ usage \in Usages
    /\ file \in [Domains -> Vhosts] /\ live \in [Domains -> Vhosts]
    /\ owed \in BOOLEAN
    /\ zrow \in [Domains -> ZoneRows] /\ zone \in [Domains -> BOOLEAN]
    /\ queue \in Seq(1..MaxIds) /\ Len(queue) <= QueueCap
    /\ \A p \in Passes : pass[p].at \in
         {"idle", "quota", "rows", "next", "save", "push", "vhost"}
    /\ tear \subseteq [d : Domains, at : {"vhost", "zone"}]
    /\ \A c \in Clients : req[c].at \in {"idle", "insert", "update", "zone", "bulk"}
    /\ asked \in 0..MaxAsked /\ faults \in 0..MaxFaults

\* The host follows the rows: in the end an enabled domain has its vhost, is
\* served by it and has its zone unless the zone is disabled, and a disabled
\* domain is not served, whatever ids the queue dropped, whatever copies two
\* passes and a late teardown wrote over each other, and whatever calls failed
\* or restarts lost.  What nginx runs with is excepted for as long as no reload
\* has succeeded since a vhost changed: writeVhost skips the reload of a vhost
\* that is already on disk, so nothing tries again and nginx may go on serving
\* a disabled domain until some other vhost is written.
HostFollowsRows ==
    <>[](\A d \in Domains : row[d] # NoRow =>
           /\ row[d].on => /\ file[d] = "on" /\ (live[d] = "on" \/ owed)
                           /\ zrow[d] # "off" => zone[d]
           /\ ~row[d].on => file[d] # "on" /\ (live[d] # "on" \/ owed))

\* The quota loop settles: with the usage where it stays, no row keeps the
\* mark below 80 %, and none is without it above 100 %, although PATCH, the
\* suspend cascade and a second pass write rows they read earlier.  A row that
\* was disabled by hand is no exception: above 100 % it is marked like the
\* others, and the loop then enables it below 80 %.
QuotaSettles ==
    <>[](\A d \in Domains : row[d] # NoRow =>
           /\ usage = "low" => ~row[d].quota
           /\ usage = "high" => row[d].quota)

=============================================================================
