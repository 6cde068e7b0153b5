---------------------------- MODULE Certificates ----------------------------
(***************************************************************************)
(* The TLS certificate of a hosted domain: the row of ssl_certificates,    *)
(* what the certificate authority has issued, and the vhost on disk (the   *)
(* reload of nginx is part of module DomainSites).                         *)
(*                                                                         *)
(* The row is written, always WHERE id = ?, by                             *)
(*   - the reconciler's loop (reconciler.go), which takes a copy of the    *)
(*     domain and of the certificate row, calls the agent for up to a      *)
(*     minute and then writes what came of it;                             *)
(*   - the request that created the domain, which runs the same code with  *)
(*     30 seconds to spend (ReconcileSSLInline);                           *)
(*   - the requests of api/ssl.go, of the email switch and of PATCH        *)
(*     /domains, and the ssl commands of the command line, which read      *)
(*     first and write later.                                              *)
(*                                                                         *)
(* Times are abstract: next_retry_at is null, in the future or due.  The   *)
(* retry count is told apart only as zero or not (`tried`).  Status        *)
(* self_signed has a case in the code but no writer.  Domains are enabled  *)
(* and are not deleted here (module DomainSites).                          *)
(***************************************************************************)
EXTENDS Naturals, FiniteSets

CONSTANTS
    Domains,    \* hosted domains
    NoRow,      \* the value of a row that does not exist
    RetryBatch, \* the limit of the retry ticker's list (10)
    MaxAsked,   \* bound: requests of operators and users
    MaxFaults   \* bound: failed calls of the agent, restarts of the panel

ASSUME BoundsAssumption ==
    MaxAsked \in Nat /\ MaxFaults \in Nat /\ RetryBatch \in Nat

Statuses == {"pending", "pending_acme_retry", "renewing", "issued",
             "failed", "revoked"}
Paths == {"none", "self", "acme"}   \* cert_path: NULL, self-signed, certbot's
Certs == [status : Statuses, path : Paths, tried : BOOLEAN,
          next : {"null", "later", "due"}]

Workers == {"loop", "inline"}
Steps == {"idle", "decide", "create", "issue", "renew", "revoke", "selfsign",
          "writeIssued", "writeRetry", "writeFailed", "markRevoked", "vhost",
          "email"}
Ops == {"enable", "disable", "cliDisable", "renew", "retry", "patch",
        "email", "noemail"}

VARIABLES
    dom,        \* the domain's row: ssl_enabled and whether it has extra SANs
    cert,       \* the row of ssl_certificates
    ca,         \* the authority's certificate and certbot's files: none,
                \* valid, or revoked and deleted
    site,       \* the vhost on disk: none, HTTP only, HTTPS with a path
    retries,    \* the retry ticker's list: of each row still to be tried the
                \* path that was read, "off" for a row that is not on it
    work,       \* the two goroutines of the reconciler's SSL code
    req,        \* the request being served, with the copies it has read
    asked, faults

vars == <<dom, cert, ca, site, retries, work, req, asked, faults>>
bounds == <<asked, faults>>

Idle == [at |-> "idle"]
NoReq == [at |-> "none"]
NoRetries == [d \in Domains |-> "off"]

Pending == [status |-> "pending", path |-> "none", tried |-> FALSE,
            next |-> "null"]

Init ==
    /\ dom \in [Domains -> {NoRow, [ssl |-> FALSE, san |-> FALSE]}]
    /\ cert = [d \in Domains |-> NoRow]
    /\ ca = [d \in Domains |-> "none"]
    /\ site = [d \in Domains |-> IF dom[d] = NoRow THEN "down" ELSE "http"]
    /\ retries = NoRetries
    /\ work = [w \in Workers |-> Idle]
    /\ req = NoReq
    /\ asked = 0 /\ faults = 0

Ask == asked < MaxAsked /\ asked' = asked + 1 /\ UNCHANGED faults
Fault == faults < MaxFaults /\ faults' = faults + 1 /\ UNCHANGED asked

-----------------------------------------------------------------------------
(* ssl_certificate_repository.go.  domain_id is unique: a second insert    *)
(* fails.                                                                  *)

UpdateStatus(d, s) == cert' = [cert EXCEPT ![d].status = s]

UpdateAfterIssuance_KeepsPath(d) ==
    cert' = [cert EXCEPT ![d].status = "issued"]

UpdateAfterIssuance(d) ==
    cert' = [cert EXCEPT ![d].status = "issued", ![d].path = "acme"]

\* p is the self-signed fallback's path, "none" when none was made
UpdateAfterACMEFailure(d, p) ==
    cert' = [cert EXCEPT ![d].status = "pending_acme_retry",
                         ![d].tried = TRUE, ![d].next = "later",
                         ![d].path = IF p = "none" THEN @ ELSE p]

MarkRevoked(d) ==
    cert' = [cert EXCEPT ![d].status = "revoked", ![d].path = "none"]

DueForACMERetry_NotPending(c) ==
    c # NoRow /\ c.status = "pending_acme_retry" /\ c.next = "due"

DueForACMERetry(c) ==
    /\ c # NoRow
    /\ \/ c.status = "pending"
       \/ c.status = "pending_acme_retry" /\ c.next = "due"

\* three hours go by
RetryTimePasses(d) ==
    /\ cert[d] # NoRow /\ cert[d].next = "later"
    /\ cert' = [cert EXCEPT ![d].next = "due"]
    /\ UNCHANGED <<dom, ca, site, work, req, bounds, retries>>

-----------------------------------------------------------------------------
(* reconciler.go: the steps of one goroutine w on the copies it holds.     *)

Goto(w, step) == work' = [work EXCEPT ![w].at = step]

After_NoVhost(w) == IF w = "inline" THEN "email" ELSE "idle"

\* the step after the SSL code: the loop goes on to render the vhost, unless
\* it came from the retry ticker; the request goes on to enable email
After(w) == IF w = "inline" THEN "email"
            ELSE IF work[w].ticker THEN "idle" ELSE "vhost"

Finish(w) ==
    work' = [work EXCEPT ![w] = IF After(w) = "idle" THEN Idle
                                ELSE [@ EXCEPT !.at = After(w)]]

Extras(w) == work[w].dom.san    \* len(sanHostnamesForDomain) > 0

PathOf(c) == IF c = NoRow THEN "none" ELSE c.path

\* what a goroutine holds: the domain's row and, of the certificate's, the path
Take(d, step, path, ticker) ==
    [at |-> step, d |-> d, dom |-> dom[d], path |-> path,
     fallback |-> "none", ticker |-> ticker]

\* ReconcileOne, ReconcileAll or ReconcileAllForce has read the domain's row
LoopVisits(d) ==
    /\ work["loop"] = Idle /\ retries = NoRetries /\ dom[d] # NoRow
    /\ work' = [work EXCEPT !["loop"] =
                   Take(d, "decide", PathOf(cert[d]), FALSE)]
    /\ UNCHANGED <<dom, cert, ca, site, req, bounds, retries>>

\* the rows that are due, RetryBatch of them at most; which come first,
\* created_at decides
RetryLists ==
    LET rows == {d \in Domains : DueForACMERetry(cert[d])}
    IN  {S \in SUBSET rows : Cardinality(S) <= RetryBatch
                             /\ (Cardinality(S) = RetryBatch \/ S = rows)}

\* RetrySSLDueForACME reads its list once
ListDueForACMERetry ==
    /\ work["loop"] = Idle /\ retries = NoRetries
    /\ \E S \in RetryLists :
          retries' = [d \in Domains |->
                        IF d \in S THEN cert[d].path ELSE "off"]
    /\ UNCHANGED <<dom, cert, ca, site, work, req, bounds>>

\* the next row of the list: the domain is read afresh, the certificate is the
\* copy on the list, whatever became of it; ssl_enabled is not looked at
LoopRetries(d) ==
    /\ work["loop"] = Idle /\ retries[d] # "off"
    /\ work' = [work EXCEPT !["loop"] = Take(d, "issue", retries[d], TRUE)]
    /\ retries' = [retries EXCEPT ![d] = "off"]
    /\ UNCHANGED <<dom, cert, ca, site, req, bounds>>

Choice_NeverRevokes(ssl, c) ==
    IF ~ssl THEN "skip"
    ELSE IF c = NoRow THEN "create"
    ELSE IF c.status = "renewing" THEN "renew"
    ELSE IF DueForACMERetry(c) THEN "issue" ELSE "skip"

\* the switch of reconcileSSLForDomain
Choice(ssl, c) ==
    CASE ssl /\ c = NoRow -> "create"
      [] ssl /\ c # NoRow /\ c.status = "pending" /\ ~c.tried -> "issue"
      [] ssl /\ c # NoRow /\ c.status = "pending_acme_retry"
             /\ c.next = "due" -> "issue"
      [] ssl /\ c # NoRow /\ c.status = "renewing" -> "renew"
      [] ~ssl /\ c # NoRow /\ c.status = "issued" -> "revoke"
      [] OTHER -> "skip"

reconcileSSLForDomain(w) ==
    /\ work[w].at = "decide"
    /\ LET d == work[w].d
           step == Choice(work[w].dom.ssl, cert[d])
       IN IF step = "skip" THEN Finish(w)
          ELSE work' = [work EXCEPT ![w].path = PathOf(cert[d]),
                                    ![w].at = step]
    /\ UNCHANGED <<dom, cert, ca, site, req, bounds, retries>>

\* tryACMEOrFallback and ReconcileSSLInline make the row that is missing
CreateRow(w) ==
    /\ work[w].at = "create"
    /\ LET d == work[w].d IN
       \/ /\ cert[d] = NoRow
          /\ cert' = [cert EXCEPT ![d] = Pending]
          /\ work' = [work EXCEPT ![w].at = "issue", ![w].path = "none"]
       \/ /\ cert[d] # NoRow
          /\ Finish(w) /\ UNCHANGED cert
    /\ UNCHANGED <<dom, ca, site, req, bounds, retries>>

Issued(w) ==
    /\ work[w].at = "issue"
    /\ ca' = [ca EXCEPT ![work[w].d] = "valid"]
    /\ Goto(w, "writeIssued")
    /\ UNCHANGED <<dom, cert, site, req, bounds, retries>>

\* admin_email is not set, certbot fails or does not answer in time; the
\* agent goes on with a certbot nobody waits for any more
IssueFails(w) ==
    /\ work[w].at = "issue" /\ Fault
    /\ ca' \in {ca, [ca EXCEPT ![work[w].d] = "valid"]}
    /\ Goto(w, IF work[w].path = "none" THEN "selfsign"
               ELSE "writeRetry")
    /\ UNCHANGED <<dom, cert, site, req, retries>>

\* a result whose times do not parse
Unparseable(w) ==
    /\ \/ work[w].at = "issue"
       \/ work[w].at = "renew" /\ ~Extras(w) /\ ca[work[w].d] = "valid"
    /\ Fault
    /\ ca' = [ca EXCEPT ![work[w].d] = "valid"]
    /\ Goto(w, "writeFailed")
    /\ UNCHANGED <<dom, cert, site, req, retries>>

\* the request's 30 seconds are over: every later write of it fails too
InlineTimesOut ==
    /\ work["inline"].at \in {"issue", "selfsign", "writeRetry",
                              "writeIssued"}
    /\ Fault
    /\ ca' \in {ca, [ca EXCEPT ![work["inline"].d] = "valid"]}
    /\ Finish("inline")
    /\ UNCHANGED <<dom, cert, site, req, retries>>

SelfSigned(w) ==
    /\ work[w].at = "selfsign"
    /\ work' = [work EXCEPT ![w].at = "writeRetry", ![w].fallback = "self"]
    /\ UNCHANGED <<dom, cert, ca, site, req, bounds, retries>>

SelfSignFails(w) ==
    /\ work[w].at = "selfsign" /\ Fault
    /\ Goto(w, "writeRetry")
    /\ UNCHANGED <<dom, cert, ca, site, req, retries>>

\* sslRenewForDomain: with extra names it issues anew, so that they are on
\* the certificate
Reissue(w) ==
    /\ work[w].at = "renew" /\ Extras(w)
    /\ Goto(w, "issue")
    /\ UNCHANGED <<dom, cert, ca, site, req, bounds, retries>>

Renewed(w) ==
    /\ work[w].at = "renew" /\ ~Extras(w)
    /\ ca[work[w].d] = "valid"
    /\ Goto(w, "writeIssued")
    /\ UNCHANGED <<dom, cert, ca, site, req, bounds, retries>>

\* certbot renews no certificate it does not have
RenewFails(w) ==
    /\ work[w].at = "renew" /\ ~Extras(w)
    /\ \/ ca[work[w].d] # "valid" /\ UNCHANGED bounds
       \/ Fault
    /\ Goto(w, "writeFailed")
    /\ UNCHANGED <<dom, cert, ca, site, req, retries>>

\* certbot revokes and then deletes its files
Revoked(w) ==
    /\ work[w].at = "revoke" /\ ca[work[w].d] = "valid"
    /\ ca' = [ca EXCEPT ![work[w].d] = "revoked"]
    /\ Goto(w, "markRevoked")
    /\ UNCHANGED <<dom, cert, site, req, bounds, retries>>

RevokeFails(w) ==
    /\ work[w].at = "revoke"
    /\ \/ ca[work[w].d] # "valid" /\ UNCHANGED bounds
       \/ Fault
    /\ Goto(w, "writeFailed")
    /\ UNCHANGED <<dom, cert, ca, site, req, retries>>

\* what the goroutine knows is written whatever the row says by now
Write(w) ==
    /\ LET d == work[w].d IN
       \/ work[w].at = "writeIssued" /\ UpdateAfterIssuance(d)
       \/ work[w].at = "writeRetry"
            /\ UpdateAfterACMEFailure(d, work[w].fallback)
       \/ work[w].at = "writeFailed" /\ UpdateStatus(d, "failed")
       \/ work[w].at = "markRevoked" /\ MarkRevoked(d)
    /\ Finish(w)
    /\ UNCHANGED <<dom, ca, site, req, bounds, retries>>

VhostCert_NoNilCheck(c) ==
    IF c = NoRow \/ c.status = "revoked" THEN "http" ELSE c.path

\* the certificate createDomainOnAgent puts into the vhost
VhostCert(c) ==
    IF c = NoRow \/ c.status = "revoked" \/ c.path = "none" THEN "http"
    ELSE c.path

\* the vhost a domain.create leaves.  One that is as wanted is not touched;
\* a new one whose certificate's file is gone is refused by nginx -t, and the
\* agent then removes it.
Written(d) ==
    LET v == VhostCert(cert[d])
    IN IF v # site[d] /\ v = "acme" /\ ca[d] # "valid" THEN "down" ELSE v

createDomainOnAgent ==
    /\ work["loop"].at = "vhost"
    /\ LET d == work["loop"].d IN
       \/ site' = [site EXCEPT ![d] = Written(d)] /\ UNCHANGED bounds
       \/ Fault /\ UNCHANGED site
    /\ work' = [work EXCEPT !["loop"] = Idle]
    /\ UNCHANGED <<dom, cert, ca, req, retries>>

-----------------------------------------------------------------------------
(* Requests.  One is served at a time; the loop and the inline attempt run *)
(* beside it.                                                              *)

\* POST /domains: the row, then ReconcileSSLInline in the request
create(d) ==
    /\ Ask /\ dom[d] = NoRow /\ work["inline"] = Idle
    /\ dom' = [dom EXCEPT ![d] = [ssl |-> TRUE, san |-> TRUE]]
    /\ work' = [work EXCEPT !["inline"] =
                  [at |-> IF cert[d] = NoRow THEN "create" ELSE "issue",
                   d |-> d, dom |-> dom'[d], path |-> PathOf(cert[d]),
                   fallback |-> "none", ticker |-> FALSE]]
    /\ UNCHANGED <<cert, ca, site, req, retries>>

\* triggerSSLSANExpansion: only an issued certificate is issued again
Expand(d) ==
    IF cert[d] # NoRow /\ cert[d].status = "issued"
    THEN UpdateStatus(d, "renewing") ELSE UNCHANGED cert

\* the end of POST /domains: EnableDomainEmailInline, whose failure is logged
InlineEmail ==
    /\ work["inline"].at = "email"
    /\ \/ Expand(work["inline"].d) /\ UNCHANGED bounds
       \/ Fault /\ UNCHANGED cert
    /\ work' = [work EXCEPT !["inline"] = Idle]
    /\ UNCHANGED <<dom, ca, site, req, retries>>

\* a request has read what it needs and passed its checks.  (enableSSL answers
\* at once, and changes nothing, where the row says issued and has more than
\* 30 days to go.)
Begin(op, d) ==
    /\ Ask /\ req = NoReq /\ dom[d] # NoRow
    /\ op \in {"renew", "retry"} => cert[d] # NoRow
    /\ op = "retry" => cert[d].status \in {"failed", "pending_acme_retry"}
    /\ req' = [at |-> IF op = "retry" THEN "status"
                     ELSE IF op = "renew" THEN "cert" ELSE "row",
               op |-> op, d |-> d, ssl |-> dom[d].ssl, had |-> cert[d] # NoRow,
               status |-> IF op = "retry" THEN cert[d].status ELSE "pending"]
    /\ UNCHANGED <<dom, cert, ca, site, work, retries>>

\* Domains.Update writes ssl_enabled, from the copy where the request does
\* not set it; UpdateEmailState writes only the email columns
WriteRow ==
    /\ req.at = "row"
    /\ LET d == req.d IN
       dom' = CASE req.op = "enable" -> [dom EXCEPT ![d].ssl = TRUE]
                [] req.op \in {"disable", "cliDisable"}
                     -> [dom EXCEPT ![d].ssl = FALSE]
                [] req.op = "patch" -> [dom EXCEPT ![d].ssl = req.ssl]
                [] req.op = "email" -> [dom EXCEPT ![d].san = TRUE]
                [] req.op = "noemail" -> [dom EXCEPT ![d].san = FALSE]
    /\ req' = IF req.op \in {"patch", "noemail", "cliDisable"} THEN NoReq
              ELSE [req EXCEPT !.at = "cert"]
    /\ UNCHANGED <<cert, ca, site, work, bounds, retries>>

\* retrySSL writes back the status it has read before it writes pending
WriteStatus ==
    /\ req.at = "status"
    /\ UpdateStatus(req.d, req.status)
    /\ req' = [req EXCEPT !.at = "cert"]
    /\ UNCHANGED <<dom, ca, site, work, bounds, retries>>

\* the row a request writes last.  enableSSL inserts where it had read none,
\* and fails when another insert came first.
WriteCert ==
    /\ req.at = "cert"
    /\ LET d == req.d IN
       \/ /\ req.op = "enable" /\ ~req.had
          /\ cert' = [cert EXCEPT ![d] = IF @ = NoRow THEN Pending ELSE @]
       \/ req.op = "enable" /\ req.had /\ UpdateStatus(d, "pending")
       \/ /\ req.op = "disable"
          /\ IF cert[d] = NoRow THEN UNCHANGED cert
             ELSE UpdateStatus(d, "revoked")
       \/ req.op = "renew" /\ UpdateStatus(d, "renewing")
       \/ req.op = "retry" /\ UpdateStatus(d, "pending")
       \/ req.op = "email" /\ Expand(d)
    /\ req' = NoReq
    /\ UNCHANGED <<dom, ca, site, work, bounds, retries>>

\* the panel is restarted: its goroutines are gone, the agent's certbot not
Restart ==
    /\ Fault
    /\ work' = [w \in Workers |-> Idle]
    /\ req' = NoReq /\ retries' = NoRetries
    /\ UNCHANGED <<dom, cert, ca, site>>

-----------------------------------------------------------------------------
Worker(w) ==
    \/ reconcileSSLForDomain(w) \/ CreateRow(w)
    \/ Issued(w) \/ IssueFails(w) \/ Unparseable(w)
    \/ SelfSigned(w) \/ SelfSignFails(w)
    \/ Reissue(w) \/ Renewed(w) \/ RenewFails(w)
    \/ Revoked(w) \/ RevokeFails(w)
    \/ Write(w)

Next ==
    \/ \E w \in Workers : Worker(w)
    \/ InlineTimesOut \/ InlineEmail \/ createDomainOnAgent
    \/ ListDueForACMERetry
    \/ WriteRow \/ WriteStatus \/ WriteCert \/ Restart
    \/ \E d \in Domains :
         \/ LoopVisits(d) \/ LoopRetries(d) \/ RetryTimePasses(d)
         \/ create(d)
         \/ \E op \in Ops : Begin(op, d)

Spec == Init /\ [][Next]_vars

\* a call of the agent returns, and the first tick, the minute ticker and
\* three hours come again and again
FairSpec ==
    /\ Spec
    /\ \A w \in Workers : WF_vars(Worker(w))
    /\ WF_vars(createDomainOnAgent) /\ WF_vars(InlineEmail)
    /\ WF_vars(WriteRow) /\ WF_vars(WriteStatus) /\ WF_vars(WriteCert)
    /\ \A d \in Domains :
         /\ SF_vars(LoopVisits(d)) /\ WF_vars(LoopRetries(d))
         /\ SF_vars(ListDueForACMERetry /\ retries'[d] # "off")
         /\ WF_vars(RetryTimePasses(d))

-----------------------------------------------------------------------------
\* Every variable has its type: rows, authority, vhost, goroutines, request; a
\* vhost names a certificate only when there is a path to name (createDomainOnAgent).
TypeOK ==
    /\ dom \in [Domains -> {NoRow} \union [ssl : BOOLEAN, san : BOOLEAN]]
    /\ cert \in [Domains -> {NoRow} \union Certs]
    /\ ca \in [Domains -> {"none", "valid", "revoked"}]
    /\ site \in [Domains -> {"down", "http", "self", "acme"}]
    /\ retries \in [Domains -> Paths \union {"off"}]
    /\ \A w \in Workers : work[w].at \in Steps
    /\ req.at \in {"none", "row", "status", "cert"}
    /\ asked \in 0..MaxAsked /\ faults \in 0..MaxFaults

StatusIn(d, S) == cert[d] # NoRow /\ cert[d].status \in S
SslOn(d) == dom[d] # NoRow /\ dom[d].ssl

\* A certificate row is never left waiting: with SSL on, a domain without a
\* row, or with one that is pending, to be retried or renewing, gets an answer
\* (issued, failed or revoked), and a pending or retried row is answered with
\* SSL off, too -- whatever failures, restarts, late writes of the other
\* goroutine and requests came between.  (A renewing row whose SSL is switched
\* off has no case in reconcileSSLForDomain and waits for ever.)
CertificateSettles == \A d \in Domains :
    /\ SslOn(d) /\ ~StatusIn(d, {"issued", "failed", "revoked"})
         ~> StatusIn(d, {"issued", "failed", "revoked"}) \/ ~SslOn(d)
    /\ ~SslOn(d) /\ StatusIn(d, {"pending", "pending_acme_retry"})
         ~> ~StatusIn(d, {"pending", "pending_acme_retry"}) \/ SslOn(d)

\* With SSL off, a certificate is revoked at the authority, not only in the
\* row: a valid one is gone in the end unless its row stops saying issued for
\* another reason -- DELETE /domains/:id/ssl, which writes revoked itself and
\* by that keeps reconcileSSLForDomain from ever calling ssl.revoke, a revoke
\* that failed, or a renewal asked for meanwhile.
DisabledIsRevoked == \A d \in Domains :
    ~SslOn(d) /\ ca[d] = "valid"
      ~> ca[d] # "valid" \/ SslOn(d) \/ StatusIn(d, {"revoked", "failed", "renewing"})

\* HTTPS comes up without the authority: a domain with SSL on is served over
\* HTTPS eventually, self-signed if need be, unless its row failed or was
\* revoked, or a late write calls issued what has been revoked: nginx refuses
\* the vhost for good then (createDomainOnAgent, writeVhost).
HttpsComesUp == \A d \in Domains :
    SslOn(d) ~> \/ site[d] \in {"self", "acme"} \/ ~SslOn(d)
                \/ StatusIn(d, {"failed", "revoked"})
                \/ ca[d] = "revoked" /\ StatusIn(d, {"issued"})

\* A row that says issued names certbot's files, never the self-signed pair
\* or none: the writes of the loop, of the inline attempt and of the requests
\* do not mix one's status with another's path.
IssuedHasItsPath == \A d \in Domains :
    StatusIn(d, {"issued"}) => cert[d].path = "acme"

=============================================================================
