------------------------- MODULE Certificates_proofs -------------------------
(***************************************************************************)
(* Proofs about Certificates for every set of domains and every bound.     *)
(*                                                                         *)
(* The argument: a row of ssl_certificates once made is never removed, so  *)
(* a goroutine or a request that has seen it may write it WHERE id = ? at  *)
(* any later time; the status issued is written only together with         *)
(* certbot's path, and the one status a request writes back from its copy  *)
(* (retrySSL) is never issued.                                             *)
(***************************************************************************)
EXTENDS Certificates, TLAPS

Doms == [ssl : BOOLEAN, san : BOOLEAN]

\* What a goroutine and a request hold.
WorkCopies ==
    {Idle} \union [at : Steps \ {"idle"}, d : Domains, dom : {NoRow} \union Doms,
                   path : Paths, fallback : {"none", "self"}, ticker : BOOLEAN]
ReqCopies ==
    {NoReq} \union [at : {"row", "status", "cert"}, op : Ops, d : Domains,
                    ssl : BOOLEAN, had : BOOLEAN, status : Statuses \ {"issued"}]

Tables ==
    /\ dom \in [Domains -> {NoRow} \union Doms]
    /\ cert \in [Domains -> {NoRow} \union Certs]
    /\ ca \in [Domains -> {"none", "valid", "revoked"}]
    /\ site \in [Domains -> {"down", "http", "self", "acme"}]
Counters == asked \in 0..MaxAsked /\ faults \in 0..MaxFaults

\* A row that says issued names certbot's files.
Named(c) == c # NoRow /\ c.status = "issued" => c.path = "acme"
AllNamed == \A d \in Domains : Named(cert[d])

\* Past its switch, and past the insert, a goroutine works on a row that is there.
RowSteps == {"issue", "renew", "revoke", "selfsign", "writeIssued", "writeRetry",
             "writeFailed", "markRevoked"}
WorkOn(w) == work[w] \in WorkCopies
             /\ (work[w].at \in RowSteps => cert[work[w].d] \in Certs)
Works == work \in [Workers -> WorkCopies] /\ \A w \in Workers : WorkOn(w)

\* A request writes the rows it has read.
ReqOn == /\ req \in ReqCopies
         /\ req # NoReq =>
              /\ req.at = "row" => req.op \notin {"renew", "retry"}
              /\ dom[req.d] \in Doms
              /\ req.had \/ req.op \in {"renew", "retry"} => cert[req.d] \in Certs
              /\ req.at = "status" => req.op = "retry"

\* The retry ticker's list holds copies of rows that are there.
Listed == /\ retries \in [Domains -> Paths \union {"off"}]
          /\ \A d \in Domains : retries[d] # "off" => cert[d] \in Certs

IInv == Tables /\ Counters /\ AllNamed /\ Listed /\ Works /\ ReqOn

\* A write of cert that keeps every row, with its type, and certbot's path on
\* the issued ones.
CertStep ==
    /\ cert' \in [Domains -> {NoRow} \union Certs]
    /\ \A d \in Domains : cert[d] \in Certs => cert'[d] \in Certs
    /\ AllNamed'

LEMMA WorkShape ==
    ASSUME NEW r \in WorkCopies
    PROVE  /\ r.at \in Steps
           /\ r.at = "idle" => r = Idle
           /\ r.at # "idle" =>
                r \in [at : Steps \ {"idle"}, d : Domains, dom : {NoRow} \union Doms,
                       path : Paths, fallback : {"none", "self"}, ticker : BOOLEAN]
BY DEF WorkCopies, Idle, Steps

LEMMA ReqShape ==
    ASSUME NEW r \in ReqCopies
    PROVE  /\ r.at \in {"none", "row", "status", "cert"}
           /\ r.at # "none" =>
                r \in [at : {"row", "status", "cert"}, op : Ops, d : Domains,
                       ssl : BOOLEAN, had : BOOLEAN, status : Statuses \ {"issued"}]
BY DEF ReqCopies, NoReq

LEMMA IInvTypes == IInv => TypeOK /\ IssuedHasItsPath
<1> SUFFICES ASSUME IInv PROVE TypeOK /\ IssuedHasItsPath
    OBVIOUS
<1>1. TypeOK
    BY WorkShape, ReqShape DEF IInv, Tables, Counters, Listed, Works, ReqOn, TypeOK, Doms
<1>2. IssuedHasItsPath
    BY DEF IInv, Tables, AllNamed, Named, IssuedHasItsPath, StatusIn
<1> QED
    BY <1>1, <1>2

LEMMA InitIInv == Init => IInv
<1> SUFFICES ASSUME Init PROVE IInv
    OBVIOUS
<1> USE DEF Init
<1>1. Tables
    <2>1. [ssl |-> FALSE, san |-> FALSE] \in Doms
        BY DEF Doms
    <2>2. dom \in [Domains -> {NoRow} \union Doms]
        BY <2>1
    <2> QED
        BY <2>2 DEF Tables
<1>2. Counters
    BY BoundsAssumption DEF Counters
<1>3. AllNamed
    BY DEF AllNamed, Named
<1>4. Works
    BY DEF Works, WorkOn, WorkCopies, Idle, RowSteps
<1>5. ReqOn
    BY DEF ReqOn, ReqCopies
<1>6. Listed
    BY DEF Listed, NoRetries
<1> QED
    BY <1>1, <1>2, <1>3, <1>4, <1>5, <1>6 DEF IInv

-----------------------------------------------------------------------------
(* The repository's writes.                                                *)

LEMMA RowWrite ==
    ASSUME Tables, AllNamed, NEW d \in Domains, NEW r \in Certs, Named(r),
           cert' = [cert EXCEPT ![d] = r]
    PROVE  CertStep
BY DEF Tables, AllNamed, CertStep

LEMMA NoWrite ==
    ASSUME Tables, AllNamed, UNCHANGED cert
    PROVE  CertStep
BY DEF Tables, AllNamed, CertStep

LEMMA UpdateStatusStep ==
    ASSUME Tables, AllNamed, NEW d \in Domains, cert[d] \in Certs,
           NEW s \in Statuses \ {"issued"}, UpdateStatus(d, s)
    PROVE  CertStep
<1> DEFINE r == [cert[d] EXCEPT !.status = s]
<1>1. r \in Certs /\ Named(r)
    BY DEF Certs, Named
<1>2. cert' = [cert EXCEPT ![d] = r]
    BY DEF UpdateStatus, Tables
<1> HIDE DEF r
<1> QED
    BY <1>1, <1>2, RowWrite

LEMMA IssuanceStep ==
    ASSUME Tables, AllNamed, NEW d \in Domains, cert[d] \in Certs,
           UpdateAfterIssuance(d)
    PROVE  CertStep
<1> DEFINE r == [cert[d] EXCEPT !.status = "issued", !.path = "acme"]
<1>1. r \in Certs /\ Named(r)
    BY DEF Certs, Named, Statuses, Paths
<1>2. cert' = [cert EXCEPT ![d] = r]
    BY DEF UpdateAfterIssuance, Tables
<1> HIDE DEF r
<1> QED
    BY <1>1, <1>2, RowWrite

LEMMA FailureStep ==
    ASSUME Tables, AllNamed, NEW d \in Domains, cert[d] \in Certs,
           NEW p \in {"none", "self"}, UpdateAfterACMEFailure(d, p)
    PROVE  CertStep
<1>1. PICK q \in Paths : q = IF p = "none" THEN cert[d].path ELSE p
    BY DEF Certs, Paths
<1> DEFINE r == [cert[d] EXCEPT !.status = "pending_acme_retry", !.tried = TRUE,
                                !.next = "later", !.path = q]
<1>2. r \in Certs /\ Named(r)
    BY DEF Certs, Named, Statuses
<1>3. cert' = [cert EXCEPT ![d] = r]
    BY <1>1 DEF UpdateAfterACMEFailure, Tables, Certs
<1> HIDE DEF r
<1> QED
    BY <1>2, <1>3, RowWrite

LEMMA RevokedStep ==
    ASSUME Tables, AllNamed, NEW d \in Domains, cert[d] \in Certs, MarkRevoked(d)
    PROVE  CertStep
<1> DEFINE r == [cert[d] EXCEPT !.status = "revoked", !.path = "none"]
<1>1. r \in Certs /\ Named(r)
    BY DEF Certs, Named, Statuses, Paths
<1>2. cert' = [cert EXCEPT ![d] = r]
    BY DEF MarkRevoked, Tables
<1> HIDE DEF r
<1> QED
    BY <1>1, <1>2, RowWrite

LEMMA PendingTyped == Pending \in Certs /\ Named(Pending)
BY DEF Pending, Certs, Named, Statuses, Paths

LEMMA ExpandStep ==
    ASSUME Tables, AllNamed, NEW d \in Domains, Expand(d)
    PROVE  CertStep
<1>1. CASE cert[d] # NoRow /\ cert[d].status = "issued"
    <2>1. cert[d] \in Certs
        BY <1>1 DEF Tables
    <2> QED
        BY <1>1, <2>1, UpdateStatusStep DEF Expand, Statuses
<1>2. CASE ~(cert[d] # NoRow /\ cert[d].status = "issued")
    BY <1>2, NoWrite DEF Expand
<1> QED
    BY <1>1, <1>2

LEMMA CountersKept ==
    ASSUME Counters, Ask \/ Fault \/ UNCHANGED bounds
    PROVE  Counters'
BY BoundsAssumption DEF Counters, Ask, Fault, bounds

LEMMA ListKept ==
    ASSUME Listed, CertStep, UNCHANGED retries
    PROVE  Listed'
BY DEF Listed, CertStep

-----------------------------------------------------------------------------
(* The copies.                                                             *)

\* One goroutine takes a step: its new copy is of the right shape, and works
\* on a row when the step it has reached does.
LEMMA WorkStep ==
    ASSUME Tables, Works, CertStep, NEW w \in Workers, NEW r \in WorkCopies,
           work' = [work EXCEPT ![w] = r],
           r.at \in RowSteps => cert'[r.d] \in Certs
    PROVE  Works'
<1>1. work' \in [Workers -> WorkCopies]
    BY DEF Works
<1>2. ASSUME NEW v \in Workers \ {w} PROVE WorkOn(v)'
    <2>1. work[v] \in WorkCopies /\ work'[v] = work[v]
        BY DEF Works
    <2>2. work[v].at \in RowSteps => work[v].d \in Domains /\ cert[work[v].d] \in Certs
        BY <2>1, WorkShape DEF Works, WorkOn, RowSteps
    <2> QED
        BY <2>1, <2>2 DEF WorkOn, CertStep
<1>3. WorkOn(w)'
    BY <1>1 DEF Works, WorkOn
<1> QED
    BY <1>1, <1>2, <1>3 DEF Works

LEMMA OthersWork ==
    ASSUME Tables, Works, CertStep, UNCHANGED work
    PROVE  Works'
<1>1. ASSUME NEW v \in Workers PROVE WorkOn(v)'
    <2>1. work[v] \in WorkCopies
        BY DEF Works
    <2>2. work[v].at \in RowSteps => work[v].d \in Domains /\ cert[work[v].d] \in Certs
        BY <2>1, WorkShape DEF Works, WorkOn, RowSteps
    <2> QED
        BY <2>1, <2>2 DEF WorkOn, CertStep
<1> QED
    BY <1>1 DEF Works

\* The request's rows stay while others write.
LEMMA ReqWaits ==
    ASSUME Tables, ReqOn, CertStep, UNCHANGED req,
           \A d \in Domains : dom[d] \in Doms => dom'[d] \in Doms
    PROVE  ReqOn'
<1>1. req # NoReq => req.d \in Domains
    BY DEF ReqOn, ReqCopies
<1> QED
    BY <1>1 DEF ReqOn, CertStep

\* Finish leaves the rows to themselves.
LEMMA FinishCopy ==
    ASSUME Works, NEW w \in Workers, work[w].at # "idle", Finish(w)
    PROVE  \E r \in WorkCopies : work' = [work EXCEPT ![w] = r] /\ r.at \notin RowSteps
<1> DEFINE r == IF After(w) = "idle" THEN Idle ELSE [work[w] EXCEPT !.at = After(w)]
<1>1. After(w) \in {"idle", "vhost", "email"}
    BY DEF After
<1>2. work[w] \in WorkCopies
    BY DEF Works
<1>3. r \in WorkCopies /\ r.at \notin RowSteps
    BY <1>1, <1>2, WorkShape DEF WorkCopies, Idle, RowSteps, Steps
<1>4. work' = [work EXCEPT ![w] = r]
    BY DEF Finish, Works
<1> QED
    BY <1>3, <1>4

LEMMA GotoCopy ==
    ASSUME Works, NEW w \in Workers, work[w].at # "idle",
           NEW step \in Steps \ {"idle"}, Goto(w, step)
    PROVE  \E r \in WorkCopies : /\ work' = [work EXCEPT ![w] = r]
                                 /\ r.at = step /\ r.d = work[w].d
<1> DEFINE r == [work[w] EXCEPT !.at = step]
<1>1. work[w] \in WorkCopies
    BY DEF Works
<1>2. r \in WorkCopies /\ r.at = step /\ r.d = work[w].d
    BY <1>1, WorkShape DEF WorkCopies
<1>3. work' = [work EXCEPT ![w] = r]
    BY DEF Goto, Works
<1> QED
    BY <1>2, <1>3

-----------------------------------------------------------------------------
(* The steps.                                                              *)

\* A goroutine that works on a row does not find it gone.
LEMMA WorkingOn ==
    ASSUME IInv, NEW w \in Workers
    PROVE  /\ work[w] \in WorkCopies
           /\ work[w].at # "idle" => work[w].d \in Domains
           /\ work[w].at \in RowSteps => cert[work[w].d] \in Certs
BY WorkShape DEF IInv, Works, WorkOn

\* What a step of a goroutine leaves alone, and what it owes.
LEMMA WorkerKeeps ==
    ASSUME IInv, UNCHANGED <<dom, req, retries>>, CertStep, Works',
           ca' \in [Domains -> {"none", "valid", "revoked"}],
           site' \in [Domains -> {"down", "http", "self", "acme"}],
           Ask \/ Fault \/ UNCHANGED bounds
    PROVE  IInv'
<1>1. Counters'
    BY CountersKept DEF IInv
<1>2. Tables'
    BY DEF IInv, Tables, CertStep
<1>3. ReqOn' /\ Listed'
    BY ReqWaits, ListKept DEF IInv
<1> QED
    BY <1>1, <1>2, <1>3 DEF IInv, CertStep

LEMMA WorkerIInv ==
    ASSUME IInv, NEW w \in Workers, Worker(w)
    PROVE  IInv'
<1>0. /\ Tables /\ AllNamed /\ Works
      /\ ca \in [Domains -> {"none", "valid", "revoked"}]
      /\ site \in [Domains -> {"down", "http", "self", "acme"}]
    BY DEF IInv, Tables
<1>w. /\ work[w] \in WorkCopies
      /\ work[w].at # "idle" => work[w].d \in Domains
      /\ work[w].at \in RowSteps => cert[work[w].d] \in Certs
    BY WorkingOn
<1>n. UNCHANGED cert => CertStep
    BY <1>0, NoWrite
<1>a. \A x \in {"valid", "revoked"} :
        [ca EXCEPT ![work[w].d] = x] \in [Domains -> {"none", "valid", "revoked"}]
    BY <1>0
<1>f. work[w].at # "idle" /\ Finish(w) /\ CertStep => Works'
    BY <1>0, FinishCopy, WorkStep
<1>g. ASSUME NEW step \in RowSteps, Goto(w, step), UNCHANGED cert,
             work[w].at \in RowSteps
      PROVE  Works'
    <2>1. step \in Steps \ {"idle"} /\ work[w].at # "idle"
        BY <1>g DEF RowSteps, Steps
    <2>2. PICK r \in WorkCopies : work' = [work EXCEPT ![w] = r] /\ r.d = work[w].d
        BY <1>0, <1>g, <2>1, GotoCopy
    <2> QED
        BY <1>0, <1>g, <1>n, <1>w, <2>2, WorkStep
<1>1. CASE reconcileSSLForDomain(w)
    <2> DEFINE d == work[w].d
               step == Choice(work[w].dom.ssl, cert[d])
    <2>1. /\ work[w].at = "decide" /\ d \in Domains
          /\ UNCHANGED <<dom, cert, ca, site, req, bounds, retries>>
        BY <1>1, <1>w DEF reconcileSSLForDomain
    <2>2. CASE step = "skip"
        <3>1. Finish(w)
            BY <1>1, <2>2 DEF reconcileSSLForDomain
        <3> QED
            BY <1>0, <1>f, <1>n, <2>1, <3>1, WorkerKeeps
    <2>3. CASE step # "skip"
        <3>1. /\ step \in {"create", "issue", "renew", "revoke"}
              /\ step # "create" => cert[d] # NoRow
            BY <2>3 DEF Choice
        <3>2. step # "create" => cert[d] \in Certs
            BY <1>0, <2>1, <3>1 DEF Tables
        <3>3. PathOf(cert[d]) \in Paths
            BY <1>0, <2>1 DEF PathOf, Tables, Certs, Paths
        <3> DEFINE r == [work[w] EXCEPT !.path = PathOf(cert[d]), !.at = step]
        <3> HIDE DEF step
        <3>4. r \in WorkCopies /\ r.at = step /\ r.d = d
            BY <1>w, <2>1, <3>1, <3>3, WorkShape DEF WorkCopies, Steps
        <3>5. work' = [work EXCEPT ![w] = r]
            BY <1>0, <1>1, <2>3 DEF reconcileSSLForDomain, Works, step
        <3> HIDE DEF r
        <3>6. Works'
            BY <1>0, <1>n, <2>1, <3>1, <3>2, <3>4, <3>5, WorkStep DEF RowSteps
        <3> QED
            BY <1>0, <1>n, <2>1, <3>6, WorkerKeeps
    <2> QED
        BY <2>2, <2>3
<1>2. CASE CreateRow(w)
    <2> DEFINE d == work[w].d
    <2>1. /\ work[w].at = "create" /\ d \in Domains
          /\ UNCHANGED <<dom, ca, site, req, bounds, retries>>
        BY <1>2, <1>w DEF CreateRow
    <2>2. CASE /\ cert' = [cert EXCEPT ![d] = Pending]
               /\ work' = [work EXCEPT ![w].at = "issue", ![w].path = "none"]
        <3> DEFINE r == [work[w] EXCEPT !.at = "issue", !.path = "none"]
        <3>1. r \in WorkCopies /\ r.d = d
            BY <1>w, <2>1, WorkShape DEF WorkCopies, Steps, Paths
        <3>2. work' = [work EXCEPT ![w] = r]
            BY <1>0, <2>2 DEF Works
        <3> HIDE DEF r
        <3>3. CertStep /\ cert'[d] \in Certs
            BY <1>0, <2>1, <2>2, PendingTyped, RowWrite DEF Tables
        <3>4. Works'
            BY <1>0, <3>1, <3>2, <3>3, WorkStep
        <3> QED
            BY <1>0, <2>1, <3>3, <3>4, WorkerKeeps
    <2>3. CASE Finish(w) /\ UNCHANGED cert
        BY <1>0, <1>f, <1>n, <2>1, <2>3, WorkerKeeps
    <2> QED
        BY <1>2, <2>2, <2>3 DEF CreateRow
<1>3. CASE Issued(w) \/ IssueFails(w) \/ Unparseable(w)
    <2>1. /\ work[w].at \in {"issue", "renew"}
          /\ UNCHANGED <<dom, cert, site, req, retries>>
          /\ Fault \/ UNCHANGED bounds
          /\ ca' \in {ca, [ca EXCEPT ![work[w].d] = "valid"]}
          /\ \E step \in {"writeIssued", "selfsign", "writeRetry", "writeFailed"} : Goto(w, step)
        BY <1>3 DEF Issued, IssueFails, Unparseable
    <2>2. Works'
        BY <1>g, <2>1 DEF RowSteps
    <2> QED
        BY <1>0, <1>a, <1>n, <2>1, <2>2, WorkerKeeps
<1>4. CASE SelfSigned(w)
    <2> DEFINE r == [work[w] EXCEPT !.at = "writeRetry", !.fallback = "self"]
    <2>1. work[w].at = "selfsign" /\ UNCHANGED <<dom, cert, ca, site, req, bounds, retries>>
        BY <1>4 DEF SelfSigned
    <2>2. r \in WorkCopies /\ r.d = work[w].d
        BY <1>w, <2>1, WorkShape DEF WorkCopies, Steps
    <2>3. work' = [work EXCEPT ![w] = r]
        BY <1>0, <1>4 DEF SelfSigned, Works
    <2> HIDE DEF r
    <2>4. Works'
        BY <1>0, <1>n, <1>w, <2>1, <2>2, <2>3, WorkStep DEF RowSteps
    <2> QED
        BY <1>0, <1>n, <2>1, <2>4, WorkerKeeps
<1>5. CASE \/ SelfSignFails(w) \/ Reissue(w) \/ Renewed(w) \/ RenewFails(w)
           \/ RevokeFails(w)
    <2>1. /\ work[w].at \in {"selfsign", "renew", "revoke"}
          /\ UNCHANGED <<dom, cert, ca, site, req, retries>>
          /\ Fault \/ UNCHANGED bounds
          /\ \E step \in {"writeRetry", "issue", "writeIssued", "writeFailed"} : Goto(w, step)
        BY <1>5 DEF SelfSignFails, Reissue, Renewed, RenewFails, RevokeFails
    <2>2. Works'
        BY <1>g, <2>1 DEF RowSteps
    <2> QED
        BY <1>0, <1>n, <2>1, <2>2, WorkerKeeps
<1>6. CASE Revoked(w)
    <2>1. /\ work[w].at = "revoke" /\ Goto(w, "markRevoked")
          /\ ca' = [ca EXCEPT ![work[w].d] = "revoked"]
          /\ UNCHANGED <<dom, cert, site, req, bounds, retries>>
        BY <1>6 DEF Revoked
    <2>2. Works'
        BY <1>g, <2>1 DEF RowSteps
    <2> QED
        BY <1>0, <1>a, <1>n, <2>1, <2>2, WorkerKeeps
<1>7. CASE Write(w)
    <2> DEFINE d == work[w].d
    <2>1. /\ work[w].at \in {"writeIssued", "writeRetry", "writeFailed", "markRevoked"}
          /\ Finish(w) /\ UNCHANGED <<dom, ca, site, req, bounds, retries>>
          /\ \/ UpdateAfterIssuance(d) \/ UpdateAfterACMEFailure(d, work[w].fallback)
             \/ UpdateStatus(d, "failed") \/ MarkRevoked(d)
        BY <1>7 DEF Write
    <2>2. d \in Domains /\ cert[d] \in Certs /\ work[w].fallback \in {"none", "self"}
        BY <1>w, <2>1, WorkShape DEF RowSteps
    <2>3. CertStep
        <3> HIDE DEF d
        <3>1. "failed" \in Statuses \ {"issued"}
            BY DEF Statuses
        <3> QED
            BY <1>0, <2>1, <2>2, <3>1, UpdateStatusStep, IssuanceStep, FailureStep, RevokedStep
    <2>4. Works'
        BY <1>f, <2>1, <2>3
    <2> QED
        BY <1>0, <2>1, <2>3, <2>4, WorkerKeeps
<1> QED
    BY <1>1, <1>2, <1>3, <1>4, <1>5, <1>6, <1>7 DEF Worker

LEMMA InlineTimesOutIInv == IInv /\ InlineTimesOut => IInv'
<1> SUFFICES ASSUME IInv, InlineTimesOut PROVE IInv'
    OBVIOUS
<1>1. /\ "inline" \in Workers /\ work["inline"].at # "idle" /\ Finish("inline") /\ Fault
      /\ UNCHANGED <<dom, cert, site, req, retries>>
      /\ ca' \in {ca, [ca EXCEPT ![work["inline"].d] = "valid"]}
    BY DEF InlineTimesOut, Workers
<1>2. Tables /\ AllNamed /\ Works
    BY DEF IInv
<1>3. CertStep
    BY <1>1, <1>2, NoWrite
<1>4. Works'
    BY <1>1, <1>2, <1>3, FinishCopy, WorkStep
<1>5. /\ ca' \in [Domains -> {"none", "valid", "revoked"}]
      /\ site' \in [Domains -> {"down", "http", "self", "acme"}]
    BY <1>1, <1>2 DEF Tables
<1> QED
    BY <1>1, <1>3, <1>4, <1>5, WorkerKeeps

LEMMA VhostIInv == IInv /\ (createDomainOnAgent \/ InlineEmail) => IInv'
<1> SUFFICES ASSUME IInv, createDomainOnAgent \/ InlineEmail PROVE IInv'
    OBVIOUS
<1>0. Tables /\ AllNamed /\ Works
    BY DEF IInv
<1>1. PICK w \in Workers : /\ work[w].at \in {"vhost", "email"}
                           /\ work' = [work EXCEPT ![w] = Idle]
    BY DEF createDomainOnAgent, InlineEmail, Workers
<1>i. Idle \in WorkCopies /\ Idle.at \notin RowSteps
    BY DEF WorkCopies, Idle, RowSteps
<1>2. CertStep => Works'
    BY <1>0, <1>1, <1>i, WorkStep
<1>3. CASE createDomainOnAgent
    <2> DEFINE d == work["loop"].d
    <2>1. d \in Domains
        BY <1>3, WorkingOn DEF createDomainOnAgent, Workers
    <2>2. Written(d) \in {"down", "http", "self", "acme"}
        <3>1. cert[d] = NoRow \/ cert[d] \in Certs
            BY <1>0, <2>1 DEF Tables
        <3>2. VhostCert(cert[d]) \in {"http", "self", "acme"}
            BY <3>1 DEF VhostCert, Certs, Paths
        <3> QED
            BY <3>2 DEF Written
    <2>3. /\ UNCHANGED <<dom, cert, ca, req, retries>>
          /\ Fault \/ UNCHANGED bounds
          /\ site' = [site EXCEPT ![d] = Written(d)] \/ UNCHANGED site
        BY <1>3 DEF createDomainOnAgent
    <2>4. /\ site' \in [Domains -> {"down", "http", "self", "acme"}]
          /\ ca' \in [Domains -> {"none", "valid", "revoked"}]
        BY <1>0, <2>2, <2>3 DEF Tables
    <2> QED
        BY <1>0, <1>2, <2>3, <2>4, NoWrite, WorkerKeeps
<1>4. CASE InlineEmail
    <2>1. /\ UNCHANGED <<dom, ca, site, req, retries>>
          /\ Fault \/ UNCHANGED bounds
          /\ Expand(work["inline"].d) \/ UNCHANGED cert
        BY <1>4 DEF InlineEmail
    <2>2. work["inline"].d \in Domains
        BY <1>4, WorkingOn DEF InlineEmail, Workers
    <2>3. CertStep
        BY <1>0, <2>1, <2>2, NoWrite, ExpandStep
    <2> QED
        BY <1>0, <1>2, <2>1, <2>3, WorkerKeeps DEF Tables
<1> QED
    BY <1>3, <1>4

\* The loop takes a row: of a domain it visits, or of the retry ticker's list,
\* which holds the path as it was when the list was read.
LEMMA LoopTakes ==
    ASSUME IInv, NEW d \in Domains, LoopVisits(d) \/ LoopRetries(d)
    PROVE  IInv'
<1>0. Tables /\ AllNamed /\ Works /\ Listed /\ UNCHANGED <<dom, cert, ca, site, req, bounds>>
    BY DEF IInv, LoopVisits, LoopRetries
<1>1. PICK step \in {"decide", "issue"}, path \in Paths, ticker \in BOOLEAN :
         /\ work' = [work EXCEPT !["loop"] = Take(d, step, path, ticker)]
         /\ step = "issue" => cert[d] \in Certs
    <2>1. CASE LoopVisits(d)
        <3>1. PathOf(cert[d]) \in Paths
            BY <1>0 DEF PathOf, Certs, Paths, Tables
        <3> QED
            BY <2>1, <3>1 DEF LoopVisits
    <2>2. CASE LoopRetries(d)
        <3>1. retries[d] \in Paths /\ cert[d] \in Certs
            BY <1>0, <2>2 DEF LoopRetries, Listed
        <3> QED
            BY <2>2, <3>1 DEF LoopRetries
    <2> QED
        BY <2>1, <2>2
<1>2. /\ Take(d, step, path, ticker) \in WorkCopies
      /\ Take(d, step, path, ticker).at = step /\ Take(d, step, path, ticker).d = d
    <2>1. dom[d] \in {NoRow} \union Doms
        BY <1>0 DEF Tables
    <2> QED
        BY <2>1 DEF Take, WorkCopies, Steps
<1>3. CertStep
    BY <1>0, NoWrite
<1>4. Works'
    BY <1>0, <1>1, <1>2, <1>3, WorkStep DEF RowSteps, Workers
<1>5. Listed'
    <2>1. retries' = retries \/ retries' = [retries EXCEPT ![d] = "off"]
        BY DEF LoopVisits, LoopRetries
    <2> QED
        BY <1>0, <2>1 DEF Listed
<1>6. Tables' /\ Counters' /\ ReqOn'
    BY <1>0, <1>3, ReqWaits, CountersKept DEF IInv, Tables
<1> QED
    BY <1>3, <1>4, <1>5, <1>6 DEF IInv, CertStep

\* The retry ticker reads its list from the rows.
LEMMA ListIInv == IInv /\ ListDueForACMERetry => IInv'
<1> SUFFICES ASSUME IInv, ListDueForACMERetry PROVE IInv'
    OBVIOUS
<1>0. /\ Tables /\ AllNamed /\ Works /\ Counters /\ ReqOn
      /\ UNCHANGED <<dom, cert, ca, site, work, req, bounds>>
    BY DEF IInv, ListDueForACMERetry
<1>1. Listed'
    <2>1. PICK S \in RetryLists :
             retries' = [d \in Domains |-> IF d \in S THEN cert[d].path ELSE "off"]
        BY DEF ListDueForACMERetry
    <2>2. \A d \in S : d \in Domains /\ cert[d] # NoRow
        BY DEF RetryLists, DueForACMERetry
    <2>3. \A d \in S : cert[d] \in Certs /\ cert[d].path \in Paths
        BY <1>0, <2>2 DEF Tables, Certs
    <2> QED
        BY <1>0, <2>1, <2>2, <2>3 DEF Listed
<1>2. CertStep
    BY <1>0, NoWrite
<1>3. Works' /\ ReqOn' /\ Tables' /\ Counters'
    BY <1>0, <1>2, OthersWork, ReqWaits, CountersKept DEF Tables
<1> QED
    BY <1>1, <1>2, <1>3 DEF IInv, CertStep

\* Three hours pass for one row.
LEMMA TimeIInv ==
    ASSUME IInv, NEW d \in Domains, RetryTimePasses(d)
    PROVE  IInv'
<1>0. Tables /\ AllNamed /\ Works /\ UNCHANGED <<dom, ca, site, req, bounds, retries>>
    BY DEF IInv, RetryTimePasses
<1>1. cert[d] = NoRow \/ cert[d] \in Certs
    BY <1>0 DEF Tables
<1> DEFINE r == [cert[d] EXCEPT !.next = "due"]
<1>2. cert[d] \in Certs /\ cert[d] # NoRow /\ UNCHANGED work
    BY <1>1 DEF RetryTimePasses
<1>3. r \in Certs /\ Named(r)
    BY <1>0, <1>2 DEF Certs, Named, AllNamed
<1>4. cert' = [cert EXCEPT ![d] = r]
    BY <1>0 DEF RetryTimePasses, Tables
<1> HIDE DEF r
<1>5. CertStep
    BY <1>0, <1>3, <1>4, RowWrite
<1>6. Works'
    BY <1>0, <1>2, <1>5, OthersWork
<1> QED
    BY <1>0, <1>5, <1>6, WorkerKeeps DEF Tables

LEMMA CreateIInv ==
    ASSUME IInv, NEW d \in Domains, create(d)
    PROVE  IInv'
<1>0. Tables /\ AllNamed /\ Works /\ Counters /\ ReqOn /\ Listed
    BY DEF IInv
<1> DEFINE new == [ssl |-> TRUE, san |-> TRUE]
           r == [at |-> IF cert[d] = NoRow THEN "create" ELSE "issue",
                 d |-> d, dom |-> dom'[d], path |-> PathOf(cert[d]),
                 fallback |-> "none", ticker |-> FALSE]
<1>1. /\ Ask /\ dom' = [dom EXCEPT ![d] = new]
      /\ work' = [work EXCEPT !["inline"] = r]
      /\ UNCHANGED <<cert, ca, site, req, retries>>
    BY DEF create
<1>2. new \in Doms
    BY DEF Doms
<1>3. cert[d] = NoRow \/ cert[d] \in Certs
    BY <1>0 DEF Tables
<1>4. PathOf(cert[d]) \in Paths /\ dom'[d] = new
    BY <1>0, <1>1, <1>3 DEF PathOf, Certs, Paths, Tables
<1>5. /\ r \in WorkCopies /\ r.d = d
      /\ r.at = IF cert[d] = NoRow THEN "create" ELSE "issue"
    BY <1>2, <1>4 DEF WorkCopies, Steps
<1> HIDE DEF r, new
<1>6. CertStep
    BY <1>0, <1>1, NoWrite
<1>7. Works'
    BY <1>0, <1>1, <1>3, <1>5, <1>6, WorkStep DEF RowSteps, Workers
<1>8. Tables'
    BY <1>0, <1>1, <1>2 DEF Tables
<1>9. ReqOn'
    <2>1. \A e \in Domains : dom[e] \in Doms => dom'[e] \in Doms
        BY <1>0, <1>1, <1>2 DEF Tables
    <2> QED
        BY <1>0, <1>1, <1>6, <2>1, ReqWaits
<1> QED
    BY <1>0, <1>1, <1>6, <1>7, <1>8, <1>9, CountersKept, ListKept DEF IInv, CertStep

\* A request reads, then writes the domain's row, a status it has read or the
\* certificate's row.
LEMMA BeginIInv ==
    ASSUME IInv, NEW d \in Domains, NEW op \in Ops, Begin(op, d)
    PROVE  IInv'
<1>0. Tables /\ AllNamed /\ Works /\ Counters /\ Listed
    BY DEF IInv
<1> DEFINE r == [at |-> IF op = "retry" THEN "status"
                        ELSE IF op = "renew" THEN "cert" ELSE "row",
                 op |-> op, d |-> d, ssl |-> dom[d].ssl, had |-> cert[d] # NoRow,
                 status |-> IF op = "retry" THEN cert[d].status ELSE "pending"]
<1>1. /\ Ask /\ req' = r /\ UNCHANGED <<dom, cert, ca, site, work, retries>>
      /\ op \in {"renew", "retry"} => cert[d] # NoRow
      /\ op = "retry" => cert[d].status \in {"failed", "pending_acme_retry"}
    BY DEF Begin
<1>2. dom[d] \in Doms /\ (cert[d] # NoRow => cert[d] \in Certs)
    BY <1>0 DEF Begin, Tables
<1>3. dom[d].ssl \in BOOLEAN
    BY <1>2 DEF Doms
<1>4. /\ r \in ReqCopies /\ r.d = d /\ r.op = op
      /\ r.at = IF op = "retry" THEN "status" ELSE IF op = "renew" THEN "cert" ELSE "row"
      /\ r.had => cert[d] # NoRow
    BY <1>1, <1>3 DEF ReqCopies, Statuses
<1> HIDE DEF r
<1>5. ReqOn'
    BY <1>1, <1>2, <1>4 DEF ReqOn
<1>6. CertStep
    BY <1>0, <1>1, NoWrite
<1>7. Works' /\ Tables' /\ Counters' /\ Listed'
    BY <1>0, <1>1, <1>6, OthersWork, CountersKept, ListKept DEF Tables
<1> QED
    BY <1>5, <1>6, <1>7 DEF IInv, CertStep

LEMMA RequestIInv == IInv /\ (WriteRow \/ WriteStatus \/ WriteCert) => IInv'
<1> SUFFICES ASSUME IInv, WriteRow \/ WriteStatus \/ WriteCert PROVE IInv'
    OBVIOUS
<1>0. Tables /\ AllNamed /\ Works /\ Counters /\ ReqOn /\ Listed
    BY DEF IInv
<1> DEFINE d == req.d
<1>1. /\ req # NoReq /\ d \in Domains /\ dom[d] \in Doms /\ req.op \in Ops
      /\ req.status \in Statuses \ {"issued"} /\ req.ssl \in BOOLEAN
      /\ req \in [at : {"row", "status", "cert"}, op : Ops, d : Domains,
                  ssl : BOOLEAN, had : BOOLEAN, status : Statuses \ {"issued"}]
    BY <1>0, ReqShape DEF WriteRow, WriteStatus, WriteCert, ReqOn, NoReq
<1>2. /\ req.at = "row" => req.op \notin {"renew", "retry"}
      /\ req.had \/ req.op \in {"renew", "retry"} => cert[d] \in Certs
      /\ req.at = "status" => req.op = "retry"
    BY <1>0, <1>1 DEF ReqOn
<1>3. CASE WriteRow
    <2>1. UNCHANGED <<cert, ca, site, work, bounds, retries>> /\ req.at = "row"
        BY <1>3 DEF WriteRow
    <2>2. dom' \in [Domains -> {NoRow} \union Doms] /\ dom'[d] \in Doms
        <3>1. PICK x \in BOOLEAN : dom' = [dom EXCEPT ![d].ssl = x] \/ dom' = [dom EXCEPT ![d].san = x]
            <4>1. req.op \in {"enable", "disable", "cliDisable", "patch", "email", "noemail"}
                BY <1>1, <1>2, <2>1 DEF Ops
            <4>2. CASE req.op = "enable"
                BY <1>3, <4>2 DEF WriteRow
            <4>3. CASE req.op \in {"disable", "cliDisable"}
                BY <1>3, <4>3 DEF WriteRow
            <4>4. CASE req.op = "patch"
                BY <1>1, <1>3, <4>4 DEF WriteRow
            <4>5. CASE req.op \in {"email", "noemail"}
                BY <1>3, <4>5 DEF WriteRow
            <4> QED
                BY <4>1, <4>2, <4>3, <4>4, <4>5
        <3>2. [dom[d] EXCEPT !.ssl = x] \in Doms /\ [dom[d] EXCEPT !.san = x] \in Doms
            BY <1>1 DEF Doms
        <3> QED
            BY <1>0, <1>1, <3>1, <3>2 DEF Tables
    <2>3. CertStep
        BY <1>0, <2>1, NoWrite
    <2>4. Works' /\ Tables' /\ Counters' /\ Listed'
        BY <1>0, <2>1, <2>2, <2>3, OthersWork, CountersKept, ListKept DEF Tables
    <2>5. ReqOn'
        <3>1. CASE req' = NoReq
            BY <3>1 DEF ReqOn, ReqCopies
        <3>2. CASE req' = [req EXCEPT !.at = "cert"]
            <4>1. /\ [req EXCEPT !.at = "cert"] \in ReqCopies
                  /\ req'.d = d /\ req'.at = "cert" /\ req'.had = req.had /\ req'.op = req.op
                BY <1>1, <3>2 DEF ReqCopies
            <4> HIDE DEF d
            <4> QED
                BY <1>2, <2>1, <2>2, <3>2, <4>1 DEF ReqOn
        <3> QED
            BY <1>3, <3>1, <3>2 DEF WriteRow
    <2> QED
        BY <2>3, <2>4, <2>5 DEF IInv, CertStep
<1>4. CASE WriteStatus
    <2>1. /\ UNCHANGED <<dom, ca, site, work, bounds, retries>> /\ req.at = "status"
          /\ UpdateStatus(d, req.status) /\ req' = [req EXCEPT !.at = "cert"]
        BY <1>4 DEF WriteStatus
    <2>2. cert[d] \in Certs
        BY <1>2, <2>1
    <2>3. CertStep
        BY <1>0, <1>1, <2>1, <2>2, UpdateStatusStep
    <2>4. Works' /\ Tables' /\ Counters' /\ Listed'
        BY <1>0, <2>1, <2>3, OthersWork, CountersKept, ListKept DEF Tables, CertStep
    <2>5. /\ [req EXCEPT !.at = "cert"] \in ReqCopies
          /\ req'.d = d /\ req'.at = "cert"
        BY <1>1, <2>1 DEF ReqCopies
    <2>6. ReqOn'
        <3> HIDE DEF d
        <3> QED
            BY <1>1, <2>1, <2>2, <2>3, <2>5 DEF ReqOn, CertStep
    <2> QED
        BY <2>3, <2>4, <2>6 DEF IInv, CertStep
<1>5. CASE WriteCert
    <2>1. req' = NoReq /\ UNCHANGED <<dom, ca, site, work, bounds, retries>>
        BY <1>5 DEF WriteCert
    <2>2. CertStep
        <3>0. {"pending", "revoked", "renewing"} \subseteq Statuses \ {"issued"}
            BY DEF Statuses
        <3>1. CASE cert' = [cert EXCEPT ![d] = IF @ = NoRow THEN Pending ELSE @]
            <4>1. CASE cert[d] = NoRow
                BY <1>0, <1>1, <3>1, <4>1, PendingTyped, RowWrite
            <4>2. CASE cert[d] # NoRow
                <5>1. UNCHANGED cert
                    BY <1>0, <3>1, <4>2 DEF Tables
                <5> QED
                    BY <1>0, <5>1, NoWrite
            <4> QED
                BY <4>1, <4>2
        <3>2. CASE \E s \in {"pending", "revoked", "renewing"} :
                      UpdateStatus(d, s) /\ cert[d] \in Certs
            BY <1>0, <1>1, <3>0, <3>2, UpdateStatusStep
        <3>3. CASE UNCHANGED cert
            BY <1>0, <3>3, NoWrite
        <3>4. CASE Expand(d)
            BY <1>0, <1>1, <3>4, ExpandStep
        <3>5. cert[d] # NoRow => cert[d] \in Certs
            BY <1>0, <1>1 DEF Tables
        <3> QED
            BY <1>2, <1>5, <3>1, <3>2, <3>3, <3>4, <3>5 DEF WriteCert
    <2>3. Works' /\ Tables' /\ Counters' /\ Listed'
        BY <1>0, <2>1, <2>2, OthersWork, CountersKept, ListKept DEF Tables, CertStep
    <2>4. ReqOn'
        BY <2>1 DEF ReqOn, ReqCopies
    <2> QED
        BY <2>2, <2>3, <2>4 DEF IInv, CertStep
<1> QED
    BY <1>3, <1>4, <1>5

LEMMA RestartIInv == IInv /\ Restart => IInv'
<1> SUFFICES ASSUME IInv, Restart PROVE IInv'
    OBVIOUS
<1>1. Tables' /\ Counters' /\ AllNamed'
    BY CountersKept DEF IInv, Restart, Tables, AllNamed
<1>2. Works' /\ ReqOn'
    BY DEF Restart, Works, WorkOn, WorkCopies, ReqOn, ReqCopies, Idle, RowSteps
<1>3. Listed'
    BY DEF Restart, Listed, NoRetries
<1> QED
    BY <1>1, <1>2, <1>3 DEF IInv

LEMMA StutterIInv == IInv /\ UNCHANGED vars => IInv'
BY DEF IInv, vars, Tables, Counters, AllNamed, Listed, Works, WorkOn, ReqOn

-----------------------------------------------------------------------------
\* The inductive invariant holds of every behaviour: rows are never removed
\* under a goroutine or a request that writes them, and issued goes with
\* certbot's path.
THEOREM Invariance == Spec => []IInv
<1>1. IInv /\ [Next]_vars => IInv'
    BY WorkerIInv, InlineTimesOutIInv, VhostIInv, LoopTakes, ListIInv, TimeIInv,
       CreateIInv, BeginIInv, RequestIInv, RestartIInv, StutterIInv DEF Next
<1> QED
    BY InitIInv, <1>1, PTL DEF Spec

\* The rows of domains and certificates, the authority and the vhosts keep
\* their types for every set of domains: no late write of the loop, the inline
\* attempt or a request falls on a row that is not there.
THEOREM TypeCorrect == Spec => []TypeOK
<1>1. IInv => TypeOK
    BY IInvTypes
<1> QED
    BY Invariance, <1>1, PTL

\* The writes of the loop, of the inline attempt, of the requests and of the
\* command line do not mix one's status with another's path: an issued row
\* names certbot's files (UpdateAfterIssuance, MarkRevoked, retrySSL).
THEOREM IssuedIsNamed == Spec => []IssuedHasItsPath
<1>1. IInv => IssuedHasItsPath
    BY IInvTypes
<1> QED
    BY Invariance, <1>1, PTL

=============================================================================
