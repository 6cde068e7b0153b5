------------------------------ MODULE AppInstalls ------------------------------
(***************************************************************************)
(* Applications installed for a user: the row of an install, the database  *)
(* provisioned for it (three panel rows and two things in MariaDB), the    *)
(* files in the document root, and everything that works on them: the      *)
(* install and clone requests with their compensation, the goroutines that *)
(* call the agent, the two ways of deleting, the databases page, the       *)
(* deletion of a domain, the scan of the home directory and the            *)
(* reconciler's sweep and drift probe.                                     *)
(***************************************************************************)
EXTENDS Naturals, Sequences, FiniteSets, SequencesExt

CONSTANTS
    Domains,      \* the user's domains
    Subs,         \* subdirectories an application may be installed in
    Root,         \* the empty subdirectory: the document root itself
    Asked,        \* the slots installs are asked for in; clones go anywhere
    Types,        \* application types; "wordpress" is one
    MaxInstalls,  \* bound: install rows ever made, by request or by scan
    MaxDeletes,   \* bound: deletes asked for, of installs, databases and domains
    MaxFaults,    \* bound: failed calls, lost answers, restarts, edits by hand
    ProbeBatch,   \* cfg.WordPress.ProbeBatch
    NoRow         \* no install row

ASSUME AppBounds ==
    /\ Root \in Subs
    /\ Asked \subseteq Domains \X Subs
    /\ "wordpress" \in Types
    /\ {MaxInstalls, MaxDeletes, MaxFaults, ProbeBatch} \subseteq Nat

Ids == 1 .. MaxInstalls
Slots == Domains \X Subs

\* models.ApplicationInstall.Status.
InProgress == {"installing", "cloning", "deleting"}
Statuses == InProgress \cup {"pending", "ready", "failed"}

\* What is provisioned for an install: three panel rows, the host's schema and
\* account. The steps that make them: "user" inserts the user's and the grant's
\* row, "account" creates the account and grants it the schema.
Parts == {"db", "user", "grant", "schema", "account"}
Chain == <<"db", "user", "schema", "account">>

MadeBy(x) == IF x = "user" THEN {"user", "grant"} ELSE {x}

\* What a failed step may leave: the user's row when the grant's is refused, the
\* effect of an agent call whose answer is lost.
LeftBy(x) == CASE x = "db" -> {{}} [] x = "user" -> {{}, {"user"}} [] OTHER -> {{}, {x}}

\* A delete's order; "user" is the grants, the account and the user's row.
CleanUp == <<"user", "row", "schema", "db">>

Deleters == {"api", "cli"}

VARIABLES
    doms,    \* the domains that have a row
    inst,    \* id -> the application_installs row, or NoRow
    parts,   \* id -> what exists of the database made for it
    files,   \* slot -> types whose files are there
    ready,   \* ids of the ready rows, oldest updated_at first
    job,     \* id -> the request, then the goroutine, that makes the install
    del,     \* id -> deleter -> its progress
    dbdel,   \* id -> progress of a delete of its database from the databases page
    pass,    \* the reconciler's pass over the installs
    asked,   \* deletes asked for so far
    adrift,  \* history: installs whose database was cut off from who kept it
    faults   \* faults so far

vars == <<doms, inst, parts, files, ready, job, del, dbdel, pass, asked, adrift, faults>>

Row == [slot: Slots, type: Types, status: Statuses, db: BOOLEAN]

ASSUME NoRowAssumption == NoRow \notin Row

NoDel == [pc |-> "idle", slot |-> <<>>, type |-> "wordpress", db |-> FALSE, user |-> FALSE]

\* The reconciler between two passes.
Resting == [pc |-> "idle", todo |-> {}]

NoJob == [pc |-> "none", clone |-> FALSE, slot |-> <<>>, type |-> "wordpress",
          src |-> <<>>, from |-> 0, todo |-> <<>>]

\* The shape of the state.
TypeOK ==
    /\ doms \subseteq Domains
    /\ inst \in [Ids -> Row \cup {NoRow}]
    /\ parts \in [Ids -> SUBSET Parts]
    /\ files \in [Slots -> SUBSET Types]
    /\ ToSet(ready) = {n \in Ids : inst[n] # NoRow /\ inst[n].status = "ready"}
    /\ \A n \in Ids :
          /\ job[n].pc \in {"none", "chain", "undo", "insert", "mark", "lookup",
                            "agent", "ready", "failed", "over"}
          /\ ToSet(job[n].todo) \subseteq ToSet(Chain)
          /\ \A w \in Deleters :
                del[n][w].pc \in {"idle", "resolve", "mark", "agent"}
                                    \cup ToSet(CleanUp)
          /\ dbdel[n] \in {"idle", "grant", "schema", "db"}
    /\ pass.todo \subseteq Ids
    /\ asked \in 0 .. MaxDeletes
    /\ adrift \subseteq Ids
    /\ faults \in 0 .. MaxFaults

Init ==
    /\ doms = Domains
    /\ inst = [n \in Ids |-> NoRow]
    /\ parts = [n \in Ids |-> {}]
    /\ files = [s \in Slots |-> {}]
    /\ ready = <<>>
    /\ job = [n \in Ids |-> NoJob]
    /\ del = [n \in Ids |-> [w \in Deleters |-> NoDel]]
    /\ dbdel = [n \in Ids |-> "idle"]
    /\ pass = Resting
    /\ asked = 0
    /\ adrift = {}
    /\ faults = 0

--------------------------------------------------------------------------------
\* A call that fails, an answer that is lost, a restart, an edit by hand.
Fault == faults < MaxFaults /\ faults' = faults + 1

Without(n) ==
    IF n \in ToSet(ready)
    THEN RemoveAt(ready, CHOOSE i \in DOMAIN ready : ready[i] = n)
    ELSE ready

\* The ready rows that are not in S, in their order.
WithoutAll(S) ==
    {q \in SeqOf(ToSet(ready) \ S, Len(ready)) :
        /\ ToSet(q) = ToSet(ready) \ S
        /\ \A i, k \in DOMAIN q : i < k =>
              \E a, b \in DOMAIN ready : a < b /\ ready[a] = q[i] /\ ready[b] = q[k]}

\* Create: refused by the unique key on (domain, subdirectory, app_type), and by
\* the foreign keys when the domain's row or the named database's row is gone.
CanInsert(n, s, t, db) ==
    /\ s[1] \in doms
    /\ \A m \in Ids : inst[m] # NoRow => <<inst[m].slot, inst[m].type>> # <<s, t>>
    /\ db => "db" \in parts[n]

Insert(n, s, t, status, db) ==
    /\ inst' = [inst EXCEPT ![n] = [slot |-> s, type |-> t, status |-> status, db |-> db]]
    /\ ready' = IF status = "ready" THEN Append(ready, n) ELSE ready

\* UpdateStatus: a row that is gone is no error; updated_at is renewed.
UpdateStatus(n, status) ==
    IF inst[n] = NoRow
    THEN UNCHANGED <<inst, ready>>
    ELSE /\ inst' = [inst EXCEPT ![n].status = status]
         /\ ready' = IF status = "ready" THEN Append(Without(n), n) ELSE Without(n)

DeleteRow(n) ==
    /\ inst' = [inst EXCEPT ![n] = NoRow]
    /\ ready' = Without(n)

\* Removing one part; the rows' foreign keys cascade (migration 000107): the
\* database's to its grants and its install row, the user's to its grants.
RemovePart(n, x) ==
    /\ parts' = [parts EXCEPT ![n] = @ \ (CASE x = "db" -> {"db", "grant"}
                                            [] x = "user" -> {"user", "grant"}
                                            [] OTHER -> {x})]
    /\ IF x = "db" /\ inst[n] # NoRow /\ inst[n].db
       THEN DeleteRow(n)
       ELSE UNCHANGED <<inst, ready>>

--------------------------------------------------------------------------------
\* The request.

FreshId(n) ==
    /\ job[n].pc = "none"
    /\ \A m \in 1 .. n - 1 : job[m].pc # "none"

SlotFree(s) == \A m \in Ids : inst[m] # NoRow => inst[m].slot # s

\* InstallApplication up to provisionDBChain: any row in the slot refuses it.
RequestInstall(n, s, t) ==
    /\ FreshId(n)
    /\ s[1] \in doms
    /\ SlotFree(s)
    /\ job' = [job EXCEPT ![n] = [NoJob EXCEPT !.pc = "chain", !.slot = s,
                                               !.type = t, !.todo = Chain]]
    /\ UNCHANGED <<doms, inst, parts, files, ready, del, dbdel, pass, asked, adrift, faults>>

\* wordPressHandler.clone: the source's subdirectory on another domain, always
\* as WordPress whatever the source is.
RequestClone(n, m, d) ==
    /\ FreshId(n)
    /\ inst[m] # NoRow
    /\ d \in doms
    /\ SlotFree(<<d, inst[m].slot[2]>>)
    /\ job' = [job EXCEPT ![n] = [NoJob EXCEPT !.pc = "chain", !.clone = TRUE,
                                               !.slot = <<d, inst[m].slot[2]>>,
                                               !.src = inst[m].slot[1],
                                               !.todo = Chain]]
    /\ UNCHANGED <<doms, inst, parts, files, ready, del, dbdel, pass, asked, adrift, faults>>

\* The request or the goroutine has come to its end.
Over(n) == job' = [job EXCEPT ![n] = [NoJob EXCEPT !.pc = "over"]]

\* Mutant: a refused row does not give its database up.
Undo_Kept(clone, x) ==
    CASE x = "db" -> {<<>>} [] x = "user" -> {<<"user", "db">>}
      [] OTHER    -> {<<"account", "schema", "user">>}

\* What a request undoes, in order, when the step that makes x fails:
\* provisionDBChain and rollbackDBChain for an install. The clone handler drops of
\* the host's only what it knows to have been made, which depends on the call that
\* failed, and nothing of it when its row is refused.
Undo(clone, x) ==
    LET rows == <<"user", "db">>
        all  == <<"account", "schema">> \o rows
    IN  CASE x = "db"   -> {<<>>}
          [] x = "user" -> {rows}
          [] x \notin {"db", "user"} /\ ~ clone -> {all}
          [] x = "account" /\ clone -> {<<"schema">> \o rows, all}
          [] OTHER      -> {rows}

GoUndo(n, x) ==
    \E list \in Undo(job[n].clone, x) :
        IF list = <<>>
        THEN Over(n)
        ELSE job' = [job EXCEPT ![n].pc = "undo", ![n].todo = list]

\* One step of the chain. The grant's foreign key needs the database's row.
ChainStep(n) ==
    /\ job[n].pc = "chain"
    /\ LET x == Head(job[n].todo)
           possible == x = "user" => "db" \in parts[n]
           Add(new) == parts' = [parts EXCEPT ![n] = @ \cup new]
       IN  \/ /\ possible
              /\ Add(MadeBy(x))
              /\ job' = [job EXCEPT ![n].todo = Tail(@),
                                    ![n].pc = IF Len(job[n].todo) = 1 THEN "insert" ELSE @]
              /\ UNCHANGED faults
           \/ /\ \/ ~ possible /\ Add({"user"}) /\ UNCHANGED faults
                 \/ Fault /\ \E left \in LeftBy(x) : Add(left)
              /\ GoUndo(n, x)
    /\ UNCHANGED <<doms, inst, files, ready, del, dbdel, pass, asked, adrift>>

\* One step of the compensation, every one best effort.
UndoStep(n) ==
    /\ job[n].pc = "undo"
    /\ LET x == Head(job[n].todo)
       IN  \/ RemovePart(n, x) /\ UNCHANGED <<adrift, faults>>
           \/ /\ Fault
              /\ adrift' = IF x = "db" THEN adrift \cup {n} ELSE adrift
              /\ UNCHANGED <<inst, ready, parts>>
    /\ IF Len(job[n].todo) = 1
       THEN Over(n)
       ELSE job' = [job EXCEPT ![n].todo = Tail(@)]
    /\ UNCHANGED <<doms, files, del, dbdel, pass, asked>>

\* The install row, then the goroutine; refused or failed, the compensation.
InsertRow(n) ==
    /\ job[n].pc = "insert"
    /\ LET j == job[n]
       IN  \/ /\ CanInsert(n, j.slot, j.type, TRUE)
              /\ Insert(n, j.slot, j.type, IF j.clone THEN "cloning" ELSE "pending", TRUE)
              /\ job' = [job EXCEPT ![n].pc = IF j.clone THEN "lookup" ELSE "mark"]
              /\ UNCHANGED faults
           \/ /\ \/ ~ CanInsert(n, j.slot, j.type, TRUE) /\ UNCHANGED faults
                 \/ Fault
              /\ GoUndo(n, "row")
              /\ UNCHANGED <<inst, ready>>
    /\ UNCHANGED <<doms, parts, files, del, dbdel, pass, asked, adrift>>

\* The caller went away: every later call of the handler, its compensation too,
\* fails on the cancelled context.
HandlerGone(n) ==
    /\ job[n].pc \in {"chain", "undo", "insert"}
    /\ Fault
    /\ Over(n)
    /\ adrift' = adrift \cup {n}
    /\ UNCHANGED <<doms, inst, parts, files, ready, del, dbdel, pass, asked>>

--------------------------------------------------------------------------------
\* The goroutine of an install: createInstallAndKickAgent and its six siblings.

Mark(n) ==
    /\ job[n].pc = "mark"
    /\ \/ /\ UpdateStatus(n, "installing")
          /\ job' = [job EXCEPT ![n].pc = "agent"]
          /\ UNCHANGED faults
       \/ /\ Fault
          /\ Over(n)
          /\ UNCHANGED <<inst, ready>>
    /\ UNCHANGED <<doms, parts, files, del, dbdel, pass, asked, adrift>>

\* Mutant: a status the panel does not know.
After_Done(n, ok) ==
    job' = [job EXCEPT ![n] = [NoJob EXCEPT !.pc = IF ok THEN "done" ELSE "failed"]]

\* How a goroutine goes on after an agent call: the answer decides the status it
\* writes next; when its five minutes are over it writes nothing any more.
After(n, ok) ==
    job' = [job EXCEPT ![n] = [NoJob EXCEPT !.pc = IF ok THEN "ready" ELSE "failed"]]

\* app.install: it clears the slot of its type, needs the database, and puts the
\* files there or clears them again.
AgentInstall(n) ==
    /\ job[n].pc = "agent" /\ ~ job[n].clone
    /\ LET s == job[n].slot
           with == [files EXCEPT ![s] = @ \cup {job[n].type}]
           none == [files EXCEPT ![s] = @ \ {job[n].type}]
           possible == {"schema", "account"} \subseteq parts[n]
       IN  \/ possible /\ files' = with /\ After(n, TRUE) /\ UNCHANGED faults
           \/ ~ possible /\ files' = none /\ After(n, FALSE) /\ UNCHANGED faults
           \/ /\ Fault
              /\ files' \in {files, with, none}
              /\ After(n, FALSE) \/ Over(n)
    /\ UNCHANGED <<doms, inst, parts, ready, del, dbdel, pass, asked, adrift>>

\* createCloneAndKickAgent up to the agent call: both domains, the rows of the new
\* database, then the source looked up again, by place, with its database.
CloneLookup(n) ==
    /\ job[n].pc = "lookup"
    /\ LET from == {m \in Ids : /\ inst[m] # NoRow
                                /\ inst[m].slot = <<job[n].src, job[n].slot[2]>>}
           found(m) == /\ {job[n].src, job[n].slot[1]} \subseteq doms
                       /\ {"db", "user", "grant", "account"} \subseteq parts[n]
                       /\ inst[m].db
                       /\ "db" \in parts[m]
       IN  \/ /\ \E m \in from : /\ found(m)
                                 /\ job' = [job EXCEPT ![n].pc = "agent", ![n].from = m]
              /\ UNCHANGED faults
           \/ /\ \/ (from = {} \/ \E m \in from : ~ found(m)) /\ UNCHANGED faults
                 \/ Fault
              /\ After(n, FALSE)
    /\ UNCHANGED <<doms, inst, parts, files, ready, del, dbdel, pass, asked, adrift>>

\* rsync -a --delete of the source's document root: to a document root with
\* everything under it, to a subdirectory otherwise.
Rsync(src, dst) ==
    IF dst[2] = Root
    THEN [s \in Slots |-> IF s[1] = dst[1] THEN files[<<src, s[2]>>] ELSE files[s]]
    ELSE [files EXCEPT ![dst] = files[<<src, Root>>]]

\* app.clone: the files, then the dump, then wp on what has arrived. The
\* app.delete that follows a failure names no user and is refused.
AgentClone(n) ==
    /\ job[n].pc = "agent" /\ job[n].clone
    /\ LET copied == Rsync(job[n].src, job[n].slot)
           possible == /\ "schema" \in parts[job[n].from]
                       /\ "schema" \in parts[n]
                       /\ "wordpress" \in copied[job[n].slot]
       IN  \/ files' = copied /\ After(n, possible) /\ UNCHANGED faults
           \/ /\ Fault
              /\ files' \in {files, copied}
              /\ After(n, FALSE) \/ Over(n)
    /\ UNCHANGED <<doms, inst, parts, ready, del, dbdel, pass, asked, adrift>>

\* The last write of the goroutine.
WriteStatus(n) ==
    /\ job[n].pc \in {"ready", "failed"}
    /\ \/ UpdateStatus(n, job[n].pc) /\ UNCHANGED faults
       \/ Fault /\ UNCHANGED <<inst, ready>>
    /\ Over(n)
    /\ UNCHANGED <<doms, parts, files, del, dbdel, pass, asked, adrift>>

\* scan: files that no row of their type and place stands for become a ready row
\* without a database.
Scan(n, s, t) ==
    /\ FreshId(n)
    /\ t \in files[s]
    /\ CanInsert(n, s, t, FALSE)
    /\ Insert(n, s, t, "ready", FALSE)
    /\ Over(n)
    /\ UNCHANGED <<doms, parts, files, del, dbdel, pass, asked, adrift, faults>>

--------------------------------------------------------------------------------
\* Deleting an install, over the API (the handler, then its goroutine) or with
\* the command line; neither looks at the row's status.

Ask == asked < MaxDeletes /\ asked' = asked + 1

\* What a delete keeps of the row it read. The database user is found through
\* the grants of the install's database.
Deleting(n, pc) ==
    [pc |-> pc, slot |-> inst[n].slot, type |-> inst[n].type, db |-> inst[n].db,
     user |-> inst[n].db /\ "grant" \in parts[n]]

\* The handler marks the row and looks up what the goroutine will need; a lookup
\* that fails answers 500 and leaves the row deleting.
ApiDelete(n) ==
    /\ inst[n] # NoRow /\ del[n]["api"] = NoDel
    /\ Ask
    /\ UpdateStatus(n, "deleting")
    /\ del' = [del EXCEPT ![n]["api"] = [Deleting(n, "resolve") EXCEPT !.user = FALSE]]
    /\ UNCHANGED <<doms, parts, files, job, dbdel, pass, adrift, faults>>

ApiResolve(n) ==
    /\ del[n]["api"].pc = "resolve"
    /\ LET d == del[n]["api"]
           found == [d EXCEPT !.pc = "agent", !.user = d.db /\ "grant" \in parts[n]]
       IN  \/ /\ d.slot[1] \in doms
              /\ del' = [del EXCEPT ![n]["api"] = found]
              /\ UNCHANGED faults
           \/ /\ (d.slot[1] \notin doms /\ UNCHANGED faults) \/ Fault
              /\ del' = [del EXCEPT ![n]["api"] = NoDel]
    /\ UNCHANGED <<doms, inst, parts, files, ready, job, dbdel, pass, asked, adrift>>

\* deleteAppDirect resolves first and marks then.
CliDelete(n) ==
    /\ inst[n] # NoRow /\ del[n]["cli"] = NoDel
    /\ Ask
    /\ del' = [del EXCEPT ![n]["cli"] = Deleting(n, "mark")]
    /\ UNCHANGED <<doms, inst, parts, files, ready, job, dbdel, pass, adrift, faults>>

CliMark(n) ==
    /\ del[n]["cli"].pc = "mark"
    /\ \/ /\ UpdateStatus(n, "deleting")
          /\ del' = [del EXCEPT ![n]["cli"].pc = "agent"]
          /\ UNCHANGED faults
       \/ /\ Fault
          /\ del' = [del EXCEPT ![n]["cli"] = NoDel]
          /\ UNCHANGED <<inst, ready>>
    /\ UNCHANGED <<doms, parts, files, job, dbdel, pass, asked, adrift>>

\* The step after x; the user's part only if one was found, the database's only
\* if the row named one.
Then(n, w, x) ==
    IF x = "db" \/ (x = "row" /\ ~ del[n][w].db)
    THEN NoDel
    ELSE [del[n][w] EXCEPT !.pc = CleanUp[1 + CHOOSE i \in 1 .. 3 : CleanUp[i] = x]]

FirstStep(n, w) ==
    [del[n][w] EXCEPT !.pc = IF del[n][w].user THEN "user" ELSE "row"]

\* app.delete: WordPress is removed from the document root whatever the
\* subdirectory; the others remove their subdirectory, or their files at the root.
Erased(s, t) ==
    IF t = "wordpress"
    THEN [files EXCEPT ![<<s[1], Root>>] = @ \ {t}]
    ELSE [files EXCEPT ![s] = IF s[2] = Root THEN @ \ {t} ELSE {}]

\* After a failure the API writes "failed" and stops (unless its five minutes are
\* over: then nothing); the command line writes it and goes on.
AgentDelete(n, w) ==
    /\ del[n][w].pc = "agent"
    /\ LET d == del[n][w]
       IN  \/ /\ files' = Erased(d.slot, d.type)
              /\ del' = [del EXCEPT ![n][w] = FirstStep(n, w)]
              /\ UNCHANGED <<inst, ready, faults>>
           \/ /\ Fault
              /\ files' \in {files, Erased(d.slot, d.type)}
              /\ \/ UpdateStatus(n, "failed")
                 \/ w = "api" /\ UNCHANGED <<inst, ready>>
              /\ del' = [del EXCEPT ![n][w] = IF w = "cli" THEN FirstStep(n, w) ELSE NoDel]
    /\ UNCHANGED <<doms, parts, job, dbdel, pass, asked, adrift>>

\* One step of the cleanup, best effort. The schema is dropped by the name in the
\* database's row; the command line stops when the install row is gone already.
CleanStep(n, w) ==
    /\ del[n][w].pc \in ToSet(CleanUp)
    /\ LET x == del[n][w].pc
           stops == x = "row" /\ w = "cli"
           users == {"grant", "account", "user"}
       IN  \/ /\ CASE x = "row" -> DeleteRow(n) /\ UNCHANGED parts
                   [] x = "user" -> /\ parts' = [parts EXCEPT ![n] = @ \ users]
                                    /\ UNCHANGED <<inst, ready>>
                   [] x = "schema" /\ "db" \notin parts[n] -> UNCHANGED <<inst, ready, parts>>
                   [] OTHER -> RemovePart(n, x)
              /\ del' = [del EXCEPT ![n][w] = IF stops /\ inst[n] = NoRow
                                              THEN NoDel ELSE Then(n, w, x)]
              /\ UNCHANGED <<adrift, faults>>
           \/ /\ Fault
              /\ adrift' = IF x = "db" THEN adrift \cup {n} ELSE adrift
              /\ del' = [del EXCEPT ![n][w] = IF stops THEN NoDel ELSE Then(n, w, x)]
              /\ \/ UNCHANGED parts
                 \/ /\ x = "user"
                    /\ \E y \in users : parts' = [parts EXCEPT ![n] = @ \ (users \ {y})]
              /\ UNCHANGED <<inst, ready>>
    /\ UNCHANGED <<doms, files, job, dbdel, pass, asked>>

--------------------------------------------------------------------------------
\* databaseHandler.delete: refused while an install names the database; then the
\* grants, the schema and the row, stopping at the first failure.

DbDelete(n) ==
    /\ "db" \in parts[n] /\ dbdel[n] = "idle"
    /\ ~ (inst[n] # NoRow /\ inst[n].db)
    /\ Ask
    /\ dbdel' = [dbdel EXCEPT ![n] = "grant"]
    /\ UNCHANGED <<doms, inst, parts, files, ready, job, del, pass, adrift, faults>>

DbDeleteStep(n) ==
    /\ dbdel[n] # "idle"
    /\ \/ /\ RemovePart(n, dbdel[n])
          /\ dbdel' = [dbdel EXCEPT ![n] = CASE @ = "grant"  -> "schema"
                                             [] @ = "schema" -> "db"
                                             [] @ = "db"     -> "idle"]
          /\ UNCHANGED faults
       \/ /\ Fault
          /\ dbdel' = [dbdel EXCEPT ![n] = "idle"]
          /\ UNCHANGED <<inst, ready, parts>>
    /\ UNCHANGED <<doms, files, job, del, pass, asked, adrift>>

--------------------------------------------------------------------------------
\* domainHandler.delete: nothing asks for the installs of the domain. Their rows go
\* by the cascade of migration 000033; their files, their databases and whoever is
\* at work on them stay.
DeleteDomain(d) ==
    /\ d \in doms
    /\ Ask
    /\ LET with == {n \in Ids : inst[n] # NoRow /\ inst[n].slot[1] = d}
       IN  /\ inst' = [n \in Ids |-> IF n \in with THEN NoRow ELSE inst[n]]
           /\ ready' \in WithoutAll(with)
           /\ adrift' = adrift \cup with
    /\ doms' = doms \ {d}
    /\ UNCHANGED <<parts, files, job, del, dbdel, pass, faults>>

--------------------------------------------------------------------------------
\* reconcileWordPressInstalls.

\* Mutant: no timeout for a clone.
Sweepable_NoClone == {n \in Ids : inst[n] # NoRow /\ inst[n].status \in InProgress \ {"cloning"}}

\* The rows whose status the sweep has a timeout for.
Sweepable == {n \in Ids : inst[n] # NoRow /\ inst[n].status \in InProgress}

\* ListReadyByUpdatedAtAsc(ProbeBatch).
Batch == ToSet(SubSeq(ready, 1, IF Len(ready) < ProbeBatch THEN Len(ready) ELSE ProbeBatch))

\* What is left of the pass after row n; the probe's batch is read when the sweep
\* is through.
Rest(n) ==
    IF pass.todo = {n} /\ pass.pc = "probe" THEN Resting ELSE [pass EXCEPT !.todo = @ \ {n}]

\* A pass that finds row n, and some others, past their timeout on the list it
\* reads once: it will write them one by one.
SweepList(n) ==
    /\ pass = Resting
    /\ n \in Sweepable
    /\ \E S \in SUBSET Sweepable : pass' = [pc |-> "sweep", todo |-> {n} \cup S]
    /\ UNCHANGED <<doms, inst, parts, files, ready, job, del, dbdel, asked, adrift, faults>>

SweepOne(n) ==
    /\ pass.pc = "sweep" /\ n \in pass.todo
    /\ \/ UpdateStatus(n, "failed") /\ UNCHANGED faults
       \/ Fault /\ UNCHANGED <<inst, ready>>
    /\ pass' = Rest(n)
    /\ UNCHANGED <<doms, parts, files, job, del, dbdel, asked, adrift>>

\* After the sweep, or when it found nothing, the probe's batch.
ProbeList ==
    /\ pass = [pc |-> "sweep", todo |-> {}] \/ (pass = Resting /\ ready # <<>>)
    /\ pass' = IF Batch = {} THEN Resting ELSE [pc |-> "probe", todo |-> Batch]
    /\ UNCHANGED <<doms, inst, parts, files, ready, job, del, dbdel, asked, adrift, faults>>

\* fs.stat of a WordPress file, whatever the type of the row: missing, the row is
\* marked, whatever it has become since the batch was read.
ProbeOne(n) ==
    /\ pass.pc = "probe" /\ n \in pass.todo
    /\ \/ /\ inst[n] # NoRow /\ "wordpress" \notin files[inst[n].slot]
          /\ UpdateStatus(n, "failed")
          /\ UNCHANGED faults
       \/ /\ \/ inst[n] = NoRow /\ UNCHANGED faults
             \/ inst[n] # NoRow /\ "wordpress" \in files[inst[n].slot] /\ UNCHANGED faults
             \/ Fault
          /\ UNCHANGED <<inst, ready>>
    /\ pass' = Rest(n)
    /\ UNCHANGED <<doms, parts, files, job, del, dbdel, asked, adrift>>

--------------------------------------------------------------------------------
\* The panel is restarted: its requests, goroutines and pass are gone; a command
\* line delete is another process.
Restart ==
    /\ Fault
    /\ job' = [n \in Ids |-> IF job[n].pc = "none" THEN NoJob ELSE [NoJob EXCEPT !.pc = "over"]]
    /\ del' = [n \in Ids |-> [del[n] EXCEPT !["api"] = NoDel]]
    /\ dbdel' = [n \in Ids |-> "idle"]
    /\ pass' = Resting
    /\ adrift' = adrift \cup {n \in Ids : \/ job[n].pc \in {"chain", "undo", "insert"}
                                        \/ del[n]["api"].pc \in {"schema", "db"}}
    /\ UNCHANGED <<doms, inst, parts, files, ready, asked>>

\* The owner adds or removes an application's files by hand.
OwnerEdits(s, t) ==
    /\ Fault
    /\ files' = [files EXCEPT ![s] = IF t \in @ THEN @ \ {t} ELSE @ \cup {t}]
    /\ UNCHANGED <<doms, inst, parts, ready, job, del, dbdel, pass, asked, adrift>>

JobStep(n) ==
    \/ ChainStep(n) \/ UndoStep(n) \/ InsertRow(n)
    \/ Mark(n) \/ AgentInstall(n) \/ CloneLookup(n) \/ AgentClone(n) \/ WriteStatus(n)

DeleteStep(n) ==
    \/ ApiResolve(n) \/ CliMark(n) \/ DbDeleteStep(n)
    \/ \E w \in Deleters : AgentDelete(n, w) \/ CleanStep(n, w)

PassStep ==
    \/ ProbeList
    \/ \E n \in Ids : SweepList(n) \/ SweepOne(n) \/ ProbeOne(n)

Next ==
    \/ \E n \in Ids :
          \/ JobStep(n) \/ HandlerGone(n) \/ DeleteStep(n)
          \/ ApiDelete(n) \/ CliDelete(n) \/ DbDelete(n)
          \/ \E t \in Types :
                \/ \E s \in Asked : RequestInstall(n, s, t)
                \/ \E s \in Slots : Scan(n, s, t)
          \/ \E m \in Ids, d \in Domains : RequestClone(n, m, d)
    \/ \E d \in Domains : DeleteDomain(d)
    \/ \E s \in Slots, t \in Types : OwnerEdits(s, t)
    \/ PassStep
    \/ Restart

Spec == Init /\ [][Next]_vars

\* Requests, goroutines and the reconciler's loop go on, and a row that stays in
\* progress is past its timeout at some pass. Nothing is assumed of the users.
FairSpec ==
    /\ Spec
    /\ \A n \in Ids : /\ WF_vars(JobStep(n))
                      /\ WF_vars(DeleteStep(n))
                      /\ SF_vars(SweepList(n))
    /\ WF_vars(PassStep)

--------------------------------------------------------------------------------
\* Who keeps a database row: the install row, the request until it has inserted one
\* or compensated, a delete that has taken the install row away.
Keeper(n) ==
    \/ inst[n] # NoRow
    \/ job[n].pc \in {"chain", "undo", "insert"}
    \/ \E w \in Deleters : del[n][w].pc \in {"schema", "db"}

\* However requests, deletes, the databases page and failed calls race, a database
\* row made for an install is left without a keeper only when it was set adrift: the
\* caller went away or the panel restarted before the row was in or given up, the
\* very delete of the database's row failed, or the install row went with its domain.
DatabasesAreOwned ==
    \A n \in Ids : "db" \in parts[n] => Keeper(n) \/ n \in adrift

\* Whatever is lost or restarted, a status does not stay wrong. A row does not
\* stay installing, cloning or deleting (its goroutine ends it or the sweep does),
\* and a ready row without WordPress's files does not stay ready (the probe marks
\* it) while the ready rows fit one batch: a probe that finds the file does not renew
\* updated_at, so rows behind a full batch are not probed. A row whose goroutine is
\* lost before its first write stays pending, for which there is no timeout.
Wrong(n) ==
    /\ inst[n] # NoRow
    /\ \/ inst[n].status \in InProgress
       \/ /\ inst[n].status = "ready" /\ Len(ready) <= ProbeBatch
          /\ "wordpress" \notin files[inst[n].slot]

StatusSettles == \A n \in Ids : Wrong(n) ~> ~ Wrong(n)

================================================================================
