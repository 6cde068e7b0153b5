--------------------------- MODULE NotifyDispatch ---------------------------
(***************************************************************************)
(* The notification dispatcher (internal/notifications): a consumer        *)
(* goroutine and a reclaim goroutine on one Redis stream with a consumer   *)
(* group, the dead-letter stream and its administration                    *)
(* (api/notifications_dlq.go), and the circuit breaker on                  *)
(* notification_channels, which operators edit at the same time            *)
(* (api/notifications_channels.go).                                        *)
(*                                                                         *)
(* A stream id is the entry's place in the order of XADD.  Redis is what   *)
(* the code uses of it: XREADGROUP > hands out entries above the group's   *)
(* last-delivered id and counts one delivery, XCLAIM counts one more,      *)
(* XPENDING lists pending entries idle for ReclaimMinIdle, and a pipeline  *)
(* is atomic.  The group is created at "$", the end of the stream.  Time   *)
(* is whether that idle time has passed.                                   *)
(*                                                                         *)
(* Left out: the text of an envelope, history rows of channels (a log),    *)
(* the semaphore of the fan-out (any order of its sends is a behaviour).   *)
(***************************************************************************)
EXTENDS Integers, FiniteSets, FiniteSetsExt

CONSTANTS
    Channels,       \* ids of notification channels
    Envelopes,      \* what producers may publish
    Admins,         \* DLQ requests served at the same time
    BatchSize,      \* XREADGROUP COUNT
    MaxRetries,     \* deliveries after which an entry is dead
    BreakerLimit,   \* consecutive failures that disable a channel
    MaxEntries,     \* bound: entries ever added to the queue
    MaxPatches,     \* bound: channel edits
    MaxFaults       \* bound: failed calls and restarts

Ids == 1..MaxEntries
\* to: explicit channel ids, none for every enabled channel;
\* form: malformed, of an event kind that is switched off, or neither
AllEnvelopes == [to : SUBSET Channels, form : {"ok", "muted", "malformed"}]
DeadRows == [id : Ids, reason : {"parse_error", "max_retries_exceeded"},
             payload : {"kept", "gone", "failed"}]  \* how XRANGE answered
None == [id |-> 0]
NoGroup == -1
\* before EnsureGroup; both loops run; the consumer loop has returned; Start has
Phases == {"start", "running", "deaf", "dead"}

ASSUME ConstantsAssumption ==
    /\ Envelopes \subseteq AllEnvelopes
    /\ BatchSize \in Nat \ {0} /\ MaxRetries \in Nat \ {0}
    /\ BreakerLimit \in Nat \ {0}
    /\ MaxEntries \in Nat /\ MaxPatches \in Nat /\ MaxFaults \in Nat

VARIABLES
    added,      \* entries XADDed so far
    env,        \* their envelopes
    stream,     \* entries not XDELed
    group,      \* id the group was created at, NoGroup before
    last,       \* last-delivered id of the group
    pel,        \* pending entries: number of deliveries, 0 if not pending
    idle,       \* pending entries idle for ReclaimMinIdle
    dlq,        \* rows of the dead-letter stream
    phase,      \* of Dispatcher.Start, see Phases
    batch,      \* the consumer's entries still to be processed
    cur,        \* the entry it processes, 0 if none
    stage,      \* how far: "idle", "resolve" or "fan"
    fan,        \* state of the fan-out of cur, per channel
    listed,     \* reclaim's copy of XPENDING: <<id, deliveries>>
    moving,     \* the DLQ row reclaim has put together, or None
    row,        \* notification_channels: "on", "off" or "gone"
    failures,   \* webhook_endpoints.consecutive_failures
    patch,      \* an operator's edit in hand: <<channel, enabled>>
    patches,
    replay,     \* DLQ rows each admin request has read
    faults,
    tried,      \* history: times an entry was processed, a bell row each
    sent,       \* history: deliveries per entry and channel
    done,       \* history: entries handled to the end
    refused,    \* history: entries acknowledged though a channel refused them
    dead        \* history: entries moved to the dead-letter stream

queueVars == <<added, env, stream, group, last, pel, idle>>
consumerVars == <<phase, batch, cur, stage, fan>>
reclaimVars == <<listed, moving>>
channelVars == <<row, failures>>
adminVars == <<patch, patches, replay>>
historyVars == <<tried, sent, done, refused, dead>>
vars == <<queueVars, dlq, consumerVars, reclaimVars, channelVars, adminVars,
          faults, historyVars>>

Fresh == {i \in stream : i > last}
Idle == [c \in Channels |-> "none"]

Init ==
    /\ added = 0 /\ env = [i \in Ids |-> [to |-> {}, form |-> "ok"]]
    /\ stream = {} /\ last = 0
    /\ group \in {NoGroup, 0}   \* the first boot, or a group kept from earlier
    /\ phase = "start"
    /\ pel = [i \in Ids |-> 0] /\ idle = {}
    /\ dlq = {}
    /\ batch = {} /\ cur = 0 /\ stage = "idle" /\ fan = Idle
    /\ listed = {} /\ moving = None
    /\ row = [c \in Channels |-> "on"] /\ failures = [c \in Channels |-> 0]
    /\ patch = {} /\ patches = 0
    /\ replay = [a \in Admins |-> {}]
    /\ faults = 0
    /\ tried = [i \in Ids |-> 0]
    /\ sent = [x \in Ids \X Channels |-> 0]
    /\ done = {} /\ refused = {} /\ dead = {}

Fault == faults < MaxFaults /\ faults' = faults + 1

\* a call of which the code only logs the error
Try(A, Skip) == \/ A /\ UNCHANGED faults
                \/ Skip /\ Fault

-----------------------------------------------------------------------------
(* The queue *)

XAdd(e) ==
    /\ added < MaxEntries
    /\ added' = added + 1
    /\ env' = [env EXCEPT ![added + 1] = e]
    /\ stream' = stream \union {added + 1}

Publish ==
    /\ \E e \in Envelopes : XAdd(e)
    /\ UNCHANGED <<group, last, pel, idle, dlq, consumerVars, reclaimVars,
                   channelVars, adminVars, faults, historyVars>>

\* XACK and XDEL of an entry; nothing happens to one that is gone
AckAndDelete(i) ==
    /\ stream' = stream \ {i}
    /\ pel' = [pel EXCEPT ![i] = 0]
    /\ idle' = idle \ {i}
    /\ UNCHANGED <<added, env, group, last>>

ToDLQ(d) ==
    /\ dlq' = dlq \union {d}
    /\ AckAndDelete(d.id)
    /\ dead' = dead \union {d.id}

\* sixty seconds since an entry's last delivery
TimePasses(i) ==
    /\ pel[i] > 0 /\ i \notin idle
    /\ idle' = idle \union {i}
    /\ UNCHANGED <<added, env, stream, group, last, pel, dlq, consumerVars,
                   reclaimVars, channelVars, adminVars, faults, historyVars>>

-----------------------------------------------------------------------------
(* The consumer *)

\* COUNT entries, the oldest first
Oldest(S, n) == {i \in S : Cardinality({k \in S : k < i}) < n}

Deliverable_Pending == Fresh \union {i \in stream : pel[i] > 0}

\* what XREADGROUP with id ">" may hand out
Deliverable == Fresh

\* a new group starts behind every entry there is; when the call fails, Start
\* returns and neither loop runs until the next boot
EnsureGroup ==
    /\ phase = "start"
    /\ \/ /\ phase' = "running" /\ UNCHANGED faults
          /\ IF group = NoGroup THEN group' = added /\ last' = added
                                ELSE UNCHANGED <<group, last>>
       \/ Fault /\ phase' = "dead" /\ UNCHANGED <<group, last>>
    /\ UNCHANGED <<added, env, stream, pel, idle, dlq, batch, cur, stage, fan,
                   reclaimVars, channelVars, adminVars, historyVars>>

\* an answer that is lost leaves the entries pending with nobody at work
Read ==
    LET got == Oldest(Deliverable, BatchSize)
    IN  /\ phase = "running" /\ batch = {} /\ cur = 0 /\ got # {}
        /\ pel' = [i \in Ids |-> IF i \in got THEN pel[i] + 1 ELSE pel[i]]
        /\ idle' = idle \ got
        /\ last' = Max({last} \union got)
        /\ Try(batch' = got, batch' = {})
        /\ UNCHANGED <<added, env, stream, group, dlq, phase, cur, stage, fan,
                       reclaimVars, channelVars, adminVars, historyVars>>

\* an error that is a deadline, as of a dial to Redis, ends the consumer loop
ReadGivesUp ==
    /\ phase = "running" /\ batch = {} /\ cur = 0
    /\ Fault
    /\ phase' = "deaf"
    /\ UNCHANGED <<queueVars, dlq, batch, cur, stage, fan, reclaimVars,
                   channelVars, adminVars, historyVars>>

Taken(i) == i \in batch /\ cur = 0 /\ \A k \in batch : i <= k

\* envelopeFromStream fails: to the DLQ, which may fail as well
ProcessMalformed(i) ==
    /\ Taken(i) /\ env[i].form = "malformed"
    /\ batch' = batch \ {i}
    /\ Try(ToDLQ([id |-> i, reason |-> "parse_error", payload |-> "kept"]),
           UNCHANGED <<queueVars, dlq, dead>>)
    /\ UNCHANGED <<phase, cur, stage, fan, reclaimVars, channelVars, adminVars,
                   tried, sent, done, refused>>

\* the event kind is switched off: acknowledged without a trace
ProcessMuted(i) ==
    /\ Taken(i) /\ env[i].form = "muted"
    /\ batch' = batch \ {i}
    /\ Try(AckAndDelete(i), UNCHANGED queueVars)
    /\ done' = done \union {i}
    /\ UNCHANGED <<dlq, phase, cur, stage, fan, reclaimVars, channelVars,
                   adminVars, tried, sent, refused, dead>>

\* the event kind is on, or the toggle cannot be read: the bell row is written
\* (a failed insert is only logged), then channels are looked up
Pass(i) ==
    /\ Taken(i)
    /\ \/ env[i].form = "ok" /\ UNCHANGED faults
       \/ env[i].form = "muted" /\ Fault
    /\ batch' = batch \ {i} /\ cur' = i /\ stage' = "resolve"
    /\ tried' = [tried EXCEPT ![i] = @ + 1]
    /\ UNCHANGED <<queueVars, dlq, phase, fan, reclaimVars, channelVars,
                   adminVars, sent, done, refused, dead>>

resolveTargets(i) ==
    {c \in Channels : row[c] = "on" /\ (env[i].to = {} \/ c \in env[i].to)}

\* the database fails: the entry is left pending
ResolveFails ==
    /\ stage = "resolve"
    /\ Fault
    /\ cur' = 0 /\ stage' = "idle"
    /\ UNCHANGED <<queueVars, dlq, phase, batch, fan, reclaimVars, channelVars,
                   adminVars, historyVars>>

NoTargets ==
    /\ stage = "resolve"
    /\ resolveTargets(cur) = {}
    /\ cur' = 0 /\ stage' = "idle"
    /\ done' = done \union {cur}
    /\ Try(AckAndDelete(cur), UNCHANGED queueVars)
    /\ UNCHANGED <<dlq, phase, batch, fan, reclaimVars, channelVars, adminVars,
                   tried, sent, refused, dead>>

\* one goroutine for each channel that was on
FanOut ==
    /\ stage = "resolve"
    /\ resolveTargets(cur) # {}
    /\ stage' = "fan"
    /\ fan' = [c \in Channels |->
                  IF c \in resolveTargets(cur) THEN "todo" ELSE "none"]
    /\ UNCHANGED <<queueVars, dlq, phase, batch, cur, reclaimVars, channelVars,
                   adminVars, faults, historyVars>>

\* sendOne: the history row cannot be written (its foreign key fails when the
\* channel was deleted) or the kind has no sender; neither counts for the
\* breaker
SendRefused(c) ==
    /\ fan[c] = "todo"
    /\ IF row[c] = "gone" THEN UNCHANGED faults ELSE Fault
    /\ fan' = [fan EXCEPT ![c] = "failed"]
    /\ UNCHANGED <<queueVars, dlq, phase, batch, cur, stage, reclaimVars,
                   channelVars, adminVars, historyVars>>

SendOk(c) ==
    /\ fan[c] = "todo"
    /\ fan' = [fan EXCEPT ![c] = "sent"]
    /\ sent' = [sent EXCEPT ![<<cur, c>>] = @ + 1]
    /\ Try(failures' = [failures EXCEPT ![c] = 0], UNCHANGED failures)
    /\ UNCHANGED <<queueVars, dlq, phase, batch, cur, stage, reclaimVars, row,
                   adminVars, tried, done, refused, dead>>

\* the send fails, for good or not; RecordFailure counts it, unless the
\* channel and its webhook_endpoints row are gone
SendFails(c) ==
    /\ fan[c] = "todo"
    /\ \E how \in {"failing", "refusing"} : fan' = [fan EXCEPT ![c] = how]
    /\ Try(failures' = [failures EXCEPT ![c] =
                           IF row[c] # "gone" /\ @ < BreakerLimit THEN @ + 1 ELSE @],
           UNCHANGED failures)
    /\ UNCHANGED <<queueVars, dlq, phase, batch, cur, stage, reclaimVars, row,
                   adminVars, historyVars>>

Settle(c) == fan' = [fan EXCEPT ![c] = IF @ \in {"failing", "tripping"}
                                       THEN "failed" ELSE "refused"]

\* the counter is read back and is below the limit, or cannot be read
BreakerHolds(c) ==
    /\ fan[c] \in {"failing", "refusing"}
    /\ IF failures[c] < BreakerLimit THEN UNCHANGED faults ELSE Fault
    /\ Settle(c)
    /\ UNCHANGED <<queueVars, dlq, phase, batch, cur, stage, reclaimVars,
                   channelVars, adminVars, historyVars>>

BreakerTrips(c) ==
    /\ fan[c] \in {"failing", "refusing"}
    /\ failures[c] >= BreakerLimit
    /\ fan' = [fan EXCEPT ![c] = IF @ = "failing" THEN "tripping" ELSE "disabling"]
    /\ UNCHANGED <<queueVars, dlq, phase, batch, cur, stage, reclaimVars,
                   channelVars, adminVars, faults, historyVars>>

\* the row read before the fan-out is saved with enabled = false; the save is
\* an upsert and brings back a row that was deleted meanwhile
TripBreaker(c) ==
    /\ fan[c] \in {"tripping", "disabling"}
    /\ Try(row' = [row EXCEPT ![c] = "off"], UNCHANGED row)
    /\ Settle(c)
    /\ UNCHANGED <<queueVars, dlq, phase, batch, cur, stage, reclaimVars,
                   failures, adminVars, historyVars>>

Complete_Always == TRUE

\* sendOne returns no error for a channel that refused for good, so such an
\* entry is acknowledged like one that was delivered
Complete == \A c \in Channels : fan[c] # "failed"

FanOutEnds ==
    /\ stage = "fan"
    /\ \A c \in Channels : fan[c] \in {"none", "sent", "refused", "failed"}
    /\ IF Complete THEN Try(AckAndDelete(cur), UNCHANGED queueVars)
                   ELSE UNCHANGED <<queueVars, faults>>
    /\ LET ends == {fan[c] : c \in Channels}
       IN  /\ done' = IF ends \subseteq {"none", "sent"} THEN done \union {cur} ELSE done
           /\ refused' = IF "refused" \in ends /\ "failed" \notin ends
                         THEN refused \union {cur} ELSE refused
    /\ cur' = 0 /\ stage' = "idle" /\ fan' = Idle
    /\ UNCHANGED <<dlq, phase, batch, reclaimVars, channelVars, adminVars, tried,
                   sent, dead>>

-----------------------------------------------------------------------------
(* The reclaim loop *)

Stale_Held == idle \intersect (batch \union {cur})

\* idle entries of every consumer, those of a process that is gone included
Stale == idle

Pending ==
    /\ phase \in {"running", "deaf"}
    /\ listed = {} /\ moving = None /\ Stale # {}
    /\ listed' = {<<i, pel[i]>> : i \in Stale}
    /\ UNCHANGED <<queueVars, dlq, consumerVars, moving, channelVars, adminVars,
                   faults, historyVars>>

First(p) == p \in listed /\ moving = None /\ \A q \in listed : p[1] <= q[1]

Exhausted_Late(p) == p[2] > MaxRetries

Exhausted(p) == p[2] >= MaxRetries

\* XCLAIM raises the delivery count; nobody processes the entry again
Claim(p) ==
    /\ First(p) /\ ~Exhausted(p)
    /\ listed' = listed \ {p}
    /\ IF p[1] \in idle
       THEN /\ pel' = [pel EXCEPT ![p[1]] = @ + 1]
            /\ idle' = idle \ {p[1]}
       ELSE UNCHANGED <<pel, idle>>
    /\ UNCHANGED <<added, env, stream, group, last, dlq, consumerVars, moving,
                   channelVars, adminVars, faults, historyVars>>

\* Mutant: the payload is not fetched, the row is only reason and id.
RangeOne_NoFetch(p) ==
    /\ First(p) /\ Exhausted(p)
    /\ moving' = [id |-> p[1], reason |-> "max_retries_exceeded", payload |-> "gone"]
    /\ listed' = listed \ {p}
    /\ UNCHANGED <<queueVars, dlq, consumerVars, channelVars, adminVars, faults,
                   historyVars>>

\* XRANGE fetches the payload, if the entry is still there and Redis answers
RangeOne(p) ==
    /\ First(p) /\ Exhausted(p)
    /\ \E how \in {"kept", "gone", "failed"} :
          /\ how = "kept" => p[1] \in stream
          /\ how = "gone" => p[1] \notin stream
          /\ IF how = "failed" THEN Fault ELSE UNCHANGED faults
          /\ moving' = [id |-> p[1], reason |-> "max_retries_exceeded",
                        payload |-> how]
    /\ listed' = listed \ {p}
    /\ UNCHANGED <<queueVars, dlq, consumerVars, channelVars, adminVars,
                   historyVars>>

MoveToDLQ ==
    /\ moving # None
    /\ moving' = None
    /\ Try(ToDLQ(moving), UNCHANGED <<queueVars, dlq, dead>>)
    /\ UNCHANGED <<consumerVars, listed, channelVars, adminVars, tried, sent,
                   done, refused>>

-----------------------------------------------------------------------------
(* Operators *)

\* PATCH of a channel reads the row ...
PatchRead(c) ==
    /\ patch = {} /\ patches < MaxPatches /\ row[c] # "gone"
    /\ patches' = patches + 1
    /\ \E e \in {row[c], "on", "off"} : patch' = {<<c, e>>}
    /\ UNCHANGED <<queueVars, dlq, consumerVars, reclaimVars, channelVars, replay,
                   faults, historyVars>>

\* ... and saves all of it
PatchWrite ==
    /\ \E p \in patch : row' = [row EXCEPT ![p[1]] = p[2]]
    /\ patch' = {}
    /\ UNCHANGED <<queueVars, dlq, consumerVars, reclaimVars, failures, patches,
                   replay, faults, historyVars>>

\* DELETE of a channel, its webhook_endpoints row included
DeleteChannel(c) ==
    /\ row[c] # "gone" /\ patches < MaxPatches
    /\ row' = [row EXCEPT ![c] = "gone"]
    /\ failures' = [failures EXCEPT ![c] = 0]
    /\ patches' = patches + 1
    /\ UNCHANGED <<queueVars, dlq, consumerVars, reclaimVars, patch, replay,
                   faults, historyVars>>

\* replay reads one row, replayAll all of them
ReplayRead(a) ==
    /\ replay[a] = {} /\ dlq # {} /\ added < MaxEntries
    /\ \E S \in {dlq} \union {{d} : d \in dlq} :
          replay' = [replay EXCEPT ![a] = S]
    /\ UNCHANGED <<queueVars, dlq, consumerVars, reclaimVars, channelVars, patch,
                   patches, faults, historyVars>>

\* XADD and XDEL of one row; a row without payload is refused or dropped
ReplayOne(a) ==
    /\ \E d \in replay[a] :
          /\ replay' = [replay EXCEPT ![a] = @ \ {d}]
          /\ \/ d.payload = "kept" /\ XAdd(env[d.id]) /\ dlq' = dlq \ {d}
             \/ d.payload # "kept" /\ dlq' \in {dlq, dlq \ {d}}
                /\ UNCHANGED <<added, env, stream>>
    /\ UNCHANGED <<group, last, pel, idle, consumerVars, reclaimVars, channelVars,
                   patch, patches, faults, historyVars>>

\* drop and clear
Drop ==
    /\ \E S \in {dlq} \union {{d} : d \in dlq} : S # {} /\ dlq' = dlq \ S
    /\ UNCHANGED <<queueVars, consumerVars, reclaimVars, channelVars, adminVars,
                   faults, historyVars>>

\* the panel restarts: goroutines and requests are gone, Redis is not
PanelRestart ==
    /\ Fault
    /\ phase' = "start"
    /\ batch' = {} /\ cur' = 0 /\ stage' = "idle" /\ fan' = Idle
    /\ listed' = {} /\ moving' = None
    /\ patch' = {} /\ replay' = [a \in Admins |-> {}]
    /\ UNCHANGED <<queueVars, dlq, channelVars, patches, historyVars>>

-----------------------------------------------------------------------------
Consumer == \/ Read \/ ReadGivesUp \/ FanOutEnds
            \/ ResolveFails \/ NoTargets \/ FanOut
            \/ \E i \in Ids : ProcessMalformed(i) \/ ProcessMuted(i) \/ Pass(i)
            \/ \E c \in Channels : \/ SendRefused(c) \/ SendOk(c) \/ SendFails(c)
                                   \/ BreakerHolds(c) \/ BreakerTrips(c)
                                   \/ TripBreaker(c)

Reclaimer == \/ Pending \/ MoveToDLQ
             \/ \E p \in listed : Claim(p) \/ RangeOne(p)

Operator == \/ PatchWrite \/ Drop
            \/ \E c \in Channels : PatchRead(c) \/ DeleteChannel(c)
            \/ \E a \in Admins : ReplayRead(a) \/ ReplayOne(a)

Next == Publish \/ EnsureGroup \/ Consumer \/ Reclaimer \/ Operator \/ PanelRestart
        \/ \E i \in Ids : TimePasses(i)

Spec == Init /\ [][Next]_vars

\* Start gets its answer, the loops that run are scheduled, a send ends by its
\* timeout, time passes
Fairness == /\ WF_vars(EnsureGroup) /\ WF_vars(Consumer) /\ WF_vars(Reclaimer)
            /\ \A i \in Ids : WF_vars(TimePasses(i))

FairSpec == Spec /\ Fairness

-----------------------------------------------------------------------------
(* Properties *)

\* Every variable has its type: queue, dispatcher, channels and operators.
TypeOK ==
    /\ added \in 0..MaxEntries /\ env \in [Ids -> AllEnvelopes]
    /\ stream \subseteq 1..added /\ last \in 0..added
    /\ group \in {NoGroup} \union (0..added) /\ phase \in Phases
    /\ pel \in [Ids -> 0..MaxRetries] /\ idle \subseteq stream
    /\ dlq \subseteq DeadRows
    /\ batch \subseteq 1..added /\ cur \in 0..added
    /\ fan \in [Channels -> {"none", "todo", "sent", "failing", "refusing",
                             "tripping", "disabling", "refused", "failed"}]
    /\ stage \in {"idle", "resolve", "fan"}
    /\ listed \subseteq Ids \X (1..MaxRetries) /\ moving \in DeadRows \union {None}
    /\ row \in [Channels -> {"on", "off", "gone"}]
    /\ failures \in [Channels -> 0..BreakerLimit]
    /\ patches \in 0..MaxPatches /\ faults \in 0..MaxFaults
    /\ replay \in [Admins -> SUBSET DeadRows]

\* Once the group exists no notification is lost without a trace: an entry is
\* waiting, pending (so that the reclaim loop will see it), was handled to the
\* end, was moved to the dead-letter stream, or was acknowledged although a
\* channel refused it for good - whatever call fails and wherever the panel
\* stops (process, reclaim, AckAndDelete and ToDLQ).  Entries older than the
\* group are never delivered (EnsureGroup at "$").
Accounted ==
    \A i \in 1..added : \/ i \in Fresh
                        \/ i \in stream /\ pel[i] > 0
                        \/ i \in done \union refused
                        \/ i \in dead
                        \/ i <= group

\* A dead letter has lost its payload, so that replay has nothing to publish,
\* only when XRANGE failed or the entry needs no replay: the consumer finished
\* it, or dead-lettered it itself, after the reclaim loop had listed it.
ReplayHasPayload ==
    \A d \in dlq : d.payload = "gone" =>
        d.id \in done \union refused \/ env[d.id].form = "malformed"

\* Every entry leaves the queue in the end: acknowledged, or dead-lettered by
\* the reclaim loop, also when the process that read it is gone.  Left behind
\* are entries older than the group, everything when EnsureGroup failed, and
\* what was not delivered yet when the consumer loop gave up.
EverySettles ==
    \A i \in Ids : i \in stream ~>
        (i \notin stream \/ i <= group \/ phase = "dead" \/ (phase = "deaf" /\ i > last))

\* An entry is processed, and reaches a channel, at most once: XREADGROUP ">"
\* never hands out a claimed entry.  The comments of the dispatcher promise the
\* retry that this excludes, see ReclaimedIsProcessedAgain.
AtMostOnce ==
    \A i \in Ids : tried[i] <= 1 /\ \A c \in Channels : sent[<<i, c>>] <= 1

=============================================================================
