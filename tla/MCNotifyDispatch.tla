-------------------------- MODULE MCNotifyDispatch --------------------------
(* Instances of NotifyDispatch: the forms an entry may have, and what the  *)
(* dispatcher's comments say of a reclaimed entry.                         *)
EXTENDS NotifyDispatch, TLC

Broadcast == [to |-> {}, form |-> "ok"]
Kinds == {Broadcast, [to |-> {}, form |-> "malformed"]}
           \union {[to |-> {c}, form |-> "muted"] : c \in Channels}

\* "Re-claim to ourselves. On success the entry lands in our next XREADGROUP
\* cycle" (reclaim): an entry that stays pending with nobody at work on it while
\* both loops run is processed once more, or leaves the queue otherwise than by
\* its retry count.
Waiting(i) == i \in stream /\ pel[i] > 0 /\ tried[i] = 1 /\ i \notin batch /\ cur # i
ReclaimedIsProcessedAgain ==
    \A i \in Ids : (phase = "running" /\ Waiting(i)) ~>
        (tried[i] > 1 \/ phase # "running" \/ i \in done \union refused)

=============================================================================
