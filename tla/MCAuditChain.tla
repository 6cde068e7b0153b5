---------------------------- MODULE MCAuditChain ----------------------------
(***************************************************************************)
(* TLC instances of AuditChain, and what the runbook says of the audit log *)
(* that the code does not do.                                              *)
(***************************************************************************)
EXTENDS AuditChain

\* "A real CHAIN BROKEN means a sealed row's content or row_hash changed after
\* sealing": a log nobody touched, sealed in order, verifies.
UntouchedChainVerifies == ~disorder /\ ~pruned => VerifyChain(rows)

\* "no Ack -> redelivered", says the consumer of a message whose seal or insert
\* failed: as long as it is pending without a row, a row is still to come.
UnackedIsRedelivered ==
    \A id \in Ids : (pc = "read" /\ id \in pel /\ ~HasRow(rows, id)) ~> HasRow(rows, id)

=============================================================================
