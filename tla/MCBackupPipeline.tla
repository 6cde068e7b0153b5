-------------------------- MODULE MCBackupPipeline --------------------------
(***************************************************************************)
(* Small instances of BackupPipeline: the rows that requests and schedules *)
(* ask for.                                                                *)
(***************************************************************************)
EXTENDS BackupPipeline

Row(k, u, d) == [kind |-> k, user |-> u, dest |-> d]

\* one row per user and destination, as an API request asks for it
AccountRows == {Row("account", u, d) : u \in Users, d \in Repos}
SystemRows == {Row("system", "system", d) : d \in Dests}
RestoreRows == {Row("restore", u, d) : u \in Users, d \in Dests}
RequestRows == AccountRows \union RestoreRows

=============================================================================
