--------------------------- MODULE MCMigrationJob ---------------------------
(***************************************************************************)
(* What the comments of the repository say of resuming a migration that    *)
(* its code does not do, for TLC.                                          *)
(***************************************************************************)
EXTENDS MigrationJob

\* runner.go: "Idempotent on resume: stages already at state='done' are
\* skipped. The first failed/pending stage is the resume point."  Then an
\* import of a failed job, or of one the retry button has set to pending, is
\* not turned away at its first open stage.
ResumePointIsReached ==
    \A p \in Imports :
        imp[p].pc = "refused" => imp[p].copy \notin {"failed", "pending"}

=============================================================================
