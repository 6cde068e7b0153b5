----------------------------- MODULE MCAppInstalls -----------------------------
(* Instances of AppInstalls: where installs are asked for.                    *)
EXTENDS AppInstalls, TLC

\* The document root of one domain; clones go to the other, and what the owner
\* uploads may be anywhere.
OneDocroot == {<<CHOOSE d \in Domains : TRUE, Root>>}

================================================================================
