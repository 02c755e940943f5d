------------------------------- MODULE Call -------------------------------
(***************************************************************************)
(* What one command of the CLI promises its caller about the one request   *)
(* it makes (README.md, "Output contract"): success means that the daemon  *)
(* carried the request out; a failure reported with retry_safe = true      *)
(* means that it did not and never will; after any other failure it may or *)
(* may not have, and may still do so after the command has ended.  In no   *)
(* case is the request carried out twice.                                  *)
(***************************************************************************)
EXTENDS Naturals

VARIABLES
    ran,    \* how often the daemon carried the request out
    told    \* what the command reported

vars == <<ran, told>>

Init == ran = 0 /\ told = "none"

\* The daemon carries the request out.
Run ==
    /\ ran = 0 /\ told \notin {"ok", "retry_safe"}
    /\ ran' = 1 /\ UNCHANGED told

\* The command ends.
Report(r) ==
    /\ told = "none" /\ told' = r
    /\ r = "ok" => ran = 1
    /\ r = "retry_safe" => ran = 0
    /\ UNCHANGED ran

Next == Run \/ \E r \in {"ok", "retry_safe", "failed"} : Report(r)

Spec == Init /\ [][Next]_vars
=============================================================================
