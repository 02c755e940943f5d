------------------------------ MODULE MCExec ------------------------------
(* Exec on a small instance: both tools, and every choice of streams. *)
EXTENDS Exec
=============================================================================
