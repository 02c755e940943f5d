----------------------------- MODULE MCClient -----------------------------
(* Client on a small instance: every handler, short transfers. *)
EXTENDS Client
=============================================================================
