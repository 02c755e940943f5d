-------------------------- MODULE MCDaemonSession --------------------------
(* DaemonSession on a small instance: file transfers and a stream. *)
EXTENDS DaemonSession
=============================================================================
