-------------------------- MODULE MCDaemonEndpoint --------------------------
(* A small instance of DaemonEndpoint. *)
EXTENDS DaemonEndpoint
=============================================================================
