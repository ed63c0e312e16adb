----------------------------- MODULE MCRpcCall ------------------------------
(* A small instance of RpcCall: an edit of the original and a write that   *)
(* overwrites whatever there is.                                           *)
EXTENDS RpcCall, TLC

CONSTANTS a1, a2, edit, other

EditGuarded == edit :> Original @@ other :> Unconditional
=============================================================================
