---------------------------- MODULE MCWriteQueue ----------------------------
(* A small instance of WriteQueue: a target in each of two services. *)
EXTENDS WriteQueue, TLC

CONSTANTS s1, s2, k1, k2

MCServiceOf == k1 :> s1 @@ k2 :> s2
=============================================================================
