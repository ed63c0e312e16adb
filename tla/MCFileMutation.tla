--------------------------- MODULE MCFileMutation ---------------------------
(* An instance of FileMutation: one entry that two daemons write. *)
EXTENDS FileMutation, TLC

CONSTANTS s1, s2, k1, k2, f1, v1, v2

\* The same entry as a target of two daemon processes.
TwoServicesOf == k1 :> s1 @@ k2 :> s2
SameFileOf == k1 :> f1 @@ k2 :> f1

\* A write without a condition, one that creates, one that replaces, a patch.
MCRequests ==
    LET Ask(kind, expected, content) == [kind |-> kind, expected |-> expected, content |-> content]
    IN  {Ask("write", Unconditional, v2), Ask("write", Absent, v1),
         Ask("write", v1, v2), Ask("patch", v1, v2)}
=============================================================================
