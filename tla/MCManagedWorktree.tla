--------------------------- MODULE MCManagedWorktree ---------------------------
(* Small instances of ManagedWorktree. *)
EXTENDS ManagedWorktree

\* No call fails or dies in the run about coalescing: that is a specification
\* of its own, with calls, git and fairness only.
CalmNext == \E c \in Calls : Open(c) \/ Step(c) \/ GitStep(c)
CalmSpec == Init /\ [][CalmNext]_vars

=============================================================================
