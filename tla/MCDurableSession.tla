--------------------------- MODULE MCDurableSession --------------------------
(* Instance of DurableSession for TLC. *)
EXTENDS DurableSession, TLC

Symmetry ==
    Permutations(LeaseOwners) \cup Permutations(CloseOwners)
        \cup Permutations(CloseOps) \cup Permutations(Operations)
        \cup Permutations(Transitions)
=============================================================================
