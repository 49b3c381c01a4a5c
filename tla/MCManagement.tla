----------------------------- MODULE MCManagement -----------------------------
(* An instance of Workbench for TLC: one merchant whose draft two handlers  *)
(* edit, and one simulation that two requests and the shutdown share.      *)
EXTENDS Workbench, TLC

Symmetry ==
    Permutations(Handlers) \cup Permutations(Requests) \cup
    Permutations(Roots) \cup Permutations(Contracts)
MCWritten ==
    {[override |-> "bad", catalog |-> "c0", families |-> "f1", manifest |-> "none"]}
MCDatasets == {[catalog |-> "c0", families |-> "f1"]}
=============================================================================
