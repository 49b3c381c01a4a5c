--------------------------- MODULE MCConversation ----------------------------
(* An instance of Conversation for TLC: an order of customer c1 and one the *)
(* guest placed; two customers, of whom only c1 has a profile and a second  *)
(* payment instrument.                                                      *)
EXTENDS Conversation, TLC

CONSTANTS oA, oP, c1, c2, i1, i2

MCOwner == (oA :> c1) @@ (oP :> Nil)
Symmetry == Permutations(Items)
=============================================================================
