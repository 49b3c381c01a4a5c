---------------------------- MODULE MCSessionClose ---------------------------
(* Instances of SessionClose for TLC: one or two lease holders with their   *)
(* bound closers, and one or two reapers.                                   *)
EXTENDS SessionClose, TLC

CONSTANTS w1, w2, l1, l2

OneCloser == [o \in {w1} |-> l1]
TwoClosers == [o \in {w1, w2} |-> IF o = w1 THEN l1 ELSE l2]

(* No closer consults the history of granted claims, so states that differ  *)
(* only in it are the same.                                                 *)
WithoutClaims ==
    <<row, gens, receipts, storage, issued, quiet, saver, closer, registrant,
      carried, faults, due>>
=============================================================================
