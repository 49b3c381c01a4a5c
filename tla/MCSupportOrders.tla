---------------------------- MODULE MCSupportOrders ----------------------------
(* Instances of SupportOrders for TLC.  p1 and p2 are being prepared, d was *)
(* delivered; a refund of 1 of d needs no return, one of 2, which is all,   *)
(* does, and one of 3 needs a person.                                       *)
EXTENDS SupportOrders

CONSTANTS s1, s2, p1, p2, d

Price == [o \in Orders |-> 2]

(* The first session may change every order, others not the second one.     *)
Shared == [s \in Sessions |-> IF s = s1 THEN Orders ELSE Orders \ {p2}]
=============================================================================
