--------------------------- MODULE MCCartCheckout ----------------------------
(* Instance of CartCheckout for TLC.                                        *)
EXTENDS CartCheckout
=============================================================================
