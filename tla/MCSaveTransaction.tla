------------------------- MODULE MCSaveTransaction -------------------------
(* The bounds are in the configurations.                                    *)
EXTENDS SaveTransaction
=============================================================================
