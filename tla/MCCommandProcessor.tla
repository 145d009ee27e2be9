------------------------- MODULE MCCommandProcessor -------------------------
(* Model values for CommandProcessor. *)
EXTENDS CommandProcessor, TLC

CONSTANTS b1, b2, ui, loader
=============================================================================
