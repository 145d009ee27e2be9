-------------------------- MODULE MCLaunchRecovery --------------------------
(* Two configurations of the player suffice: properties compare contents for  *)
(* equality only.                                                            *)
EXTENDS LaunchRecovery
CONSTANTS o1, o2
MCOwn == {o1, o2}
=============================================================================
