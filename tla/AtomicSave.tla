----------------------------- MODULE AtomicSave -----------------------------
(***************************************************************************)
(* What ge_save_manager.h promises of the player's save: an operation names *)
(* the save it is to install, and either that save replaces the current one *)
(* in one step or nothing happens.  Only the game writes anything else.     *)
(***************************************************************************)
CONSTANT Saves   \* what the save may hold

VARIABLES
  save,   \* the save a game would find
  goal    \* the save the operation under way is to install

vars == <<save, goal>>

Init == save \in Saves /\ goal = save

Ask == goal' \in Saves /\ UNCHANGED save
Install == save' = goal /\ UNCHANGED goal
Play == save' \in Saves /\ goal' = save'

Next == Ask \/ Install \/ Play

Spec == Init /\ [][Next]_vars
=============================================================================
