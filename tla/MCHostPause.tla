---------------------------- MODULE MCHostPause ----------------------------
(* HostPause on a title screen (level 90), a local mission and the same      *)
(* mission in a network session; one mission suffices for the eligible case. *)
EXTENDS HostPause

MCMissions == {[level |-> 90, players |-> 1, network |-> FALSE],
               [level |-> 1, players |-> 2, network |-> FALSE],
               [level |-> 1, players |-> 2, network |-> TRUE]}
=============================================================================
