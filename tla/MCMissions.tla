------------------------------ MODULE MCMissions ------------------------------
(***************************************************************************)
(* Missions for TLC.  Nothing distinguishes players, mission ids or handler *)
(* goroutines, so the run that checks no liveness reduces by permutations.  *)
(***************************************************************************)
EXTENDS Missions, TLC

Symmetry == Permutations(Players) \cup Permutations(MissionIds)
              \cup Permutations(Calls)
=============================================================================
