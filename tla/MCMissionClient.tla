---------------------------- MODULE MCMissionClient ----------------------------
(* Instances of MissionClient for TLC. Handlers are alike, and so are polls. *)
EXTENDS MissionClient, TLC

ClientSymmetry == Permutations(Jobs) \cup Permutations(Polls) \cup Permutations(Missions)
=============================================================================
