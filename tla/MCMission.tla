------------------------------ MODULE MCMission ------------------------------
(* Instances of Mission for TLC: requests are interchangeable, and so are missions. *)
EXTENDS Mission, TLC

\* The app names the same user in every mission it creates.
OneUser == [m \in Missions |-> "usr_astroam"]
\* The faults lead to the same files and payments whichever agent signs.
Faults == [shared \in BOOLEAN |-> IF shared THEN 0 ELSE 1]
MissionSymmetry == Permutations(Handlers) \cup Permutations(Missions)
=============================================================================
