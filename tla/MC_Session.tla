----------------------------- MODULE MC_Session -----------------------------
(* Instances of WaypointSession for TLC. *)
EXTENDS WaypointSession

CONSTANTS m1, m2, b1

MCManager == {m1, m2}
MCFork == {Main, b1}

AllFaults == FaultKinds
SnapshotFault == {"snapshot"}
=============================================================================
