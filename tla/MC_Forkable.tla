---------------------------- MODULE MC_Forkable ----------------------------
(* Instances of ForkableManager for TLC. *)
EXTENDS ForkableManager, TLC

CONSTANTS t1, t2, b1, b2

MCThread == {t1, t2}
MCBranch == {Main, b1, b2}
MCGen == 0 .. 2

Waypoint == {"waypoint"}
Docker == {"docker"}
Both == Waypoint \cup Docker

NoFaults == {}
BackendFaults == FaultKinds \ {"other_manager"}
AllFaults == FaultKinds
Shared == {"other_manager"}

\* Threads are interchangeable, and so are the branches but main.
Symmetry == Permutations({t1, t2}) \cup Permutations({b1, b2})
=============================================================================
