----------------------------- MODULE MC_Search -----------------------------
(* Instance of SearchWorkflow for TLC. *)
EXTENDS SearchWorkflow

MCFanouts == {2, 3}
MCGenerations == {1, 2}
MCTargets == {-1, 0, 1, 5}
=============================================================================
