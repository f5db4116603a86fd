---------------------------- MODULE MC_Backends ----------------------------
(* Instances of Backends for TLC. *)
EXTENDS Backends

EveryKind == AllKinds
FirecrackerOnly == {"firecracker"}
=============================================================================
