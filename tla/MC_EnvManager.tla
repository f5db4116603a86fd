--------------------------- MODULE MC_EnvManager ---------------------------
(* Constants for model-checking EnvManager: two commands, the second of    *)
(* which takes twice as long as the first.                                 *)
EXTENDS EnvManager

MCCommand == {"set", "build"}
OneCommand == {"set"}
MCDuration == [c \in MCCommand |-> IF c = "set" THEN 1 ELSE 2]
UnitDuration == [c \in OneCommand |-> 1]

AllFaults == FaultKinds
TimeoutFault == {"exec_timeout"}
NoFaults == {}
=============================================================================
