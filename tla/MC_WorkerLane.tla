--------------------------- MODULE MC_WorkerLane ---------------------------
(* One lane, three inputs (harmless, crashing, hanging) and the empty one, *)
(* which crashes too.                                                      *)
EXTENDS WorkerLane

CONSTANTS good, crash, hang

MCInputs   == {good, crash, hang}
MCCrashing == {crash, Empty}
MCHanging  == {hang}
=============================================================================
