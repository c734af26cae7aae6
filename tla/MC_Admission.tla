--------------------------- MODULE MC_Admission ---------------------------
(* Two seeds, one of them in two files; ids sort with and against the order*)
(* of admission.                                                           *)
EXTENDS Admission

MCInputs == 1..5
MCSeeds  == <<2, 1, 2>>
MCValues == 0..1
=============================================================================
