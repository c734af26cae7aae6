--------------------------- MODULE MC_Scheduler ---------------------------
(* Two lanes, three entries of which the middle one is the seed, two       *)
(* families; weights that sum up to 1, 2, 2 and 3.                         *)
EXTENDS Scheduler

WeightsMC == <<1, 1, 1, 1>>
TableMC   == <<"a", "b">>
=============================================================================
