------------------------- MODULE MC_RegimeEpisodes -------------------------
(* The episodes of a lineage, in two parts that run one at a time.         *)
(*                                                                         *)
(* The regime observer: steps of one to three units against a drift        *)
(* threshold of one and an episode threshold of two.                       *)
(*                                                                         *)
(* The structural substrate: two axes, calibrated by two or three moves,   *)
(* one of which escalates; edges that move none, one or both of them.      *)
EXTENDS RegimeEpisodes, StructuralEpisodes

MCValues == {0, 1, 3}

MC_Policies == <<{1, 3}, {1, 2}>>
MC_Together == {{}, {1}, {1, 2}}

MC_Init == Init /\ StructureInit

MC_Next ==
  \/ StructureInit /\ Next /\ UNCHANGED structureVars
  \/ Init /\ StructureNext /\ UNCHANGED vars

MC_Spec == MC_Init /\ [][MC_Next]_<<vars, structureVars>>
=============================================================================
