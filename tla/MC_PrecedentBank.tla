------------------------- MODULE MC_PrecedentBank -------------------------
(* The precedents, in two parts that run one at a time.                    *)
(*                                                                         *)
(* The bank, with content ids numbered in their sort order: two roots, two *)
(* lanes, four revisions, two admissions and a restart; batches in which   *)
(* the axis rests, barely moves, moves without a run, and moves on.        *)
(*                                                                         *)
(* The shapes: six entries of a lineage, so that generations 2, 3 and 4    *)
(* lie at least Lookback before a crash in generation 6, and a shape may   *)
(* last through some of them only; one or two signals move, up and down,   *)
(* and one disappears.                                                     *)
EXTENDS PrecedentBank, LineageShapes

CONSTANTS MaxId

MCIds == 1..MaxId

MC_Summaries ==
  {[moved |-> m, run |-> r, bucket |-> b] : m \in 1..2, r \in 1..2, b \in 1..3}
    \cup {[moved |-> 0, run |-> 0, bucket |-> 0]}

MC_Recipe == [moved |-> 2, run |-> 2, bucket |-> 3]

MC_Observations ==
  {[touched |-> {1}, value |-> [i \in {1} |-> v]] : v \in {1, 3}} \cup
  {[touched |-> {1, 2}, value |-> [i \in {1, 2} |-> 2]]}

MC_Init == Init /\ ShapesInit

MC_Next ==
  \/ ShapesInit /\ Next /\ UNCHANGED shapeVars
  \/ Init /\ ShapesNext /\ UNCHANGED vars

MC_Spec == MC_Init /\ [][MC_Next]_<<vars, shapeVars>>
=============================================================================
