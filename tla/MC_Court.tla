------------------------------ MODULE MC_Court ------------------------------
(* What is done with a finding, in two parts that run one at a time.       *)
(*                                                                         *)
(* The court: two inputs and two oracles; the first oracle disagrees with  *)
(* the target on both inputs, the second on one.  A campaign with an       *)
(* authority compiles claims and publishes; one without does not.          *)
(*                                                                         *)
(* Minimization: pairs of inputs of up to two bytes out of two letters     *)
(* that are two apart, for targets that one to three inputs kill, or all   *)
(* but one or two; tmin on inputs of up to three bytes, for targets that   *)
(* one of three and one or two shorter ones kill; corpora of three entries *)
(* and three features.                                                     *)
EXTENDS Court, Minimization

CONSTANTS i1, i2, o1, o2, v1

MC_Divergent == {<<i1, o1>>, <<i2, o1>>, <<i1, o2>>}

MC_Configs == {[version |-> v1, claim |-> TRUE, gemel |-> TRUE],
               [version |-> None, claim |-> FALSE, gemel |-> FALSE]}

MC_Text(n) == UNION {[1..k -> Letters] : k \in 0..n}
MC_Inputs2 == MC_Text(2)
MC_Inputs1 == MC_Text(3)

MC_Targets2 ==
  {dies \in SUBSET Inputs2 : Cardinality(dies) \in 1..3 \cup 5..6}
MC_Targets1 ==
  {{x, y, z} : x \in Inputs1 \ Inputs2, y \in Inputs2, z \in Inputs2}

MC_Corpora == [1..3 -> [features : SUBSET {1, 2, 3}, size : 1..2]]

MC_Init == Init /\ MinInit

MC_Next ==
  \/ MinInit /\ Next /\ UNCHANGED minVars
  \/ Init /\ oracle = o1 /\ config.claim /\ MinNext /\ UNCHANGED vars

MC_Spec == MC_Init /\ [][MC_Next]_<<vars, minVars>>
=============================================================================
