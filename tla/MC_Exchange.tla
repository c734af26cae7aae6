---------------------------- MODULE MC_Exchange ----------------------------
(* What coordinator and worker exchange, and what the worker computes it   *)
(* from, in parts that run one at a time.                                  *)
(*                                                                         *)
(* The features that travel: two lanes, two features, orders of two        *)
(* executions of which a result has room for one, one death.  Neither      *)
(* lanes nor features are told apart by the code, so their permutations    *)
(* are symmetries.  The batch of one worker.  Every payload.               *)
(*                                                                         *)
(* The kernels: vectors of two bytes and buffers of up to four, so that    *)
(* there are none, one and two whole chunks, each with and without a tail; *)
(* up to three counter arrays for a registry of two.                       *)
(*                                                                         *)
(* The mutators: bytes of one bit, windows of one, two and four bytes,     *)
(* inputs of up to four; two hits that may follow on each other.           *)
EXTENDS FeatureSync, WorkerBatch, Codecs, Kernels, Mutation

CONSTANTS c1, k1, e1, s1, o1, w1

MC_Pushes == {<<>>, <<Switch, c1>>}

(* The window's own comparison takes the room of the target's hit, or      *)
(* pushes the oldest event of the target out of the ring.                  *)
MC_Around == {[before |-> <<k1>>, after |-> <<>>], [before |-> <<>>, after |-> <<k1>>]}

MC_Formats == DOMAIN Layouts

MC_Cells == {{}, {1}, {1, 2}}

MC_Entries == {<<>>, <<1>>, <<1, 0, 1>>}

MC_HitLists ==
  {<<>>, <<[w |-> 1, v |-> 1]>>} \cup
  {<<[w |-> k, v |-> n], [w |-> 1, v |-> 0]>> : k \in {2, 4}, n \in {2, 3}}

Symmetry == Permutations(Features) \cup Permutations(Lanes)

SyncInit == Init /\ known = {}

MC_Init == Init /\ BatchInit /\ CodecsInit /\ KernelsInit /\ MutationInit

MC_Next ==
  \/ /\ BatchInit /\ CodecsInit /\ KernelsInit /\ MutationInit
     /\ Next /\ UNCHANGED <<batch, msg, kernelVars, mutationVars>>
  \/ /\ SyncInit /\ CodecsInit /\ KernelsInit /\ MutationInit
     /\ BatchNext /\ UNCHANGED <<vars, msg, kernelVars, mutationVars>>
  \/ /\ SyncInit /\ BatchInit /\ KernelsInit /\ MutationInit
     /\ CodecsNext /\ UNCHANGED <<vars, batch, kernelVars, mutationVars>>
  \/ /\ SyncInit /\ BatchInit /\ CodecsInit /\ MutationInit
     /\ KernelsNext /\ UNCHANGED <<vars, batch, msg, mutationVars>>
  \/ /\ SyncInit /\ BatchInit /\ CodecsInit /\ KernelsInit
     /\ MutationNext /\ UNCHANGED <<vars, batch, msg, kernelVars>>

MC_Spec ==
  MC_Init /\ [][MC_Next]_<<vars, batch, msg, kernelVars, mutationVars>>
=============================================================================
