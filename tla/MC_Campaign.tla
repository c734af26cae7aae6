---------------------------- MODULE MC_Campaign ----------------------------
(* The campaign loop on two lanes, with a limit of three results and       *)
(* without one.  Workers die as often as they like.  The bound is in the   *)
(* .cfg files: with three frames an order and two heartbeats can be in a   *)
(* lane's pipes, so that a reply meets the next order.                     *)
EXTENDS Campaign

MCExecLimits == {3, NoLimit}
=============================================================================
