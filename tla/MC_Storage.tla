---------------------------- MODULE MC_Storage ----------------------------
(* The two durable formats, one at a time: the crash ledger on two         *)
(* coordinates and four commits per writer, enough for both slots to be    *)
(* overwritten once by each; the store with two objects of one directory   *)
(* and one ref, one process, a kill and a power failure.                   *)
EXTENDS CrashLedger, ObjectStore, TLC

CONSTANTS c1, c2

MCCoords == {c1, c2}

MCDirs == {"objects", "refs"}

MCDirOf == [q \in Finals |-> IF q = Ref THEN "refs" ELSE "objects"]

(* The ids are alike. *)
MCSymmetry == Permutations(Ids)

MC_Init == Init /\ StoreInit

MC_Next ==
  \/ StoreInit /\ Next /\ UNCHANGED storeVars
  \/ Init /\ StoreNext /\ UNCHANGED vars

MC_Spec == MC_Init /\ [][MC_Next]_<<vars, storeVars>>
=============================================================================
