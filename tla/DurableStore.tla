---------------------------- MODULE DurableStore ----------------------------
(* What the object store promises the rest of the program of its names:    *)
(* nothing but a power failure removes an object, and nothing at all one   *)
(* that is kept: what has outlived a power failure is, and so is what was  *)
(* put well enough before.  That its bytes are whole is FsckPasses of      *)
(* ObjectStore.                                                            *)
EXTENDS FiniteSets

CONSTANT Ids

VARIABLES
  stored,   (* The objects a reader finds.                                 *)
  kept      (* Those no power failure can remove any more.                 *)

Init == stored = {} /\ kept = {}

Appear(i) == i \notin stored /\ stored' = stored \cup {i} /\ kept' = kept

Keep(i) == i \in stored \ kept /\ kept' = kept \cup {i} /\ stored' = stored

PowerFails(lost) ==
  /\ lost \subseteq stored \ kept
  /\ stored' = stored \ lost /\ kept' = stored'

Next ==
  \/ \E i \in Ids : Appear(i)
  \/ \E i \in Ids : Keep(i)
  \/ \E lost \in SUBSET stored : PowerFails(lost)

Spec == Init /\ [][Next]_<<stored, kept>>
=============================================================================
