--------------------------- MODULE CommitRegister ---------------------------
(***************************************************************************)
(* What the crash ledger promises its reader, with no slots, sequence      *)
(* fields or checksums: a register that holds the argument of the newest   *)
(* complete commit.  A commit takes effect at one instant before it        *)
(* returns, or never when the writer dies first; death itself leaves the   *)
(* register alone, and only a new writer empties it.                       *)
(***************************************************************************)
EXTENDS Naturals

CONSTANTS
  Coords,     (* The mutation coordinates a worker can commit. *)
  MaxSeq,     (* Bound on the commits of one writer.           *)
  None        (* No commit / no operation.                     *)

VARIABLES
  reg,        (* None or [seq, coord]: what a reader finds.    *)
  op,         (* None, or the argument of a commit in progress *)
  up          (* Is the writer's process alive?                *)

vars == <<reg, op, up>>

SeqOf(r) == IF r = None THEN 0 ELSE r.seq

Init == reg = None /\ op = None /\ up = TRUE

Call(c) ==
  /\ up /\ op = None
  /\ SeqOf(reg) < MaxSeq
  /\ op' = c
  /\ UNCHANGED <<reg, up>>

(* The one instant at which the commit becomes what a reader finds. *)
Apply ==
  /\ up /\ op # None
  /\ reg' = [seq |-> SeqOf(reg) + 1, coord |-> op]
  /\ op' = None
  /\ UNCHANGED up

Die == up /\ up' = FALSE /\ UNCHANGED <<reg, op>>

Reopen ==
  /\ ~up /\ up' = TRUE
  /\ reg' = None /\ op' = None

Next ==
  \/ \E c \in Coords : Call(c)
  \/ Apply
  \/ Die
  \/ Reopen

Spec == Init /\ [][Next]_vars
=============================================================================
