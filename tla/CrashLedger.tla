---------------------------- MODULE CrashLedger ----------------------------
(***************************************************************************)
(* The per-worker crash ledger (execute/crash_ledger.rs): two slots in a   *)
(* shared mapping, written ping-pong by the worker before every execution  *)
(* and read by the coordinator after the worker has died.                  *)
(*                                                                         *)
(* A commit is five plain stores into one slot.  The module documentation  *)
(* argues that the order of those stores does not matter, so the model     *)
(* lets them land in ANY order (the compiler may reorder plain stores, and *)
(* a copy of 49 bytes is not one store: the coordinate has two halves).    *)
(* The process can die between any two stores.  CRC-32 is taken to be      *)
(* collision-free: a stored checksum is the body it was computed from.     *)
(***************************************************************************)
EXTENDS Integers, FiniteSets

CONSTANTS
  Coords,     (* The mutation coordinates a worker can commit.             *)
  Zero,       (* The content of a zero-filled coordinate field.            *)
  MaxSeq,     (* Bound on the commits of one writer; the code's u64 does   *)
              (* not wrap within the life of a worker process.             *)
  None,       (* "no commit": Ok(None) of the reader.                      *)
  Damaged     (* Err of the reader: magic present, no valid slot.          *)

ASSUME CoordsAssumption == Zero \notin Coords /\ None \notin Coords
ASSUME MaxSeqAssumption == MaxSeq \in Nat
ASSUME ResultAssumption ==
  None # Damaged /\ \A s \in 0..MaxSeq, c \in Coords \cup {Zero} :
    [seq |-> s, coord |-> c] # None /\ [seq |-> s, coord |-> c] # Damaged

VARIABLES
  slot,       (* The two slots of the mapping: their body and their CRC.   *)
  todo,       (* The stores of the commit in progress that have not landed.*)
  new,        (* The body the commit in progress writes.                   *)
  target,     (* The slot it writes.                                       *)
  alive       (* Is the worker process alive?                              *)

vars == <<slot, todo, new, target, alive>>

Slots == {0, 1}
Parts == {"magic", "seq", "lo", "hi", "crc"}

Body == [magic : BOOLEAN, seq : 0..MaxSeq,
         lo : Coords \cup {Zero}, hi : Coords \cup {Zero}]

ZeroBody == [magic |-> FALSE, seq |-> 0, lo |-> Zero, hi |-> Zero]
ZeroSlot == [body |-> ZeroBody, crc |-> ZeroBody]

-----------------------------------------------------------------------------
(* The writer. *)

Open == [i \in Slots |-> ZeroSlot]

(* Slip: one slot. *)
NextSlotSingle == 0

NextSlot == IF slot[0].body.seq <= slot[1].body.seq THEN 0 ELSE 1

NextSeq ==
  (IF slot[0].body.seq <= slot[1].body.seq
     THEN slot[1].body.seq ELSE slot[0].body.seq) + 1

Writing == todo # {}

(* commit_raw up to the first store: slot and sequence number are computed *)
(* before the body is borrowed.                                            *)
BeginCommit(c) ==
  /\ alive /\ ~Writing
  /\ NextSeq <= MaxSeq
  /\ target' = NextSlot
  /\ new' = [magic |-> TRUE, seq |-> NextSeq, lo |-> c, hi |-> c]
  /\ todo' = Parts
  /\ UNCHANGED <<slot, alive>>

(* The slot t after one store of the commit has landed in it. *)
AfterStore(t, p) ==
  [body |-> [magic |-> IF p = "magic" THEN new.magic ELSE t.body.magic,
             seq   |-> IF p = "seq"   THEN new.seq   ELSE t.body.seq,
             lo    |-> IF p = "lo"    THEN new.lo    ELSE t.body.lo,
             hi    |-> IF p = "hi"    THEN new.hi    ELSE t.body.hi],
   crc  |-> IF p = "crc" THEN new ELSE t.crc]

StorePart(p) ==
  /\ alive /\ p \in todo
  /\ slot' = [slot EXCEPT ![target] = AfterStore(slot[target], p)]
  /\ todo' = todo \ {p}
  /\ UNCHANGED <<new, target, alive>>

(* The process dies, wherever it is: abort, signal, OOM kill. *)
Die ==
  /\ alive /\ alive' = FALSE
  /\ UNCHANGED <<slot, todo, new, target>>

(* A restarted worker opens the ledger: truncated, sized, zero-filled. *)
Reopen ==
  /\ ~alive /\ alive' = TRUE
  /\ slot' = Open
  /\ todo' = {}
  /\ UNCHANGED <<new, target>>

Init ==
  /\ slot = Open
  /\ todo = {}
  /\ new = ZeroBody
  /\ target = 0
  /\ alive = TRUE

Next ==
  \/ \E c \in Coords : BeginCommit(c)
  \/ \E p \in Parts : StorePart(p)
  \/ Die
  \/ Reopen

Spec == Init /\ [][Next]_vars

-----------------------------------------------------------------------------
(* The reader. *)

HasMagic(i) == slot[i].body.magic

(* Slip: the checksum is not compared. *)
ValidByMagic(i) == HasMagic(i)

Valid(i)    == HasMagic(i) /\ slot[i].crc = slot[i].body

CommitAt(i) == [seq |-> slot[i].body.seq, coord |-> slot[i].body.lo]

(* latest_raw: the valid slot with the greatest sequence number, slot 0    *)
(* on a tie (a later slot must be strictly newer to replace the best).     *)
LatestRaw ==
  IF Valid(0) /\ (Valid(1) => slot[0].body.seq >= slot[1].body.seq)
    THEN CommitAt(0)
  ELSE IF Valid(1) THEN CommitAt(1)
  ELSE IF HasMagic(0) \/ HasMagic(1) THEN Damaged
  ELSE None

Found == LatestRaw \notin {None, Damaged}

-----------------------------------------------------------------------------
(* What must hold. *)

TypeOK ==
  /\ slot \in [Slots -> [body : Body, crc : Body]]
  /\ todo \subseteq Parts
  /\ new \in Body
  /\ target \in Slots
  /\ alive \in BOOLEAN

(* A slot the reader accepts holds one commit, never a mix of two: both    *)
(* halves of its coordinate come from the same call, which a worker really *)
(* made.  (The module's claim that any torn state fails the CRC, for every *)
(* order in which the stores may land.)                                    *)
TornNeverWins ==
  \A i \in Slots : Valid(i) => /\ slot[i].body.lo = slot[i].body.hi
                               /\ slot[i].body.lo \in Coords
                               /\ slot[i].body.seq > 0

(* While a commit is being written, the commit before it stays readable in *)
(* the other slot: the ping-pong never overwrites the newest one.          *)
PreviousStaysReadable ==
  Writing /\ new.seq > 1 =>
    /\ Valid(1 - target)
    /\ slot[1 - target].body.seq = new.seq - 1

(* The reader reports damage only when the very first commit of this       *)
(* writer was torn: after one complete commit a reader always finds one.   *)
DamageOnlyInFirstCommit ==
  LatestRaw = Damaged => Writing /\ new.seq = 1

(* Until a new writer opens the ledger, what the reader would find is      *)
(* replaced only by the commit in progress, one sequence number newer.     *)
LatestAdvancesByOne ==
  [][ \/ LatestRaw' = LatestRaw
      \/ Reopen
      \/ LatestRaw' = Damaged /\ LatestRaw = None
      \/ /\ LatestRaw' = [seq |-> new.seq, coord |-> new.lo]
         /\ new.seq = (IF Found THEN LatestRaw.seq ELSE 0) + 1 ]_vars

-----------------------------------------------------------------------------
(* The inductive invariant behind the properties above. *)

Whole(b) == b.magic /\ b.seq > 0 /\ b.lo = b.hi /\ b.lo \in Coords

(* A slot no commit is writing: never written, or one complete commit. *)
Settled(i) ==
  \/ slot[i] = ZeroSlot
  \/ Whole(slot[i].body) /\ slot[i].crc = slot[i].body

(* Between commits the two slots are settled and hold neighbours. *)
QuietInv ==
  ~Writing =>
    /\ Settled(0) /\ Settled(1)
    /\ \/ slot[0].body.seq = 0 /\ slot[1].body.seq = 0
       \/ slot[0].body.seq = slot[1].body.seq + 1
       \/ slot[1].body.seq = slot[0].body.seq + 1

(* During a commit the other slot holds its predecessor, and each part of  *)
(* the target is the new one, or is left from a commit two or more older.  *)
WritingInv ==
  Writing =>
    /\ Whole(new)
    /\ Settled(1 - target)
    /\ slot[1 - target].body.seq = new.seq - 1
    /\ "magic" \notin todo => slot[target].body.magic
    /\ "lo" \notin todo => slot[target].body.lo = new.lo
    /\ "hi" \notin todo => slot[target].body.hi = new.hi
    /\ "seq" \notin todo => slot[target].body.seq = new.seq
    /\ "seq" \in todo => \/ slot[target].body.seq = 0
                        \/ slot[target].body.seq < new.seq - 1
    /\ "crc" \notin todo => slot[target].crc = new
    /\ "crc" \in todo => \/ slot[target].crc = ZeroBody
                        \/ /\ Whole(slot[target].crc)
                           /\ slot[target].crc.seq < new.seq - 1

IInv == TypeOK /\ QuietInv /\ WritingInv

-----------------------------------------------------------------------------
(* The refinement: the ledger implements CommitRegister. *)

Applied == Valid(target) /\ slot[target].body = new

Register == INSTANCE CommitRegister WITH
  reg <- IF Found THEN LatestRaw ELSE None,
  op  <- IF Writing /\ ~Applied THEN new.lo ELSE None,
  up  <- alive

(* Every behaviour of the ledger is one of the atomic register: a reader   *)
(* sees each commit whole or not at all, and the newest complete one.      *)
ImplementsRegister == Register!Spec
=============================================================================
