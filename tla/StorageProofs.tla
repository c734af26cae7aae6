---------------------------- MODULE StorageProofs ----------------------------
(***************************************************************************)
(* Theorems about the two durable formats.                                 *)
(*                                                                         *)
(* The crash ledger, for every set of coordinates and every number of      *)
(* commits.  The argument is the one invariant IInv: between commits both  *)
(* slots are whole and hold neighbouring sequence numbers; during one,     *)
(* only the older slot is touched, and whatever subset of the stores has   *)
(* landed, its checksum and its sequence field agree only when both are    *)
(* old or both are new.                                                    *)
(*                                                                         *)
(* The object store, for every set of objects and files and any number of  *)
(* kills and power failures: with one process at a time the bytes are      *)
(* right (ObjectInv), with any number the names stay (SharedInv).          *)
(***************************************************************************)
EXTENDS CrashLedger, ObjectStore, TLAPS

(* The slot the writer picks, and the sequence number it gives the commit: *)
(* it overwrites the older slot and follows the newer one.                 *)
LEMMA PicksOlderSlot ==
  ASSUME TypeOK, QuietInv, ~Writing
  PROVE  /\ NextSlot \in Slots
         /\ NextSeq \in Nat /\ NextSeq > 0
         /\ Settled(NextSlot) /\ Settled(1 - NextSlot)
         /\ slot[1 - NextSlot].body.seq = NextSeq - 1
         /\ \/ slot[NextSlot].body.seq = 0
            \/ slot[NextSlot].body.seq < NextSeq - 1
<1>1. slot[0].body.seq \in 0..MaxSeq /\ slot[1].body.seq \in 0..MaxSeq
  BY DEF TypeOK, Slots, Body
<1>2. CASE slot[0].body.seq <= slot[1].body.seq
  <2>1. NextSlot = 0 /\ NextSeq = slot[1].body.seq + 1
    BY <1>2 DEF NextSlot, NextSeq
  <2>2. slot[0].body.seq = 0 \/ slot[0].body.seq < slot[1].body.seq
    BY <1>1, <1>2 DEF QuietInv
  <2>3. Settled(0) /\ Settled(1) /\ 1 - 0 = 1
    BY DEF QuietInv
  <2>4. Settled(NextSlot) /\ Settled(1 - NextSlot)
    BY <2>1, <2>3
  <2>5. QED
    BY <1>1, <2>1, <2>2, <2>4, MaxSeqAssumption DEF Slots
<1>3. CASE ~(slot[0].body.seq <= slot[1].body.seq)
  <2>1. NextSlot = 1 /\ NextSeq = slot[0].body.seq + 1
    BY <1>3 DEF NextSlot, NextSeq
  <2>2. QED
    BY <1>1, <1>3, <2>1, MaxSeqAssumption DEF QuietInv, Slots, Settled
<1>4. QED BY <1>2, <1>3

(* What one store leaves in the slot it writes. *)
LEMMA StoreEffect ==
  ASSUME TypeOK, NEW p \in Parts, StorePart(p)
  PROVE  /\ slot'[target] = AfterStore(slot[target], p)
         /\ slot'[1 - target] = slot[1 - target]
         /\ slot' \in [Slots -> [body : Body, crc : Body]]
<1>1. target \in Slots /\ 1 - target \in Slots /\ 1 - target # target
  BY DEF TypeOK, Slots
<1>2. slot[target] \in [body : Body, crc : Body] /\ new \in Body
  BY <1>1 DEF TypeOK
<1>3. AfterStore(slot[target], p) \in [body : Body, crc : Body]
  BY <1>2 DEF AfterStore, Body
<1>4. slot' = [slot EXCEPT ![target] = AfterStore(slot[target], p)]
  BY DEF StorePart
<1>5. QED BY <1>1, <1>3, <1>4 DEF TypeOK

(* IInv holds initially. *)
LEMMA InitIInv == Init => IInv
<1>1. ZeroBody \in Body
  BY MaxSeqAssumption DEF ZeroBody, Body
<1>2. ASSUME Init PROVE TypeOK
  BY <1>1, <1>2 DEF Init, TypeOK, Open, ZeroSlot, Slots, Parts
<1>3. ASSUME Init PROVE QuietInv /\ WritingInv
  BY <1>3 DEF Init, QuietInv, WritingInv, Writing, Settled, Open, ZeroSlot,
              ZeroBody, Slots
<1>4. QED BY <1>2, <1>3 DEF IInv

(* A commit that starts finds both slots settled, and picks the older. *)
LEMMA BeginPreserves ==
  ASSUME IInv, NEW c \in Coords, BeginCommit(c)
  PROVE  IInv'
<1> USE DEF BeginCommit
<1>1. TypeOK /\ QuietInv /\ ~Writing
  BY DEF IInv
<1>2. /\ NextSlot \in Slots /\ NextSeq \in Nat /\ NextSeq > 0
      /\ Settled(NextSlot) /\ Settled(1 - NextSlot)
      /\ slot[1 - NextSlot].body.seq = NextSeq - 1
      /\ \/ slot[NextSlot].body.seq = 0
         \/ slot[NextSlot].body.seq < NextSeq - 1
  BY <1>1, PicksOlderSlot
<1>3. TypeOK'
  BY <1>1, <1>2, MaxSeqAssumption DEF TypeOK, Body
<1>4. QuietInv'
  BY DEF QuietInv, Writing, Parts
<1>5. WritingInv'
  <2>1. Whole(new')
    BY <1>2 DEF Whole
  <2>2. Settled(1 - target)' /\ slot'[1 - target'].body.seq = new'.seq - 1
    BY <1>2 DEF Settled
  <2>3. \/ slot'[target'].body.seq = 0
        \/ slot'[target'].body.seq < new'.seq - 1
    BY <1>2
  <2>4. \/ slot'[target'].crc = ZeroBody
        \/ Whole(slot'[target'].crc) /\ slot'[target'].crc.seq < new'.seq - 1
    BY <1>2 DEF Settled, ZeroSlot, Whole
  <2>5. QED
    BY <2>1, <2>2, <2>3, <2>4 DEF WritingInv, Parts
<1>6. QED BY <1>3, <1>4, <1>5 DEF IInv

(* A store into the target keeps every part of it old or new; the last one *)
(* settles it.                                                             *)
LEMMA StorePreserves ==
  ASSUME IInv, NEW p \in Parts, StorePart(p)
  PROVE  IInv'
<1>1. TypeOK /\ Writing /\ p \in todo /\ todo' = todo \ {p}
      /\ new' = new /\ target' = target /\ alive' = alive
  BY DEF IInv, StorePart, Writing
<1>2. /\ slot'[target] = AfterStore(slot[target], p)
      /\ slot'[1 - target] = slot[1 - target]
      /\ slot' \in [Slots -> [body : Body, crc : Body]]
  BY <1>1, StoreEffect
<1>3. TypeOK'
  BY <1>1, <1>2 DEF TypeOK
<1>4. Whole(new) /\ Settled(1 - target)
      /\ slot[1 - target].body.seq = new.seq - 1
  BY <1>1 DEF IInv, WritingInv
<1>5. target \in Slots /\ new \in Body /\ new.seq \in Nat
  BY <1>1, MaxSeqAssumption DEF TypeOK, Body
<1>6. (Settled(1 - target))'
  BY <1>1, <1>2, <1>4 DEF Settled
<1>7. /\ "magic" \notin todo' => slot'[target].body.magic
      /\ "lo" \notin todo' => slot'[target].body.lo = new.lo
      /\ "hi" \notin todo' => slot'[target].body.hi = new.hi
      /\ "seq" \notin todo' => slot'[target].body.seq = new.seq
      /\ "crc" \notin todo' => slot'[target].crc = new
  <2>1. ASSUME "magic" \notin todo' PROVE slot'[target].body.magic
    <3>1. CASE p = "magic"
      BY <1>2, <1>4, <3>1 DEF AfterStore, Whole
    <3>2. CASE p # "magic"
      BY <1>1, <1>2, <2>1, <3>2 DEF IInv, WritingInv, AfterStore
    <3>3. QED BY <3>1, <3>2
  <2>2. "lo" \notin todo' => slot'[target].body.lo = new.lo
    BY <1>1, <1>2 DEF IInv, WritingInv, AfterStore
  <2>3. "hi" \notin todo' => slot'[target].body.hi = new.hi
    BY <1>1, <1>2 DEF IInv, WritingInv, AfterStore
  <2>4. "seq" \notin todo' => slot'[target].body.seq = new.seq
    BY <1>1, <1>2 DEF IInv, WritingInv, AfterStore
  <2>5. "crc" \notin todo' => slot'[target].crc = new
    BY <1>1, <1>2 DEF IInv, WritingInv, AfterStore
  <2>6. QED BY <2>1, <2>2, <2>3, <2>4, <2>5
<1>8. /\ "seq" \in todo' => \/ slot'[target].body.seq = 0
                            \/ slot'[target].body.seq < new.seq - 1
      /\ "crc" \in todo' => \/ slot'[target].crc = ZeroBody
                            \/ /\ Whole(slot'[target].crc)
                               /\ slot'[target].crc.seq < new.seq - 1
  BY <1>1, <1>2 DEF IInv, WritingInv, AfterStore
<1>9. WritingInv'
  BY <1>1, <1>2, <1>4, <1>6, <1>7, <1>8 DEF WritingInv, Whole
<1>10. QuietInv'
  <2>1. SUFFICES ASSUME todo' = {}
                 PROVE  QuietInv'
    BY DEF QuietInv, Writing
  <2>2. slot'[target].body \in Body /\ slot'[target].crc = new
    BY <1>2, <1>5, <1>7, <2>1
  <2>3. slot'[target].body = new
    BY <1>4, <1>5, <1>7, <2>1, <2>2 DEF Body, Whole
  <2>4. (Settled(target))'
    BY <1>1, <1>4, <2>2, <2>3 DEF Settled, Whole
  <2>5. slot'[target].body.seq = slot'[1 - target].body.seq + 1
    BY <1>2, <1>4, <1>5, <2>3
  <2>6. QED
    BY <1>1, <1>5, <1>6, <2>4, <2>5 DEF QuietInv, Slots
<1>11. QED BY <1>3, <1>9, <1>10 DEF IInv

(* Death changes no byte of the mapping; a new writer zero-fills it. *)
LEMMA StepPreserves == IInv /\ [Next]_vars => IInv'
<1> SUFFICES ASSUME IInv, [Next]_vars PROVE IInv'
  OBVIOUS
<1>1. CASE \E c \in Coords : BeginCommit(c)
  BY <1>1, BeginPreserves
<1>2. CASE \E p \in Parts : StorePart(p)
  BY <1>2, StorePreserves
<1>3. CASE Die
  <2>1. /\ slot' = slot /\ todo' = todo /\ target' = target /\ new' = new
        /\ alive' \in BOOLEAN
    BY <1>3 DEF Die
  <2>2. TypeOK'
    BY <2>1 DEF IInv, TypeOK
  <2>3. QuietInv' /\ WritingInv'
    BY <2>1 DEF IInv, QuietInv, WritingInv, Writing, Settled
  <2>. QED  BY <2>2, <2>3 DEF IInv
<1>4. CASE Reopen
  <2>1. ZeroBody \in Body
    BY MaxSeqAssumption DEF ZeroBody, Body
  <2>2. TypeOK'
    BY <1>4, <2>1 DEF Reopen, IInv, TypeOK, Open, ZeroSlot, Slots, Parts
  <2>3. QuietInv' /\ WritingInv'
    BY <1>4 DEF Reopen, QuietInv, WritingInv, Writing, Settled, Open,
                ZeroSlot, ZeroBody, Slots
  <2>4. QED BY <2>2, <2>3 DEF IInv
<1>5. CASE UNCHANGED vars
  BY <1>5 DEF vars, IInv, TypeOK, QuietInv, WritingInv, Writing, Settled
<1>6. QED BY <1>1, <1>2, <1>3, <1>4, <1>5 DEF Next

(* The strengthened invariant of the ledger. *)
THEOREM LedgerInvariant == Spec => []IInv
<1>1. Init => IInv
  BY InitIInv
<1>2. IInv /\ [Next]_vars => IInv'
  BY StepPreserves
<1>3. QED BY <1>1, <1>2, PTL DEF Spec

-----------------------------------------------------------------------------
(* What the invariant says of the reader. *)

(* A valid slot is whole, and during a commit a valid target is either the *)
(* new commit or one older than its predecessor.                           *)
LEMMA ValidIsWhole ==
  ASSUME IInv, NEW i \in Slots, Valid(i)
  PROVE  /\ Whole(slot[i].body)
         /\ Writing /\ i = target /\ slot[i].body # new =>
              slot[i].body.seq < new.seq - 1
<1>1. CASE ~Writing \/ i # target
  <2>1. Settled(i)
    <3>1. CASE ~Writing
      BY <3>1 DEF IInv, QuietInv, Slots
    <3>2. CASE Writing /\ i # target
      <4>1. i = 1 - target
        BY <3>2 DEF IInv, TypeOK, Slots
      <4>2. QED BY <3>2, <4>1 DEF IInv, WritingInv
    <3>3. QED BY <1>1, <3>1, <3>2
  <2>2. slot[i] # ZeroSlot
    BY DEF Valid, HasMagic, ZeroSlot, ZeroBody
  <2>3. QED BY <1>1, <2>1, <2>2 DEF Settled
<1>2. CASE Writing /\ i = target
  <2>1. slot[i].body.magic /\ slot[i].crc = slot[i].body
    BY DEF Valid, HasMagic
  <2>2. Whole(new)
    BY <1>2 DEF IInv, WritingInv
  <2>3. CASE "crc" \notin todo
    BY <1>2, <2>1, <2>2, <2>3 DEF IInv, WritingInv
  <2>4. CASE "crc" \in todo
    <3>1. slot[i].crc # ZeroBody
      BY <2>1 DEF ZeroBody
    <3>2. Whole(slot[i].crc) /\ slot[i].crc.seq < new.seq - 1
      BY <1>2, <2>4, <3>1 DEF IInv, WritingInv
    <3>3. QED BY <2>1, <3>2
  <2>5. QED BY <2>3, <2>4
<1>3. QED BY <1>1, <1>2

(* A slot the reader accepts was written by one commit call. *)
LEMMA InvTornNeverWins == IInv => TornNeverWins
<1> SUFFICES ASSUME IInv, NEW i \in Slots, Valid(i)
             PROVE  /\ slot[i].body.lo = slot[i].body.hi
                    /\ slot[i].body.lo \in Coords
                    /\ slot[i].body.seq > 0
  BY DEF TornNeverWins
<1>1. QED BY ValidIsWhole DEF Whole

(* The slot not being written holds the predecessor of the commit. *)
LEMMA InvPreviousStaysReadable == IInv => PreviousStaysReadable
<1> SUFFICES ASSUME IInv, Writing, new.seq > 1
             PROVE  /\ Valid(1 - target)
                    /\ slot[1 - target].body.seq = new.seq - 1
  BY DEF PreviousStaysReadable
<1>1. Settled(1 - target) /\ slot[1 - target].body.seq = new.seq - 1
  BY DEF IInv, WritingInv
<1>2. new.seq \in Nat
  BY MaxSeqAssumption DEF IInv, TypeOK, Body
<1>3. slot[1 - target] # ZeroSlot
  BY <1>1, <1>2 DEF ZeroSlot, ZeroBody
<1>4. QED BY <1>1, <1>3 DEF Settled, Whole, Valid, HasMagic

(* Damage is reported only while the first commit is torn. *)
LEMMA InvDamageOnlyInFirstCommit == IInv => DamageOnlyInFirstCommit
<1> SUFFICES ASSUME IInv, LatestRaw = Damaged
             PROVE  Writing /\ new.seq = 1
  BY DEF DamageOnlyInFirstCommit
<1>1. \A i \in Slots : CommitAt(i) # Damaged
  BY ResultAssumption DEF CommitAt, IInv, TypeOK, Body
<1>2. ~Valid(0) /\ ~Valid(1) /\ (HasMagic(0) \/ HasMagic(1))
  BY <1>1, ResultAssumption DEF LatestRaw, Slots
<1>3. Writing
  <2>1. SUFFICES ASSUME ~Writing PROVE FALSE
    OBVIOUS
  <2>2. Settled(0) /\ Settled(1)
    BY <2>1 DEF IInv, QuietInv
  <2>3. QED
    BY <1>2, <2>2 DEF Settled, Whole, Valid, HasMagic, ZeroSlot, ZeroBody
<1>4. new.seq \in Nat /\ new.seq > 0 /\ 1 - target \in Slots
      /\ (1 - target = 0 \/ 1 - target = 1)
  BY <1>3, MaxSeqAssumption DEF IInv, TypeOK, Body, WritingInv, Whole, Slots
<1>5. ~(new.seq > 1)
  <2>1. new.seq > 1 => Valid(1 - target)
    BY <1>3, InvPreviousStaysReadable DEF PreviousStaysReadable
  <2>2. QED BY <1>2, <1>4, <2>1
<1>6. QED BY <1>3, <1>4, <1>5

(* Type correctness of the ledger. *)
THEOREM LedgerTypeOK == Spec => []TypeOK
<1>1. IInv => TypeOK
  BY DEF IInv
<1>2. QED BY <1>1, LedgerInvariant, PTL

(* No reader ever accepts a torn commit, whatever order the stores of a    *)
(* commit land in and wherever the worker dies.                            *)
THEOREM TornCommitNeverWins == Spec => []TornNeverWins
BY LedgerInvariant, InvTornNeverWins, PTL

(* The commit before the one in progress is readable at every instant.     *)
THEOREM PreviousCommitReadable == Spec => []PreviousStaysReadable
BY LedgerInvariant, InvPreviousStaysReadable, PTL

(* "Ledger damage" is an answer only before the first commit is complete.  *)
THEOREM DamageMeansFirstCommit == Spec => []DamageOnlyInFirstCommit
BY LedgerInvariant, InvDamageOnlyInFirstCommit, PTL

-----------------------------------------------------------------------------
(* What a reader finds at each stage of a commit. *)

(* A commit a slot can hold is neither of the reader's other answers. *)
LEMMA CommitIsFound ==
  ASSUME TypeOK, NEW i \in Slots
  PROVE  CommitAt(i) # None /\ CommitAt(i) # Damaged
BY ResultAssumption DEF CommitAt, TypeOK, Body

(* Once the target holds the new commit, the reader finds it: the other    *)
(* slot is one behind.                                                     *)
LEMMA AppliedIsLatest ==
  ASSUME TypeOK, Applied, slot[1 - target].body.seq = new.seq - 1
  PROVE  LatestRaw = [seq |-> new.seq, coord |-> new.lo] /\ Found
<1>1. target \in Slots /\ new.seq \in Nat
  BY MaxSeqAssumption DEF TypeOK, Body
<1>2. CommitAt(target) = [seq |-> new.seq, coord |-> new.lo]
  BY DEF Applied, CommitAt
<1>3. LatestRaw = CommitAt(target)
  <2>1. CASE target = 0
    BY <1>1, <2>1 DEF LatestRaw, Applied
  <2>2. CASE target = 1
    BY <1>1, <2>2 DEF LatestRaw, Applied
  <2>3. QED BY <1>1, <2>1, <2>2 DEF Slots
<1>4. QED BY <1>1, <1>2, <1>3, CommitIsFound DEF Found

(* Until then the reader finds the predecessor, or nothing before the      *)
(* first commit.                                                           *)
LEMMA UnappliedIsPredecessor ==
  ASSUME IInv, Writing, ~Applied
  PROVE  /\ new.seq > 1 =>
              Found /\ LatestRaw = [seq |-> new.seq - 1,
                                    coord |-> slot[1 - target].body.lo]
         /\ new.seq = 1 => ~Found
<1>1. TypeOK /\ target \in Slots /\ 1 - target \in Slots
  BY DEF IInv, TypeOK, Slots
<1>2. new.seq \in Nat /\ slot[1 - target].body.seq = new.seq - 1
  BY MaxSeqAssumption DEF IInv, TypeOK, Body, WritingInv
<1>3. Valid(target) => slot[target].body.seq < new.seq - 1
  <2>1. Valid(target) => slot[target].body # new
    BY DEF Applied
  <2>2. QED BY <1>1, <2>1, ValidIsWhole
<1>4. slot[target].body.seq \in Nat
  BY <1>1, MaxSeqAssumption DEF TypeOK, Body
<1>5. CASE new.seq > 1
  <2>1. Valid(1 - target)
    BY <1>5, InvPreviousStaysReadable DEF PreviousStaysReadable
  <2>2. CommitAt(1 - target) = [seq |-> new.seq - 1,
                                coord |-> slot[1 - target].body.lo]
    BY <1>2 DEF CommitAt
  <2>3. LatestRaw = CommitAt(1 - target)
    <3>1. CASE target = 0
      BY <1>2, <1>3, <1>4, <2>1, <3>1 DEF LatestRaw
    <3>2. CASE target = 1
      BY <1>2, <1>3, <1>4, <2>1, <3>2 DEF LatestRaw
    <3>3. QED BY <1>1, <3>1, <3>2 DEF Slots
  <2>4. QED BY <1>1, <1>5, <2>2, <2>3, CommitIsFound DEF Found
<1>6. CASE new.seq = 1
  <2>1. ~Valid(target)
    BY <1>2, <1>3, <1>4, <1>6
  <2>2. ~Valid(1 - target)
    <3>1. Valid(1 - target) => slot[1 - target].body.seq > 0
      BY <1>1, ValidIsWhole DEF Whole
    <3>2. QED BY <1>2, <1>6, <3>1
  <2>3. ~Valid(0) /\ ~Valid(1)
    BY <1>1, <2>1, <2>2 DEF Slots
  <2>4. QED BY <1>6, <2>3 DEF LatestRaw, Found
<1>7. QED BY <1>2, <1>5, <1>6

(* Between commits the reader finds the commit before the next one. *)
LEMMA QuietIsNextPredecessor ==
  ASSUME IInv, ~Writing
  PROVE  IF Found THEN LatestRaw.seq = NextSeq - 1 ELSE NextSeq = 1
<1>1. /\ TypeOK
      /\ slot[0].body.seq \in Nat /\ slot[1].body.seq \in Nat
      /\ Settled(0) /\ Settled(1)
      /\ \/ slot[0].body.seq = 0 /\ slot[1].body.seq = 0
         \/ slot[0].body.seq = slot[1].body.seq + 1
         \/ slot[1].body.seq = slot[0].body.seq + 1
  BY MaxSeqAssumption DEF IInv, TypeOK, Body, QuietInv, Slots
<1>2. ASSUME NEW i \in Slots PROVE Valid(i) <=> slot[i].body.seq > 0
  <2>1. Settled(i)
    BY <1>1 DEF Slots
  <2>2. QED
    BY <2>1 DEF Settled, Whole, Valid, HasMagic, ZeroSlot, ZeroBody
<1>3. (Valid(0) <=> slot[0].body.seq > 0) /\ (Valid(1) <=> slot[1].body.seq > 0)
  BY <1>2 DEF Slots
<1>4. CASE slot[0].body.seq = 0 /\ slot[1].body.seq = 0
  <2>1. NextSeq = 1 /\ ~Valid(0) /\ ~Valid(1)
    BY <1>3, <1>4 DEF NextSeq
  <2>2. QED BY <2>1 DEF LatestRaw, Found
<1>5. CASE slot[0].body.seq = slot[1].body.seq + 1
  <2>1. LatestRaw = CommitAt(0) /\ NextSeq - 1 = slot[0].body.seq
    BY <1>1, <1>3, <1>5 DEF LatestRaw, NextSeq
  <2>2. QED BY <1>1, <2>1, CommitIsFound DEF Found, CommitAt, Slots
<1>6. CASE slot[1].body.seq = slot[0].body.seq + 1
  <2>1. LatestRaw = CommitAt(1) /\ NextSeq - 1 = slot[1].body.seq
    BY <1>1, <1>3, <1>6 DEF LatestRaw, NextSeq
  <2>2. QED BY <1>1, <2>1, CommitIsFound DEF Found, CommitAt, Slots
<1>7. QED BY <1>1, <1>4, <1>5, <1>6

-----------------------------------------------------------------------------
(* The refinement of CommitRegister, one lemma per action. *)

RegOf == IF Found THEN LatestRaw ELSE None
OpOf  == IF Writing /\ ~Applied THEN new.lo ELSE None

(* The reader's answer is a function of the mapping alone. *)
LEMMA SameSlotsSameReg ==
  ASSUME slot' = slot
  PROVE  LatestRaw' = LatestRaw /\ RegOf' = RegOf /\ (Found' <=> Found)
BY DEF LatestRaw, RegOf, Found, Valid, HasMagic, CommitAt

(* A body is its four fields. *)
LEMMA SameFieldsSameBody ==
  ASSUME NEW a \in Body, NEW b \in Body,
         a.magic = b.magic, a.seq = b.seq, a.lo = b.lo, a.hi = b.hi
  PROVE  a = b
BY DEF Body

(* The state function the register's counter is: 0 before any commit. *)
LEMMA SeqOfReg ==
  ASSUME IInv, NEW r, r = RegOf
  PROVE  Register!SeqOf(r) = IF Found THEN LatestRaw.seq ELSE 0
BY DEF RegOf, Found, Register!SeqOf

(* A commit that starts is a Call of the register. *)
LEMMA BeginIsCall ==
  ASSUME IInv, NEW c \in Coords, BeginCommit(c)
  PROVE  /\ RegOf' = RegOf /\ OpOf = None /\ OpOf' = c
         /\ Register!SeqOf(RegOf) < MaxSeq /\ alive /\ alive' = alive
<1>1. TypeOK /\ ~Writing /\ QuietInv /\ alive /\ alive' = alive /\ slot' = slot
      /\ NextSeq <= MaxSeq
  BY DEF IInv, BeginCommit
<1>2. RegOf' = RegOf
  BY <1>1, SameSlotsSameReg
<1>3. OpOf = None
  BY <1>1 DEF OpOf
<1>4. IInv' /\ Writing' /\ new'.lo = c /\ new'.seq = NextSeq
      /\ target' = NextSlot
  BY BeginPreserves DEF BeginCommit, Writing, Parts
<1>5. ~Applied'
  <2>1. /\ NextSeq \in Nat /\ NextSeq > 0 /\ NextSlot \in Slots
        /\ \/ slot[NextSlot].body.seq = 0
           \/ slot[NextSlot].body.seq < NextSeq - 1
    BY <1>1, PicksOlderSlot
  <2>2. slot[NextSlot].body.seq \in Nat
    BY <1>1, <2>1, MaxSeqAssumption DEF TypeOK, Body
  <2>3. slot'[target'].body # new'
    BY <1>1, <1>4, <2>1, <2>2
  <2>4. QED BY <2>3 DEF Applied
<1>6. OpOf' = c
  BY <1>4, <1>5 DEF OpOf
<1>7. Register!SeqOf(RegOf) < MaxSeq
  <2>1. NextSeq \in Nat /\ NextSeq > 0
    BY <1>1, PicksOlderSlot
  <2>2. Register!SeqOf(RegOf) = IF Found THEN LatestRaw.seq ELSE 0
    BY SeqOfReg
  <2>3. QED BY <1>1, <2>1, <2>2, QuietIsNextPredecessor, MaxSeqAssumption
<1>8. QED BY <1>1, <1>2, <1>3, <1>6, <1>7

(* A store is a stutter of the register, or the instant its commit takes   *)
(* effect.                                                                 *)
LEMMA StoreIsApplyOrStutter ==
  ASSUME IInv, NEW p \in Parts, StorePart(p)
  PROVE  \/ RegOf' = RegOf /\ OpOf' = OpOf
         \/ /\ OpOf # None /\ OpOf' = None
            /\ LatestRaw' = [seq |-> new.seq, coord |-> new.lo] /\ Found'
            /\ RegOf' = [seq |-> new.seq, coord |-> OpOf]
            /\ new.seq = (IF Found THEN LatestRaw.seq ELSE 0) + 1
<1>1. TypeOK /\ Writing /\ p \in todo /\ todo' = todo \ {p}
      /\ new' = new /\ target' = target
  BY DEF IInv, StorePart, Writing
<1>2. /\ slot'[target] = AfterStore(slot[target], p)
      /\ slot'[1 - target] = slot[1 - target]
      /\ slot' \in [Slots -> [body : Body, crc : Body]]
  BY <1>1, StoreEffect
<1>3. IInv' /\ TypeOK'
  BY StorePreserves DEF IInv
<1>4. new.seq \in Nat /\ new.seq > 0 /\ new \in Body /\ target \in Slots
      /\ new.lo \in Coords /\ new.magic
      /\ slot[1 - target].body.seq = new.seq - 1
  BY <1>1, MaxSeqAssumption DEF IInv, TypeOK, Body, WritingInv, Whole
<1>5. CASE Applied
  <2>1. slot[target].body = new /\ slot[target].crc = new
    BY <1>5 DEF Applied, Valid
  <2>2. slot[target] \in [body : Body, crc : Body]
    BY <1>1, <1>4 DEF TypeOK
  <2>3. slot'[target] = slot[target]
    BY <1>2, <1>4, <2>1, <2>2 DEF AfterStore, Body
  <2>4. slot' = slot
    BY <1>1, <1>2, <1>4, <2>3 DEF TypeOK, Slots
  <2>5. RegOf' = RegOf /\ Applied'
    BY <1>1, <1>5, <2>4, SameSlotsSameReg DEF Applied, Valid, HasMagic
  <2>6. QED BY <1>5, <2>5 DEF OpOf
<1>6. CASE ~Applied /\ ~Applied' /\ Writing'
  <2>1. OpOf' = OpOf
    BY <1>1, <1>6 DEF OpOf
  <2>2. /\ new.seq > 1 => Found /\ LatestRaw = [seq |-> new.seq - 1,
                                    coord |-> slot[1 - target].body.lo]
        /\ new.seq = 1 => ~Found
    BY <1>1, <1>6, UnappliedIsPredecessor
  <2>3. /\ new'.seq > 1 => Found' /\ LatestRaw' = [seq |-> new'.seq - 1,
                                    coord |-> slot'[1 - target'].body.lo]
        /\ new'.seq = 1 => ~Found'
    <3>1. ((IInv /\ Writing /\ ~Applied) =>
             /\ new.seq > 1 => Found /\ LatestRaw = [seq |-> new.seq - 1,
                                      coord |-> slot[1 - target].body.lo]
             /\ new.seq = 1 => ~Found)'
      BY UnappliedIsPredecessor, PTL
    <3>2. QED BY <1>3, <1>6, <3>1
  <2>4. RegOf' = RegOf
    BY <1>1, <1>2, <1>4, <2>2, <2>3 DEF RegOf
  <2>5. QED BY <2>1, <2>4
<1>7. CASE ~Applied /\ (Applied' \/ ~Writing')
  <2>1. Applied'
    <3>1. SUFFICES ASSUME ~Writing' PROVE Applied'
      BY <1>7
    <3>2. todo = {p}
      BY <1>1, <3>1 DEF Writing
    <3>3. slot'[target].crc = new
      BY <1>1, <1>2, <3>2 DEF IInv, WritingInv, AfterStore
    <3>4. /\ slot'[target].body.magic = new.magic
          /\ slot'[target].body.seq = new.seq
          /\ slot'[target].body.lo = new.lo
          /\ slot'[target].body.hi = new.hi
      <4>1. /\ "magic" \notin todo' /\ "seq" \notin todo'
            /\ "lo" \notin todo' /\ "hi" \notin todo'
        BY <3>1 DEF Writing
      <4>2. slot'[target].body \in Body
        BY <1>2, <1>4
      <4>3. slot'[target].body.magic
        <5>1. CASE p = "magic"
          BY <1>2, <1>4, <5>1 DEF AfterStore
        <5>2. CASE p # "magic"
          BY <1>1, <1>2, <3>2, <5>2 DEF IInv, WritingInv, AfterStore
        <5>3. QED BY <5>1, <5>2
      <4>4. /\ slot'[target].body.seq = new.seq
            /\ slot'[target].body.lo = new.lo
            /\ slot'[target].body.hi = new.hi
        BY <1>1, <1>2, <3>2 DEF IInv, WritingInv, AfterStore
      <4>5. QED BY <1>4, <4>2, <4>3, <4>4 DEF Body
    <3>5. slot'[target].body = new
      BY <1>2, <1>4, <3>4, SameFieldsSameBody
    <3>6. QED BY <1>1, <1>4, <3>3, <3>5 DEF Applied, Valid, HasMagic
  <2>2. slot'[1 - target'].body.seq = new'.seq - 1
    BY <1>1, <1>2, <1>4
  <2>3. LatestRaw' = [seq |-> new'.seq, coord |-> new'.lo] /\ Found'
    <3>1. ((TypeOK /\ Applied /\ slot[1 - target].body.seq = new.seq - 1) =>
             LatestRaw = [seq |-> new.seq, coord |-> new.lo] /\ Found)'
      BY AppliedIsLatest, PTL
    <3>2. QED BY <1>3, <2>1, <2>2, <3>1
  <2>4. OpOf = new.lo /\ OpOf # None /\ OpOf' = None
    BY <1>1, <1>4, <1>7, <2>1, CoordsAssumption DEF OpOf
  <2>5. new.seq = (IF Found THEN LatestRaw.seq ELSE 0) + 1
    BY <1>1, <1>4, <1>7, UnappliedIsPredecessor
  <2>6. RegOf' = [seq |-> new.seq, coord |-> OpOf]
    BY <1>1, <2>3, <2>4 DEF RegOf
  <2>7. QED BY <1>1, <2>3, <2>4, <2>5, <2>6
<1>8. QED BY <1>5, <1>6, <1>7

(* A new writer empties the register. *)
LEMMA ReopenEmpties ==
  ASSUME Reopen
  PROVE  ~alive /\ alive' /\ RegOf' = None /\ OpOf' = None
<1>1. ~alive /\ alive' /\ slot' = Open /\ todo' = {}
  BY DEF Reopen
<1>2. ~Found'
  BY <1>1 DEF Found, LatestRaw, Valid, HasMagic, Open, ZeroSlot, ZeroBody, Slots
<1>3. QED BY <1>1, <1>2 DEF RegOf, OpOf, Writing

(* The ledger implements the atomic register: each reader sees a commit    *)
(* whole or not at all, and always the newest complete one.                *)
THEOREM LedgerImplementsRegister == Spec => ImplementsRegister
<1>1. Init => Register!Init
  <2>1. SUFFICES ASSUME Init PROVE Register!Init
    OBVIOUS
  <2>2. slot = Open /\ ~Writing /\ alive = TRUE
    BY <2>1 DEF Init, Writing
  <2>3. ~HasMagic(0) /\ ~HasMagic(1)
    BY <2>2 DEF HasMagic, Open, ZeroSlot, ZeroBody, Slots
  <2>4. ~Found
    BY <2>3 DEF Found, LatestRaw, Valid
  <2>5. QED BY <2>2, <2>4 DEF Register!Init
<1>2. IInv /\ [Next]_vars => [Register!Next]_Register!vars
  <2>1. SUFFICES ASSUME IInv, [Next]_vars
                 PROVE  [Register!Next]_Register!vars
    OBVIOUS
  <2>2. CASE \E c \in Coords : BeginCommit(c)
    <3>1. PICK c \in Coords : BeginCommit(c)
      BY <2>2
    <3>2. Register!Call(c)
      BY <2>1, <3>1, BeginIsCall DEF Register!Call, RegOf, OpOf
    <3>3. QED BY <3>2 DEF Register!Next
  <2>3. CASE \E p \in Parts : StorePart(p)
    <3>1. PICK p \in Parts : StorePart(p)
      BY <2>3
    <3>2. alive /\ alive' = alive
      BY <3>1 DEF StorePart
    <3>3. CASE RegOf' = RegOf /\ OpOf' = OpOf
      BY <3>2, <3>3 DEF Register!vars, RegOf, OpOf
    <3>4. CASE /\ OpOf # None /\ OpOf' = None
               /\ RegOf' = [seq |-> new.seq, coord |-> OpOf]
               /\ new.seq = (IF Found THEN LatestRaw.seq ELSE 0) + 1
      <4>1. Register!SeqOf(RegOf) = IF Found THEN LatestRaw.seq ELSE 0
        BY <2>1, SeqOfReg
      <4>2. Register!Apply
        BY <3>2, <3>4, <4>1 DEF Register!Apply, RegOf, OpOf
      <4>3. QED BY <4>2 DEF Register!Next
    <3>5. QED BY <2>1, <3>1, <3>3, <3>4, StoreIsApplyOrStutter
  <2>4. CASE Die
    <3>1. alive /\ ~alive' /\ RegOf' = RegOf /\ OpOf' = OpOf
      BY <2>4, SameSlotsSameReg
      DEF Die, OpOf, Writing, Applied, Valid, HasMagic
    <3>2. Register!Die
      BY <2>4, <3>1 DEF Die, Register!Die, RegOf, OpOf
    <3>3. QED BY <3>2 DEF Register!Next
  <2>5. CASE Reopen
    <3>1. Register!Reopen
      BY <2>5, ReopenEmpties DEF Reopen, Register!Reopen, RegOf, OpOf
    <3>2. QED BY <3>1 DEF Register!Next
  <2>6. CASE UNCHANGED vars
    <3>1. RegOf' = RegOf /\ OpOf' = OpOf /\ alive' = alive
      BY <2>6, SameSlotsSameReg
      DEF vars, OpOf, Writing, Applied, Valid, HasMagic
    <3>2. QED BY <3>1 DEF Register!vars, RegOf, OpOf
  <2>7. QED BY <2>1, <2>2, <2>3, <2>4, <2>5, <2>6 DEF Next
<1>3. QED
  BY <1>1, <1>2, LedgerInvariant, PTL
  DEF Spec, ImplementsRegister, Register!Spec

(* A store never takes the magic out of a slot. *)
LEMMA MagicStays ==
  ASSUME IInv, NEW p \in Parts, StorePart(p), NEW i \in Slots, HasMagic(i)
  PROVE  HasMagic(i)'
<1>1. TypeOK /\ Writing /\ new.magic /\ target \in Slots
  BY DEF IInv, TypeOK, StorePart, Writing, WritingInv, Whole
<1>2. /\ slot'[target] = AfterStore(slot[target], p)
      /\ slot'[1 - target] = slot[1 - target]
  BY <1>1, StoreEffect
<1>3. CASE i = target
  <2>1. slot[target].body.magic
    BY <1>3 DEF HasMagic
  <2>2. slot'[target].body.magic
    BY <1>1, <1>2, <2>1 DEF AfterStore
  <2>3. QED BY <1>3, <2>2 DEF HasMagic
<1>4. CASE i # target
  BY <1>1, <1>2, <1>4 DEF HasMagic, Slots
<1>5. QED BY <1>3, <1>4

(* Between two writers the reader's answer moves only to the commit in     *)
(* progress, one newer (or to "damaged" before the first commit lands).    *)
THEOREM LatestNeverRegresses == Spec => LatestAdvancesByOne
<1> DEFINE Advance ==
      \/ LatestRaw' = LatestRaw
      \/ Reopen
      \/ LatestRaw' = Damaged /\ LatestRaw = None
      \/ /\ LatestRaw' = [seq |-> new.seq, coord |-> new.lo]
         /\ new.seq = (IF Found THEN LatestRaw.seq ELSE 0) + 1
<1>1. ASSUME IInv, NEW p \in Parts, StorePart(p) PROVE Advance
  <2>1. CASE LatestRaw' = [seq |-> new.seq, coord |-> new.lo]
             /\ new.seq = (IF Found THEN LatestRaw.seq ELSE 0) + 1
    BY <2>1
  <2>2. CASE RegOf' = RegOf
    <3>1. CASE Found
      BY <2>2, <3>1 DEF RegOf, Found
    <3>2. CASE ~Found
      <4>1. ~Found'
        BY <2>2, <3>2 DEF RegOf, Found
      <4>2. LatestRaw' \in {None, Damaged} /\ LatestRaw \in {None, Damaged}
        BY <3>2, <4>1 DEF Found
      <4>3. LatestRaw = Damaged => HasMagic(0) \/ HasMagic(1)
        <5>1. TypeOK
          BY <1>1 DEF IInv
        <5>2. CommitAt(0) # Damaged /\ CommitAt(1) # Damaged
          BY <5>1, CommitIsFound DEF Slots
        <5>3. QED BY <5>2, ResultAssumption DEF LatestRaw
      <4>4. LatestRaw = Damaged => (HasMagic(0) \/ HasMagic(1))'
        BY <1>1, <4>3, MagicStays DEF Slots
      <4>5. LatestRaw' = None => ~(HasMagic(0) \/ HasMagic(1))'
        <5>1. TypeOK'
          BY <1>1, StorePreserves DEF IInv
        <5>2. (CommitAt(0) # None /\ CommitAt(1) # None)'
          BY <5>1, ResultAssumption DEF CommitAt, TypeOK, Body, Slots
        <5>3. QED BY <5>2, ResultAssumption DEF LatestRaw
      <4>6. QED BY <4>2, <4>4, <4>5
    <3>3. QED BY <3>1, <3>2
  <2>3. QED BY <1>1, <2>1, <2>2, StoreIsApplyOrStutter
<1>2. IInv /\ [Next]_vars => [Advance]_vars
  <2>1. ASSUME slot' = slot PROVE Advance
    BY <2>1, SameSlotsSameReg
  <2>2. ASSUME NEW c \in Coords, BeginCommit(c) PROVE slot' = slot
    BY <2>2 DEF BeginCommit
  <2>3. Die => slot' = slot
    BY DEF Die
  <2>4. QED BY <1>1, <2>1, <2>2, <2>3 DEF Next
<1>3. QED
  BY <1>2, LedgerInvariant, PTL DEF Spec, LatestAdvancesByOne

-----------------------------------------------------------------------------
(* The object store, for any objects, files, kills and power failures, and *)
(* for one process at a time.  The argument: the temporary file a put or   *)
(* set_ref writes is linked nowhere else, so it is whole and fsynced when  *)
(* the rename publishes it, and a published file is never written again.   *)

OneProcess == \A p, q \in Procs : p = q

(* No file is shared by two paths, on disk or as a power failure leaves it.*)
LinksApart ==
  /\ \A q, r \in Paths : link[q] = link[r] /\ link[q] # NoFile => q = r
  /\ \A q \in Finals, r \in Paths : lasting[q] = link[r] /\ lasting[q] # NoFile => q = r
  /\ \A q, r \in Finals : lasting[q] = lasting[r] /\ lasting[q] # NoFile => q = r

OnDisk(f, S) == file[f].synced /\ file[f].data \in S

FinalsWhole ==
  /\ \A i \in Ids : link[i] # NoFile => OnDisk(link[i], {i})
  /\ \A i \in Ids : lasting[i] \in {NoFile, link[i]}
  /\ link[Ref] # NoFile => OnDisk(link[Ref], Ids)
  /\ lasting[Ref] # NoFile => OnDisk(lasting[Ref], Ids)

(* Until power fails, the ref names an object that is there.               *)
RefBacked == failures = 0 /\ link[Ref] # NoFile => file[link[Ref]].data \in Objects

(* What the process writes: the right bytes, to a temporary file of its    *)
(* own, for an object that is not there or a ref to one that is.           *)
ForObject(j) == j.final \in Ids /\ j.data = j.final /\ j.tmp \in TmpPaths
ForRef(j)    == j.final = Ref /\ j.data \in Objects /\ j.tmp = RefTmp

JobSound(p) ==
  /\ got[p] # NoFile => got[p] \in Objects
  /\ at[p] # "failed"
  /\ at[p] # "idle" => ForObject(job[p]) \/ ForRef(job[p])
  /\ at[p] \in {"create", "write", "sync", "rename"} /\ job[p].final \in Ids =>
       link[job[p].final] = NoFile
  /\ at[p] = "dir" => link[job[p].final] # NoFile
  /\ at[p] \in {"write", "sync", "rename"} =>
       job[p].file \in Files /\ link[job[p].tmp] = job[p].file
  /\ at[p] = "write" => file[job[p].file].data = Empty
  /\ at[p] \in {"sync", "rename"} => file[job[p].file].data = job[p].data
  /\ at[p] = "rename" => file[job[p].file].synced

ObjectInv ==
  /\ StoreTypeOK /\ LinksApart /\ FinalsWhole /\ RefBacked
  /\ \A p \in Procs : JobSound(p)

LEMMA PathsApart ==
  /\ Ids \subseteq Finals /\ Ref \in Finals /\ Finals \subseteq Paths /\ Ref \notin Ids
  /\ TmpPaths \cup {RefTmp} \subseteq Paths
  /\ \A t \in TmpPaths \cup {RefTmp} : t \notin Finals
  /\ NoFile \notin Files /\ NoFile \notin Ids /\ Empty \notin Ids /\ Torn \notin Ids
  /\ \A q \in Finals : q \in Ids \/ q = Ref
BY ContentsAssumption DEF Finals, Paths, TmpPaths

(* The other conjuncts while the files and the links stay as they are.     *)
LEMMA DiskKept ==
  ASSUME ObjectInv, UNCHANGED <<link, lasting, file>>, failures' = failures
  PROVE  LinksApart' /\ FinalsWhole' /\ RefBacked' /\ Objects' = Objects
<1>1. link' = link /\ lasting' = lasting /\ file' = file
  OBVIOUS
<1>2. Objects' = Objects
  BY <1>1 DEF Objects
<1>. QED
  BY <1>1, <1>2 DEF ObjectInv, LinksApart, FinalsWhole, RefBacked, OnDisk

LEMMA InitObjectInv == StoreInit => ObjectInv
<1> SUFFICES ASSUME StoreInit PROVE ObjectInv
  OBVIOUS
<1>1. StoreTypeOK
  BY BoundsAssumption DEF StoreInit, StoreTypeOK, Contents, Steps, NoJob
<1>2. LinksApart /\ FinalsWhole /\ RefBacked
  BY PathsApart DEF StoreInit, LinksApart, FinalsWhole, RefBacked
<1>3. \A p \in Procs : JobSound(p)
  BY DEF StoreInit, JobSound
<1>. QED  BY <1>1, <1>2, <1>3 DEF ObjectInv

(* put, of an object that is not there. *)
LEMMA BeginPutKeepsInv ==
  ASSUME OneProcess, ObjectInv, NEW p \in Procs, NEW i \in Ids, BeginPut(p, i)
  PROVE  ObjectInv'
<1>1. StoreTypeOK
  BY DEF ObjectInv
<1>2. /\ at' = [at EXCEPT ![p] = "create"]
      /\ job' = [job EXCEPT ![p] = [final |-> i, tmp |-> seq[p], data |-> i, file |-> NoFile]]
      /\ seq' = [seq EXCEPT ![p] = @ + 1] /\ got' = [got EXCEPT ![p] = NoFile]
      /\ UNCHANGED <<link, lasting, file, kills, failures, kept>>
      /\ dir' = Made(DirOf[i])
      /\ link[i] = NoFile /\ seq[p] <= MaxTmp /\ seq[p] \in 0..(MaxTmp + 1)
  BY <1>1 DEF BeginPut, Go, TmpPath, disk, StoreTypeOK
<1>3. seq[p] \in TmpPaths /\ seq[p] + 1 \in 0..(MaxTmp + 1)
  BY <1>2, BoundsAssumption DEF TmpPaths
<1>4. StoreTypeOK'
  <2>1. seq' \in [Procs -> 0..(MaxTmp + 1)] /\ got' \in [Procs -> Ids \cup {NoFile}]
    BY <1>1, <1>2, <1>3 DEF StoreTypeOK
  <2>2. at' \in [Procs -> Steps]
    BY <1>1, <1>2 DEF StoreTypeOK, Steps
  <2>3. job' \in [Procs -> [final : Finals \cup {NoFile}, tmp : TmpPaths \cup {RefTmp, NoFile},
                            data : Ids \cup {Empty}, file : Files \cup {NoFile}]]
    BY <1>1, <1>2, <1>3, PathsApart DEF StoreTypeOK
  <2>4. dir' \in [Dirs -> {"none", "made", "lasting"}]
    BY <1>1, <1>2 DEF StoreTypeOK, Made
  <2>. QED  BY <1>1, <1>2, <2>1, <2>2, <2>3, <2>4 DEF StoreTypeOK
<1>5. ASSUME NEW q \in Procs PROVE JobSound(q)'
  <2>1. q = p
    BY DEF OneProcess
  <2>2. at'[p] = "create" /\ got'[p] = NoFile /\ job'[p].final = i /\ job'[p].data = i
        /\ job'[p].tmp = seq[p] /\ link' = link
    BY <1>1, <1>2 DEF StoreTypeOK
  <2>. QED  BY <1>2, <1>3, <2>1, <2>2 DEF JobSound, ForObject
<1>. QED  BY <1>2, <1>4, <1>5, DiskKept DEF ObjectInv

(* put, of an object that is there: its bytes are the ones to put.         *)
LEMMA PutAgainKeepsInv ==
  ASSUME OneProcess, ObjectInv, NEW p \in Procs, NEW i \in Ids, PutAgain(p, i)
  PROVE  ObjectInv' /\ at' = at
<1>1. StoreTypeOK /\ JobSound(p)
  BY DEF ObjectInv
<1>2. link[i] # NoFile /\ file[link[i]].data = i
  BY DEF PutAgain, ObjectInv, FinalsWhole, OnDisk
<1>3. /\ got' = [got EXCEPT ![p] = i] /\ at' = at /\ seq' = seq /\ job' = job
      /\ UNCHANGED <<link, lasting, file, dir, kills, failures, kept>>
  BY <1>2 DEF PutAgain, disk
<1>4. i \in Objects /\ Objects' = Objects
  BY <1>2, <1>3, DiskKept DEF Objects
<1>5. StoreTypeOK'
  BY <1>1, <1>3 DEF StoreTypeOK
<1>6. ASSUME NEW q \in Procs PROVE JobSound(q)'
  <2>1. q = p /\ got'[p] = i /\ at'[p] = at[p] /\ job'[p] = job[p] /\ link' = link /\ file' = file
    BY <1>1, <1>3 DEF OneProcess, StoreTypeOK
  <2>. QED  BY <1>1, <1>4, <2>1 DEF JobSound, ForObject, ForRef
<1>. QED  BY <1>3, <1>5, <1>6, DiskKept DEF ObjectInv

LEMMA BeginSetRefKeepsInv ==
  ASSUME OneProcess, ObjectInv, NEW p \in Procs, BeginSetRef(p)
  PROVE  ObjectInv'
<1>1. StoreTypeOK /\ JobSound(p)
  BY DEF ObjectInv
<1>2. /\ at' = [at EXCEPT ![p] = "create"]
      /\ job' = [job EXCEPT ![p] = [final |-> Ref, tmp |-> RefTmp, data |-> got[p],
                                    file |-> NoFile]]
      /\ got' = [got EXCEPT ![p] = NoFile] /\ seq' = seq
      /\ UNCHANGED <<link, lasting, file, kills, failures, kept>>
      /\ dir' = Made(DirOf[Ref]) /\ got[p] # NoFile
  BY DEF BeginSetRef, Go, disk
<1>3. got[p] \in Objects /\ got[p] \in Ids /\ Objects' = Objects
  BY <1>1, <1>2, DiskKept DEF JobSound, Objects
<1>4. StoreTypeOK'
  <2>1. at' \in [Procs -> Steps] /\ got' \in [Procs -> Ids \cup {NoFile}]
    BY <1>1, <1>2 DEF StoreTypeOK, Steps
  <2>2. job' \in [Procs -> [final : Finals \cup {NoFile}, tmp : TmpPaths \cup {RefTmp, NoFile},
                            data : Ids \cup {Empty}, file : Files \cup {NoFile}]]
    BY <1>1, <1>2, <1>3, PathsApart DEF StoreTypeOK
  <2>3. dir' \in [Dirs -> {"none", "made", "lasting"}]
    BY <1>1, <1>2 DEF StoreTypeOK, Made
  <2>. QED  BY <1>1, <1>2, <2>1, <2>2, <2>3 DEF StoreTypeOK
<1>5. ASSUME NEW q \in Procs PROVE JobSound(q)'
  <2>1. q = p
    BY DEF OneProcess
  <2>2. at'[p] = "create" /\ got'[p] = NoFile /\ job'[p].final = Ref /\ job'[p].data = got[p]
        /\ job'[p].tmp = RefTmp
    BY <1>1, <1>2 DEF StoreTypeOK
  <2>. QED  BY <1>3, <2>1, <2>2, PathsApart DEF JobSound, ForRef
<1>. QED  BY <1>2, <1>4, <1>5, DiskKept DEF ObjectInv

(* The temporary file is one no other path leads to. *)
LEMMA CreateKeepsInv ==
  ASSUME OneProcess, ObjectInv, NEW p \in Procs, Create(p)
  PROVE  ObjectInv' /\ Objects' = Objects
<1> DEFINE t == job[p].tmp
<1>1. StoreTypeOK /\ JobSound(p) /\ LinksApart
  BY DEF ObjectInv
<1>2. at[p] = "create" /\ (ForObject(job[p]) \/ ForRef(job[p]))
  BY <1>1 DEF Create, JobSound
<1>3. t \in Paths /\ t \notin Finals
  BY <1>2, PathsApart DEF ForObject, ForRef
<1>4. PICK f \in IF link[t] # NoFile THEN {link[t]} ELSE Fresh :
        /\ link' = [link EXCEPT ![t] = f]
        /\ file' = [file EXCEPT ![f] = [data |-> Empty, synced |-> FALSE]]
        /\ job' = [job EXCEPT ![p].file = f]
  BY DEF Create, Opened
<1>5. /\ at' = [at EXCEPT ![p] = "write"] /\ got' = got /\ seq' = seq
      /\ lasting' = lasting /\ kept' = kept /\ failures' = failures /\ kills' = kills
      /\ dir' = dir
  BY DEF Create, Go
<1>6. /\ f \in Files /\ f # NoFile
      /\ \A q \in Paths : q # t => link[q] # f
      /\ \A q \in Finals : lasting[q] # f
  <2>1. CASE link[t] # NoFile
    <3>1. f = link[t] /\ f \in Files
      BY <1>1, <1>3, <1>4, <2>1 DEF StoreTypeOK
    <3>2. \A q \in Finals : lasting[q] # f
      BY <1>1, <1>3, <2>1, <3>1 DEF LinksApart
    <3>. QED  BY <1>1, <1>3, <2>1, <3>1, <3>2, PathsApart DEF LinksApart
  <2>2. CASE link[t] = NoFile
    BY <1>4, <2>2, PathsApart DEF Fresh, Unused
  <2>. QED  BY <2>1, <2>2
<1>7. /\ \A q \in Paths : q # t => link'[q] = link[q]
      /\ link'[t] = f
      /\ \A g \in Files : g # f => file'[g] = file[g]
  BY <1>1, <1>3, <1>4 DEF StoreTypeOK
<1>8. /\ \A q \in Finals : link'[q] = link[q] /\ link[q] # f /\ lasting[q] # f
      /\ \A q \in Finals : link[q] # NoFile => file'[link[q]] = file[link[q]]
      /\ \A q \in Finals : lasting[q] # NoFile => file'[lasting[q]] = file[lasting[q]]
  BY <1>1, <1>3, <1>6, <1>7, PathsApart DEF StoreTypeOK
<1>9. Objects' = Objects
  BY <1>8, PathsApart DEF Objects
<1>10. StoreTypeOK'
  <2>1. link' \in [Paths -> Files \cup {NoFile}] /\ at' \in [Procs -> Steps]
    BY <1>1, <1>4, <1>5, <1>6 DEF StoreTypeOK, Steps
  <2>2. file' \in [Files -> [data : Contents, synced : BOOLEAN]]
    BY <1>1, <1>4, <1>6 DEF StoreTypeOK, Contents
  <2>3. job' \in [Procs -> [final : Finals \cup {NoFile}, tmp : TmpPaths \cup {RefTmp, NoFile},
                            data : Ids \cup {Empty}, file : Files \cup {NoFile}]]
    <3>1. [job[p] EXCEPT !.file = f] \in
            [final : Finals \cup {NoFile}, tmp : TmpPaths \cup {RefTmp, NoFile},
             data : Ids \cup {Empty}, file : Files \cup {NoFile}]
      BY <1>1, <1>6 DEF StoreTypeOK
    <3>. QED  BY <1>1, <1>4, <3>1 DEF StoreTypeOK
  <2>. QED  BY <1>1, <1>5, <2>1, <2>2, <2>3 DEF StoreTypeOK
<1>11. LinksApart'
  BY <1>1, <1>5, <1>6, <1>7, <1>8 DEF LinksApart
<1>12. FinalsWhole' /\ RefBacked'
  BY <1>5, <1>8, <1>9, PathsApart DEF ObjectInv, FinalsWhole, RefBacked, OnDisk
<1>13. ASSUME NEW q \in Procs PROVE JobSound(q)'
  <2>1. q = p /\ at'[p] = "write" /\ got'[p] = got[p]
    BY <1>1, <1>5 DEF OneProcess, StoreTypeOK
  <2>2. /\ job'[p].final = job[p].final /\ job'[p].data = job[p].data
        /\ job'[p].tmp = t /\ job'[p].file = f
    BY <1>1, <1>4 DEF StoreTypeOK
  <2>3. file'[f].data = Empty
    BY <1>1, <1>4, <1>6 DEF StoreTypeOK
  <2>4. ForObject(job[p])' \/ ForRef(job[p])'
    BY <1>2, <1>9, <2>2 DEF ForObject, ForRef
  <2>5. job[p].final \in Ids => link'[job[p].final] = NoFile
    BY <1>1, <1>2, <1>8, PathsApart DEF JobSound
  <2>. QED  BY <1>1, <1>6, <1>7, <1>9, <2>1, <2>2, <2>3, <2>4, <2>5 DEF JobSound
<1>. QED  BY <1>9, <1>10, <1>11, <1>12, <1>13 DEF ObjectInv

(* A step that changes only the process's temporary file. *)
LEMMA TmpFileStep ==
  ASSUME ObjectInv, NEW p \in Procs, at[p] \in {"write", "sync"},
         NEW c \in [data : Contents, synced : BOOLEAN],
         file' = [file EXCEPT ![job[p].file] = c],
         UNCHANGED <<link, lasting, dir, kept, failures>>
  PROVE  /\ LinksApart' /\ FinalsWhole' /\ RefBacked' /\ Objects' = Objects
         /\ file' \in [Files -> [data : Contents, synced : BOOLEAN]]
         /\ file'[job[p].file] = c
<1> DEFINE f == job[p].file
           t == job[p].tmp
<1>1. StoreTypeOK /\ JobSound(p) /\ LinksApart
  BY DEF ObjectInv
<1>2. f \in Files /\ f # NoFile /\ link[t] = f /\ (ForObject(job[p]) \/ ForRef(job[p]))
  BY <1>1, PathsApart DEF JobSound
<1>3. t \in Paths /\ t \notin Finals
  BY <1>2, PathsApart DEF ForObject, ForRef
<1>4. \A q \in Finals : link[q] # f /\ lasting[q] # f
  BY <1>1, <1>2, <1>3, PathsApart DEF LinksApart
<1>5. /\ \A q \in Finals : link[q] # NoFile => file'[link[q]] = file[link[q]]
      /\ \A q \in Finals : lasting[q] # NoFile => file'[lasting[q]] = file[lasting[q]]
  BY <1>1, <1>4, PathsApart DEF StoreTypeOK
<1>6. Objects' = Objects
  BY DEF Objects
<1>7. FinalsWhole' /\ RefBacked'
  BY <1>5, <1>6, PathsApart DEF ObjectInv, FinalsWhole, RefBacked, OnDisk
<1>8. LinksApart'
  BY <1>1 DEF LinksApart
<1>. QED  BY <1>1, <1>2, <1>6, <1>7, <1>8 DEF StoreTypeOK

LEMMA WriteKeepsInv ==
  ASSUME OneProcess, ObjectInv, NEW p \in Procs, Write(p)
  PROVE  ObjectInv' /\ Objects' = Objects
<1>1. StoreTypeOK /\ JobSound(p) /\ at[p] = "write"
  BY DEF ObjectInv, Write
<1>2. file[job[p].file].data = Empty /\ (ForObject(job[p]) \/ ForRef(job[p]))
  BY <1>1 DEF JobSound
<1>3. job[p].data \in Ids /\ job[p].data \in Contents
  BY <1>2 DEF ForObject, ForRef, Objects, Contents
<1> DEFINE c == [data |-> job[p].data, synced |-> FALSE]
<1>4. file' = [file EXCEPT ![job[p].file] = c]
  <2>1. Mix(file[job[p].file].data, job[p].data) = {job[p].data}
    BY <1>2 DEF Mix
  <2>. QED  BY <2>1 DEF Write, Written
<1>5. /\ at' = [at EXCEPT ![p] = "sync"] /\ job' = job /\ got' = got /\ seq' = seq
      /\ kills' = kills /\ UNCHANGED <<link, lasting, dir, kept, failures>>
  BY DEF Write, Go
<1>6. c \in [data : Contents, synced : BOOLEAN]
  BY <1>3
<1>7. /\ LinksApart' /\ FinalsWhole' /\ RefBacked' /\ Objects' = Objects
      /\ file' \in [Files -> [data : Contents, synced : BOOLEAN]]
      /\ file'[job[p].file] = c
  BY <1>1, <1>4, <1>5, <1>6, TmpFileStep
<1>8. StoreTypeOK'
  BY <1>1, <1>5, <1>7 DEF StoreTypeOK, Steps
<1>9. ASSUME NEW q \in Procs PROVE JobSound(q)'
  <2>1. q = p /\ at'[p] = "sync" /\ got' = got /\ job' = job /\ link' = link
    BY <1>1, <1>5 DEF OneProcess, StoreTypeOK
  <2>. QED  BY <1>1, <1>7, <2>1 DEF JobSound, ForObject, ForRef
<1>. QED  BY <1>7, <1>8, <1>9 DEF ObjectInv

LEMMA SyncKeepsInv ==
  ASSUME OneProcess, ObjectInv, NEW p \in Procs, Sync(p)
  PROVE  ObjectInv' /\ Objects' = Objects
<1>1. StoreTypeOK /\ JobSound(p) /\ at[p] = "sync"
  BY DEF ObjectInv, Sync
<1>2. job[p].file \in Files /\ file[job[p].file].data = job[p].data
      /\ file[job[p].file] \in [data : Contents, synced : BOOLEAN]
  BY <1>1 DEF JobSound, StoreTypeOK
<1> DEFINE c == [file[job[p].file] EXCEPT !.synced = TRUE]
<1>3. c \in [data : Contents, synced : BOOLEAN] /\ c.data = job[p].data /\ c.synced = TRUE
  BY <1>2
<1>4. file' = [file EXCEPT ![job[p].file] = c]
  BY DEF Sync, Synced
<1>5. /\ at' = [at EXCEPT ![p] = "rename"] /\ job' = job /\ got' = got /\ seq' = seq
      /\ kills' = kills /\ UNCHANGED <<link, lasting, dir, kept, failures>>
  BY DEF Sync, Go
<1>7. /\ LinksApart' /\ FinalsWhole' /\ RefBacked' /\ Objects' = Objects
      /\ file' \in [Files -> [data : Contents, synced : BOOLEAN]]
      /\ file'[job[p].file] = c
  BY <1>1, <1>3, <1>4, <1>5, TmpFileStep
<1>8. StoreTypeOK'
  BY <1>1, <1>5, <1>7 DEF StoreTypeOK, Steps
<1>9. ASSUME NEW q \in Procs PROVE JobSound(q)'
  <2>1. q = p /\ at'[p] = "rename" /\ got' = got /\ job' = job /\ link' = link
    BY <1>1, <1>5 DEF OneProcess, StoreTypeOK
  <2>. QED  BY <1>1, <1>3, <1>7, <2>1 DEF JobSound, ForObject, ForRef
<1>. QED  BY <1>7, <1>8, <1>9 DEF ObjectInv

(* The rename publishes a whole file, where nothing stood or over the old  *)
(* ref; it does not fail.                                                  *)
LEMMA RenameKeepsInv ==
  ASSUME OneProcess, ObjectInv, NEW p \in Procs, Rename(p)
  PROVE  /\ ObjectInv'
         /\ Objects' = IF job[p].final \in Ids THEN Objects \cup {job[p].final} ELSE Objects
<1> DEFINE t == job[p].tmp
           d == job[p].final
           f == job[p].file
<1>1. StoreTypeOK /\ JobSound(p) /\ LinksApart /\ FinalsWhole /\ at[p] = "rename"
  BY DEF ObjectInv, Rename
<1>2. /\ f \in Files /\ f # NoFile /\ link[t] = f
      /\ file[f].synced /\ file[f].data = job[p].data
      /\ ForObject(job[p]) \/ ForRef(job[p])
      /\ d \in Ids => link[d] = NoFile
  BY <1>1, PathsApart DEF JobSound
<1>3. t \in Paths /\ t \notin Finals /\ d \in Finals /\ d \in Paths /\ d # t
  BY <1>2, PathsApart DEF ForObject, ForRef
<1>4. /\ link' = [link EXCEPT ![d] = f, ![t] = NoFile]
      /\ at' = [at EXCEPT ![p] = "dir"] /\ job' = job /\ got' = got /\ seq' = seq
      /\ lasting' = lasting /\ file' = file /\ dir' = dir /\ kept' = kept
      /\ kills' = kills /\ failures' = failures
  BY <1>2 DEF Rename, Go
<1>5. /\ link'[t] = NoFile /\ link'[d] = f
      /\ \A q \in Paths : q \notin {d, t} => link'[q] = link[q]
      /\ \A q \in Finals : q # d => link'[q] = link[q]
  BY <1>1, <1>3, <1>4, PathsApart DEF StoreTypeOK
<1>6. Objects' = IF d \in Ids THEN Objects \cup {d} ELSE Objects
  BY <1>2, <1>5, PathsApart DEF Objects
<1>7. StoreTypeOK'
  <2>1. link' \in [Paths -> Files \cup {NoFile}] /\ at' \in [Procs -> Steps]
    BY <1>1, <1>2, <1>4 DEF StoreTypeOK, Steps
  <2>. QED  BY <1>1, <1>4, <2>1 DEF StoreTypeOK
<1>8. LinksApart'
  <2>1. \A q \in Paths : q # t => link[q] # f
    BY <1>1, <1>2, <1>3 DEF LinksApart
  <2>2. \A q \in Finals : lasting[q] # f
    BY <1>1, <1>2, <1>3 DEF LinksApart
  <2>3. \A q, r \in Paths : link'[q] = link'[r] /\ link'[q] # NoFile => q = r
    BY <1>1, <1>5, <2>1 DEF LinksApart
  <2>4. \A q \in Finals, r \in Paths : lasting[q] = link'[r] /\ lasting[q] # NoFile => q = r
    BY <1>1, <1>5, <2>2 DEF LinksApart
  <2>. QED  BY <1>1, <1>4, <2>3, <2>4 DEF LinksApart
<1>9. FinalsWhole'
  <2>1. ASSUME NEW i \in Ids
        PROVE  /\ link'[i] # NoFile => file'[link'[i]].synced /\ file'[link'[i]].data \in {i}
               /\ lasting'[i] \in {NoFile, link'[i]}
    <3>1. CASE i = d
      <4>1. job[p].data = i /\ link[i] = NoFile
        BY <1>2, <3>1, PathsApart DEF ForObject, ForRef
      <4>. QED  BY <1>1, <1>2, <1>4, <1>5, <3>1, <4>1 DEF FinalsWhole
    <3>2. CASE i # d
      BY <1>1, <1>4, <1>5, <3>2, PathsApart DEF FinalsWhole, OnDisk
    <3>. QED  BY <3>1, <3>2
  <2>2. link'[Ref] # NoFile => file'[link'[Ref]].synced /\ file'[link'[Ref]].data \in Ids
    <3>1. CASE d = Ref
      BY <1>2, <1>4, <1>5, <3>1, PathsApart DEF ForObject, ForRef, Objects
    <3>2. CASE d # Ref
      BY <1>1, <1>4, <1>5, <3>2, PathsApart DEF FinalsWhole, OnDisk
    <3>. QED  BY <3>1, <3>2
  <2>3. lasting'[Ref] # NoFile => file'[lasting'[Ref]].synced /\ file'[lasting'[Ref]].data \in Ids
    BY <1>1, <1>4 DEF FinalsWhole, OnDisk
  <2>. QED  BY <2>1, <2>2, <2>3 DEF FinalsWhole, OnDisk
<1>10. RefBacked'
  <2>1. CASE d = Ref
    BY <1>2, <1>4, <1>5, <1>6, <2>1, PathsApart DEF ForObject, ForRef, RefBacked
  <2>2. CASE d # Ref
    <3>1. link'[Ref] = link[Ref] /\ Objects \subseteq Objects'
      BY <1>5, <1>6, <2>2, PathsApart
    <3>. QED  BY <1>4, <3>1 DEF ObjectInv, RefBacked
  <2>. QED  BY <2>1, <2>2
<1>12. ASSUME NEW q \in Procs PROVE JobSound(q)'
  <2>1. q = p /\ at'[p] = "dir" /\ got' = got /\ job' = job
    BY <1>1, <1>4 DEF OneProcess, StoreTypeOK
  <2>2. Objects \subseteq Objects'
    BY <1>6
  <2>3. ForObject(job[p])' \/ ForRef(job[p])'
    BY <1>2, <2>1, <2>2 DEF ForObject, ForRef
  <2>. QED  BY <1>1, <1>2, <1>5, <2>1, <2>2, <2>3 DEF JobSound
<1>. QED  BY <1>4, <1>6, <1>7, <1>8, <1>9, <1>10, <1>12 DEF ObjectInv

(* The call returns, with the entries of the directory on disk or not.     *)
LEMMA SyncDirKeepsInv ==
  ASSUME OneProcess, ObjectInv, NEW p \in Procs, SyncDir(p)
  PROVE  ObjectInv' /\ Objects' = Objects
<1> DEFINE d == job[p].final
<1>1. StoreTypeOK /\ JobSound(p) /\ LinksApart /\ FinalsWhole /\ at[p] = "dir"
  BY DEF ObjectInv, SyncDir
<1>2. link[d] # NoFile /\ (ForObject(job[p]) \/ ForRef(job[p]))
  BY <1>1 DEF JobSound
<1>3. d \in Finals /\ d \in Paths /\ link[d] \in Files
  BY <1>1, <1>2, PathsApart DEF ForObject, ForRef, StoreTypeOK
<1>4. /\ link' = link /\ file' = file /\ dir' = dir /\ seq' = seq /\ kills' = kills /\ failures' = failures
      /\ at' = [at EXCEPT ![p] = "idle"] /\ job' = [job EXCEPT ![p] = NoJob]
      /\ kept' \in {kept, kept \cup {d}} /\ (kept' # kept => d \in Ids)
      /\ got' = IF d \in Ids THEN [got EXCEPT ![p] = d] ELSE got
  BY DEF SyncDir, Go
<1>5. /\ lasting' \in [Finals -> Files \cup {NoFile}]
      /\ \A q \in Finals : lasting'[q] \in {lasting[q], link[q]}
  <2>1. PICK worked \in BOOLEAN : lasting' = IF worked THEN DirSynced(p) ELSE lasting
    BY DEF SyncDir
  <2>. QED  BY <1>1, <2>1, PathsApart DEF DirSynced, StoreTypeOK
<1>6. Objects' = Objects /\ (d \in Ids => d \in Objects)
  BY <1>2, <1>4 DEF Objects
<1>7. StoreTypeOK'
  <2>1. at' \in [Procs -> Steps]
    BY <1>1, <1>4 DEF StoreTypeOK, Steps
  <2>2. job' \in [Procs -> [final : Finals \cup {NoFile}, tmp : TmpPaths \cup {RefTmp, NoFile},
                            data : Ids \cup {Empty}, file : Files \cup {NoFile}]]
    BY <1>1, <1>4 DEF StoreTypeOK, NoJob
  <2>3. got' \in [Procs -> Ids \cup {NoFile}] /\ kept' \subseteq Ids
    BY <1>1, <1>4 DEF StoreTypeOK
  <2>. QED  BY <1>1, <1>4, <1>5, <2>1, <2>2, <2>3 DEF StoreTypeOK
<1>8. LinksApart'
  <2>1. \A q \in Finals, r \in Paths : lasting'[q] = link[r] /\ lasting'[q] # NoFile => q = r
    BY <1>1, <1>3, <1>5, PathsApart DEF LinksApart
  <2>2. \A q, r \in Finals : lasting'[q] = lasting'[r] /\ lasting'[q] # NoFile => q = r
    BY <1>1, <1>3, <1>5, PathsApart DEF LinksApart
  <2>. QED  BY <1>1, <1>4, <2>1, <2>2 DEF LinksApart
<1>9. FinalsWhole'
  BY <1>1, <1>4, <1>5, PathsApart DEF FinalsWhole, OnDisk
<1>10. RefBacked'
  BY <1>4, <1>6 DEF ObjectInv, RefBacked
<1>12. ASSUME NEW q \in Procs PROVE JobSound(q)'
  <2>1. q = p /\ at'[p] = "idle"
    BY <1>1, <1>4 DEF OneProcess, StoreTypeOK
  <2>2. got'[p] # NoFile => got'[p] \in Objects
    BY <1>1, <1>4, <1>6 DEF JobSound, StoreTypeOK
  <2>. QED  BY <1>6, <2>1, <2>2 DEF JobSound
<1>. QED  BY <1>4, <1>6, <1>7, <1>8, <1>9, <1>10, <1>12 DEF ObjectInv

(* A kill leaves the temporary file as it is, or torn. *)
LEMMA KillKeepsInv ==
  ASSUME OneProcess, ObjectInv, NEW p \in Procs, Kill(p)
  PROVE  ObjectInv' /\ Objects' = Objects
<1>1. StoreTypeOK /\ JobSound(p)
  BY DEF ObjectInv
<1>2. /\ at' = [at EXCEPT ![p] = "idle"] /\ job' = [job EXCEPT ![p] = NoJob]
      /\ seq' = [seq EXCEPT ![p] = 0] /\ got' = [got EXCEPT ![p] = NoFile]
      /\ kills < MaxKills /\ kills' = kills + 1
      /\ link' = link /\ lasting' = lasting /\ dir' = dir /\ failures' = failures /\ kept' = kept
  BY DEF Kill, Go
<1>3. /\ LinksApart' /\ FinalsWhole' /\ RefBacked' /\ Objects' = Objects
      /\ file' \in [Files -> [data : Contents, synced : BOOLEAN]]
  <2>1. CASE file' = file
    BY <1>1, <1>2, <2>1, DiskKept DEF StoreTypeOK
  <2>2. CASE at[p] = "write" /\ Written(job[p].file, Torn)
    <3> DEFINE c == [data |-> Torn, synced |-> FALSE]
    <3>1. Mix(file[job[p].file].data, Torn) = {Torn}
      BY <1>1, <2>2 DEF JobSound, Mix
    <3>2. file' = [file EXCEPT ![job[p].file] = c]
      BY <2>2, <3>1 DEF Written
    <3>3. c \in [data : Contents, synced : BOOLEAN]
      BY DEF Contents
    <3>. QED  BY <1>2, <2>2, <3>2, <3>3, TmpFileStep
  <2>. QED  BY <2>1, <2>2 DEF Kill
<1>4. StoreTypeOK'
  <2>1. at' \in [Procs -> Steps] /\ seq' \in [Procs -> 0..(MaxTmp + 1)]
        /\ got' \in [Procs -> Ids \cup {NoFile}] /\ kills' \in 0..MaxKills
    BY <1>1, <1>2, BoundsAssumption DEF StoreTypeOK, Steps
  <2>2. job' \in [Procs -> [final : Finals \cup {NoFile}, tmp : TmpPaths \cup {RefTmp, NoFile},
                            data : Ids \cup {Empty}, file : Files \cup {NoFile}]]
    BY <1>1, <1>2 DEF StoreTypeOK, NoJob
  <2>. QED  BY <1>1, <1>2, <1>3, <2>1, <2>2 DEF StoreTypeOK
<1>5. ASSUME NEW q \in Procs PROVE JobSound(q)'
  BY <1>1, <1>2 DEF OneProcess, JobSound, StoreTypeOK
<1>. QED  BY <1>3, <1>4, <1>5 DEF ObjectInv

(* A power failure finds every published file on disk; entries may go back *)
(* to what lasts, or with their directory.                                 *)
LEMMA PowerKeepsInv ==
  ASSUME ObjectInv, PowerFails
  PROVE  ObjectInv'
<1>1. StoreTypeOK /\ LinksApart /\ FinalsWhole
  BY DEF ObjectInv
<1>2. /\ at' = [p \in Procs |-> "idle"] /\ job' = [p \in Procs |-> NoJob]
      /\ seq' = [p \in Procs |-> 0] /\ got' = [p \in Procs |-> NoFile]
      /\ kills' = kills /\ failures < MaxFailures /\ failures' = failures + 1
      /\ kept' \subseteq Ids
  BY DEF PowerFails
<1>3. PICK gone \in SUBSET {d \in Dirs : dir[d] = "made"},
           lost \in SUBSET {q \in Finals : link[q] # lasting[q]} :
        /\ dir' = [d \in Dirs |-> IF d \in gone \/ dir[d] = "none" THEN "none"
                                                                  ELSE "lasting"]
        /\ link' = [q \in Paths |->
                      IF q \notin Finals \/ DirOf[q] \in gone THEN NoFile
                      ELSE IF q \in lost THEN lasting[q] ELSE link[q]]
        /\ lasting' = [q \in Finals |-> link'[q]]
  BY DEF PowerFails
<1>4. PICK left \in [{f \in Files : ~file[f].synced} -> {"all", Empty, Torn}] :
        file' = [f \in Files |->
                  [data |-> IF file[f].synced \/ left[f] = "all" THEN file[f].data ELSE left[f],
                   synced |-> TRUE]]
  BY DEF PowerFails
<1>5. /\ \A q \in Paths : q \notin Finals => link'[q] = NoFile
      /\ \A q \in Finals : /\ link'[q] \in {link[q], lasting[q], NoFile}
                           /\ lasting'[q] = link'[q]
  BY <1>3, PathsApart
<1>6. \A f \in Files : /\ file[f].synced => file'[f].data = file[f].data
                       /\ file'[f].synced
                       /\ file'[f].data \in Contents
  BY <1>1, <1>4 DEF StoreTypeOK, Contents
<1>7. StoreTypeOK'
  <2>1. link' \in [Paths -> Files \cup {NoFile}]
    BY <1>1, <1>3, PathsApart DEF StoreTypeOK
  <2>2. lasting' \in [Finals -> Files \cup {NoFile}]
    BY <1>3, <2>1, PathsApart
  <2>3. file' \in [Files -> [data : Contents, synced : BOOLEAN]]
    <3>1. ASSUME NEW f \in Files
          PROVE  (IF file[f].synced \/ left[f] = "all" THEN file[f].data ELSE left[f]) \in Contents
      BY <1>1 DEF StoreTypeOK, Contents
    <3>. QED  BY <1>4, <3>1
  <2>4. job' \in [Procs -> [final : Finals \cup {NoFile}, tmp : TmpPaths \cup {RefTmp, NoFile},
                            data : Ids \cup {Empty}, file : Files \cup {NoFile}]]
    BY <1>2 DEF NoJob
  <2>5. /\ at' \in [Procs -> Steps] /\ seq' \in [Procs -> 0..(MaxTmp + 1)]
        /\ got' \in [Procs -> Ids \cup {NoFile}] /\ failures' \in 0..MaxFailures
    BY <1>1, <1>2, BoundsAssumption DEF StoreTypeOK, Steps
  <2>6. dir' \in [Dirs -> {"none", "made", "lasting"}]
    BY <1>3
  <2>. QED  BY <1>1, <1>2, <2>1, <2>2, <2>3, <2>4, <2>5, <2>6 DEF StoreTypeOK
<1>8. LinksApart'
  <2>1. \A q, r \in Finals : link'[q] = link'[r] /\ link'[q] # NoFile => q = r
    BY <1>1, <1>5, PathsApart DEF LinksApart
  <2>. QED  BY <1>5, <2>1, PathsApart DEF LinksApart
<1>9. FinalsWhole'
  <2>1. ASSUME NEW i \in Ids
        PROVE  /\ link'[i] # NoFile => file'[link'[i]].synced /\ file'[link'[i]].data \in {i}
               /\ lasting'[i] \in {NoFile, link'[i]}
    <3>1. link'[i] = link[i] \/ link'[i] = NoFile
      BY <1>1, <1>5, PathsApart DEF FinalsWhole
    <3>2. link'[i] # NoFile => file[link[i]].synced /\ file[link[i]].data \in {i}
      BY <1>1, <3>1 DEF FinalsWhole, OnDisk
    <3>3. link[i] \in Files \cup {NoFile}
      BY <1>1, PathsApart DEF StoreTypeOK
    <3>. QED  BY <1>5, <1>6, <3>1, <3>2, <3>3, PathsApart
  <2>2. link'[Ref] # NoFile => file'[link'[Ref]].synced /\ file'[link'[Ref]].data \in Ids
    <3>1. link'[Ref] \in Files \cup {NoFile}
      BY <1>7, PathsApart DEF StoreTypeOK
    <3>2. link'[Ref] # NoFile => file[link'[Ref]].synced /\ file[link'[Ref]].data \in Ids
      BY <1>1, <1>5, PathsApart DEF FinalsWhole, OnDisk
    <3>. QED  BY <1>6, <3>1, <3>2
  <2>. QED  BY <1>5, <2>1, <2>2, PathsApart DEF FinalsWhole, OnDisk
<1>10. RefBacked'
  BY <1>1, <1>2 DEF RefBacked, StoreTypeOK
<1>13. ASSUME NEW q \in Procs PROVE JobSound(q)'
  BY <1>2 DEF JobSound
<1>. QED  BY <1>2, <1>7, <1>8, <1>9, <1>10, <1>13 DEF ObjectInv

LEMMA StoreNextKeepsInv == OneProcess /\ ObjectInv /\ [StoreNext]_storeVars => ObjectInv'
<1> SUFFICES ASSUME OneProcess, ObjectInv, [StoreNext]_storeVars PROVE ObjectInv'
  OBVIOUS
<1>1. ASSUME NEW p \in Procs, Call(p) PROVE ObjectInv'
  BY <1>1, BeginPutKeepsInv, PutAgainKeepsInv, BeginSetRefKeepsInv, CreateKeepsInv,
     WriteKeepsInv, SyncKeepsInv, RenameKeepsInv, SyncDirKeepsInv DEF Call
<1>2. CASE UNCHANGED storeVars
  <2>1. UNCHANGED <<link, lasting, file>> /\ failures' = failures
        /\ UNCHANGED <<dir, seq, at, job, got, kills, kept>>
    BY <1>2 DEF storeVars, disk, procs
  <2>2. LinksApart' /\ FinalsWhole' /\ RefBacked' /\ Objects' = Objects
    BY <2>1, DiskKept
  <2>3. StoreTypeOK'
    BY <2>1 DEF ObjectInv, StoreTypeOK
  <2>4. ASSUME NEW p \in Procs PROVE JobSound(p)'
    BY <2>1, <2>2 DEF ObjectInv, JobSound, ForObject, ForRef
  <2>. QED  BY <2>2, <2>3, <2>4 DEF ObjectInv
<1>. QED  BY <1>1, <1>2, KillKeepsInv, PowerKeepsInv DEF StoreNext, Rest

-----------------------------------------------------------------------------
THEOREM StoreInvariant ==
  ASSUME OneProcess
  PROVE  StoreSpec => []ObjectInv
<1>1. ObjectInv /\ [StoreNext]_storeVars => ObjectInv'
  BY StoreNextKeepsInv
<1>. QED  BY <1>1, InitObjectInv, PTL DEF StoreSpec

(* With one process on the store: what stands under an id hashes to it and *)
(* a ref holds an id, whatever was killed and however power failed; kills  *)
(* alone leave fsck nothing to report (store/object.rs, store/refs.rs).    *)
THEOREM StoreStaysSound ==
  ASSUME OneProcess
  PROVE  StoreSpec => []FsckPasses
<1>1. ObjectInv => FsckPasses
  <2>. SUFFICES ASSUME ObjectInv PROVE FsckPasses
    OBVIOUS
  <2>1. ObjectErrors = {}
    BY DEF ObjectInv, FinalsWhole, OnDisk, ObjectErrors, Objects
  <2>2. RefTarget # "malformed"
    <3>1. link[Ref] # NoFile => file[link[Ref]].data \in Ids
      BY DEF ObjectInv, FinalsWhole, OnDisk
    <3>. QED  BY <3>1, ContentsAssumption DEF RefTarget
  <2>3. failures = 0 => ~DanglingRef
    BY <2>1 DEF ObjectInv, RefBacked, DanglingRef, RefTarget, Objects
  <2>. QED  BY <2>1, <2>2, <2>3 DEF FsckPasses, FsckFails
<1>. QED  BY <1>1, StoreInvariant, PTL

-----------------------------------------------------------------------------
(* What is left for any number of processes, though their temporary names  *)
(* are the same: which bytes stand under an id is not certain then, but a  *)
(* rename only ever moves temporary names away, so a published name stays  *)
(* until power fails, and for good once it has outlived a power failure, or*)
(* its directory had when it was fsynced.                                  *)

JobTyped(p) ==
  /\ at[p] \in {"create", "write", "sync", "rename", "dir"} =>
       /\ job[p].final \in Finals /\ job[p].data \in Ids
       /\ job[p].tmp \in TmpPaths \cup {RefTmp}
       /\ dir[DirOf[job[p].final]] # "none"
  /\ at[p] \in {"write", "sync", "rename", "dir"} => job[p].file \in Files
  /\ at[p] = "dir" => link[job[p].final] # NoFile

NamesLast ==
  \A q \in Finals : /\ lasting[q] # NoFile => link[q] # NoFile
                    /\ link[q] # NoFile => dir[DirOf[q]] # "none"

KeptLasts == \A i \in kept : lasting[i] # NoFile /\ dir[DirOf[i]] = "lasting"

SharedInv ==
  /\ StoreTypeOK /\ NamesLast /\ KeptLasts
  /\ \A p \in Procs : JobTyped(p)

Job == [final : Finals \cup {NoFile}, tmp : TmpPaths \cup {RefTmp, NoFile},
        data : Ids \cup {Empty}, file : Files \cup {NoFile}]
FileType == [data : Contents, synced : BOOLEAN]

LEMMA InitShared == StoreInit => SharedInv
<1> SUFFICES ASSUME StoreInit PROVE SharedInv
  OBVIOUS
<1>1. StoreTypeOK
  BY InitObjectInv DEF ObjectInv
<1>. QED  BY <1>1, PathsApart DEF StoreInit, SharedInv, NamesLast, KeptLasts, JobTyped

(* create_dir_all takes no directory away and leaves its own there.        *)
LEMMA MadeDirs ==
  ASSUME SharedInv, NEW d \in Dirs, dir' = Made(d)
  PROVE  /\ dir' \in [Dirs -> {"none", "made", "lasting"}] /\ dir'[d] # "none"
         /\ \A e \in Dirs : /\ dir[e] # "none" => dir'[e] # "none"
                            /\ dir[e] = "lasting" => dir'[e] = "lasting"
BY DEF SharedInv, StoreTypeOK, Made

LEMMA DirsOfFinals == \A q \in Finals : DirOf[q] \in Dirs
BY DirsAssumption DEF Finals

(* A step of one process's job that takes no published name away. *)
LEMMA JobStep ==
  ASSUME SharedInv, NEW p \in Procs, NEW step \in Steps, NEW j \in Job,
         at' = [at EXCEPT ![p] = step], job' = [job EXCEPT ![p] = j],
         \A q \in Finals : link[q] # NoFile => link'[q] # NoFile,
         \A d \in Dirs : dir[d] # "none" => dir'[d] # "none",
         step \in {"create", "write", "sync", "rename", "dir"} =>
           /\ j.final \in Finals /\ j.data \in Ids /\ j.tmp \in TmpPaths \cup {RefTmp}
           /\ dir'[DirOf[j.final]] # "none",
         step \in {"write", "sync", "rename", "dir"} => j.file \in Files,
         step = "dir" => link'[j.final] # NoFile
  PROVE  /\ at' \in [Procs -> Steps] /\ job' \in [Procs -> Job]
         /\ \A r \in Procs : JobTyped(r)'
<1>1. at \in [Procs -> Steps] /\ job \in [Procs -> Job]
  BY DEF SharedInv, StoreTypeOK, Job
<1>2. at' \in [Procs -> Steps] /\ job' \in [Procs -> Job]
  BY <1>1
<1>3. ASSUME NEW r \in Procs PROVE JobTyped(r)'
  <2>1. CASE r = p
    <3>1. at'[r] = step /\ job'[r] = j
      BY <1>1, <2>1
    <3>. QED  BY <3>1 DEF JobTyped
  <2>2. CASE r # p
    <3>1. at'[r] = at[r] /\ job'[r] = job[r] /\ JobTyped(r)
      BY <1>1, <2>2 DEF SharedInv
    <3>. QED  BY <3>1, DirsOfFinals DEF JobTyped
  <2>. QED  BY <2>1, <2>2
<1>. QED  BY <1>2, <1>3

(* Whatever a write leaves is what a file may hold. *)
LEMMA WrittenType ==
  ASSUME SharedInv, NEW f \in Files, NEW d \in Ids \cup {Torn}, Written(f, d)
  PROVE  file' \in [Files -> FileType]
<1>1. file \in [Files -> FileType]
  BY DEF SharedInv, StoreTypeOK, FileType
<1>2. PICK e \in Mix(file[f].data, d) : file' = [file EXCEPT ![f] = [data |-> e, synced |-> FALSE]]
  BY DEF Written
<1>3. e \in Contents
  BY <1>2 DEF Mix, Contents
<1>. QED  BY <1>1, <1>2, <1>3 DEF FileType

LEMMA CallShared ==
  ASSUME SharedInv, NEW p \in Procs, Call(p)
  PROVE  SharedInv'
<1>1. /\ link \in [Paths -> Files \cup {NoFile}] /\ lasting \in [Finals -> Files \cup {NoFile}]
      /\ file \in [Files -> FileType] /\ seq \in [Procs -> 0..(MaxTmp + 1)]
      /\ at \in [Procs -> Steps] /\ job \in [Procs -> Job]
      /\ got \in [Procs -> Ids \cup {NoFile}] /\ kept \subseteq Ids
      /\ kills \in 0..MaxKills /\ failures \in 0..MaxFailures
      /\ NamesLast /\ KeptLasts /\ JobTyped(p) /\ StoreTypeOK
      /\ dir \in [Dirs -> {"none", "made", "lasting"}]
  BY DEF SharedInv, StoreTypeOK, Job, FileType
<1>2. {"idle", "create", "write", "sync", "rename", "dir", "failed"} = Steps
  BY DEF Steps
<1>3. ASSUME NEW i \in Ids, BeginPut(p, i) PROVE SharedInv'
  <2> DEFINE j == [final |-> i, tmp |-> seq[p], data |-> i, file |-> NoFile]
  <2>1. /\ at' = [at EXCEPT ![p] = "create"] /\ job' = [job EXCEPT ![p] = j]
        /\ seq' = [seq EXCEPT ![p] = seq[p] + 1] /\ got' = [got EXCEPT ![p] = NoFile]
        /\ dir' = Made(DirOf[i])
        /\ UNCHANGED <<link, lasting, file, kills, failures, kept>>
        /\ seq[p] <= MaxTmp /\ seq[p] \in 0..(MaxTmp + 1)
    BY <1>1, <1>3 DEF BeginPut, Go, TmpPath, disk
  <2>2. seq[p] \in TmpPaths /\ seq[p] + 1 \in 0..(MaxTmp + 1)
    BY <2>1, BoundsAssumption DEF TmpPaths
  <2>3. /\ j \in Job /\ j.final \in Finals /\ j.data \in Ids
        /\ j.tmp \in TmpPaths \cup {RefTmp} /\ j.final = i
    BY <2>2, PathsApart DEF Job
  <2>7. /\ dir' \in [Dirs -> {"none", "made", "lasting"}] /\ dir'[DirOf[i]] # "none"
        /\ \A e \in Dirs : /\ dir[e] # "none" => dir'[e] # "none"
                           /\ dir[e] = "lasting" => dir'[e] = "lasting"
    BY <2>1, MadeDirs, DirsOfFinals, PathsApart
  <2>8. dir'[DirOf[j.final]] # "none"
    BY <2>3, <2>7
  <2>9. link' = link /\ lasting' = lasting /\ kept' = kept
    BY <2>1
  <2>10. at' = [at EXCEPT ![p] = "create"] /\ job' = [job EXCEPT ![p] = j]
    BY <2>1
  <2>. HIDE DEF j
  <2>4. at' \in [Procs -> Steps] /\ job' \in [Procs -> Job] /\ \A r \in Procs : JobTyped(r)'
    BY <1>2, <2>3, <2>7, <2>8, <2>9, <2>10, JobStep
  <2>5. seq' \in [Procs -> 0..(MaxTmp + 1)] /\ got' \in [Procs -> Ids \cup {NoFile}]
    BY <1>1, <2>1, <2>2
  <2>6. NamesLast' /\ KeptLasts'
    <3>1. \A q \in Finals : DirOf[q] \in Dirs
      BY DirsOfFinals
    <3>2. \A k \in kept : k \in Finals
      BY <1>1, PathsApart
    <3>3. NamesLast'
      BY <1>1, <2>7, <2>9, <3>1 DEF NamesLast
    <3>4. KeptLasts'
      BY <1>1, <2>7, <2>9, <3>1, <3>2 DEF KeptLasts
    <3>. QED  BY <3>3, <3>4
  <2>. QED  BY <1>1, <2>1, <2>4, <2>5, <2>6, <2>7 DEF SharedInv, StoreTypeOK, Job, FileType
<1>4. ASSUME NEW i \in Ids, PutAgain(p, i) PROVE SharedInv'
  <2>1. UNCHANGED <<link, lasting, file, dir, seq, job, kills, failures, kept>>
    BY <1>4 DEF PutAgain, disk
  <2>2. NamesLast' /\ KeptLasts'
    BY <1>1, <2>1 DEF NamesLast, KeptLasts
  <2>3. CASE got' = [got EXCEPT ![p] = i] /\ at' = at
    <3>1. got' \in [Procs -> Ids \cup {NoFile}]
      BY <1>1, <2>3
    <3>2. \A r \in Procs : JobTyped(r)'
      BY <2>1, <2>3 DEF SharedInv, JobTyped
    <3>. QED  BY <1>1, <2>1, <2>2, <2>3, <3>1, <3>2 DEF SharedInv, StoreTypeOK, Job, FileType
  <2>4. CASE at' = [at EXCEPT ![p] = "failed"] /\ got' = got
    <3>1. job' = [job EXCEPT ![p] = job[p]] /\ job[p] \in Job
      BY <1>1, <2>1
    <3>2. at' \in [Procs -> Steps] /\ job' \in [Procs -> Job] /\ \A r \in Procs : JobTyped(r)'
      BY <1>2, <2>1, <2>4, <3>1, JobStep
    <3>. QED  BY <1>1, <2>1, <2>2, <2>4, <3>2 DEF SharedInv, StoreTypeOK, Job, FileType
  <2>. QED  BY <1>4, <2>3, <2>4 DEF PutAgain, Go
<1>5. ASSUME BeginSetRef(p) PROVE SharedInv'
  <2> DEFINE j == [final |-> Ref, tmp |-> RefTmp, data |-> got[p], file |-> NoFile]
  <2>1. /\ at' = [at EXCEPT ![p] = "create"] /\ job' = [job EXCEPT ![p] = j]
        /\ got' = [got EXCEPT ![p] = NoFile] /\ got[p] \in Ids
        /\ dir' = Made(DirOf[Ref])
        /\ UNCHANGED <<link, lasting, file, seq, kills, failures, kept>>
    BY <1>1, <1>5 DEF BeginSetRef, Go, disk
  <2>2. /\ j \in Job /\ j.final \in Finals /\ j.data \in Ids
        /\ j.tmp \in TmpPaths \cup {RefTmp} /\ j.final = Ref
    BY <2>1, PathsApart DEF Job
  <2>6. /\ dir' \in [Dirs -> {"none", "made", "lasting"}] /\ dir'[DirOf[Ref]] # "none"
        /\ \A e \in Dirs : /\ dir[e] # "none" => dir'[e] # "none"
                           /\ dir[e] = "lasting" => dir'[e] = "lasting"
    BY <2>1, MadeDirs, DirsOfFinals, PathsApart
  <2>7. dir'[DirOf[j.final]] # "none"
    BY <2>2, <2>6
  <2>8. link' = link /\ lasting' = lasting /\ kept' = kept
    BY <2>1
  <2>9. at' = [at EXCEPT ![p] = "create"] /\ job' = [job EXCEPT ![p] = j]
    BY <2>1
  <2>. HIDE DEF j
  <2>3. at' \in [Procs -> Steps] /\ job' \in [Procs -> Job] /\ \A r \in Procs : JobTyped(r)'
    BY <1>2, <2>2, <2>6, <2>7, <2>8, <2>9, JobStep
  <2>4. got' \in [Procs -> Ids \cup {NoFile}]
    BY <1>1, <2>1
  <2>5. NamesLast' /\ KeptLasts'
    <3>1. \A q \in Finals : DirOf[q] \in Dirs
      BY DirsOfFinals
    <3>2. \A k \in kept : k \in Finals
      BY <1>1, PathsApart
    <3>3. NamesLast'
      BY <1>1, <2>6, <2>8, <3>1 DEF NamesLast
    <3>4. KeptLasts'
      BY <1>1, <2>6, <2>8, <3>1, <3>2 DEF KeptLasts
    <3>. QED  BY <3>3, <3>4
  <2>. QED  BY <1>1, <2>1, <2>3, <2>4, <2>5, <2>6 DEF SharedInv, StoreTypeOK, Job, FileType
<1>6. ASSUME Create(p) PROVE SharedInv'
  <2> DEFINE t == job[p].tmp
  <2>1. /\ at[p] = "create" /\ at' = [at EXCEPT ![p] = "write"]
        /\ UNCHANGED <<lasting, dir, seq, got, kills, failures, kept>>
    BY <1>6 DEF Create, Go
  <2>2. /\ t \in Paths /\ t \notin Finals /\ job[p].final \in Finals /\ job[p].data \in Ids
        /\ t \in TmpPaths \cup {RefTmp} /\ dir[DirOf[job[p].final]] # "none"
    BY <1>1, <2>1, PathsApart DEF JobTyped
  <2>3. PICK f \in IF link[t] # NoFile THEN {link[t]} ELSE Fresh :
          /\ link' = [link EXCEPT ![t] = f]
          /\ file' = [file EXCEPT ![f] = [data |-> Empty, synced |-> FALSE]]
          /\ job' = [job EXCEPT ![p].file = f]
    BY <1>6 DEF Create, Opened
  <2>4. f \in Files
    BY <1>1, <2>2, <2>3 DEF Fresh, Unused
  <2>5. /\ link' \in [Paths -> Files \cup {NoFile}]
        /\ \A q \in Finals : link'[q] = link[q]
    BY <1>1, <2>2, <2>3, <2>4, PathsApart
  <2>6. file' \in [Files -> FileType]
    BY <1>1, <2>3, <2>4 DEF FileType, Contents
  <2> DEFINE j == [job[p] EXCEPT !.file = f]
  <2>7. /\ j \in Job /\ j.final \in Finals /\ j.data \in Ids
        /\ j.tmp \in TmpPaths \cup {RefTmp} /\ j.file \in Files
        /\ job' = [job EXCEPT ![p] = j] /\ dir'[DirOf[j.final]] # "none"
    BY <1>1, <2>1, <2>2, <2>3, <2>4 DEF Job
  <2>. HIDE DEF j, t
  <2>8. at' \in [Procs -> Steps] /\ job' \in [Procs -> Job] /\ \A r \in Procs : JobTyped(r)'
    BY <1>2, <2>1, <2>5, <2>7, JobStep
  <2>9. NamesLast' /\ KeptLasts'
    BY <1>1, <2>1, <2>5 DEF NamesLast, KeptLasts
  <2>. QED  BY <1>1, <2>1, <2>5, <2>6, <2>8, <2>9 DEF SharedInv, StoreTypeOK, Job, FileType
<1>7. ASSUME NEW step \in {"write", "sync"}, at[p] = step,
             NEW after \in {"sync", "rename"}, at' = [at EXCEPT ![p] = after],
             file' \in [Files -> FileType],
             UNCHANGED <<link, lasting, dir, seq, job, got, kills, failures, kept>>
      PROVE  SharedInv'
  <2>1. /\ job[p] \in Job /\ job[p].final \in Finals /\ job[p].data \in Ids
        /\ job[p].tmp \in TmpPaths \cup {RefTmp} /\ job[p].file \in Files
        /\ job' = [job EXCEPT ![p] = job[p]] /\ dir[DirOf[job[p].final]] # "none"
    BY <1>1, <1>7 DEF JobTyped
  <2>2. at' \in [Procs -> Steps] /\ job' \in [Procs -> Job] /\ \A r \in Procs : JobTyped(r)'
    BY <1>2, <1>7, <2>1, JobStep
  <2>3. NamesLast' /\ KeptLasts'
    BY <1>1, <1>7 DEF NamesLast, KeptLasts
  <2>. QED  BY <1>1, <1>7, <2>2, <2>3 DEF SharedInv, StoreTypeOK, Job, FileType
<1>8. ASSUME Write(p) PROVE SharedInv'
  <2>1. /\ at[p] = "write" /\ at' = [at EXCEPT ![p] = "sync"]
        /\ UNCHANGED <<link, lasting, dir, seq, job, got, kills, failures, kept>>
        /\ Written(job[p].file, job[p].data)
    BY <1>8 DEF Write, Go
  <2>2. job[p].file \in Files /\ job[p].data \in Ids
    BY <1>1, <2>1 DEF JobTyped
  <2>3. file' \in [Files -> FileType]
    BY <2>1, <2>2, WrittenType
  <2>. QED  BY <1>7, <2>1, <2>3
<1>9. ASSUME Sync(p) PROVE SharedInv'
  <2>1. /\ at[p] = "sync" /\ at' = [at EXCEPT ![p] = "rename"]
        /\ UNCHANGED <<link, lasting, dir, seq, job, got, kills, failures, kept>>
        /\ file' = [file EXCEPT ![job[p].file].synced = TRUE]
    BY <1>9 DEF Sync, Synced, Go
  <2>2. file' \in [Files -> FileType]
    BY <1>1, <2>1 DEF FileType
  <2>. QED  BY <1>7, <2>1, <2>2
<1>10. ASSUME Rename(p) PROVE SharedInv'
  <2> DEFINE t == job[p].tmp
             d == job[p].final
  <2>1. /\ at[p] = "rename" /\ job' = job
        /\ UNCHANGED <<lasting, file, dir, seq, got, kills, failures, kept>>
    BY <1>10 DEF Rename
  <2>2. /\ t \in Paths /\ t \notin Finals /\ d \in Finals /\ d \in Paths
        /\ job[p].data \in Ids /\ t \in TmpPaths \cup {RefTmp} /\ job[p].file \in Files
        /\ job[p] \in Job /\ job' = [job EXCEPT ![p] = job[p]]
        /\ dir[DirOf[d]] # "none" /\ dir' = dir
    BY <1>1, <2>1, PathsApart DEF JobTyped
  <2>3. CASE link[t] = NoFile
    <3>1. at' = [at EXCEPT ![p] = "failed"] /\ link' = link
      BY <1>10, <2>3 DEF Rename, Go
    <3>2. at' \in [Procs -> Steps] /\ job' \in [Procs -> Job] /\ \A r \in Procs : JobTyped(r)'
      BY <1>2, <2>2, <3>1, JobStep
    <3>3. NamesLast' /\ KeptLasts'
      BY <1>1, <2>1, <3>1 DEF NamesLast, KeptLasts
    <3>. QED  BY <1>1, <2>1, <3>1, <3>2, <3>3 DEF SharedInv, StoreTypeOK, Job, FileType
  <2>4. CASE link[t] # NoFile
    <3>1. /\ at' = [at EXCEPT ![p] = "dir"]
          /\ link' = [link EXCEPT ![d] = link[t], ![t] = NoFile]
      BY <1>10, <2>4 DEF Rename, Go
    <3>2. /\ link' \in [Paths -> Files \cup {NoFile}] /\ link'[d] # NoFile
          /\ \A q \in Finals : link[q] # NoFile => link'[q] # NoFile
          /\ \A q \in Finals : q # d => link'[q] = link[q]
      BY <1>1, <2>2, <2>4, <3>1, PathsApart
    <3>3. at' \in [Procs -> Steps] /\ job' \in [Procs -> Job] /\ \A r \in Procs : JobTyped(r)'
      BY <1>2, <2>2, <3>1, <3>2, JobStep
    <3>4. NamesLast' /\ KeptLasts'
      BY <1>1, <2>1, <2>2, <3>2 DEF NamesLast, KeptLasts
    <3>. QED  BY <1>1, <2>1, <3>2, <3>3, <3>4 DEF SharedInv, StoreTypeOK, Job, FileType
  <2>. QED  BY <2>3, <2>4
<1>11. ASSUME SyncDir(p) PROVE SharedInv'
  <2> DEFINE d == job[p].final
  <2>1. /\ at[p] = "dir" /\ at' = [at EXCEPT ![p] = "idle"] /\ job' = [job EXCEPT ![p] = NoJob]
        /\ UNCHANGED <<link, file, dir, seq, kills, failures>>
        /\ got' = IF d \in Ids THEN [got EXCEPT ![p] = d] ELSE got
    BY <1>11 DEF SyncDir, Go
  <2>2. d \in Finals /\ d \in Paths /\ link[d] # NoFile
    BY <1>1, <2>1, PathsApart DEF JobTyped
  <2>3. /\ lasting' \in [Finals -> Files \cup {NoFile}]
        /\ \A q \in Finals : lasting'[q] \in {lasting[q], link[q]}
        /\ \/ kept' = kept
           \/ /\ d \in Ids /\ kept' = kept \cup {d}
              /\ lasting'[d] = link[d] /\ dir[DirOf[d]] = "lasting"
    <3>1. PICK worked \in BOOLEAN :
            /\ lasting' = IF worked THEN DirSynced(p) ELSE lasting
            /\ kept' = IF worked /\ d \in Ids /\ dir[DirOf[d]] = "lasting"
                         THEN kept \cup {d} ELSE kept
      BY <1>11 DEF SyncDir
    <3>2. /\ DirSynced(p) \in [Finals -> Files \cup {NoFile}]
          /\ DirSynced(p)[d] = link[d]
          /\ \A q \in Finals : DirSynced(p)[q] \in {lasting[q], link[q]}
      BY <1>1, <2>2, PathsApart DEF DirSynced
    <3>. QED  BY <1>1, <3>1, <3>2
  <2>4. NoJob \in Job
    BY DEF NoJob, Job
  <2>5. at' \in [Procs -> Steps] /\ job' \in [Procs -> Job] /\ \A r \in Procs : JobTyped(r)'
    BY <1>2, <2>1, <2>4, JobStep
  <2>6. got' \in [Procs -> Ids \cup {NoFile}] /\ kept' \subseteq Ids
    BY <1>1, <2>1, <2>3
  <2>7. NamesLast'
    BY <1>1, <2>1, <2>2, <2>3 DEF NamesLast
  <2>8. KeptLasts'
    <3>1. \A i \in kept : lasting[i] # NoFile /\ link[i] # NoFile /\ i \in Finals
      BY <1>1, PathsApart DEF KeptLasts, NamesLast
    <3>2. \A i \in kept : lasting'[i] # NoFile
      BY <2>3, <3>1
    <3>. QED  BY <1>1, <2>1, <2>2, <2>3, <3>2 DEF KeptLasts
  <2>. QED  BY <1>1, <2>1, <2>3, <2>5, <2>6, <2>7, <2>8 DEF SharedInv, StoreTypeOK, Job, FileType
<1>. QED  BY <1>3, <1>4, <1>5, <1>6, <1>8, <1>9, <1>10, <1>11 DEF Call

LEMMA KillShared ==
  ASSUME SharedInv, NEW p \in Procs, Kill(p)
  PROVE  SharedInv'
<1>1. StoreTypeOK /\ NamesLast /\ KeptLasts /\ JobTyped(p) /\ job \in [Procs -> Job]
  BY DEF SharedInv, StoreTypeOK, Job
<1>2. /\ at' = [at EXCEPT ![p] = "idle"] /\ job' = [job EXCEPT ![p] = NoJob]
      /\ seq' = [seq EXCEPT ![p] = 0] /\ got' = [got EXCEPT ![p] = NoFile]
      /\ kills < MaxKills /\ kills' = kills + 1
      /\ link' = link /\ lasting' = lasting /\ dir' = dir /\ failures' = failures /\ kept' = kept
  BY DEF Kill, Go
<1>3. file' \in [Files -> FileType]
  <2>1. CASE file' = file
    BY <1>1, <2>1 DEF StoreTypeOK, FileType
  <2>2. CASE at[p] = "write" /\ Written(job[p].file, Torn)
    <3>1. job[p].file \in Files
      BY <1>1, <2>2 DEF JobTyped
    <3>. QED  BY <2>2, <3>1, WrittenType
  <2>. QED  BY <2>1, <2>2 DEF Kill
<1>4. NoJob \in Job /\ "idle" \in Steps
  BY DEF NoJob, Job, Steps
<1>5. at' \in [Procs -> Steps] /\ job' \in [Procs -> Job] /\ \A r \in Procs : JobTyped(r)'
  BY <1>2, <1>4, JobStep
<1>6. /\ seq' \in [Procs -> 0..(MaxTmp + 1)] /\ got' \in [Procs -> Ids \cup {NoFile}]
      /\ kills' \in 0..MaxKills
  BY <1>1, <1>2, BoundsAssumption DEF StoreTypeOK
<1>7. NamesLast' /\ KeptLasts'
  BY <1>1, <1>2 DEF NamesLast, KeptLasts
<1>. QED  BY <1>1, <1>2, <1>3, <1>5, <1>6, <1>7 DEF SharedInv, StoreTypeOK, Job, FileType

(* Entries go back to what lasts, or with their directory: none that is    *)
(* kept.  What is left is.                                                 *)
LEMMA PowerShared ==
  ASSUME SharedInv, PowerFails
  PROVE  /\ SharedInv' /\ kept' = Objects'
         /\ Objects' \subseteq Objects /\ kept \subseteq Objects'
<1>1. /\ StoreTypeOK /\ NamesLast /\ KeptLasts
      /\ link \in [Paths -> Files \cup {NoFile}] /\ lasting \in [Finals -> Files \cup {NoFile}]
      /\ file \in [Files -> FileType] /\ kept \subseteq Ids
      /\ dir \in [Dirs -> {"none", "made", "lasting"}]
  BY DEF SharedInv, StoreTypeOK, FileType
<1>2. /\ at' = [p \in Procs |-> "idle"] /\ job' = [p \in Procs |-> NoJob]
      /\ seq' = [p \in Procs |-> 0] /\ got' = [p \in Procs |-> NoFile]
      /\ kills' = kills /\ kept' = Objects' /\ failures < MaxFailures /\ failures' = failures + 1
  BY DEF PowerFails, Objects
<1>3. PICK gone \in SUBSET {d \in Dirs : dir[d] = "made"},
           lost \in SUBSET {q \in Finals : link[q] # lasting[q]} :
        /\ dir' = [d \in Dirs |-> IF d \in gone \/ dir[d] = "none" THEN "none"
                                                                  ELSE "lasting"]
        /\ link' = [q \in Paths |->
                      IF q \notin Finals \/ DirOf[q] \in gone THEN NoFile
                      ELSE IF q \in lost THEN lasting[q] ELSE link[q]]
        /\ lasting' = [q \in Finals |-> link'[q]]
  BY DEF PowerFails
<1>4. PICK left \in [{f \in Files : ~file[f].synced} -> {"all", Empty, Torn}] :
        file' = [f \in Files |->
                  [data |-> IF file[f].synced \/ left[f] = "all" THEN file[f].data ELSE left[f],
                   synced |-> TRUE]]
  BY DEF PowerFails
<1>5. /\ dir' \in [Dirs -> {"none", "made", "lasting"}]
      /\ \A q \in Finals :
           /\ lasting'[q] = link'[q]
           /\ link'[q] # NoFile => link[q] # NoFile /\ dir'[DirOf[q]] = "lasting"
           /\ lasting[q] # NoFile /\ dir[DirOf[q]] = "lasting" => link'[q] # NoFile
  <2>1. dir' \in [Dirs -> {"none", "made", "lasting"}]
    BY <1>3
  <2>2. ASSUME NEW q \in Finals
        PROVE  /\ lasting'[q] = link'[q]
               /\ link'[q] # NoFile => link[q] # NoFile /\ dir'[DirOf[q]] = "lasting"
               /\ lasting[q] # NoFile /\ dir[DirOf[q]] = "lasting" => link'[q] # NoFile
    <3>1. /\ q \in Paths /\ lasting'[q] = link'[q]
          /\ link'[q] = IF DirOf[q] \in gone THEN NoFile
                        ELSE IF q \in lost THEN lasting[q] ELSE link[q]
      BY <1>3, PathsApart
    <3>2. /\ lasting[q] # NoFile => link[q] # NoFile
          /\ link[q] # NoFile => dir[DirOf[q]] # "none"
      BY <1>1 DEF NamesLast
    <3>3. /\ DirOf[q] \in Dirs
          /\ DirOf[q] \notin gone /\ dir[DirOf[q]] # "none" => dir'[DirOf[q]] = "lasting"
          /\ DirOf[q] \in gone => dir[DirOf[q]] = "made"
      BY <1>3, DirsOfFinals
    <3>. QED  BY <3>1, <3>2, <3>3
  <2>. QED  BY <2>1, <2>2
<1>6. link' \in [Paths -> Files \cup {NoFile}] /\ lasting' \in [Finals -> Files \cup {NoFile}]
  <2>1. link' \in [Paths -> Files \cup {NoFile}]
    BY <1>1, <1>3, PathsApart
  <2>. QED  BY <1>3, <2>1, PathsApart
<1>7. file' \in [Files -> FileType]
  <2>1. ASSUME NEW f \in Files
        PROVE  (IF file[f].synced \/ left[f] = "all" THEN file[f].data ELSE left[f]) \in Contents
    BY <1>1 DEF FileType, Contents
  <2>. QED  BY <1>4, <2>1 DEF FileType
<1>8. /\ job' \in [Procs -> Job] /\ at' \in [Procs -> Steps]
      /\ seq' \in [Procs -> 0..(MaxTmp + 1)] /\ got' \in [Procs -> Ids \cup {NoFile}]
      /\ failures' \in 0..MaxFailures
  BY <1>1, <1>2, BoundsAssumption DEF StoreTypeOK, Steps, NoJob, Job
<1>9. \A i \in kept : i \in Ids /\ link'[i] # NoFile
  BY <1>1, <1>5, PathsApart DEF KeptLasts
<1>11. Objects' \subseteq Objects /\ kept \subseteq Objects'
  BY <1>5, <1>9, PathsApart DEF Objects
<1>12. NamesLast' /\ KeptLasts' /\ kept' \subseteq Ids
  <2>1. NamesLast'
    BY <1>5 DEF NamesLast
  <2>2. \A i \in kept' : i \in Finals /\ i \in Ids /\ link'[i] # NoFile
    BY <1>2, PathsApart DEF Objects
  <2>. QED  BY <1>5, <2>1, <2>2 DEF KeptLasts
<1>13. \A p \in Procs : JobTyped(p)'
  BY <1>2 DEF JobTyped
<1>. QED  BY <1>1, <1>2, <1>5, <1>6, <1>7, <1>8, <1>11, <1>12, <1>13
             DEF SharedInv, StoreTypeOK, Job, FileType

LEMMA SharedInvariant == StoreSpec => []SharedInv
<1>1. ASSUME SharedInv, UNCHANGED storeVars PROVE SharedInv'
  <2>1. /\ link' = link /\ lasting' = lasting /\ file' = file /\ dir' = dir /\ seq' = seq /\ at' = at
        /\ job' = job /\ got' = got /\ kills' = kills /\ failures' = failures /\ kept' = kept
    BY <1>1 DEF storeVars, disk, procs
  <2>. QED  BY <1>1, <2>1 DEF SharedInv, StoreTypeOK, NamesLast, KeptLasts, JobTyped
<1>2. SharedInv /\ [StoreNext]_storeVars => SharedInv'
  BY <1>1, CallShared, KillShared, PowerShared DEF StoreNext, Rest
<1>. QED  BY <1>2, InitShared, PTL DEF StoreSpec

(* Type correctness of the store, for any number of processes: every       *)
(* temporary number is within its bound and every job writes an id's bytes *)
(* to a temporary file and then to the name of an id or the ref.           *)
THEOREM StoreTypes == StoreSpec => []StoreTypeOK
<1>1. SharedInv => StoreTypeOK
  BY DEF SharedInv
<1>. QED  BY <1>1, SharedInvariant, PTL

(* However many processes put at the same time, and whichever directory    *)
(* fsync fails: objects appear one by one, only a power failure removes    *)
(* one, and none that has outlived one before or was put, with its fsyncs, *)
(* into a directory that had (store/object.rs, put).                       *)
THEOREM StoreIsDurable == StoreSpec => ImplementsDurableStore
<1>1. StoreInit => Promise!Init
  BY PathsApart DEF StoreInit, Promise!Init, Objects
<1>2. ASSUME SharedInv, [StoreNext]_storeVars
      PROVE  [Promise!Next]_<<Objects, kept>>
  <2>0. StoreTypeOK
    BY <1>2 DEF SharedInv
  <2>1. ASSUME NEW p \in Procs, Call(p) PROVE Promise!Next \/ UNCHANGED <<Objects, kept>>
    <3>0. JobTyped(p)
      BY <1>2 DEF SharedInv
    <3>1. ASSUME NEW i \in Ids, BeginPut(p, i) \/ PutAgain(p, i)
          PROVE  UNCHANGED <<Objects, kept>>
      BY <3>1 DEF BeginPut, PutAgain, disk, Objects
    <3>2. CASE BeginSetRef(p) \/ Write(p) \/ Sync(p)
      BY <3>2 DEF BeginSetRef, Write, Sync, disk, Objects
    <3>3. CASE Create(p)
      <4>1. job[p].tmp \notin Ids
        BY <3>0, <3>3, PathsApart DEF JobTyped, Create
      <4>2. \A i \in Ids : link'[i] = link[i]
        BY <2>0, <3>3, <4>1, PathsApart DEF Create, StoreTypeOK
      <4>. QED  BY <3>3, <4>2 DEF Create, Objects
    <3>4. CASE Rename(p)
      <4> DEFINE t == job[p].tmp
                 d == job[p].final
      <4>1. t \notin Finals /\ t \in Paths /\ d \in Finals /\ kept' = kept
        BY <3>0, <3>4, PathsApart DEF JobTyped, Rename
      <4>2. CASE link[t] = NoFile
        BY <3>4, <4>1, <4>2 DEF Rename, Objects
      <4>3. CASE link[t] # NoFile
        <5>1. link' = [link EXCEPT ![d] = link[t], ![t] = NoFile]
          BY <3>4, <4>3 DEF Rename
        <5>2. /\ \A i \in Ids : i # d => link'[i] = link[i]
              /\ d \in Ids => link'[d] # NoFile
          BY <2>0, <4>1, <4>3, <5>1, PathsApart DEF StoreTypeOK
        <5>3. Objects' = IF d \in Ids THEN Objects \cup {d} ELSE Objects
          BY <5>2 DEF Objects
        <5>4. CASE d \in Ids /\ d \notin Objects
          BY <4>1, <5>3, <5>4 DEF Promise!Next, Promise!Appear
        <5>. QED  BY <4>1, <5>3, <5>4
      <4>. QED  BY <4>2, <4>3
    <3>5. CASE SyncDir(p)
      <4>1. /\ Objects' = Objects
            /\ kept' # kept => job[p].final \in Ids /\ kept' = kept \cup {job[p].final}
            /\ job[p].final \in Ids => job[p].final \in Objects
        BY <3>0, <3>5 DEF SyncDir, JobTyped, Objects
      <4>2. CASE kept' # kept
        BY <4>1, <4>2 DEF Promise!Next, Promise!Keep
      <4>. QED  BY <4>1, <4>2
    <3>. QED  BY <2>1, <3>1, <3>2, <3>3, <3>4, <3>5 DEF Call
  <2>2. ASSUME NEW p \in Procs, Kill(p) PROVE UNCHANGED <<Objects, kept>>
    BY <2>2 DEF Kill, Objects
  <2>3. CASE PowerFails
    <3>1. Objects' \subseteq Objects /\ kept \subseteq Objects' /\ kept' = Objects'
      BY <1>2, <2>3, PowerShared
    <3> DEFINE gone == Objects \ Objects'
    <3>2. gone \in SUBSET Objects /\ gone \subseteq Objects \ kept /\ Objects' = Objects \ gone
      BY <3>1
    <3>. QED  BY <3>1, <3>2 DEF Promise!Next, Promise!PowerFails
  <2>4. CASE UNCHANGED storeVars
    BY <2>4 DEF storeVars, disk, Objects
  <2>. QED  BY <1>2, <2>1, <2>2, <2>3, <2>4 DEF StoreNext, Rest
<1>. QED  BY <1>1, <1>2, SharedInvariant, PTL DEF StoreSpec, Promise!Spec, ImplementsDurableStore
=============================================================================
