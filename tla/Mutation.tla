------------------------------ MODULE Mutation ------------------------------
(***************************************************************************)
(* The sixteen mutators (mutation/).  A mutator's draws are a choice: its  *)
(* operator is the set of all it may return for a parent.  A byte is a     *)
(* number below Byte, positions count from 0, and a slice outside its      *)
(* buffer is a panic.  The outcome of a mutator is [ok, bytes, changed].   *)
(***************************************************************************)
EXTENDS Integers, FiniteSets, SequencesExt, FiniteSetsExt

CONSTANTS
  BitsPerByte,  (* 8.                                                      *)
  MaxMutated,   (* MAX_MUTATED_LEN, which is also the longest parent.      *)
  WindowWidths, (* 1, 2, 4 and 8.                                          *)
  MaxBlock,     (* Longest block: 32.                                      *)
  MaxRunLen,    (* Most bytes inserted or deleted: 8.                      *)
  MaxFlips,     (* Most bytes flipped at once: 6.                          *)
  MaxDelta,     (* 35.                                                     *)
  Near,         (* How far interesting values go from 0 and the ends: 7.   *)
  MaxSubstitutions, (* 3.                                                  *)
  Entries,      (* Dictionary entries.                                     *)
  HitLists      (* The compare hits a mutation may be given.               *)

ASSUME MutationBounds ==
  /\ BitsPerByte \in Nat \ {0} /\ MaxMutated \in Nat
  /\ 1 \in WindowWidths /\ WindowWidths \subseteq Nat \ {0}
  /\ MaxBlock \in Nat \ {0} /\ MaxRunLen \in Nat \ {0} /\ MaxFlips \in Nat \ {0}
  /\ {MaxDelta, Near, MaxSubstitutions} \subseteq Nat

VARIABLES
  original, (* The parent that is mutated.                                 *)
  partner,  (* The splice partner.                                         *)
  mutant    (* [op, out]: the last mutation, or Unmutated.                 *)

mutationVars == <<original, partner, mutant>>

(* 1 << n *)
Power(n) ==
  LET p[i \in 0..n] == IF i = 0 THEN 1 ELSE 2 * p[i - 1]
  IN  p[n]

Byte     == 0..(Power(BitsPerByte) - 1)
AnyInput == UNION {[1..n -> Byte] : n \in 0..MaxMutated}

ASSUME MutationInputs ==
  /\ Entries \subseteq Seq(Byte)
  /\ HitLists \subseteq Seq([w : WindowWidths, v : Nat])

Unchanged(s) == [ok |-> TRUE, bytes |-> s, changed |-> FALSE]
Out(s, ch)   == [ok |-> TRUE, bytes |-> s, changed |-> ch]
Panic        == [ok |-> FALSE, bytes |-> <<>>, changed |-> FALSE]

(* gen_index(n): a position below n.                                       *)
Index(n) == 0..(n - 1)

Inside(s, p, k) == p + k <= Len(s)
SliceOf(s, p, k) == SubSeq(s, p + 1, p + k)
Splat(s, p, new) == [i \in DOMAIN s |-> IF i - 1 \in p..(p + Len(new) - 1) THEN new[i - p] ELSE s[i]]

(* out[p..p + k].copy_from_slice(new).                                     *)
Overwrite(s, p, new, ch) ==
  IF Inside(s, p, Len(new)) THEN Out(Splat(s, p, new), ch) ELSE Panic

(* parent[..p] ++ new ++ parent[p..], cut at the bound.                    *)
InsertAfter(s, p, new) ==
  Out(SubSeq(SubSeq(s, 1, p) \o new \o SubSeq(s, p + 1, Len(s)), 1, Min({Len(s) + Len(new), MaxMutated})),
      new # <<>>)

DeleteAt(s, p, k) ==
  IF Inside(s, p, k) THEN Out(SubSeq(s, 1, p) \o SubSeq(s, p + k + 1, Len(s)), TRUE) ELSE Panic

RoomIn(s) == MaxMutated - Len(s)
Fit(k, s) == Min({k, RoomIn(s)})

-----------------------------------------------------------------------------
(* bytes.rs                                                                *)

FlipBit(x, bit) == IF (x \div Power(bit)) % 2 = 1 THEN x - Power(bit) ELSE x + Power(bit)

BitFlip(s) ==
  {Out([s EXCEPT ![p + 1] = FlipBit(@, bit)], TRUE) : p \in Index(Len(s)), bit \in Index(BitsPerByte)}

ByteFlip(s) == {Out([s EXCEPT ![p + 1] = x], TRUE) : p \in Index(Len(s)), x \in Byte}

(* Two to MaxFlips positions are drawn until they are distinct or the      *)
(* retries are used up: at least one is.                                   *)
MultiByteFlips(s) ==
  LET most == Max({2, Min({MaxFlips, Len(s)})})
      at(P, bits) == [i \in DOMAIN s |-> IF i \in P THEN FlipBit(s[i], bits[i]) ELSE s[i]]
  IN  UNION {{Out(at(P, bits), TRUE) : bits \in [P -> Index(BitsPerByte)]} :
               P \in {Q \in SUBSET DOMAIN s : Cardinality(Q) \in 1..most}}

AnyBytes(k) == [1..k -> Byte]

ByteInsert(s) ==
  UNION {{InsertAfter(s, p, new) : p \in 0..Len(s), new \in AnyBytes(Fit(k, s))} : k \in 1..MaxRunLen}

ByteDelete(s) ==
  {DeleteAt(s, p, Min({k, Len(s) - p})) : p \in Index(Len(s)), k \in 1..MaxRunLen}

(* A block of k bytes of a buffer of n: `gen_index((n - k).max(1))`.       *)
Blocks(n)    == 1..Min({MaxBlock, n})
BlockAt(n, k) == Index(Max({n - k, 1}))

BlockDuplicate(s) ==
  UNION {{IF Inside(s, p, Fit(k, s)) THEN InsertAfter(s, to, SliceOf(s, p, Fit(k, s))) ELSE Panic :
            p \in BlockAt(Len(s), k), to \in 0..Len(s)} : k \in Blocks(Len(s))}

BlockDelete(s) == UNION {{DeleteAt(s, p, k) : p \in BlockAt(Len(s), k)} : k \in Blocks(Len(s))}

BlockOverwrite(s) ==
  UNION {{Overwrite(s, p, new, TRUE) : p \in BlockAt(Len(s), k), new \in AnyBytes(k)} : k \in Blocks(Len(s))}

-----------------------------------------------------------------------------
(* integer.rs                                                              *)

Top(w)  == Power(BitsPerByte * w)
Half(w) == Power(BitsPerByte * w - 1)

(* The number of the last i bytes of the window, and what is left of v     *)
(* after its first i bytes.                                                *)
ReadLe(s, p, w) ==
  LET last[i \in 0..w] == IF i = 0 THEN 0 ELSE s[p + w - i + 1] + Power(BitsPerByte) * last[i - 1]
  IN  last[w]
Le(v, w) ==
  LET left[i \in 0..w] == IF i = 0 THEN v ELSE left[i - 1] \div Power(BitsPerByte)
  IN  [i \in 1..w |-> left[i - 1] % Power(BitsPerByte)]

(* pick_window: only widths that fit, only positions that fit.             *)
Windows(s) == {x \in (0..MaxMutated) \X WindowWidths : x[1] + x[2] <= Len(s)}

(* The window's value replaced by each of `by(w, v)`.                      *)
Replace(s, by(_, _)) ==
  UNION {LET v == ReadLe(s, x[1], x[2])
         IN  {Overwrite(s, x[1], Le(nv, x[2]), nv # v) : nv \in by(x[2], v)} : x \in Windows(s)}

IntegerAddSub(s)   == Replace(s, LAMBDA w, v : {(v + d) % Top(w) : d \in (-MaxDelta)..(MaxDelta - 1)})
IntegerBoundary(s) == Replace(s, LAMBDA w, v : {0, 1, (Top(w) - 1) \div 2, Top(w) - 2, Top(w) - 1})

(* interesting_for_width, masked to the width.                             *)
InterestingForWidth(w) ==
  LET near == UNION {{i, Top(w) - i, Half(w) + i, Half(w) - i} : i \in 1..Near}
      powers == UNION {{Power(BitsPerByte * i) + d : d \in -1..1} : i \in 1..(w - 1)}
  IN  {x % Top(w) : x \in {0, 1, Top(w) - 1} \cup near \cup powers}

InterestingInteger(s) == Replace(s, LAMBDA w, v : InterestingForWidth(w))

-----------------------------------------------------------------------------
(* splice.rs, dictionary.rs, cmp.rs, influence.rs                          *)

(* Slip: the block may be longer than the parent.                          *)
MaxOfPartner(s, other) == Min({MaxBlock, Len(other)})
(* The block fits in both.                                                 *)
MaxSplice(s, other)    == Min({MaxBlock, Len(other), Len(s)})

Splice(s, other) ==
  UNION {{IF Inside(other, src, k) THEN Overwrite(s, dst, SliceOf(other, src, k), TRUE) ELSE Panic :
            src \in BlockAt(Len(other), k), dst \in BlockAt(Len(s), k)} : k \in 1..MaxSplice(s, other)}

DictionaryInsert(s) ==
  UNION {{InsertAfter(s, p, SliceOf(e, 0, Fit(Len(e), s))) : p \in 0..Len(s)} : e \in Entries}

DictionaryOverwrite(s) ==
  UNION {LET k == Min({Len(e), Len(s)})
         IN  IF k = 0 THEN {Unchanged(s)}
             ELSE {Overwrite(s, p, SliceOf(e, 0, k), TRUE) : p \in BlockAt(Len(s), k)} : e \in Entries}

(* One hit [w, v]: its bytes are searched from the start, and the first    *)
(* place becomes an interesting value, unless that has the same bytes.     *)
Places(s, h) == {p \in 0..(Len(s) - h.w) : SliceOf(s, p, h.w) = Le(h.v, h.w)}

SubstituteOne(r, h) ==
  IF r.done >= MaxSubstitutions \/ Places(r.bytes, h) = {} THEN {r}
  ELSE {IF Le(nv, h.w) = Le(h.v, h.w) THEN r
        ELSE [bytes |-> Splat(r.bytes, Min(Places(r.bytes, h)), Le(nv, h.w)), done |-> r.done + 1] :
          nv \in InterestingForWidth(h.w)}

Substitute(s, hits) ==
  LET after[n \in 0..Len(hits)] ==
        IF n = 0 THEN {[bytes |-> s, done |-> 0]}
        ELSE UNION {SubstituteOne(r, hits[n]) : r \in after[n - 1]}
  IN  {Out(r.bytes, r.done > 0) : r \in after[Len(hits)]}

(* A mask names the mutable bytes; no mask names all of them.              *)
MutableIndices(s, mask) == DOMAIN s \cap mask

Region(s, mask) == {Out([s EXCEPT ![i] = x], TRUE) : i \in MutableIndices(s, mask), x \in Byte}

-----------------------------------------------------------------------------
Unmasked == {"BitFlip", "ByteFlip", "MultiByteFlips", "IntegerAddSub", "IntegerBoundary",
  "InterestingInteger", "ByteInsert", "ByteDelete", "BlockDuplicate", "BlockDelete",
  "BlockOverwrite", "Splice", "DictionaryInsert", "DictionaryOverwrite", "CompareOperandSubstitution"}

Drawn(op, s, hits) ==
  CASE op = "BitFlip"            -> BitFlip(s)
    [] op = "ByteFlip"           -> ByteFlip(s)
    [] op = "MultiByteFlips"     -> MultiByteFlips(s)
    [] op = "IntegerAddSub"      -> IntegerAddSub(s)
    [] op = "IntegerBoundary"    -> IntegerBoundary(s)
    [] op = "InterestingInteger" -> InterestingInteger(s)
    [] op = "ByteInsert"         -> ByteInsert(s)
    [] op = "ByteDelete"         -> ByteDelete(s)
    [] op = "BlockDuplicate"     -> BlockDuplicate(s)
    [] op = "BlockDelete"        -> BlockDelete(s)
    [] op = "BlockOverwrite"     -> BlockOverwrite(s)
    [] op = "Splice"             -> Splice(s, partner)
    [] op = "DictionaryInsert"   -> DictionaryInsert(s)
    [] op = "DictionaryOverwrite"        -> DictionaryOverwrite(s)
    [] op = "CompareOperandSubstitution" -> Substitute(s, hits)

(* A mutator with nothing to draw from returns its parent.                 *)
OrNoop(outs, s) == IF outs = {} THEN {Unchanged(s)} ELSE outs

Unmutated == [op |-> "none", out |-> Unchanged(<<>>)]

MutationInit == original = <<>> /\ partner = <<>> /\ mutant = Unmutated

(* An order names a parent and a partner, of any length it may carry.      *)
NewOrder ==
  /\ original = <<>> /\ mutant = Unmutated
  /\ original' \in AnyInput /\ partner' \in AnyInput
  /\ UNCHANGED mutant

(* apply                                                                   *)
Apply(op) ==
  /\ mutant = Unmutated
  /\ \E hits \in (IF op = "CompareOperandSubstitution" THEN HitLists ELSE {<<>>}) :
     \E out \in OrNoop(Drawn(op, original, hits), original) :
       mutant' = [op |-> op, out |-> out]
  /\ UNCHANGED <<original, partner>>

InfluenceRegionMutation ==
  /\ mutant = Unmutated
  /\ \E mask \in SUBSET DOMAIN original :
     \E out \in OrNoop(Region(original, mask), original) :
       mutant' = [op |-> "InfluenceRegionMutation", out |-> out]
  /\ UNCHANGED <<original, partner>>

(* Worker::mutate runs the mutator's bytes, or the parent where it says    *)
(* that nothing changed; what is found so may be the next parent.          *)
Candidate == IF mutant.out.changed THEN mutant.out.bytes ELSE original

Descend ==
  /\ mutant # Unmutated /\ mutant.out.ok
  /\ original' = Candidate /\ mutant' = Unmutated
  /\ UNCHANGED partner

MutationNext ==
  \/ NewOrder
  \/ \E op \in Unmasked : Apply(op)
  \/ InfluenceRegionMutation
  \/ Descend

MutationSpec == MutationInit /\ [][MutationNext]_mutationVars

-----------------------------------------------------------------------------
(* The mutants are what the rest relies on, for any parent, partner and    *)
(* draws: no slice is out of bounds; every mutant fits in an order and can *)
(* be a parent in its turn; and one said to be unchanged is its parent, so *)
(* that worker and coordinator, which then take the parent, agree.         *)
MutantsSound ==
  /\ mutant.out.ok
  /\ Len(mutant.out.bytes) <= MaxMutated
  /\ mutant # Unmutated /\ ~mutant.out.changed => mutant.out.bytes = original
=============================================================================
