---------------------------- MODULE LineageShapes ----------------------------
(***************************************************************************)
(* The shape of a drifting lineage, and the shape remembered of one that   *)
(* crashed: MutationResidual (observe/residual.rs), LineageAccumulator     *)
(* (dsfb/morphology.rs), the choice of a precursor (precedent/admission.rs)*)
(* and the match of a live shape (precedent/matching.rs).                  *)
(*                                                                         *)
(* One lineage: the entries that descend from one root by one mutator, in  *)
(* the order of their admission.  A new entry may descend from any earlier *)
(* one, and is folded into the accumulator all the same; an entry another  *)
(* mutator made is a parent like the others, but not folded.  Of a         *)
(* signature the shape and the magnitudes are kept; what else is only      *)
(* stored (slew, persistence and coactivation) is left out.                *)
(***************************************************************************)
EXTENDS Integers, Sequences, FiniteSets

CONSTANTS
  Signals,       (* The ids of the semantic signals, numbers.              *)
  Observations,  (* What one execution observes: signals and their values. *)
  Far,           (* The magnitude bucket from which a drift diverges: 32.  *)
  HistoryCap,    (* LINEAGE_HISTORY_CAP: 8.                                *)
  Lookback,      (* PRECURSOR_LOOKBACK_MIN: 3.                             *)
  LeadMax,       (* MATCH_LEAD_MAX: 16.                                    *)
  MaxEntries,    (* Bound: entries of the lineage, the root included.      *)
  MaxForeign     (* Bound: of these, made by another mutator.              *)

ASSUME ShapesAssumption ==
  /\ Signals \subseteq Nat
  /\ \A v \in Observations : v.touched \subseteq Signals
  /\ HistoryCap \in Nat \ {0} /\ Lookback \in Nat /\ LeadMax \in Nat

VARIABLES
  line,     (* The entries: generation and observation; the root first.    *)
  foreign,  (* How many of them another mutator made (bound).              *)
  acc,      (* LineageState.acc.                                           *)
  history,  (* LineageState.shape_history: depth and signature.            *)
  bank      (* The precedents of this root and mutator.  `seen' is the     *)
            (* history each was chosen from, a history variable.           *)

shapeVars == <<line, foreign, acc, history, bank>>

-----------------------------------------------------------------------------
(* Shapes. *)

Unit(b) == IF b THEN 1 ELSE 0
Magnitude(n) == IF n < 0 THEN -n ELSE n
Heading(n) == IF n > 0 THEN 1 ELSE IF n < 0 THEN 2 ELSE 0

(* magnitude_bucket *)
MagnitudeBucket(m) ==
  IF m = 0 THEN 0 ELSE CHOOSE b \in 1..m : 2 ^ (b - 1) <= m /\ m < 2 ^ b

(* A signal that is not observed reads 0. *)
ValueOf(v, i) == IF i \in v.touched THEN v.value[i] ELSE 0

Residual(child, parent) ==
  [deltas |-> [i \in Signals |-> ValueOf(child, i) - ValueOf(parent, i)],
   new    |-> child.touched \ parent.touched,
   lost   |-> parent.touched \ child.touched]

StateChange(edge) ==
  CASE edge.new # {} /\ edge.lost # {} -> "shifted"
    [] edge.new # {} /\ edge.lost = {} -> "expanded"
    [] edge.new = {} /\ edge.lost # {} -> "contracted"
    [] OTHER -> "none"

(* LineageAccumulator::new; the baseline is kept but never read again.     *)
Fresh ==
  [cum |-> [i \in Signals |-> 0], dir |-> [i \in Signals |-> 0],
   slew |-> [i \in Signals |-> 0], mask |-> {}]

(* push, on the accumulator: a signal counts as an axis once it moved and  *)
(* its sum is not 0, and keeps its last direction when the sum returns     *)
(* to 0.                                                                   *)
Folded(a, edge) ==
  LET cum == [i \in Signals |-> a.cum[i] + edge.deltas[i]]
      went == {i \in Signals : edge.deltas[i] # 0 /\ cum[i] # 0}
      turned(i) == i \in went /\ a.dir[i] # 0 /\ a.dir[i] # Heading(cum[i])
  IN [cum  |-> cum,
      dir  |-> [i \in Signals |-> IF i \in went THEN Heading(cum[i]) ELSE a.dir[i]],
      slew |-> [i \in Signals |-> a.slew[i] + Unit(turned(i))],
      mask |-> a.mask \cup went]

AxisBucket(a, i) == MagnitudeBucket(Magnitude(a.cum[i]))

(* The axis that drifted furthest, the lowest of equals. *)
Dominant(a) ==
  CHOOSE i \in a.mask : \A j \in a.mask :
    \/ AxisBucket(a, j) < AxisBucket(a, i)
    \/ AxisBucket(a, j) = AxisBucket(a, i) /\ i <= j

Convergence(a) ==
  CASE a.mask = {} -> "none"
    [] a.mask # {} /\ a.slew[Dominant(a)] > 0 -> "oscillating"
    [] OTHER -> IF AxisBucket(a, Dominant(a)) >= Far THEN "diverging" ELSE "converging"

(* push, the signature it returns. *)
SignatureOf(a, edge) ==
  [mask |-> a.mask, dir |-> [i \in a.mask |-> a.dir[i]],
   bins |-> [i \in a.mask |-> AxisBucket(a, i)],
   conv |-> Convergence(a), change |-> StateChange(edge)]

(* structural_identity: the magnitudes change with every step of a drift   *)
(* and are left out.  A hash, taken to be injective.                       *)
StructuralIdentity(sig) ==
  [mask |-> sig.mask, dir |-> sig.dir, conv |-> sig.conv, change |-> sig.change]

(* PrefixProfile::from_signature; profile_identity hashes all of it.       *)
ProfileOf(sig) ==
  [mask |-> sig.mask, dir |-> sig.dir, conv |-> sig.conv, change |-> sig.change]

IsTrivial(sig) == sig.mask = {}

-----------------------------------------------------------------------------
(* Precedents. *)

(* Slip: how long a shape lasts is not looked at. *)
PersistsAtAll(h, n, cutoff) == TRUE

(* The next structured signature has the same identity, and is in range.   *)
Persists(h, n, cutoff) ==
  /\ n < Len(h)
  /\ h[n + 1].depth <= cutoff
  /\ StructuralIdentity(h[n + 1].sig) = StructuralIdentity(h[n].sig)

Cutoff(terminal) == IF terminal < Lookback THEN 0 ELSE terminal - Lookback

InRange(h, cutoff) == {n \in 1..Len(h) : 2 <= h[n].depth /\ h[n].depth <= cutoff}

Earliest(ns) == CHOOSE n \in ns : \A k \in ns : n <= k

(* choose_precursor, as a position in the history: the first in range that *)
(* persists or is as deep as the last, else the first in range.            *)
ChoosePrecursor(h, terminal) ==
  LET cutoff == Cutoff(terminal)
      usable == InRange(h, cutoff)
      onsets == {n \in usable :
                   Persists(h, n, cutoff) \/ h[n].depth = h[Len(h)].depth}
  IN IF onsets # {} THEN {Earliest(onsets)}
     ELSE IF usable # {} THEN {Earliest(usable)} ELSE {}

(* create_from_terminal: nothing if it refuses. *)
CreateFromTerminal(sig, depth, terminal) ==
  IF IsTrivial(sig) \/ terminal < depth + Lookback THEN {}
  ELSE {[depth |-> depth, profile |-> ProfileOf(sig), terminal |-> terminal, seen |-> history]}

(* PrefixProfile::subsumed_by *)
SubsumedBy(profile, sig) ==
  /\ profile.mask \subseteq sig.mask
  /\ \A i \in profile.mask : sig.dir[i] = profile.dir[i]
  /\ sig.conv = profile.conv /\ sig.change = profile.change

(* matches, of a precedent that may be scheduled and has the mutator.      *)
ShapeMatches(p, sig, depth) ==
  /\ p.depth + 1 <= depth /\ depth <= p.depth + LeadMax
  /\ SubsumedBy(p.profile, sig)

-----------------------------------------------------------------------------
(* The lineage. *)

(* push_history: trivial shapes are not kept, and the oldest goes first.   *)
Remembered(h, depth, sig) ==
  LET kept == Append(h, [depth |-> depth, sig |-> sig])
  IN IF IsTrivial(sig) THEN h
     ELSE IF Len(kept) > HistoryCap THEN Tail(kept) ELSE kept

Child(n, obs) == [gen |-> line[n].gen + 1, obs |-> obs]

(* process_result: an entry of the lineage's mutator is admitted.          *)
Grow(n, obs) ==
  /\ Len(line) < MaxEntries
  /\ LET edge == Residual(obs, line[n].obs)
         a == Folded(acc, edge)
     IN /\ acc' = a
        /\ history' = Remembered(history, line[n].gen + 1, SignatureOf(a, edge))
  /\ line' = Append(line, Child(n, obs))
  /\ UNCHANGED <<foreign, bank>>

(* Another mutator's entry has an accumulator of its own. *)
GrowForeign(n, obs) ==
  /\ Len(line) < MaxEntries /\ foreign < MaxForeign
  /\ line' = Append(line, Child(n, obs))
  /\ foreign' = foreign + 1
  /\ UNCHANGED <<acc, history, bank>>

(* maybe_admit_precedent: a mutation of entry n crashed.  A profile that   *)
(* is in the bank already is not admitted again, whatever its depth.       *)
CrashOf(n) ==
  LET terminal == line[n].gen + 1
  IN \E k \in ChoosePrecursor(history, terminal) :
       \E p \in CreateFromTerminal(history[k].sig, history[k].depth, terminal) :
         /\ \A q \in bank : q.profile # p.profile
         /\ bank' = bank \cup {p}
         /\ UNCHANGED <<line, foreign, acc, history>>

ShapesInit ==
  /\ line \in {<<[gen |-> 0, obs |-> v]>> : v \in Observations}
  /\ foreign = 0 /\ acc = Fresh /\ history = <<>> /\ bank = {}

(* The bound is reached. *)
ShapesRest == Len(line) = MaxEntries /\ UNCHANGED shapeVars

ShapesNext ==
  \/ \E n \in 1..Len(line), v \in Observations : Grow(n, v)
  \/ \E n \in 1..Len(line), v \in Observations : GrowForeign(n, v)
  \/ \E n \in 1..Len(line) : CrashOf(n)
  \/ ShapesRest

ShapesSpec == ShapesInit /\ [][ShapesNext]_shapeVars

-----------------------------------------------------------------------------
(* What must hold. *)

Ascending(h) == \A n \in 1..(Len(h) - 1) : h[n].depth < h[n + 1].depth
Gradual(h) == \A n \in 1..(Len(h) - 1) : h[n + 1].depth <= h[n].depth + LeadMax

(* A crash is remembered by a shape that recognises it in time: if any     *)
(* shape of the lineage lasted from one generation to a later one, early   *)
(* enough, then a lineage that repeats the same edges elsewhere matches    *)
(* the precedent Lookback generations before its own crash, or earlier.    *)
(* Siblings folded into the same history can defeat this, so it is claimed *)
(* of lineages in which each entry is deeper than the one before; so can   *)
(* more than LeadMax generations of other mutators between two entries.    *)
PersistedShapeIsRecognised ==
  \A p \in bank :
    LET cutoff == p.terminal - Lookback
        early == InRange(p.seen, cutoff)
        lasts(n) == n + 1 \in early
                    /\ ProfileOf(p.seen[n + 1].sig) = ProfileOf(p.seen[n].sig)
    IN Ascending(p.seen) /\ Gradual(p.seen) /\ (\E n \in early : lasts(n))
         => \E n \in early : ShapeMatches(p, p.seen[n].sig, p.seen[n].depth)
=============================================================================
