-------------------------- MODULE AdmissionProofs --------------------------
(* Theorems about Admission, for every set of inputs, seeds, features and  *)
(* values, and any number of campaigns on a store.                         *)
EXTENDS Admission, FiniteSetTheorems, WellFoundedInduction, TLAPS

-----------------------------------------------------------------------------
(* The inductive invariant. *)

(* Sequence numbers have no gap, and a running campaign holds the next.    *)
Numbered ==
  \E n \in Nat : /\ {m.seq : m \in metas} = 0..(n - 1)
                 /\ phase = "on" => aseq = n

MetasLinked ==
  \A m \in metas :
    /\ m.seq \in Nat /\ m.gen \in Nat
    /\ m.entry \in entries
    /\ m.morph # None => m.morph \in morphs
    /\ m.parent # None => m.mutator # None
    /\ m.mutator # None => \E p \in metas : /\ p.entry = m.parent
                                            /\ p.gen = m.gen - 1
                                            /\ p.seq < m.seq

TapesLinked == \A i \in tapes : \E m \in metas : m.entry = i

Fields == {"entry", "parent", "mutator", "gen", "feats", "sig", "reason",
           "morph", "root", "edge", "stage"}

(* What an admission under way has made sure of at each stage.             *)
Prepared ==
  adm # None =>
    /\ phase = "on" /\ adm.gen \in Nat
    /\ adm = [f \in Fields |-> adm[f]]
    /\ adm.parent # None => adm.mutator # None
    /\ adm.mutator # None =>
         \E p \in metas : p.entry = adm.parent /\ p.gen = adm.gen - 1
    /\ adm.stage = "entry" => adm.morph = None
    /\ adm.stage \in {"morph", "meta"} =>
         adm.entry \in entries /\ \A m \in metas : m.entry # adm.entry
    /\ adm.stage = "morph" => Structured
    /\ adm.stage = "meta" => adm.morph = None \/ adm.morph \in morphs
    /\ adm.stage = "tape" => \E m \in metas : m.entry = adm.entry

IInv == Numbered /\ MetasLinked /\ TapesLinked /\ Prepared

-----------------------------------------------------------------------------
(* The next number after 0..n-1 is n. *)
LEMMA NextAfter ==
  ASSUME NEW n \in Nat, NEW M, {m.seq : m \in M} = 0..(n - 1)
  PROVE  NextSeq(M) = n
<1>1. CASE n = 0
  <2>1. M = {}
    <3>1. SUFFICES ASSUME NEW m \in M PROVE FALSE
      OBVIOUS
    <3>2. m.seq \in 0..(n - 1)
      OBVIOUS
    <3>3. QED BY <1>1, <3>2
  <2>2. QED BY <1>1, <2>1 DEF NextSeq
<1>2. CASE n # 0
  <2>1. n - 1 \in {m.seq : m \in M}
    BY <1>2
  <2>2. \A m \in M : m.seq \in 0..(n - 1)
    OBVIOUS
  <2>3. \A m \in M : m.seq <= n - 1
    BY <2>2
  <2>4. M # {}
    BY <2>1
  <2>5. LastSeq(M) = n - 1
    <3>1. \A k \in 0..(n - 1) : (\A m \in M : m.seq <= k) => k = n - 1
      BY <2>1
    <3>2. QED BY <2>1, <2>3, <3>1 DEF LastSeq
  <2>6. QED BY <2>4, <2>5 DEF NextSeq
<1>3. QED BY <1>1, <1>2

LEMMA InitIInv == Init => IInv
<1> SUFFICES ASSUME Init PROVE IInv
  OBVIOUS
<1>1. Numbered
  <2>1. {m.seq : m \in metas} = 0..(0 - 1)
    BY DEF Init
  <2>2. QED BY <2>1 DEF Init, Numbered
<1>2. MetasLinked /\ TapesLinked /\ Prepared
  BY DEF Init, MetasLinked, TapesLinked, Prepared
<1>3. QED BY <1>1, <1>2 DEF IInv

(* The steps that write no meta keep what the store holds. *)
LEMMA StoreGrows ==
  ASSUME IInv, metas' = metas, tapes' = tapes,
         entries \subseteq entries', morphs \subseteq morphs'
  PROVE  MetasLinked' /\ TapesLinked'
BY DEF IInv, MetasLinked, TapesLinked

LEMMA SameNumbers ==
  ASSUME IInv, metas' = metas, aseq' = aseq, phase' = "on" => phase = "on"
  PROVE  Numbered'
BY DEF IInv, Numbered

LEMMA StartKeeps == ASSUME IInv, NEW r \in BOOLEAN, Start(r) PROVE IInv'
<1>1. adm = None /\ adm' = None
  BY DEF Start, IInv, Prepared
<1>2. MetasLinked' /\ TapesLinked'
  BY StoreGrows DEF Start, store
<1>3. Numbered'
  <2>1. PICK n \in Nat : {m.seq : m \in metas} = 0..(n - 1)
    BY DEF IInv, Numbered
  <2>2. CASE Sound(metas)
    <3>1. aseq' = n
      BY <2>1, <2>2, NextAfter DEF Start
    <3>2. {m.seq : m \in metas'} = 0..(n - 1)
      BY <2>1 DEF Start, store
    <3>3. QED BY <3>1, <3>2 DEF Numbered
  <2>3. CASE ~Sound(metas)
    <3>1. phase' # "on"
      BY <2>3 DEF Start
    <3>2. {m.seq : m \in metas'} = 0..(n - 1)
      BY <2>1 DEF Start, store
    <3>3. QED BY <3>1, <3>2 DEF Numbered
  <2>4. QED BY <2>2, <2>3
<1>4. QED BY <1>1, <1>2, <1>3 DEF IInv, Prepared

LEMMA EndKeeps == ASSUME IInv, End PROVE IInv'
<1>1. MetasLinked' /\ TapesLinked'
  BY StoreGrows DEF End, store
<1>2. Numbered'
  BY DEF End, store, IInv, Numbered
<1>3. Prepared'
  BY DEF End, Prepared
<1>4. QED BY <1>1, <1>2, <1>3 DEF IInv

LEMMA SeedKeeps ==
  ASSUME IInv, NEW feats, NEW sig, Seed(feats, sig)
  PROVE  IInv'
<1>1. MetasLinked' /\ TapesLinked'
  BY StoreGrows DEF Seed, store
<1>2. Numbered'
  BY SameNumbers DEF Seed, store, memory
<1>3. Prepared'
  BY DEF Seed, Ready, Prepared, Fields
<1>4. QED BY <1>1, <1>2, <1>3 DEF IInv

LEMMA DiscoverKeeps ==
  ASSUME IInv, NEW i, NEW p \in metas, NEW mut \in Mutators, NEW feats, NEW sig,
         Discover(i, p, mut, feats, sig)
  PROVE  IInv'
<1>1. MetasLinked' /\ TapesLinked'
  BY StoreGrows DEF Discover, store
<1>2. Numbered'
  BY SameNumbers DEF Discover, store, memory
<1>3. Prepared'
  <2>1. p.gen \in Nat
    BY DEF IInv, MetasLinked
  <2>2. /\ adm'.gen = p.gen + 1 /\ adm'.parent = p.entry
        /\ adm'.stage = "entry" /\ adm'.morph = None
        /\ adm'.mutator # None
        /\ adm' = [f \in Fields |-> adm'[f]]
    BY InputsAssumption DEF Discover, Fields
  <2>3. phase' = "on" /\ metas' = metas
    BY DEF Discover, Ready, store
  <2>4. adm'.gen \in Nat /\ p.entry = adm'.parent /\ p.gen = adm'.gen - 1
    BY <2>1, <2>2
  <2>5. \E q \in metas' : q.entry = adm'.parent /\ q.gen = adm'.gen - 1
    BY <2>3, <2>4
  <2>6. adm'.stage \notin {"morph", "meta", "tape"}
    BY <2>2
  <2>7. QED BY <2>2, <2>3, <2>4, <2>5, <2>6 DEF Prepared
<1>4. QED BY <1>1, <1>2, <1>3 DEF IInv

LEMMA PutEntryKeeps == ASSUME IInv, PutEntry PROVE IInv'
<1>1. MetasLinked' /\ TapesLinked'
  BY StoreGrows DEF PutEntry
<1>2. Numbered'
  BY SameNumbers DEF PutEntry
<1>3. Prepared'
  <2>1. CASE \E m \in metas : m.entry = adm.entry
    BY <2>1 DEF PutEntry, Prepared
  <2>2. CASE ~\E m \in metas : m.entry = adm.entry
    <3> DEFINE edges == Append(acc[<<adm.root, adm.mutator>>], adm.edge)
    <3>1. adm' = [adm EXCEPT !.stage = NextPut("entry"),
                             !.morph = IF Structured THEN edges ELSE None]
      BY <2>2 DEF PutEntry
    <3>2. adm = [f \in Fields |-> adm[f]]
      BY DEF PutEntry, IInv, Prepared
    <3>3. /\ adm'.entry = adm.entry /\ adm'.parent = adm.parent
          /\ adm'.mutator = adm.mutator /\ adm'.gen = adm.gen
          /\ adm'.stage = NextPut("entry")
          /\ adm'.morph = IF Structured THEN edges ELSE None
          /\ adm' = [f \in Fields |-> adm'[f]]
      BY <3>1, <3>2 DEF Fields
    <3>4. Structured' = Structured
      BY <3>3 DEF PutEntry, Structured
    <3>5. NextPut("entry") = IF Structured THEN "morph" ELSE "meta"
      BY DEF NextPut
    <3>6. adm'.entry \in entries' /\ \A m \in metas' : m.entry # adm'.entry
      BY <2>2, <3>3 DEF PutEntry
    <3>7. phase' = "on" /\ adm.gen \in Nat
      BY DEF PutEntry, IInv, Prepared
    <3>8. adm'.mutator # None =>
            \E p \in metas' : p.entry = adm'.parent /\ p.gen = adm'.gen - 1
      BY <3>3 DEF PutEntry, IInv, Prepared
    <3>9. adm'.parent # None => adm'.mutator # None
      BY <3>3 DEF PutEntry, IInv, Prepared
    <3>10. QED BY <3>3, <3>4, <3>5, <3>6, <3>7, <3>8, <3>9 DEF Prepared
  <2>3. QED BY <2>1, <2>2
<1>4. QED BY <1>1, <1>2, <1>3 DEF IInv

(* PutMorph and PutMeta change nothing of adm but its stage. *)
LEMMA StageOnly ==
  ASSUME NEW s, adm = [f \in Fields |-> adm[f]], adm' = [adm EXCEPT !.stage = s]
  PROVE  /\ adm'.entry = adm.entry /\ adm'.parent = adm.parent
         /\ adm'.mutator = adm.mutator /\ adm'.gen = adm.gen
         /\ adm'.morph = adm.morph /\ adm'.stage = s
         /\ adm' = [f \in Fields |-> adm'[f]]
BY DEF Fields

LEMMA PutMorphKeeps == ASSUME IInv, PutMorph PROVE IInv'
<1>1. MetasLinked' /\ TapesLinked'
  BY StoreGrows DEF PutMorph
<1>2. Numbered'
  BY SameNumbers DEF PutMorph
<1>3. Prepared'
  <2>1. NextPut("morph") = "meta"
    BY DEF NextPut
  <2>2. /\ adm'.entry = adm.entry /\ adm'.parent = adm.parent
        /\ adm'.mutator = adm.mutator /\ adm'.gen = adm.gen
        /\ adm'.morph = adm.morph /\ adm'.stage = "meta"
        /\ adm' = [f \in Fields |-> adm'[f]]
    BY <2>1, StageOnly DEF PutMorph, IInv, Prepared
  <2>3. QED BY <2>2 DEF PutMorph, IInv, Prepared
<1>4. QED BY <1>1, <1>2, <1>3 DEF IInv

LEMMA PutTapeKeeps == ASSUME IInv, PutTape PROVE IInv'
<1>1. MetasLinked' /\ TapesLinked'
  BY DEF PutTape, IInv, MetasLinked, TapesLinked, Prepared
<1>2. Numbered'
  BY SameNumbers DEF PutTape, memory
<1>3. Prepared'
  BY DEF PutTape, Prepared
<1>4. QED BY <1>1, <1>2, <1>3 DEF IInv

(* What the meta step knows of the meta it writes. *)
LEMMA NewMeta ==
  ASSUME IInv, PutMeta
  PROVE  /\ aseq \in Nat /\ adm.gen \in Nat
         /\ {m.seq : m \in metas} = 0..(aseq - 1)
         /\ \A m \in metas : m.seq < aseq /\ m.entry # adm.entry
         /\ adm.entry \in entries
         /\ adm.morph # None => adm.morph \in morphs
         /\ adm.parent # None => adm.mutator # None
         /\ adm.mutator # None =>
              \E p \in metas : /\ p.entry = adm.parent
                              /\ p.gen = adm.gen - 1
                              /\ p.seq < aseq
<1>1. phase = "on"
  BY DEF PutMeta, IInv, Prepared
<1>2. aseq \in Nat /\ {m.seq : m \in metas} = 0..(aseq - 1)
  BY <1>1 DEF IInv, Numbered
<1>3. \A m \in metas : m.seq \in 0..(aseq - 1)
  BY <1>2
<1>4. \A m \in metas : m.seq < aseq
  BY <1>2, <1>3
<1>5. QED BY <1>2, <1>4 DEF PutMeta, IInv, Prepared

LEMMA PutMetaKeeps == ASSUME IInv, PutMeta PROVE IInv'
<1> DEFINE new == MetaAt(aseq)
<1>1. /\ new.seq = aseq /\ new.gen = adm.gen /\ new.entry = adm.entry
      /\ new.morph = adm.morph /\ new.mutator = adm.mutator
      /\ new.parent = adm.parent
  BY DEF MetaAt
<1>2. metas' = metas \cup {new}
  BY DEF PutMeta
<1> HIDE DEF new
<1>3. Numbered'
  <2>1. {m.seq : m \in metas'} = {m.seq : m \in metas} \cup {aseq}
    BY <1>1, <1>2
  <2>2. {m.seq : m \in metas'} = 0..((aseq + 1) - 1)
    BY <2>1, NewMeta
  <2>3. aseq' = aseq + 1
    BY DEF PutMeta
  <2>4. QED BY <2>2, <2>3, NewMeta DEF Numbered
<1>4. MetasLinked'
  <2>1. entries' = entries /\ morphs' = morphs
    BY DEF PutMeta
  <2>2. ASSUME NEW m \in metas
        PROVE  /\ m.seq \in Nat /\ m.gen \in Nat
               /\ m.entry \in entries
               /\ m.morph # None => m.morph \in morphs
               /\ m.parent # None => m.mutator # None
               /\ m.mutator # None => \E p \in metas' : /\ p.entry = m.parent
                                                        /\ p.gen = m.gen - 1
                                                        /\ p.seq < m.seq
    BY <1>2 DEF IInv, MetasLinked
  <2>3. /\ new.seq \in Nat /\ new.gen \in Nat
        /\ new.entry \in entries
        /\ new.morph # None => new.morph \in morphs
        /\ new.parent # None => new.mutator # None
        /\ new.mutator # None => \E p \in metas' : /\ p.entry = new.parent
                                                   /\ p.gen = new.gen - 1
                                                   /\ p.seq < new.seq
    BY <1>1, <1>2, NewMeta
  <2>4. QED BY <1>2, <2>1, <2>2, <2>3 DEF MetasLinked
<1>5. TapesLinked'
  BY <1>2 DEF PutMeta, IInv, TapesLinked
<1>6. Prepared'
  <2>1. CASE adm' = None
    BY <2>1 DEF Prepared
  <2>2. CASE adm' # None
    <3>1. NextPut("meta") = "tape"
      BY DEF NextPut
    <3>2. adm' = [adm EXCEPT !.stage = "tape"]
      BY <2>2, <3>1 DEF PutMeta
    <3>3. adm = [f \in Fields |-> adm[f]]
      BY DEF PutMeta, IInv, Prepared
    <3>4. /\ adm'.entry = adm.entry /\ adm'.parent = adm.parent
          /\ adm'.mutator = adm.mutator /\ adm'.gen = adm.gen
          /\ adm'.stage = "tape"
          /\ adm' = [f \in Fields |-> adm'[f]]
      BY <3>2, <3>3, StageOnly
    <3>5. new \in metas' /\ new.entry = adm'.entry
      BY <1>1, <1>2, <3>4
    <3>6. phase' = "on" /\ adm.gen \in Nat
      BY DEF PutMeta, IInv, Prepared
    <3>7. adm'.mutator # None =>
            \E p \in metas' : p.entry = adm'.parent /\ p.gen = adm'.gen - 1
      BY <1>2, <3>4 DEF PutMeta, IInv, Prepared
    <3>8. adm'.parent # None => adm'.mutator # None
      BY <3>4 DEF PutMeta, IInv, Prepared
    <3>9. QED BY <3>4, <3>5, <3>6, <3>7, <3>8 DEF Prepared
  <2>3. QED BY <2>1, <2>2
<1>7. QED BY <1>3, <1>4, <1>5, <1>6 DEF IInv

LEMMA Stutter == ASSUME IInv, UNCHANGED vars PROVE IInv'
BY DEF vars, store, memory, IInv, Numbered, MetasLinked, TapesLinked, Prepared,
       Structured

LEMMA NextIInv == IInv /\ [Next]_vars => IInv'
<1> SUFFICES ASSUME IInv, [Next]_vars PROVE IInv'
  OBVIOUS
<1>1. CASE \E r \in BOOLEAN : Start(r)
  BY <1>1, StartKeeps
<1>2. CASE \E feats \in SUBSET Features, sig \in Values : Seed(feats, sig)
  BY <1>2, SeedKeeps
<1>3. CASE \E i \in Inputs, p \in metas, mut \in Mutators,
             feats \in SUBSET Features, sig \in Values :
             Discover(i, p, mut, feats, sig)
  BY <1>3, DiscoverKeeps
<1>4. CASE PutEntry
  BY <1>4, PutEntryKeeps
<1>5. CASE PutMorph
  BY <1>5, PutMorphKeeps
<1>6. CASE PutMeta
  BY <1>6, PutMetaKeeps
<1>7. CASE PutTape
  BY <1>7, PutTapeKeeps
<1>8. CASE End
  BY <1>8, EndKeeps
<1>9. CASE Rest \/ UNCHANGED vars
  BY <1>9, Stutter DEF Rest
<1>10. QED BY <1>1, <1>2, <1>3, <1>4, <1>5, <1>6, <1>7, <1>8, <1>9 DEF Next

THEOREM CorpusInvariant == Spec => []IInv
<1>1. Init => IInv
  BY InitIInv
<1>2. IInv /\ [Next]_vars => IInv'
  BY NextIInv
<1>3. QED BY <1>1, <1>2, PTL DEF Spec

-----------------------------------------------------------------------------
(* The results. *)

(* Whatever is killed between which puts, everything a stored meta or tape *)
(* links is stored, and parents come before their children.                *)
THEOREM CorpusLinksResolve == Spec => []LinksResolve
<1>1. IInv => LinksResolve
  BY DEF IInv, MetasLinked, TapesLinked, LinksResolve, CorpusLinkErrors, Children
<1>2. QED BY <1>1, CorpusInvariant, PTL

(* No meta is ever inserted before or beside another, also not by a        *)
(* campaign that resumes a killed one.                                     *)
THEOREM CorpusIsALog == Spec => MetasAppend
<1> DEFINE Appended == \A m \in metas' \ metas : \A x \in metas :
                         x.seq < m.seq /\ x.entry # m.entry
<1>1. IInv /\ [Next]_vars => [Appended]_vars
  <2> SUFFICES ASSUME IInv, Next PROVE Appended
    OBVIOUS
  <2>1. CASE PutMeta
    <3>1. \A m \in metas' \ metas : m.seq = aseq /\ m.entry = adm.entry
      BY <2>1 DEF PutMeta, MetaAt
    <3>2. QED BY <2>1, <3>1, NewMeta
  <2>2. CASE ~PutMeta
    <3>1. CASE \E r \in BOOLEAN : Start(r)
      BY <3>1 DEF Start, store
    <3>2. CASE \E feats \in SUBSET Features, sig \in Values : Seed(feats, sig)
      BY <3>2 DEF Seed, store
    <3>3. CASE \E i \in Inputs, p \in metas, mut \in Mutators,
                  feats \in SUBSET Features, sig \in Values :
                 Discover(i, p, mut, feats, sig)
      BY <3>3 DEF Discover, store
    <3>4. CASE PutEntry
      BY <3>4 DEF PutEntry
    <3>5. CASE PutMorph
      BY <3>5 DEF PutMorph
    <3>6. CASE PutTape
      BY <3>6 DEF PutTape
    <3>7. CASE End
      BY <3>7 DEF End, store
    <3>8. CASE Rest
      BY <3>8 DEF Rest, vars, store
    <3>9. QED BY <2>2, <3>1, <3>2, <3>3, <3>4, <3>5, <3>6, <3>7, <3>8 DEF Next
  <2>3. QED BY <2>1, <2>2
<1>2. QED BY <1>1, CorpusInvariant, PTL DEF Spec, MetasAppend

-----------------------------------------------------------------------------
(* What a restart derives from the metas. *)

(* A corpus as rebuild expects it. *)
Orderly(M) ==
  /\ IsFiniteSet(M)
  /\ \A m \in M : /\ m.entry \in Inputs /\ m.seq \in Nat /\ m.gen \in Nat /\ m.sig \in Int
                  /\ m.parent # None => \E p \in M : p.entry = m.parent
                  /\ m.mutator = None <=> m.parent = None
  /\ \A a, b \in M : (a.entry = b.entry => a = b) /\ (a.seq = b.seq => a = b)

(* n comes after all of M and may descend from it. *)
Follows(M, n) ==
  /\ n.entry \in Inputs /\ n.seq \in Nat /\ n.gen \in Nat /\ n.sig \in Int
  /\ n.parent # None => \E p \in M : p.entry = n.parent
  /\ n.mutator = None <=> n.parent = None
  /\ \A m \in M : m.entry # n.entry /\ m.seq < n.seq

LEMMA OrderlyGrows ==
  ASSUME NEW M, NEW n, Orderly(M), Follows(M, n)
  PROVE  Orderly(M \cup {n}) /\ n \notin M
<1>1. n \notin M
  BY DEF Follows
<1>2. IsFiniteSet(M \cup {n})
  BY FS_AddElement DEF Orderly
<1>3. \A a, b \in M \cup {n} : (a.entry = b.entry => a = b) /\ (a.seq = b.seq => a = b)
  BY DEF Orderly, Follows
<1>4. ASSUME NEW m \in M \cup {n}
      PROVE  /\ m.entry \in Inputs /\ m.seq \in Nat /\ m.gen \in Nat /\ m.sig \in Int
             /\ m.parent # None => \E p \in M \cup {n} : p.entry = m.parent
             /\ m.mutator = None <=> m.parent = None
  BY DEF Orderly, Follows
<1>. QED  BY <1>1, <1>2, <1>3, <1>4 DEF Orderly

LEMMA MetaOfEntry ==
  ASSUME NEW M, Orderly(M), NEW m \in M
  PROVE  MetaOf(M, m.entry) = m
BY DEF MetaOf, Orderly

LEMMA MetaOfGrows ==
  ASSUME NEW M, NEW n, Orderly(M), Follows(M, n), NEW p \in M
  PROVE  MetaOf(M \cup {n}, p.entry) = p /\ MetaOf(M, p.entry) = p
BY OrderlyGrows, MetaOfEntry

-----------------------------------------------------------------------------
(* The root function of a corpus: there is exactly one. *)

RootEquation(M, r) ==
  r = [m \in M |-> IF m.parent = None THEN m.entry ELSE r[MetaOf(M, m.parent)]]

Rooted(M) ==
  \E r : /\ RootEquation(M, r) /\ \A s : RootEquation(M, s) => s = r
         /\ \A m \in M : r[m] \in Inputs

LEMMA RootOfIs ==
  ASSUME NEW M, Orderly(M), NEW r, RootEquation(M, r), \A s : RootEquation(M, s) => s = r,
         NEW m \in M
  PROVE  RootOf(M, m.entry) = r[m]
<1>1. r = CHOOSE s : s = [x \in M |-> IF x.parent = None THEN x.entry
                                                         ELSE s[MetaOf(M, x.parent)]]
  BY DEF RootEquation
<1>. QED  BY <1>1, MetaOfEntry DEF RootOf

(* A new entry has the root of its parent, or is a root; the others keep   *)
(* theirs.                                                                 *)
LEMMA RootsGrow ==
  ASSUME NEW M, NEW n, Orderly(M), Rooted(M), Follows(M, n)
  PROVE  /\ Rooted(M \cup {n})
         /\ \A m \in M : RootOf(M \cup {n}, m.entry) = RootOf(M, m.entry)
         /\ RootOf(M \cup {n}, n.entry) =
              IF n.parent = None THEN n.entry ELSE RootOf(M, n.parent)
         /\ RootOf(M \cup {n}, n.entry) \in Inputs
<1> DEFINE N == M \cup {n}
<1>1. PICK r : /\ RootEquation(M, r) /\ \A s : RootEquation(M, s) => s = r
               /\ \A m \in M : r[m] \in Inputs
  BY DEF Rooted
<1>2. Orderly(N) /\ n \notin M
  BY OrderlyGrows
<1>3. \A m \in M : m.parent # None => /\ MetaOf(M, m.parent) \in M
                                      /\ MetaOf(N, m.parent) = MetaOf(M, m.parent)
  <2> SUFFICES ASSUME NEW m \in M, m.parent # None
               PROVE  /\ MetaOf(M, m.parent) \in M
                      /\ MetaOf(N, m.parent) = MetaOf(M, m.parent)
    OBVIOUS
  <2>1. PICK p \in M : p.entry = m.parent
    BY DEF Orderly
  <2>. QED  BY <2>1, MetaOfGrows
<1>4. n.parent # None => /\ MetaOf(M, n.parent) \in M
                         /\ MetaOf(N, n.parent) = MetaOf(M, n.parent)
  <2> SUFFICES ASSUME n.parent # None
               PROVE  /\ MetaOf(M, n.parent) \in M
                      /\ MetaOf(N, n.parent) = MetaOf(M, n.parent)
    OBVIOUS
  <2>1. PICK p \in M : p.entry = n.parent
    BY DEF Follows
  <2>. QED  BY <2>1, MetaOfGrows
<1> DEFINE base == IF n.parent = None THEN n.entry ELSE r[MetaOf(M, n.parent)]
           t == [m \in N |-> IF m = n THEN base ELSE r[m]]
<1>5. \A m \in M : r[m] = IF m.parent = None THEN m.entry ELSE r[MetaOf(M, m.parent)]
  BY <1>1 DEF RootEquation
<1>6. /\ t[n] = base /\ \A m \in M : t[m] = r[m]
  BY <1>2
<1>7. RootEquation(N, t)
  <2>1. ASSUME NEW m \in N
        PROVE  t[m] = IF m.parent = None THEN m.entry ELSE t[MetaOf(N, m.parent)]
    <3>1. CASE m = n
      BY <1>4, <1>6, <3>1
    <3>2. CASE m # n
      BY <1>3, <1>5, <1>6, <3>2
    <3>. QED  BY <3>1, <3>2
  <2> HIDE DEF base
  <2>2. t = [m \in N |-> t[m]]
    OBVIOUS
  <2> HIDE DEF t, N
  <2>. QED  BY <2>1, <2>2 DEF RootEquation
<1>8. ASSUME NEW s, RootEquation(N, s) PROVE s = t
  <2>1. /\ s = [m \in N |-> s[m]]
        /\ \A m \in N : s[m] = IF m.parent = None THEN m.entry ELSE s[MetaOf(N, m.parent)]
    BY <1>8 DEF RootEquation
  <2> DEFINE u == [m \in M |-> s[m]]
  <2>2. \A m \in M : u[m] = IF m.parent = None THEN m.entry ELSE u[MetaOf(M, m.parent)]
    BY <1>3, <2>1
  <2>3. RootEquation(M, u)
    <3> HIDE DEF N
    <3>1. u = [m \in M |-> u[m]]
      OBVIOUS
    <3> HIDE DEF u
    <3>. QED  BY <2>2, <3>1 DEF RootEquation
  <2>4. \A m \in M : s[m] = r[m]
    <3>1. u = r
      BY <1>1, <2>3
    <3>. QED  BY <3>1
  <2>5. s[n] = base
    BY <1>4, <2>1, <2>4
  <2>6. \A m \in N : s[m] = t[m]
    BY <1>6, <2>4, <2>5
  <2>. QED  BY <2>1, <2>6
<1>9. base \in Inputs
  BY <1>1, <1>4 DEF Follows
<1>10. \A m \in N : t[m] \in Inputs
  BY <1>1, <1>6, <1>9
<1>11. Rooted(N)
  BY <1>7, <1>8, <1>10 DEF Rooted
<1>12. ASSUME NEW m \in N PROVE RootOf(N, m.entry) = t[m]
  <2> HIDE DEF N, t
  <2>. QED  BY <1>2, <1>7, <1>8, RootOfIs
<1>13. ASSUME NEW m \in M PROVE RootOf(M, m.entry) = r[m]
  BY <1>1, RootOfIs
<1>14. RootOf(N, n.entry) = IF n.parent = None THEN n.entry ELSE RootOf(M, n.parent)
  <2>1. RootOf(N, n.entry) = base
    BY <1>6, <1>12
  <2>2. CASE n.parent # None
    <3>1. PICK p \in M : p.entry = n.parent
      BY <2>2 DEF Follows
    <3>2. MetaOf(M, n.parent) = p
      BY <3>1, MetaOfEntry
    <3>3. RootOf(M, n.parent) = r[p]
      BY <1>13, <3>1
    <3>. QED  BY <2>1, <2>2, <3>2, <3>3
  <2>. QED  BY <2>1, <2>2
<1>. QED  BY <1>6, <1>9, <1>11, <1>12, <1>13, <1>14

LEMMA RootsAreInputs ==
  ASSUME NEW M, Orderly(M), Rooted(M), NEW m \in M
  PROVE  RootOf(M, m.entry) \in Inputs
BY RootOfIs DEF Rooted


-----------------------------------------------------------------------------
(* The order of admission. *)

Serial(S) ==
  /\ IsFiniteSet(S)
  /\ \A m \in S : m.seq \in Nat /\ m.entry \in Nat
  /\ \A a, b \in S : a.seq = b.seq => a = b

Rank(S, m) == Cardinality({x \in S : Before(x, m)})

LEMMA BeforeIsBySeq ==
  ASSUME NEW S, Serial(S), NEW a \in S, NEW b \in S
  PROVE  Before(a, b) <=> a.seq < b.seq
BY DEF Serial, Before

(* Every place from the first to the last is that of one meta. *)
LEMMA RanksArePlaces ==
  ASSUME NEW S, Serial(S)
  PROVE  /\ Cardinality(S) \in Nat
         /\ \A m \in S : Rank(S, m) \in 0..(Cardinality(S) - 1)
         /\ \A a, b \in S : Rank(S, a) = Rank(S, b) => a = b
         /\ \A k \in 0..(Cardinality(S) - 1) : \E m \in S : Rank(S, m) = k
<1> DEFINE c == Cardinality(S)
           Lower(m) == {x \in S : Before(x, m)}
<1>1. c \in Nat /\ IsFiniteSet(S)
  BY FS_CardinalityType DEF Serial
<1>2. \A m \in S : IsFiniteSet(Lower(m)) /\ Cardinality(Lower(m)) \in Nat
  BY <1>1, FS_Subset, FS_CardinalityType
<1>3. ASSUME NEW m \in S PROVE Rank(S, m) \in 0..(c - 1)
  <2>1. m \notin Lower(m)
    BY BeforeIsBySeq DEF Serial
  <2>2. Lower(m) \in SUBSET S
    OBVIOUS
  <2>3. Cardinality(Lower(m)) <= c /\ Cardinality(Lower(m)) # c
    BY <1>1, <2>1, <2>2, FS_Subset
  <2>. QED  BY <1>1, <1>2, <2>3 DEF Rank
<1>4. ASSUME NEW a \in S, NEW b \in S, a.seq < b.seq
      PROVE  Rank(S, a) # Rank(S, b)
  <2>1. Lower(a) \in SUBSET Lower(b)
    <3> SUFFICES ASSUME NEW x \in S, Before(x, a) PROVE Before(x, b)
      OBVIOUS
    <3>. QED  BY <1>4, BeforeIsBySeq DEF Serial
  <2>2. a \in Lower(b) /\ a \notin Lower(a)
    BY <1>4, BeforeIsBySeq DEF Serial
  <2>3. Cardinality(Lower(a)) # Cardinality(Lower(b))
    BY <1>2, <2>1, <2>2, FS_Subset
  <2>. QED  BY <2>3 DEF Rank
<1>5. \A a, b \in S : Rank(S, a) = Rank(S, b) => a = b
  <2> SUFFICES ASSUME NEW a \in S, NEW b \in S, a # b PROVE Rank(S, a) # Rank(S, b)
    OBVIOUS
  <2>1. a.seq < b.seq \/ b.seq < a.seq
    BY DEF Serial
  <2>. QED  BY <1>4, <2>1
<1> DEFINE T == 0..(c - 1)
           f == [m \in S |-> Rank(S, m)]
<1>6. IsFiniteSet(T) /\ Cardinality(T) = c
  BY <1>1, FS_Interval
<1>7. f \in Injection(S, T)
  BY <1>3, <1>5 DEF Injection, IsInjective
<1>8. f \in Surjection(S, T)
  <2> HIDE DEF f, T, c
  <2>. QED  BY <1>6, <1>7, FS_Injection DEF c
<1>9. \A k \in T : \E m \in S : f[m] = k
  <2> HIDE DEF f, T, c
  <2>. QED  BY <1>8 DEF Surjection
<1>. QED  BY <1>1, <1>3, <1>5, <1>9

(* The meta at a place. *)
LEMMA InOrderAt ==
  ASSUME NEW S, Serial(S), NEW m \in S
  PROVE  InOrder(S)[Rank(S, m) + 1] = m
<1>1. Rank(S, m) \in 0..(Cardinality(S) - 1) /\ Cardinality(S) \in Nat
  BY RanksArePlaces
<1> DEFINE k == Rank(S, m) + 1
<1>2. k \in 1..Cardinality(S) /\ k - 1 = Rank(S, m)
  BY <1>1
<1>3. InOrder(S)[k] = CHOOSE x \in S : Rank(S, x) = k - 1
  BY <1>2 DEF InOrder, Rank
<1>4. \A x \in S : Rank(S, x) = k - 1 => x = m
  BY <1>2, RanksArePlaces
<1> HIDE DEF k
<1>5. (CHOOSE x \in S : Rank(S, x) = k - 1) = m
  BY <1>2, <1>4
<1>. QED  BY <1>3, <1>5 DEF k

LEMMA InOrderPlaces ==
  ASSUME NEW S, Serial(S)
  PROVE  /\ DOMAIN InOrder(S) = 1..Cardinality(S)
         /\ \A k \in 1..Cardinality(S) : InOrder(S)[k] \in S
<1>1. DOMAIN InOrder(S) = 1..Cardinality(S)
  BY DEF InOrder
<1>2. ASSUME NEW k \in 1..Cardinality(S) PROVE InOrder(S)[k] \in S
  <2>1. k - 1 \in 0..(Cardinality(S) - 1)
    BY RanksArePlaces
  <2>2. PICK m \in S : Rank(S, m) = k - 1
    BY <2>1, RanksArePlaces
  <2>3. (k - 1) + 1 = k
    BY RanksArePlaces
  <2>. QED  BY <2>2, <2>3, InOrderAt
<1>. QED  BY <1>1, <1>2

(* What comes after all others is last in the order, and moves none.       *)
LEMMA InOrderAppends ==
  ASSUME NEW S, Serial(S), NEW n, n.seq \in Nat, n.entry \in Nat,
         \A m \in S : m.seq < n.seq
  PROVE  /\ Serial(S \cup {n})
         /\ Cardinality(S \cup {n}) = Cardinality(S) + 1
         /\ Cardinality(S) \in Nat
         /\ \A k \in 1..Cardinality(S) : InOrder(S \cup {n})[k] = InOrder(S)[k]
         /\ InOrder(S \cup {n})[Cardinality(S) + 1] = n
<1> DEFINE T == S \cup {n}
<1>1. n \notin S
  <2> SUFFICES ASSUME n \in S PROVE FALSE
    OBVIOUS
  <2>1. n.seq < n.seq
    OBVIOUS
  <2>. QED  BY <2>1
<1>2. IsFiniteSet(T) /\ Cardinality(T) = Cardinality(S) + 1
  BY <1>1, FS_AddElement DEF Serial
<1>3. Serial(T)
  <2>1. \A m \in T : m.seq \in Nat /\ m.entry \in Nat
    BY DEF Serial
  <2>2. ASSUME NEW a \in T, NEW b \in T, a.seq = b.seq PROVE a = b
    BY <2>2, <2>1 DEF Serial
  <2> HIDE DEF T
  <2>. QED  BY <1>2, <2>1, <2>2 DEF Serial
<1>4. Cardinality(S) \in Nat
  BY RanksArePlaces
<1>5. ASSUME NEW m \in S PROVE Rank(T, m) = Rank(S, m)
  <2>1. ~Before(n, m)
    BY <1>3, BeforeIsBySeq DEF Serial
  <2>2. {x \in T : Before(x, m)} = {x \in S : Before(x, m)}
    BY <2>1
  <2>. QED  BY <2>2 DEF Rank
<1>6. Rank(T, n) = Cardinality(S)
  <2>1. ~Before(n, n)
    BY <1>3, BeforeIsBySeq DEF Serial
  <2>2. \A m \in S : Before(m, n)
    BY <1>3, BeforeIsBySeq
  <2>3. {x \in T : Before(x, n)} = S
    BY <2>1, <2>2
  <2>. QED  BY <2>3 DEF Rank
<1>7. InOrder(T)[Cardinality(S) + 1] = n
  <2>1. n \in T
    OBVIOUS
  <2> HIDE DEF T
  <2>. QED  BY <1>3, <1>6, <2>1, InOrderAt
<1>8. ASSUME NEW k \in 1..Cardinality(S) PROVE InOrder(T)[k] = InOrder(S)[k]
  <2>1. k - 1 \in 0..(Cardinality(S) - 1)
    BY <1>4
  <2>2. PICK m \in S : Rank(S, m) = k - 1
    BY <2>1, RanksArePlaces
  <2>3. (k - 1) + 1 = k
    BY <1>4
  <2>4. InOrder(S)[k] = m
    BY <2>2, <2>3, InOrderAt
  <2>5. m \in T /\ Rank(T, m) = k - 1
    BY <1>5, <2>2
  <2> HIDE DEF T
  <2>6. InOrder(T)[k] = m
    BY <1>3, <2>3, <2>5, InOrderAt
  <2>. QED  BY <2>4, <2>6
<1>. QED  BY <1>2, <1>3, <1>4, <1>7, <1>8

-----------------------------------------------------------------------------
(* Replays of a growing corpus. *)

LEMMA SubsetsAreSerial ==
  ASSUME NEW M, Orderly(M), NEW S \in SUBSET M
  PROVE  Serial(S)
BY InputsAssumption, FS_Subset DEF Orderly, Serial

LEMMA EdgeOfGrows ==
  ASSUME NEW M, NEW n, Orderly(M), Follows(M, n), NEW m \in Children(M)
  PROVE  EdgeOf(M, m) \in EdgeType /\ EdgeOf(M \cup {n}, m) = EdgeOf(M, m)
<1>1. m \in M /\ m.parent # None /\ m.sig \in Int
  BY DEF Orderly, Children
<1>2. PICK p \in M : p.entry = m.parent
  BY <1>1 DEF Orderly
<1>3. MetaOf(M, m.parent) = p /\ MetaOf(M \cup {n}, m.parent) = p
  BY <1>2, MetaOfGrows
<1>4. p.gen \in Nat /\ p.sig \in Int
  BY DEF Orderly
<1>. QED  BY <1>1, <1>3, <1>4 DEF EdgeOf, EdgeFrom, EdgeType

LEMMA EdgesAre ==
  ASSUME NEW M, Orderly(M), NEW S \in SUBSET Children(M)
  PROVE  /\ Cardinality(S) \in Nat
         /\ Edges(M, S) \in Seq(EdgeType) /\ Len(Edges(M, S)) = Cardinality(S)
         /\ Edges(M, S) = [k \in 1..Cardinality(S) |-> EdgeOf(M, InOrder(S)[k])]
<1>1. Serial(S)
  BY SubsetsAreSerial DEF Children
<1>2. Cardinality(S) \in Nat
  BY <1>1, RanksArePlaces
<1>3. Edges(M, S) = [k \in 1..Cardinality(S) |-> EdgeOf(M, InOrder(S)[k])]
  BY <1>1, InOrderPlaces DEF Edges
<1>4. \A m \in Children(M) : EdgeOf(M, m) \in EdgeType
  <2> SUFFICES ASSUME NEW m \in Children(M) PROVE EdgeOf(M, m) \in EdgeType
    OBVIOUS
  <2>1. m \in M /\ m.parent # None /\ m.sig \in Int
    BY DEF Orderly, Children
  <2>2. PICK p \in M : p.entry = m.parent
    BY <2>1 DEF Orderly
  <2>3. MetaOf(M, m.parent) = p /\ p.gen \in Nat /\ p.sig \in Int
    BY <2>2, MetaOfEntry DEF Orderly
  <2>. QED  BY <2>1, <2>3 DEF EdgeOf, EdgeFrom, EdgeType
<1>5. \A k \in 1..Cardinality(S) : EdgeOf(M, InOrder(S)[k]) \in EdgeType
  BY <1>1, <1>4, InOrderPlaces
<1>6. Edges(M, S) \in [1..Cardinality(S) -> EdgeType]
  BY <1>3, <1>5
<1>. QED  BY <1>2, <1>3, <1>6

LEMMA EdgesStay ==
  ASSUME NEW M, NEW n, Orderly(M), Follows(M, n), NEW S \in SUBSET Children(M)
  PROVE  Edges(M \cup {n}, S) = Edges(M, S)
<1>1. Serial(S)
  BY SubsetsAreSerial DEF Children
<1>2. \A k \in 1..Cardinality(S) : InOrder(S)[k] \in Children(M)
  BY <1>1, InOrderPlaces
<1>3. \A k \in 1..Cardinality(S) : EdgeOf(M \cup {n}, InOrder(S)[k]) = EdgeOf(M, InOrder(S)[k])
  BY <1>2, EdgeOfGrows
<1>4. Orderly(M \cup {n}) /\ S \in SUBSET Children(M \cup {n})
  BY OrderlyGrows DEF Children
<1>5. Edges(M, S) = [k \in 1..Cardinality(S) |-> EdgeOf(M, InOrder(S)[k])]
  BY EdgesAre
<1>6. Edges(M \cup {n}, S) = [k \in 1..Cardinality(S) |-> EdgeOf(M \cup {n}, InOrder(S)[k])]
  BY <1>4, EdgesAre
<1>. QED  BY <1>3, <1>5, <1>6

(* The edge of a new child, from the parent it names. *)
LEMMA EdgeOfNew ==
  ASSUME NEW M, NEW n, Orderly(M), Follows(M, n), n.mutator # None
  PROVE  /\ EdgeOf(M \cup {n}, n) \in EdgeType
         /\ EdgeOf(M \cup {n}, n) = EdgeFrom(MetaOf(M, n.parent), n.sig)
<1>1. PICK p \in M : p.entry = n.parent
  BY DEF Follows
<1>2. MetaOf(M, n.parent) = p /\ MetaOf(M \cup {n}, n.parent) = p
  BY <1>1, MetaOfGrows
<1>3. p.gen \in Nat /\ p.sig \in Int /\ n.sig \in Int
  BY DEF Orderly, Follows
<1>4. EdgeFrom(p, n.sig) \in EdgeType
  BY <1>3 DEF EdgeFrom, EdgeType
<1>. QED  BY <1>2, <1>4 DEF EdgeOf

LEMMA EdgesAppend ==
  ASSUME NEW M, NEW n, Orderly(M), Follows(M, n), n.mutator # None,
         NEW S \in SUBSET Children(M)
  PROVE  Edges(M \cup {n}, S \cup {n}) = Append(Edges(M, S), EdgeOf(M \cup {n}, n))
<1> DEFINE N == M \cup {n}
           T == S \cup {n}
           c == Cardinality(S)
           e == EdgeOf(N, n)
<1>1. Serial(S)
  BY SubsetsAreSerial DEF Children
<1>2. \A m \in S : m.seq < n.seq
  BY DEF Follows, Children
<1>3. n.seq \in Nat /\ n.entry \in Nat
  BY InputsAssumption DEF Follows
<1>4. /\ Cardinality(T) = c + 1 /\ c \in Nat
      /\ \A k \in 1..c : InOrder(T)[k] = InOrder(S)[k]
      /\ InOrder(T)[c + 1] = n
  BY <1>1, <1>2, <1>3, InOrderAppends
<1>5. Orderly(N) /\ T \in SUBSET Children(N)
  BY OrderlyGrows DEF Children
<1>6. /\ Edges(N, T) = [k \in 1..(c + 1) |-> EdgeOf(N, InOrder(T)[k])]
      /\ Edges(N, T) \in Seq(EdgeType) /\ Len(Edges(N, T)) = c + 1
  <2> HIDE DEF N, T, c
  <2>. QED  BY <1>4, <1>5, EdgesAre
<1>7. /\ Edges(M, S) = [k \in 1..c |-> EdgeOf(M, InOrder(S)[k])]
      /\ Edges(M, S) \in Seq(EdgeType) /\ Len(Edges(M, S)) = c
  BY EdgesAre
<1>8. \A k \in 1..c : EdgeOf(N, InOrder(S)[k]) = EdgeOf(M, InOrder(S)[k])
  BY <1>1, InOrderPlaces, EdgeOfGrows
<1>9. e \in EdgeType
  BY EdgeOfNew
<1> HIDE DEF N, T, e
<1>10. \A k \in 1..c : Edges(N, T)[k] = Edges(M, S)[k]
  BY <1>4, <1>6, <1>7, <1>8
<1>11. Edges(N, T)[c + 1] = e
  BY <1>4, <1>6 DEF e
<1> HIDE DEF c
<1>12. Edges(N, T) = Append(Edges(M, S), e)
  <2> DEFINE t == Edges(N, T)
             s == Edges(M, S)
  <2>1. t \in Seq(EdgeType) /\ Append(s, e) \in Seq(EdgeType)
    BY <1>6, <1>7, <1>9
  <2>2. Len(t) = c + 1 /\ Len(Append(s, e)) = c + 1 /\ c \in Nat
    BY <1>4, <1>6, <1>7, <1>9
  <2>3. \A k \in 1..(c + 1) : t[k] = Append(s, e)[k]
    BY <1>4, <1>7, <1>9, <1>10, <1>11
  <2> HIDE DEF t, s
  <2>4. t = Append(s, e)
    BY <2>1, <2>2, <2>3
  <2>. QED  BY <2>4 DEF t, s
<1>. QED  BY <1>12 DEF N, T, e

-----------------------------------------------------------------------------
(* The lineages of a growing corpus. *)

LEMMA RootsKeepChildren ==
  ASSUME NEW M, NEW n, Orderly(M), Rooted(M), Follows(M, n), n.mutator = None
  PROVE  /\ Children(M \cup {n}) = Children(M)
         /\ \A i : OfRoot(M \cup {n}, i) = OfRoot(M, i)
         /\ \A key : Lineage(M \cup {n}, key) = Lineage(M, key)
<1>1. Children(M \cup {n}) = Children(M)
  BY DEF Children
<1>2. \A m \in Children(M) : RootOf(M \cup {n}, m.entry) = RootOf(M, m.entry)
  BY RootsGrow DEF Children
<1>3. \A i : OfRoot(M \cup {n}, i) = OfRoot(M, i)
  BY <1>1, <1>2 DEF OfRoot
<1>. QED  BY <1>1, <1>3 DEF Lineage

(* N is M with n, a child of that root. *)
Joins(M, n, root) ==
  /\ Children(M \cup {n}) = Children(M) \cup {n}
  /\ RootOf(M \cup {n}, n.entry) = root
  /\ \A i : OfRoot(M \cup {n}, i) =
       IF i = root THEN OfRoot(M, i) \cup {n} ELSE OfRoot(M, i)
  /\ \A i, u : Lineage(M \cup {n}, <<i, u>>) =
       IF i = root /\ u = n.mutator THEN Lineage(M, <<i, u>>) \cup {n}
                                    ELSE Lineage(M, <<i, u>>)

LEMMA ChildJoins ==
  ASSUME NEW M, NEW n, Orderly(M), Rooted(M), Follows(M, n), n.mutator # None
  PROVE  Joins(M, n, RootOf(M, n.parent))
<1> DEFINE N == M \cup {n}
           root == RootOf(M, n.parent)
<1>1. Children(N) = Children(M) \cup {n}
  BY DEF Children
<1>2. \A m \in Children(M) : RootOf(N, m.entry) = RootOf(M, m.entry)
  BY RootsGrow DEF Children
<1>3. RootOf(N, n.entry) = root
  BY RootsGrow DEF Follows
<1>4. ASSUME NEW i
      PROVE  OfRoot(N, i) = IF i = root THEN OfRoot(M, i) \cup {n} ELSE OfRoot(M, i)
  <2> HIDE DEF N, root
  <2>. QED  BY <1>1, <1>2, <1>3 DEF OfRoot
<1>5. ASSUME NEW i, NEW u
      PROVE  Lineage(N, <<i, u>>) =
               IF i = root /\ u = n.mutator THEN Lineage(M, <<i, u>>) \cup {n}
                                            ELSE Lineage(M, <<i, u>>)
  <2> HIDE DEF N, root
  <2>. QED  BY <1>4 DEF Lineage
<1>. QED  BY <1>1, <1>3, <1>4, <1>5 DEF Joins

LEMMA LineagesAreChildren ==
  ASSUME NEW M
  PROVE  /\ \A i : OfRoot(M, i) \in SUBSET Children(M)
         /\ \A key : Lineage(M, key) \in SUBSET Children(M)
BY DEF OfRoot, Lineage

(* What was derived for an entry is derived for it ever after.             *)
LEMMA DerivedStays ==
  ASSUME NEW M, NEW n, Orderly(M), Rooted(M), Follows(M, n), NEW m \in Children(M)
  PROVE  Derived(M \cup {n}, m) = Derived(M, m)
<1> DEFINE N == M \cup {n}
           key == <<RootOf(M, m.entry), m.mutator>>
           Upto(S) == {x \in S : x = m \/ Before(x, m)}
<1>1. RootOf(N, m.entry) = RootOf(M, m.entry)
  BY RootsGrow DEF Children
<1>2. /\ Lineage(N, key) \in SUBSET (Lineage(M, key) \cup {n})
      /\ Lineage(M, key) \in SUBSET Lineage(N, key)
  <2>1. CASE n.mutator = None
    BY <2>1, RootsKeepChildren
  <2>2. CASE n.mutator # None
    <3> DEFINE root == RootOf(M, n.parent)
    <3>1. Joins(M, n, root)
      BY <2>2, ChildJoins
    <3>2. Lineage(N, key) =
            IF RootOf(M, m.entry) = root /\ m.mutator = n.mutator
              THEN Lineage(M, key) \cup {n} ELSE Lineage(M, key)
      BY <3>1 DEF Joins
    <3> HIDE DEF N, key
    <3>. QED  BY <3>2
  <2>. QED  BY <2>1, <2>2
<1>3. n # m /\ ~Before(n, m)
  BY OrderlyGrows, SubsetsAreSerial, BeforeIsBySeq DEF Children, Follows, Before, Orderly
<1>4. Upto(Lineage(N, key)) = Upto(Lineage(M, key))
  BY <1>2, <1>3
<1>5. Upto(Lineage(M, key)) \in SUBSET Children(M)
  BY LineagesAreChildren
<1>6. Derived(N, m) = Edges(N, Upto(Lineage(M, key)))
  BY <1>1, <1>4 DEF Derived
<1>. QED  BY <1>5, <1>6, EdgesStay DEF Derived

(* A new child has its own edge after all of its lineage. *)
LEMMA DerivedOfNew ==
  ASSUME NEW M, NEW n, Orderly(M), Rooted(M), Follows(M, n), n.mutator # None
  PROVE  Derived(M \cup {n}, n) =
           Append(Edges(M, Lineage(M, <<RootOf(M, n.parent), n.mutator>>)),
                  EdgeOf(M \cup {n}, n))
<1> DEFINE N == M \cup {n}
           key == <<RootOf(M, n.parent), n.mutator>>
<1>1. RootOf(N, n.entry) = RootOf(M, n.parent)
  BY ChildJoins DEF Joins
<1>2. Lineage(N, key) = Lineage(M, key) \cup {n}
  BY ChildJoins DEF Joins
<1>3. \A x \in M : Before(x, n)
  BY DEF Follows, Before
<1>4. Lineage(M, key) \in SUBSET Children(M)
  BY LineagesAreChildren
<1>5. {x \in Lineage(N, key) : x = n \/ Before(x, n)} = Lineage(M, key) \cup {n}
  BY <1>2, <1>3, <1>4 DEF Children
<1>6. Derived(N, n) = Edges(N, Lineage(M, key) \cup {n})
  BY <1>1, <1>5 DEF Derived
<1>. QED  BY <1>4, <1>6, EdgesAppend

-----------------------------------------------------------------------------
(* The stream of a root. *)

LEMMA LeastNumber ==
  ASSUME NEW T, T \subseteq Nat, T # {}
  PROVE  \E k \in T : \A j \in T : k <= j
<1> DEFINE R == OpToRel(<, Nat)
<1>1. IsWellFoundedOn(R, Nat)
  BY NatLessThanWellFounded
<1> HIDE DEF R
<1>2. PICK k \in T : \A j \in T : ~ (<<j, k>> \in R)
  BY <1>1, WFMin
<1>3. \A j \in T : ~(j < k)
  BY <1>2 DEF R, OpToRel
<1>. QED BY <1>3

(* A stream that has started starts at its first moved edge. *)
LEMMA StreamStarts ==
  ASSUME NEW es \in Seq(EdgeType), NEW k \in DOMAIN es, Moved(es[k])
  PROVE  \E s \in DOMAIN es : /\ Moved(es[s]) /\ \A j \in 1..(s - 1) : ~Moved(es[j])
                              /\ StreamOf(es) = SubSeq(es, s, Len(es))
<1> DEFINE T == {j \in DOMAIN es : Moved(es[j])}
<1>0. T \subseteq Nat /\ T # {}
  OBVIOUS
<1>1. PICK s \in T : \A j \in T : s <= j
  <2> HIDE DEF T
  <2>. QED  BY <1>0, LeastNumber
<1>2. \A j \in 1..(s - 1) : ~Moved(es[j])
  <2> SUFFICES ASSUME NEW j \in 1..(s - 1), Moved(es[j]) PROVE FALSE
    OBVIOUS
  <2>1. j \in T
    OBVIOUS
  <2>. QED  BY <1>1, <2>1
<1>3. \A x \in DOMAIN es :
        Moved(es[x]) /\ (\A j \in 1..(x - 1) : ~Moved(es[j])) => x = s
  <2> SUFFICES ASSUME NEW x \in DOMAIN es, Moved(es[x]),
                      \A j \in 1..(x - 1) : ~Moved(es[j])
               PROVE  x = s
    OBVIOUS
  <2>1. s <= x /\ s \in 1..Len(es) /\ x \in 1..Len(es) /\ Moved(es[s])
    BY <1>1
  <2>2. ~(s < x)
    BY <2>1
  <2>. QED  BY <2>1, <2>2
<1>4. s \in DOMAIN es /\ Moved(es[s])
  OBVIOUS
<1>5. s = CHOOSE x \in DOMAIN es : Moved(es[x]) /\ \A j \in 1..(x - 1) : ~Moved(es[j])
  BY <1>2, <1>3, <1>4
<1>6. StreamOf(es) = SubSeq(es, s, Len(es))
  BY <1>4, <1>5 DEF StreamOf
<1>. QED  BY <1>2, <1>4, <1>6

LEMMA StreamAwaits ==
  ASSUME NEW es \in Seq(EdgeType), \A k \in DOMAIN es : ~Moved(es[k])
  PROVE  StreamOf(es) = <<>>
BY DEF StreamOf

LEMMA StreamGrows ==
  ASSUME NEW es \in Seq(EdgeType), NEW e \in EdgeType
  PROVE  StreamOf(Append(es, e)) = Feed(StreamOf(es), e)
<1> DEFINE fs == Append(es, e)
<1>1. /\ fs \in Seq(EdgeType) /\ Len(fs) = Len(es) + 1 /\ Len(es) \in Nat
      /\ \A k \in DOMAIN es : fs[k] = es[k] /\ k \in DOMAIN fs
      /\ fs[Len(es) + 1] = e /\ Len(es) + 1 \in DOMAIN fs
      /\ DOMAIN fs = 1..(Len(es) + 1) /\ DOMAIN es = 1..Len(es)
  OBVIOUS
<1> HIDE DEF fs
<1>2. ASSUME NEW k \in DOMAIN es, Moved(es[k])
      PROVE  StreamOf(fs) = Feed(StreamOf(es), e)
  <2>1. PICK s \in DOMAIN es : /\ Moved(es[s]) /\ \A j \in 1..(s - 1) : ~Moved(es[j])
                               /\ StreamOf(es) = SubSeq(es, s, Len(es))
    BY <1>2, StreamStarts
  <2>2. Moved(fs[s]) /\ s \in DOMAIN fs
    BY <1>1, <2>1
  <2>3. PICK t \in DOMAIN fs : /\ Moved(fs[t]) /\ \A j \in 1..(t - 1) : ~Moved(fs[j])
                               /\ StreamOf(fs) = SubSeq(fs, t, Len(fs))
    BY <1>1, <2>2, StreamStarts
  <2>4. t = s
    <3>1. s \in 1..Len(es) /\ t \in 1..(Len(es) + 1)
      BY <1>1
    <3>2. ~(s < t)
      BY <2>2, <2>3, <3>1
    <3>3. ~(t < s)
      <4> SUFFICES ASSUME t < s PROVE FALSE
        OBVIOUS
      <4>1. t \in DOMAIN es /\ t \in 1..(s - 1)
        BY <1>1, <3>1
      <4>. QED  BY <1>1, <2>1, <2>3, <4>1
    <3>. QED  BY <3>1, <3>2, <3>3
  <2>5. s \in 1..Len(es)
    BY <1>1
  <2>6. SubSeq(es, s, Len(es)) # <<>>
    <3>1. Len(SubSeq(es, s, Len(es))) = (Len(es) - s) + 1
      BY <2>5
    <3>. QED  BY <1>1, <2>5, <3>1
  <2>7. SubSeq(fs, s, Len(es) + 1) = Append(SubSeq(es, s, Len(es)), e)
    <3> DEFINE n == Len(es)
               a == SubSeq(fs, s, n + 1)
               b == Append(SubSeq(es, s, n), e)
    <3>1. n \in Nat /\ s \in 1..n
      BY <1>1, <2>5
    <3>2. /\ SubSeq(es, s, n) \in Seq(EdgeType) /\ Len(SubSeq(es, s, n)) = (n - s) + 1
          /\ \A j \in 1..((n - s) + 1) : SubSeq(es, s, n)[j] = es[(s + j) - 1]
      BY <3>1
    <3>3. /\ b \in Seq(EdgeType) /\ Len(b) = (n - s) + 2
          /\ \A j \in 1..((n - s) + 1) : b[j] = es[(s + j) - 1]
          /\ b[(n - s) + 2] = e
      BY <3>1, <3>2
    <3>4. /\ a \in Seq(EdgeType) /\ Len(a) = (n - s) + 2
          /\ \A j \in 1..((n - s) + 2) : a[j] = fs[(s + j) - 1]
      BY <1>1, <3>1
    <3>5. ASSUME NEW j \in 1..((n - s) + 2) PROVE a[j] = b[j]
      <4>1. CASE j = (n - s) + 2
        BY <1>1, <3>1, <3>3, <3>4, <4>1
      <4>2. CASE j \in 1..((n - s) + 1)
        <5>1. (s + j) - 1 \in 1..n
          BY <3>1, <4>2
        <5>. QED  BY <1>1, <3>3, <3>4, <4>2, <5>1
      <4>. QED  BY <3>1, <4>1, <4>2
    <3> HIDE DEF a, b
    <3>6. a = b
      BY <3>1, <3>3, <3>4, <3>5
    <3>. QED  BY <3>6 DEF a, b
  <2>. QED  BY <1>1, <2>1, <2>3, <2>4, <2>6, <2>7 DEF Feed
<1>3. ASSUME \A k \in DOMAIN es : ~Moved(es[k]), Moved(e)
      PROVE  StreamOf(fs) = Feed(StreamOf(es), e)
  <2>1. PICK t \in DOMAIN fs : /\ Moved(fs[t])
                               /\ StreamOf(fs) = SubSeq(fs, t, Len(fs))
    BY <1>1, <1>3, StreamStarts
  <2>2. t = Len(es) + 1
    BY <1>1, <1>3, <2>1
  <2>3. SubSeq(fs, Len(es) + 1, Len(es) + 1) = <<e>>
    <3> DEFINE n == Len(es) + 1
               t1 == SubSeq(fs, n, n)
    <3>1. n \in Nat /\ n >= 1 /\ fs[n] = e /\ n \in 1..Len(fs)
      BY <1>1
    <3> HIDE DEF n
    <3>2. Len(t1) = 1 /\ t1[1] = fs[n] /\ t1 \in Seq(EdgeType)
      BY <1>1, <3>1
    <3> HIDE DEF t1
    <3>3. t1 = <<e>>
      BY <3>1, <3>2
    <3>. QED  BY <3>3 DEF n, t1
  <2>4. StreamOf(es) = <<>>
    BY <1>3, StreamAwaits
  <2>5. Feed(<<>>, e) = <<e>>
    BY <1>3 DEF Feed
  <2>. QED  BY <1>1, <2>1, <2>2, <2>3, <2>4, <2>5
<1>4. ASSUME \A k \in DOMAIN es : ~Moved(es[k]), ~Moved(e)
      PROVE  StreamOf(fs) = Feed(StreamOf(es), e)
  <2>1. \A k \in DOMAIN fs : ~Moved(fs[k])
    BY <1>1, <1>4
  <2>2. StreamOf(fs) = <<>> /\ StreamOf(es) = <<>>
    BY <1>1, <1>4, <2>1, StreamAwaits
  <2>. QED  BY <1>4, <2>2 DEF Feed
<1>. QED  BY <1>2, <1>3, <1>4 DEF fs

-----------------------------------------------------------------------------
(* The inductive invariant behind a clean start. *)

Replay(M, key) == Edges(M, Lineage(M, key))
KnownOf(M) == {Identity(Derived(M, m)) : m \in Children(M)}

AdmKey == <<adm.root, adm.mutator>>

(* The lineage has the edge of an entry that has no meta yet. *)
Advancing == adm # None /\ adm.stage \in {"morph", "meta"} /\ adm.mutator # None

(* Its signature and its identity are known already. *)
Announced == adm # None /\ adm.stage = "meta" /\ adm.mutator # None

Replayed ==
  \A m \in metas : m.morph # None => /\ m.mutator # None
                                     /\ m.morph = Derived(metas, m)

Underway ==
  adm # None =>
    /\ adm \in AdmType
    /\ adm.mutator = None <=> adm.parent = None
    /\ adm.mutator = None <=> adm.reason = "seed"
    /\ adm.mutator # None =>
         \E p \in metas : /\ p.entry = adm.parent
                          /\ adm.root = RootOf(metas, p.entry)
                          /\ adm.edge = EdgeFrom(p, adm.sig)
    /\ adm.stage \in {"morph", "meta"} =>
         adm.morph = IF Structured THEN Append(Replay(metas, AdmKey), adm.edge)
                                   ELSE None

Live ==
  /\ acc = [key \in Keys |-> acc[key]] /\ stream = [i \in Inputs |-> stream[i]]
  /\ residual =>
       /\ states = StatesOf(metas) \cup (IF Announced THEN {adm.sig} ELSE {})
       /\ known = KnownOf(metas) \cup (IF Announced THEN {Identity(adm.morph)} ELSE {})
       /\ \A key \in Keys :
            acc[key] = IF Advancing /\ key = AdmKey THEN adm.morph
                                                    ELSE Replay(metas, key)
       /\ \A i \in Inputs : stream[i] = StreamOf(Edges(metas, OfRoot(metas, i)))

ReplayInv ==
  /\ phase # "failed" /\ toSeed \in Seq(Inputs)
  /\ Orderly(metas) /\ Rooted(metas) /\ Replayed
  /\ Underway /\ Live

-----------------------------------------------------------------------------
(* What a rebuild derives, before and after an admission. *)

LEMMA SeedGrows ==
  ASSUME NEW M, NEW n, Orderly(M), Rooted(M), Follows(M, n), n.mutator = None
  PROVE  /\ KnownOf(M \cup {n}) = KnownOf(M)
         /\ \A key : Replay(M \cup {n}, key) = Replay(M, key)
         /\ \A i : Edges(M \cup {n}, OfRoot(M \cup {n}, i)) = Edges(M, OfRoot(M, i))
<1> DEFINE N == M \cup {n}
<1>1. /\ Children(N) = Children(M)
      /\ \A i : OfRoot(N, i) = OfRoot(M, i)
      /\ \A key : Lineage(N, key) = Lineage(M, key)
  BY RootsKeepChildren
<1>2. \A m \in Children(M) : Derived(N, m) = Derived(M, m)
  BY DerivedStays
<1>3. KnownOf(N) = KnownOf(M)
  BY <1>1, <1>2 DEF KnownOf
<1>4. ASSUME NEW key PROVE Replay(N, key) = Replay(M, key)
  BY <1>1, LineagesAreChildren, EdgesStay DEF Replay
<1>5. ASSUME NEW i PROVE Edges(N, OfRoot(N, i)) = Edges(M, OfRoot(M, i))
  BY <1>1, LineagesAreChildren, EdgesStay
<1>. QED  BY <1>3, <1>4, <1>5

(* What a child of that root, with that edge, adds to a rebuild. *)
Extends(M, n, root, edge) ==
  /\ edge \in EdgeType
  /\ Derived(M \cup {n}, n) = Append(Replay(M, <<root, n.mutator>>), edge)
  /\ KnownOf(M \cup {n}) = KnownOf(M) \cup {Identity(Derived(M \cup {n}, n))}
  /\ \A i, u : Replay(M \cup {n}, <<i, u>>) =
       IF i = root /\ u = n.mutator THEN Append(Replay(M, <<i, u>>), edge)
                                    ELSE Replay(M, <<i, u>>)
  /\ \A i : Edges(M \cup {n}, OfRoot(M \cup {n}, i)) =
       IF i = root THEN Append(Edges(M, OfRoot(M, i)), edge)
                   ELSE Edges(M, OfRoot(M, i))

LEMMA ChildGrows ==
  ASSUME NEW M, NEW n, Orderly(M), Rooted(M), Follows(M, n), n.mutator # None,
         NEW root, NEW edge, NEW p \in M, p.entry = n.parent,
         root = RootOf(M, p.entry), edge = EdgeFrom(p, n.sig)
  PROVE  Extends(M, n, root, edge)
<1> DEFINE N == M \cup {n}
<1>1. MetaOf(M, n.parent) = p /\ RootOf(M, n.parent) = root
  BY MetaOfEntry
<1>2. EdgeOf(N, n) = edge /\ edge \in EdgeType
  BY <1>1, EdgeOfNew
<1>3. Derived(N, n) = Append(Replay(M, <<root, n.mutator>>), edge)
  BY <1>1, <1>2, DerivedOfNew DEF Replay
<1>4. /\ Children(N) = Children(M) \cup {n}
      /\ \A i : OfRoot(N, i) = IF i = root THEN OfRoot(M, i) \cup {n} ELSE OfRoot(M, i)
      /\ \A i, u : Lineage(N, <<i, u>>) =
              IF i = root /\ u = n.mutator
                THEN Lineage(M, <<i, u>>) \cup {n} ELSE Lineage(M, <<i, u>>)
  <2>1. Joins(M, n, RootOf(M, n.parent))
    BY ChildJoins
  <2>2. Joins(M, n, root)
    BY <1>1, <2>1
  <2>. QED  BY <2>2 DEF Joins
<1>5. \A m \in Children(M) : Derived(N, m) = Derived(M, m)
  BY DerivedStays
<1> HIDE DEF N
<1>6. KnownOf(N) = KnownOf(M) \cup {Identity(Derived(N, n))}
  BY <1>4, <1>5 DEF KnownOf
<1>7. \A S \in SUBSET Children(M) : /\ Edges(N, S) = Edges(M, S)
                                    /\ Edges(N, S \cup {n}) = Append(Edges(M, S), edge)
  <2> SUFFICES ASSUME NEW S \in SUBSET Children(M)
               PROVE  /\ Edges(N, S) = Edges(M, S)
                      /\ Edges(N, S \cup {n}) = Append(Edges(M, S), edge)
    OBVIOUS
  <2>1. Edges(N, S) = Edges(M, S)
    BY EdgesStay DEF N
  <2>2. Edges(N, S \cup {n}) = Append(Edges(M, S), EdgeOf(N, n))
    BY EdgesAppend DEF N
  <2>. QED  BY <1>2, <2>1, <2>2
<1>8. ASSUME NEW i, NEW u
      PROVE  Replay(N, <<i, u>>) =
              IF i = root /\ u = n.mutator THEN Append(Replay(M, <<i, u>>), edge)
                                           ELSE Replay(M, <<i, u>>)
  <2>1. Lineage(M, <<i, u>>) \in SUBSET Children(M)
    BY LineagesAreChildren
  <2>. QED  BY <1>4, <1>7, <2>1 DEF Replay
<1>9. ASSUME NEW i
      PROVE  Edges(N, OfRoot(N, i)) =
              IF i = root THEN Append(Edges(M, OfRoot(M, i)), edge)
                          ELSE Edges(M, OfRoot(M, i))
  <2>1. OfRoot(M, i) \in SUBSET Children(M)
    BY LineagesAreChildren
  <2>. QED  BY <1>4, <1>7, <2>1
<1>. QED  BY <1>2, <1>3, <1>6, <1>8, <1>9 DEF N, Extends

LEMMA CorpusIsSound == ASSUME ReplayInv PROVE Sound(metas)
<1>1. \A a, b \in metas : a.entry = b.entry => a = b
  BY DEF ReplayInv, Orderly
<1>2. \A m \in Children(metas) : \E p \in metas : p.entry = m.parent
  BY DEF ReplayInv, Orderly, Children
<1>3. \A m \in metas : m.morph # None => m.morph = Derived(metas, m)
  BY DEF ReplayInv, Replayed
<1>. QED  BY <1>1, <1>2, <1>3 DEF Sound

(* The steps that write no meta. *)
LEMMA SameCorpus ==
  ASSUME ReplayInv, metas' = metas
  PROVE  Orderly(metas)' /\ Rooted(metas)' /\ Replayed'
BY DEF ReplayInv, Replayed

-----------------------------------------------------------------------------
LEMMA InitReplay == Init => ReplayInv
<1> SUFFICES ASSUME Init PROVE ReplayInv
  OBVIOUS
<1>1. Orderly(metas)
  BY FS_EmptySet DEF Init, Orderly
<1>2. Rooted(metas)
  <2> DEFINE r == [m \in {} |-> m]
  <2>1. RootEquation({}, r) /\ \A s : RootEquation({}, s) => s = r
    BY DEF RootEquation
  <2>. QED  BY <2>1 DEF Init, Rooted
<1>3. Replayed /\ Underway /\ Live
  BY DEF Init, Replayed, Underway, Live
<1>. QED  BY <1>1, <1>2, <1>3 DEF Init, ReplayInv

LEMMA StartReplays == ASSUME IInv, ReplayInv, NEW r \in BOOLEAN, Start(r) PROVE ReplayInv'
<1>1. Sound(metas)
  BY CorpusIsSound
<1>2. adm = None /\ adm' = None /\ metas' = metas
  BY DEF Start, IInv, Prepared, store
<1>3. Orderly(metas)' /\ Rooted(metas)' /\ Replayed'
  BY <1>2, SameCorpus
<1>4. phase' = "on" /\ toSeed' \in Seq(Inputs)
  <2>1. phase' = "on" /\ toSeed' = IF metas = {} THEN Seeds ELSE <<>>
    BY <1>1 DEF Start
  <2>2. <<>> \in Seq(Inputs) /\ Seeds \in Seq(Inputs)
    BY InputsAssumption
  <2>. QED  BY <2>1, <2>2
<1>5. Underway'
  BY <1>2 DEF Underway
<1>6. Live'
  <2>1. ~Advancing' /\ ~Announced'
    BY <1>2 DEF Advancing, Announced
  <2>2. acc' = [key \in Keys |-> acc'[key]] /\ stream' = [i \in Inputs |-> stream'[i]]
    BY <1>1 DEF Start
  <2>3. states' = StatesOf(metas) /\ known' = KnownOf(metas)
    BY <1>1 DEF Start, KnownOf
  <2>4. \A key \in Keys : acc'[key] = Replay(metas, key)
    BY <1>1 DEF Start, Replay
  <2>5. residual' => \A i \in Inputs : stream'[i] = StreamOf(Edges(metas, OfRoot(metas, i)))
    BY <1>1 DEF Start
  <2>. QED  BY <1>2, <2>1, <2>2, <2>3, <2>4, <2>5 DEF Live
<1>. QED  BY <1>3, <1>4, <1>5, <1>6 DEF ReplayInv

LEMMA EndReplays == ASSUME ReplayInv, End PROVE ReplayInv'
<1>1. metas' = metas /\ phase' = "off" /\ toSeed' = <<>> /\ adm' = None /\ ~residual'
  BY DEF End, store
<1>2. Orderly(metas)' /\ Rooted(metas)' /\ Replayed'
  BY <1>1, SameCorpus
<1>3. acc' = [key \in Keys |-> acc'[key]] /\ stream' = [i \in Inputs |-> stream'[i]]
  BY DEF End, NoMemory
<1>4. Underway' /\ Live'
  BY <1>1, <1>3 DEF Underway, Live
<1>. QED  BY <1>1, <1>2, <1>4 DEF ReplayInv

(* An admission that begins, or is dropped, leaves the memory as it is. *)
LEMMA SameMemory ==
  ASSUME ReplayInv, UNCHANGED <<metas, residual, memory>>,
         ~Advancing, ~Announced, ~Advancing', ~Announced'
  PROVE  Live'
BY DEF ReplayInv, Live, memory

LEMMA SeedReplays ==
  ASSUME ReplayInv, NEW feats \in SUBSET Features, NEW sig \in Values, Seed(feats, sig)
  PROVE  ReplayInv'
<1>1. UNCHANGED <<metas, residual, memory, phase>> /\ adm = None /\ toSeed # <<>>
  BY DEF Seed, Ready, store
<1>2. Orderly(metas)' /\ Rooted(metas)' /\ Replayed'
  BY <1>1, SameCorpus
<1>3. toSeed \in Seq(Inputs) /\ toSeed' = Tail(toSeed) /\ phase # "failed"
  BY DEF Seed, ReplayInv
<1>4. toSeed' \in Seq(Inputs) /\ Head(toSeed) \in Inputs
  BY <1>1, <1>3
<1>5. /\ adm'.entry = Head(toSeed) /\ adm'.sig = sig /\ adm'.stage = "entry"
      /\ adm'.mutator = None /\ adm'.parent = None /\ adm'.reason = "seed"
  BY DEF Seed
<1>6. adm' \in AdmType
  BY <1>4 DEF Seed, AdmType, Reasons, Stages
<1>7. Underway'
  BY <1>5, <1>6 DEF Underway
<1>8. Live'
  BY <1>1, <1>5, SameMemory DEF Advancing, Announced
<1>. QED  BY <1>1, <1>2, <1>3, <1>4, <1>7, <1>8 DEF ReplayInv

LEMMA DiscoverReplays ==
  ASSUME ReplayInv, NEW i \in Inputs, NEW p \in metas, NEW mut \in Mutators,
         NEW feats \in SUBSET Features, NEW sig \in Values, Discover(i, p, mut, feats, sig)
  PROVE  ReplayInv'
<1>1. UNCHANGED <<metas, residual, memory, phase, toSeed>> /\ adm = None
  BY DEF Discover, Ready, store
<1>2. Orderly(metas)' /\ Rooted(metas)' /\ Replayed'
  BY <1>1, SameCorpus
<1>3. /\ adm'.entry = i /\ adm'.sig = sig /\ adm'.stage = "entry"
      /\ adm'.mutator = mut /\ adm'.parent = p.entry
      /\ adm'.root = RootOf(metas, p.entry) /\ adm'.edge = EdgeFrom(p, sig)
  BY DEF Discover
<1>4. adm'.reason # "seed"
  BY DEF Discover, Reason
<1>5. p.entry \in Inputs /\ p.gen \in Nat /\ p.sig \in Int
  BY DEF ReplayInv, Orderly
<1>6. mut # None /\ p.entry # None /\ sig \in Int
  BY <1>5, InputsAssumption
<1>7. \E q \in metas' : /\ q.entry = adm'.parent
                        /\ adm'.root = RootOf(metas', q.entry)
                        /\ adm'.edge = EdgeFrom(q, adm'.sig)
  BY <1>1, <1>3
<1>8. adm' \in AdmType
  <2>1. RootOf(metas, p.entry) \in Inputs
    BY RootsAreInputs DEF ReplayInv
  <2>2. EdgeFrom(p, sig) \in EdgeType
    BY <1>5, <1>6 DEF EdgeFrom, EdgeType
  <2> DEFINE reason == Reason(Append(acc[<<RootOf(metas, p.entry), mut>>], EdgeFrom(p, sig)),
                              feats, sig)
  <2>3. reason # None /\ adm' =
          [entry |-> i, parent |-> p.entry, mutator |-> mut, gen |-> p.gen + 1,
           feats |-> feats, sig |-> sig, reason |-> reason, morph |-> None,
           root |-> RootOf(metas, p.entry), edge |-> EdgeFrom(p, sig), stage |-> "entry"]
    BY DEF Discover
  <2>4. reason \in Reasons
    BY <2>3 DEF Reason, Reasons
  <2> HIDE DEF reason
  <2>. QED  BY <1>5, <2>1, <2>2, <2>3, <2>4 DEF AdmType, Stages
<1>9. Underway'
  BY <1>3, <1>4, <1>6, <1>7, <1>8 DEF Underway
<1>10. Live'
  BY <1>1, <1>3, SameMemory DEF Advancing, Announced
<1>. QED  BY <1>1, <1>2, <1>9, <1>10 DEF ReplayInv

LEMMA PutTapeReplays == ASSUME ReplayInv, PutTape PROVE ReplayInv'
<1>1. UNCHANGED <<metas, residual, memory, phase, toSeed>> /\ adm.stage = "tape" /\ adm' = None
  BY DEF PutTape
<1>2. Orderly(metas)' /\ Rooted(metas)' /\ Replayed'
  BY <1>1, SameCorpus
<1>3. Live'
  BY <1>1, SameMemory DEF Advancing, Announced
<1>. QED  BY <1>1, <1>2, <1>3 DEF ReplayInv, Underway

(* The lineage an entry under way advances is one the memory keeps. *)
LEMMA KeyOfEntry ==
  ASSUME ReplayInv, adm # None, adm.mutator # None
  PROVE  AdmKey \in Keys /\ adm.root \in Inputs
<1>1. PICK p \in metas : adm.root = RootOf(metas, p.entry)
  BY DEF ReplayInv, Underway
<1>2. adm.root \in Inputs
  BY <1>1, RootsAreInputs DEF ReplayInv
<1>3. adm.mutator \in Mutators
  BY DEF ReplayInv, Underway, AdmType
<1>. QED  BY <1>2, <1>3 DEF AdmKey, Keys

(* The stages an admission passes change nothing else of it, but for the   *)
(* morphology it gets with its entry.                                      *)
LEMMA StageAndMorph ==
  ASSUME NEW s \in Stages, NEW x \in Seq(EdgeType) \cup {None}, adm \in AdmType,
         adm' = [adm EXCEPT !.stage = s, !.morph = x]
  PROVE  /\ adm' \in AdmType
         /\ adm'.entry = adm.entry /\ adm'.parent = adm.parent
         /\ adm'.mutator = adm.mutator /\ adm'.sig = adm.sig
         /\ adm'.reason = adm.reason /\ adm'.root = adm.root
         /\ adm'.edge = adm.edge /\ adm'.stage = s /\ adm'.morph = x
BY DEF AdmType

LEMMA StageAlone ==
  ASSUME NEW s \in Stages, adm \in AdmType, adm' = [adm EXCEPT !.stage = s]
  PROVE  /\ adm' \in AdmType
         /\ adm'.entry = adm.entry /\ adm'.parent = adm.parent
         /\ adm'.mutator = adm.mutator /\ adm'.sig = adm.sig
         /\ adm'.reason = adm.reason /\ adm'.root = adm.root
         /\ adm'.edge = adm.edge /\ adm'.stage = s /\ adm'.morph = adm.morph
BY DEF AdmType

LEMMA PutEntryReplays == ASSUME IInv, ReplayInv, PutEntry PROVE ReplayInv'
<1>1. UNCHANGED <<metas, residual, phase, toSeed, stream, states, known>>
  BY DEF PutEntry
<1>2. adm # None /\ adm.stage = "entry" /\ adm \in AdmType
  BY DEF PutEntry, ReplayInv, Underway
<1>3. Orderly(metas)' /\ Rooted(metas)' /\ Replayed'
  BY <1>1, SameCorpus
<1>4. ~Advancing /\ ~Announced
  BY <1>2 DEF Advancing, Announced
<1>5. CASE \E m \in metas : m.entry = adm.entry
  <2>1. adm' = None /\ acc' = acc
    BY <1>5 DEF PutEntry, Advanced
  <2>2. Underway' /\ ~Advancing' /\ ~Announced'
    BY <2>1 DEF Underway, Advancing, Announced
  <2>3. Live'
    BY <1>1, <1>4, <2>1, <2>2 DEF ReplayInv, Live
  <2>. QED  BY <1>1, <1>3, <2>2, <2>3 DEF ReplayInv
<1>6. CASE ~\E m \in metas : m.entry = adm.entry
  <2> DEFINE edges == Append(acc[AdmKey], adm.edge)
             morph == IF Structured THEN edges ELSE None
             stage == NextPut("entry")
  <2>1. adm' = [adm EXCEPT !.stage = stage, !.morph = morph]
    BY <1>6 DEF PutEntry, AdmKey
  <2>2. stage = IF Structured THEN "morph" ELSE "meta"
    BY DEF NextPut
  <2>3. Structured => edges = Append(Replay(metas, AdmKey), adm.edge) /\ edges \in Seq(EdgeType)
    <3> SUFFICES ASSUME Structured
                 PROVE  /\ edges = Append(Replay(metas, AdmKey), adm.edge)
                        /\ edges \in Seq(EdgeType)
      OBVIOUS
    <3>1. AdmKey \in Keys
      BY <1>2, KeyOfEntry DEF Structured
    <3>2. acc[AdmKey] = Replay(metas, AdmKey)
      BY <1>4, <3>1 DEF Structured, ReplayInv, Live
    <3>3. Replay(metas, AdmKey) \in Seq(EdgeType)
      BY EdgesAre, LineagesAreChildren DEF Replay, ReplayInv
    <3>4. adm.edge \in EdgeType
      <4>1. PICK p \in metas : adm.edge = EdgeFrom(p, adm.sig)
        BY <1>2 DEF Structured, ReplayInv, Underway
      <4>2. p.gen \in Nat /\ p.sig \in Int /\ adm.sig \in Int
        BY <1>2, InputsAssumption DEF ReplayInv, Orderly, AdmType
      <4>. QED  BY <4>1, <4>2 DEF EdgeFrom, EdgeType
    <3>. QED  BY <3>2, <3>3, <3>4
  <2> HIDE DEF edges
  <2>4. stage \in Stages /\ morph \in Seq(EdgeType) \cup {None}
    BY <2>2, <2>3 DEF Stages
  <2> HIDE DEF morph, stage
  <2>5. /\ adm' \in AdmType /\ adm' # None
        /\ adm'.entry = adm.entry /\ adm'.parent = adm.parent
        /\ adm'.mutator = adm.mutator /\ adm'.sig = adm.sig
        /\ adm'.reason = adm.reason /\ adm'.root = adm.root
        /\ adm'.edge = adm.edge /\ adm'.stage = stage /\ adm'.morph = morph
    BY <1>2, <2>1, <2>4, StageAndMorph, NoneAssumption
  <2>6. Structured' = Structured /\ AdmKey' = AdmKey
    BY <1>1, <2>5 DEF Structured, AdmKey
  <2>7. Underway'
    <3>1. adm'.mutator # None =>
            \E p \in metas' : /\ p.entry = adm'.parent
                              /\ adm'.root = RootOf(metas', p.entry)
                              /\ adm'.edge = EdgeFrom(p, adm'.sig)
      BY <1>1, <1>2, <2>5 DEF ReplayInv, Underway
    <3>2. /\ adm'.mutator = None <=> adm'.parent = None
          /\ adm'.mutator = None <=> adm'.reason = "seed"
      BY <1>2, <2>5 DEF ReplayInv, Underway
    <3>3. adm'.morph = IF Structured' THEN Append(Replay(metas', AdmKey'), adm'.edge) ELSE None
      BY <1>1, <2>3, <2>5, <2>6 DEF morph
    <3>. QED  BY <2>5, <3>1, <3>2, <3>3 DEF Underway
  <2>8. acc = [key \in Keys |-> acc[key]]
    BY DEF ReplayInv, Live
  <2>9. acc' = IF Structured THEN [acc EXCEPT ![AdmKey] = edges] ELSE acc
    BY <1>6 DEF PutEntry, Advanced, AdmKey, edges
  <2>10. acc' = [key \in Keys |-> acc'[key]]
    BY <2>8, <2>9
  <2>11. ASSUME residual
         PROVE  ~Announced' /\ (Advancing' <=> Structured)
    BY <2>2, <2>5, <2>11 DEF Announced, Advancing, Structured
  <2>12. ASSUME residual, NEW key \in Keys
         PROVE  acc'[key] = IF Advancing' /\ key = AdmKey' THEN adm'.morph
                                                           ELSE Replay(metas', key)
    <3>1. acc[key] = Replay(metas, key)
      BY <1>4, <2>12 DEF ReplayInv, Live
    <3>2. acc'[key] = IF Structured /\ key = AdmKey THEN edges ELSE acc[key]
      BY <2>8, <2>9
    <3>. QED  BY <1>1, <2>5, <2>6, <2>11, <2>12, <3>1, <3>2 DEF morph
  <2>13. Live'
    <3>1. stream' = [i \in Inputs |-> stream'[i]]
      BY <1>1 DEF ReplayInv, Live
    <3>2. residual => /\ states' = StatesOf(metas') /\ known' = KnownOf(metas')
                      /\ \A i \in Inputs :
                           stream'[i] = StreamOf(Edges(metas', OfRoot(metas', i)))
      BY <1>1, <1>4 DEF ReplayInv, Live
    <3>. QED  BY <1>1, <2>10, <2>11, <2>12, <3>1, <3>2 DEF Live
  <2>. QED  BY <1>1, <1>3, <2>7, <2>13 DEF ReplayInv
<1>. QED  BY <1>5, <1>6

LEMMA PutMorphReplays == ASSUME IInv, ReplayInv, PutMorph PROVE ReplayInv'
<1>1. UNCHANGED <<metas, residual, phase, toSeed, stream, acc>>
  BY DEF PutMorph
<1>2. adm # None /\ adm.stage = "morph" /\ adm \in AdmType /\ Structured
  BY DEF PutMorph, ReplayInv, Underway, IInv, Prepared
<1>3. Orderly(metas)' /\ Rooted(metas)' /\ Replayed'
  BY <1>1, SameCorpus
<1>4. /\ adm' \in AdmType /\ adm' # None
      /\ adm'.entry = adm.entry /\ adm'.parent = adm.parent
      /\ adm'.mutator = adm.mutator /\ adm'.sig = adm.sig
      /\ adm'.reason = adm.reason /\ adm'.root = adm.root
      /\ adm'.edge = adm.edge /\ adm'.stage = "meta" /\ adm'.morph = adm.morph
  <2>1. adm' = [adm EXCEPT !.stage = "meta"] /\ "meta" \in Stages
    BY DEF PutMorph, NextPut, Stages
  <2>. QED  BY <1>2, <2>1, StageAlone, NoneAssumption
<1>5. Structured' /\ AdmKey' = AdmKey
  BY <1>1, <1>2, <1>4 DEF Structured, AdmKey
<1>6. Advancing /\ Advancing' /\ ~Announced /\ Announced'
  BY <1>2, <1>4 DEF Advancing, Announced, Structured
<1>7. Underway'
  <2>1. adm'.mutator # None =>
          \E p \in metas' : /\ p.entry = adm'.parent
                            /\ adm'.root = RootOf(metas', p.entry)
                            /\ adm'.edge = EdgeFrom(p, adm'.sig)
    BY <1>1, <1>2, <1>4 DEF ReplayInv, Underway
  <2>2. /\ adm'.mutator = None <=> adm'.parent = None
        /\ adm'.mutator = None <=> adm'.reason = "seed"
    BY <1>2, <1>4 DEF ReplayInv, Underway
  <2>3. adm'.morph = IF Structured' THEN Append(Replay(metas', AdmKey'), adm'.edge) ELSE None
    BY <1>1, <1>2, <1>4, <1>5 DEF ReplayInv, Underway
  <2>. QED  BY <1>4, <2>1, <2>2, <2>3 DEF Underway
<1>8. Live'
  <2>1. acc' = [key \in Keys |-> acc'[key]] /\ stream' = [i \in Inputs |-> stream'[i]]
    BY <1>1 DEF ReplayInv, Live
  <2>2. residual
    BY <1>2 DEF Structured
  <2>3. /\ states' = StatesOf(metas') \cup {adm'.sig}
        /\ known' = KnownOf(metas') \cup {Identity(adm'.morph)}
    BY <1>1, <1>4, <1>6, <2>2 DEF ReplayInv, Live, PutMorph
  <2>4. /\ \A key \in Keys : acc'[key] = IF key = AdmKey' THEN adm'.morph
                                                          ELSE Replay(metas', key)
        /\ \A i \in Inputs : stream'[i] = StreamOf(Edges(metas', OfRoot(metas', i)))
    BY <1>1, <1>4, <1>5, <1>6, <2>2 DEF ReplayInv, Live
  <2>. QED  BY <1>6, <2>1, <2>3, <2>4 DEF Live
<1>. QED  BY <1>1, <1>3, <1>7, <1>8 DEF ReplayInv

(* The meta an admission writes comes after the others and descends from   *)
(* one of them.                                                            *)
LEMMA MetaFollows ==
  ASSUME IInv, ReplayInv, PutMeta, NEW n, n = MetaAt(aseq)
  PROVE  /\ Follows(metas, n)
         /\ n.entry = adm.entry /\ n.parent = adm.parent /\ n.mutator = adm.mutator
         /\ n.sig = adm.sig /\ n.morph = adm.morph
<1>1. /\ n.entry = adm.entry /\ n.parent = adm.parent /\ n.mutator = adm.mutator
      /\ n.sig = adm.sig /\ n.morph = adm.morph /\ n.seq = aseq /\ n.gen = adm.gen
  BY DEF MetaAt
<1>2. adm # None /\ adm \in AdmType
  BY DEF PutMeta, ReplayInv, Underway
<1>3. n.entry \in Inputs /\ n.gen \in Nat /\ n.sig \in Int
  BY <1>1, <1>2, InputsAssumption DEF AdmType
<1>4. n.mutator = None <=> n.parent = None
  BY <1>1, <1>2 DEF ReplayInv, Underway
<1>5. n.parent # None => \E p \in metas : p.entry = n.parent
  BY <1>1, <1>2, <1>4 DEF ReplayInv, Underway
<1>6. n.seq \in Nat /\ \A m \in metas : m.entry # n.entry /\ m.seq < n.seq
  BY <1>1, NewMeta
<1>. QED  BY <1>1, <1>3, <1>4, <1>5, <1>6 DEF Follows

LEMMA PutMetaReplays == ASSUME IInv, ReplayInv, PutMeta PROVE ReplayInv'
<1> DEFINE n == MetaAt(aseq)
           N == metas \cup {n}
<1>1. UNCHANGED <<residual, phase, toSeed, acc, known>> /\ metas' = N
  BY DEF PutMeta
<1>2. adm # None /\ adm.stage = "meta" /\ adm \in AdmType
  BY DEF PutMeta, ReplayInv, Underway
<1>3. /\ Follows(metas, n)
      /\ n.entry = adm.entry /\ n.parent = adm.parent /\ n.mutator = adm.mutator
      /\ n.sig = adm.sig /\ n.morph = adm.morph
  BY MetaFollows
<1> HIDE DEF n
<1>4. Orderly(metas) /\ Rooted(metas)
  BY DEF ReplayInv
<1>5. Orderly(N) /\ Rooted(N) /\ \A m \in metas : RootOf(N, m.entry) = RootOf(metas, m.entry)
  BY <1>3, <1>4, OrderlyGrows, RootsGrow
<1>6. adm.morph = IF Structured THEN Append(Replay(metas, AdmKey), adm.edge) ELSE None
  BY <1>2 DEF ReplayInv, Underway
<1>7. adm.mutator # None =>
        \E p \in metas : /\ p.entry = adm.parent
                         /\ adm.root = RootOf(metas, p.entry)
                         /\ adm.edge = EdgeFrom(p, adm.sig)
  BY <1>2 DEF ReplayInv, Underway
(* What a child adds. *)
<1>8. ASSUME adm.mutator # None
      PROVE  /\ adm.edge \in EdgeType
             /\ Derived(N, n) = Append(Replay(metas, AdmKey), adm.edge)
             /\ KnownOf(N) = KnownOf(metas) \cup {Identity(Derived(N, n))}
             /\ \A i, u : Replay(N, <<i, u>>) =
                  IF i = adm.root /\ u = adm.mutator
                    THEN Append(Replay(metas, <<i, u>>), adm.edge)
                    ELSE Replay(metas, <<i, u>>)
             /\ \A i : Edges(N, OfRoot(N, i)) =
                  IF i = adm.root THEN Append(Edges(metas, OfRoot(metas, i)), adm.edge)
                                  ELSE Edges(metas, OfRoot(metas, i))
  <2>1. PICK p \in metas : /\ p.entry = n.parent
                           /\ adm.root = RootOf(metas, p.entry)
                           /\ adm.edge = EdgeFrom(p, n.sig)
    BY <1>3, <1>7, <1>8
  <2>2. n.mutator # None /\ AdmKey = <<adm.root, n.mutator>>
    BY <1>3, <1>8 DEF AdmKey
  <2>3. Extends(metas, n, adm.root, adm.edge)
    BY <1>3, <1>4, <2>1, <2>2, ChildGrows
  <2>. QED  BY <1>3, <2>2, <2>3 DEF Extends
(* What a seed does not. *)
<1>9. ASSUME adm.mutator = None
      PROVE  /\ KnownOf(N) = KnownOf(metas)
             /\ \A key : Replay(N, key) = Replay(metas, key)
             /\ \A i : Edges(N, OfRoot(N, i)) = Edges(metas, OfRoot(metas, i))
  BY <1>3, <1>4, <1>9, SeedGrows
<1>10. StatesOf(N) = StatesOf(metas) \cup {adm.sig}
  BY <1>3 DEF StatesOf
<1>11. Replayed'
  <2>1. ASSUME NEW m \in metas, m.morph # None
        PROVE  m.mutator # None /\ m.morph = Derived(N, m)
    <3>1. m.mutator # None /\ m.morph = Derived(metas, m)
      BY <2>1 DEF ReplayInv, Replayed
    <3>2. m \in Children(metas)
      BY <3>1 DEF Children
    <3>. QED  BY <1>3, <1>4, <3>1, <3>2, DerivedStays
  <2>2. ASSUME n.morph # None
        PROVE  n.mutator # None /\ n.morph = Derived(N, n)
    <3>1. Structured
      BY <1>3, <1>6, <2>2
    <3>. QED  BY <1>3, <1>6, <1>8, <3>1 DEF Structured
  <2> HIDE DEF N
  <2>3. \A m \in N : m.morph # None => m.mutator # None /\ m.morph = Derived(N, m)
    BY <2>1, <2>2 DEF N
  <2>. QED  BY <1>1, <2>3 DEF Replayed
<1>12. adm' # None =>
         /\ adm' \in AdmType
         /\ adm'.parent = adm.parent /\ adm'.mutator = adm.mutator /\ adm'.sig = adm.sig
         /\ adm'.reason = adm.reason /\ adm'.root = adm.root
         /\ adm'.edge = adm.edge /\ adm'.stage = "tape"
  <2> SUFFICES ASSUME adm' # None
               PROVE  /\ adm' \in AdmType
                      /\ adm'.parent = adm.parent /\ adm'.mutator = adm.mutator
                      /\ adm'.sig = adm.sig
                      /\ adm'.reason = adm.reason /\ adm'.root = adm.root
                      /\ adm'.edge = adm.edge /\ adm'.stage = "tape"
    OBVIOUS
  <2>1. adm' = [adm EXCEPT !.stage = "tape"] /\ "tape" \in Stages
    BY DEF PutMeta, NextPut, Stages
  <2>. QED  BY <1>2, <2>1, StageAlone
<1>13. Underway'
  <2>1. ASSUME adm' # None, adm'.mutator # None
        PROVE  \E p \in metas' : /\ p.entry = adm'.parent
                                 /\ adm'.root = RootOf(metas', p.entry)
                                 /\ adm'.edge = EdgeFrom(p, adm'.sig)
    <3>1. PICK p \in metas : /\ p.entry = adm.parent
                             /\ adm.root = RootOf(metas, p.entry)
                             /\ adm.edge = EdgeFrom(p, adm.sig)
      BY <1>7, <1>12, <2>1
    <3>2. p \in N /\ RootOf(N, p.entry) = adm.root
      BY <1>5, <3>1
    <3>. QED  BY <1>1, <1>12, <2>1, <3>1, <3>2
  <2>2. adm' # None => /\ adm'.mutator = None <=> adm'.parent = None
                       /\ adm'.mutator = None <=> adm'.reason = "seed"
    BY <1>2, <1>12 DEF ReplayInv, Underway
  <2>. QED  BY <1>12, <2>1, <2>2 DEF Underway
<1>14. ~Advancing' /\ ~Announced'
  BY <1>12 DEF Advancing, Announced
<1>15. acc' = [key \in Keys |-> acc'[key]] /\ stream' = [i \in Inputs |-> stream'[i]]
  BY DEF PutMeta, ReplayInv, Live
<1>16. ASSUME residual, adm.mutator # None
       PROVE  /\ states' = StatesOf(N) /\ known' = KnownOf(N)
              /\ \A key \in Keys : acc'[key] = Replay(N, key)
              /\ \A i \in Inputs : stream'[i] = StreamOf(Edges(N, OfRoot(N, i)))
  <2>1. Structured /\ Announced /\ Advancing /\ AdmKey \in Keys /\ adm.root \in Inputs
    BY <1>2, <1>16, KeyOfEntry DEF Structured, Announced, Advancing
  <2>2. adm.reason # "seed"
    BY <1>2, <1>16 DEF ReplayInv, Underway
  <2>3. states' = StatesOf(N)
    BY <1>10, <1>16, <2>1, <2>2 DEF ReplayInv, Live, PutMeta
  <2>4. known' = KnownOf(N)
    BY <1>1, <1>6, <1>8, <1>16, <2>1 DEF ReplayInv, Live
  <2>5. ASSUME NEW key \in Keys PROVE acc'[key] = Replay(N, key)
    <3>1. PICK i \in Inputs, u \in Mutators : key = <<i, u>>
      BY DEF Keys
    <3>2. Replay(N, key) = IF key = AdmKey THEN Append(Replay(metas, key), adm.edge)
                                           ELSE Replay(metas, key)
      BY <1>8, <1>16, <3>1 DEF AdmKey
    <3>3. acc[key] = IF key = AdmKey THEN adm.morph ELSE Replay(metas, key)
      BY <1>16, <2>1 DEF ReplayInv, Live
    <3>. QED  BY <1>1, <1>6, <2>1, <3>2, <3>3
  <2>6. ASSUME NEW i \in Inputs PROVE stream'[i] = StreamOf(Edges(N, OfRoot(N, i)))
    <3> DEFINE es == Edges(metas, OfRoot(metas, i))
    <3>1. stream[i] = StreamOf(es) /\ stream = [j \in Inputs |-> stream[j]]
      BY <1>16 DEF ReplayInv, Live
    <3>2. stream' = [stream EXCEPT ![adm.root] = Feed(@, adm.edge)]
      BY <2>1 DEF PutMeta
    <3>3. Edges(N, OfRoot(N, i)) = IF i = adm.root THEN Append(es, adm.edge) ELSE es
      BY <1>8, <1>16
    <3>4. es \in Seq(EdgeType)
      BY <1>4, EdgesAre, LineagesAreChildren
    <3>5. adm.edge \in EdgeType
      BY <1>8, <1>16
    <3> HIDE DEF es
    <3>6. StreamOf(Append(es, adm.edge)) = Feed(StreamOf(es), adm.edge)
      BY <3>4, <3>5, StreamGrows
    <3>7. stream'[i] = IF i = adm.root THEN Feed(stream[i], adm.edge) ELSE stream[i]
      BY <3>1, <3>2
    <3>. QED  BY <3>1, <3>3, <3>6, <3>7
  <2>. QED  BY <2>3, <2>4, <2>5, <2>6
<1>17. ASSUME residual, adm.mutator = None
       PROVE  /\ states' = StatesOf(N) /\ known' = KnownOf(N)
              /\ \A key \in Keys : acc'[key] = Replay(N, key)
              /\ \A i \in Inputs : stream'[i] = StreamOf(Edges(N, OfRoot(N, i)))
  <2>1. ~Structured /\ ~Announced /\ ~Advancing
    BY <1>17 DEF Structured, Announced, Advancing
  <2>2. adm.reason = "seed" /\ stream' = stream
    BY <1>2, <1>17, <2>1 DEF ReplayInv, Underway, PutMeta
  <2>3. states' = StatesOf(N)
    BY <1>10, <1>17, <2>1, <2>2 DEF ReplayInv, Live, PutMeta
  <2>4. known' = KnownOf(N)
    BY <1>1, <1>9, <1>17, <2>1 DEF ReplayInv, Live
  <2>5. \A key \in Keys : acc'[key] = Replay(N, key)
    BY <1>1, <1>9, <1>17, <2>1 DEF ReplayInv, Live
  <2>6. ASSUME NEW i \in Inputs PROVE stream'[i] = StreamOf(Edges(N, OfRoot(N, i)))
    BY <1>9, <1>17, <2>2 DEF ReplayInv, Live
  <2>. QED  BY <2>3, <2>4, <2>5, <2>6
<1> HIDE DEF N
<1>18. Live'
  BY <1>1, <1>14, <1>15, <1>16, <1>17 DEF Live
<1>. QED  BY <1>1, <1>5, <1>11, <1>13, <1>18 DEF ReplayInv

LEMMA StutterReplays == ASSUME ReplayInv, UNCHANGED vars PROVE ReplayInv'
<1>1. UNCHANGED <<metas, phase, residual, toSeed, adm, acc, stream, states, known>>
  BY DEF vars, store, memory
<1>2. Orderly(metas)' /\ Rooted(metas)' /\ Replayed'
  BY <1>1, SameCorpus
<1>3. Underway'
  BY <1>1 DEF ReplayInv, Underway, Structured, AdmKey
<1>4. Live'
  BY <1>1 DEF ReplayInv, Live, Advancing, Announced, AdmKey
<1>. QED  BY <1>1, <1>2, <1>3, <1>4 DEF ReplayInv

LEMMA NextReplays == IInv /\ ReplayInv /\ [Next]_vars => ReplayInv'
<1> SUFFICES ASSUME IInv, ReplayInv, [Next]_vars PROVE ReplayInv'
  OBVIOUS
<1>1. CASE \E r \in BOOLEAN : Start(r)
  BY <1>1, StartReplays
<1>2. CASE \E feats \in SUBSET Features, sig \in Values : Seed(feats, sig)
  BY <1>2, SeedReplays
<1>3. CASE \E i \in Inputs, p \in metas, mut \in Mutators,
             feats \in SUBSET Features, sig \in Values :
             Discover(i, p, mut, feats, sig)
  BY <1>3, DiscoverReplays
<1>4. CASE PutEntry
  BY <1>4, PutEntryReplays
<1>5. CASE PutMorph
  BY <1>5, PutMorphReplays
<1>6. CASE PutMeta
  BY <1>6, PutMetaReplays
<1>7. CASE PutTape
  BY <1>7, PutTapeReplays
<1>8. CASE End
  BY <1>8, EndReplays
<1>9. CASE Rest \/ UNCHANGED vars
  BY <1>9, StutterReplays DEF Rest
<1>10. QED BY <1>1, <1>2, <1>3, <1>4, <1>5, <1>6, <1>7, <1>8, <1>9 DEF Next

THEOREM CorpusReplays == Spec => [](IInv /\ ReplayInv)
<1>1. Init => IInv /\ ReplayInv
  BY InitIInv, InitReplay
<1>2. IInv /\ ReplayInv /\ [Next]_vars => (IInv /\ ReplayInv)'
  BY NextIInv, NextReplays
<1>3. QED BY <1>1, <1>2, PTL DEF Spec

(* No campaign, killed between which puts it may be, leaves a store whose  *)
(* start reports corruption.                                               *)
THEOREM StartsAlwaysClean == Spec => []StartsClean
<1>1. ReplayInv => StartsClean
  BY DEF ReplayInv, StartsClean
<1>2. QED BY <1>1, CorpusReplays, PTL

(* And its successor continues from where it was: between admissions the   *)
(* memory of a residual campaign is the one rebuilt from the metas.        *)
THEOREM RebuildIsLive == Spec => []RebuildMatchesLive
<1>1. IInv /\ ReplayInv => RebuildMatchesLive
  <2> SUFFICES ASSUME IInv, ReplayInv, Ready PROVE RebuildMatchesLive
    BY DEF RebuildMatchesLive
  <2>1. aseq = NextSeq(metas)
    <3>1. PICK k \in Nat : {m.seq : m \in metas} = 0..(k - 1) /\ aseq = k
      BY DEF IInv, Numbered, Ready
    <3>. QED  BY <3>1, NextAfter
  <2>2. ~Advancing /\ ~Announced
    BY DEF Ready, Advancing, Announced
  <2>3. residual => /\ states = StatesOf(metas)
                    /\ known = KnownOf(metas)
                    /\ \A key \in Keys : acc[key] = Replay(metas, key)
                    /\ \A i \in Inputs : stream[i] = StreamOf(Edges(metas, OfRoot(metas, i)))
    BY <2>2 DEF ReplayInv, Live
  <2>. QED  BY <2>1, <2>3 DEF RebuildMatchesLive, KnownOf, Replay
<1>2. QED BY <1>1, CorpusReplays, PTL
-----------------------------------------------------------------------------
(* The types of a corpus and of its memory. *)

Accs == [total : Int, dir : {-1, 0, 1}]
NoAcc == [total |-> 0, dir |-> 0]

LEMMA PushType ==
  ASSUME NEW a \in Accs, NEW e \in EdgeType
  PROVE  Push(a, e) \in Accs
BY DEF Accs, EdgeType, Push, Sign

(* The accumulators after each prefix of the edges, by the least prefix    *)
(* that would have none.                                                   *)
Accumulates(g, es, n) ==
  g \in [0..n -> Accs] /\ g[0] = NoAcc /\ \A i \in 1..n : g[i] = Push(g[i - 1], es[i])

LEMMA Accumulated ==
  ASSUME NEW es \in Seq(EdgeType)
  PROVE  \E g : Accumulates(g, es, Len(es))
<1> DEFINE N == Len(es)
           T == {n \in 0..N : ~ \E g : Accumulates(g, es, n)}
<1> SUFFICES ASSUME ~ \E g : Accumulates(g, es, N) PROVE FALSE
  OBVIOUS
<1>0. N \in Nat /\ \A i \in 1..N : es[i] \in EdgeType
  OBVIOUS
<1> HIDE DEF N
<1>1. PICK k \in T : \A j \in T : k <= j
  <2>1. T \subseteq Nat /\ N \in T
    BY <1>0
  <2> HIDE DEF T
  <2>. QED  BY <2>1, LeastNumber
<1>2. k # 0
  <2>1. [n \in 0..0 |-> NoAcc] \in [0..0 -> Accs]
    BY DEF Accs, NoAcc
  <2>2. Accumulates([n \in 0..0 |-> NoAcc], es, 0)
    BY <2>1 DEF Accumulates
  <2>3. ~ \E g : Accumulates(g, es, k)
    BY <1>1
  <2>. QED  BY <2>2, <2>3
<1>3. k \in 1..N /\ k - 1 \in 0..N /\ ~(k <= k - 1)
  BY <1>0, <1>1, <1>2
<1>4. k - 1 \notin T
  <2> HIDE DEF T
  <2>. QED  BY <1>1, <1>3
<1>5. PICK g : Accumulates(g, es, k - 1)
  BY <1>3, <1>4
<1> DEFINE d == Push(g[k - 1], es[k])
           h == [n \in 0..k |-> IF n = k THEN d ELSE g[n]]
<1>6. g[k - 1] \in Accs /\ d \in Accs
  <2>1. g[k - 1] \in Accs /\ es[k] \in EdgeType
    BY <1>0, <1>3, <1>5 DEF Accumulates
  <2>. QED  BY <2>1, PushType
<1>7. h \in [0..k -> Accs] /\ h[0] = NoAcc
  <2> HIDE DEF d
  <2>. QED  BY <1>3, <1>5, <1>6 DEF Accumulates
<1>8. \A i \in 1..k : h[i] = Push(h[i - 1], es[i])
  <2> TAKE i \in 1..k
  <2>1. h[i - 1] = g[i - 1]
    BY <1>3
  <2>2. CASE i = k
    BY <1>3, <2>1, <2>2
  <2>3. CASE i # k
    <3>1. i \in 1..(k - 1)
      BY <1>3, <2>3
    <3>2. g[i] = Push(g[i - 1], es[i])
      BY <1>5, <3>1 DEF Accumulates
    <3>. QED  BY <2>1, <2>3, <3>2
  <2>. QED  BY <2>2, <2>3
<1>9. Accumulates(h, es, k)
  <2> HIDE DEF h
  <2>. QED  BY <1>7, <1>8 DEF Accumulates
<1>. QED  BY <1>1, <1>9

(* An identity is a direction, whatever was pushed.                        *)
LEMMA IdentityType ==
  ASSUME NEW es \in Seq(EdgeType)
  PROVE  Identity(es) \in {-1, 0, 1}
<1> DEFINE n == Len(es)
           Body(f) == [k \in 0..n |-> IF k = 0 THEN NoAcc ELSE Push(f[k - 1], es[k])]
           after == CHOOSE f : f = Body(f)
           T == {k \in 0..n : after[k] \notin Accs}
<1>1. Identity(es) = after[n].dir
  BY DEF Identity, NoAcc
<1>2. n \in Nat /\ \A i \in 1..n : es[i] \in EdgeType
  OBVIOUS
<1>3. PICK g : Accumulates(g, es, n)
  BY Accumulated
<1> HIDE DEF n
<1>4. g = Body(g)
  BY <1>3 DEF Accumulates
<1>5. after = Body(after)
  BY <1>4
<1> HIDE DEF after
<1>6. T = {}
  <2> SUFFICES ASSUME T # {} PROVE FALSE
    OBVIOUS
  <2>1. PICK k \in T : \A j \in T : k <= j
    <3>1. T \subseteq Nat
      OBVIOUS
    <3> HIDE DEF T
    <3>. QED  BY <3>1, LeastNumber
  <2>2. k # 0
    <3>1. after[0] = NoAcc
      BY <1>2, <1>5
    <3>. QED  BY <2>1, <3>1 DEF Accs, NoAcc
  <2>3. k \in 1..n /\ k - 1 \in 0..n /\ ~(k <= k - 1)
    BY <1>2, <2>1, <2>2
  <2>4. after[k - 1] \in Accs
    BY <2>1, <2>3
  <2>5. after[k] = Push(after[k - 1], es[k])
    BY <1>5, <2>3
  <2>6. after[k] \in Accs
    BY <1>2, <2>3, <2>4, <2>5, PushType
  <2>. QED  BY <2>1, <2>6
<1>7. after[n] \in Accs
  BY <1>2, <1>6
<1>. QED  BY <1>1, <1>7 DEF Accs

LEMMA StreamType ==
  ASSUME NEW es \in Seq(EdgeType)
  PROVE  StreamOf(es) \in Seq(EdgeType)
<1>1. CASE \E k \in DOMAIN es : Moved(es[k])
  <2>1. PICK s \in DOMAIN es : StreamOf(es) = SubSeq(es, s, Len(es))
    BY <1>1, StreamStarts
  <2>2. s \in 1..Len(es) /\ Len(es) \in Nat
    OBVIOUS
  <2>3. SubSeq(es, s, Len(es)) \in Seq(EdgeType)
    BY <2>2
  <2>. QED  BY <2>1, <2>3
<1>2. CASE ~ \E k \in DOMAIN es : Moved(es[k])
  <2>1. StreamOf(es) = <<>>
    BY <1>2, StreamAwaits
  <2>2. <<>> \in Seq(EdgeType)
    OBVIOUS
  <2>. QED  BY <2>1, <2>2
<1>. QED  BY <1>1, <1>2

LEMMA FeedType ==
  ASSUME NEW es \in Seq(EdgeType), NEW e \in EdgeType
  PROVE  Feed(es, e) \in Seq(EdgeType)
BY DEF Feed

(* What a rebuild derives from an orderly corpus.                          *)
LEMMA RebuiltTypes ==
  ASSUME NEW M, Orderly(M), M \subseteq MetaType
  PROVE  /\ StatesOf(M) \subseteq Values /\ KnownOf(M) \subseteq {-1, 0, 1}
         /\ \A key : Replay(M, key) \in Seq(EdgeType)
         /\ \A i : StreamOf(Edges(M, OfRoot(M, i))) \in Seq(EdgeType)
<1>1. ASSUME NEW key PROVE Replay(M, key) \in Seq(EdgeType)
  <2>1. Lineage(M, key) \in SUBSET Children(M)
    BY DEF Lineage, OfRoot
  <2>. QED  BY <2>1, EdgesAre DEF Replay
<1>2. ASSUME NEW i PROVE StreamOf(Edges(M, OfRoot(M, i))) \in Seq(EdgeType)
  <2>1. OfRoot(M, i) \in SUBSET Children(M)
    BY DEF OfRoot
  <2>. QED  BY <2>1, EdgesAre, StreamType
<1>3. ASSUME NEW m \in Children(M) PROVE Identity(Derived(M, m)) \in {-1, 0, 1}
  <2> DEFINE S == {x \in Lineage(M, <<RootOf(M, m.entry), m.mutator>>) :
                     x = m \/ Before(x, m)}
  <2>1. S \in SUBSET Children(M)
    BY DEF Lineage, OfRoot
  <2>2. Derived(M, m) = Edges(M, S)
    BY DEF Derived
  <2> HIDE DEF S
  <2>. QED  BY <2>1, <2>2, EdgesAre, IdentityType
<1>4. KnownOf(M) \subseteq {-1, 0, 1}
  BY <1>3 DEF KnownOf
<1>5. StatesOf(M) \subseteq Values
  BY DEF StatesOf, MetaType
<1>. QED  BY <1>1, <1>2, <1>4, <1>5
LEMMA InitTypes == Init => TypeOK
<1> SUFFICES ASSUME Init PROVE TypeOK
  OBVIOUS
<1>1. <<>> \in Seq(Inputs) /\ <<>> \in Seq(EdgeType)
  OBVIOUS
<1>2. acc \in [Keys -> Seq(EdgeType)] /\ stream \in [Inputs -> Seq(EdgeType)]
  BY <1>1 DEF Init
<1>3. starts \in 0..MaxStarts /\ aseq \in Nat
  BY InputsAssumption DEF Init
<1>4. /\ phase = "off" /\ residual = FALSE /\ toSeed = <<>> /\ adm = None
      /\ entries = {} /\ morphs = {} /\ metas = {} /\ tapes = {} /\ states = {} /\ known = {}
  BY DEF Init
<1>. QED  BY <1>1, <1>2, <1>3, <1>4 DEF TypeOK

LEMMA StartTypes ==
  ASSUME TypeOK, IInv, ReplayInv, ReplayInv', NEW r \in BOOLEAN, Start(r)
  PROVE  TypeOK'
<1>1. Sound(metas)
  BY CorpusIsSound
<1>2. Orderly(metas) /\ metas \subseteq MetaType
  BY DEF ReplayInv, TypeOK
<1>3. PICK n \in Nat : {m.seq : m \in metas} = 0..(n - 1)
  BY DEF IInv, Numbered
<1>4. aseq' \in Nat
  BY <1>1, <1>3, NextAfter DEF Start
<1>5. states' \subseteq Values /\ known' \subseteq {-1, 0, 1}
  <2>1. states' = StatesOf(metas) /\ known' = KnownOf(metas)
    BY <1>1 DEF Start, KnownOf
  <2>. QED  BY <1>2, <2>1, RebuiltTypes
<1>6. acc' \in [Keys -> Seq(EdgeType)]
  BY <1>1, <1>2, RebuiltTypes DEF Start, Replay
<1>7. stream' \in [Inputs -> Seq(EdgeType)]
  <2>1. \A i \in Inputs : (IF r THEN StreamOf(Edges(metas, OfRoot(metas, i))) ELSE <<>>)
                            \in Seq(EdgeType)
    BY <1>2, RebuiltTypes
  <2>. QED  BY <1>1, <2>1 DEF Start
<1>8. toSeed' \in Seq(Inputs)
  BY DEF ReplayInv
<1>9. phase' = "on" /\ residual' = r /\ starts' \in 0..MaxStarts
  BY <1>1, InputsAssumption DEF Start, TypeOK
<1>10. UNCHANGED <<entries, morphs, metas, tapes, adm>>
  BY DEF Start, store
<1>. QED  BY <1>4, <1>5, <1>6, <1>7, <1>8, <1>9, <1>10 DEF TypeOK

LEMMA EndTypes == ASSUME TypeOK, End PROVE TypeOK'
<1>1. <<>> \in Seq(Inputs) /\ <<>> \in Seq(EdgeType)
  OBVIOUS
<1>2. acc' \in [Keys -> Seq(EdgeType)] /\ stream' \in [Inputs -> Seq(EdgeType)]
  BY <1>1 DEF End, NoMemory
<1>. QED  BY <1>1, <1>2 DEF End, NoMemory, store, TypeOK

(* What is begun has its type by the invariant of the admission under way. *)
LEMMA BeginTypes ==
  ASSUME TypeOK, ReplayInv', UNCHANGED <<store, phase, residual, memory, starts>>
  PROVE  TypeOK'
BY DEF ReplayInv, Underway, store, memory, TypeOK

(* What an admission is about to put.                                      *)
LEMMA UnderwayTypes ==
  ASSUME TypeOK, IInv, ReplayInv, adm # None
  PROVE  /\ adm \in AdmType
         /\ adm.mutator # None => AdmKey \in Keys /\ adm.edge \in EdgeType
         /\ adm.stage = "morph" => adm.morph \in Seq(EdgeType)
<1>1. adm \in AdmType
  BY DEF ReplayInv, Underway
<1>2. ASSUME adm.mutator # None
      PROVE  AdmKey \in Keys /\ adm.edge \in EdgeType
  <2>1. AdmKey \in Keys
    BY <1>1, <1>2 DEF AdmKey, AdmType, Keys
  <2>2. PICK p \in metas : adm.edge = EdgeFrom(p, adm.sig)
    BY <1>2 DEF ReplayInv, Underway
  <2>3. p.gen \in Nat /\ p.sig \in Int /\ adm.sig \in Int
    BY <1>1, InputsAssumption DEF ReplayInv, Orderly, AdmType
  <2>. QED  BY <2>1, <2>2, <2>3 DEF EdgeFrom, EdgeType
<1>3. ASSUME adm.stage = "morph" PROVE adm.morph \in Seq(EdgeType)
  <2>1. Structured /\ adm.mutator # None
    BY <1>3 DEF IInv, Prepared, Structured
  <2>2. adm.morph = Append(Replay(metas, AdmKey), adm.edge)
    BY <1>3, <2>1 DEF ReplayInv, Underway
  <2>3. Replay(metas, AdmKey) \in Seq(EdgeType)
    BY RebuiltTypes DEF ReplayInv, TypeOK
  <2>. QED  BY <1>2, <2>1, <2>2, <2>3
<1>. QED  BY <1>1, <1>2, <1>3

LEMMA PutEntryTypes ==
  ASSUME TypeOK, IInv, ReplayInv, ReplayInv', PutEntry
  PROVE  TypeOK'
<1>1. adm # None /\ adm \in AdmType
  BY UnderwayTypes DEF PutEntry
<1>2. entries' \subseteq Inputs
  BY <1>1 DEF PutEntry, TypeOK, AdmType
<1>3. acc' \in [Keys -> Seq(EdgeType)]
  <2> DEFINE isKnown == \E m \in metas : m.entry = adm.entry
             edges == Append(acc[AdmKey], adm.edge)
  <2>1. acc' = IF Advanced(isKnown) THEN [acc EXCEPT ![AdmKey] = edges] ELSE acc
    BY DEF PutEntry, AdmKey
  <2>2. Advanced(isKnown) => edges \in Seq(EdgeType)
    BY <1>1, UnderwayTypes DEF Advanced, Structured, TypeOK
  <2> HIDE DEF isKnown, edges
  <2>. QED  BY <2>1, <2>2 DEF TypeOK
<1>4. adm' \in AdmType \cup {None}
  BY DEF ReplayInv, Underway
<1>5. UNCHANGED <<morphs, metas, tapes, phase, residual, toSeed, aseq, states,
                  known, stream, starts>>
  BY DEF PutEntry
<1>. QED  BY <1>2, <1>3, <1>4, <1>5 DEF TypeOK

LEMMA PutMorphTypes ==
  ASSUME TypeOK, IInv, ReplayInv, ReplayInv', PutMorph
  PROVE  TypeOK'
<1>1. adm \in AdmType /\ adm.morph \in Seq(EdgeType)
  BY UnderwayTypes DEF PutMorph
<1>2. Identity(adm.morph) \in {-1, 0, 1}
  BY <1>1, IdentityType
<1>3. morphs' \subseteq Seq(EdgeType) /\ known' \subseteq {-1, 0, 1} /\ states' \subseteq Values
  BY <1>1, <1>2 DEF PutMorph, TypeOK, AdmType
<1>4. adm' \in AdmType \cup {None}
  BY DEF ReplayInv, Underway
<1>5. UNCHANGED <<entries, metas, tapes, phase, residual, toSeed, aseq, acc,
                  stream, starts>>
  BY DEF PutMorph
<1>. QED  BY <1>3, <1>4, <1>5 DEF TypeOK

LEMMA PutMetaTypes ==
  ASSUME TypeOK, IInv, ReplayInv, ReplayInv', PutMeta
  PROVE  TypeOK'
<1>1. adm # None /\ adm \in AdmType
  BY UnderwayTypes DEF PutMeta
<1>2. MetaAt(aseq) \in MetaType
  BY <1>1 DEF TypeOK, MetaAt, MetaType, AdmType
<1>3. metas' \subseteq MetaType /\ aseq' \in Nat
  BY <1>2 DEF PutMeta, TypeOK
<1>4. states' \subseteq Values
  BY <1>1 DEF PutMeta, TypeOK, AdmType
<1>5. stream' \in [Inputs -> Seq(EdgeType)]
  <2>1. CASE Structured
    <3>1. adm.root \in Inputs /\ adm.edge \in EdgeType
      BY <1>1, <2>1, UnderwayTypes DEF Structured, AdmType
    <3>2. Feed(stream[adm.root], adm.edge) \in Seq(EdgeType)
      BY <3>1, FeedType DEF TypeOK
    <3>3. stream' = [stream EXCEPT ![adm.root] = Feed(stream[adm.root], adm.edge)]
      BY <2>1 DEF PutMeta
    <3>. QED  BY <3>2, <3>3 DEF TypeOK
  <2>2. CASE ~Structured
    BY <2>2 DEF PutMeta, TypeOK
  <2>. QED  BY <2>1, <2>2
<1>6. adm' \in AdmType \cup {None}
  BY DEF ReplayInv, Underway
<1>7. UNCHANGED <<entries, morphs, tapes, phase, residual, toSeed, known, acc, starts>>
  BY DEF PutMeta
<1>. QED  BY <1>3, <1>4, <1>5, <1>6, <1>7 DEF TypeOK

LEMMA PutTapeTypes == ASSUME TypeOK, IInv, ReplayInv, PutTape PROVE TypeOK'
<1>1. adm \in AdmType
  BY UnderwayTypes DEF PutTape
<1>. QED  BY <1>1 DEF PutTape, store, memory, TypeOK, AdmType

(* The store, the admission under way and the memory keep their types: in  *)
(* particular every morphology is a sequence of edges, and what is known   *)
(* of it is one of three identities, whatever was admitted or rebuilt.     *)
THEOREM CorpusTypes == Spec => []TypeOK
<1>1. TypeOK /\ (IInv /\ ReplayInv) /\ (IInv /\ ReplayInv)' /\ [Next]_vars => TypeOK'
  <2> SUFFICES ASSUME TypeOK, IInv, ReplayInv, ReplayInv', [Next]_vars PROVE TypeOK'
    OBVIOUS
  <2>1. CASE \E r \in BOOLEAN : Start(r)
    BY <2>1, StartTypes
  <2>2. CASE \E feats \in SUBSET Features, sig \in Values : Seed(feats, sig)
    <3>1. UNCHANGED <<store, phase, residual, memory, starts>>
      BY <2>2 DEF Seed
    <3>. QED  BY <3>1, BeginTypes
  <2>3. CASE \E i \in Inputs, p \in metas, mut \in Mutators,
               feats \in SUBSET Features, sig \in Values :
               Discover(i, p, mut, feats, sig)
    <3>1. UNCHANGED <<store, phase, residual, memory, starts>>
      BY <2>3 DEF Discover
    <3>. QED  BY <3>1, BeginTypes
  <2>4. CASE PutEntry
    BY <2>4, PutEntryTypes
  <2>5. CASE PutMorph
    BY <2>5, PutMorphTypes
  <2>6. CASE PutMeta
    BY <2>6, PutMetaTypes
  <2>7. CASE PutTape
    BY <2>7, PutTapeTypes
  <2>8. CASE End
    BY <2>8, EndTypes
  <2>9. CASE Rest \/ UNCHANGED vars
    BY <2>9 DEF Rest, vars, store, memory, TypeOK
  <2>10. QED  BY <2>1, <2>2, <2>3, <2>4, <2>5, <2>6, <2>7, <2>8, <2>9 DEF Next
<1>2. QED  BY <1>1, InitTypes, CorpusReplays, PTL DEF Spec
=============================================================================
