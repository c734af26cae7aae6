----------------------------- MODULE Admission -----------------------------
(***************************************************************************)
(* The corpus: what the coordinator admits (execute/coordinator.rs         *)
(* admit_seed, process_result; corpus/), object by object, killed between  *)
(* any two, and rebuilt by the next campaign on the same store.            *)
(*                                                                         *)
(* A put is one step: ObjectStore shows that a killed put leaves a whole   *)
(* object or none.  The corpus index always equals the metas of the store  *)
(* while a campaign runs (the two change together), so it has no variable. *)
(* A pending order only fixes the parent and the mutator of what its       *)
(* result reports; the index never shrinks, so any admitted entry may be   *)
(* the parent of the next discovery, however old its order is.             *)
(*                                                                         *)
(* One signal axis.  A lineage accumulator is the sequence of the edges    *)
(* pushed into it and a morphology the sequence it was computed from: two  *)
(* derivations agree in the code whenever they agree here.                 *)
(***************************************************************************)
EXTENDS Integers, FiniteSets, Sequences

CONSTANTS
  Inputs,     (* Entry ids, numbered in their order.                       *)
  Seeds,      (* The seed inputs, in the order of their files.             *)
  Features,   (* Packed coverage features.                                 *)
  Values,     (* Values, and value buckets, of the signal.                 *)
  Mutators,
  MaxStarts,  (* Bound: campaigns run on the store.                        *)
  None

ASSUME InputsAssumption ==
  /\ Inputs \subseteq Nat /\ Values \subseteq Int
  /\ Seeds \in Seq(Inputs) /\ Seeds # <<>>
  /\ None \notin Inputs \cup Mutators /\ MaxStarts \in Nat

VARIABLES
  entries, morphs, metas, tapes,  (* The store, by family of object.       *)
  phase,      (* "off", "on", or "failed": the start reported corruption.  *)
  residual,   (* policy.residual of the campaign.                          *)
  toSeed,     (* Seeds still to be admitted.                               *)
  adm,        (* The admission under way, or None.                         *)
  aseq,       (* state.admission_seq                                       *)
  states,     (* state.state_features                                      *)
  known,      (* state.morph_identities                                    *)
  acc,        (* The accumulator of each (root, mutator).                  *)
  stream,     (* What was fed to the DSFB substrate of each root.          *)
  starts      (* Campaigns started so far (bound).                         *)

store  == <<entries, morphs, metas, tapes>>
memory == <<aseq, states, known, acc, stream>>
vars   == <<store, phase, residual, toSeed, adm, memory, starts>>

Keys    == Inputs \X Mutators
Reasons == {"seed", "coverage", "state", "structure"}
Stages  == {"entry", "morph", "meta", "tape"}

EdgeType == [delta : Int, gen : Nat \ {0}]

MetaType ==
  [entry : Inputs, parent : Inputs \cup {None}, mutator : Mutators \cup {None},
   gen : Nat, feats : SUBSET Features, sig : Values, reason : Reasons,
   morph : Seq(EdgeType) \cup {None}, seq : Nat]

AdmType ==
  [entry : Inputs, parent : Inputs \cup {None}, mutator : Mutators \cup {None},
   gen : Nat, feats : SUBSET Features, sig : Values, reason : Reasons,
   morph : Seq(EdgeType) \cup {None}, root : Inputs, edge : EdgeType \cup {None},
   stage : Stages]

(* An admission is not None. *)
ASSUME NoneAssumption == None \notin AdmType

-----------------------------------------------------------------------------
(* Lineages. *)

MetaOf(M, i) == CHOOSE m \in M : m.entry = i

(* index.root_of: the seed an entry descends from. *)
RootOf(M, i) ==
  LET root[m \in M] == IF m.parent = None THEN m.entry
                                          ELSE root[MetaOf(M, m.parent)]
  IN  root[MetaOf(M, i)]

(* An edge: how far the child's signal is from its parent's, and its depth.*)
EdgeFrom(p, sig) == [delta |-> sig - p.sig, gen |-> p.gen + 1]
EdgeOf(M, m) == EdgeFrom(MetaOf(M, m.parent), m.sig)

Moved(e) == e.delta # 0

Sign(n) == IF n > 0 THEN 1 ELSE IF n < 0 THEN -1 ELSE 0

(* LineageAccumulator::push, as far as identities go: the direction of the *)
(* cumulative movement, kept when it returns to zero.                      *)
Push(a, e) ==
  LET total == a.total + e.delta IN
  [total |-> total,
   dir |-> IF Moved(e) /\ total # 0 THEN Sign(total) ELSE a.dir]

(* structural_identity of a morphology; 0 is the trivial one.              *)
Identity(edges) ==
  LET after[k \in 0..Len(edges)] == IF k = 0 THEN [total |-> 0, dir |-> 0]
                                    ELSE Push(after[k - 1], edges[k])
  IN  after[Len(edges)].dir

(* Slip: in the order of their ids. *)
BeforeById(a, b) == a.entry < b.entry

(* by_admission_order *)
Before(a, b) == a.seq < b.seq \/ (a.seq = b.seq /\ a.entry < b.entry)

(* The metas of M in that order. *)
InOrder(M) ==
  [k \in 1..Cardinality(M) |->
     CHOOSE m \in M : Cardinality({x \in M : Before(x, m)}) = k - 1]

Children(M) == {m \in M : m.mutator # None}

(* The edges of metas S of M, as rebuild replays them. *)
Edges(M, S) == LET ms == InOrder(S) IN [k \in DOMAIN ms |-> EdgeOf(M, ms[k])]

OfRoot(M, i) == {m \in Children(M) : RootOf(M, m.entry) = i}
Lineage(M, key) == {m \in OfRoot(M, key[1]) : m.mutator = key[2]}

(* The morphology rebuild derives for m. *)
Derived(M, m) ==
  Edges(M, {x \in Lineage(M, <<RootOf(M, m.entry), m.mutator>>) :
              x = m \/ Before(x, m)})

(* A root's stream starts at its first edge that moved. *)
StreamOf(edges) ==
  IF \E k \in DOMAIN edges : Moved(edges[k])
    THEN SubSeq(edges, CHOOSE k \in DOMAIN edges :
                         /\ Moved(edges[k])
                         /\ \A j \in 1..(k - 1) : ~Moved(edges[j]),
                Len(edges))
    ELSE <<>>

Feed(edges, e) == IF edges = <<>> /\ ~Moved(e) THEN <<>> ELSE Append(edges, e)

-----------------------------------------------------------------------------
(* Start of a campaign: CampaignState::rebuild. *)

LastSeq(M) == CHOOSE n \in {m.seq : m \in M} : \A m \in M : m.seq <= n
NextSeq(M) == IF M = {} THEN 0 ELSE 1 + LastSeq(M)

StatesOf(M) == {m.sig : m \in M}

Sound(M) ==
  /\ \A a, b \in M : a.entry = b.entry => a = b
  /\ \A m \in Children(M) : \E p \in M : p.entry = m.parent
  /\ \A m \in M : m.morph # None => m.morph = Derived(M, m)

Start(r) ==
  /\ phase # "on" /\ starts < MaxStarts /\ starts' = starts + 1
  /\ residual' = r
  /\ IF Sound(metas)
       THEN /\ phase' = "on"
            /\ toSeed' = IF metas = {} THEN Seeds ELSE <<>>
            /\ aseq' = NextSeq(metas)
            /\ states' = StatesOf(metas)
            /\ known' = {Identity(Derived(metas, m)) : m \in Children(metas)}
            /\ acc' = [key \in Keys |-> Edges(metas, Lineage(metas, key))]
            /\ stream' = [i \in Inputs |-> IF r
                 THEN StreamOf(Edges(metas, OfRoot(metas, i)))
                 ELSE <<>>]
       ELSE phase' = "failed" /\ UNCHANGED <<toSeed, memory>>
  /\ UNCHANGED <<store, adm>>

NoMemory ==
  /\ aseq' = 0 /\ states' = {} /\ known' = {}
  /\ acc' = [key \in Keys |-> <<>>] /\ stream' = [i \in Inputs |-> <<>>]

(* The campaign ends, by itself or killed, in the middle of an admission   *)
(* perhaps.                                                                *)
End ==
  /\ phase = "on" /\ phase' = "off"
  /\ adm' = None /\ toSeed' = <<>> /\ residual' = FALSE
  /\ NoMemory
  /\ UNCHANGED <<store, starts>>

-----------------------------------------------------------------------------
(* One admission. *)

Ready == phase = "on" /\ adm = None

(* admit_seed, with what the worker observed. *)
Seed(feats, sig) ==
  /\ Ready /\ toSeed # <<>>
  /\ toSeed' = Tail(toSeed)
  /\ adm' = [entry |-> Head(toSeed), parent |-> None, mutator |-> None,
             gen |-> 0, feats |-> feats, sig |-> sig, reason |-> "seed",
             morph |-> None, root |-> Head(toSeed), edge |-> None,
             stage |-> "entry"]
  /\ UNCHANGED <<store, phase, residual, memory, starts>>

(* decide *)
Reason(edges, feats, sig) ==
  IF feats \ UNION {m.feats : m \in metas} # {} THEN "coverage"
  ELSE IF ~residual THEN None
  ELSE IF sig \notin states THEN "state"
  ELSE IF Identity(edges) \notin known \cup {0} THEN "structure"
  ELSE None

(* A discovery in a result of an order on parent p is to be admitted: a    *)
(* rejected one changes nothing.                                           *)
Discover(i, p, mut, feats, sig) ==
  /\ Ready /\ toSeed = <<>>
  /\ LET root == RootOf(metas, p.entry)
         e == EdgeFrom(p, sig)
         reason == Reason(Append(acc[<<root, mut>>], e), feats, sig) IN
       /\ reason # None
       /\ adm' = [entry |-> i, parent |-> p.entry, mutator |-> mut,
                  gen |-> p.gen + 1, feats |-> feats, sig |-> sig,
                  reason |-> reason, morph |-> None, root |-> root, edge |-> e,
                  stage |-> "entry"]
  /\ UNCHANGED <<store, phase, residual, toSeed, memory, starts>>

Structured == residual /\ adm.mutator # None

(* What is put after the entry, the morphology and the meta. *)
(* Slip: the meta is put before the morphology it links. *)
NextPutMetaFirst(stage) ==
  CASE stage = "entry" -> "meta"
    [] stage = "meta" -> IF Structured THEN "morph" ELSE "tape"
    [] stage = "morph" -> "tape"
NextPut(stage) ==
  CASE stage = "entry" -> IF Structured THEN "morph" ELSE "meta"
    [] stage = "morph" -> "meta"
    [] stage = "meta" -> "tape"

(* Slip: the lineage is advanced before the entry is found to be known. *)
AdvancedAlways(isKnown) == Structured
Advanced(isKnown) == Structured /\ ~isKnown

(* The entry; an entry already in the index is dropped here. Otherwise     *)
(* commit_morphology advances the lineage of a residual campaign.          *)
PutEntry ==
  /\ adm # None /\ adm.stage = "entry"
  /\ entries' = entries \cup {adm.entry}
  /\ LET key == <<adm.root, adm.mutator>>
         isKnown == \E m \in metas : m.entry = adm.entry
         edges == Append(acc[key], adm.edge) IN
       /\ acc' = IF Advanced(isKnown) THEN [acc EXCEPT ![key] = edges] ELSE acc
       /\ adm' = IF isKnown THEN None
                 ELSE [adm EXCEPT !.stage = NextPut("entry"),
                                  !.morph = IF Structured THEN edges ELSE None]
  /\ UNCHANGED <<morphs, metas, tapes, phase, residual, toSeed, aseq, states,
                 known, stream, starts>>

PutMorph ==
  /\ adm # None /\ adm.stage = "morph"
  /\ morphs' = morphs \cup {adm.morph}
  /\ known' = known \cup {Identity(adm.morph)}
  /\ states' = states \cup {adm.sig}
  /\ adm' = [adm EXCEPT !.stage = NextPut("morph")]
  /\ UNCHANGED <<entries, metas, tapes, phase, residual, toSeed, aseq, acc,
                 stream, starts>>

MetaAt(seq) ==
  [entry |-> adm.entry, parent |-> adm.parent, mutator |-> adm.mutator,
   gen |-> adm.gen, feats |-> adm.feats, sig |-> adm.sig, reason |-> adm.reason,
   morph |-> adm.morph, seq |-> seq]

(* The meta and the insertion into the index; then the root's stream.      *)
PutMeta ==
  /\ adm # None /\ adm.stage = "meta"
  /\ metas' = metas \cup {MetaAt(aseq)}
  /\ aseq' = aseq + 1
  /\ states' = IF adm.reason = "seed" THEN states \cup {adm.sig} ELSE states
  /\ stream' = IF Structured
                 THEN [stream EXCEPT ![adm.root] = Feed(@, adm.edge)]
                 ELSE stream
  /\ adm' = IF adm.reason = "coverage" THEN None
                                       ELSE [adm EXCEPT !.stage = NextPut("meta")]
  /\ UNCHANGED <<entries, morphs, tapes, phase, residual, toSeed, known, acc,
                 starts>>

(* The tape of a seed or of a residual admission. *)
PutTape ==
  /\ adm # None /\ adm.stage = "tape"
  /\ tapes' = tapes \cup {adm.entry}
  /\ adm' = None
  /\ UNCHANGED <<entries, morphs, metas, phase, residual, toSeed, memory, starts>>

-----------------------------------------------------------------------------
Init ==
  /\ entries = {} /\ morphs = {} /\ metas = {} /\ tapes = {}
  /\ phase = "off" /\ residual = FALSE /\ toSeed = <<>> /\ adm = None
  /\ aseq = 0 /\ states = {} /\ known = {}
  /\ acc = [key \in Keys |-> <<>>] /\ stream = [i \in Inputs |-> <<>>]
  /\ starts = 0

(* The store is not used any more. *)
Rest == phase # "on" /\ starts = MaxStarts /\ UNCHANGED vars

Next ==
  \/ \E r \in BOOLEAN : Start(r)
  \/ \E feats \in SUBSET Features, sig \in Values : Seed(feats, sig)
  \/ \E i \in Inputs, p \in metas, mut \in Mutators,
        feats \in SUBSET Features, sig \in Values :
       Discover(i, p, mut, feats, sig)
  \/ PutEntry
  \/ PutMorph
  \/ PutMeta
  \/ PutTape
  \/ End
  \/ Rest

Spec == Init /\ [][Next]_vars

-----------------------------------------------------------------------------
(* What must hold. *)

TypeOK ==
  /\ entries \subseteq Inputs /\ tapes \subseteq Inputs
  /\ morphs \subseteq Seq(EdgeType) /\ metas \subseteq MetaType
  /\ phase \in {"off", "on", "failed"} /\ residual \in BOOLEAN
  /\ toSeed \in Seq(Inputs) /\ aseq \in Nat /\ states \subseteq Values
  /\ known \subseteq {-1, 0, 1}
  /\ acc \in [Keys -> Seq(EdgeType)] /\ stream \in [Inputs -> Seq(EdgeType)]
  /\ starts \in 0..MaxStarts
  /\ adm \in AdmType \cup {None}

(* Whatever was killed when, and whichever campaigns ran with or without   *)
(* the residual channel: the next start finds no collision, no orphan and  *)
(* no morphology that its replay does not derive (coordinator.rs:524-533). *)
StartsClean == phase # "failed"

(* Between admissions, the memory of a residual campaign is what a rebuild *)
(* from the store would make of it: a resumed campaign continues from the  *)
(* state the lost one was in (coordinator.rs:488-494).                     *)
RebuildMatchesLive ==
  Ready =>
    /\ aseq = NextSeq(metas)
    /\ residual =>
         /\ states = StatesOf(metas)
         /\ known = {Identity(Derived(metas, m)) : m \in Children(metas)}
         /\ \A key \in Keys : acc[key] = Edges(metas, Lineage(metas, key))
         /\ \A i \in Inputs :
              stream[i] = StreamOf(Edges(metas, OfRoot(metas, i)))

(* What corpus_link_check reports: a meta whose entry, parent or           *)
(* morphology is not in the store.                                         *)
CorpusLinkErrors ==
  {m \in metas : \/ m.entry \notin entries
                 \/ m.parent # None /\ m.parent \notin entries
                 \/ m.morph # None /\ m.morph \notin morphs}

(* fsck never finds a broken corpus link; moreover a parent is admitted    *)
(* before its child and one generation up, and a tape has its meta.        *)
LinksResolve ==
  /\ CorpusLinkErrors = {}
  /\ \A m \in Children(metas) : \E p \in metas : /\ p.entry = m.parent
                                               /\ p.gen = m.gen - 1
                                               /\ p.seq < m.seq
  /\ \A i \in tapes : \E m \in metas : m.entry = i

(* The corpus is a log: a new meta comes after all others, and none of an  *)
(* entry that has one.                                                     *)
MetasAppend ==
  [][\A m \in metas' \ metas : \A x \in metas :
       x.seq < m.seq /\ x.entry # m.entry]_vars
=============================================================================
