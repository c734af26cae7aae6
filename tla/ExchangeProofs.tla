--------------------------- MODULE ExchangeProofs ---------------------------
(* For any features, lanes, batch sizes and numbers of deaths: nothing a   *)
(* worker suppresses is lost unnoticed, and no delta names a feature the   *)
(* corpus does not hold; and what a discovery tells of an execution is     *)
(* true of that execution, and enough to repeat it.  For any parent,       *)
(* partner, dictionary and draws, a mutant is a parent in its turn.  For   *)
(* any vector width and buffers, the fast kernels are the scalar ones.     *)
EXTENDS FeatureSync, WorkerBatch, Mutation, Kernels,
        FiniteSetTheorems, FunctionTheorems, WellFoundedInduction, TLAPS

(* The types of what a worker reports and suppresses.                      *)
Typed ==
  /\ disc \in [Lanes -> Seq(SUBSET Features)]
  /\ known \subseteq Features
  /\ baseline \in [Lanes -> SUBSET Features]
  /\ dropped \in [Lanes -> SUBSET Features]
  /\ order \in [Lanes -> SUBSET Features]

IInv == Typed /\ DeltasAreAdmitted /\ SuppressedIsReported

-----------------------------------------------------------------------------
(* A result without discoveries reports nothing.                           *)
LEMMA NothingReported ==
  ASSUME NEW l \in Lanes, disc[l] = <<>>
  PROVE  Reported(l) = {}
BY DEF Reported, FeaturesIn

(* Refused and admitted discoveries make up the report.                    *)
LEMMA ReportSplit ==
  ASSUME NEW l \in Lanes, NEW again \in SUBSET DOMAIN disc[l]
  PROVE  Reported(l) = FeaturesIn(l, again) \cup FeaturesIn(l, DOMAIN disc[l] \ again)
BY DEF Reported, FeaturesIn

LEMMA ReportTyped ==
  ASSUME NEW l \in Lanes, NEW ks \in SUBSET DOMAIN disc[l], Typed
  PROVE  FeaturesIn(l, ks) \subseteq Features
<1>1. \A k \in ks : disc[l][k] \in SUBSET Features
  BY DEF Typed
<1>. QED  BY <1>1 DEF FeaturesIn

(* Appending a discovery adds its features to the report.                  *)
LEMMA ReportAppend ==
  ASSUME Typed, NEW l \in Lanes, NEW feats \in SUBSET Features,
         disc' = [disc EXCEPT ![l] = Append(disc[l], feats)]
  PROVE  /\ disc' \in [Lanes -> Seq(SUBSET Features)]
         /\ Reported(l)' = Reported(l) \cup feats
<1> DEFINE s == disc[l]
           t == Append(s, feats)
<1>1. s \in Seq(SUBSET Features) /\ disc'[l] = t
  BY DEF Typed
<1>2. /\ t \in Seq(SUBSET Features)
      /\ DOMAIN t = DOMAIN s \cup {Len(s) + 1}
      /\ t[Len(s) + 1] = feats
      /\ \A k \in DOMAIN s : t[k] = s[k]
  BY <1>1
<1>3. disc' \in [Lanes -> Seq(SUBSET Features)]
  BY <1>1, <1>2 DEF Typed
<1>4. UNION {t[k] : k \in DOMAIN t} = (UNION {s[k] : k \in DOMAIN s}) \cup feats
  <2>. HIDE DEF s, t
  <2>. QED  BY <1>2
<1>. QED  BY <1>1, <1>3, <1>4 DEF Reported, FeaturesIn

-----------------------------------------------------------------------------
LEMMA InitInv == Init => IInv
<1>. SUFFICES ASSUME Init PROVE IInv
  OBVIOUS
<1>1. Typed
  <2>1. <<>> \in Seq(SUBSET Features)
    OBVIOUS
  <2>. QED  BY <2>1 DEF Init, Typed
<1>2. DeltasAreAdmitted /\ SuppressedIsReported
  BY DEF Init, DeltasAreAdmitted, SuppressedIsReported
<1>. QED  BY <1>1, <1>2 DEF IInv

(* Every action preserves it, with the history of what was dropped.        *)
LEMMA NextInv == IInv /\ [Next]_vars => IInv'
<1>. SUFFICES ASSUME IInv, [Next]_vars PROVE IInv'
  OBVIOUS
<1>. USE DEF IInv
<1>1. CASE Dispatch
  <2>1. Typed'
    <3>1. deltas \subseteq Features
      BY DEF Typed, DeltasAreAdmitted
    <3>. QED  BY <1>1, <3>1 DEF Dispatch, Typed, worker
  <2>2. DeltasAreAdmitted'
    BY <1>1 DEF Dispatch, DeltasAreAdmitted, Idle
  <2>3. SuppressedIsReported'
    BY <1>1 DEF Dispatch, SuppressedIsReported, Reported, FeaturesIn, worker
  <2>. QED  BY <2>1, <2>2, <2>3
<1>2. ASSUME NEW l \in Lanes, NEW again \in SUBSET DOMAIN disc[l], Process(l, again)
      PROVE  IInv'
  <2> DEFINE admitted == DOMAIN disc[l] \ again
  <2>1. /\ known' = known \cup FeaturesIn(l, admitted)
        /\ deltas' = deltas \cup (FeaturesIn(l, admitted) \ known)
        /\ dropped' = [dropped EXCEPT ![l] = dropped[l] \cup FeaturesIn(l, again)]
        /\ disc' = [disc EXCEPT ![l] = <<>>]
        /\ order' = [order EXCEPT ![l] = {}]
        /\ baseline' = baseline
    BY <1>2 DEF Process, Put, NewGlobal
  <2>2. FeaturesIn(l, admitted) \subseteq Features /\ FeaturesIn(l, again) \subseteq Features
    BY ReportTyped
  <2>3. Typed'
    <3>1. disc' \in [Lanes -> Seq(SUBSET Features)]
      BY <2>1 DEF Typed
    <3>. QED  BY <2>1, <2>2, <3>1 DEF Typed
  <2>4. DeltasAreAdmitted'
    BY <2>1 DEF DeltasAreAdmitted, Typed
  <2>5. SuppressedIsReported'
    <3>. SUFFICES ASSUME NEW m \in Lanes
                  PROVE  baseline'[m] \subseteq known' \cup Reported(m)' \cup dropped'[m]
      BY DEF SuppressedIsReported
    <3>1. baseline[m] \subseteq known \cup Reported(m) \cup dropped[m]
      BY DEF SuppressedIsReported
    <3>2. CASE m = l
      <4>1. Reported(l) = FeaturesIn(l, again) \cup FeaturesIn(l, admitted)
        BY ReportSplit
      <4>2. dropped'[l] = dropped[l] \cup FeaturesIn(l, again)
        BY <2>1 DEF Typed
      <4>. QED  BY <2>1, <3>1, <3>2, <4>1, <4>2
    <3>3. CASE m # l
      <4>1. disc'[m] = disc[m] /\ dropped'[m] = dropped[m]
        BY <2>1, <3>3 DEF Typed
      <4>2. Reported(m)' = Reported(m)
        BY <4>1 DEF Reported, FeaturesIn
      <4>. QED  BY <2>1, <3>1, <4>1, <4>2
    <3>. QED  BY <3>2, <3>3
  <2>. QED  BY <2>3, <2>4, <2>5
<1>3. ASSUME NEW l \in Lanes, HandleDeath(l) PROVE IInv'
  <2>1. /\ known' = known /\ deltas' = deltas
        /\ order' = [order EXCEPT ![l] = {}]
        /\ baseline' = [baseline EXCEPT ![l] = {}]
        /\ disc' = [disc EXCEPT ![l] = <<>>]
        /\ dropped' = [dropped EXCEPT ![l] = {}]
    BY <1>3 DEF HandleDeath, Put, FirstBaseline
  <2>2. Typed'
    <3>1. disc' \in [Lanes -> Seq(SUBSET Features)]
      BY <2>1 DEF Typed
    <3>. QED  BY <2>1, <3>1 DEF Typed
  <2>3. DeltasAreAdmitted'
    BY <2>1 DEF DeltasAreAdmitted, Typed
  <2>4. SuppressedIsReported'
    <3>. SUFFICES ASSUME NEW m \in Lanes
                  PROVE  baseline'[m] \subseteq known' \cup Reported(m)' \cup dropped'[m]
      BY DEF SuppressedIsReported
    <3>1. CASE m = l
      BY <2>1, <3>1 DEF Typed
    <3>2. CASE m # l
      <4>1. disc'[m] = disc[m] /\ dropped'[m] = dropped[m] /\ baseline'[m] = baseline[m]
        BY <2>1, <3>2 DEF Typed
      <4>2. Reported(m)' = Reported(m)
        BY <4>1 DEF Reported, FeaturesIn
      <4>. QED  BY <2>1, <4>1, <4>2 DEF SuppressedIsReported
    <3>. QED  BY <3>1, <3>2
  <2>. QED  BY <2>2, <2>3, <2>4
<1>4. ASSUME NEW l \in Lanes, TakeOrder(l) PROVE IInv'
  <2>1. /\ UNCHANGED <<known, deltas, order, disc, dropped>>
        /\ baseline' = [baseline EXCEPT ![l] = baseline[l] \cup order[l]]
    BY <1>4 DEF TakeOrder, Put, coordinator
  <2>2. Typed'
    BY <2>1 DEF Typed
  <2>3. DeltasAreAdmitted'
    BY <2>1 DEF DeltasAreAdmitted
  <2>4. SuppressedIsReported'
    <3>1. \A m \in Lanes : Reported(m)' = Reported(m)
      BY <2>1 DEF Reported, FeaturesIn
    <3>. QED  BY <2>1, <3>1 DEF SuppressedIsReported, DeltasAreAdmitted, Typed
  <2>. QED  BY <2>2, <2>3, <2>4
<1>5. ASSUME NEW l \in Lanes, NEW feats \in SUBSET Features,
             NEW signals \in BOOLEAN, NEW small \in BOOLEAN,
             Execute(l, feats, signals, small)
      PROVE  IInv'
  <2> DEFINE novel == feats \ baseline[l]
  <2>1. /\ UNCHANGED <<known, deltas, order>>
        /\ baseline' = [baseline EXCEPT ![l] = baseline[l] \cup feats]
    BY <1>5 DEF Execute, Put, coordinator
  <2>2. \/ novel = {} /\ UNCHANGED <<disc, dropped>>
        \/ disc' = [disc EXCEPT ![l] = Append(disc[l], feats)] /\ dropped' = dropped
        \/ dropped' = [dropped EXCEPT ![l] = dropped[l] \cup novel] /\ disc' = disc
    BY <1>5 DEF Execute, Put
  <2>3. DeltasAreAdmitted'
    BY <2>1 DEF DeltasAreAdmitted
  <2>4. baseline' \in [Lanes -> SUBSET Features]
    BY <2>1 DEF Typed
  <2>5. ASSUME disc' = disc PROVE \A m \in Lanes : Reported(m)' = Reported(m)
    BY <2>5 DEF Reported, FeaturesIn
  <2>6. CASE novel = {} /\ UNCHANGED <<disc, dropped>>
    <3>1. Typed'
      BY <2>1, <2>4, <2>6 DEF Typed
    <3>2. SuppressedIsReported'
      BY <2>1, <2>5, <2>6 DEF SuppressedIsReported, Typed
    <3>. QED  BY <2>3, <3>1, <3>2
  <2>7. CASE disc' = [disc EXCEPT ![l] = Append(disc[l], feats)] /\ dropped' = dropped
    <3>1. /\ disc' \in [Lanes -> Seq(SUBSET Features)]
          /\ Reported(l)' = Reported(l) \cup feats
      BY <2>7, ReportAppend
    <3>2. Typed'
      BY <2>1, <2>4, <2>7, <3>1 DEF Typed
    <3>3. \A m \in Lanes \ {l} : Reported(m)' = Reported(m)
      BY <2>7 DEF Reported, FeaturesIn, Typed
    <3>4. SuppressedIsReported'
      BY <2>1, <2>7, <3>1, <3>3 DEF SuppressedIsReported, Typed
    <3>. QED  BY <2>3, <3>2, <3>4
  <2>8. CASE dropped' = [dropped EXCEPT ![l] = dropped[l] \cup novel] /\ disc' = disc
    <3>1. Typed'
      BY <2>1, <2>4, <2>8 DEF Typed
    <3>2. SuppressedIsReported'
      BY <2>1, <2>5, <2>8 DEF SuppressedIsReported, Typed
    <3>. QED  BY <2>3, <3>1, <3>2
  <2>. QED  BY <2>2, <2>6, <2>7, <2>8
<1>6. CASE UNCHANGED <<known, deltas, order, disc, baseline, dropped>>
  BY <1>6 DEF Typed, DeltasAreAdmitted, SuppressedIsReported, Reported, FeaturesIn
<1>7. ASSUME NEW l \in Lanes, Answer(l) \/ Die(l) PROVE IInv'
  BY <1>6, <1>7 DEF Answer, Die, coordinator, worker
<1>8. CASE UNCHANGED vars
  BY <1>6, <1>8 DEF vars, coordinator, worker
<1>. QED  BY <1>1, <1>2, <1>3, <1>4, <1>5, <1>7, <1>8 DEF Next

-----------------------------------------------------------------------------
(* No coverage is lost silently (worker.rs:459-467, push_discovery): for   *)
(* every number of lanes and deaths, what a worker suppresses is in the    *)
(* corpus, reported to it, truncated or refused.                           *)
THEOREM NoSilentLoss == Spec => []SuppressedIsReported
<1>1. IInv => SuppressedIsReported
  BY DEF IInv
<1>. QED  BY InitInv, NextInv, <1>1, PTL DEF Spec

(* What a worker is told to suppress was admitted (coordinator.rs:877-881, *)
(* 1428-1432), whatever was refused before.                                *)
THEOREM DeltasAreTrue == Spec => []DeltasAreAdmitted
<1>1. IInv => DeltasAreAdmitted
  BY DEF IInv
<1>. QED  BY InitInv, NextInv, <1>1, PTL DEF Spec

(* What is known, sent and suppressed are features, and a result never     *)
(* holds more discoveries than fit.                                        *)
LEMMA SyncTypesStay == ASSUME TypeOK, Next PROVE TypeOK'
<1>1. /\ at \in [Lanes -> {"idle", "order", "run", "result", "dead"}]
      /\ order \in [Lanes -> SUBSET Features] /\ baseline \in [Lanes -> SUBSET Features]
      /\ disc \in [Lanes -> Seq(SUBSET Features)] /\ dropped \in [Lanes -> SUBSET Features]
      /\ left \in [Lanes -> 0..Batch] /\ deaths \in 0..MaxDeaths
      /\ \A l \in Lanes : Len(disc[l]) <= MaxDisc
      /\ Batch \in Nat /\ MaxDisc \in Nat /\ MaxDeaths \in Nat
  BY BoundsAssumption DEF TypeOK
<1>2. \A l \in Lanes : \A ks \in SUBSET DOMAIN disc[l] : FeaturesIn(l, ks) \in SUBSET Features
  <2> SUFFICES ASSUME NEW l \in Lanes, NEW ks \in SUBSET DOMAIN disc[l], NEW k \in ks
               PROVE  disc[l][k] \subseteq Features
    BY DEF FeaturesIn
  <2>1. disc[l] \in Seq(SUBSET Features)
    BY <1>1
  <2>. QED  BY <2>1
<1>3. CASE Dispatch
  BY <1>1, <1>3 DEF TypeOK, Dispatch, worker, coordinator
<1>4. ASSUME NEW l \in Lanes, NEW again \in SUBSET DOMAIN disc[l], Process(l, again)
      PROVE  TypeOK'
  <2>1. /\ FeaturesIn(l, again) \in SUBSET Features
        /\ FeaturesIn(l, DOMAIN disc[l] \ again) \in SUBSET Features
    BY <1>2
  <2>2. known' \subseteq Features /\ deltas' \subseteq Features
    BY <1>4, <2>1 DEF TypeOK, Process, NewGlobal
  <2>3. dropped' \in [Lanes -> SUBSET Features]
    BY <1>1, <1>4, <2>1 DEF Process, Put
  <2>4. /\ disc' \in [Lanes -> Seq(SUBSET Features)]
        /\ \A m \in Lanes : disc'[m] = IF m = l THEN <<>> ELSE disc[m]
    BY <1>1, <1>4 DEF Process, Put
  <2>5. \A m \in Lanes : Len(disc'[m]) <= MaxDisc
    BY <1>1, <2>4
  <2>6. /\ at' \in [Lanes -> {"idle", "order", "run", "result", "dead"}]
        /\ order' \in [Lanes -> SUBSET Features] /\ polling' \in BOOLEAN
        /\ left' = left /\ baseline' = baseline /\ deaths' = deaths
    BY <1>1, <1>4 DEF Process, Put
  <2>. QED  BY <1>1, <2>2, <2>3, <2>4, <2>5, <2>6 DEF TypeOK
<1>5. ASSUME NEW l \in Lanes, HandleDeath(l) PROVE TypeOK'
  <2>1. /\ disc' \in [Lanes -> Seq(SUBSET Features)]
        /\ \A m \in Lanes : disc'[m] = IF m = l THEN <<>> ELSE disc[m]
    BY <1>1, <1>5 DEF HandleDeath, Put
  <2>2. \A m \in Lanes : Len(disc'[m]) <= MaxDisc
    BY <1>1, <2>1
  <2>3. /\ at' \in [Lanes -> {"idle", "order", "run", "result", "dead"}]
        /\ order' \in [Lanes -> SUBSET Features] /\ polling' \in BOOLEAN
        /\ baseline' \in [Lanes -> SUBSET Features] /\ dropped' \in [Lanes -> SUBSET Features]
        /\ left' = left /\ deaths' = deaths /\ known' = known /\ deltas' = deltas
    BY <1>1, <1>5 DEF HandleDeath, Put, FirstBaseline
  <2>. QED  BY <1>1, <2>1, <2>2, <2>3 DEF TypeOK
<1>6. ASSUME NEW l \in Lanes, TakeOrder(l) PROVE TypeOK'
  <2>1. /\ baseline' \in [Lanes -> SUBSET Features] /\ left' \in [Lanes -> 0..Batch]
        /\ at' \in [Lanes -> {"idle", "order", "run", "result", "dead"}]
    BY <1>1, <1>6 DEF TakeOrder, Put
  <2>. QED  BY <1>1, <1>6, <2>1 DEF TypeOK, TakeOrder, coordinator
<1>7. ASSUME NEW l \in Lanes, NEW feats \in SUBSET Features,
             NEW signals \in BOOLEAN, NEW small \in BOOLEAN,
             Execute(l, feats, signals, small)
      PROVE  TypeOK'
  <2>1. /\ baseline' \in [Lanes -> SUBSET Features]
        /\ at' = at /\ deaths' = deaths /\ UNCHANGED coordinator
    BY <1>1, <1>7 DEF Execute, Put
  <2>2. left' \in [Lanes -> 0..Batch]
    BY <1>1, <1>7 DEF Execute, Put
  <2>3. \/ disc' = disc /\ dropped' = dropped
        \/ /\ Fits(l) /\ dropped' = dropped
           /\ disc' = [disc EXCEPT ![l] = Append(disc[l], feats)]
        \/ /\ disc' = disc
           /\ dropped' = [dropped EXCEPT ![l] = dropped[l] \cup (feats \ baseline[l])]
    BY <1>7 DEF Execute, Put
  <2>4. dropped' \in [Lanes -> SUBSET Features]
    BY <1>1, <2>3
  <2>5. /\ disc' \in [Lanes -> Seq(SUBSET Features)]
        /\ \A m \in Lanes : Len(disc'[m]) <= MaxDisc
    <3>1. CASE disc' = disc
      BY <1>1, <3>1
    <3>2. CASE Fits(l) /\ disc' = [disc EXCEPT ![l] = Append(disc[l], feats)]
      <4>1. disc[l] \in Seq(SUBSET Features) /\ Len(disc[l]) \in Nat
        BY <1>1
      <4>2. /\ Append(disc[l], feats) \in Seq(SUBSET Features)
            /\ Len(Append(disc[l], feats)) = Len(disc[l]) + 1
        BY <4>1
      <4>3. Len(disc[l]) + 1 <= MaxDisc
        BY <1>1, <3>2, <4>1 DEF Fits
      <4>4. \A m \in Lanes : disc'[m] = IF m = l THEN Append(disc[l], feats) ELSE disc[m]
        BY <1>1, <3>2
      <4>5. \A m \in Lanes : Len(disc'[m]) <= MaxDisc
        BY <1>1, <4>2, <4>3, <4>4
      <4>. QED  BY <1>1, <3>2, <4>2, <4>5
    <3>. QED  BY <2>3, <3>1, <3>2
  <2>. QED  BY <1>1, <2>1, <2>2, <2>4, <2>5 DEF TypeOK, coordinator
<1>8. ASSUME NEW l \in Lanes, Answer(l) PROVE TypeOK'
  <2>1. at' \in [Lanes -> {"idle", "order", "run", "result", "dead"}]
    BY <1>1, <1>8 DEF Answer, Put
  <2>. QED  BY <1>1, <1>8, <2>1 DEF TypeOK, Answer, coordinator, worker
<1>9. ASSUME NEW l \in Lanes, Die(l) PROVE TypeOK'
  <2>1. at' \in [Lanes -> {"idle", "order", "run", "result", "dead"}]
    BY <1>1, <1>9 DEF Die, Put
  <2>2. deaths' \in 0..MaxDeaths
    BY <1>1, <1>9 DEF Die
  <2>. QED  BY <1>1, <1>9, <2>1, <2>2 DEF TypeOK, Die, coordinator, worker
<1>. QED  BY <1>3, <1>4, <1>5, <1>6, <1>7, <1>8, <1>9 DEF Next

(* Type correctness of the exchange of features; no result holds more      *)
(* discoveries than MAX_DISCOVERIES_PER_RESULT.                            *)
THEOREM SyncTypes == Spec => []TypeOK
<1>1. Init => TypeOK
  <2> SUFFICES ASSUME Init PROVE TypeOK
    OBVIOUS
  <2>1. /\ disc = [l \in Lanes |-> <<>>] /\ disc \in [Lanes -> Seq(SUBSET Features)]
        /\ MaxDisc \in Nat
    BY BoundsAssumption DEF Init
  <2>2. \A l \in Lanes : disc[l] = <<>> /\ Len(disc[l]) <= MaxDisc
    BY <2>1
  <2>3. left \in [Lanes -> 0..Batch] /\ deaths \in 0..MaxDeaths
    BY BoundsAssumption DEF Init
  <2>. QED  BY <2>1, <2>2, <2>3 DEF Init, TypeOK
<1>2. TypeOK /\ [Next]_vars => TypeOK'
  <2>1. TypeOK /\ UNCHANGED vars => TypeOK'
    BY DEF TypeOK, vars, coordinator, worker
  <2>. QED  BY <2>1, SyncTypesStay
<1>. QED  BY <1>1, <1>2, PTL DEF Spec

-----------------------------------------------------------------------------
(* The batch of one worker.                                                *)

(* A set of naturals that is not empty has a least element.                *)
LEMMA Smallest ==
  ASSUME NEW T, T \subseteq Nat, T # {}
  PROVE  \E k \in T : \A j \in T : k <= j
<1> DEFINE R == OpToRel(<, Nat)
<1>1. IsWellFoundedOn(R, Nat)
  BY NatLessThanWellFounded
<1> HIDE DEF R
<1>2. PICK k \in T : \A j \in T : ~ (<<j, k>> \in R)
  BY <1>1, WFMin
<1>3. \A j \in T : ~(j < k)
  BY <1>2 DEF R, OpToRel
<1>. QED BY <1>3

(* A function of each step can be iterated from a start.                   *)
Iterated(g, V, n, b, st) ==
  g \in [0..n -> V] /\ g[0] = b /\ \A i \in 1..n : g[i] = st[i][g[i - 1]]

LEMMA Iterates ==
  ASSUME NEW V, NEW N \in Nat, NEW b \in V, NEW st \in [1..N -> [V -> V]]
  PROVE  \E g : Iterated(g, V, N, b, st)
<1> DEFINE Upto(n, g) == g \in [0..n -> V] /\ g[0] = b /\ \A i \in 1..n : g[i] = st[i][g[i - 1]]
<1> SUFFICES ASSUME ~ \E g : Upto(N, g) PROVE FALSE
  BY DEF Iterated
<1> DEFINE T == {n \in 0..N : ~ \E g : Upto(n, g)}
<1>1. PICK k \in T : \A j \in T : k <= j
  <2>1. T \subseteq Nat /\ N \in T
    OBVIOUS
  <2> HIDE DEF T
  <2>. QED  BY <2>1, Smallest
<1>2. k # 0
  <2>1. Upto(0, [n \in 0..0 |-> b])
    OBVIOUS
  <2>2. ~ \E g : Upto(k, g)
    BY <1>1
  <2> HIDE DEF Upto
  <2>. QED  BY <2>1, <2>2
<1>3. k \in 1..N /\ k - 1 \in 0..N /\ k - 1 \in Nat /\ ~(k <= k - 1)
  BY <1>1, <1>2
<1>4. k - 1 \notin T
  <2> HIDE DEF T
  <2>. QED  BY <1>1, <1>3
<1>5. PICK g : Upto(k - 1, g)
  BY <1>3, <1>4
<1> DEFINE d == st[k][g[k - 1]]
           h == [n \in 0..k |-> IF n = k THEN d ELSE g[n]]
<1>6. g[k - 1] \in V /\ d \in V
  BY <1>3, <1>5
<1>7. h \in [0..k -> V] /\ h[0] = b
  <2> HIDE DEF d
  <2>. QED  BY <1>3, <1>5, <1>6
<1>8. \A i \in 1..k : h[i] = st[i][h[i - 1]]
  <2> TAKE i \in 1..k
  <2>1. h[i - 1] = g[i - 1]
    BY <1>3
  <2>2. CASE i = k
    BY <1>3, <2>1, <2>2
  <2>3. CASE i # k
    <3>1. i \in 1..(k - 1)
      BY <1>3, <2>3
    <3>2. g[i] = st[i][g[i - 1]]
      BY <1>5, <3>1
    <3>. QED  BY <2>1, <2>3, <3>2
  <2>. QED  BY <2>2, <2>3
<1>. QED  BY <1>1, <1>7, <1>8

(* Euclid: a quotient and a remainder are the quotient and the remainder.  *)
LEMMA Remainder ==
  ASSUME NEW n \in Nat \ {0}, NEW a \in Nat
  PROVE  (a % n) \in 0..(n - 1) /\ \E q \in Nat : a = n * q + (a % n)
<1>1. (a % n) \in 0..(n - 1) /\ a \div n \in Nat
  OBVIOUS
<1> DEFINE q == a \div n
           x == (a % n)
<1>2. q \in Nat /\ x \in Nat /\ x < n /\ a = n * q + x
  BY <1>1, Z3
<1> HIDE DEF q, x
<1>3. x \in 0..(n - 1)
  BY <1>2
<1>4. \E p \in Nat : a = n * p + x
  BY <1>2
<1>. QED  BY <1>3, <1>4 DEF x

LEMMA Multiples ==
  ASSUME NEW n \in Nat \ {0}, NEW p \in Int, NEW q \in Int, p < q
  PROVE  n * p + n <= n * q /\ n * p \in Int /\ n * q \in Int
BY Z3

LEMMA RemainderUnique ==
  ASSUME NEW n \in Nat \ {0}, NEW a \in Nat, NEW q \in Nat, NEW r \in 0..(n - 1), a = n * q + r
  PROVE  (a % n) = r
<1>1. PICK p \in Nat : a = n * p + (a % n)
  BY Remainder
<1> DEFINE x == (a % n)
           u == n * p
           v == n * q
<1>2. x \in 0..(n - 1) /\ u \in Nat /\ v \in Nat /\ u + x = v + r
  BY <1>1, Remainder
<1>3. (p < q => u + n <= v) /\ (q < p => v + n <= u)
  BY Multiples
<1>4. p = q => u = v
  OBVIOUS
<1> HIDE DEF x, u, v
<1>5. u = v
  BY <1>2, <1>3, <1>4
<1>6. x = r
  BY <1>2, <1>5
<1>. QED  BY <1>6 DEF x

(* Numbers less than n apart differ by their remainders.                   *)
LEMMA RemaindersDiffer ==
  ASSUME NEW n \in Nat \ {0}, NEW a \in Nat, NEW b \in Nat, a < b, b < a + n
  PROVE  (a % n) # (b % n)
<1> SUFFICES ASSUME (a % n) = (b % n) PROVE FALSE
  OBVIOUS
<1>1. PICK p \in Nat : a = n * p + (a % n)
  BY Remainder
<1>2. PICK q \in Nat : b = n * q + (b % n)
  BY Remainder
<1> DEFINE x == (a % n)
           u == n * p
           v == n * q
<1>3. x \in Nat /\ u \in Nat /\ v \in Nat /\ a = u + x /\ b = v + x
  BY <1>1, <1>2, Remainder
<1>4. (p < q => u + n <= v) /\ (q < p => v + n <= u)
  BY Multiples
<1>5. p = q => u = v
  OBVIOUS
<1> HIDE DEF x, u, v
<1>. QED  BY <1>3, <1>4, <1>5

(* The k numbers after a, by their remainders: up to n, then from 0.       *)
LEMMA RemainderAfter ==
  ASSUME NEW n \in Nat \ {0}, NEW a \in Nat, NEW k \in Nat, k < n
  PROVE  ((a + k) % n) = IF (a % n) + k < n THEN (a % n) + k ELSE (a % n) + k - n
<1>1. PICK q \in Nat : a = n * q + (a % n)
  BY Remainder
<1>2. (a % n) \in 0..(n - 1)
  BY Remainder
<1> DEFINE x == (a % n)
           u == n * q
<1>3. u \in Nat /\ a = u + x /\ x \in 0..(n - 1)
  <2>1. n * q \in Nat
    BY Z3
  <2>2. x \in 0..(n - 1)
    BY <1>2
  <2>3. a = u + x
    BY <1>1
  <2>. QED  BY <2>1, <2>2, <2>3
<1>4. n * (q + 1) = u + n
  BY Z3
<1>5. ASSUME NEW r \in 0..(n - 1), NEW p \in Nat, a + k = n * p + r PROVE ((a + k) % n) = r
  <2> DEFINE b == a + k
  <2>1. b \in Nat /\ b = n * p + r
    BY <1>5
  <2> HIDE DEF b
  <2>2. (b % n) = r
    BY <1>5, <2>1, RemainderUnique
  <2>. QED  BY <2>2 DEF b
<1>6. CASE x + k < n
  <2> HIDE DEF x
  <2>1. x + k \in 0..(n - 1) /\ a + k = n * q + (x + k)
    <3> HIDE DEF u
    <3>1. x + k \in 0..(n - 1) /\ a + k = u + (x + k)
      BY <1>3, <1>6
    <3>. QED  BY <3>1 DEF u
  <2>2. ((a + k) % n) = x + k
    BY <2>1, <1>5
  <2>. QED  BY <1>6, <2>2 DEF x
<1>7. CASE ~(x + k < n)
  <2> HIDE DEF x
  <2>1. x + k - n \in 0..(n - 1) /\ a + k = n * (q + 1) + (x + k - n) /\ q + 1 \in Nat
    <3> HIDE DEF u
    <3>1. x + k - n \in 0..(n - 1) /\ a + k = (u + n) + (x + k - n)
      BY <1>3, <1>7
    <3>. QED  BY <3>1, <1>4
  <2>2. ((a + k) % n) = x + k - n
    BY <2>1, <1>5
  <2>. QED  BY <1>7, <2>2 DEF x
<1>. QED  BY <1>6, <1>7

(* What the target and the window around it may push.                      *)
Operands ==
  {Switch} \cup (UNION {ToSet(es) : es \in Pushes}) \cup (UNION {ToSet(es) : es \in OwnPushes})
Rings == [head : Nat, tail : Nat, slots : [0..RingLen - 1 -> Operands], over : BOOLEAN]

LEMMA PushType == \A r \in Rings, e \in Operands : Push(r, e) \in Rings
<1> SUFFICES ASSUME NEW r \in Rings, NEW e \in Operands PROVE Push(r, e) \in Rings
  OBVIOUS
<1>1. (r.tail % RingLen) \in 0..(RingLen - 1)
  BY Remainder, BatchAssumption DEF Rings
<1>2. [r.slots EXCEPT ![r.tail % RingLen] = e] \in [0..RingLen - 1 -> Operands]
  BY <1>1 DEF Rings
<1>. QED  BY <1>2, BatchAssumption DEF Rings, Push

(* After n events the ring holds the last RingLen of them, each in its slot.*)
Holds(r, es, n) ==
  /\ r \in Rings /\ r.tail = n /\ r.head = (IF n > RingLen THEN n - RingLen ELSE 0)
  /\ \A j \in r.head..(n - 1) : r.slots[j % RingLen] = es[j + 1]

LEMMA PushHolds ==
  ASSUME NEW es \in Seq(Operands), NEW n \in 1..Len(es), NEW r, Holds(r, es, n - 1)
  PROVE  Holds(Push(r, es[n]), es, n)
<1> DEFINE p == Push(r, es[n])
<1>1. es[n] \in Operands /\ r \in Rings /\ n \in Nat /\ RingLen \in Nat \ {0}
  BY BatchAssumption DEF Holds
<1>2. p \in Rings
  BY <1>1, PushType
<1>3. r.tail = n - 1 /\ r.head \in 0..(n - 1)
      /\ r.head = (IF n - 1 > RingLen THEN n - 1 - RingLen ELSE 0)
  BY <1>1 DEF Holds
<1>4. p.tail = n /\ p.head = (IF n > RingLen THEN n - RingLen ELSE 0) /\ p.head >= r.head
  BY <1>1, <1>3 DEF Push
<1>5. p.slots = [r.slots EXCEPT ![(n - 1) % RingLen] = es[n]] /\ DOMAIN r.slots = 0..RingLen - 1
  BY <1>1, <1>3 DEF Push, Rings
<1>6. ASSUME NEW j \in p.head..(n - 1) PROVE p.slots[j % RingLen] = es[j + 1]
  <2>1. j \in Nat /\ j < n /\ j + RingLen >= n /\ j >= r.head
    BY <1>1, <1>3, <1>4
  <2>2. (j % RingLen) \in 0..(RingLen - 1) /\ ((n - 1) % RingLen) \in 0..(RingLen - 1)
    <3>1. n - 1 \in Nat
      OBVIOUS
    <3>. QED  BY <1>1, <2>1, <3>1, Remainder
  <2>3. CASE j = n - 1
    BY <1>1, <1>5, <2>2, <2>3
  <2>4. CASE j # n - 1
    <3>1. j \in r.head..(n - 1 - 1) /\ n - 1 \in Nat /\ j < n - 1 /\ n - 1 < j + RingLen
      BY <1>1, <1>3, <2>1, <2>4
    <3>2. (j % RingLen) # ((n - 1) % RingLen)
      BY <1>1, <2>1, <3>1, RemaindersDiffer
    <3>3. r.slots[j % RingLen] = es[j + 1]
      BY <3>1 DEF Holds
    <3>. QED  BY <1>5, <2>2, <3>2, <3>3
  <2>. QED  BY <2>3, <2>4
<1> HIDE DEF p
<1>. QED  BY <1>2, <1>4, <1>6 DEF Holds, p

LEMMA ResetHolds ==
  ASSUME NEW r \in Rings, NEW es
  PROVE  Holds(ResetRing(r), es, 0)
BY BatchAssumption DEF ResetRing, Holds, Rings

(* The events of a window, pushed one after another.                       *)
LEMMA PushedHolds ==
  ASSUME NEW r \in Rings, NEW es \in Seq(Operands)
  PROVE  Holds(Pushed(ResetRing(r), es), es, Len(es))
<1> DEFINE b == ResetRing(r)
           N == Len(es)
           st == [i \in 1..N |-> [x \in Rings |-> Push(x, es[i])]]
           Body(f) == [n \in 0..N |-> IF n = 0 THEN b ELSE Push(f[n - 1], es[n])]
           s == CHOOSE f : f = Body(f)
<1>1. N \in Nat /\ Holds(b, es, 0) /\ b \in Rings
  BY ResetHolds DEF Holds
<1>2. \A i \in 1..N : es[i] \in Operands
  OBVIOUS
<1> HIDE DEF b
<1>3. st \in [1..N -> [Rings -> Rings]]
  BY <1>2, PushType
<1>4. PICK g : Iterated(g, Rings, N, b, st)
  <2>1. N \in Nat /\ b \in Rings
    BY <1>1
  <2> HIDE DEF st, N
  <2>. QED  BY <1>3, <2>1, Iterates
<1>5. g = Body(g)
  <2>1. \A n \in 1..N : g[n] = Push(g[n - 1], es[n])
    <3> TAKE n \in 1..N
    <3>1. n - 1 \in 0..N /\ g[n - 1] \in Rings
      BY <1>1, <1>4 DEF Iterated
    <3>. QED  BY <1>4, <3>1 DEF Iterated
  <2>. QED  BY <1>1, <1>4, <2>1 DEF Iterated
<1>6. s = Body(s)
  BY <1>5
<1>7. Pushed(b, es) = s[N]
  BY DEF Pushed
<1> HIDE DEF s, st
<1>8. ASSUME ~ Holds(s[N], es, N) PROVE FALSE
  <2> DEFINE T == {n \in 0..N : ~ Holds(s[n], es, n)}
  <2>1. PICK k \in T : \A j \in T : k <= j
    <3>1. T \subseteq Nat /\ N \in T
      BY <1>1, <1>8
    <3> HIDE DEF T
    <3>. QED  BY <3>1, Smallest
  <2>2. k \in 0..N /\ ~ Holds(s[k], es, k)
    BY <2>1
  <2>3. CASE k = 0
    BY <1>1, <1>6, <2>2, <2>3
  <2>4. CASE k # 0
    <3>1. k - 1 \in 0..N /\ k \in 1..N /\ ~(k <= k - 1)
      BY <1>1, <2>2, <2>4
    <3>2. Holds(s[k - 1], es, k - 1)
      BY <2>1, <3>1
    <3>3. s[k] = Push(s[k - 1], es[k])
      <4> HIDE DEF N
      <4>. QED  BY <1>6, <2>2, <2>4
    <3>. QED  BY <2>2, <3>1, <3>2, <3>3, PushHolds
  <2>. QED  BY <2>3, <2>4
<1>. QED  BY <1>7, <1>8 DEF b

(* The snapshot: the last RingLen events, in their order.                  *)
LEMMA SnapshotIsNewest ==
  ASSUME NEW es \in Seq(Operands), NEW r, Holds(r, es, Len(es))
  PROVE  Snapshot(r) = Newest(es)
<1> DEFINE N == Len(es)
           n == r.tail - r.head
           h == r.head % RingLen
           first == IF n < RingLen - h THEN n ELSE RingLen - h
           x == [i \in 1..first |-> r.slots[h + i - 1]]
           y == [i \in 1..n - first |-> r.slots[i - 1]]
<1>1. RingLen \in Nat \ {0} /\ N \in Nat /\ r.tail = N
      /\ r.head = (IF N > RingLen THEN N - RingLen ELSE 0)
      /\ \A j \in r.head..(N - 1) : r.slots[j % RingLen] = es[j + 1]
  BY BatchAssumption DEF Holds
<1>2. r.head \in Nat /\ n \in Nat /\ n <= RingLen /\ r.head + n = N
  BY <1>1
<1>3. h \in 0..(RingLen - 1)
  BY <1>1, <1>2, Remainder
<1>4. first \in Nat /\ first <= n /\ n - first \in Nat /\ n - first <= h
  <2>1. first = IF n < RingLen - h THEN n ELSE RingLen - h
    OBVIOUS
  <2> HIDE DEF n, h, first
  <2>. QED  BY <1>1, <1>2, <1>3, <2>1
<1>5. ASSUME NEW k \in 0..(n - 1)
      PROVE  r.slots[(r.head + k) % RingLen] = es[r.head + k + 1]
             /\ ((r.head + k) % RingLen) = (IF h + k < RingLen THEN h + k ELSE h + k - RingLen)
  <2>1. r.head + k \in r.head..(N - 1) /\ k \in Nat /\ k < RingLen
    BY <1>1, <1>2
  <2>. QED  BY <1>1, <1>2, <2>1, RemainderAfter
<1> HIDE DEF h, n, first
<1>6. \A i \in 1..first : x[i] = es[r.head + i]
  <2> TAKE i \in 1..first
  <2>1. i - 1 \in 0..(n - 1) /\ h + (i - 1) < RingLen /\ h + (i - 1) = h + i - 1
    BY <1>1, <1>2, <1>3, <1>4 DEF first
  <2>2. r.slots[h + i - 1] = es[r.head + (i - 1) + 1]
    BY <1>5, <2>1
  <2>. QED  BY <1>2, <2>2
<1>7. \A i \in 1..(n - first) : y[i] = es[r.head + first + i]
  <2> TAKE i \in 1..(n - first)
  <2>1. /\ first + i - 1 \in 0..(n - 1) /\ ~(h + (first + i - 1) < RingLen)
        /\ h + (first + i - 1) - RingLen = i - 1
    BY <1>1, <1>2, <1>3, <1>4 DEF first
  <2>2. r.slots[i - 1] = es[r.head + (first + i - 1) + 1]
    BY <1>5, <2>1
  <2>. QED  BY <1>2, <1>4, <2>2
<1> DEFINE from == IF N > RingLen THEN N - RingLen + 1 ELSE 1
           z == SubSeq(es, from, N)
<1>8. z \in Seq(Operands) /\ Len(z) = n /\ (\A i \in 1..n : z[i] = es[r.head + i]) /\ Newest(es) = z
  <2>1. from = r.head + 1 /\ Newest(es) = z
    BY <1>1 DEF Newest
  <2>2. from \in 1..(N + 1)
    BY <1>1
  <2>3. N - from + 1 = n /\ \A i \in 1..n : from + i - 1 = r.head + i
    <3>1. from = r.head + 1 /\ r.head + n = N /\ r.head \in Nat /\ n \in Nat /\ N \in Nat
      BY <1>1, <1>2, <2>1
    <3> HIDE DEF from, n, N
    <3>2. N - from + 1 = n
      BY <3>1
    <3>3. \A i \in 1..n : from + i - 1 = r.head + i
      BY <3>1
    <3>. QED  BY <3>2, <3>3
  <2>4. z \in Seq(Operands) /\ Len(z) = N - from + 1
        /\ \A i \in 1..(N - from + 1) : z[i] = es[from + i - 1]
    <3> HIDE DEF from
    <3>. QED  BY <2>2
  <2>. QED  BY <2>1, <2>3, <2>4
<1>9. Snapshot(r) = x \o y
  BY DEF Snapshot, n, h, first
<1>10. x \o y = z
  <2>1. \A i \in 1..n : es[r.head + i] \in Operands
    BY <1>1, <1>2
  <2>2. x \in Seq(Operands) /\ Len(x) = first
    <3>1. \A i \in 1..first : x[i] \in Operands
      <4>1. \A i \in 1..first : i \in 1..n
        BY <1>2, <1>4
      <4> HIDE DEF x
      <4>. QED  BY <1>6, <2>1, <4>1
    <3>2. x \in [1..first -> Operands]
      BY <3>1
    <3>. QED  BY <1>4, <3>2
  <2>3. y \in Seq(Operands) /\ Len(y) = n - first
    <3>1. \A i \in 1..(n - first) : first + i \in 1..n /\ r.head + first + i = r.head + (first + i)
      BY <1>2, <1>4
    <3>. QED  BY <1>4, <1>7, <2>1, <3>1
  <2> DEFINE w == x \o y
  <2>4. w \in Seq(Operands) /\ Len(w) = n
        /\ \A i \in 1..n : w[i] = IF i <= first THEN x[i] ELSE y[i - first]
    <3> HIDE DEF x, y
    <3>1. w \in Seq(Operands) /\ Len(w) = Len(x) + Len(y)
          /\ \A i \in 1..(Len(x) + Len(y)) : w[i] = IF i <= Len(x) THEN x[i] ELSE y[i - Len(x)]
      <4>1. x \in Seq(Operands) /\ y \in Seq(Operands)
        BY <2>2, <2>3
      <4>. QED  BY <4>1
    <3>2. Len(x) + Len(y) = n /\ Len(x) = first
      BY <1>2, <1>4, <2>2, <2>3
    <3>. QED  BY <3>1, <3>2
  <2> HIDE DEF w, x, y
  <2>5. ASSUME NEW i \in 1..n PROVE w[i] = es[r.head + i]
    <3>1. CASE i <= first
      BY <1>4, <1>6, <2>4, <3>1
    <3>2. CASE ~(i <= first)
      <4>1. i - first \in 1..(n - first) /\ r.head + first + (i - first) = r.head + i
        BY <1>2, <1>4, <3>2
      <4>. QED  BY <1>7, <2>4, <3>2, <4>1
    <3>. QED  BY <3>1, <3>2
  <2>6. w = z
    <3> HIDE DEF z
    <3>. QED  BY <1>8, <2>4, <2>5
  <2>. QED  BY <2>6 DEF w
<1>. QED  BY <1>8, <1>9, <1>10

(* Nothing is cut from what is short enough.                               *)
LEMMA PrefixType ==
  ASSUME NEW V, NEW s \in Seq(V), NEW n \in Nat
  PROVE  /\ Prefix(s, n) \in Seq(V) /\ Len(Prefix(s, n)) <= n
         /\ Len(s) <= n => Prefix(s, n) = s
<1> DEFINE m == IF Len(s) < n THEN Len(s) ELSE n
<1>1. m \in 0..Len(s) /\ m <= n /\ (Len(s) <= n => m = Len(s)) /\ Len(s) \in Nat
  OBVIOUS
<1> HIDE DEF m
<1>2. SubSeq(s, 1, m) \in Seq(V) /\ Len(SubSeq(s, 1, m)) = m
      /\ \A i \in 1..m : SubSeq(s, 1, m)[i] = s[i]
  BY <1>1
<1>3. Len(s) <= n => SubSeq(s, 1, m) = s
  BY <1>1, <1>2
<1>. QED  BY <1>1, <1>2, <1>3 DEF Prefix, m

LEMMA NewestType ==
  ASSUME NEW es \in Seq(Operands)
  PROVE  Newest(es) \in Seq(Operands)
<1> DEFINE from == IF Len(es) > RingLen THEN Len(es) - RingLen + 1 ELSE 1
<1>1. from \in 1..(Len(es) + 1) /\ Len(es) \in Nat
  BY BatchAssumption
<1> HIDE DEF from
<1>2. SubSeq(es, from, Len(es)) \in Seq(Operands)
  BY <1>1
<1>. QED  BY <1>2 DEF Newest, from

(* The hits of a window are operands, and no more than one may leave.      *)
LEMMA HitsType ==
  ASSUME NEW events \in Seq(Operands)
  PROVE  HitsOf(events) \in Seq(Operands) /\ Len(HitsOf(events)) <= MaxHits
<1> DEFINE p == Prefix(events, MaxHits)
           N == Len(p)
           st == [i \in 1..N |-> [x \in Seq(Operands) |-> IF p[i] = Switch THEN x ELSE Append(x, p[i])]]
           Body(f) == [n \in 0..N |-> IF n = 0 THEN <<>>
                                      ELSE IF p[n] = Switch THEN f[n - 1] ELSE Append(f[n - 1], p[n])]
           s == CHOOSE f : f = Body(f)
<1>1. p \in Seq(Operands) /\ N \in Nat /\ N <= MaxHits /\ <<>> \in Seq(Operands)
  BY PrefixType, BatchAssumption
<1>2. HitsOf(events) = s[N]
  BY DEF HitsOf
<1> HIDE DEF p
<1>3. st \in [1..N -> [Seq(Operands) -> Seq(Operands)]]
  <2>1. \A i \in 1..N : p[i] \in Operands
    BY <1>1
  <2>. QED  BY <2>1
<1>4. PICK g : Iterated(g, Seq(Operands), N, <<>>, st)
  <2> HIDE DEF st, N
  <2>. QED  BY <1>1, <1>3, Iterates
<1>5. g = Body(g)
  <2>0. g \in [0..N -> Seq(Operands)] /\ g[0] = <<>> /\ \A i \in 1..N : g[i] = st[i][g[i - 1]]
    <3> HIDE DEF N, st
    <3>. QED  BY <1>4 DEF Iterated
  <2>1. \A n \in 1..N : g[n] = IF p[n] = Switch THEN g[n - 1] ELSE Append(g[n - 1], p[n])
    <3> TAKE n \in 1..N
    <3>1. n - 1 \in 0..N /\ g[n - 1] \in Seq(Operands)
      <4> HIDE DEF N, st
      <4>. QED  BY <1>1, <2>0
    <3>2. g[n] = st[n][g[n - 1]]
      BY <2>0
    <3>. QED  BY <3>1, <3>2
  <2>2. g[0] = <<>> /\ DOMAIN g = 0..N /\ g = [n \in 0..N |-> g[n]]
    <3> HIDE DEF N
    <3>. QED  BY <2>0
  <2> HIDE DEF N
  <2>3. \A n \in 0..N : n # 0 => n \in 1..N
    BY <1>1
  <2>. QED  BY <2>1, <2>2, <2>3
<1>6. s = Body(s)
  BY <1>5
<1> HIDE DEF s, st
<1> DEFINE Short(n) == s[n] \in Seq(Operands) /\ Len(s[n]) <= n
<1>7. ASSUME ~ Short(N) PROVE FALSE
  <2> DEFINE T == {n \in 0..N : ~ Short(n)}
  <2>1. PICK k \in T : \A j \in T : k <= j
    <3>1. T \subseteq Nat /\ N \in T
      BY <1>1, <1>7
    <3> HIDE DEF T
    <3>. QED  BY <3>1, Smallest
  <2>2. k \in 0..N /\ ~ Short(k)
    BY <2>1
  <2>3. CASE k = 0
    BY <1>1, <1>6, <2>2, <2>3
  <2>4. CASE k # 0
    <3>1. k - 1 \in 0..N /\ k \in 1..N /\ ~(k <= k - 1)
      BY <1>1, <2>2, <2>4
    <3>2. Short(k - 1)
      <4> HIDE DEF Short
      <4>. QED  BY <2>1, <3>1
    <3>3. s[k] = IF p[k] = Switch THEN s[k - 1] ELSE Append(s[k - 1], p[k])
      <4> HIDE DEF N
      <4>. QED  BY <1>6, <2>2, <2>4
    <3>4. p[k] \in Operands
      BY <1>1, <3>1
    <3>. QED  BY <2>2, <3>1, <3>2, <3>3, <3>4
  <2>. QED  BY <2>3, <2>4
<1>8. Short(N)
  BY <1>7
<1> HIDE DEF N
<1>9. s[N] \in Seq(Operands) /\ Len(s[N]) <= N /\ Len(s[N]) \in Nat
  BY <1>8
<1>. QED  BY <1>1, <1>2, <1>9, BatchAssumption

-----------------------------------------------------------------------------
Signals == Levels \cup {Unseen}
Executions ==
  [candidate : [index : Nat, hits : Seq(Operands)], around : Around, pushed : Pushes,
   features : SUBSET Edges, signal : Signals, seen : SUBSET Edges]
Discoveries ==
  [index : Nat, features : SUBSET Edges, events : Seq(Operands), hits : Seq(Operands),
   signal : Signals]

(* What a record says is what its execution was.                           *)
Tells(d, e) ==
  /\ Mutated(d.index, d.hits) = e.candidate
  /\ d.features = e.features /\ d.signal = e.signal
  /\ d.events = Prefix(Newest(Compared(e.around, e.pushed)), MaxHits)

(* The footprint of a worker that takes orders is the window around the    *)
(* target, the ring and the hits are those of the last window, and each    *)
(* discovery tells of the execution with its index.                        *)
BatchTypes ==
  /\ ring \in Rings /\ hits \in Seq(Operands) /\ Len(hits) <= MaxHits
  /\ seen \in SUBSET Edges /\ ran \in Seq(Executions)
  /\ result = [found |-> result.found, bytes |-> result.bytes, truncated |-> result.truncated]
  /\ result.found \in Seq(Discoveries)

Calibrated ==
  /\ footprint \subseteq Skeleton \cup Once
  /\ doing \in {"calibrating", "refused"} \/ Skeleton \subseteq footprint

FoundTell ==
  \A i \in 1..Len(result.found) :
    /\ result.found[i].index \in 0..(Len(ran) - 1)
    /\ Tells(result.found[i], ran[result.found[i].index + 1])

BatchInv == BatchTypes /\ Calibrated /\ FoundTell

LEMMA PushesType == \A es \in Pushes : es \in Seq(Operands)
<1>1. Pushes \subseteq Seq(UNION {ToSet(es) : es \in Pushes})
  BY BatchAssumption
<1>2. UNION {ToSet(es) : es \in Pushes} \subseteq Operands
  BY DEF Operands
<1>3. \A U : U \subseteq Operands => Seq(U) \subseteq Seq(Operands)
  OBVIOUS
<1> DEFINE U == UNION {ToSet(es) : es \in Pushes}
<1> HIDE DEF U
<1>4. Pushes \subseteq Seq(U) /\ U \subseteq Operands
  BY <1>1, <1>2 DEF U
<1>. QED  BY <1>3, <1>4

LEMMA OwnPushesType == \A es \in OwnPushes : es \in Seq(Operands)
<1> DEFINE T == UNION {ToSet(es) : es \in Pushes}
           U == UNION {ToSet(es) : es \in OwnPushes}
<1>1. OwnPushes \subseteq Seq(U)
  BY AroundAssumption
<1>2. Operands = {Switch} \cup T \cup U
  BY DEF Operands
<1> HIDE DEF T, U
<1>3. U \subseteq Operands
  BY <1>2
<1>4. \A V : V \subseteq Operands => Seq(V) \subseteq Seq(Operands)
  OBVIOUS
<1>. QED  BY <1>1, <1>3, <1>4

LEMMA ComparedType ==
  ASSUME NEW own \in Around, NEW es \in Seq(Operands)
  PROVE  Compared(own, es) \in Seq(Operands)
<1>1. own.before \in OwnPushes /\ own.after \in OwnPushes
  BY AroundAssumption
<1>2. own.before \in Seq(Operands) /\ own.after \in Seq(Operands)
  BY <1>1, OwnPushesType
<1>. QED  BY <1>2 DEF Compared

(* What a window sees is what the target, and the window's own code, did   *)
(* in it.                                                                  *)
LEMMA WindowRings ==
  ASSUME BatchInv, NEW own \in Around, NEW es \in Seq(Operands), NEW feats
  PROVE  LET w == Window(own, es, feats) IN
         /\ w.ring \in Rings /\ w.events = Newest(Compared(own, es)) /\ w.events \in Seq(Operands)
<1> DEFINE cs == Compared(own, es)
           r  == Pushed(ResetRing(ring), cs)
<1>1. cs \in Seq(Operands) /\ ring \in Rings
  BY ComparedType DEF BatchInv, BatchTypes
<1> HIDE DEF cs
<1>2. Holds(r, cs, Len(cs))
  BY <1>1, PushedHolds
<1> HIDE DEF r
<1>3. r \in Rings /\ Snapshot(r) = Newest(cs) /\ Newest(cs) \in Seq(Operands)
  BY <1>1, <1>2, SnapshotIsNewest, NewestType DEF Holds
<1>. QED  BY <1>3 DEF Window, r, cs

LEMMA WindowSees ==
  ASSUME BatchInv, doing \notin {"calibrating", "refused"},
         NEW own \in Around, NEW es \in Pushes, NEW feats \in SUBSET Edges
  PROVE  LET w == Window(own, es, feats) IN
         /\ w.ring \in Rings /\ w.events = Newest(Compared(own, es)) /\ w.events \in Seq(Operands)
         /\ w.features = feats
<1>1. es \in Seq(Operands)
  BY PushesType
<1>2. (Cleared \cup Skeleton \cup feats) \ footprint = feats
  BY BatchAssumption DEF BatchInv, Calibrated, Cleared
<1>3. Window(own, es, feats).features = feats
  BY <1>2 DEF Window
<1>. QED  BY <1>1, <1>3, WindowRings

LEMMA BatchInitInv == BatchInit => BatchInv
<1> SUFFICES ASSUME BatchInit PROVE BatchInv
  OBVIOUS
<1>1. EmptyRing \in Rings
  BY BatchAssumption DEF EmptyRing, Rings, Operands
<1>2. BatchTypes
  BY <1>1, BatchAssumption DEF BatchInit, BatchTypes, NoResult
<1>3. Len(result.found) = 0
  BY DEF BatchInit, NoResult
<1>. QED  BY <1>2, <1>3 DEF BatchInit, BatchInv, Calibrated, FoundTell

LEMMA CalibrateKeeps ==
  ASSUME BatchInv, NEW own \in Around, NEW extra \in SUBSET Once, CalibrateWindow(own, extra)
  PROVE  BatchInv'
<1> DEFINE w == Window(own, <<>>, {})
<1>1. ring' = w.ring /\ hits' = HitsOf(w.events)
  BY DEF CalibrateWindow
<1>2. w.ring \in Rings /\ w.events \in Seq(Operands)
  <2>1. <<>> \in Seq(Operands)
    OBVIOUS
  <2>. QED  BY <2>1, WindowRings
<1> HIDE DEF w
<1>3. hits' \in Seq(Operands) /\ Len(hits') <= MaxHits
  BY <1>1, <1>2, HitsType
<1>4. seen' = seen /\ ran' = ran /\ result' = result
  BY DEF CalibrateWindow
<1>5. BatchTypes' /\ FoundTell'
  BY <1>1, <1>2, <1>3, <1>4 DEF BatchInv, BatchTypes, FoundTell
<1>6. Calibrated'
  BY DEF CalibrateWindow, BatchInv, Calibrated
<1>. QED  BY <1>5, <1>6 DEF BatchInv

LEMMA TakeKeeps ==
  ASSUME BatchInv, NEW p \in Parents, TakeBatch(p)
  PROVE  BatchInv'
<1>1. BatchTypes' /\ Len(result'.found) = 0
  BY DEF TakeBatch, BatchInv, BatchTypes, NoResult
<1>2. Calibrated'
  BY DEF TakeBatch, BatchInv, Calibrated, calibration
<1>. QED  BY <1>1, <1>2 DEF BatchInv, FoundTell

LEMMA RunKeeps ==
  ASSUME BatchInv, NEW own \in Around, NEW es \in Pushes, NEW feats \in SUBSET Edges,
         NEW child \in Signals, Run(own, es, feats, child)
  PROVE  BatchInv'
<1> DEFINE w == Window(own, es, feats)
           n == Len(ran)
           d == Discovery(n, w, child, Used(w))
           e == [candidate |-> Mutated(n, hits), around |-> own, pushed |-> es, features |-> feats,
                 signal |-> child, seen |-> seen]
<1>1. /\ doing = "batch" /\ ring' = w.ring /\ hits' = HitsOf(w.events)
      /\ seen' = seen \cup w.features /\ ran' = Append(ran, e)
      /\ result' \in {result, PushDiscovery(result, d)}
      /\ doing' = doing /\ footprint' = footprint
  BY DEF Run, calibration
<1>2. w.ring \in Rings /\ w.events = Newest(Compared(own, es)) /\ w.events \in Seq(Operands)
      /\ w.features = feats
  BY <1>1, WindowSees
<1> HIDE DEF w
<1>3. hits' \in Seq(Operands) /\ Len(hits') <= MaxHits
  BY <1>1, <1>2, HitsType
<1>4. Used(w) = hits /\ hits \in Seq(Operands)
  BY PrefixType, BatchAssumption DEF Used, BatchInv, BatchTypes
<1>5. Prefix(w.events, MaxHits) \in Seq(Operands)
  BY <1>2, PrefixType, BatchAssumption
<1>6. n \in Nat /\ e \in Executions /\ ran \in Seq(Executions)
  BY <1>4 DEF BatchInv, BatchTypes, Executions, Mutated
<1>7. d \in Discoveries /\ d.index = n /\ Tells(d, e)
  BY <1>2, <1>4, <1>5, <1>6 DEF Discovery, Discoveries, Tells
<1> HIDE DEF d, e
<1>8. ran' \in Seq(Executions) /\ Len(ran') = n + 1 /\ ran'[n + 1] = e
      /\ \A i \in 1..n : ran'[i] = ran[i]
  BY <1>1, <1>6
<1> DEFINE found == result.found
<1>9. /\ found \in Seq(Discoveries)
      /\ result = [found |-> found, bytes |-> result.bytes, truncated |-> result.truncated]
      /\ \A i \in 1..Len(found) : found[i].index \in 0..(n - 1) /\ Tells(found[i], ran[found[i].index + 1])
  BY DEF BatchInv, BatchTypes, FoundTell
<1>10. /\ result'.found \in {found, Append(found, d)}
       /\ result' = [found |-> result'.found, bytes |-> result'.bytes, truncated |-> result'.truncated]
  <2>1. PushDiscovery(result, d) \in
          {[found |-> found, bytes |-> result.bytes, truncated |-> TRUE],
           [found |-> Append(found, d), bytes |-> result.bytes + Estimate(d), truncated |-> result.truncated]}
    BY <1>9 DEF PushDiscovery
  <2>. QED  BY <1>1, <1>9, <2>1
<1>11. Append(found, d) \in Seq(Discoveries) /\ Len(Append(found, d)) = Len(found) + 1
       /\ Append(found, d)[Len(found) + 1] = d /\ \A i \in 1..Len(found) : Append(found, d)[i] = found[i]
  BY <1>7, <1>9
<1> HIDE DEF found
<1>12. BatchTypes'
  <2>1. seen' \in SUBSET Edges
    BY <1>1, <1>2 DEF BatchInv, BatchTypes
  <2>2. result'.found \in Seq(Discoveries)
    BY <1>9, <1>10, <1>11
  <2>. QED  BY <1>1, <1>2, <1>3, <1>8, <1>10, <2>1, <2>2 DEF BatchTypes
<1>13. \A i \in 1..Len(result'.found) :
         result'.found[i].index \in 0..n /\ Tells(result'.found[i], ran'[result'.found[i].index + 1])
  <2>1. \A i \in 1..Len(found) : found[i].index \in 0..n /\ Tells(found[i], ran'[found[i].index + 1])
    <3> TAKE i \in 1..Len(found)
    <3>1. found[i].index \in 0..(n - 1) /\ Tells(found[i], ran[found[i].index + 1])
      BY <1>9
    <3>2. found[i].index + 1 \in 1..n
      BY <1>6, <3>1
    <3>3. ran'[found[i].index + 1] = ran[found[i].index + 1]
      BY <1>8, <3>2
    <3>. QED  BY <1>6, <3>1, <3>3
  <2>2. CASE result'.found = found
    BY <2>1, <2>2
  <2>3. CASE result'.found = Append(found, d)
    <3> TAKE i \in 1..Len(result'.found)
    <3>1. CASE i = Len(found) + 1
      BY <1>6, <1>7, <1>8, <1>11, <2>3, <3>1
    <3>2. CASE i # Len(found) + 1
      <4>1. i \in 1..Len(found)
        BY <1>9, <1>11, <2>3, <3>2
      <4>. QED  BY <1>11, <2>1, <2>3, <4>1
    <3>. QED  BY <3>1, <3>2
  <2>. QED  BY <1>10, <2>2, <2>3
<1>14. Calibrated'
  BY <1>1 DEF BatchInv, Calibrated
<1>15. FoundTell'
  BY <1>6, <1>8, <1>13 DEF FoundTell
<1>. QED  BY <1>12, <1>14, <1>15 DEF BatchInv

LEMMA OverrideKeeps ==
  ASSUME BatchInv, NEW own \in Around, NEW es \in Pushes, NEW feats \in SUBSET Edges,
         RunOverride(own, es, feats)
  PROVE  BatchInv'
<1> DEFINE w == Window(own, es, feats)
<1>1. /\ doing \in {"idle", "told"} /\ ring' = w.ring /\ hits' = HitsOf(w.events)
      /\ doing' = doing /\ footprint' = footprint /\ seen' = seen /\ ran' = ran /\ result' = result
  BY DEF RunOverride, calibration
<1>2. w.ring \in Rings /\ w.events \in Seq(Operands)
  BY <1>1, WindowSees
<1> HIDE DEF w
<1>3. hits' \in Seq(Operands) /\ Len(hits') <= MaxHits
  BY <1>1, <1>2, HitsType
<1>4. BatchTypes'
  BY <1>1, <1>2, <1>3 DEF BatchInv, BatchTypes
<1>5. Calibrated' /\ FoundTell'
  BY <1>1 DEF BatchInv, Calibrated, FoundTell
<1>. QED  BY <1>4, <1>5 DEF BatchInv

LEMMA BatchNextInv == BatchInv /\ [BatchNext]_batch => BatchInv'
<1> SUFFICES ASSUME BatchInv, [BatchNext]_batch PROVE BatchInv'
  OBVIOUS
<1>1. ASSUME NEW own \in Around, NEW extra \in SUBSET Once, CalibrateWindow(own, extra)
      PROVE  BatchInv'
  BY <1>1, CalibrateKeeps
<1>2. ASSUME NEW p \in Parents, TakeBatch(p) PROVE BatchInv'
  BY <1>2, TakeKeeps
<1>3. ASSUME NEW own \in Around, NEW es \in Pushes, NEW feats \in SUBSET Edges,
             NEW child \in Levels \cup {Unseen}, Run(own, es, feats, child)
      PROVE  BatchInv'
  BY <1>3, RunKeeps DEF Signals
<1>4. ASSUME NEW own \in Around, NEW es \in Pushes, NEW feats \in SUBSET Edges,
             RunOverride(own, es, feats)
      PROVE  BatchInv'
  BY <1>4, OverrideKeeps
<1>5. CASE Tell
  <2>1. ring' = ring /\ hits' = hits /\ seen' = seen /\ ran' = ran /\ result' = result
        /\ footprint' = footprint /\ doing = "batch" /\ doing' = "told"
    BY <1>5 DEF Tell, calibration
  <2>2. BatchTypes'
    BY <2>1 DEF BatchInv, BatchTypes
  <2>. QED  BY <2>1, <2>2 DEF BatchInv, Calibrated, FoundTell
<1>6. CASE Retire \/ UNCHANGED batch
  <2>1. ring' = ring /\ hits' = hits /\ seen' = seen /\ ran' = ran /\ result' = result
        /\ footprint' = footprint /\ doing' = doing
    BY <1>6 DEF Retire, batch, calibration
  <2>2. BatchTypes'
    BY <2>1 DEF BatchInv, BatchTypes
  <2>. QED  BY <2>1, <2>2 DEF BatchInv, Calibrated, FoundTell
<1>. QED  BY <1>1, <1>2, <1>3, <1>4, <1>5, <1>6 DEF BatchNext

(* The invariant of a worker's batches.                                    *)
THEOREM BatchInvariant == BatchSpec => []BatchInv
BY BatchInitInv, BatchNextInv, PTL DEF BatchSpec

(* reconstruct_candidate: the order, the index and the hits of a record    *)
(* make the candidate that ran, however many hits the window before left.  *)
THEOREM CandidatesAreRebuilt == BatchSpec => []Reconstructs
<1>1. ASSUME BatchInv PROVE Reconstructs
  <2>1. ASSUME NEW i \in 1..Len(result.found)
        PROVE  Mutated(result.found[i].index, result.found[i].hits)
                 = ran[result.found[i].index + 1].candidate
    BY <1>1 DEF BatchInv, FoundTell, Tells
  <2>2. DOMAIN result.found = 1..Len(result.found)
    BY <1>1 DEF BatchInv, BatchTypes
  <2>. QED  BY <2>1, <2>2 DEF Reconstructs, Found, Was
<1>. QED  BY <1>1, BatchInvariant, PTL

(* A discovery tells what its own execution did, whatever ran before in    *)
(* the worker and whatever the window's own code compares around the       *)
(* target, for any ring, footprint and number of executions.               *)
THEOREM DiscoveriesAreTrue == BatchSpec => []ReportsItsOwn
<1>1. ASSUME BatchInv PROVE ReportsItsOwn
  <2>1. ASSUME NEW i \in 1..Len(result.found)
        PROVE  LET d == result.found[i]
                   e == ran[d.index + 1]
               IN  d.features = e.features /\ d.signal = e.signal
                   /\ d.events = Prefix(Newest(Compared(e.around, e.pushed)), MaxHits)
    BY <1>1 DEF BatchInv, FoundTell, Tells
  <2>2. DOMAIN result.found = 1..Len(result.found)
    BY <1>1 DEF BatchInv, BatchTypes
  <2>. QED  BY <2>1, <2>2 DEF ReportsItsOwn, Found, Was
<1>. QED  BY <1>1, BatchInvariant, PTL

-----------------------------------------------------------------------------
(* The numbers of the mutators.                                            *)
NatMin(a, b) == IF a <= b THEN a ELSE b

LEMMA MinOfTwo == ASSUME NEW a \in Int, NEW b \in Int PROVE Min({a, b}) = NatMin(a, b)
<1> DEFINE m == NatMin(a, b)
<1>1. m \in {a, b} /\ \A x \in {a, b} : m <= x
  BY DEF NatMin
<1>2. \A w \in {a, b} : (\A x \in {a, b} : w <= x) => w = m
  BY DEF NatMin
<1>. QED  BY <1>1, <1>2 DEF Min

LEMMA MaxOfTwo == ASSUME NEW a \in Int, NEW b \in Int PROVE Max({a, b}) = IF a >= b THEN a ELSE b
<1> DEFINE m == IF a >= b THEN a ELSE b
<1>1. m \in {a, b} /\ \A x \in {a, b} : m >= x
  OBVIOUS
<1>2. \A w \in {a, b} : (\A x \in {a, b} : w >= x) => w = m
  OBVIOUS
<1>. QED  BY <1>1, <1>2 DEF Max

(* The three of Splice.                                                    *)
LEMMA MinOfThree ==
  ASSUME NEW a \in Int, NEW b \in Int, NEW c \in Int
  PROVE  Min({a, b, c}) \in Int /\ Min({a, b, c}) <= a /\ Min({a, b, c}) <= b /\ Min({a, b, c}) <= c
<1>1. \E m \in {a, b, c} : \A x \in {a, b, c} : m <= x
  <2>1. CASE a <= b /\ a <= c
    BY <2>1
  <2>2. CASE b <= a /\ b <= c
    BY <2>2
  <2>3. CASE c <= a /\ c <= b
    BY <2>3
  <2>. QED  BY <2>1, <2>2, <2>3
<1>. QED  BY <1>1 DEF Min

(* Two functions that start alike and take the same steps are the same.    *)
SameStep(f, g, n) == f[0] = g[0] /\ \A i \in 1..n : f[i - 1] = g[i - 1] => f[i] = g[i]

LEMMA SameSteps ==
  ASSUME NEW n \in Nat, NEW f, NEW g, SameStep(f, g, n)
  PROVE  \A i \in 0..n : f[i] = g[i]
<1> DEFINE T == {i \in 0..n : f[i] # g[i]}
<1> SUFFICES ASSUME T # {} PROVE FALSE
  OBVIOUS
<1>1. PICK k \in T : \A j \in T : k <= j
  <2>1. T \subseteq Nat
    OBVIOUS
  <2> HIDE DEF T
  <2>. QED  BY <2>1, Smallest
<1>2. k \in 1..n /\ k - 1 \in 0..n
  BY <1>1 DEF SameStep
<1>3. f[k - 1] = g[k - 1]
  BY <1>1, <1>2
<1>. QED  BY <1>1, <1>2, <1>3 DEF SameStep

(* A power of two is twice the one before.                                 *)
IsPower(p, n) == p \in [0..n -> Nat \ {0}] /\ p[0] = 1 /\ \A i \in 1..n : p[i] = 2 * p[i - 1]

LEMMA PowerIs ==
  ASSUME NEW n \in Nat
  PROVE  \E p : IsPower(p, n) /\ Power(n) = p[n]
<1> DEFINE P == Nat \ {0}
           st == [i \in 1..n |-> [x \in P |-> 2 * x]]
           Body(f) == [i \in 0..n |-> IF i = 0 THEN 1 ELSE 2 * f[i - 1]]
           s == CHOOSE f : f = Body(f)
<1>1. PICK g : Iterated(g, P, n, 1, st)
  <2>1. st \in [1..n -> [P -> P]] /\ 1 \in P
    OBVIOUS
  <2> HIDE DEF st, P
  <2>. QED  BY <2>1, Iterates
<1>2. \A i \in 1..n : g[i] = 2 * g[i - 1]
  <2> TAKE i \in 1..n
  <2>1. g[i - 1] \in P /\ g[i] = st[i][g[i - 1]]
    BY <1>1 DEF Iterated
  <2>. QED  BY <2>1
<1>3. g = Body(g)
  BY <1>1, <1>2 DEF Iterated
<1>4. s = Body(s)
  BY <1>3
<1>5. Power(n) = s[n]
  BY DEF Power
<1> HIDE DEF s
<1>6. \A i \in 0..n : s[i] = g[i]
  <2>1. s[0] = g[0]
    BY <1>1, <1>4 DEF Iterated
  <2>2. \A i \in 1..n : s[i - 1] = g[i - 1] => s[i] = g[i]
    <3> TAKE i \in 1..n
    <3>1. i \in 0..n /\ i # 0
      BY <1>1
    <3>. QED  BY <1>4, <1>2, <3>1
  <2>3. SameStep(s, g, n)
    BY <2>1, <2>2 DEF SameStep
  <2>. QED  BY <2>3, SameSteps
<1>7. IsPower(g, n)
  BY <1>1, <1>2 DEF Iterated, IsPower
<1>. QED  BY <1>5, <1>6, <1>7

LEMMA PowersAgree ==
  ASSUME NEW n \in Nat, NEW m \in Nat, m <= n, NEW p, IsPower(p, n), NEW q, IsPower(q, m)
  PROVE  p[m] = q[m]
<1>1. p[0] = q[0] /\ \A i \in 1..m : p[i - 1] = q[i - 1] => p[i] = q[i]
  BY DEF IsPower
<1>. QED  BY <1>1, SameSteps DEF SameStep

LEMMA Powers ==
  /\ Power(0) = 1
  /\ \A n \in Nat : Power(n) \in Nat \ {0} /\ Power(n + 1) = 2 * Power(n)
<1>1. Power(0) = 1
  BY PowerIs DEF IsPower
<1>2. ASSUME NEW n \in Nat PROVE Power(n) \in Nat \ {0} /\ Power(n + 1) = 2 * Power(n)
  <2>1. PICK p : IsPower(p, n + 1) /\ Power(n + 1) = p[n + 1]
    BY PowerIs
  <2>2. PICK q : IsPower(q, n) /\ Power(n) = q[n]
    BY PowerIs
  <2>3. p[n] = q[n]
    BY <2>1, <2>2, PowersAgree
  <2>. QED  BY <2>1, <2>2, <2>3 DEF IsPower
<1>. QED  BY <1>1, <1>2

(* A higher power of two is a multiple of twice a lower one.               *)
LEMMA HigherPower ==
  ASSUME NEW b \in Nat, NEW n \in Nat, b < n
  PROVE  \E M \in Nat \ {0} : Power(n) = (2 * Power(b)) * M
<1> DEFINE T == {i \in (b + 1)..n : ~ \E M \in Nat \ {0} : Power(i) = (2 * Power(b)) * M}
<1> SUFFICES ASSUME T # {} PROVE FALSE
  OBVIOUS
<1>1. PICK k \in T : \A j \in T : k <= j
  <2>1. T \subseteq Nat
    OBVIOUS
  <2> HIDE DEF T
  <2>. QED  BY <2>1, Smallest
<1>2. k \in (b + 1)..n /\ ~ \E M \in Nat \ {0} : Power(k) = (2 * Power(b)) * M
  BY <1>1
<1>3. k # b + 1
  <2> SUFFICES ASSUME k = b + 1 PROVE FALSE
    OBVIOUS
  <2>1. Power(k) = (2 * Power(b)) * 1
    BY Powers
  <2>. QED  BY <1>2, <2>1
<1>4. k - 1 \in (b + 1)..n /\ k - 1 \in Nat /\ ~(k <= k - 1) /\ (k - 1) + 1 = k
  BY <1>2, <1>3
<1>5. PICK M \in Nat \ {0} : Power(k - 1) = (2 * Power(b)) * M
  BY <1>1, <1>4
<1>6. Power(k) = 2 * Power(k - 1)
  BY <1>4, Powers
<1>7. Power(b) \in Nat
  BY Powers
<1>8. Power(k) = (2 * Power(b)) * (2 * M) /\ 2 * M \in Nat \ {0}
  BY <1>5, <1>6, <1>7, Z3
<1>. QED  BY <1>2, <1>8

(* A bit of a byte that is flipped leaves a byte.                          *)
LEMMA Halves ==
  ASSUME NEW q \in Nat, NEW M \in Nat, q < 2 * M, q % 2 # 1
  PROVE  q + 2 <= 2 * M
OBVIOUS

LEMMA Division ==
  ASSUME NEW x \in Nat, NEW d \in Nat \ {0}
  PROVE  /\ x \div d \in Nat /\ d * (x \div d) <= x /\ x < d * ((x \div d) + 1)
         /\ x % d \in 0..(d - 1) /\ x = d * (x \div d) + (x % d)
BY Z3

LEMMA FlipInRange ==
  ASSUME NEW x \in Nat, NEW d \in Nat \ {0}, NEW M \in Nat \ {0}, x < (2 * d) * M
  PROVE  LET y == IF (x \div d) % 2 = 1 THEN x - d ELSE x + d
         IN  y \in Nat /\ y < (2 * d) * M
<1> DEFINE q == x \div d
<1>1. q \in Nat /\ d * q <= x /\ x < d * (q + 1)
  BY Division
<1> HIDE DEF q
<1>2. CASE q % 2 = 1
  <2>1. q >= 1
    BY <1>1, <1>2
  <2>2. d <= d * q
    BY <1>1, <2>1, Z3
  <2>3. x - d \in Nat /\ x - d < x
    BY <1>1, <2>2
  <2>4. (2 * d) * M \in Nat
    OBVIOUS
  <2>. QED  BY <1>2, <2>3, <2>4 DEF q
<1>3. CASE q % 2 # 1
  <2>1. d * q < d * (2 * M)
    <3>1. (2 * d) * M = d * (2 * M) /\ d * q \in Nat /\ d * (2 * M) \in Nat
      BY <1>1, Z3
    <3>. QED  BY <1>1, <3>1
  <2>2. q < 2 * M
    BY <1>1, <2>1, Z3
  <2>3. q + 2 <= 2 * M
    BY <1>1, <1>3, <2>2, Halves
  <2>4. d * (q + 2) <= d * (2 * M)
    BY <1>1, <2>3, Z3
  <2>5. x + d < d * (q + 2)
    BY <1>1, Z3
  <2>6. (2 * d) * M = d * (2 * M) /\ d * (q + 2) \in Nat /\ d * (2 * M) \in Nat
    BY <1>1, Z3
  <2>7. x + d \in Nat /\ x + d < (2 * d) * M
    BY <2>4, <2>5, <2>6
  <2>. QED  BY <1>3, <2>7 DEF q
<1>. QED  BY <1>2, <1>3

LEMMA ByteBound == Power(BitsPerByte) \in Nat \ {0} /\ \A x : x \in Byte <=> x \in Nat /\ x < Power(BitsPerByte)
<1>1. Power(BitsPerByte) \in Nat \ {0}
  BY Powers, MutationBounds
<1>. QED  BY <1>1 DEF Byte

LEMMA FlipBitType == ASSUME NEW x \in Byte, NEW bit \in Index(BitsPerByte) PROVE FlipBit(x, bit) \in Byte
<1>1. bit \in Nat /\ BitsPerByte \in Nat /\ bit < BitsPerByte
  BY MutationBounds DEF Index
<1>2. PICK M \in Nat \ {0} : Power(BitsPerByte) = (2 * Power(bit)) * M
  BY <1>1, HigherPower
<1>3. Power(bit) \in Nat \ {0} /\ x \in Nat /\ x < (2 * Power(bit)) * M
  BY <1>1, <1>2, Powers, ByteBound
<1>4. FlipBit(x, bit) \in Nat /\ FlipBit(x, bit) < (2 * Power(bit)) * M
  BY <1>3, FlipInRange DEF FlipBit
<1>. QED  BY <1>2, <1>4, ByteBound

-----------------------------------------------------------------------------
(* The outcomes of a mutator.                                              *)
Outs == [ok : {TRUE}, bytes : AnyInput, changed : BOOLEAN]
SoundFor(out, s) == out \in Outs /\ (out.changed \/ out.bytes = s)

LEMMA InputIsSeq ==
  \A s : s \in AnyInput <=> s \in Seq(Byte) /\ Len(s) <= MaxMutated
<1>1. MaxMutated \in Nat
  BY MutationBounds
<1>2. ASSUME NEW s \in AnyInput PROVE s \in Seq(Byte) /\ Len(s) <= MaxMutated
  <2>1. PICK n \in 0..MaxMutated : s \in [1..n -> Byte]
    BY DEF AnyInput
  <2>2. s \in Seq(Byte) /\ Len(s) = n
    BY <1>1, <2>1
  <2>. QED  BY <1>1, <2>2
<1>3. ASSUME NEW s \in Seq(Byte), Len(s) <= MaxMutated PROVE s \in AnyInput
  <2>1. Len(s) \in 0..MaxMutated /\ s \in [1..Len(s) -> Byte]
    BY <1>1, <1>3
  <2>. QED  BY <2>1 DEF AnyInput
<1>. QED  BY <1>2, <1>3

LEMMA OutSound ==
  ASSUME NEW s, NEW b \in AnyInput, NEW ch \in BOOLEAN, ch \/ b = s
  PROVE  SoundFor(Out(b, ch), s)
BY DEF SoundFor, Outs, Out

LEMMA UnchangedSound == ASSUME NEW s \in AnyInput PROVE SoundFor(Unchanged(s), s)
BY DEF SoundFor, Outs, Unchanged

(* Some bytes replaced.                                                    *)
LEMMA Replaced ==
  ASSUME NEW s \in AnyInput, NEW b, b \in [DOMAIN s -> Byte]
  PROVE  b \in AnyInput /\ Len(b) = Len(s)
BY DEF AnyInput

(* An overwrite inside the parent.                                         *)
LEMMA OverwriteSound ==
  ASSUME NEW s \in AnyInput, NEW new \in Seq(Byte), NEW p \in Nat, p + Len(new) <= Len(s),
         NEW ch \in BOOLEAN, ch \/ \A i \in 1..Len(new) : new[i] = s[p + i]
  PROVE  SoundFor(Overwrite(s, p, new, ch), s) /\ Splat(s, p, new) \in AnyInput
         /\ Len(Splat(s, p, new)) = Len(s)
<1> DEFINE b == Splat(s, p, new)
<1>1. s \in Seq(Byte) /\ DOMAIN s = 1..Len(s)
  BY InputIsSeq
<1>2. \A i \in DOMAIN s : i - 1 \in p..(p + Len(new) - 1) => i - p \in 1..Len(new)
  BY <1>1
<1>3. b \in [DOMAIN s -> Byte]
  BY <1>1, <1>2 DEF Splat
<1>4. b \in AnyInput /\ Len(b) = Len(s)
  BY <1>3, Replaced
<1>5. ch \/ b = s
  <2> SUFFICES ASSUME ~ ch PROVE b = s
    OBVIOUS
  <2>1. \A i \in DOMAIN s : b[i] = s[i]
    <3> TAKE i \in DOMAIN s
    <3>1. CASE i - 1 \in p..(p + Len(new) - 1)
      <4>1. i - p \in 1..Len(new) /\ p + (i - p) = i
        BY <1>1, <1>2, <3>1
      <4>. QED  BY <3>1, <4>1 DEF Splat
    <3>2. CASE ~(i - 1 \in p..(p + Len(new) - 1))
      BY <3>2 DEF Splat
    <3>. QED  BY <3>1, <3>2
  <2>. QED  BY <1>1, <1>3, <2>1
<1> HIDE DEF b
<1>6. Overwrite(s, p, new, ch) = Out(b, ch)
  BY DEF Overwrite, Inside, b
<1>7. SoundFor(Out(b, ch), s)
  BY <1>4, <1>5, OutSound
<1>. QED  BY <1>4, <1>6, <1>7 DEF b

(* Parts of a sequence, and what is put together of them.                  *)
LEMMA PartType ==
  ASSUME NEW s \in Seq(Byte), NEW m \in Int, NEW n \in Int, 1 <= m, n <= Len(s)
  PROVE  SubSeq(s, m, n) \in Seq(Byte) /\ Len(SubSeq(s, m, n)) = IF m <= n THEN n - m + 1 ELSE 0
OBVIOUS

LEMMA InsertSound ==
  ASSUME NEW s \in AnyInput, NEW new \in Seq(Byte), NEW p \in 0..Len(s)
  PROVE  SoundFor(InsertAfter(s, p, new), s)
<1> DEFINE a == SubSeq(s, 1, p)
           c == SubSeq(s, p + 1, Len(s))
           whole == (a \o new) \o c
           n == NatMin(Len(s) + Len(new), MaxMutated)
           b == SubSeq(whole, 1, n)
<1>1. s \in Seq(Byte) /\ Len(s) \in Nat /\ Len(s) <= MaxMutated /\ MaxMutated \in Nat /\ Len(new) \in Nat
  BY InputIsSeq, MutationBounds
<1>2. a \in Seq(Byte) /\ Len(a) = p /\ c \in Seq(Byte) /\ Len(c) = Len(s) - p
  BY <1>1, PartType
<1>3. InsertAfter(s, p, new) = Out(b, new # <<>>)
  BY <1>1, MinOfTwo DEF InsertAfter
<1> HIDE DEF a, c
<1>4. whole \in Seq(Byte) /\ Len(whole) = Len(s) + Len(new)
  <2>1. a \o new \in Seq(Byte) /\ Len(a \o new) = p + Len(new)
    <3>1. a \in Seq(Byte) /\ new \in Seq(Byte) /\ Len(a) = p
      BY <1>2
    <3> HIDE DEF whole
    <3>. QED  BY <3>1
  <2> HIDE DEF whole
  <2>2. (a \o new) \o c \in Seq(Byte) /\ Len((a \o new) \o c) = Len(a \o new) + Len(c)
    BY <1>2, <2>1
  <2>. QED  BY <1>1, <1>2, <2>1, <2>2 DEF whole
<1> HIDE DEF whole
<1>5. b \in Seq(Byte) /\ Len(b) = n /\ n <= MaxMutated
  BY <1>1, <1>4, PartType DEF NatMin
<1>6. b \in AnyInput
  BY <1>5, InputIsSeq
<1>7. ASSUME new = <<>> PROVE b = s
  <2>1. n = Len(s) /\ Len(new) = 0
    BY <1>1, <1>7 DEF NatMin
  <2>2. whole = s
    <3>1. a \o new = a
      BY <1>2, <1>7
    <3>2. a \o c = s
      <4>1. a \o c \in Seq(Byte) /\ Len(a \o c) = Len(s)
        BY <1>1, <1>2
      <4>2. \A i \in 1..Len(s) : (a \o c)[i] = s[i]
        <5> TAKE i \in 1..Len(s)
        <5>1. CASE i <= p
          <6>1. (a \o c)[i] = a[i]
            BY <1>1, <1>2, <5>1
          <6>2. a[i] = s[i]
            BY <1>1, <5>1 DEF a
          <6>. QED  BY <6>1, <6>2
        <5>2. CASE i > p
          <6>1. i - p \in 1..(Len(s) - p) /\ (p + 1) + (i - p) - 1 = i
            BY <1>1, <5>2
          <6>2. (a \o c)[i] = c[i - p]
            BY <1>1, <1>2, <5>2, <6>1
          <6>3. c[i - p] = s[i]
            BY <1>1, <6>1 DEF c
          <6>. QED  BY <6>2, <6>3
        <5>3. i <= p \/ i > p
          BY <1>1
        <5>. QED  BY <5>1, <5>2, <5>3
      <4> DEFINE d == a \o c
      <4>3. d \in Seq(Byte) /\ Len(d) = Len(s) /\ \A i \in 1..Len(s) : d[i] = s[i]
        BY <4>1, <4>2
      <4> HIDE DEF d
      <4>4. d \in [1..Len(s) -> Byte] /\ s \in [1..Len(s) -> Byte]
        BY <1>1, <4>3
      <4>5. d = s
        BY <4>3, <4>4
      <4>. QED  BY <4>5 DEF d
    <3>. QED  BY <3>1, <3>2 DEF whole
  <2>3. SubSeq(s, 1, Len(s)) = s
    BY <1>1
  <2>. QED  BY <2>1, <2>2, <2>3
<1> HIDE DEF b
<1>. QED  BY <1>3, <1>6, <1>7, OutSound

LEMMA DeleteSound ==
  ASSUME NEW s \in AnyInput, NEW p \in Nat, NEW k \in Nat, p + k <= Len(s)
  PROVE  SoundFor(DeleteAt(s, p, k), s)
<1> DEFINE a == SubSeq(s, 1, p)
           c == SubSeq(s, p + k + 1, Len(s))
           b == a \o c
<1>1. s \in Seq(Byte) /\ Len(s) \in Nat /\ Len(s) <= MaxMutated /\ MaxMutated \in Nat
  BY InputIsSeq, MutationBounds
<1>2. a \in Seq(Byte) /\ Len(a) = p /\ c \in Seq(Byte) /\ Len(c) = Len(s) - (p + k)
  BY <1>1, PartType
<1>3. DeleteAt(s, p, k) = Out(b, TRUE)
  BY DEF DeleteAt, Inside
<1> HIDE DEF a, c
<1>4. b \in Seq(Byte) /\ Len(b) <= MaxMutated
  BY <1>1, <1>2
<1>5. b \in AnyInput
  BY <1>4, InputIsSeq
<1> HIDE DEF b
<1>. QED  BY <1>3, <1>5, OutSound

(* Of a parent that is not empty.                                          *)
LEMMA Positions ==
  ASSUME NEW s \in AnyInput
  PROVE  /\ Len(s) \in Nat /\ DOMAIN s = 1..Len(s) /\ \A i \in DOMAIN s : s[i] \in Byte
         /\ \A p \in Index(Len(s)) : p \in Nat /\ p + 1 \in DOMAIN s
<1>1. s \in Seq(Byte)
  BY InputIsSeq
<1>. QED  BY <1>1 DEF Index

LEMMA ExceptSound ==
  ASSUME NEW s \in AnyInput, NEW i \in DOMAIN s, NEW x \in Byte
  PROVE  SoundFor(Out([s EXCEPT ![i] = x], TRUE), s)
<1> DEFINE b == [s EXCEPT ![i] = x]
<1>1. b \in [DOMAIN s -> Byte]
  BY Positions
<1>2. b \in AnyInput
  BY <1>1, Replaced
<1> HIDE DEF b
<1>. QED  BY <1>2, OutSound DEF b

AllSound(outs, s) == \A out \in outs : SoundFor(out, s)

OneBitFlip(s, p, bit) == Out([s EXCEPT ![p + 1] = FlipBit(s[p + 1], bit)], TRUE)
LEMMA BitFlipSound == ASSUME NEW s \in AnyInput PROVE AllSound(BitFlip(s), s)
<1> SUFFICES ASSUME NEW out \in BitFlip(s) PROVE SoundFor(out, s)
  BY DEF AllSound
<1>1. BitFlip(s) = {OneBitFlip(s, p, bit) : p \in Index(Len(s)), bit \in Index(BitsPerByte)}
  BY DEF BitFlip, OneBitFlip
<1>2. PICK p \in Index(Len(s)), bit \in Index(BitsPerByte) : out = OneBitFlip(s, p, bit)
  BY <1>1
<1>3. p + 1 \in DOMAIN s /\ FlipBit(s[p + 1], bit) \in Byte
  BY Positions, FlipBitType
<1>. QED  BY <1>2, <1>3, ExceptSound DEF OneBitFlip

OneByteFlip(s, p, x) == Out([s EXCEPT ![p + 1] = x], TRUE)
LEMMA ByteFlipSound == ASSUME NEW s \in AnyInput PROVE AllSound(ByteFlip(s), s)
<1> SUFFICES ASSUME NEW out \in ByteFlip(s) PROVE SoundFor(out, s)
  BY DEF AllSound
<1>1. ByteFlip(s) = {OneByteFlip(s, p, x) : p \in Index(Len(s)), x \in Byte}
  BY DEF ByteFlip, OneByteFlip
<1>2. PICK p \in Index(Len(s)), x \in Byte : out = OneByteFlip(s, p, x)
  BY <1>1
<1>. QED  BY <1>2, Positions, ExceptSound DEF OneByteFlip

LEMMA MultiByteFlipsSound == ASSUME NEW s \in AnyInput PROVE AllSound(MultiByteFlips(s), s)
<1> DEFINE flipped(P, bits) == [i \in DOMAIN s |-> IF i \in P THEN FlipBit(s[i], bits[i]) ELSE s[i]]
<1> SUFFICES ASSUME NEW out \in MultiByteFlips(s) PROVE SoundFor(out, s)
  BY DEF AllSound
<1>1. PICK P \in SUBSET DOMAIN s : \E bits \in [P -> Index(BitsPerByte)] : out = Out(flipped(P, bits), TRUE)
  BY DEF MultiByteFlips
<1>2. PICK bits \in [P -> Index(BitsPerByte)] : out = Out(flipped(P, bits), TRUE)
  BY <1>1
<1>3. \A i \in DOMAIN s : s[i] \in Byte /\ (i \in P => FlipBit(s[i], bits[i]) \in Byte)
  BY Positions, FlipBitType
<1>4. flipped(P, bits) \in [DOMAIN s -> Byte]
  BY <1>3
<1> HIDE DEF flipped
<1>. QED  BY <1>4, <1>2, Replaced, OutSound

LEMMA BytesAre == ASSUME NEW k \in Nat, NEW new \in AnyBytes(k) PROVE new \in Seq(Byte) /\ Len(new) = k
BY DEF AnyBytes

LEMMA FitIs ==
  ASSUME NEW s \in AnyInput, NEW k \in Nat
  PROVE  Fit(k, s) \in Nat /\ Fit(k, s) <= k
<1>1. RoomIn(s) \in Nat
  BY InputIsSeq, MutationBounds DEF RoomIn
<1>2. Fit(k, s) = NatMin(k, RoomIn(s))
  BY <1>1, MinOfTwo DEF Fit
<1>. QED  BY <1>1, <1>2 DEF NatMin

LEMMA ByteInsertSound == ASSUME NEW s \in AnyInput PROVE AllSound(ByteInsert(s), s)
<1> SUFFICES ASSUME NEW k \in 1..MaxRunLen, NEW p \in 0..Len(s), NEW new \in AnyBytes(Fit(k, s))
             PROVE  SoundFor(InsertAfter(s, p, new), s)
  BY DEF AllSound, ByteInsert
<1>1. Fit(k, s) \in Nat
  BY FitIs
<1>2. new \in Seq(Byte)
  BY <1>1, BytesAre
<1>. QED  BY <1>2, InsertSound

OneByteDelete(s, p, k) == DeleteAt(s, p, Min({k, Len(s) - p}))
LEMMA ByteDeleteSound == ASSUME NEW s \in AnyInput PROVE AllSound(ByteDelete(s), s)
<1> SUFFICES ASSUME NEW out \in ByteDelete(s) PROVE SoundFor(out, s)
  BY DEF AllSound
<1>1. ByteDelete(s) = {OneByteDelete(s, p, k) : p \in Index(Len(s)), k \in 1..MaxRunLen}
  BY DEF ByteDelete, OneByteDelete
<1>2. PICK p \in Index(Len(s)), k \in 1..MaxRunLen : out = OneByteDelete(s, p, k)
  BY <1>1
<1>3. p \in Nat /\ p + 1 <= Len(s) /\ Len(s) \in Nat
  BY Positions
<1>4. Min({k, Len(s) - p}) = NatMin(k, Len(s) - p)
  BY <1>3, MinOfTwo
<1>5. NatMin(k, Len(s) - p) \in Nat /\ p + NatMin(k, Len(s) - p) <= Len(s)
  BY <1>3 DEF NatMin
<1>. QED  BY <1>2, <1>3, <1>4, <1>5, DeleteSound DEF OneByteDelete

LEMMA PlaceIs ==
  ASSUME NEW n \in Nat, NEW k \in Nat \ {0}, k <= n, NEW p \in BlockAt(n, k)
  PROVE  p \in Nat /\ p + k <= n
<1>1. p \in 0..((IF n - k >= 1 THEN n - k ELSE 1) - 1)
  BY MaxOfTwo DEF BlockAt, Index
<1>. QED  BY <1>1

LEMMA BlockIs ==
  ASSUME NEW n \in Nat, NEW k \in Blocks(n), NEW p \in BlockAt(n, k)
  PROVE  k \in Nat /\ p \in Nat /\ p + k <= n
<1>1. MaxBlock \in Nat
  BY MutationBounds
<1>2. k \in 1..NatMin(MaxBlock, n)
  BY <1>1, MinOfTwo DEF Blocks
<1>3. k \in Nat /\ k <= n
  BY <1>1, <1>2 DEF NatMin
<1>. QED  BY <1>2, <1>3, PlaceIs

LEMMA SliceType ==
  ASSUME NEW s \in AnyInput, NEW p \in Nat, NEW k \in Nat, p + k <= Len(s)
  PROVE  SliceOf(s, p, k) \in Seq(Byte) /\ Len(SliceOf(s, p, k)) = k
<1>1. s \in Seq(Byte) /\ Len(s) \in Nat
  BY InputIsSeq
<1>. QED  BY <1>1, PartType DEF SliceOf

OneDuplicate(s, k, p, to) ==
  IF Inside(s, p, Fit(k, s)) THEN InsertAfter(s, to, SliceOf(s, p, Fit(k, s))) ELSE Panic

LEMMA BlockDuplicateSound == ASSUME NEW s \in AnyInput PROVE AllSound(BlockDuplicate(s), s)
<1> SUFFICES ASSUME NEW out \in BlockDuplicate(s) PROVE SoundFor(out, s)
  BY DEF AllSound
<1>1. BlockDuplicate(s) =
        UNION {{OneDuplicate(s, k, p, to) : p \in BlockAt(Len(s), k), to \in 0..Len(s)} : k \in Blocks(Len(s))}
  BY DEF BlockDuplicate, OneDuplicate
<1>2. PICK k \in Blocks(Len(s)) : \E p \in BlockAt(Len(s), k), to \in 0..Len(s) : out = OneDuplicate(s, k, p, to)
  BY <1>1
<1>3. PICK p \in BlockAt(Len(s), k), to \in 0..Len(s) : out = OneDuplicate(s, k, p, to)
  BY <1>2
<1>4. k \in Nat /\ p \in Nat /\ p + k <= Len(s) /\ Len(s) \in Nat
  BY Positions, BlockIs
<1>5. Fit(k, s) \in Nat /\ p + Fit(k, s) <= Len(s)
  BY <1>4, FitIs
<1>6. out = InsertAfter(s, to, SliceOf(s, p, Fit(k, s)))
  BY <1>3, <1>5 DEF OneDuplicate, Inside
<1>. QED  BY <1>4, <1>5, <1>6, SliceType, InsertSound

LEMMA BlockDeleteSound == ASSUME NEW s \in AnyInput PROVE AllSound(BlockDelete(s), s)
<1> SUFFICES ASSUME NEW out \in BlockDelete(s) PROVE SoundFor(out, s)
  BY DEF AllSound
<1>1. PICK k \in Blocks(Len(s)) : \E p \in BlockAt(Len(s), k) : out = DeleteAt(s, p, k)
  BY DEF BlockDelete
<1>2. PICK p \in BlockAt(Len(s), k) : out = DeleteAt(s, p, k)
  BY <1>1
<1>3. k \in Nat /\ p \in Nat /\ p + k <= Len(s)
  BY Positions, BlockIs
<1>. QED  BY <1>2, <1>3, DeleteSound

OneOverwrite(s, p, new) == Overwrite(s, p, new, TRUE)

LEMMA BlockOverwriteSound == ASSUME NEW s \in AnyInput PROVE AllSound(BlockOverwrite(s), s)
<1> SUFFICES ASSUME NEW out \in BlockOverwrite(s) PROVE SoundFor(out, s)
  BY DEF AllSound
<1>1. BlockOverwrite(s) =
        UNION {{OneOverwrite(s, p, new) : p \in BlockAt(Len(s), k), new \in AnyBytes(k)} : k \in Blocks(Len(s))}
  BY DEF BlockOverwrite, OneOverwrite
<1>2. PICK k \in Blocks(Len(s)) : \E p \in BlockAt(Len(s), k), new \in AnyBytes(k) : out = OneOverwrite(s, p, new)
  BY <1>1
<1>3. PICK p \in BlockAt(Len(s), k), new \in AnyBytes(k) : out = OneOverwrite(s, p, new)
  BY <1>2
<1>4. k \in Nat /\ p \in Nat /\ p + k <= Len(s)
  BY Positions, BlockIs
<1>5. new \in Seq(Byte) /\ Len(new) = k
  BY <1>4, BytesAre
<1>. QED  BY <1>3, <1>4, <1>5, OverwriteSound DEF OneOverwrite

-----------------------------------------------------------------------------
(* integer.rs: the bytes of a window's number are the window.              *)
Digits(x, b, B, q) == x = b + B * q

LEMMA Digit ==
  ASSUME NEW B \in Nat \ {0}, NEW b \in 0..(B - 1), NEW q \in Nat, NEW x, Digits(x, b, B, q)
  PROVE  x \div B = q /\ (x % B) = b /\ x \in Nat
<1> DEFINE y == x \div B
           r == x % B
<1>1. x = b + B * q
  BY DEF Digits
<1>2. x \in Nat
  <2>1. B * q \in Nat
    BY Z3
  <2>. QED  BY <1>1, <2>1
<1>3. y \in Nat /\ r \in 0..(B - 1) /\ x = B * y + r
  BY <1>2, Division
<1>4. B * q + b = B * y + r
  <2>1. B * q \in Nat
    BY Z3
  <2>. QED  BY <1>1, <1>3, <2>1
<1> HIDE DEF y, r
<1>5. y = q
  <2>1. CASE y < q
    <3>1. y + 1 <= q
      BY <1>3, <2>1
    <3>2. B * (y + 1) <= B * q
      BY <1>3, <3>1, Z3
    <3>3. B * (y + 1) = B * y + B /\ B * y \in Nat /\ B * q \in Nat
      BY <1>3, Z3
    <3>. QED  BY <1>3, <1>4, <3>2, <3>3
  <2>2. CASE q < y
    <3>1. q + 1 <= y
      BY <1>3, <2>2
    <3>2. B * (q + 1) <= B * y
      BY <1>3, <3>1, Z3
    <3>3. B * (q + 1) = B * q + B /\ B * y \in Nat /\ B * q \in Nat
      BY <1>3, Z3
    <3>. QED  BY <1>3, <1>4, <3>2, <3>3
  <2>. QED  BY <1>3, <2>1, <2>2
<1>6. r = b
  <2>1. B * q \in Nat
    BY Z3
  <2>. QED  BY <1>3, <1>4, <1>5, <2>1
<1>. QED  BY <1>2, <1>5, <1>6 DEF y, r

ReadsAs(g, s, p, w) ==
  g \in [0..w -> Nat] /\ g[0] = 0 /\ \A i \in 1..w : g[i] = s[p + w - i + 1] + Power(BitsPerByte) * g[i - 1]

LEMMA ReadIs ==
  ASSUME NEW s \in AnyInput, NEW p \in Nat, NEW w \in Nat, p + w <= Len(s)
  PROVE  \E g : ReadsAs(g, s, p, w) /\ ReadLe(s, p, w) = g[w]
<1> DEFINE B == Power(BitsPerByte)
           st == [i \in 1..w |-> [x \in Nat |-> s[p + w - i + 1] + B * x]]
           Body(f) == [i \in 0..w |-> IF i = 0 THEN 0 ELSE s[p + w - i + 1] + B * f[i - 1]]
           last == CHOOSE f : f = Body(f)
<1>1. B \in Nat /\ \A i \in 1..w : s[p + w - i + 1] \in Nat
  <2>1. \A i \in 1..w : p + w - i + 1 \in 1..Len(s)
    BY Positions
  <2>. QED  BY <2>1, Positions, ByteBound
<1> HIDE DEF B
<1>2. PICK g : Iterated(g, Nat, w, 0, st)
  <2>1. st \in [1..w -> [Nat -> Nat]]
    BY <1>1
  <2> HIDE DEF st
  <2>. QED  BY <2>1, Iterates
<1>3. \A i \in 1..w : g[i] = s[p + w - i + 1] + B * g[i - 1]
  <2> TAKE i \in 1..w
  <2>1. i \in 1..w
    OBVIOUS
  <2> HIDE DEF st
  <2>2. g[i - 1] \in Nat /\ g[i] = st[i][g[i - 1]]
    BY <1>2, <2>1 DEF Iterated
  <2>. QED  BY <2>2 DEF st
<1>4. g = Body(g)
  BY <1>2, <1>3 DEF Iterated
<1>5. last = Body(last)
  BY <1>4
<1>6. ReadLe(s, p, w) = last[w]
  BY DEF ReadLe, B
<1> HIDE DEF last
<1>7. \A i \in 0..w : last[i] = g[i]
  <2>1. last[0] = g[0]
    BY <1>2, <1>5 DEF Iterated
  <2>2. \A i \in 1..w : last[i - 1] = g[i - 1] => last[i] = g[i]
    <3> TAKE i \in 1..w
    <3>1. i \in 0..w /\ i # 0
      BY <1>2
    <3>. QED  BY <1>5, <1>3, <3>1
  <2>3. SameStep(last, g, w)
    BY <2>1, <2>2 DEF SameStep
  <2>. QED  BY <2>3, SameSteps
<1>8. ReadsAs(g, s, p, w)
  BY <1>2, <1>3 DEF Iterated, ReadsAs, B
<1>. QED  BY <1>6, <1>7, <1>8

LeavesAs(g, v, w) ==
  g \in [0..w -> Int] /\ g[0] = v /\ \A i \in 1..w : g[i] = g[i - 1] \div Power(BitsPerByte)

LEMMA LeIs ==
  ASSUME NEW v \in Int, NEW w \in Nat
  PROVE  \E g : LeavesAs(g, v, w) /\ Le(v, w) = [i \in 1..w |-> g[i - 1] % Power(BitsPerByte)]
<1> DEFINE B == Power(BitsPerByte)
           st == [i \in 1..w |-> [x \in Int |-> x \div B]]
           Body(f) == [i \in 0..w |-> IF i = 0 THEN v ELSE f[i - 1] \div B]
           over == CHOOSE f : f = Body(f)
<1>1. B \in Nat \ {0}
  BY ByteBound
<1> HIDE DEF B
<1>2. PICK g : Iterated(g, Int, w, v, st)
  <2>1. st \in [1..w -> [Int -> Int]]
    BY <1>1
  <2> HIDE DEF st
  <2>. QED  BY <2>1, Iterates
<1>3. \A i \in 1..w : g[i] = g[i - 1] \div B
  <2> TAKE i \in 1..w
  <2>1. g[i - 1] \in Int /\ g[i] = st[i][g[i - 1]]
    BY <1>2 DEF Iterated
  <2>. QED  BY <2>1
<1>4. g = Body(g)
  BY <1>2, <1>3 DEF Iterated
<1>5. over = Body(over)
  BY <1>4
<1>6. Le(v, w) = [i \in 1..w |-> over[i - 1] % B]
  BY DEF Le, B
<1> HIDE DEF over
<1>7. \A i \in 0..w : over[i] = g[i]
  <2>1. over[0] = g[0]
    BY <1>2, <1>5 DEF Iterated
  <2>2. \A i \in 1..w : over[i - 1] = g[i - 1] => over[i] = g[i]
    <3> TAKE i \in 1..w
    <3>1. i \in 0..w /\ i # 0
      BY <1>2
    <3>. QED  BY <1>5, <1>3, <3>1
  <2>3. SameStep(over, g, w)
    BY <2>1, <2>2 DEF SameStep
  <2>. QED  BY <2>3, SameSteps
<1>8. LeavesAs(g, v, w)
  BY <1>2, <1>3 DEF Iterated, LeavesAs, B
<1>9. \A i \in 1..w : i - 1 \in 0..w
  OBVIOUS
<1>10. Le(v, w) = [i \in 1..w |-> g[i - 1] % B]
  BY <1>6, <1>7, <1>9
<1>. QED  BY <1>8, <1>10 DEF B

LEMMA LeType ==
  ASSUME NEW v \in Int, NEW w \in Nat
  PROVE  Le(v, w) \in Seq(Byte) /\ Len(Le(v, w)) = w
<1> DEFINE B == Power(BitsPerByte)
<1>1. PICK g : LeavesAs(g, v, w) /\ Le(v, w) = [i \in 1..w |-> g[i - 1] % B]
  BY LeIs
<1>2. \A i \in 1..w : g[i - 1] \in Int
  BY <1>1 DEF LeavesAs
<1>3. B \in Nat \ {0} /\ \A x \in Int : x % B \in 0..(B - 1)
  BY ByteBound
<1>4. \A i \in 1..w : g[i - 1] % B \in Byte
  BY <1>2, <1>3, ByteBound
<1> HIDE DEF B
<1>. QED  BY <1>1, <1>4

LEMMA ReadBack ==
  ASSUME NEW s \in AnyInput, NEW p \in Nat, NEW w \in Nat, p + w <= Len(s)
  PROVE  ReadLe(s, p, w) \in Nat /\ \A i \in 1..w : Le(ReadLe(s, p, w), w)[i] = s[p + i]
<1> DEFINE B == Power(BitsPerByte)
           v == ReadLe(s, p, w)
<1>1. PICK g : ReadsAs(g, s, p, w) /\ v = g[w]
  BY ReadIs
<1>2. v \in Nat /\ v \in Int
  BY <1>1 DEF ReadsAs
<1> HIDE DEF v
<1>3. PICK h : LeavesAs(h, v, w) /\ Le(v, w) = [i \in 1..w |-> h[i - 1] % B]
  BY <1>2, LeIs
<1>4. B \in Nat \ {0}
  BY ByteBound
<1>5. \A i \in 1..w : s[p + i] \in 0..(B - 1)
  <2> TAKE i \in 1..w
  <2>1. p + i \in DOMAIN s
    BY Positions
  <2>2. s[p + i] \in Byte
    BY <2>1, Positions
  <2>. QED  BY <2>2, <1>4, ByteBound
<1>6. \A i \in 1..w : g[i] = s[p + (w - i + 1)] + B * g[i - 1] /\ g[i - 1] \in Nat
  <2> TAKE i \in 1..w
  <2>1. g[i] = s[p + w - i + 1] + B * g[i - 1] /\ g[i - 1] \in Nat
    BY <1>1 DEF ReadsAs
  <2>2. p + w - i + 1 = p + (w - i + 1)
    OBVIOUS
  <2>. QED  BY <2>1, <2>2
<1>7. \A i \in 1..w : h[i] = h[i - 1] \div B
  BY <1>3 DEF LeavesAs
<1>8. h[0] = v
  BY <1>3 DEF LeavesAs
<1> HIDE DEF B
<1>9. \A i \in 1..w : g[i] \div B = g[i - 1] /\ (g[i] % B) = s[p + (w - i + 1)]
  <2> TAKE i \in 1..w
  <2>1. w - i + 1 \in 1..w
    OBVIOUS
  <2> DEFINE b == s[p + (w - i + 1)]
             q == g[i - 1]
  <2>2. b \in 0..(B - 1)
    BY <1>5, <2>1
  <2>3. q \in Nat /\ g[i] = b + B * q
    BY <1>6
  <2>4. Digits(g[i], b, B, q)
    BY <2>3 DEF Digits
  <2> HIDE DEF b, q
  <2>5. g[i] \div B = q /\ (g[i] % B) = b
    BY <1>4, <2>2, <2>3, <2>4, Digit
  <2>. QED  BY <2>5 DEF b, q
<1>10. \A i \in 0..w : h[i] = g[w - i]
  <2> DEFINE T == {i \in 0..w : h[i] # g[w - i]}
  <2> SUFFICES ASSUME T # {} PROVE FALSE
    OBVIOUS
  <2>1. PICK k \in T : \A j \in T : k <= j
    <3>1. T \subseteq Nat
      OBVIOUS
    <3> HIDE DEF T
    <3>. QED  BY <3>1, Smallest
  <2>2. k \in 0..w /\ h[k] # g[w - k]
    BY <2>1
  <2>3. k # 0
    BY <1>1, <1>8, <2>2
  <2>4. k \in 1..w /\ k - 1 \in 0..w /\ h[k - 1] = g[w - (k - 1)]
    BY <2>1, <2>2, <2>3
  <2>5. w - (k - 1) \in 1..w /\ (w - (k - 1)) - 1 = w - k
    BY <2>4
  <2>6. g[w - (k - 1)] \div B = g[w - k]
    BY <1>9, <2>5
  <2>. QED  BY <1>7, <2>2, <2>4, <2>6
<1>11. \A i \in 1..w : Le(v, w)[i] = s[p + i]
  <2> TAKE i \in 1..w
  <2>1. i - 1 \in 0..w /\ w - (i - 1) \in 1..w /\ w - (w - (i - 1)) + 1 = i
    OBVIOUS
  <2>2. h[i - 1] = g[w - (i - 1)]
    BY <1>10, <2>1
  <2>3. Le(v, w)[i] = h[i - 1] % B
    BY <1>3 DEF B
  <2>. QED  BY <1>9, <2>1, <2>2, <2>3
<1>. QED  BY <1>2, <1>11 DEF v

-----------------------------------------------------------------------------
(* integer.rs: the widths have values of their own.                        *)
LEMMA TopHalf ==
  ASSUME NEW w \in WindowWidths
  PROVE  w \in Nat \ {0} /\ Top(w) \in Nat \ {0} /\ Half(w) \in Nat
<1>1. w \in Nat \ {0} /\ BitsPerByte \in Nat \ {0}
  BY MutationBounds
<1>2. BitsPerByte * w \in Nat \ {0}
  BY <1>1, Z3
<1>3. BitsPerByte * w - 1 \in Nat
  BY <1>2
<1>. QED  BY <1>1, <1>2, <1>3, Powers DEF Top, Half

OneReplaced(s, x, nv) ==
  Overwrite(s, x[1], Le(nv, x[2]), nv # ReadLe(s, x[1], x[2]))

LEMMA ReplacedSound ==
  ASSUME NEW s \in AnyInput, NEW x \in Windows(s), NEW nv \in Int
  PROVE  SoundFor(OneReplaced(s, x, nv), s)
<1> DEFINE p == x[1]
           w == x[2]
           ch == nv # ReadLe(s, p, w)
<1>1. p \in Nat /\ w \in WindowWidths /\ p + w <= Len(s)
  BY MutationBounds DEF Windows
<1>2. w \in Nat
  BY <1>1, TopHalf
<1> HIDE DEF p, w
<1>3. Le(nv, w) \in Seq(Byte) /\ Len(Le(nv, w)) = w
  BY <1>2, LeType
<1>4. \A i \in 1..w : Le(ReadLe(s, p, w), w)[i] = s[p + i]
  BY <1>1, <1>2, ReadBack
<1>5. ch \in BOOLEAN /\ (ch \/ \A i \in 1..Len(Le(nv, w)) : Le(nv, w)[i] = s[p + i])
  <2>1. CASE nv = ReadLe(s, p, w)
    BY <1>3, <1>4, <2>1
  <2>2. CASE nv # ReadLe(s, p, w)
    BY <2>2
  <2>. QED  BY <2>1, <2>2
<1> HIDE DEF ch
<1>6. SoundFor(Overwrite(s, p, Le(nv, w), ch), s)
  BY <1>1, <1>3, <1>5, OverwriteSound
<1>. QED  BY <1>6 DEF OneReplaced, p, w, ch

LEMMA IntegerAddSubSound == ASSUME NEW s \in AnyInput PROVE AllSound(IntegerAddSub(s), s)
<1> SUFFICES ASSUME NEW out \in IntegerAddSub(s) PROVE SoundFor(out, s)
  BY DEF AllSound
<1>1. PICK x \in Windows(s) : \E d \in (-MaxDelta)..(MaxDelta - 1) :
        out = OneReplaced(s, x, (ReadLe(s, x[1], x[2]) + d) % Top(x[2]))
  BY DEF IntegerAddSub, Replace, OneReplaced
<1>2. PICK d \in (-MaxDelta)..(MaxDelta - 1) : out = OneReplaced(s, x, (ReadLe(s, x[1], x[2]) + d) % Top(x[2]))
  BY <1>1
<1>3. x[1] \in Nat /\ x[2] \in WindowWidths /\ x[1] + x[2] <= Len(s)
  BY MutationBounds DEF Windows
<1>4. ReadLe(s, x[1], x[2]) \in Nat /\ Top(x[2]) \in Nat \ {0} /\ d \in Int
  BY <1>3, TopHalf, ReadBack
<1>5. (ReadLe(s, x[1], x[2]) + d) % Top(x[2]) \in Int
  BY <1>4
<1>. QED  BY <1>2, <1>5, ReplacedSound

LEMMA IntegerBoundarySound == ASSUME NEW s \in AnyInput PROVE AllSound(IntegerBoundary(s), s)
<1> SUFFICES ASSUME NEW out \in IntegerBoundary(s) PROVE SoundFor(out, s)
  BY DEF AllSound
<1>1. PICK x \in Windows(s) :
        \E nv \in {0, 1, (Top(x[2]) - 1) \div 2, Top(x[2]) - 2, Top(x[2]) - 1} : out = OneReplaced(s, x, nv)
  BY DEF IntegerBoundary, Replace, OneReplaced
<1>2. Top(x[2]) \in Nat
  BY TopHalf DEF Windows
<1>. QED  BY <1>1, <1>2, ReplacedSound

LEMMA InterestingType ==
  ASSUME NEW w \in WindowWidths
  PROVE  InterestingForWidth(w) \subseteq Int
<1> DEFINE near == UNION {{i, Top(w) - i, Half(w) + i, Half(w) - i} : i \in 1..Near}
           powers == UNION {{Power(BitsPerByte * i) + d : d \in -1..1} : i \in 1..(w - 1)}
<1>1. w \in Nat \ {0} /\ Top(w) \in Nat \ {0} /\ Half(w) \in Nat /\ BitsPerByte \in Nat /\ Near \in Nat
  BY TopHalf, MutationBounds
<1>2. near \subseteq Int
  BY <1>1
<1>3. powers \subseteq Int
  <2> SUFFICES ASSUME NEW i \in 1..(w - 1), NEW d \in -1..1 PROVE Power(BitsPerByte * i) + d \in Int
    OBVIOUS
  <2>1. BitsPerByte * i \in Nat
    BY <1>1
  <2>. QED  BY <2>1, Powers
<1> HIDE DEF near, powers
<1>4. \A x \in {0, 1, Top(w) - 1} \cup near \cup powers : x % Top(w) \in Int
  BY <1>1, <1>2, <1>3
<1>. QED  BY <1>4 DEF InterestingForWidth, near, powers

LEMMA InterestingIntegerSound == ASSUME NEW s \in AnyInput PROVE AllSound(InterestingInteger(s), s)
<1> SUFFICES ASSUME NEW out \in InterestingInteger(s) PROVE SoundFor(out, s)
  BY DEF AllSound
<1>1. PICK x \in Windows(s) : \E nv \in InterestingForWidth(x[2]) : out = OneReplaced(s, x, nv)
  BY DEF InterestingInteger, Replace, OneReplaced
<1>2. InterestingForWidth(x[2]) \subseteq Int
  BY InterestingType DEF Windows
<1>. QED  BY <1>1, <1>2, ReplacedSound

-----------------------------------------------------------------------------
(* splice.rs, dictionary.rs, cmp.rs, influence.rs                          *)
OneSplice(s, other, k, src, dst) ==
  IF Inside(other, src, k) THEN Overwrite(s, dst, SliceOf(other, src, k), TRUE) ELSE Panic

LEMMA SpliceSound ==
  ASSUME NEW s \in AnyInput, NEW other \in AnyInput
  PROVE  AllSound(Splice(s, other), s)
<1> SUFFICES ASSUME NEW out \in Splice(s, other) PROVE SoundFor(out, s)
  BY DEF AllSound
<1>1. Splice(s, other) =
        UNION {{OneSplice(s, other, k, src, dst) : src \in BlockAt(Len(other), k), dst \in BlockAt(Len(s), k)} :
                 k \in 1..MaxSplice(s, other)}
  BY DEF Splice, OneSplice
<1>2. PICK k \in 1..MaxSplice(s, other) :
        \E src \in BlockAt(Len(other), k), dst \in BlockAt(Len(s), k) : out = OneSplice(s, other, k, src, dst)
  BY <1>1
<1>3. PICK src \in BlockAt(Len(other), k), dst \in BlockAt(Len(s), k) : out = OneSplice(s, other, k, src, dst)
  BY <1>2
<1>4. Len(s) \in Nat /\ Len(other) \in Nat /\ MaxBlock \in Nat
  BY Positions, MutationBounds
<1>5. k \in Nat \ {0} /\ k <= Len(s) /\ k <= Len(other)
  <2> DEFINE m == Min({MaxBlock, Len(other), Len(s)})
  <2>1. m \in Int /\ m <= Len(other) /\ m <= Len(s)
    <3>1. MaxBlock \in Int /\ Len(other) \in Int /\ Len(s) \in Int
      BY <1>4
    <3>. QED  BY <3>1, MinOfThree
  <2>2. k \in 1..m
    BY DEF MaxSplice
  <2> HIDE DEF m
  <2>. QED  BY <1>4, <2>1, <2>2
<1>6. src \in Nat /\ src + k <= Len(other) /\ dst \in Nat /\ dst + k <= Len(s)
  BY <1>4, <1>5, PlaceIs
<1>7. SliceOf(other, src, k) \in Seq(Byte) /\ Len(SliceOf(other, src, k)) = k
  BY <1>5, <1>6, SliceType
<1>8. SoundFor(Overwrite(s, dst, SliceOf(other, src, k), TRUE), s)
  BY <1>6, <1>7, OverwriteSound
<1>. QED  BY <1>3, <1>6, <1>8 DEF OneSplice, Inside

LEMMA EntryPart ==
  ASSUME NEW e \in Seq(Byte), NEW k \in Nat, k <= Len(e)
  PROVE  SliceOf(e, 0, k) \in Seq(Byte) /\ Len(SliceOf(e, 0, k)) = k
<1>1. 0 + 1 = 1 /\ 0 + k = k /\ Len(e) \in Nat
  OBVIOUS
<1>2. SliceOf(e, 0, k) = SubSeq(e, 1, k)
  BY <1>1 DEF SliceOf
<1>3. SubSeq(e, 1, k) \in Seq(Byte) /\ Len(SubSeq(e, 1, k)) = k
  BY PartType
<1>. QED  BY <1>2, <1>3

LEMMA DictionaryInsertSound == ASSUME NEW s \in AnyInput PROVE AllSound(DictionaryInsert(s), s)
<1> SUFFICES ASSUME NEW e \in Entries, NEW p \in 0..Len(s)
             PROVE  SoundFor(InsertAfter(s, p, SliceOf(e, 0, Fit(Len(e), s))), s)
  BY DEF AllSound, DictionaryInsert
<1>1. e \in Seq(Byte) /\ Len(e) \in Nat
  BY MutationInputs
<1>2. Fit(Len(e), s) \in Nat /\ Fit(Len(e), s) <= Len(e)
  BY <1>1, FitIs
<1>3. SliceOf(e, 0, Fit(Len(e), s)) \in Seq(Byte)
  BY <1>1, <1>2, EntryPart
<1>. QED  BY <1>3, InsertSound

LEMMA DictionaryOverwriteSound == ASSUME NEW s \in AnyInput PROVE AllSound(DictionaryOverwrite(s), s)
<1> DEFINE k(e) == Min({Len(e), Len(s)})
<1> SUFFICES ASSUME NEW out \in DictionaryOverwrite(s) PROVE SoundFor(out, s)
  BY DEF AllSound
<1>1. PICK e \in Entries :
        out \in IF k(e) = 0 THEN {Unchanged(s)}
                ELSE {Overwrite(s, p, SliceOf(e, 0, k(e)), TRUE) : p \in BlockAt(Len(s), k(e))}
  BY DEF DictionaryOverwrite
<1>2. e \in Seq(Byte) /\ Len(e) \in Nat /\ Len(s) \in Nat
  BY MutationInputs, Positions
<1>3. k(e) = NatMin(Len(e), Len(s))
  BY <1>2, MinOfTwo
<1>4. k(e) \in Nat /\ k(e) <= Len(e) /\ k(e) <= Len(s)
  BY <1>2, <1>3 DEF NatMin
<1> HIDE DEF k
<1>5. CASE k(e) = 0
  BY <1>1, <1>5, UnchangedSound
<1>6. CASE k(e) # 0
  <2>1. PICK p \in BlockAt(Len(s), k(e)) : out = Overwrite(s, p, SliceOf(e, 0, k(e)), TRUE)
    BY <1>1, <1>6
  <2>2. p \in Nat /\ p + k(e) <= Len(s)
    BY <1>2, <1>4, <1>6, PlaceIs
  <2>3. SliceOf(e, 0, k(e)) \in Seq(Byte) /\ Len(SliceOf(e, 0, k(e))) = k(e)
    BY <1>2, <1>4, EntryPart
  <2>. QED  BY <2>1, <2>2, <2>3, OverwriteSound
<1>. QED  BY <1>5, <1>6

(* What substitution has done so far.                                      *)
Substituted(s) == {r \in [bytes : AnyInput, done : Nat] : r.done = 0 => r.bytes = s}

LEMMA SubstituteOneSound ==
  ASSUME NEW s \in AnyInput, NEW r \in Substituted(s), NEW h \in [w : WindowWidths, v : Nat]
  PROVE  SubstituteOne(r, h) \subseteq Substituted(s)
<1> DEFINE P == Places(r.bytes, h)
           to(nv) == [bytes |-> Splat(r.bytes, Min(P), Le(nv, h.w)), done |-> r.done + 1]
<1>1. r.bytes \in AnyInput /\ r.done \in Nat /\ h.w \in WindowWidths /\ h.v \in Nat
  BY DEF Substituted
<1>2. ASSUME P # {}, NEW nv \in InterestingForWidth(h.w) PROVE to(nv) \in Substituted(s)
  <2>1. nv \in Int /\ h.w \in Nat
    BY <1>1, TopHalf, InterestingType
  <2>2. PICK k \in P : \A j \in P : k <= j
    <3>1. P \subseteq Nat
      BY DEF Places
    <3> HIDE DEF P
    <3>. QED  BY <1>2, <3>1, Smallest
  <2>3. Min(P) \in P
    BY <2>2 DEF Min
  <2>4. Min(P) \in Nat /\ Min(P) + h.w <= Len(r.bytes)
    <3>1. Len(r.bytes) \in Nat
      BY <1>1, Positions
    <3>2. Min(P) \in 0..(Len(r.bytes) - h.w)
      BY <2>3 DEF Places
    <3> HIDE DEF P
    <3>. QED  BY <2>1, <3>1, <3>2
  <2> HIDE DEF P
  <2>5. Le(nv, h.w) \in Seq(Byte) /\ Len(Le(nv, h.w)) = h.w
    BY <2>1, LeType
  <2>6. Splat(r.bytes, Min(P), Le(nv, h.w)) \in AnyInput
    BY <1>1, <2>4, <2>5, OverwriteSound
  <2>7. r.done + 1 \in Nat /\ r.done + 1 # 0
    BY <1>1
  <2>. QED  BY <2>6, <2>7 DEF Substituted
<1>3. \A x \in SubstituteOne(r, h) : x = r \/ (P # {} /\ \E nv \in InterestingForWidth(h.w) : x = to(nv))
  BY DEF SubstituteOne
<1> HIDE DEF P, to
<1>. QED  BY <1>2, <1>3

LEMMA SubstituteSound ==
  ASSUME NEW s \in AnyInput, NEW chosen \in Seq([w : WindowWidths, v : Nat])
  PROVE  AllSound(Substitute(s, chosen), s)
<1> DEFINE S == SUBSET Substituted(s)
           n == Len(chosen)
           first == {[bytes |-> s, done |-> 0]}
           Step(X, h) == UNION {SubstituteOne(r, h) : r \in X}
           Body(f) == [i \in 0..n |-> IF i = 0 THEN first ELSE Step(f[i - 1], chosen[i])]
           after == CHOOSE f : f = Body(f)
           st == [i \in 1..n |-> [X \in S |-> Step(X, chosen[i])]]
<1>1. n \in Nat /\ first \in S
  BY DEF Substituted
<1>2. \A i \in 1..n : \A X \in S : Step(X, chosen[i]) \in S
  <2> SUFFICES ASSUME NEW i \in 1..n, NEW X \in S, NEW r \in X PROVE SubstituteOne(r, chosen[i]) \subseteq Substituted(s)
    OBVIOUS
  <2>1. chosen[i] \in [w : WindowWidths, v : Nat]
    <3> DEFINE H == [w : WindowWidths, v : Nat]
    <3>1. chosen \in Seq(H) /\ i \in 1..Len(chosen)
      OBVIOUS
    <3> HIDE DEF H
    <3>2. chosen[i] \in H
      BY <3>1
    <3>. QED  BY <3>2 DEF H
  <2>2. r \in Substituted(s)
    OBVIOUS
  <2>. QED  BY <2>1, <2>2, SubstituteOneSound
<1> HIDE DEF S, Step, first, n
<1>3. PICK g : Iterated(g, S, n, first, st)
  <2>1. st \in [1..n -> [S -> S]]
    BY <1>2
  <2> HIDE DEF st
  <2>. QED  BY <1>1, <2>1, Iterates
<1>4. \A i \in 1..n : g[i] = Step(g[i - 1], chosen[i])
  <2> TAKE i \in 1..n
  <2>1. i \in 1..n
    OBVIOUS
  <2> HIDE DEF st
  <2>2. g[i - 1] \in S /\ g[i] = st[i][g[i - 1]]
    BY <1>1, <1>3, <2>1 DEF Iterated
  <2>. QED  BY <2>2 DEF st
<1>5. g = Body(g)
  BY <1>3, <1>4 DEF Iterated
<1>6. after = Body(after)
  BY <1>5
<1>7. Substitute(s, chosen) = {Out(r.bytes, r.done > 0) : r \in after[n]}
  BY DEF Substitute, Step, first, n
<1> HIDE DEF after
<1>8. \A i \in 0..n : after[i] = g[i]
  <2>1. after[0] = g[0]
    BY <1>3, <1>6, <1>1 DEF Iterated
  <2>2. \A i \in 1..n : after[i - 1] = g[i - 1] => after[i] = g[i]
    <3> TAKE i \in 1..n
    <3>1. i \in 0..n /\ i # 0
      BY <1>3, <1>1
    <3>. QED  BY <1>6, <1>4, <3>1
  <2>3. SameStep(after, g, n)
    BY <2>1, <2>2 DEF SameStep
  <2>. QED  BY <1>1, <2>3, SameSteps
<1>9. after[n] \in S
  BY <1>1, <1>3, <1>8 DEF Iterated
<1>10. \A r \in Substituted(s) : SoundFor(Out(r.bytes, r.done > 0), s)
  <2> TAKE r \in Substituted(s)
  <2>1. r.bytes \in AnyInput /\ r.done \in Nat /\ (r.done = 0 => r.bytes = s)
    BY DEF Substituted
  <2>2. (r.done > 0) \in BOOLEAN /\ (r.done > 0 \/ r.bytes = s)
    BY <2>1
  <2>. QED  BY <2>1, <2>2, OutSound
<1>. QED  BY <1>7, <1>9, <1>10 DEF AllSound, S

OneByteOf(s, i, x) == Out([s EXCEPT ![i] = x], TRUE)
LEMMA RegionSound == ASSUME NEW s \in AnyInput, NEW mask PROVE AllSound(Region(s, mask), s)
<1> SUFFICES ASSUME NEW out \in Region(s, mask) PROVE SoundFor(out, s)
  BY DEF AllSound
<1>1. Region(s, mask) = {OneByteOf(s, i, x) : i \in MutableIndices(s, mask), x \in Byte}
  BY DEF Region, OneByteOf
<1>2. PICK i \in MutableIndices(s, mask), x \in Byte : out = OneByteOf(s, i, x)
  BY <1>1
<1>3. i \in DOMAIN s
  BY DEF MutableIndices
<1>. QED  BY <1>2, <1>3, ExceptSound DEF OneByteOf

-----------------------------------------------------------------------------
(* The parents are inputs, and the last mutant is one.                     *)
MutationInv ==
  /\ original \in AnyInput /\ partner \in AnyInput
  /\ mutant.out \in Outs
  /\ mutant = Unmutated \/ mutant.out.changed \/ mutant.out.bytes = original

LEMMA DrawnSound ==
  ASSUME original \in AnyInput, partner \in AnyInput, NEW op \in Unmasked,
         NEW chosen \in Seq([w : WindowWidths, v : Nat])
  PROVE  AllSound(Drawn(op, original, chosen), original)
<1>1. CASE op = "BitFlip"
  BY <1>1, BitFlipSound DEF Drawn
<1>2. CASE op = "ByteFlip"
  BY <1>2, ByteFlipSound DEF Drawn
<1>3. CASE op = "MultiByteFlips"
  BY <1>3, MultiByteFlipsSound DEF Drawn
<1>4. CASE op = "IntegerAddSub"
  BY <1>4, IntegerAddSubSound DEF Drawn
<1>5. CASE op = "IntegerBoundary"
  BY <1>5, IntegerBoundarySound DEF Drawn
<1>6. CASE op = "InterestingInteger"
  BY <1>6, InterestingIntegerSound DEF Drawn
<1>7. CASE op = "ByteInsert"
  BY <1>7, ByteInsertSound DEF Drawn
<1>8. CASE op = "ByteDelete"
  BY <1>8, ByteDeleteSound DEF Drawn
<1>9. CASE op = "BlockDuplicate"
  BY <1>9, BlockDuplicateSound DEF Drawn
<1>10. CASE op = "BlockDelete"
  BY <1>10, BlockDeleteSound DEF Drawn
<1>11. CASE op = "BlockOverwrite"
  BY <1>11, BlockOverwriteSound DEF Drawn
<1>12. CASE op = "Splice"
  BY <1>12, SpliceSound DEF Drawn
<1>13. CASE op = "DictionaryInsert"
  BY <1>13, DictionaryInsertSound DEF Drawn
<1>14. CASE op = "DictionaryOverwrite"
  BY <1>14, DictionaryOverwriteSound DEF Drawn
<1>15. CASE op = "CompareOperandSubstitution"
  BY <1>15, SubstituteSound DEF Drawn
<1>. QED
  BY <1>1, <1>2, <1>3, <1>4, <1>5, <1>6, <1>7, <1>8, <1>9, <1>10, <1>11, <1>12, <1>13, <1>14, <1>15
  DEF Unmasked

LEMMA OrNoopSound ==
  ASSUME NEW s \in AnyInput, NEW outs, AllSound(outs, s)
  PROVE  AllSound(OrNoop(outs, s), s)
BY UnchangedSound DEF AllSound, OrNoop

LEMMA NoInput == <<>> \in AnyInput /\ Unmutated.out \in Outs
<1>1. <<>> \in Seq(Byte) /\ Len(<<>>) <= MaxMutated
  BY MutationBounds
<1>2. <<>> \in AnyInput
  BY <1>1, InputIsSeq
<1>. QED  BY <1>2, UnchangedSound DEF Unmutated, SoundFor

LEMMA MutationStep == MutationInv /\ [MutationNext]_mutationVars => MutationInv'
<1> SUFFICES ASSUME MutationInv, [MutationNext]_mutationVars PROVE MutationInv'
  OBVIOUS
<1>. USE DEF MutationInv
<1>1. CASE NewOrder
  BY <1>1 DEF NewOrder
<1>2. ASSUME NEW op \in Unmasked, Apply(op) PROVE MutationInv'
  <2>1. PICK chosen \in (IF op = "CompareOperandSubstitution" THEN HitLists ELSE {<<>>}) :
          \E out \in OrNoop(Drawn(op, original, chosen), original) : mutant' = [op |-> op, out |-> out]
    BY <1>2 DEF Apply
  <2>2. chosen \in Seq([w : WindowWidths, v : Nat])
    <3> DEFINE H == [w : WindowWidths, v : Nat]
    <3>1. HitLists \subseteq Seq(H)
      BY MutationInputs
    <3> HIDE DEF H
    <3>2. <<>> \in Seq(H)
      OBVIOUS
    <3>3. chosen \in Seq(H)
      <4>1. chosen \in HitLists \/ chosen = <<>>
        BY <2>1
      <4>. QED  BY <3>1, <3>2, <4>1
    <3>. QED  BY <3>3 DEF H
  <2>3. AllSound(OrNoop(Drawn(op, original, chosen), original), original)
    BY <2>2, DrawnSound, OrNoopSound
  <2>4. PICK out : SoundFor(out, original) /\ mutant' = [op |-> op, out |-> out]
    BY <2>1, <2>3 DEF AllSound
  <2>. QED  BY <1>2, <2>4 DEF Apply, SoundFor
<1>3. CASE InfluenceRegionMutation
  <2>1. PICK mask \in SUBSET DOMAIN original :
          \E out \in OrNoop(Region(original, mask), original) :
            mutant' = [op |-> "InfluenceRegionMutation", out |-> out]
    BY <1>3 DEF InfluenceRegionMutation
  <2>2. AllSound(OrNoop(Region(original, mask), original), original)
    BY RegionSound, OrNoopSound
  <2>3. PICK out : SoundFor(out, original) /\ mutant' = [op |-> "InfluenceRegionMutation", out |-> out]
    BY <2>1, <2>2 DEF AllSound
  <2>. QED  BY <1>3, <2>3 DEF InfluenceRegionMutation, SoundFor
<1>4. CASE Descend
  <2>1. Candidate \in AnyInput
    BY DEF Candidate, Outs
  <2>. QED  BY <1>4, <2>1, NoInput DEF Descend
<1>5. CASE UNCHANGED mutationVars
  BY <1>5 DEF mutationVars
<1>. QED  BY <1>1, <1>2, <1>3, <1>4, <1>5 DEF MutationNext

(* Whatever parent, partner, dictionary, compare hits and draws: no slice  *)
(* of a mutator is out of bounds (splice.rs:31, cmp.rs:36-41), a mutant    *)
(* fits in an order (bytes.rs:19, clamp_len), and one said to be unchanged *)
(* is its parent (mod.rs:248, MutationOutput::changed).                    *)
THEOREM MutantsAreSound == MutationSpec => []MutantsSound
<1>1. MutationInit => MutationInv
  BY NoInput DEF MutationInit, MutationInv
<1>2. MutationInv => MutantsSound
  <2> SUFFICES ASSUME MutationInv PROVE MutantsSound
    OBVIOUS
  <2>1. mutant.out.ok /\ mutant.out.bytes \in AnyInput
    BY DEF MutationInv, Outs
  <2>. QED  BY <2>1, InputIsSeq DEF MutationInv, MutantsSound
<1>. QED  BY <1>1, <1>2, MutationStep, PTL DEF MutationSpec

-----------------------------------------------------------------------------
(* The kernels: whole chunks and a tail.                                   *)
LEMMA Chunking ==
  ASSUME NEW n \in Nat
  PROVE  /\ n \div Width \in Nat /\ TailStart(n) \in 0..n /\ n - TailStart(n) < Width
         /\ StartOf(1) = 0 /\ StartOf((n \div Width) + 1) = TailStart(n)
         /\ \A c \in Chunks(n) : /\ c \in Nat /\ StartOf(c) \in Nat
                                 /\ StartOf(c) + Width = StartOf(c + 1)
                                 /\ StartOf(c + 1) <= TailStart(n)
<1> DEFINE C == n \div Width
           m == n % Width
<1>1. Width \in Nat \ {0}
  BY WidthAssumption
<1>2. C \in Nat /\ m \in 0..(Width - 1) /\ n = Width * C + m
  BY <1>1, Division
<1> HIDE DEF C, m
<1>3. Width * C \in Nat /\ C * Width = Width * C
  BY <1>1, <1>2
<1>4. TailStart(n) = Width * C
  BY <1>2, <1>3 DEF TailStart, m
<1>5. StartOf(1) = 0 /\ StartOf(C + 1) = TailStart(n)
  <2>1. (1 - 1) * Width = 0 /\ ((C + 1) - 1) * Width = C * Width
    BY <1>1, <1>2
  <2>. QED  BY <1>3, <1>4, <2>1 DEF StartOf
<1>6. ASSUME NEW c \in 1..C
      PROVE  /\ c \in Nat /\ StartOf(c) \in Nat
             /\ StartOf(c) + Width = StartOf(c + 1)
             /\ StartOf(c + 1) <= TailStart(n)
  <2>1. c \in Nat /\ c - 1 \in Nat /\ (c + 1) - 1 = c /\ c <= C
    BY <1>2
  <2>2. (c - 1) * Width \in Nat /\ (c - 1) * Width + Width = c * Width
    BY <1>1, <2>1, Z3
  <2>3. c * Width <= C * Width
    BY <1>1, <1>2, <2>1, Z3
  <2>. QED  BY <1>3, <1>4, <2>1, <2>2, <2>3 DEF StartOf
<1>7. TailStart(n) \in 0..n /\ n - TailStart(n) < Width
  BY <1>1, <1>2, <1>3, <1>4
<1>8. Chunks(n) = 1..C
  BY DEF Chunks, C
<1>9. n \div Width = C
  BY DEF C
<1>. QED  BY <1>2, <1>5, <1>6, <1>7, <1>8, <1>9

LEMMA SameSeq ==
  ASSUME NEW X, NEW n \in Nat, NEW u \in Seq(X), Len(u) = n, NEW v \in Seq(X), Len(v) = n,
         \A k \in 1..n : u[k] = v[k]
  PROVE  u = v
<1>1. u \in [1..n -> X] /\ v \in [1..n -> X]
  OBVIOUS
<1>. QED  BY <1>1

(* Two parts that meet are one.                                            *)
LEMMA Cut ==
  ASSUME NEW X, NEW s \in Seq(X), NEW i \in 0..Len(s), NEW j \in i..Len(s)
  PROVE  SubSeq(s, 1, j) = SubSeq(s, 1, i) \o SubSeq(s, i + 1, j)
<1> DEFINE a == SubSeq(s, 1, i)
           b == SubSeq(s, i + 1, j)
           e == SubSeq(s, 1, j)
<1>1. Len(s) \in Nat /\ i \in Nat /\ j \in Nat
  OBVIOUS
<1>2. a \in Seq(X) /\ Len(a) = i /\ \A k \in 1..i : a[k] = s[k]
  BY <1>1
<1>3. b \in Seq(X) /\ Len(b) = j - i /\ \A k \in 1..(j - i) : b[k] = s[i + k]
  BY <1>1
<1>4. e \in Seq(X) /\ Len(e) = j /\ \A k \in 1..j : e[k] = s[k]
  BY <1>1
<1> HIDE DEF a, b, e
<1> DEFINE u == a \o b
<1>5. u \in Seq(X) /\ Len(u) = j
  BY <1>1, <1>2, <1>3
<1>6. \A k \in 1..j : u[k] = s[k]
  <2> TAKE k \in 1..j
  <2>1. CASE k <= i
    BY <1>1, <1>2, <1>3, <2>1
  <2>2. CASE k > i
    <3>1. k - i \in 1..(j - i) /\ i + (k - i) = k
      BY <1>1, <2>2
    <3>2. u[k] = b[k - i]
      BY <1>1, <1>2, <1>3, <2>2
    <3>. QED  BY <1>3, <3>1, <3>2
  <2>3. k <= i \/ k > i
    BY <1>1
  <2>. QED  BY <2>1, <2>2, <2>3
<1> HIDE DEF u
<1>7. u \in [1..j -> X] /\ e \in [1..j -> X]
  BY <1>4, <1>5
<1>8. u = e
  BY <1>4, <1>6, <1>7
<1>. QED  BY <1>8 DEF u, e, a, b

(* A chunk, and the bytes after the last one.                              *)
LEMMA Loads ==
  ASSUME NEW X, NEW s \in Seq(X)
  PROVE  /\ \A c \in Chunks(Len(s)) :
              /\ Load(s, StartOf(c)) \in Seq(X) /\ Len(Load(s, StartOf(c))) = Width
              /\ \A k \in 1..Width : /\ StartOf(c) + k \in 1..Len(s)
                                     /\ Load(s, StartOf(c))[k] = s[StartOf(c) + k]
              /\ SubSeq(s, 1, StartOf(c + 1)) = SubSeq(s, 1, StartOf(c)) \o Load(s, StartOf(c))
         /\ Tail32(s) \in Seq(X) /\ Len(Tail32(s)) = Len(s) - TailStart(Len(s))
         /\ \A k \in 1..(Len(s) - TailStart(Len(s))) :
              TailStart(Len(s)) + k \in 1..Len(s) /\ Tail32(s)[k] = s[TailStart(Len(s)) + k]
         /\ s = SubSeq(s, 1, TailStart(Len(s))) \o Tail32(s)
<1> DEFINE n == Len(s)
           T == TailStart(n)
<1>1. n \in Nat /\ Width \in Nat \ {0}
  BY WidthAssumption
<1>2. T \in 0..n
  BY <1>1, Chunking
<1>3. ASSUME NEW c \in Chunks(n)
      PROVE  /\ Load(s, StartOf(c)) \in Seq(X) /\ Len(Load(s, StartOf(c))) = Width
             /\ \A k \in 1..Width : /\ StartOf(c) + k \in 1..n
                                    /\ Load(s, StartOf(c))[k] = s[StartOf(c) + k]
             /\ SubSeq(s, 1, StartOf(c + 1)) = SubSeq(s, 1, StartOf(c)) \o Load(s, StartOf(c))
  <2> DEFINE i == StartOf(c)
             j == StartOf(c + 1)
  <2>1. i \in Nat /\ i + Width = j /\ j <= n
    <3>1. i \in Nat /\ i + Width = j /\ j <= T
      BY <1>1, Chunking
    <3> HIDE DEF i, j, T, n
    <3>. QED  BY <1>1, <1>2, <3>1
  <2>2. Load(s, i) = SubSeq(s, i + 1, j)
    BY <2>1 DEF Load
  <2> HIDE DEF i, j
  <2>3. Load(s, i) \in Seq(X) /\ Len(Load(s, i)) = Width
    BY <1>1, <2>1, <2>2
  <2>4. \A k \in 1..Width : i + k \in 1..n /\ Load(s, i)[k] = s[i + k]
    BY <1>1, <2>1, <2>2
  <2>5. i \in 0..Len(s) /\ j \in i..Len(s)
    BY <1>1, <2>1
  <2>6. SubSeq(s, 1, j) = SubSeq(s, 1, i) \o SubSeq(s, i + 1, j)
    BY <2>5, Cut
  <2>. QED  BY <2>2, <2>3, <2>4, <2>6 DEF i, j
<1> HIDE DEF T
<1>4. Tail32(s) = SubSeq(s, T + 1, n)
  BY DEF Tail32, T
<1>5. Tail32(s) \in Seq(X) /\ Len(Tail32(s)) = n - T
  BY <1>1, <1>2, <1>4
<1>6. \A k \in 1..(n - T) : T + k \in 1..n /\ Tail32(s)[k] = s[T + k]
  BY <1>1, <1>2, <1>4
<1>7. s = SubSeq(s, 1, T) \o Tail32(s)
  <2>1. T \in 0..Len(s) /\ n \in T..Len(s)
    BY <1>1, <1>2
  <2>2. SubSeq(s, 1, n) = SubSeq(s, 1, T) \o SubSeq(s, T + 1, n)
    BY <2>1, Cut
  <2>3. SubSeq(s, 1, n) = s
    BY <1>1
  <2>. QED  BY <1>4, <2>2, <2>3
<1>. QED  BY <1>3, <1>5, <1>6, <1>7 DEF T

(* The same of one chunk.                                                  *)
LEMMA LoadIs ==
  ASSUME NEW X, NEW s \in Seq(X), NEW c \in Chunks(Len(s))
  PROVE  /\ Load(s, StartOf(c)) \in Seq(X) /\ Len(Load(s, StartOf(c))) = Width
         /\ \A k \in 1..Width : /\ StartOf(c) + k \in 1..Len(s)
                                /\ Load(s, StartOf(c))[k] = s[StartOf(c) + k]
         /\ SubSeq(s, 1, StartOf(c + 1)) = SubSeq(s, 1, StartOf(c)) \o Load(s, StartOf(c))
BY Loads

-----------------------------------------------------------------------------
(* Sums.                                                                   *)
SumsAs(g, ns) ==
  g \in [0..Len(ns) -> Nat] /\ g[0] = 0 /\ \A i \in 1..Len(ns) : g[i] = g[i - 1] + ns[i]

LEMMA SumIs ==
  ASSUME NEW ns \in Seq(Nat)
  PROVE  \E g : SumsAs(g, ns) /\ SumOf(ns) = g[Len(ns)]
<1> DEFINE n == Len(ns)
           st == [i \in 1..n |-> [x \in Nat |-> x + ns[i]]]
           Body(f) == [i \in 0..n |-> IF i = 0 THEN 0 ELSE f[i - 1] + ns[i]]
           upto == CHOOSE f : f = Body(f)
<1>1. n \in Nat /\ \A i \in 1..n : ns[i] \in Nat
  OBVIOUS
<1>2. SumOf(ns) = upto[n]
  BY DEF SumOf
<1> HIDE DEF n
<1>3. PICK g : Iterated(g, Nat, n, 0, st)
  <2>1. st \in [1..n -> [Nat -> Nat]]
    BY <1>1
  <2> HIDE DEF st
  <2>. QED  BY <1>1, <2>1, Iterates
<1>4. \A i \in 1..n : g[i] = g[i - 1] + ns[i]
  <2> TAKE i \in 1..n
  <2>1. i \in 1..n
    OBVIOUS
  <2> HIDE DEF st
  <2>2. g[i - 1] \in Nat /\ g[i] = st[i][g[i - 1]]
    BY <1>1, <1>3, <2>1 DEF Iterated
  <2>. QED  BY <2>2 DEF st
<1>5. g = Body(g)
  BY <1>3, <1>4 DEF Iterated
<1>6. upto = Body(upto)
  BY <1>5
<1> HIDE DEF upto
<1>7. SameStep(upto, g, n)
  <2>1. upto[0] = g[0]
    BY <1>1, <1>3, <1>6 DEF Iterated
  <2>2. \A i \in 1..n : upto[i - 1] = g[i - 1] => upto[i] = g[i]
    <3> TAKE i \in 1..n
    <3>1. i \in 0..n /\ i # 0
      BY <1>1
    <3>. QED  BY <1>4, <1>6, <3>1
  <2>. QED  BY <2>1, <2>2 DEF SameStep
<1>8. upto[n] = g[n]
  BY <1>1, <1>7, SameSteps
<1>9. SumsAs(g, ns)
  BY <1>3, <1>4 DEF Iterated, SumsAs, n
<1>. QED  BY <1>2, <1>8, <1>9 DEF n

LEMMA SumType == ASSUME NEW ns \in Seq(Nat) PROVE SumOf(ns) \in Nat
<1>1. PICK g : SumsAs(g, ns) /\ SumOf(ns) = g[Len(ns)]
  BY SumIs
<1>. QED  BY <1>1 DEF SumsAs

LEMMA SumJoin ==
  ASSUME NEW s \in Seq(Nat), NEW t \in Seq(Nat)
  PROVE  SumOf(s \o t) = SumOf(s) + SumOf(t)
<1> DEFINE m == Len(s)
           n == Len(t)
           u == s \o t
<1>1. m \in Nat /\ n \in Nat /\ u \in Seq(Nat) /\ Len(u) = m + n
  OBVIOUS
<1>2. \A i \in 1..m : u[i] = s[i]
  OBVIOUS
<1>3. \A i \in 1..n : u[m + i] = t[i]
  <2> TAKE i \in 1..n
  <2>1. m + i \in (m + 1)..(m + n) /\ (m + i) - m = i
    BY <1>1
  <2>. QED  BY <1>1, <2>1
<1>4. PICK g : SumsAs(g, s) /\ SumOf(s) = g[Len(s)]
  BY SumIs
<1>5. PICK h : SumsAs(h, t) /\ SumOf(t) = h[Len(t)]
  BY SumIs
<1>6. PICK f : SumsAs(f, u) /\ SumOf(u) = f[Len(u)]
  BY <1>1, SumIs
<1> HIDE DEF m, n, u
<1>7. g \in [0..m -> Nat] /\ g[0] = 0 /\ \A i \in 1..m : g[i] = g[i - 1] + s[i]
  BY <1>4 DEF SumsAs, m
<1>8. h \in [0..n -> Nat] /\ h[0] = 0 /\ \A i \in 1..n : h[i] = h[i - 1] + t[i]
  BY <1>5 DEF SumsAs, n
<1>9. f \in [0..(m + n) -> Nat] /\ f[0] = 0 /\ \A i \in 1..(m + n) : f[i] = f[i - 1] + u[i]
  BY <1>1, <1>6 DEF SumsAs
<1>10. f[m] = g[m]
  <2>1. \A i \in 1..m : i \in 1..(m + n)
    BY <1>1
  <2>2. SameStep(f, g, m)
    BY <1>2, <1>7, <1>9, <2>1 DEF SameStep
  <2>3. \A i \in 0..m : f[i] = g[i]
    BY <1>1, <2>2, SameSteps
  <2>. QED  BY <1>1, <2>3
<1>11. f[m + n] = f[m] + h[n]
  <2> DEFINE p == [i \in 0..n |-> f[m + i]]
             q == [i \in 0..n |-> f[m] + h[i]]
  <2>1. f[m] \in Nat
    BY <1>1, <1>9
  <2>2. p[0] = q[0]
    BY <1>1, <1>8, <2>1
  <2>3. \A i \in 1..n : p[i - 1] = q[i - 1] => p[i] = q[i]
    <3> TAKE i \in 1..n
    <3>1. i \in 0..n /\ i - 1 \in 0..n /\ m + i \in 1..(m + n) /\ (m + i) - 1 = m + (i - 1)
      BY <1>1
    <3>2. f[m + i] = f[m + (i - 1)] + t[i] /\ h[i] = h[i - 1] + t[i]
      BY <1>3, <1>8, <1>9, <3>1
    <3>3. t[i] \in Nat
      BY DEF n
    <3>4. t[i] \in Nat /\ h[i - 1] \in Nat
      BY <1>8, <3>1, <3>3
    <3>. QED  BY <2>1, <3>1, <3>2, <3>4
  <2>4. SameStep(p, q, n)
    BY <2>2, <2>3 DEF SameStep
  <2>5. p[n] = q[n]
    <3> HIDE DEF p, q
    <3>1. \A i \in 0..n : p[i] = q[i]
      BY <1>1, <2>4, SameSteps
    <3>. QED  BY <1>1, <3>1
  <2>. QED  BY <1>1, <2>5
<1>. QED  BY <1>1, <1>4, <1>5, <1>6, <1>10, <1>11 DEF m, n, u

(* The sum by chunks and tail.                                             *)
LEMMA SumChunks ==
  ASSUME NEW ns \in Seq(Nat)
  PROVE  SumOf([c \in Chunks(Len(ns)) |-> SumOf(Load(ns, StartOf(c)))]) + SumOf(Tail32(ns)) = SumOf(ns)
<1> DEFINE C == Len(ns) \div Width
           parts == [c \in Chunks(Len(ns)) |-> SumOf(Load(ns, StartOf(c)))]
           upto(c) == SubSeq(ns, 1, StartOf(c + 1))
<1>1. Len(ns) \in Nat /\ C \in Nat /\ StartOf(1) = 0 /\ StartOf(C + 1) = TailStart(Len(ns))
  <2>1. Len(ns) \in Nat
    OBVIOUS
  <2>. QED  BY <2>1, Chunking
<1>2. Chunks(Len(ns)) = 1..C
  BY DEF Chunks
<1>3. \A c \in 1..C : /\ Load(ns, StartOf(c)) \in Seq(Nat)
                      /\ SubSeq(ns, 1, StartOf(c + 1)) = SubSeq(ns, 1, StartOf(c)) \o Load(ns, StartOf(c))
  <2> TAKE c \in 1..C
  <2>1. c \in Chunks(Len(ns))
    BY <1>2
  <2>. QED  BY <2>1, LoadIs
<1>4. Tail32(ns) \in Seq(Nat) /\ ns = SubSeq(ns, 1, TailStart(Len(ns))) \o Tail32(ns)
  BY Loads
<1> HIDE DEF C
<1>5. parts \in Seq(Nat) /\ Len(parts) = C /\ \A c \in 1..C : parts[c] = SumOf(Load(ns, StartOf(c)))
  <2>1. \A c \in 1..C : SumOf(Load(ns, StartOf(c))) \in Nat
    BY <1>3, SumType
  <2>2. parts \in [1..C -> Nat]
    BY <1>2, <2>1
  <2>. QED  BY <1>1, <1>2, <2>2
<1>6. \A c \in 0..C : upto(c) \in Seq(Nat)
  <2> TAKE c \in 0..C
  <2>1. StartOf(c + 1) \in Int /\ StartOf(c + 1) <= Len(ns)
    <3>1. CASE c = 0
      BY <1>1, <3>1
    <3>2. CASE c # 0
      <4>1. c \in Chunks(Len(ns))
        BY <1>1, <1>2, <3>2
      <4>2. StartOf(c) \in Nat /\ StartOf(c) + Width = StartOf(c + 1) /\ StartOf(c + 1) <= TailStart(Len(ns))
            /\ TailStart(Len(ns)) \in 0..Len(ns)
        BY <1>1, <4>1, Chunking
      <4>. QED  BY <1>1, <4>2, WidthAssumption
    <3>. QED  BY <3>1, <3>2
  <2>. QED  BY <2>1
<1>7. PICK g : SumsAs(g, parts) /\ SumOf(parts) = g[C]
  BY <1>5, SumIs
<1> HIDE DEF parts
<1> DEFINE h == [c \in 0..C |-> SumOf(upto(c))]
<1>8. SameStep(g, h, C)
  <2>1. g[0] = h[0]
    <3>1. upto(0) = <<>>
      BY <1>1
    <3>2. SumOf(<<>>) = 0
      <4>1. <<>> \in Seq(Nat) /\ Len(<<>>) = 0
        OBVIOUS
      <4>2. PICK f : SumsAs(f, <<>>) /\ SumOf(<<>>) = f[0]
        BY <4>1, SumIs
      <4>. QED  BY <4>2 DEF SumsAs
    <3>3. g[0] = 0 /\ 0 \in 0..C
      BY <1>1, <1>7 DEF SumsAs
    <3> HIDE DEF upto
    <3>. QED  BY <3>1, <3>2, <3>3
  <2>2. \A c \in 1..C : g[c - 1] = h[c - 1] => g[c] = h[c]
    <3> SUFFICES ASSUME NEW c \in 1..C, g[c - 1] = h[c - 1] PROVE g[c] = h[c]
      OBVIOUS
    <3>1. c \in 0..C /\ c - 1 \in 0..C /\ (c - 1) + 1 = c
      BY <1>1
    <3>2. upto(c) = upto(c - 1) \o Load(ns, StartOf(c))
      BY <1>3, <3>1
    <3>3. SumOf(upto(c)) = SumOf(upto(c - 1)) + SumOf(Load(ns, StartOf(c)))
      <4>1. upto(c - 1) \in Seq(Nat) /\ Load(ns, StartOf(c)) \in Seq(Nat)
        BY <1>3, <1>6, <3>1
      <4> HIDE DEF upto
      <4>. QED  BY <3>2, <4>1, SumJoin
    <3>4. g[c] = g[c - 1] + parts[c]
      BY <1>5, <1>7 DEF SumsAs
    <3> HIDE DEF upto
    <3>. QED  BY <1>5, <3>1, <3>3, <3>4
  <2>. QED  BY <2>1, <2>2 DEF SameStep
<1>9. g[C] = SumOf(upto(C))
  <2>1. g[C] = h[C]
    <3> HIDE DEF h
    <3>. QED  BY <1>1, <1>8, SameSteps
  <2>. QED  BY <1>1, <2>1
<1>10. SumOf(ns) = SumOf(upto(C)) + SumOf(Tail32(ns))
  <2>1. ns = upto(C) \o Tail32(ns)
    BY <1>1, <1>4
  <2>2. upto(C) \in Seq(Nat)
    BY <1>1, <1>6
  <2> HIDE DEF upto
  <2>. QED  BY <1>4, <2>1, <2>2, SumJoin
<1>. QED  BY <1>7, <1>9, <1>10 DEF parts

-----------------------------------------------------------------------------
(* Counting: a set of positions by a mark for each.                        *)
Marks(P, n) == [i \in 1..n |-> IF i - 1 \in P THEN 1 ELSE 0]

LEMMA MarksType ==
  ASSUME NEW n \in Nat, NEW P
  PROVE  Marks(P, n) \in Seq(Nat) /\ Len(Marks(P, n)) = n
<1>1. Marks(P, n) \in [1..n -> Nat]
  BY DEF Marks
<1>. QED  BY <1>1

LEMMA Finite ==
  ASSUME NEW n \in Nat, NEW P \in SUBSET (0..(n - 1))
  PROVE  IsFiniteSet(P)
<1>1. IsFiniteSet(0..(n - 1))
  BY FS_Interval
<1>. QED  BY <1>1, FS_Subset

LEMMA Complement ==
  ASSUME NEW W, IsFiniteSet(W), NEW S \in SUBSET W
  PROVE  IsFiniteSet(S) /\ Cardinality(W) - Cardinality(W \ S) = Cardinality(S)
<1>1. IsFiniteSet(S) /\ Cardinality(S) \in Nat /\ Cardinality(W) \in Nat
  BY FS_Subset, FS_CardinalityType
<1>2. Cardinality(W \ S) = Cardinality(W) - Cardinality(W \cap S)
  BY FS_Difference
<1>3. W \cap S = S
  OBVIOUS
<1>4. Cardinality(W \ S) = Cardinality(W) - Cardinality(S)
  BY <1>2, <1>3
<1>. QED  BY <1>1, <1>4

LEMMA CountIsSum ==
  ASSUME NEW n \in Nat, NEW P \in SUBSET (0..(n - 1))
  PROVE  Cardinality(P) = SumOf(Marks(P, n))
<1> DEFINE below(i) == {x \in P : x < i}
           h == [i \in 0..n |-> Cardinality(below(i))]
<1>1. \A x \in P : x \in Nat /\ x < n
  OBVIOUS
<1>2. \A i \in 0..n : IsFiniteSet(below(i)) /\ Cardinality(below(i)) \in Nat
  <2> TAKE i \in 0..n
  <2>1. below(i) \in SUBSET P
    OBVIOUS
  <2>2. IsFiniteSet(below(i))
    BY <2>1, Finite, FS_Subset
  <2>. QED  BY <2>2, FS_CardinalityType
<1>3. PICK g : SumsAs(g, Marks(P, n)) /\ SumOf(Marks(P, n)) = g[n]
  BY MarksType, SumIs
<1>4. SameStep(g, h, n)
  <2>1. g[0] = h[0]
    <3>1. below(0) = {}
      <4>1. \A x \in P : ~(x < 0)
        BY <1>1
      <4>. QED  BY <4>1
    <3>2. g[0] = 0
      BY <1>3 DEF SumsAs
    <3>3. h[0] = Cardinality(below(0))
      OBVIOUS
    <3>. QED  BY <3>1, <3>2, <3>3, FS_EmptySet
  <2>2. \A i \in 1..n : g[i - 1] = h[i - 1] => g[i] = h[i]
    <3> SUFFICES ASSUME NEW i \in 1..n, g[i - 1] = h[i - 1] PROVE g[i] = h[i]
      OBVIOUS
    <3>1. i \in 0..n /\ i - 1 \in 0..n
      OBVIOUS
    <3>2. g[i] = g[i - 1] + Marks(P, n)[i]
      BY <1>3, MarksType DEF SumsAs
    <3>3. CASE i - 1 \in P
      <4>1. below(i) = below(i - 1) \cup {i - 1}
        <5>1. \A x \in P : x < i <=> x < i - 1 \/ x = i - 1
          BY <1>1
        <5>. QED  BY <3>3, <5>1
      <4>2. i - 1 \notin below(i - 1)
        OBVIOUS
      <4>3. Cardinality(below(i)) = Cardinality(below(i - 1)) + 1
        <5> HIDE DEF below
        <5>. QED  BY <1>2, <3>1, <4>1, <4>2, FS_AddElement
      <4>4. Marks(P, n)[i] = 1
        BY <3>3 DEF Marks
      <4>. QED  BY <3>1, <3>2, <4>3, <4>4
    <3>4. CASE i - 1 \notin P
      <4>1. below(i) = below(i - 1)
        <5>1. \A x \in P : x < i <=> x < i - 1
          BY <1>1, <3>4
        <5>. QED  BY <5>1
      <4>2. Marks(P, n)[i] = 0
        BY <3>4 DEF Marks
      <4>3. Cardinality(below(i - 1)) \in Nat
        BY <1>2, <3>1
      <4> HIDE DEF below
      <4>. QED  BY <3>1, <3>2, <4>1, <4>2, <4>3
    <3>. QED  BY <3>3, <3>4
  <2>. QED  BY <2>1, <2>2 DEF SameStep
<1>5. g[n] = h[n]
  <2> HIDE DEF h
  <2>1. \A i \in 0..n : g[i] = h[i]
    BY <1>4, SameSteps
  <2>. QED  BY <2>1
<1>6. h[n] = Cardinality(below(n))
  OBVIOUS
<1>7. below(n) = P
  BY <1>1
<1>. QED  BY <1>3, <1>5, <1>6, <1>7

(* The positions of a set in a chunk, and after the last chunk.            *)
InLanes(P, c)    == {k \in 0..(Width - 1) : StartOf(c) + k \in P}
AfterAll(P, n)   == {k \in 0..(n - TailStart(n) - 1) : TailStart(n) + k \in P}

LEMMA CountChunks ==
  ASSUME NEW n \in Nat, NEW P \in SUBSET (0..(n - 1))
  PROVE  SumOf([c \in Chunks(n) |-> Cardinality(InLanes(P, c))]) + Cardinality(AfterAll(P, n)) = Cardinality(P)
<1> DEFINE ns == Marks(P, n)
<1>1. ns \in Seq(Nat) /\ Len(ns) = n
  BY MarksType
<1>2. \A c \in Chunks(n) : SumOf(Load(ns, StartOf(c))) = Cardinality(InLanes(P, c))
  <2> TAKE c \in Chunks(n)
  <2>1. Width \in Nat /\ StartOf(c) \in Nat
    BY WidthAssumption, Chunking
  <2>2. Load(ns, StartOf(c)) \in Seq(Nat) /\ Len(Load(ns, StartOf(c))) = Width
    BY <1>1, Loads
  <2>3. \A k \in 1..Width : StartOf(c) + k \in 1..n /\ Load(ns, StartOf(c))[k] = ns[StartOf(c) + k]
    <3> HIDE DEF ns
    <3>. QED  BY <1>1, Loads
  <2>4. \A k \in 1..Width : Load(ns, StartOf(c))[k] = Marks(InLanes(P, c), Width)[k]
    <3> TAKE k \in 1..Width
    <3>1. (StartOf(c) + k) - 1 = StartOf(c) + (k - 1) /\ k - 1 \in 0..(Width - 1)
      BY <2>1
    <3>2. k - 1 \in InLanes(P, c) <=> StartOf(c) + (k - 1) \in P
      BY <3>1 DEF InLanes
    <3>. QED  BY <2>3, <3>1, <3>2 DEF Marks
  <2>5. Marks(InLanes(P, c), Width) \in Seq(Nat) /\ Len(Marks(InLanes(P, c), Width)) = Width
    BY <2>1, MarksType
  <2>6. Load(ns, StartOf(c)) = Marks(InLanes(P, c), Width)
    BY <2>1, <2>2, <2>4, <2>5, SameSeq
  <2>7. InLanes(P, c) \in SUBSET (0..(Width - 1))
    BY DEF InLanes
  <2>. QED  BY <2>1, <2>6, <2>7, CountIsSum
<1>3. SumOf(Tail32(ns)) = Cardinality(AfterAll(P, n))
  <2> DEFINE m == n - TailStart(n)
  <2>1. TailStart(n) \in Nat /\ m \in Nat
    BY Chunking
  <2>2. Tail32(ns) \in Seq(Nat) /\ Len(Tail32(ns)) = m
    BY <1>1, Loads
  <2>3. \A k \in 1..m : TailStart(n) + k \in 1..n /\ Tail32(ns)[k] = ns[TailStart(n) + k]
    BY <1>1, Loads
  <2>4. \A k \in 1..m : Tail32(ns)[k] = Marks(AfterAll(P, n), m)[k]
    <3> TAKE k \in 1..m
    <3>1. (TailStart(n) + k) - 1 = TailStart(n) + (k - 1) /\ k - 1 \in 0..(m - 1)
      BY <2>1
    <3>2. k - 1 \in AfterAll(P, n) <=> TailStart(n) + (k - 1) \in P
      BY <3>1 DEF AfterAll
    <3>. QED  BY <2>3, <3>1, <3>2 DEF Marks
  <2>5. Marks(AfterAll(P, n), m) \in Seq(Nat) /\ Len(Marks(AfterAll(P, n), m)) = m
    BY <2>1, MarksType
  <2>6. Tail32(ns) = Marks(AfterAll(P, n), m)
    <3> HIDE DEF m, ns
    <3>. QED  BY <2>1, <2>2, <2>4, <2>5, SameSeq
  <2>7. AfterAll(P, n) \in SUBSET (0..(m - 1))
    BY DEF AfterAll
  <2>. QED  BY <2>1, <2>6, <2>7, CountIsSum
<1>4. SumOf(ns) = Cardinality(P)
  BY CountIsSum
<1>5. [c \in Chunks(n) |-> Cardinality(InLanes(P, c))] = [c \in Chunks(n) |-> SumOf(Load(ns, StartOf(c)))]
  BY <1>2
<1> HIDE DEF ns
<1>6. SumOf([c \in Chunks(n) |-> SumOf(Load(ns, StartOf(c)))]) + SumOf(Tail32(ns)) = SumOf(ns)
  BY <1>1, SumChunks
<1>. QED  BY <1>3, <1>4, <1>5, <1>6

-----------------------------------------------------------------------------
(* The sums of the two backends.                                           *)
Bytes == Seq(Cells)

LEMMA NonzeroParts ==
  ASSUME NEW d \in Bytes
  PROVE  /\ Nonzero(d) \in SUBSET (0..(Len(d) - 1))
         /\ \A c \in Chunks(Len(d)) : Lanes32(Load(d, StartOf(c))) = InLanes(Nonzero(d), c)
         /\ Nonzero(Tail32(d)) = AfterAll(Nonzero(d), Len(d))
<1>1. Width \in Nat \ {0} /\ Len(d) \in Nat
  BY WidthAssumption DEF Bytes
<1>2. Nonzero(d) = {i \in 0..(Len(d) - 1) : d[i + 1] # {}}
  BY DEF Nonzero, Offsets, At
<1>3. ASSUME NEW c \in Chunks(Len(d)) PROVE Lanes32(Load(d, StartOf(c))) = InLanes(Nonzero(d), c)
  <2>1. StartOf(c) \in Nat
    BY <1>1, Chunking
  <2>2. \A k \in 1..Width : StartOf(c) + k \in 1..Len(d) /\ Load(d, StartOf(c))[k] = d[StartOf(c) + k]
    BY Loads DEF Bytes
  <2>3. \A k \in 0..(Width - 1) : /\ k + 1 \in 1..Width /\ StartOf(c) + (k + 1) = (StartOf(c) + k) + 1
    BY <1>1, <2>1
  <2>4. \A k \in 0..(Width - 1) : /\ Load(d, StartOf(c))[k + 1] = d[(StartOf(c) + k) + 1]
                                  /\ (StartOf(c) + k) + 1 \in 1..Len(d)
    BY <2>2, <2>3
  <2>5. \A k \in 0..(Width - 1) : StartOf(c) + k \in 0..(Len(d) - 1)
    BY <1>1, <2>1, <2>4
  <2>6. Lanes32(Load(d, StartOf(c))) = {k \in 0..(Width - 1) : Load(d, StartOf(c))[k + 1] # {}}
    BY DEF Lanes32, At
  <2>. QED  BY <1>2, <2>4, <2>5, <2>6 DEF InLanes
<1>4. Nonzero(Tail32(d)) = AfterAll(Nonzero(d), Len(d))
  <2> DEFINE n == Len(d)
             T == TailStart(n)
  <2>1. T \in Nat /\ n \in Nat /\ T <= n
    BY <1>1, Chunking
  <2>2. Len(Tail32(d)) = n - T
    BY Loads DEF Bytes
  <2>3. \A k \in 1..(n - T) : T + k \in 1..n /\ Tail32(d)[k] = d[T + k]
    BY Loads DEF Bytes
  <2> HIDE DEF n, T
  <2>4. \A k \in 0..(n - T - 1) : k + 1 \in 1..(n - T) /\ T + (k + 1) = (T + k) + 1
    BY <2>1
  <2>5. \A k \in 0..(n - T - 1) : Tail32(d)[k + 1] = d[(T + k) + 1] /\ T + k \in 0..(n - 1)
    BY <2>1, <2>3, <2>4
  <2>6. Nonzero(Tail32(d)) = {k \in 0..(n - T - 1) : Tail32(d)[k + 1] # {}}
    BY <2>2 DEF Nonzero, Offsets, At
  <2>. QED  BY <1>2, <2>5, <2>6 DEF AfterAll, n, T
<1>. QED  BY <1>2, <1>3, <1>4

LEMMA CountNonzeroSame == ASSUME NEW d \in Bytes PROVE FastCountNonzero(d) = CountNonzero(d)
<1>1. Width \in Nat \ {0} /\ Len(d) \in Nat
  BY WidthAssumption DEF Bytes
<1>2. \A c \in Chunks(Len(d)) :
        Width - Cardinality(0..(Width - 1) \ Lanes32(Load(d, StartOf(c)))) = Cardinality(InLanes(Nonzero(d), c))
  <2> TAKE c \in Chunks(Len(d))
  <2> DEFINE S == InLanes(Nonzero(d), c)
             W == 0..(Width - 1)
  <2>1. S \in SUBSET W /\ Lanes32(Load(d, StartOf(c))) = S
    BY NonzeroParts DEF InLanes
  <2>2. IsFiniteSet(W) /\ Cardinality(W) = Width
    BY <1>1, FS_Interval
  <2> HIDE DEF S, W
  <2>3. Cardinality(W) - Cardinality(W \ S) = Cardinality(S)
    BY <2>1, <2>2, Complement
  <2>. QED  BY <2>1, <2>2, <2>3 DEF W, S
<1>3. FastCountNonzero(d) =
        SumOf([c \in Chunks(Len(d)) |-> Width - Cardinality(0..(Width - 1) \ Lanes32(Load(d, StartOf(c))))])
        + Cardinality(Nonzero(Tail32(d)))
  BY DEF FastCountNonzero, Summing, CountNonzero
<1>4. [c \in Chunks(Len(d)) |-> Width - Cardinality(0..(Width - 1) \ Lanes32(Load(d, StartOf(c))))]
      = [c \in Chunks(Len(d)) |-> Cardinality(InLanes(Nonzero(d), c))]
  BY <1>2
<1>. QED  BY <1>1, <1>3, <1>4, NonzeroParts, CountChunks DEF CountNonzero

(* The bits of a byte are those of its two nibbles.                        *)
LEMMA Nibbles ==
  ASSUME NEW x, IsFiniteSet(x)
  PROVE  Cardinality(x \cap LowBits) + Cardinality(x \ LowBits) = Cardinality(x) /\ Cardinality(x) \in Nat
<1>1. IsFiniteSet(x \cap LowBits) /\ Cardinality(x \cap LowBits) \in Nat /\ Cardinality(x) \in Nat
  <2>1. x \cap LowBits \in SUBSET x
    OBVIOUS
  <2>. QED  BY <2>1, FS_Subset, FS_CardinalityType
<1>2. Cardinality(x \ LowBits) = Cardinality(x) - Cardinality(x \cap LowBits)
  BY FS_Difference
<1>. QED  BY <1>1, <1>2

LEMMA BytePopcount ==
  ASSUME NEW v, NEW n \in Nat, DOMAIN v = 1..n, \A i \in 1..n : IsFiniteSet(v[i])
  PROVE  BytePopcountSum(v) = SumOf([i \in 1..n |-> Cardinality(v[i])])
<1>1. BytePopcountSum(v) = SumOf([i \in 1..n |-> Cardinality(v[i] \cap LowBits) + Cardinality(v[i] \ LowBits)])
  BY DEF BytePopcountSum, Weight
<1>2. \A i \in 1..n : Cardinality(v[i] \cap LowBits) + Cardinality(v[i] \ LowBits) = Cardinality(v[i])
  BY Nibbles
<1>3. [i \in 1..n |-> Cardinality(v[i] \cap LowBits) + Cardinality(v[i] \ LowBits)]
      = [i \in 1..n |-> Cardinality(v[i])]
  BY <1>2
<1>. QED  BY <1>1, <1>3

(* Both backends count the bits of the bytes e, made of the buffers' bytes *)
(* lane by lane.                                                           *)
BitsIn(e, n)    == SumOf([i \in 1..n |-> Cardinality(e[i])])
BitsOver(p, n)  == SumOf([c \in Chunks(n) |-> BytePopcountSum(p[c])])

LEMMA BitsByChunks ==
  ASSUME NEW n \in Nat, NEW e, DOMAIN e = 1..n, \A i \in 1..n : IsFiniteSet(e[i]),
         NEW part, \A c \in Chunks(n) :
                     /\ DOMAIN part[c] = 1..Width
                     /\ \A k \in 1..Width : part[c][k] = e[StartOf(c) + k],
         NEW rest, DOMAIN rest = 1..(n - TailStart(n)),
         \A k \in 1..(n - TailStart(n)) : rest[k] = e[TailStart(n) + k]
  PROVE  BitsOver(part, n) + BitsIn(rest, n - TailStart(n)) = BitsIn(e, n)
<1> DEFINE ns == [i \in 1..n |-> Cardinality(e[i])]
<1>1. ns \in [1..n -> Nat]
  BY FS_CardinalityType
<1>2. ns \in Seq(Nat) /\ Len(ns) = n
  BY <1>1
<1>3. \A c \in Chunks(n) : BytePopcountSum(part[c]) = SumOf(Load(ns, StartOf(c)))
  <2> TAKE c \in Chunks(n)
  <2> DEFINE u == Load(ns, StartOf(c))
             v == [k \in 1..Width |-> Cardinality(part[c][k])]
  <2>1. Width \in Nat
    BY WidthAssumption
  <2>2. /\ u \in Seq(Nat) /\ Len(u) = Width
        /\ \A k \in 1..Width : StartOf(c) + k \in 1..n /\ u[k] = ns[StartOf(c) + k]
    <3> HIDE DEF ns
    <3>1. c \in Chunks(Len(ns))
      BY <1>2
    <3>. QED  BY <1>2, <3>1, LoadIs
  <2>3. \A k \in 1..Width : u[k] = v[k]
    BY <2>2
  <2>4. \A k \in 1..Width : IsFiniteSet(part[c][k])
    BY <2>2
  <2>5. BytePopcountSum(part[c]) = SumOf(v)
    BY <2>1, <2>4, BytePopcount
  <2> HIDE DEF u
  <2>6. u \in [1..Width -> Nat]
    BY <2>1, <2>2
  <2>7. u = v
    BY <2>1, <2>3, <2>6
  <2>. QED  BY <2>5, <2>7 DEF u
<1>4. [k \in 1..(n - TailStart(n)) |-> Cardinality(rest[k])] = Tail32(ns)
  <2> DEFINE m == n - TailStart(n)
             u == Tail32(ns)
             v == [k \in 1..m |-> Cardinality(rest[k])]
  <2>1. TailStart(n) \in 0..n /\ m \in Nat
    <3>1. TailStart(n) \in 0..n
      BY Chunking
    <3>. QED  BY <3>1
  <2>2. /\ u \in Seq(Nat) /\ Len(u) = m
        /\ \A k \in 1..m : TailStart(n) + k \in 1..n /\ u[k] = ns[TailStart(n) + k]
    <3> HIDE DEF ns
    <3>. QED  BY <1>2, Loads
  <2>3. \A k \in 1..m : u[k] = v[k]
    BY <2>2
  <2> HIDE DEF m
  <2> HIDE DEF u
  <2>4. u \in [1..m -> Nat]
    BY <2>1, <2>2
  <2>5. u = v
    BY <2>3, <2>4
  <2>. QED  BY <2>5 DEF u, m
<1>5. [c \in Chunks(n) |-> BytePopcountSum(part[c])] = [c \in Chunks(n) |-> SumOf(Load(ns, StartOf(c)))]
  BY <1>3
<1> HIDE DEF ns
<1>. QED  BY <1>2, <1>4, <1>5, SumChunks DEF ns, BitsIn, BitsOver

LEMMA PopcountSame == ASSUME NEW d \in Bytes PROVE FastPopcount(d) = Popcount(d)
<1> DEFINE n == Len(d)
           part == [c \in Chunks(n) |-> Load(d, StartOf(c))]
<1>1. n \in Nat /\ DOMAIN d = 1..n /\ \A i \in 1..n : IsFiniteSet(d[i])
  BY WidthAssumption DEF Bytes
<1>2. \A c \in Chunks(n) : DOMAIN part[c] = 1..Width /\ \A k \in 1..Width : part[c][k] = d[StartOf(c) + k]
  <2> TAKE c \in Chunks(n)
  <2>1. /\ Load(d, StartOf(c)) \in Seq(Cells) /\ Len(Load(d, StartOf(c))) = Width
        /\ \A k \in 1..Width : Load(d, StartOf(c))[k] = d[StartOf(c) + k]
    BY Loads DEF Bytes
  <2>. QED  BY <2>1
<1>3. DOMAIN Tail32(d) = 1..(n - TailStart(n)) /\ \A k \in 1..(n - TailStart(n)) : Tail32(d)[k] = d[TailStart(n) + k]
  <2>1. /\ Tail32(d) \in Seq(Cells) /\ Len(Tail32(d)) = n - TailStart(n)
        /\ \A k \in 1..(n - TailStart(n)) : Tail32(d)[k] = d[TailStart(n) + k]
    BY Loads DEF Bytes
  <2>. QED  BY <2>1
<1>4. FastPopcount(d) = SumOf([c \in Chunks(n) |-> BytePopcountSum(part[c])])
                        + SumOf([k \in 1..(n - TailStart(n)) |-> Cardinality(Tail32(d)[k])])
  <2>1. FastPopcount(d) = SumOf([c \in Chunks(n) |-> BytePopcountSum(Load(d, StartOf(c)))])
                          + SumOf([k \in DOMAIN Tail32(d) |-> Cardinality(Tail32(d)[k])])
    BY DEF FastPopcount, Summing, Popcount, Weight
  <2>2. [c \in Chunks(n) |-> BytePopcountSum(Load(d, StartOf(c)))] = [c \in Chunks(n) |-> BytePopcountSum(part[c])]
    OBVIOUS
  <2>. QED  BY <1>3, <2>1, <2>2
<1>5. Popcount(d) = SumOf([i \in 1..n |-> Cardinality(d[i])])
  BY <1>1 DEF Popcount, Weight
<1> DEFINE rest == Tail32(d)
<1>6. DOMAIN rest = 1..(n - TailStart(n)) /\ \A k \in 1..(n - TailStart(n)) : rest[k] = d[TailStart(n) + k]
  BY <1>3
<1> HIDE DEF n, part, rest
<1>7. BitsOver(part, n) + BitsIn(rest, n - TailStart(n)) = BitsIn(d, n)
  BY <1>1, <1>2, <1>6, BitsByChunks
<1>. QED  BY <1>4, <1>5, <1>7 DEF rest, BitsIn, BitsOver


-----------------------------------------------------------------------------
(* The bits that b adds to a, the bytes that differ.                       *)
LEMMA NewlySetIs ==
  ASSUME NEW n \in Nat, NEW a, NEW b, DOMAIN a = 1..n
  PROVE  CountNewlySet(a, b) = BitsIn(AndNot(a, b), n)
<1>1. \A i \in 1..n : Pairs(a, b)[i] = <<a[i], b[i]>> /\ AndNot(a, b)[i] = b[i] \ a[i]
  BY DEF Pairs, AndNot
<1>2. CountNewlySet(a, b) = SumOf([i \in 1..n |-> Cardinality(Pairs(a, b)[i][2] \ Pairs(a, b)[i][1])])
  BY DEF CountNewlySet, Weight, Pairs
<1>3. [i \in 1..n |-> Cardinality(Pairs(a, b)[i][2] \ Pairs(a, b)[i][1])]
      = [i \in 1..n |-> Cardinality(AndNot(a, b)[i])]
  <2>1. \A i \in 1..n : Pairs(a, b)[i][2] \ Pairs(a, b)[i][1] = AndNot(a, b)[i]
    BY <1>1
  <2>. QED  BY <2>1
<1>. QED  BY <1>2, <1>3 DEF BitsIn

(* Two buffers of one length, chunk by chunk.                              *)
Alike(a, b) == a \in Bytes /\ b \in Bytes /\ Len(a) = Len(b)

LEMMA AlikeParts ==
  ASSUME NEW a, NEW b, Alike(a, b)
  PROVE  LET n == Len(a) IN
         /\ n \in Nat /\ DOMAIN a = 1..n /\ DOMAIN b = 1..n
         /\ \A i \in 1..n : /\ a[i] \in Cells /\ b[i] \in Cells
                            /\ IsFiniteSet(a[i]) /\ IsFiniteSet(b[i])
         /\ Alike(Tail32(a), Tail32(b)) /\ Len(Tail32(a)) = n - TailStart(n)
         /\ \A k \in 1..(n - TailStart(n)) : /\ TailStart(n) + k \in 1..n
                                             /\ Tail32(a)[k] = a[TailStart(n) + k]
                                             /\ Tail32(b)[k] = b[TailStart(n) + k]
<1> DEFINE n == Len(a)
<1>1. a \in Seq(Cells) /\ b \in Seq(Cells) /\ Len(b) = n /\ n \in Nat
  BY DEF Alike, Bytes
<1>2. DOMAIN a = 1..n /\ DOMAIN b = 1..n /\ \A i \in 1..n : a[i] \in Cells /\ b[i] \in Cells
  BY <1>1
<1>3. \A x \in Cells : IsFiniteSet(x)
  BY WidthAssumption
<1>4. /\ Tail32(a) \in Seq(Cells) /\ Len(Tail32(a)) = n - TailStart(n)
      /\ \A k \in 1..(n - TailStart(n)) : TailStart(n) + k \in 1..n /\ Tail32(a)[k] = a[TailStart(n) + k]
  BY <1>1, Loads
<1>5. /\ Tail32(b) \in Seq(Cells) /\ Len(Tail32(b)) = Len(b) - TailStart(Len(b))
      /\ \A k \in 1..(Len(b) - TailStart(Len(b))) : Tail32(b)[k] = b[TailStart(Len(b)) + k]
  BY <1>1, Loads
<1> HIDE DEF n
<1>6. /\ Tail32(b) \in Seq(Cells) /\ Len(Tail32(b)) = n - TailStart(n)
      /\ \A k \in 1..(n - TailStart(n)) : Tail32(b)[k] = b[TailStart(n) + k]
  BY <1>1, <1>5
<1>7. Alike(Tail32(a), Tail32(b))
  BY <1>4, <1>6 DEF Alike, Bytes
<1>. QED  BY <1>1, <1>2, <1>3, <1>4, <1>6, <1>7 DEF n

LEMMA AlikeChunk ==
  ASSUME NEW a, NEW b, Alike(a, b), NEW c \in Chunks(Len(a))
  PROVE  /\ Alike(Load(a, StartOf(c)), Load(b, StartOf(c))) /\ Len(Load(a, StartOf(c))) = Width
         /\ \A k \in 1..Width : /\ StartOf(c) + k \in 1..Len(a)
                                /\ Load(a, StartOf(c))[k] = a[StartOf(c) + k]
                                /\ Load(b, StartOf(c))[k] = b[StartOf(c) + k]
<1> DEFINE n == Len(a)
<1>1. a \in Seq(Cells) /\ b \in Seq(Cells) /\ Len(b) = n /\ n \in Nat
  BY DEF Alike, Bytes
<1>2. /\ Load(a, StartOf(c)) \in Seq(Cells) /\ Len(Load(a, StartOf(c))) = Width
      /\ \A k \in 1..Width : StartOf(c) + k \in 1..n /\ Load(a, StartOf(c))[k] = a[StartOf(c) + k]
  BY <1>1, Loads
<1>3. c \in Chunks(Len(b))
  BY <1>1
<1>4. /\ Load(b, StartOf(c)) \in Seq(Cells) /\ Len(Load(b, StartOf(c))) = Width
      /\ \A k \in 1..Width : Load(b, StartOf(c))[k] = b[StartOf(c) + k]
  BY <1>1, <1>3, Loads
<1>. QED  BY <1>2, <1>4 DEF Alike, Bytes

LEMMA NewlySetSame ==
  ASSUME NEW a, NEW b, Alike(a, b)
  PROVE  FastCountNewlySet(a, b) = CountNewlySet(a, b)
<1> DEFINE n == Len(a)
           part == [c \in Chunks(n) |-> AndNot(Load(a, StartOf(c)), Load(b, StartOf(c)))]
           rest == AndNot(Tail32(a), Tail32(b))
           e == AndNot(a, b)
<1>1. n \in Nat /\ DOMAIN a = 1..n /\ Len(b) = n
  BY AlikeParts DEF Alike
<1>2. DOMAIN e = 1..n /\ \A i \in 1..n : IsFiniteSet(e[i]) /\ e[i] = b[i] \ a[i]
  <2> SUFFICES ASSUME NEW i \in 1..n PROVE IsFiniteSet(b[i] \ a[i])
    BY <1>1 DEF AndNot
  <2>1. IsFiniteSet(b[i]) /\ b[i] \ a[i] \in SUBSET b[i]
    BY AlikeParts
  <2>. QED  BY <2>1, FS_Subset
<1>3. \A c \in Chunks(n) : DOMAIN part[c] = 1..Width /\ \A k \in 1..Width : part[c][k] = e[StartOf(c) + k]
  <2> TAKE c \in Chunks(n)
  <2> DEFINE u == Load(a, StartOf(c))
             v == Load(b, StartOf(c))
  <2>1. /\ Alike(u, v) /\ Len(u) = Width
        /\ \A k \in 1..Width : StartOf(c) + k \in 1..n /\ u[k] = a[StartOf(c) + k] /\ v[k] = b[StartOf(c) + k]
    BY AlikeChunk
  <2>2. DOMAIN u = 1..Width
    BY <2>1 DEF Alike, Bytes
  <2>3. part[c] = AndNot(u, v)
    OBVIOUS
  <2> HIDE DEF u, v, part, e
  <2>. QED  BY <1>2, <2>1, <2>2, <2>3 DEF AndNot
<1>4. DOMAIN rest = 1..(n - TailStart(n)) /\ \A k \in 1..(n - TailStart(n)) : rest[k] = e[TailStart(n) + k]
  <2> DEFINE u == Tail32(a)
             v == Tail32(b)
             m == n - TailStart(n)
  <2>1. /\ Alike(u, v) /\ Len(u) = m
        /\ \A k \in 1..m : TailStart(n) + k \in 1..n /\ u[k] = a[TailStart(n) + k] /\ v[k] = b[TailStart(n) + k]
    BY AlikeParts
  <2> HIDE DEF u, v, m, e
  <2>2. DOMAIN u = 1..m
    BY <2>1 DEF Alike, Bytes
  <2>3. rest = AndNot(u, v)
    BY DEF u, v
  <2>4. DOMAIN rest = 1..m /\ \A k \in 1..m : rest[k] = e[TailStart(n) + k]
    <3> HIDE DEF rest
    <3>. QED  BY <1>2, <2>1, <2>2, <2>3 DEF AndNot
  <2>. QED  BY <2>4 DEF m
<1>5. FastCountNewlySet(a, b) = BitsOver(part, n) + CountNewlySet(Tail32(a), Tail32(b))
  <2>1. [c \in Chunks(n) |-> BytePopcountSum(AndNot(Load(a, StartOf(c)), Load(b, StartOf(c))))]
        = [c \in Chunks(n) |-> BytePopcountSum(part[c])]
    OBVIOUS
  <2>. QED  BY <1>1, <2>1 DEF FastCountNewlySet, BitsOver
<1>6. CountNewlySet(Tail32(a), Tail32(b)) = BitsIn(rest, n - TailStart(n))
  <2> DEFINE m == n - TailStart(n)
             u == Tail32(a)
             v == Tail32(b)
  <2>1. Alike(u, v) /\ Len(u) = m
    BY AlikeParts
  <2> HIDE DEF u, v, m
  <2>2. DOMAIN u = 1..m /\ m \in Nat
    BY <2>1 DEF Alike, Bytes
  <2>3. CountNewlySet(u, v) = BitsIn(AndNot(u, v), m)
    BY <2>2, NewlySetIs
  <2>. QED  BY <2>3 DEF u, v, m
<1>7. CountNewlySet(a, b) = BitsIn(e, n)
  BY <1>1, NewlySetIs
<1> HIDE DEF n, part, rest, e
<1>8. BitsOver(part, n) + BitsIn(rest, n - TailStart(n)) = BitsIn(e, n)
  BY <1>1, <1>2, <1>3, <1>4, BitsByChunks
<1>. QED  BY <1>5, <1>6, <1>7, <1>8

LEMMA DifferParts ==
  ASSUME NEW a, NEW b, Alike(a, b)
  PROVE  /\ Differ(a, b) \in SUBSET (0..(Len(a) - 1))
         /\ \A c \in Chunks(Len(a)) : LanesApart(a, b, c) = InLanes(Differ(a, b), c)
         /\ Differ(Tail32(a), Tail32(b)) = AfterAll(Differ(a, b), Len(a))
<1>1. Width \in Nat \ {0} /\ Len(a) \in Nat
  BY WidthAssumption DEF Alike, Bytes
<1>2. Differ(a, b) = {i \in 0..(Len(a) - 1) : a[i + 1] # b[i + 1]}
  BY DEF Differ, Offsets, At
<1>3. ASSUME NEW c \in Chunks(Len(a)) PROVE LanesApart(a, b, c) = InLanes(Differ(a, b), c)
  <2> DEFINE u == Load(a, StartOf(c))
             v == Load(b, StartOf(c))
  <2>1. StartOf(c) \in Nat
    BY <1>1, Chunking
  <2>2. /\ Alike(u, v) /\ Len(u) = Width
        /\ \A k \in 1..Width : StartOf(c) + k \in 1..Len(a) /\ u[k] = a[StartOf(c) + k] /\ v[k] = b[StartOf(c) + k]
    BY AlikeChunk
  <2>3. LanesApart(a, b, c) = {k \in 0..(Width - 1) : XorInto(u, v)[k + 1] # {}}
    BY DEF LanesApart, Lanes32, At
  <2> HIDE DEF u, v
  <2>4. DOMAIN u = 1..Width
    BY <2>2 DEF Alike, Bytes
  <2>5. \A k \in 0..(Width - 1) : /\ k + 1 \in 1..Width /\ StartOf(c) + (k + 1) = (StartOf(c) + k) + 1
    BY <1>1, <2>1
  <2>6. \A k \in 0..(Width - 1) : /\ u[k + 1] = a[(StartOf(c) + k) + 1] /\ v[k + 1] = b[(StartOf(c) + k) + 1]
                                  /\ (StartOf(c) + k) + 1 \in 1..Len(a)
    BY <2>2, <2>5
  <2>7. \A k \in 0..(Width - 1) : StartOf(c) + k \in 0..(Len(a) - 1)
    BY <1>1, <2>1, <2>6
  <2>8. \A k \in 0..(Width - 1) : XorInto(u, v)[k + 1] # {} <=> u[k + 1] # v[k + 1]
    <3> TAKE k \in 0..(Width - 1)
    <3>1. XorInto(u, v)[k + 1] = (u[k + 1] \ v[k + 1]) \cup (v[k + 1] \ u[k + 1])
      BY <2>4, <2>5 DEF XorInto, Xor
    <3>. QED  BY <3>1
  <2>. QED  BY <1>2, <2>3, <2>6, <2>7, <2>8 DEF InLanes
<1>4. Differ(Tail32(a), Tail32(b)) = AfterAll(Differ(a, b), Len(a))
  <2> DEFINE n == Len(a)
             T == TailStart(n)
             u == Tail32(a)
             v == Tail32(b)
  <2>1. T \in Nat /\ n \in Nat /\ T <= n
    BY <1>1, Chunking
  <2>2. Len(u) = n - T /\ \A k \in 1..(n - T) : T + k \in 1..n /\ u[k] = a[T + k] /\ v[k] = b[T + k]
    BY AlikeParts
  <2> HIDE DEF n, T, u, v
  <2>3. \A k \in 0..(n - T - 1) : k + 1 \in 1..(n - T) /\ T + (k + 1) = (T + k) + 1
    BY <2>1
  <2>4. \A k \in 0..(n - T - 1) : u[k + 1] = a[(T + k) + 1] /\ v[k + 1] = b[(T + k) + 1] /\ T + k \in 0..(n - 1)
    BY <2>1, <2>2, <2>3
  <2>5. Differ(u, v) = {k \in 0..(n - T - 1) : u[k + 1] # v[k + 1]}
    BY <2>2 DEF Differ, Offsets, At
  <2>. QED  BY <1>2, <2>4, <2>5 DEF AfterAll, n, T, u, v
<1>. QED  BY <1>2, <1>3, <1>4

LEMMA MismatchCountSame ==
  ASSUME NEW a, NEW b, Alike(a, b)
  PROVE  FastMismatchCount(a, b) = MismatchCount(a, b)
<1>1. Len(a) \in Nat
  BY DEF Alike, Bytes
<1>2. [c \in Chunks(Len(a)) |-> Cardinality(LanesApart(a, b, c))]
      = [c \in Chunks(Len(a)) |-> Cardinality(InLanes(Differ(a, b), c))]
  BY DifferParts
<1>3. SumOf([c \in Chunks(Len(a)) |-> Cardinality(InLanes(Differ(a, b), c))])
      + Cardinality(AfterAll(Differ(a, b), Len(a))) = Cardinality(Differ(a, b))
  BY <1>1, DifferParts, CountChunks
<1>. QED  BY <1>2, <1>3, DifferParts DEF FastMismatchCount, MismatchCount

-----------------------------------------------------------------------------
(* Joining the pieces.                                                     *)
LEMMA FlatIs ==
  ASSUME NEW X, NEW ss \in Seq(Seq(X)), NEW U \in [0..Len(ss) -> Seq(X)],
         U[0] = <<>>, \A i \in 1..Len(ss) : U[i] = U[i - 1] \o ss[i]
  PROVE  FlattenSeq(ss) = U[Len(ss)]
<1> DEFINE n == Len(ss)
           Body(f) == [i \in 1..n |-> IF i = 1 THEN ss[i] ELSE f[i - 1] \o ss[i]]
           flatten == CHOOSE f : f = Body(f)
<1>1. n \in Nat /\ \A i \in 1..n : ss[i] \in Seq(X)
  OBVIOUS
<1>2. CASE n = 0
  <2>1. ss = <<>>
    BY <1>2
  <2>2. FlattenSeq(ss) = ss
    BY <1>2 DEF FlattenSeq
  <2>. QED  BY <1>2, <2>1, <2>2
<1>3. CASE n # 0
  <2>1. FlattenSeq(ss) = flatten[n]
    BY <1>3 DEF FlattenSeq
  <2> HIDE DEF n
  <2>2. U \in [0..n -> Seq(X)] /\ U[0] = <<>> /\ \A i \in 1..n : U[i] = U[i - 1] \o ss[i]
    BY DEF n
  <2> DEFINE V == [i \in 1..n |-> U[i]]
  <2>3. 1 \in 1..n /\ U[1] = ss[1]
    <3>1. 1 \in 1..n /\ 1 - 1 = 0
      BY <1>1, <1>3
    <3>2. U[1] = <<>> \o ss[1] /\ ss[1] \in Seq(X)
      BY <1>1, <2>2, <3>1
    <3>. QED  BY <3>1, <3>2
  <2>4. V = Body(V)
    <3>1. \A i \in 1..n : V[i] = IF i = 1 THEN ss[i] ELSE V[i - 1] \o ss[i]
      <4> TAKE i \in 1..n
      <4>1. CASE i = 1
        BY <2>3, <4>1
      <4>2. CASE i # 1
        <5>1. i - 1 \in 1..n
          BY <1>1, <4>2
        <5>. QED  BY <2>2, <4>2, <5>1
      <4>. QED  BY <4>1, <4>2
    <3>. QED  BY <3>1
  <2>5. flatten = Body(flatten)
    BY <2>4
  <2> HIDE DEF flatten, V
  <2> DEFINE W == [i \in 0..n |-> IF i = 0 THEN <<>> ELSE flatten[i]]
  <2>6. SameStep(W, U, n)
    <3>1. W[0] = U[0]
      BY <1>1, <2>2
    <3>2. \A i \in 1..n : W[i - 1] = U[i - 1] => W[i] = U[i]
      <4> TAKE i \in 1..n
      <4>1. i \in 0..n /\ i # 0 /\ i - 1 \in 0..n
        BY <1>1
      <4>2. CASE i = 1
        BY <2>3, <2>5, <4>1, <4>2
      <4>3. CASE i # 1
        <5>1. i - 1 \in 1..n /\ i - 1 # 0
          BY <1>1, <4>3
        <5>2. flatten[i] = flatten[i - 1] \o ss[i]
          BY <2>5, <4>3
        <5>. QED  BY <2>2, <4>1, <5>1, <5>2
      <4>. QED  BY <4>2, <4>3
    <3>. QED  BY <3>1, <3>2 DEF SameStep
  <2>7. W[n] = U[n]
    <3> HIDE DEF W
    <3>1. \A i \in 0..n : W[i] = U[i]
      BY <1>1, <2>6, SameSteps
    <3>. QED  BY <1>1, <3>1
  <2>8. n \in 0..n
    BY <1>1
  <2>9. W[n] = flatten[n]
    BY <1>3, <2>8
  <2>. QED  BY <2>1, <2>7, <2>9 DEF n
<1>. QED  BY <1>2, <1>3

(* What lies before each chunk, when the pieces grow it chunk by chunk.    *)
LEMMA PiecesJoin ==
  ASSUME NEW X, NEW n \in Nat, NEW piece \in [Chunks(n) -> Seq(X)],
         NEW U \in [0..(n \div Width) -> Seq(X)], U[0] = <<>>,
         \A c \in Chunks(n) : U[c] = U[c - 1] \o piece[c]
  PROVE  FlattenSeq(piece) = U[n \div Width]
<1> DEFINE C == n \div Width
           ss == piece
           V == U
<1>1. C \in Nat /\ Chunks(n) = 1..C
  BY Chunking DEF Chunks
<1> HIDE DEF C
<1>2. ss \in [1..C -> Seq(X)]
  BY <1>1
<1>3. ss \in Seq(Seq(X)) /\ Len(ss) = C
  BY <1>1, <1>2
<1>4. V \in [0..C -> Seq(X)] /\ V[0] = <<>>
  BY DEF C
<1>5. \A c \in 1..C : V[c] = V[c - 1] \o ss[c]
  <2> TAKE c \in 1..C
  <2>1. c \in 0..C /\ c - 1 \in 0..C
    BY <1>1
  <2>. QED  BY <1>1, <2>1
<1>6. V[C] = U[C]
  BY <1>1
<1> HIDE DEF V, ss
<1>7. FlattenSeq(ss) = V[C]
  BY <1>3, <1>4, <1>5, FlatIs
<1>. QED  BY <1>6, <1>7 DEF ss, C

(* The chunks and the tail of a buffer, joined, are the buffer.            *)
LEMMA Rejoin ==
  ASSUME NEW X, NEW s \in Seq(X)
  PROVE  FlattenSeq([c \in Chunks(Len(s)) |-> Load(s, StartOf(c))]) \o Tail32(s) = s
<1> DEFINE n == Len(s)
           C == n \div Width
           piece == [c \in Chunks(n) |-> Load(s, StartOf(c))]
           U == [c \in 0..C |-> SubSeq(s, 1, StartOf(c + 1))]
<1>1. n \in Nat /\ Width \in Nat
  BY WidthAssumption
<1>2. C \in Nat /\ StartOf(1) = 0 /\ StartOf(C + 1) = TailStart(n) /\ TailStart(n) \in 0..n
  BY <1>1, Chunking
<1>3. \A c \in Chunks(n) : c \in 1..C /\ StartOf(c + 1) \in 0..n
  <2> TAKE c \in Chunks(n)
  <2>1. StartOf(c) \in Nat /\ StartOf(c) + Width = StartOf(c + 1) /\ StartOf(c + 1) <= TailStart(n)
    BY <1>1, Chunking
  <2> HIDE DEF n, C
  <2>. QED  BY <1>1, <1>2, <2>1 DEF Chunks, C
<1>4. \A c \in Chunks(n) : /\ Load(s, StartOf(c)) \in Seq(X)
                           /\ SubSeq(s, 1, StartOf(c + 1)) = SubSeq(s, 1, StartOf(c)) \o Load(s, StartOf(c))
  BY Loads
<1>5. s = SubSeq(s, 1, TailStart(n)) \o Tail32(s)
  BY Loads
<1>6. Chunks(n) = 1..C
  BY DEF Chunks
<1> HIDE DEF C, n
<1>7. \A c \in 0..C : U[c] \in Seq(X)
  <2> TAKE c \in 0..C
  <2>1. StartOf(c + 1) \in Int /\ StartOf(c + 1) <= Len(s)
    <3>1. CASE c = 0
      BY <1>1, <1>2, <3>1 DEF n
    <3>2. CASE c # 0
      <4>1. c \in Chunks(n)
        BY <1>2, <1>6, <3>2
      <4>. QED  BY <1>1, <1>3, <4>1 DEF n
    <3>. QED  BY <3>1, <3>2
  <2>2. SubSeq(s, 1, StartOf(c + 1)) \in Seq(X)
    BY <2>1
  <2>. QED  BY <2>2
<1>8. U[0] = <<>>
  BY <1>2
<1>9. \A c \in Chunks(n) : piece[c] \in Seq(X) /\ U[c] = U[c - 1] \o piece[c]
  <2> TAKE c \in Chunks(n)
  <2>1. c \in 0..C /\ c - 1 \in 0..C /\ (c - 1) + 1 = c
    BY <1>2, <1>6
  <2>. QED  BY <1>4, <2>1
<1>10. U[C] = SubSeq(s, 1, TailStart(n))
  BY <1>2
<1>11. piece \in [Chunks(n) -> Seq(X)] /\ U \in [0..C -> Seq(X)]
  BY <1>7, <1>9
<1> HIDE DEF piece, U
<1>12. FlattenSeq(piece) = U[C]
  BY <1>1, <1>8, <1>9, <1>11, PiecesJoin DEF C
<1>. QED  BY <1>5, <1>10, <1>11, <1>12 DEF piece, n

(* Any byte the lanes can make.                                            *)
AnyBits == SUBSET (UNION Cells)

(* What a lane-wise operation makes of chunks and tail is what it makes of *)
(* the whole.                                                              *)
Divided(r, n, part, rest) ==
  /\ n \in Nat /\ r \in Seq(AnyBits) /\ Len(r) = n /\ part \in [Chunks(n) -> Seq(AnyBits)]
  /\ \A c \in Chunks(n) : Len(part[c]) = Width /\ \A k \in 1..Width : part[c][k] = r[StartOf(c) + k]
  /\ rest \in Seq(AnyBits) /\ Len(rest) = n - TailStart(n)
  /\ \A k \in 1..(n - TailStart(n)) : rest[k] = r[TailStart(n) + k]

LEMMA LanewiseIs ==
  ASSUME NEW r, NEW n, NEW part, NEW rest, Divided(r, n, part, rest)
  PROVE  FlattenSeq(part) \o rest = r
<1> USE DEF Divided
<1>1. \A c \in Chunks(n) : part[c] = Load(r, StartOf(c))
  <2> TAKE c \in Chunks(n)
  <2>1. /\ Load(r, StartOf(c)) \in Seq(AnyBits) /\ Len(Load(r, StartOf(c))) = Width
        /\ \A k \in 1..Width : Load(r, StartOf(c))[k] = r[StartOf(c) + k]
    BY Loads
  <2> DEFINE u == part[c]
             v == Load(r, StartOf(c))
  <2>2. /\ u \in Seq(AnyBits) /\ Len(u) = Width /\ v \in Seq(AnyBits) /\ Len(v) = Width
        /\ \A k \in 1..Width : u[k] = v[k]
    BY <2>1
  <2> HIDE DEF u, v
  <2>3. u = v
    BY <2>2, WidthAssumption, SameSeq
  <2>. QED  BY <2>3 DEF u, v
<1>2. rest = Tail32(r)
  <2> DEFINE m == n - TailStart(n)
             v == Tail32(r)
  <2>1. TailStart(n) \in 0..n
    BY Chunking
  <2>2. v \in Seq(AnyBits) /\ Len(v) = m /\ \A k \in 1..m : v[k] = r[TailStart(n) + k]
    BY Loads
  <2>3. m \in Nat
    BY <2>1
  <2>4. Len(rest) = m /\ \A k \in 1..m : rest[k] = v[k]
    BY <2>2
  <2> HIDE DEF m, v
  <2>5. rest = v
    BY <2>2, <2>3, <2>4, SameSeq
  <2>. QED  BY <2>5 DEF v
<1>3. part = [c \in Chunks(n) |-> Load(r, StartOf(c))]
  BY <1>1
<1>4. FlattenSeq([c \in Chunks(Len(r)) |-> Load(r, StartOf(c))]) \o Tail32(r) = r
  BY Rejoin
<1>. QED  BY <1>2, <1>3, <1>4

LEMMA MergeSame ==
  ASSUME NEW a, NEW b, Alike(a, b)
  PROVE  FastMerge(a, b) = MergeInto(a, b)
<1> DEFINE n == Len(a)
           r == MergeInto(a, b)
           part == [c \in Chunks(n) |-> MergeInto(Load(a, StartOf(c)), Load(b, StartOf(c)))]
           rest == MergeInto(Tail32(a), Tail32(b))
<1>1. n \in Nat /\ DOMAIN a = 1..n /\ Width \in Nat /\ \A i \in 1..n : a[i] \cup b[i] \in AnyBits
  BY AlikeParts, WidthAssumption DEF AnyBits
<1>2. r \in [1..n -> AnyBits] /\ \A i \in 1..n : r[i] = a[i] \cup b[i]
  BY <1>1 DEF MergeInto
<1>3. r \in Seq(AnyBits) /\ Len(r) = n
  <2> HIDE DEF r
  <2>. QED  BY <1>1, <1>2
<1>4. ASSUME NEW c \in Chunks(n)
      PROVE  /\ part[c] \in Seq(AnyBits) /\ Len(part[c]) = Width
             /\ \A k \in 1..Width : part[c][k] = r[StartOf(c) + k]
  <2> DEFINE u == Load(a, StartOf(c))
             v == Load(b, StartOf(c))
             w == MergeInto(u, v)
  <2>1. /\ Alike(u, v) /\ Len(u) = Width
        /\ \A k \in 1..Width : StartOf(c) + k \in 1..n /\ u[k] = a[StartOf(c) + k] /\ v[k] = b[StartOf(c) + k]
    BY AlikeChunk
  <2>2. part[c] = w
    OBVIOUS
  <2> HIDE DEF u, v, part, r
  <2>3. DOMAIN u = 1..Width
    BY <2>1 DEF Alike, Bytes
  <2>4. \A k \in 1..Width : w[k] = r[StartOf(c) + k] /\ w[k] \in AnyBits
    BY <1>1, <1>2, <2>1, <2>3 DEF MergeInto
  <2>5. w \in [1..Width -> AnyBits]
    BY <2>3, <2>4 DEF MergeInto
  <2> HIDE DEF w
  <2>6. w \in Seq(AnyBits) /\ Len(w) = Width
    BY <1>1, <2>5
  <2>. QED  BY <2>2, <2>4, <2>6
<1>5. /\ rest \in Seq(AnyBits) /\ Len(rest) = n - TailStart(n)
      /\ \A k \in 1..(n - TailStart(n)) : rest[k] = r[TailStart(n) + k]
  <2> DEFINE u == Tail32(a)
             v == Tail32(b)
             m == n - TailStart(n)
             w == MergeInto(u, v)
  <2>1. /\ Alike(u, v) /\ Len(u) = m
        /\ \A k \in 1..m : TailStart(n) + k \in 1..n /\ u[k] = a[TailStart(n) + k] /\ v[k] = b[TailStart(n) + k]
    BY AlikeParts
  <2>2. rest = w
    OBVIOUS
  <2>3. m = n - TailStart(n)
    OBVIOUS
  <2> HIDE DEF u, v, m, r, rest
  <2>4. DOMAIN u = 1..m /\ m \in Nat
    BY <2>1 DEF Alike, Bytes
  <2>5. \A k \in 1..m : w[k] = r[TailStart(n) + k] /\ w[k] \in AnyBits
    BY <1>1, <1>2, <2>1, <2>4 DEF MergeInto
  <2>6. w \in [1..m -> AnyBits]
    BY <2>4, <2>5 DEF MergeInto
  <2> HIDE DEF w
  <2>7. w \in Seq(AnyBits) /\ Len(w) = m
    BY <2>4, <2>6
  <2>. QED  BY <2>3, <2>2, <2>5, <2>7
<1>6. FastMerge(a, b) = FlattenSeq(part) \o rest
  BY DEF FastMerge, Lanewise
<1>7. part \in [Chunks(n) -> Seq(AnyBits)]
  BY <1>4
<1> HIDE DEF n, r, part, rest
<1>8. Divided(r, n, part, rest)
  BY <1>1, <1>3, <1>4, <1>5, <1>7 DEF Divided
<1>9. FlattenSeq(part) \o rest = r
  BY <1>8, LanewiseIs
<1>. QED  BY <1>6, <1>9 DEF r

LEMMA XorSame ==
  ASSUME NEW a, NEW b, Alike(a, b)
  PROVE  FastXor(a, b) = XorInto(a, b)
<1> DEFINE n == Len(a)
           r == XorInto(a, b)
           part == [c \in Chunks(n) |-> XorInto(Load(a, StartOf(c)), Load(b, StartOf(c)))]
           rest == XorInto(Tail32(a), Tail32(b))
<1>1. n \in Nat /\ DOMAIN a = 1..n /\ Width \in Nat /\ \A i \in 1..n : Xor(a[i], b[i]) \in AnyBits
  BY AlikeParts, WidthAssumption DEF AnyBits, Xor
<1>2. r \in [1..n -> AnyBits] /\ \A i \in 1..n : r[i] = Xor(a[i], b[i])
  BY <1>1 DEF XorInto, Xor
<1>3. r \in Seq(AnyBits) /\ Len(r) = n
  <2> HIDE DEF r
  <2>. QED  BY <1>1, <1>2
<1>4. ASSUME NEW c \in Chunks(n)
      PROVE  /\ part[c] \in Seq(AnyBits) /\ Len(part[c]) = Width
             /\ \A k \in 1..Width : part[c][k] = r[StartOf(c) + k]
  <2> DEFINE u == Load(a, StartOf(c))
             v == Load(b, StartOf(c))
             w == XorInto(u, v)
  <2>1. /\ Alike(u, v) /\ Len(u) = Width
        /\ \A k \in 1..Width : StartOf(c) + k \in 1..n /\ u[k] = a[StartOf(c) + k] /\ v[k] = b[StartOf(c) + k]
    BY AlikeChunk
  <2>2. part[c] = w
    OBVIOUS
  <2> HIDE DEF u, v, part, r
  <2>3. DOMAIN u = 1..Width
    BY <2>1 DEF Alike, Bytes
  <2>4. \A k \in 1..Width : w[k] = r[StartOf(c) + k] /\ w[k] \in AnyBits
    BY <1>1, <1>2, <2>1, <2>3 DEF XorInto, Xor
  <2>5. w \in [1..Width -> AnyBits]
    BY <2>3, <2>4 DEF XorInto, Xor
  <2> HIDE DEF w
  <2>6. w \in Seq(AnyBits) /\ Len(w) = Width
    BY <1>1, <2>5
  <2>. QED  BY <2>2, <2>4, <2>6
<1>5. /\ rest \in Seq(AnyBits) /\ Len(rest) = n - TailStart(n)
      /\ \A k \in 1..(n - TailStart(n)) : rest[k] = r[TailStart(n) + k]
  <2> DEFINE u == Tail32(a)
             v == Tail32(b)
             m == n - TailStart(n)
             w == XorInto(u, v)
  <2>1. /\ Alike(u, v) /\ Len(u) = m
        /\ \A k \in 1..m : TailStart(n) + k \in 1..n /\ u[k] = a[TailStart(n) + k] /\ v[k] = b[TailStart(n) + k]
    BY AlikeParts
  <2>2. rest = w
    OBVIOUS
  <2>3. m = n - TailStart(n)
    OBVIOUS
  <2> HIDE DEF u, v, m, r, rest
  <2>4. DOMAIN u = 1..m /\ m \in Nat
    BY <2>1 DEF Alike, Bytes
  <2>5. \A k \in 1..m : w[k] = r[TailStart(n) + k] /\ w[k] \in AnyBits
    BY <1>1, <1>2, <2>1, <2>4 DEF XorInto, Xor
  <2>6. w \in [1..m -> AnyBits]
    BY <2>4, <2>5 DEF XorInto, Xor
  <2> HIDE DEF w
  <2>7. w \in Seq(AnyBits) /\ Len(w) = m
    BY <2>4, <2>6
  <2>. QED  BY <2>3, <2>2, <2>5, <2>7
<1>6. FastXor(a, b) = FlattenSeq(part) \o rest
  BY DEF FastXor, Lanewise
<1>7. part \in [Chunks(n) -> Seq(AnyBits)]
  BY <1>4
<1> HIDE DEF n, r, part, rest
<1>8. Divided(r, n, part, rest)
  BY <1>1, <1>3, <1>4, <1>5, <1>7 DEF Divided
<1>9. FlattenSeq(part) \o rest = r
  BY <1>8, LanewiseIs
<1>. QED  BY <1>6, <1>9 DEF r

LEMMA ClearSame ==
  ASSUME NEW a \in Bytes
  PROVE  FastClear(a) = Zeros(a)
<1>1. Alike(a, a)
  BY DEF Alike
<1> DEFINE n == Len(a)
           r == Zeros(a)
           part == [c \in Chunks(n) |-> Zeros(Load(a, StartOf(c)))]
           rest == Zeros(Tail32(a))
<1>2. n \in Nat /\ {} \in AnyBits /\ DOMAIN a = 1..n /\ Width \in Nat
  BY <1>1, AlikeParts, WidthAssumption DEF AnyBits
<1>3. r \in [1..n -> AnyBits] /\ \A i \in 1..n : r[i] = {}
  BY <1>2 DEF Zeros
<1>4. r \in Seq(AnyBits) /\ Len(r) = n
  <2> HIDE DEF r
  <2>. QED  BY <1>2, <1>3
<1>5. ASSUME NEW c \in Chunks(n)
      PROVE  /\ part[c] \in Seq(AnyBits) /\ Len(part[c]) = Width
             /\ \A k \in 1..Width : part[c][k] = r[StartOf(c) + k]
  <2> DEFINE u == Load(a, StartOf(c))
             w == Zeros(u)
  <2>1. /\ Alike(u, u) /\ Len(u) = Width
        /\ \A k \in 1..Width : StartOf(c) + k \in 1..n /\ u[k] = a[StartOf(c) + k]
    BY <1>1, AlikeChunk
  <2>2. part[c] = w
    OBVIOUS
  <2> HIDE DEF u, part, r
  <2>3. DOMAIN u = 1..Width
    BY <2>1 DEF Alike, Bytes
  <2>4. \A k \in 1..Width : w[k] = r[StartOf(c) + k] /\ w[k] \in AnyBits
    BY <1>2, <1>3, <2>1, <2>3 DEF Zeros
  <2>5. w \in [1..Width -> AnyBits]
    BY <2>3, <2>4 DEF Zeros
  <2> HIDE DEF w
  <2>6. w \in Seq(AnyBits) /\ Len(w) = Width
    BY <1>2, <2>5
  <2>. QED  BY <2>2, <2>4, <2>6
<1>6. /\ rest \in Seq(AnyBits) /\ Len(rest) = n - TailStart(n)
      /\ \A k \in 1..(n - TailStart(n)) : rest[k] = r[TailStart(n) + k]
  <2> DEFINE u == Tail32(a)
             m == n - TailStart(n)
             w == Zeros(u)
  <2>1. /\ Alike(u, u) /\ Len(u) = m
        /\ \A k \in 1..m : TailStart(n) + k \in 1..n /\ u[k] = a[TailStart(n) + k]
    BY <1>1, AlikeParts
  <2>2. rest = w
    OBVIOUS
  <2>3. m = n - TailStart(n)
    OBVIOUS
  <2> HIDE DEF u, m, r, rest
  <2>4. DOMAIN u = 1..m /\ m \in Nat
    BY <2>1 DEF Alike, Bytes
  <2>5. \A k \in 1..m : w[k] = r[TailStart(n) + k] /\ w[k] \in AnyBits
    BY <1>2, <1>3, <2>1, <2>4 DEF Zeros
  <2>6. w \in [1..m -> AnyBits]
    BY <2>4, <2>5 DEF Zeros
  <2> HIDE DEF w
  <2>7. w \in Seq(AnyBits) /\ Len(w) = m
    BY <2>4, <2>6
  <2>. QED  BY <2>3, <2>2, <2>5, <2>7
<1>7. FastClear(a) = FlattenSeq(part) \o rest
  BY DEF FastClear, Lanewise
<1>8. part \in [Chunks(n) -> Seq(AnyBits)]
  BY <1>5
<1> HIDE DEF n, r, part, rest
<1>9. Divided(r, n, part, rest)
  BY <1>2, <1>4, <1>5, <1>6, <1>8 DEF Divided
<1>10. FlattenSeq(part) \o rest = r
  BY <1>9, LanewiseIs
<1>. QED  BY <1>7, <1>10 DEF r


-----------------------------------------------------------------------------
(* The first and the last of a set of positions.                           *)
LEMMA Largest ==
  ASSUME NEW n \in Nat, NEW T \in SUBSET (0..n), T # {}
  PROVE  \E k \in T : \A j \in T : j <= k
<1> DEFINE S == {x \in 0..n : n - x \in T}
<1>1. S \subseteq Nat /\ S # {}
  <2>1. PICK t \in T : TRUE
    OBVIOUS
  <2>2. t \in 0..n /\ n - t \in 0..n /\ n - (n - t) = t
    OBVIOUS
  <2>3. n - t \in S
    BY <2>2
  <2>. QED  BY <2>3
<1>2. PICK k \in S : \A j \in S : k <= j
  <2> HIDE DEF S
  <2>. QED  BY <1>1, Smallest
<1>3. n - k \in T /\ k \in 0..n
  BY <1>2
<1>4. \A j \in T : j <= n - k
  <2> TAKE j \in T
  <2>1. j \in 0..n /\ n - j \in 0..n /\ n - (n - j) = j
    OBVIOUS
  <2>2. k <= n - j
    BY <1>2, <2>1
  <2>. QED  BY <1>3, <2>1, <2>2
<1>. QED  BY <1>3, <1>4

LEMMA MinUnique ==
  ASSUME NEW P \in SUBSET Nat, NEW m \in P, \A y \in P : m <= y
  PROVE  Min(P) = m
<1>1. \A w \in P : (\A y \in P : w <= y) => w = m
  BY DEF Min
<1>. QED  BY <1>1 DEF Min

LEMMA MaxUnique ==
  ASSUME NEW P \in SUBSET Nat, NEW m \in P, \A y \in P : y <= m
  PROVE  Max(P) = m
<1>1. \A w \in P : (\A y \in P : w >= y) => w = m
  OBVIOUS
<1>. QED  BY <1>1 DEF Max

LEMMA MinIs ==
  ASSUME NEW P \in SUBSET Nat, P # {}
  PROVE  Min(P) \in P /\ \A y \in P : Min(P) <= y
<1>1. PICK m \in P : \A y \in P : m <= y
  BY Smallest
<1>. QED  BY <1>1, MinUnique

LEMMA MaxIs ==
  ASSUME NEW n \in Nat, NEW P \in SUBSET (0..n), P # {}
  PROVE  Max(P) \in P /\ \A y \in P : y <= Max(P)
<1>1. PICK m \in P : \A y \in P : y <= m
  BY Largest
<1>2. P \in SUBSET Nat
  OBVIOUS
<1>. QED  BY <1>1, <1>2, MaxUnique

(* Every offset is in a chunk or in the tail; a later chunk's follow an    *)
(* earlier one's.                                                          *)
LEMMA Locate ==
  ASSUME NEW n \in Nat, NEW x \in 0..(n - 1)
  PROVE  \/ \E c \in Chunks(n) : \E k \in 0..(Width - 1) : x = StartOf(c) + k
         \/ \E k \in 0..(n - TailStart(n) - 1) : x = TailStart(n) + k
<1> DEFINE C == n \div Width
           q == x \div Width
           k == x % Width
<1>1. Width \in Nat \ {0} /\ TailStart(n) \in 0..n /\ StartOf(C + 1) = TailStart(n) /\ C \in Nat
  BY WidthAssumption, Chunking
<1>2. q \in Nat /\ k \in 0..(Width - 1) /\ x = Width * q + k
  <2>1. x \in Nat
    OBVIOUS
  <2>. QED  BY <1>1, <2>1, Division
<1>3. CASE q < C
  <2>1. q + 1 \in Chunks(n) /\ (q + 1) - 1 = q
    BY <1>1, <1>2, <1>3 DEF Chunks
  <2>2. q * Width = Width * q
    BY <1>1, <1>2
  <2>. QED  BY <1>2, <2>1, <2>2 DEF StartOf
<1>4. CASE q >= C
  <2>1. StartOf(C + 1) = C * Width
    BY <1>1 DEF StartOf
  <2> HIDE DEF C, q, k
  <2>2. C * Width <= Width * q
    BY <1>1, <1>2, <1>4, Z3
  <2>3. x \in Nat /\ x < n
    OBVIOUS
  <2>4. TailStart(n) <= x
    BY <1>1, <1>2, <2>1, <2>2
  <2>5. x - TailStart(n) \in 0..(n - TailStart(n) - 1) /\ x = TailStart(n) + (x - TailStart(n))
    BY <1>1, <2>3, <2>4
  <2>. QED  BY <2>5
<1>5. q < C \/ q >= C
  <2> HIDE DEF q, C
  <2>. QED  BY <1>1, <1>2
<1>. QED  BY <1>3, <1>4, <1>5

LEMMA ChunkOrder ==
  ASSUME NEW n \in Nat, NEW b \in Chunks(n), NEW c \in Chunks(n), b < c
  PROVE  StartOf(b) + Width <= StartOf(c)
<1>1. Width \in Nat /\ b \in Nat /\ c \in Nat /\ StartOf(b) + Width = StartOf(b + 1)
  BY WidthAssumption, Chunking
<1>2. ((b + 1) - 1) * Width <= (c - 1) * Width
  BY <1>1, Z3
<1>. QED  BY <1>1, <1>2 DEF StartOf

(* The chunks that hold a position of a set.                               *)
Holding(P, n) == {c \in Chunks(n) : InLanes(P, c) # {}}

LEMMA Held ==
  ASSUME NEW n \in Nat, NEW P \in SUBSET (0..(n - 1))
  PROVE  /\ Holding(P, n) \in SUBSET (0..n) /\ Holding(P, n) \subseteq Chunks(n)
         /\ \A c \in Chunks(n) : InLanes(P, c) \in SUBSET (0..Width)
         /\ AfterAll(P, n) \in SUBSET (0..n)
         /\ P \in SUBSET (0..n)
<1>1. Width \in Nat \ {0} /\ TailStart(n) \in 0..n
  BY WidthAssumption, Chunking
<1>2. n \div Width <= n
  <2>1. n \div Width \in Nat /\ Width * (n \div Width) <= n
    BY <1>1, Division
  <2> DEFINE q == n \div Width
  <2> HIDE DEF q
  <2>2. q \in Nat /\ Width * q <= n
    BY <2>1 DEF q
  <2>3. q <= Width * q
    BY <1>1, <2>2, Z3
  <2>4. Width * q \in Nat
    BY <1>1, <2>2
  <2>5. q <= n
    BY <2>2, <2>3, <2>4
  <2>. QED  BY <2>5 DEF q
<1>3. n \div Width \in Nat
  BY Chunking
<1>4. Chunks(n) \in SUBSET (0..n)
  BY <1>2, <1>3 DEF Chunks
<1>5. Holding(P, n) \in SUBSET (0..n) /\ Holding(P, n) \subseteq Chunks(n)
  BY <1>4 DEF Holding
<1>6. \A c \in Chunks(n) : InLanes(P, c) \in SUBSET (0..Width)
  BY <1>1 DEF InLanes
<1>7. AfterAll(P, n) \in SUBSET (0..n)
  BY <1>1 DEF AfterAll
<1>. QED  BY <1>5, <1>6, <1>7

LEMMA EmptyParts ==
  ASSUME NEW n \in Nat, NEW P \in SUBSET (0..(n - 1)), Holding(P, n) = {}, AfterAll(P, n) = {}
  PROVE  P = {}
<1> SUFFICES ASSUME NEW x \in P PROVE FALSE
  OBVIOUS
<1>1. CASE \E c \in Chunks(n) : \E k \in 0..(Width - 1) : x = StartOf(c) + k
  BY <1>1 DEF Holding, InLanes
<1>2. CASE \E k \in 0..(n - TailStart(n) - 1) : x = TailStart(n) + k
  BY <1>2 DEF AfterAll
<1>. QED  BY <1>1, <1>2, Locate

LEMMA FirstByChunks ==
  ASSUME NEW n \in Nat, NEW P \in SUBSET (0..(n - 1))
  PROVE  /\ Holding(P, n) # {} =>
              P # {} /\ Min(P) = StartOf(Min(Holding(P, n))) + Min(InLanes(P, Min(Holding(P, n))))
         /\ Holding(P, n) = {} /\ AfterAll(P, n) # {} =>
              P # {} /\ Min(P) = TailStart(n) + Min(AfterAll(P, n))
<1>1. Width \in Nat \ {0} /\ TailStart(n) \in 0..n /\ P \in SUBSET Nat
  <2>1. Width \in Nat \ {0}
    BY WidthAssumption
  <2>2. TailStart(n) \in 0..n
    BY Chunking
  <2>3. P \in SUBSET Nat
    OBVIOUS
  <2>. QED  BY <2>1, <2>2, <2>3
<1>2. ASSUME Holding(P, n) # {}
      PROVE  P # {} /\ Min(P) = StartOf(Min(Holding(P, n))) + Min(InLanes(P, Min(Holding(P, n))))
  <2> DEFINE c == Min(Holding(P, n))
             S == InLanes(P, c)
             m == StartOf(c) + Min(S)
  <2>1. c \in Holding(P, n) /\ \A b \in Holding(P, n) : c <= b
    <3>1. Holding(P, n) \in SUBSET Nat
      BY Held
    <3>. QED  BY <1>2, <3>1, MinIs
  <2> HIDE DEF c
  <2>2. c \in Chunks(n) /\ S # {}
    BY <2>1 DEF Holding
  <2>3. S \in SUBSET Nat /\ S \subseteq 0..(Width - 1)
    BY <1>1 DEF InLanes
  <2>4. Min(S) \in S /\ \A k \in S : Min(S) <= k
    <3> HIDE DEF S
    <3>. QED  BY <2>2, <2>3, MinIs
  <2>5. m \in P
    BY <2>4 DEF InLanes
  <2>6. StartOf(c) \in Nat /\ StartOf(c) + Width <= TailStart(n) /\ c \in Nat
    BY <1>1, <2>2, Chunking
  <2>7. Min(S) \in 0..(Width - 1)
    BY <2>3, <2>4
  <2>8. \A y \in P : m <= y
    <3> TAKE y \in P
    <3>1. ASSUME NEW b \in Chunks(n), NEW k \in 0..(Width - 1), y = StartOf(b) + k PROVE m <= y
      <4>1. b \in Holding(P, n) /\ k \in InLanes(P, b)
        BY <3>1 DEF Holding, InLanes
      <4>2. c <= b /\ b \in Nat /\ StartOf(b) \in Nat
        BY <2>1, <4>1, Chunking
      <4>3. CASE c = b
        <5>1. Min(S) <= k
          BY <2>4, <4>1, <4>3
        <5> HIDE DEF S
        <5>. QED  BY <1>1, <2>6, <2>7, <3>1, <4>3, <5>1
      <4>4. CASE c < b
        <5>1. StartOf(c) + Width <= StartOf(b)
          BY <2>2, <4>4, ChunkOrder
        <5> HIDE DEF S
        <5>. QED  BY <1>1, <2>6, <2>7, <3>1, <4>2, <5>1
      <4>. QED  BY <2>6, <4>2, <4>3, <4>4
    <3>2. ASSUME NEW k \in 0..(n - TailStart(n) - 1), y = TailStart(n) + k PROVE m <= y
      <4> HIDE DEF S
      <4>. QED  BY <1>1, <2>6, <2>7, <3>2
    <3>. QED  BY <3>1, <3>2, Locate
  <2>9. Min(P) = m
    <3> HIDE DEF m
    <3>. QED  BY <1>1, <2>5, <2>8, MinUnique
  <2>. QED  BY <2>5, <2>9 DEF c
<1>3. ASSUME Holding(P, n) = {}, AfterAll(P, n) # {}
      PROVE  P # {} /\ Min(P) = TailStart(n) + Min(AfterAll(P, n))
  <2> DEFINE S == AfterAll(P, n)
             m == TailStart(n) + Min(S)
  <2>1. S \in SUBSET Nat
    BY Held
  <2>2. Min(S) \in S /\ \A k \in S : Min(S) <= k
    <3> HIDE DEF S
    <3>1. S # {}
      BY <1>3 DEF S
    <3>. QED  BY <2>1, <3>1, MinIs
  <2>3. m \in P
    BY <2>2 DEF AfterAll
  <2>4. \A y \in P : m <= y
    <3> TAKE y \in P
    <3>1. ASSUME NEW b \in Chunks(n), NEW k \in 0..(Width - 1), y = StartOf(b) + k PROVE FALSE
      BY <1>3, <3>1 DEF Holding, InLanes
    <3>2. ASSUME NEW k \in 0..(n - TailStart(n) - 1), y = TailStart(n) + k PROVE m <= y
      <4>1. k \in S
        BY <3>2 DEF AfterAll
      <4>2. Min(S) <= k /\ Min(S) \in Nat
        BY <2>1, <2>2, <4>1
      <4> HIDE DEF S
      <4>. QED  BY <1>1, <3>2, <4>2
    <3>. QED  BY <3>1, <3>2, Locate
  <2>5. Min(P) = m
    <3> HIDE DEF m
    <3>. QED  BY <1>1, <2>3, <2>4, MinUnique
  <2>. QED  BY <2>3, <2>5
<1>. QED  BY <1>2, <1>3

LEMMA LastByChunks ==
  ASSUME NEW n \in Nat, NEW P \in SUBSET (0..(n - 1))
  PROVE  /\ AfterAll(P, n) # {} =>
              P # {} /\ Max(P) = TailStart(n) + Max(AfterAll(P, n))
         /\ AfterAll(P, n) = {} /\ Holding(P, n) # {} =>
              P # {} /\ Max(P) = StartOf(Max(Holding(P, n))) + Max(InLanes(P, Max(Holding(P, n))))
<1>1. Width \in Nat \ {0} /\ TailStart(n) \in 0..n /\ P \in SUBSET Nat
  <2>1. Width \in Nat \ {0}
    BY WidthAssumption
  <2>2. TailStart(n) \in 0..n
    BY Chunking
  <2>3. P \in SUBSET Nat
    OBVIOUS
  <2>. QED  BY <2>1, <2>2, <2>3
<1>2. ASSUME AfterAll(P, n) = {}, Holding(P, n) # {}
      PROVE  P # {} /\ Max(P) = StartOf(Max(Holding(P, n))) + Max(InLanes(P, Max(Holding(P, n))))
  <2> DEFINE c == Max(Holding(P, n))
             S == InLanes(P, c)
             m == StartOf(c) + Max(S)
  <2>1. c \in Holding(P, n) /\ \A b \in Holding(P, n) : b <= c
    <3>1. Holding(P, n) \in SUBSET (0..n)
      BY Held
    <3>. QED  BY <1>2, <3>1, MaxIs
  <2> HIDE DEF c
  <2>2. c \in Chunks(n) /\ S # {}
    BY <2>1 DEF Holding
  <2>3. S \in SUBSET (0..Width) /\ S \subseteq 0..(Width - 1)
    BY <1>1 DEF InLanes
  <2>4. Max(S) \in S /\ \A k \in S : k <= Max(S)
    <3> HIDE DEF S
    <3>. QED  BY <1>1, <2>2, <2>3, MaxIs
  <2>5. m \in P
    BY <2>4 DEF InLanes
  <2>6. StartOf(c) \in Nat /\ c \in Nat
    BY <1>1, <2>2, Chunking
  <2>7. Max(S) \in 0..(Width - 1)
    BY <2>3, <2>4
  <2>8. \A y \in P : y <= m
    <3> TAKE y \in P
    <3>1. ASSUME NEW b \in Chunks(n), NEW k \in 0..(Width - 1), y = StartOf(b) + k PROVE y <= m
      <4>1. b \in Holding(P, n) /\ k \in InLanes(P, b)
        BY <3>1 DEF Holding, InLanes
      <4>2. b <= c /\ b \in Nat /\ StartOf(b) \in Nat
        BY <2>1, <4>1, Chunking
      <4>3. CASE c = b
        <5>1. k <= Max(S)
          BY <2>4, <4>1, <4>3
        <5> HIDE DEF S
        <5>. QED  BY <1>1, <2>6, <2>7, <3>1, <4>3, <5>1
      <4>4. CASE b < c
        <5>1. StartOf(b) + Width <= StartOf(c)
          BY <2>2, <4>4, ChunkOrder
        <5> HIDE DEF S
        <5>. QED  BY <1>1, <2>6, <2>7, <3>1, <4>2, <5>1
      <4>. QED  BY <2>6, <4>2, <4>3, <4>4
    <3>2. ASSUME NEW k \in 0..(n - TailStart(n) - 1), y = TailStart(n) + k PROVE y <= m
      BY <1>2, <3>2 DEF AfterAll
    <3>. QED  BY <3>1, <3>2, Locate
  <2>9. Max(P) = m
    <3> HIDE DEF m
    <3>. QED  BY <1>1, <2>5, <2>8, MaxUnique
  <2>. QED  BY <2>5, <2>9 DEF c
<1>3. ASSUME AfterAll(P, n) # {}
      PROVE  P # {} /\ Max(P) = TailStart(n) + Max(AfterAll(P, n))
  <2> DEFINE S == AfterAll(P, n)
             m == TailStart(n) + Max(S)
  <2>1. S \in SUBSET (0..n)
    BY Held
  <2>2. Max(S) \in S /\ \A k \in S : k <= Max(S)
    <3> HIDE DEF S
    <3>1. S # {}
      BY <1>3 DEF S
    <3>. QED  BY <2>1, <3>1, MaxIs
  <2>3. m \in P
    BY <2>2 DEF AfterAll
  <2>4. \A y \in P : y <= m
    <3> TAKE y \in P
    <3>1. Max(S) \in Nat
      BY <2>1, <2>2
    <3>2. ASSUME NEW b \in Chunks(n), NEW k \in 0..(Width - 1), y = StartOf(b) + k PROVE y <= m
      <4>1. StartOf(b) \in Nat /\ StartOf(b) + Width <= TailStart(n)
        BY <1>1, Chunking
      <4> HIDE DEF S
      <4>. QED  BY <1>1, <3>1, <3>2, <4>1
    <3>3. ASSUME NEW k \in 0..(n - TailStart(n) - 1), y = TailStart(n) + k PROVE y <= m
      <4>1. k \in S
        BY <3>3 DEF AfterAll
      <4>2. k <= Max(S)
        BY <2>2, <4>1
      <4> HIDE DEF S
      <4>. QED  BY <1>1, <3>1, <3>3, <4>2
    <3>. QED  BY <3>2, <3>3, Locate
  <2>5. Max(P) = m
    <3> HIDE DEF m
    <3>. QED  BY <1>1, <2>3, <2>4, MaxUnique
  <2>. QED  BY <2>3, <2>5
<1>. QED  BY <1>2, <1>3

LEMMA FirstMismatchSame ==
  ASSUME NEW a, NEW b, Alike(a, b)
  PROVE  FastFirstMismatch(a, b) = FirstMismatch(a, b)
<1> DEFINE n == Len(a)
           P == Differ(a, b)
           S == AfterAll(P, n)
<1>1. n \in Nat /\ P \in SUBSET (0..(n - 1)) /\ Differ(Tail32(a), Tail32(b)) = S
  BY DifferParts DEF Alike, Bytes
<1>2. ChunksApart(a, b) = Holding(P, n) /\ \A c \in Chunks(n) : LanesApart(a, b, c) = InLanes(P, c)
  BY DifferParts DEF ChunksApart, Holding
<1>3. FirstMismatch(Tail32(a), Tail32(b)) = IF S = {} THEN <<>> ELSE <<Min(S)>>
  BY <1>1 DEF FirstMismatch
<1>4. FirstMismatch(a, b) = IF P = {} THEN <<>> ELSE <<Min(P)>>
  BY DEF FirstMismatch
<1> HIDE DEF n, P, S
<1>5. CASE Holding(P, n) # {}
  <2> DEFINE c == Min(Holding(P, n))
  <2>1. c \in Chunks(n)
    <3>1. Holding(P, n) \in SUBSET Nat /\ Holding(P, n) \subseteq Chunks(n)
      BY <1>1, Held
    <3>. QED  BY <1>5, <3>1, MinIs
  <2>2. P # {} /\ Min(P) = StartOf(c) + Min(InLanes(P, c))
    BY <1>1, <1>5, FirstByChunks
  <2>3. FastFirstMismatch(a, b) = FirstIn(a, b, c)
    BY <1>2, <1>5 DEF FastFirstMismatch
  <2> HIDE DEF c
  <2>. QED  BY <1>2, <1>4, <2>1, <2>2, <2>3 DEF FirstIn
<1>6. CASE Holding(P, n) = {}
  <2>1. FastFirstMismatch(a, b) = InTail(FirstMismatch(Tail32(a), Tail32(b)), n)
    BY <1>2, <1>6 DEF FastFirstMismatch, n
  <2>2. CASE S = {}
    <3>1. P = {}
      BY <1>1, <1>6, <2>2, EmptyParts DEF S
    <3>2. InTail(<<>>, n) = <<>>
      BY DEF InTail, Shift
    <3>. QED  BY <1>3, <1>4, <2>1, <2>2, <3>1, <3>2
  <2>3. CASE S # {}
    <3>1. P # {} /\ Min(P) = TailStart(n) + Min(S)
      BY <1>1, <1>6, <2>3, FirstByChunks DEF S
    <3>2. Min(S) \in Nat /\ TailStart(n) \in Nat
      <4>1. S \in SUBSET Nat
        BY <1>1, Held DEF S
      <4>2. TailStart(n) \in 0..n
        BY <1>1, Chunking
      <4>3. Min(S) \in S
        BY <2>3, <4>1, MinIs
      <4>4. TailStart(n) \in Nat
        BY <1>1, <4>2
      <4>5. Min(S) \in Nat
        BY <4>1, <4>3
      <4>. QED  BY <4>4, <4>5
    <3>3. InTail(<<Min(S)>>, n) = <<Min(S) + TailStart(n)>>
      BY DEF InTail, Shift
    <3>. QED  BY <1>3, <1>4, <2>1, <2>3, <3>1, <3>2, <3>3
  <2>. QED  BY <2>2, <2>3
<1>. QED  BY <1>5, <1>6

LEMMA LastMismatchSame ==
  ASSUME NEW a, NEW b, Alike(a, b)
  PROVE  FastLastMismatch(a, b) = LastMismatch(a, b)
<1> DEFINE n == Len(a)
           P == Differ(a, b)
           S == AfterAll(P, n)
           tail == LastMismatch(Tail32(a), Tail32(b))
<1>1. n \in Nat /\ P \in SUBSET (0..(n - 1)) /\ Differ(Tail32(a), Tail32(b)) = S
  BY DifferParts DEF Alike, Bytes
<1>2. ChunksApart(a, b) = Holding(P, n) /\ \A c \in Chunks(n) : LanesApart(a, b, c) = InLanes(P, c)
  BY DifferParts DEF ChunksApart, Holding
<1>3. tail = IF S = {} THEN <<>> ELSE <<Max(S)>>
  BY <1>1 DEF LastMismatch
<1>4. LastMismatch(a, b) = IF P = {} THEN <<>> ELSE <<Max(P)>>
  BY DEF LastMismatch
<1>5. FastLastMismatch(a, b) = IF tail # <<>> \/ Holding(P, n) = {} THEN InTail(tail, n)
                               ELSE LastIn(a, b, Max(Holding(P, n)))
  BY <1>2 DEF FastLastMismatch
<1> HIDE DEF n, P, S, tail
<1>6. CASE S # {}
  <2>1. P # {} /\ Max(P) = TailStart(n) + Max(S)
    BY <1>1, <1>6, LastByChunks DEF S
  <2>2. Max(S) \in Nat /\ TailStart(n) \in Nat
    <3>1. S \in SUBSET (0..n)
      BY <1>1, Held DEF S
    <3>2. Max(S) \in S
      BY <1>1, <1>6, <3>1, MaxIs
    <3>3. TailStart(n) \in 0..n
      BY <1>1, Chunking
    <3>4. TailStart(n) \in Nat
      BY <1>1, <3>3
    <3>5. Max(S) \in 0..n
      BY <3>1, <3>2
    <3>6. Max(S) \in Nat
      BY <1>1, <3>5
    <3>. QED  BY <3>4, <3>6
  <2>3. InTail(<<Max(S)>>, n) = <<Max(S) + TailStart(n)>>
    BY DEF InTail, Shift
  <2>4. tail = <<Max(S)>> /\ tail # <<>>
    BY <1>3, <1>6
  <2>. QED  BY <1>4, <1>5, <2>1, <2>2, <2>3, <2>4
<1>7. CASE S = {}
  <2>1. tail = <<>>
    BY <1>3, <1>7
  <2>2. CASE Holding(P, n) = {}
    <3>1. P = {}
      BY <1>1, <1>7, <2>2, EmptyParts DEF S
    <3>2. InTail(<<>>, n) = <<>>
      BY DEF InTail, Shift
    <3>. QED  BY <1>4, <1>5, <2>1, <2>2, <3>1, <3>2
  <2>3. CASE Holding(P, n) # {}
    <3> DEFINE c == Max(Holding(P, n))
    <3>1. c \in Chunks(n)
      <4>1. Holding(P, n) \in SUBSET (0..n) /\ Holding(P, n) \subseteq Chunks(n)
        BY <1>1, Held
      <4>. QED  BY <1>1, <2>3, <4>1, MaxIs
    <3>2. P # {} /\ Max(P) = StartOf(c) + Max(InLanes(P, c))
      BY <1>1, <1>7, <2>3, LastByChunks DEF S
    <3>3. FastLastMismatch(a, b) = LastIn(a, b, c)
      BY <1>5, <2>1, <2>3
    <3> HIDE DEF c
    <3>. QED  BY <1>2, <1>4, <3>1, <3>2, <3>3 DEF LastIn
  <2>. QED  BY <2>2, <2>3
<1>. QED  BY <1>6, <1>7

-----------------------------------------------------------------------------
(* A set of offsets in ascending order.                                    *)
IsAsc(s, S) ==
  /\ s \in Seq(Nat)
  /\ \A i, j \in 1..Len(s) : i < j => s[i] < s[j]
  /\ \A i \in 1..Len(s) : s[i] \in S
  /\ \A x \in S : \E i \in 1..Len(s) : s[i] = x

LEMMA AscExists ==
  ASSUME NEW n \in Nat, NEW S \in SUBSET (0..(n - 1))
  PROVE  \E s : IsAsc(s, S)
<1> DEFINE below(i) == {x \in S : x < i}
           T == {i \in 0..n : ~ \E s : IsAsc(s, below(i))}
<1>1. \A x \in S : x \in Nat /\ x < n
  OBVIOUS
<1>2. below(n) = S
  BY <1>1
<1>3. ASSUME T # {} PROVE FALSE
  <2>1. PICK k \in T : \A j \in T : k <= j
    <3>1. T \subseteq Nat
      OBVIOUS
    <3> HIDE DEF T
    <3>. QED  BY <1>3, <3>1, Smallest
  <2>2. k \in 0..n /\ ~ \E s : IsAsc(s, below(k))
    OBVIOUS
  <2>3. k # 0
    <3>1. \A x \in S : ~(x < 0)
      BY <1>1
    <3>2. below(0) = {}
      BY <3>1
    <3>3. <<>> \in Seq(Nat) /\ Len(<<>>) = 0
      OBVIOUS
    <3>4. IsAsc(<<>>, {})
      BY <3>3 DEF IsAsc
    <3> HIDE DEF below
    <3>. QED  BY <2>2, <3>2, <3>4
  <2>4. k - 1 \in 0..n /\ k \in 1..n
    BY <2>2, <2>3
  <2>5. PICK s : IsAsc(s, below(k - 1))
    <3>1. k - 1 \notin T
      <4> HIDE DEF T
      <4>. QED  BY <2>1, <2>4
    <3>. QED  BY <2>4, <3>1
  <2>6. CASE k - 1 \notin S
    <3>1. \A x \in S : x < k <=> x < k - 1
      BY <1>1, <2>4, <2>6
    <3>2. below(k) = below(k - 1)
      BY <3>1
    <3> HIDE DEF below
    <3>. QED  BY <2>2, <2>5, <3>2
  <2>7. CASE k - 1 \in S
    <3> DEFINE t == Append(s, k - 1)
               m == Len(s)
    <3>1. \A x \in S : x < k <=> x < k - 1 \/ x = k - 1
      BY <1>1, <2>4
    <3>2. below(k) = below(k - 1) \cup {k - 1}
      BY <2>7, <3>1
    <3>3. /\ s \in Seq(Nat) /\ \A i, j \in 1..m : i < j => s[i] < s[j]
          /\ \A i \in 1..m : s[i] \in below(k - 1)
          /\ \A x \in below(k - 1) : \E i \in 1..m : s[i] = x
      BY <2>5 DEF IsAsc
    <3>4. m \in Nat /\ t \in Seq(Nat) /\ Len(t) = m + 1 /\ t[m + 1] = k - 1 /\ \A i \in 1..m : t[i] = s[i]
      BY <2>4, <3>3
    <3>5. \A i \in 1..m : s[i] \in Nat /\ s[i] < k - 1
      BY <1>1, <3>3
    <3> HIDE DEF t, below, m
    <3>6. \A i \in 1..(m + 1) : i \in 1..m \/ i = m + 1
      BY <3>4
    <3>7. \A i, j \in 1..(m + 1) : i < j => t[i] < t[j]
      <4> TAKE i, j \in 1..(m + 1)
      <4> HAVE i < j
      <4>1. i \in 1..m
        BY <3>4
      <4>2. CASE j = m + 1
        BY <3>4, <3>5, <4>1, <4>2
      <4>3. CASE j \in 1..m
        BY <3>3, <3>4, <4>1, <4>3
      <4>. QED  BY <3>6, <4>2, <4>3
    <3>8. \A i \in 1..(m + 1) : t[i] \in below(k)
      BY <3>2, <3>3, <3>4, <3>6
    <3>9. \A x \in below(k) : \E i \in 1..(m + 1) : t[i] = x
      <4> TAKE x \in below(k)
      <4>1. CASE x = k - 1
        <5>1. m + 1 \in 1..(m + 1)
          BY <3>4
        <5>. QED  BY <3>4, <4>1, <5>1
      <4>2. CASE x \in below(k - 1)
        <5>1. PICK i \in 1..m : s[i] = x
          BY <3>3, <4>2
        <5>2. i \in 1..(m + 1)
          BY <3>4
        <5>. QED  BY <3>4, <5>1, <5>2
      <4>. QED  BY <3>2, <4>1, <4>2
    <3>10. IsAsc(t, below(k))
      BY <3>4, <3>7, <3>8, <3>9 DEF IsAsc
    <3>. QED  BY <2>2, <3>10
  <2>. QED  BY <2>6, <2>7
<1>4. n \in 0..n
  OBVIOUS
<1>5. n \notin T
  <2> HIDE DEF T
  <2>. QED  BY <1>3
<1>. QED  BY <1>2, <1>4, <1>5

(* As many as an enumeration without repetition.                           *)
LEMMA Enumerated ==
  ASSUME NEW n \in Nat, NEW f, NEW R, \A i, j \in 1..n : f[i] = f[j] => i = j,
         \A i \in 1..n : f[i] \in R, \A x \in R : \E i \in 1..n : f[i] = x
  PROVE  Cardinality(R) = n
<1> DEFINE g == [i \in 1..n |-> f[i]]
<1>1. g \in Injection(1..n, R)
  BY DEF Injection, IsInjective
<1>2. g \in Surjection(1..n, R)
  BY DEF Surjection
<1>3. ExistsBijection(1..n, R)
  BY <1>1, <1>2 DEF ExistsBijection, Bijection
<1>. QED  BY <1>3, FS_CountingElements

LEMMA AscUnique ==
  ASSUME NEW S, NEW s, IsAsc(s, S)
  PROVE  Ascending(S) = s
<1> DEFINE n == Len(s)
<1>1. s \in Seq(Nat) /\ n \in Nat /\ \A i \in 1..n : s[i] \in S /\ s[i] \in Nat
  BY DEF IsAsc
<1>2. \A i, j \in 1..n : i < j => s[i] < s[j]
  BY DEF IsAsc
<1>3. \A x \in S : \E i \in 1..n : s[i] = x
  BY DEF IsAsc
<1> HIDE DEF n
<1>4. \A i, j \in 1..n : s[i] < s[j] => i < j
  <2> TAKE i, j \in 1..n
  <2>1. CASE i < j
    BY <2>1
  <2>2. CASE i = j
    BY <1>1, <2>2
  <2>3. CASE j < i
    BY <1>1, <1>2, <2>3
  <2>. QED  BY <1>1, <2>1, <2>2, <2>3
<1>5. \A i, j \in 1..n : s[i] = s[j] => i = j
  <2> TAKE i, j \in 1..n
  <2>1. CASE i < j
    BY <1>1, <1>2, <2>1
  <2>2. CASE j < i
    BY <1>1, <1>2, <2>2
  <2>. QED  BY <1>1, <2>1, <2>2
<1>6. Cardinality(S) = n
  BY <1>1, <1>3, <1>5, Enumerated
<1>7. \A i \in 1..n : Cardinality({y \in S : y < s[i]}) = i - 1
  <2> TAKE i \in 1..n
  <2> DEFINE R == {y \in S : y < s[i]}
  <2>1. i - 1 \in Nat /\ \A j \in 1..(i - 1) : j \in 1..n /\ j < i
    BY <1>1
  <2>2. \A j \in 1..(i - 1) : s[j] \in R
    BY <1>1, <1>2, <2>1
  <2>3. \A y \in R : \E j \in 1..(i - 1) : s[j] = y
    <3> TAKE y \in R
    <3>1. PICK j \in 1..n : s[j] = y
      BY <1>3
    <3>2. j < i
      BY <1>4, <3>1
    <3>3. j \in 1..(i - 1)
      BY <1>1, <3>2
    <3>. QED  BY <3>1, <3>3
  <2>4. \A j, k \in 1..(i - 1) : s[j] = s[k] => j = k
    BY <1>5, <2>1
  <2> HIDE DEF R
  <2>5. Cardinality(R) = i - 1
    BY <2>1, <2>2, <2>3, <2>4, Enumerated
  <2>. QED  BY <2>5 DEF R
<1>8. \A k \in 1..n : (CHOOSE x \in S : Cardinality({y \in S : y < x}) = k - 1) = s[k]
  <2> TAKE k \in 1..n
  <2> DEFINE rank(x) == Cardinality({y \in S : y < x})
  <2>1. s[k] \in S /\ rank(s[k]) = k - 1
    BY <1>1, <1>7
  <2>2. ASSUME NEW x \in S, rank(x) = k - 1 PROVE x = s[k]
    <3>1. PICK j \in 1..n : s[j] = x
      BY <1>3
    <3>2. rank(s[j]) = j - 1
      BY <1>7
    <3>3. rank(s[j]) = k - 1
      BY <2>2, <3>1
    <3> HIDE DEF rank
    <3>4. j = k
      BY <1>1, <3>2, <3>3
    <3>. QED  BY <3>1, <3>4
  <2> HIDE DEF rank
  <2>3. (CHOOSE x \in S : rank(x) = k - 1) = s[k]
    BY <2>1, <2>2
  <2>. QED  BY <2>3 DEF rank
<1>9. Ascending(S) = [k \in 1..n |-> s[k]]
  BY <1>6, <1>8 DEF Ascending
<1>10. s \in [1..n -> Nat]
  BY <1>1 DEF n
<1>. QED  BY <1>9, <1>10

LEMMA AscIs ==
  ASSUME NEW n \in Nat, NEW S \in SUBSET (0..(n - 1))
  PROVE  IsAsc(Ascending(S), S)
<1>1. PICK s : IsAsc(s, S)
  BY AscExists
<1>. QED  BY <1>1, AscUnique

LEMMA AscCount ==
  ASSUME NEW S, NEW s, IsAsc(s, S)
  PROVE  Cardinality(S) = Len(s) /\ Len(s) \in Nat
<1> DEFINE n == Len(s)
<1>1. n \in Nat /\ \A i \in 1..n : s[i] \in S /\ s[i] \in Nat
  BY DEF IsAsc
<1>2. \A i, j \in 1..n : i < j => s[i] < s[j]
  BY DEF IsAsc
<1>3. \A x \in S : \E i \in 1..n : s[i] = x
  BY DEF IsAsc
<1> HIDE DEF n
<1>4. \A i, j \in 1..n : s[i] = s[j] => i = j
  <2> TAKE i, j \in 1..n
  <2>1. CASE i < j
    BY <1>1, <1>2, <2>1
  <2>2. CASE j < i
    BY <1>1, <1>2, <2>2
  <2>. QED  BY <1>1, <2>1, <2>2
<1>5. Cardinality(S) = n
  BY <1>1, <1>3, <1>4, Enumerated
<1>. QED  BY <1>1, <1>5 DEF n

LEMMA AscJoin ==
  ASSUME NEW S, NEW s, IsAsc(s, S), NEW T, NEW t, IsAsc(t, T), \A x \in S : \A y \in T : x < y
  PROVE  IsAsc(s \o t, S \cup T)
<1> DEFINE m == Len(s)
           n == Len(t)
           u == s \o t
<1>1. s \in Seq(Nat) /\ t \in Seq(Nat) /\ m \in Nat /\ n \in Nat
  BY DEF IsAsc
<1>2. /\ \A i, j \in 1..m : i < j => s[i] < s[j]
      /\ \A i \in 1..m : s[i] \in S
      /\ \A x \in S : \E i \in 1..m : s[i] = x
  BY DEF IsAsc
<1>3. /\ \A i, j \in 1..n : i < j => t[i] < t[j]
      /\ \A i \in 1..n : t[i] \in T
      /\ \A x \in T : \E i \in 1..n : t[i] = x
  BY DEF IsAsc
<1>4. u \in Seq(Nat) /\ Len(u) = m + n /\ \A i \in 1..m : u[i] = s[i]
  BY <1>1
<1>5. \A i \in 1..(m + n) : i \in 1..m \/ (i > m /\ i - m \in 1..n /\ u[i] = t[i - m])
  BY <1>1
<1>6. \A i \in 1..n : m + i \in 1..(m + n) /\ (m + i) - m = i /\ m + i > m
  BY <1>1
<1> HIDE DEF m, n, u
<1>7. \A i, j \in 1..(m + n) : i < j => u[i] < u[j]
  <2> TAKE i, j \in 1..(m + n)
  <2> HAVE i < j
  <2>1. CASE j \in 1..m
    <3>1. i \in 1..m
      BY <1>1, <2>1
    <3>. QED  BY <1>2, <1>4, <2>1, <3>1
  <2>2. CASE j - m \in 1..n /\ u[j] = t[j - m] /\ i \in 1..m
    BY <1>2, <1>3, <1>4, <2>2
  <2>3. CASE j - m \in 1..n /\ u[j] = t[j - m] /\ i - m \in 1..n /\ u[i] = t[i - m]
    <3>1. i - m < j - m
      BY <1>1
    <3>. QED  BY <1>3, <2>3, <3>1
  <2>. QED  BY <1>5, <2>1, <2>2, <2>3
<1>8. \A i \in 1..(m + n) : u[i] \in S \cup T
  BY <1>2, <1>3, <1>4, <1>5
<1>9. \A x \in S \cup T : \E i \in 1..(m + n) : u[i] = x
  <2> TAKE x \in S \cup T
  <2>1. CASE x \in S
    <3>1. PICK i \in 1..m : s[i] = x
      BY <1>2, <2>1
    <3>2. i \in 1..(m + n)
      BY <1>1
    <3>. QED  BY <1>4, <3>1, <3>2
  <2>2. CASE x \in T
    <3>1. PICK i \in 1..n : t[i] = x
      BY <1>3, <2>2
    <3>2. m + i \in 1..(m + n) /\ (m + i) - m = i /\ m + i > m
      BY <1>6
    <3>3. m + i \notin 1..m
      BY <1>1, <3>2
    <3>4. u[m + i] = t[i]
      BY <1>5, <3>2, <3>3
    <3>. QED  BY <3>1, <3>2, <3>4
  <2>. QED  BY <2>1, <2>2
<1>. QED  BY <1>4, <1>7, <1>8, <1>9 DEF IsAsc, u

LEMMA AscShift ==
  ASSUME NEW S, NEW s, IsAsc(s, S), NEW by \in Nat, NEW T,
         \A x \in S : x + by \in T, \A y \in T : \E x \in S : y = x + by
  PROVE  IsAsc(Shift(s, by), T)
<1> DEFINE n == Len(s)
           u == Shift(s, by)
<1>1. s \in Seq(Nat) /\ n \in Nat /\ \A i \in 1..n : s[i] \in Nat /\ s[i] \in S
  BY DEF IsAsc
<1>2. DOMAIN s = 1..n
  BY <1>1
<1>3. u \in [1..n -> Nat] /\ \A i \in 1..n : u[i] = s[i] + by
  BY <1>1, <1>2 DEF Shift
<1>4. /\ \A i, j \in 1..n : i < j => s[i] < s[j]
      /\ \A x \in S : \E i \in 1..n : s[i] = x
  BY DEF IsAsc
<1> HIDE DEF u, n
<1>5. u \in Seq(Nat) /\ Len(u) = n
  BY <1>1, <1>3
<1>6. \A i, j \in 1..n : i < j => u[i] < u[j]
  <2> TAKE i, j \in 1..n
  <2> HAVE i < j
  <2>1. s[i] < s[j] /\ s[i] \in Nat /\ s[j] \in Nat
    BY <1>1, <1>4
  <2>. QED  BY <1>3, <2>1
<1>7. \A y \in T : \E i \in 1..n : u[i] = y
  <2> TAKE y \in T
  <2>1. PICK x \in S : y = x + by
    OBVIOUS
  <2>2. PICK i \in 1..n : s[i] = x
    BY <1>4
  <2>. QED  BY <1>3, <2>1, <2>2
<1>8. \A i \in 1..n : u[i] \in T
  BY <1>1, <1>3
<1>. QED  BY <1>5, <1>6, <1>7, <1>8 DEF IsAsc, u

-----------------------------------------------------------------------------
(* The offsets of a buffer's bytes that are not zero, chunk by chunk.      *)
Below(P, m) == {x \in P : x < m}

LEMMA InChunkIs ==
  ASSUME NEW d \in Bytes, NEW c \in Chunks(Len(d))
  PROVE  IsAsc(InChunk(d, c), {x \in Nonzero(d) : StartOf(c) <= x /\ x < StartOf(c + 1)})
<1> DEFINE P == Nonzero(d)
           S == InLanes(P, c)
           R == {x \in P : StartOf(c) <= x /\ x < StartOf(c + 1)}
<1>1. Len(d) \in Nat /\ Width \in Nat \ {0}
  BY WidthAssumption DEF Bytes
<1>2. StartOf(c) \in Nat /\ StartOf(c) + Width = StartOf(c + 1)
  BY <1>1, Chunking
<1>3. Lanes32(Load(d, StartOf(c))) = S /\ P \in SUBSET (0..(Len(d) - 1))
  BY NonzeroParts
<1>4. S \in SUBSET (0..(Width - 1))
  BY DEF InLanes
<1>5. IsAsc(Ascending(S), S)
  BY <1>1, <1>4, AscIs
<1>6. \A x \in S : x + StartOf(c) \in R
  <2> TAKE x \in S
  <2>1. x \in 0..(Width - 1) /\ StartOf(c) + x \in P
    BY DEF InLanes
  <2>2. x + StartOf(c) = StartOf(c) + x /\ StartOf(c) <= x + StartOf(c) /\ x + StartOf(c) < StartOf(c + 1)
    BY <1>1, <1>2, <2>1
  <2>. QED  BY <2>1, <2>2
<1>7. \A y \in R : \E x \in S : y = x + StartOf(c)
  <2> TAKE y \in R
  <2>1. y \in P /\ StartOf(c) <= y /\ y < StartOf(c + 1) /\ y \in Int
    BY <1>3
  <2>2. y - StartOf(c) \in 0..(Width - 1) /\ StartOf(c) + (y - StartOf(c)) = y /\ y = (y - StartOf(c)) + StartOf(c)
    BY <1>1, <1>2, <2>1
  <2>3. y - StartOf(c) \in S
    BY <2>1, <2>2 DEF InLanes
  <2>. QED  BY <2>2, <2>3
<1> HIDE DEF R, S
<1>8. IsAsc(Shift(Ascending(S), StartOf(c)), R)
  BY <1>2, <1>5, <1>6, <1>7, AscShift
<1>. QED  BY <1>3, <1>8 DEF InChunk, R

LEMMA FoundInTailIs ==
  ASSUME NEW d \in Bytes
  PROVE  IsAsc(FoundInTail(d), {x \in Nonzero(d) : TailStart(Len(d)) <= x})
<1> DEFINE n == Len(d)
           P == Nonzero(d)
           S == AfterAll(P, n)
           T == TailStart(n)
           R == {x \in P : T <= x}
<1>1. n \in Nat
  BY DEF Bytes
<1>2. T \in 0..n
  BY <1>1, Chunking
<1>3. Nonzero(Tail32(d)) = S /\ P \in SUBSET (0..(n - 1))
  BY NonzeroParts
<1>4. S \in SUBSET (0..((n - T) - 1)) /\ n - T \in Nat
  BY <1>1, <1>2 DEF AfterAll
<1>5. IsAsc(Ascending(S), S)
  <2> HIDE DEF S, n, T
  <2>. QED  BY <1>4, AscIs
<1>6. \A x \in S : x + T \in R
  <2> TAKE x \in S
  <2>1. x \in 0..(n - T - 1) /\ T + x \in P
    BY DEF AfterAll
  <2> HIDE DEF T, n, P
  <2>2. x + T = T + x /\ T <= x + T
    BY <1>1, <1>2, <2>1
  <2>. QED  BY <2>1, <2>2
<1>7. \A y \in R : \E x \in S : y = x + T
  <2> TAKE y \in R
  <2>1. y \in P /\ T <= y /\ y \in Int /\ y < n
    BY <1>1, <1>3
  <2>2. y - T \in 0..(n - T - 1) /\ T + (y - T) = y /\ y = (y - T) + T
    <3> HIDE DEF T, n, P
    <3>. QED  BY <1>1, <1>2, <2>1
  <2>3. y - T \in S
    BY <2>1, <2>2 DEF AfterAll
  <2>. QED  BY <2>2, <2>3
<1> HIDE DEF R, S, T, n
<1>8. IsAsc(Shift(Ascending(S), T), R)
  <2>1. T \in Nat
    BY <1>1, <1>2
  <2>. QED  BY <2>1, <1>5, <1>6, <1>7, AscShift
<1>. QED  BY <1>3, <1>8 DEF FoundInTail, InTail, R, T, n

LEMMA FoundByChunks ==
  ASSUME NEW d \in Bytes
  PROVE  LET U(c) == Ascending(Below(Nonzero(d), StartOf(c + 1))) IN
         /\ \A c \in 0..(Len(d) \div Width) : U(c) \in Seq(Nat)
         /\ U(0) = <<>>
         /\ \A c \in Chunks(Len(d)) : InChunk(d, c) \in Seq(Nat) /\ U(c) = U(c - 1) \o InChunk(d, c)
         /\ FoundInTail(d) \in Seq(Nat)
         /\ Ascending(Nonzero(d)) = U(Len(d) \div Width) \o FoundInTail(d)
<1> DEFINE n == Len(d)
           P == Nonzero(d)
           B(m) == Below(P, m)
           U(c) == Ascending(B(StartOf(c + 1)))
           C == n \div Width
<1>1. n \in Nat /\ P \in SUBSET (0..(n - 1)) /\ Width \in Nat
  BY NonzeroParts, WidthAssumption DEF Bytes
<1>2. C \in Nat /\ StartOf(1) = 0 /\ StartOf(C + 1) = TailStart(n) /\ Chunks(n) = 1..C
  BY <1>1, Chunking DEF Chunks
<1>3. \A m : IsAsc(Ascending(B(m)), B(m))
  <2> TAKE m
  <2>1. B(m) \in SUBSET (0..(n - 1))
    BY <1>1 DEF Below
  <2> HIDE DEF B, n
  <2>. QED  BY <1>1, <2>1, AscIs
<1>4. \A c \in 0..C : U(c) \in Seq(Nat)
  <2> HIDE DEF B
  <2>. QED  BY <1>3 DEF IsAsc
<1>5. U(0) = <<>>
  <2>1. B(0) = {}
    <3>1. \A x \in P : ~(x < 0)
      BY <1>1
    <3>. QED  BY <3>1 DEF Below
  <2>2. <<>> \in Seq(Nat) /\ Len(<<>>) = 0
    OBVIOUS
  <2>3. IsAsc(<<>>, {})
    BY <2>2 DEF IsAsc
  <2>4. Ascending({}) = <<>>
    BY <2>3, AscUnique
  <2>5. StartOf(0 + 1) = 0
    BY <1>2
  <2> HIDE DEF B
  <2>. QED  BY <2>1, <2>4, <2>5
<1>6. ASSUME NEW c \in Chunks(n) PROVE InChunk(d, c) \in Seq(Nat) /\ U(c) = U(c - 1) \o InChunk(d, c)
  <2> DEFINE R == {x \in P : StartOf(c) <= x /\ x < StartOf(c + 1)}
             s == Ascending(B(StartOf(c)))
             t == InChunk(d, c)
  <2>1. IsAsc(t, R)
    BY InChunkIs
  <2>2. IsAsc(s, B(StartOf(c)))
    <3> HIDE DEF B
    <3>. QED  BY <1>3
  <2>3. StartOf(c) \in Nat /\ StartOf(c) + Width = StartOf(c + 1) /\ c \in Nat /\ StartOf(c + 1) \in Nat
    <3>1. StartOf(c) \in Nat /\ StartOf(c) + Width = StartOf(c + 1) /\ c \in Nat
      BY <1>1, Chunking
    <3>. QED  BY <1>1, <3>1
  <2>4. \A x \in P : x \in Nat
    BY <1>1
  <2>5. B(StartOf(c)) \cup R = B(StartOf(c + 1))
    <3> HIDE DEF P, n
    <3>1. \A x \in P : x < StartOf(c + 1) <=> x < StartOf(c) \/ (StartOf(c) <= x /\ x < StartOf(c + 1))
      BY <1>1, <2>3, <2>4
    <3>. QED  BY <3>1 DEF Below
  <2>6. \A x \in B(StartOf(c)) : \A y \in R : x < y
    <3> HIDE DEF P, n
    <3>. QED  BY <2>3, <2>4 DEF Below
  <2> HIDE DEF s, t, B, R
  <2>7. IsAsc(s \o t, B(StartOf(c)) \cup R)
    BY <2>1, <2>2, <2>6, AscJoin
  <2>8. Ascending(B(StartOf(c + 1))) = s \o t
    BY <2>5, <2>7, AscUnique
  <2>9. (c - 1) + 1 = c
    BY <2>3
  <2>10. t \in Seq(Nat)
    BY <2>1 DEF IsAsc
  <2>. QED  BY <2>8, <2>9, <2>10 DEF s, t
<1>7. FoundInTail(d) \in Seq(Nat) /\ Ascending(P) = U(C) \o FoundInTail(d)
  <2> DEFINE T == TailStart(n)
             R == {x \in P : T <= x}
             s == Ascending(B(T))
             t == FoundInTail(d)
  <2>1. IsAsc(t, R)
    BY FoundInTailIs
  <2>2. IsAsc(s, B(T))
    <3> HIDE DEF B
    <3>. QED  BY <1>3
  <2>3. T \in 0..n
    BY <1>1, Chunking
  <2>4. \A x \in P : x \in Nat
    BY <1>1
  <2>5. B(T) \cup R = P
    <3> HIDE DEF P, n, T
    <3>1. \A x \in P : x < T \/ T <= x
      BY <1>1, <2>3, <2>4
    <3>. QED  BY <3>1 DEF Below
  <2>6. \A x \in B(T) : \A y \in R : x < y
    <3> HIDE DEF P, n, T
    <3>. QED  BY <1>1, <2>3, <2>4 DEF Below
  <2> HIDE DEF s, t, B, R, T
  <2>7. IsAsc(s \o t, B(T) \cup R)
    BY <2>1, <2>2, <2>6, AscJoin
  <2>8. Ascending(P) = s \o t
    BY <2>5, <2>7, AscUnique
  <2>9. T = StartOf(C + 1)
    BY <1>2 DEF T
  <2>10. t \in Seq(Nat)
    BY <2>1 DEF IsAsc
  <2>. QED  BY <2>8, <2>9, <2>10 DEF s, t
<1>. QED  BY <1>4, <1>5, <1>6, <1>7

LEMMA NonzeroIndicesSame ==
  ASSUME NEW d \in Bytes, NEW cap
  PROVE  FastNonzeroIndices(d, cap) = NonzeroIndices(d, cap)
<1> DEFINE n == Len(d)
           C == n \div Width
           V(c) == Ascending(Below(Nonzero(d), StartOf(c + 1)))
           U == [c \in 0..C |-> V(c)]
           piece == [c \in Chunks(n) |-> InChunk(d, c)]
<1>1. /\ \A c \in 0..C : V(c) \in Seq(Nat)
      /\ V(0) = <<>>
      /\ \A c \in Chunks(n) : InChunk(d, c) \in Seq(Nat) /\ V(c) = V(c - 1) \o InChunk(d, c)
      /\ Ascending(Nonzero(d)) = V(C) \o FoundInTail(d)
  BY FoundByChunks
<1>2. n \in Nat
  BY DEF Bytes
<1>3. C \in Nat /\ Chunks(n) = 1..C
  BY <1>2, Chunking DEF Chunks
<1> HIDE DEF V, C
<1>4. U \in [0..C -> Seq(Nat)] /\ U[0] = <<>> /\ U[C] = V(C)
  BY <1>1, <1>3
<1>5. piece \in [Chunks(n) -> Seq(Nat)]
  BY <1>1
<1>6. \A c \in Chunks(n) : U[c] = U[c - 1] \o piece[c]
  <2> TAKE c \in Chunks(n)
  <2>1. c \in 0..C /\ c - 1 \in 0..C
    BY <1>3
  <2>. QED  BY <1>1, <2>1
<1>7. FastNonzeroIndices(d, cap) = FirstN(FlattenSeq(piece) \o FoundInTail(d), cap)
  BY DEF FastNonzeroIndices
<1> HIDE DEF U, piece, n
<1>8. FlattenSeq(piece) = U[C]
  BY <1>2, <1>4, <1>5, <1>6, PiecesJoin DEF C
<1>. QED  BY <1>1, <1>4, <1>7, <1>8 DEF NonzeroIndices

-----------------------------------------------------------------------------
(* Recording: what there is room for, and whether there was.               *)
LEMMA FirstNIs ==
  ASSUME NEW X, NEW s \in Seq(X), NEW cap \in Nat
  PROVE  /\ FirstN(s, cap) \in Seq(X)
         /\ Len(FirstN(s, cap)) = NatMin(cap, Len(s)) /\ NatMin(cap, Len(s)) \in 0..Len(s)
         /\ \A i \in 1..NatMin(cap, Len(s)) : FirstN(s, cap)[i] = s[i]
<1> DEFINE m == NatMin(cap, Len(s))
<1>1. Len(s) \in Nat /\ m \in 0..Len(s)
  BY DEF NatMin
<1>2. FirstN(s, cap) = SubSeq(s, 1, m)
  <2>1. Min({cap, Len(s)}) = m
    BY <1>1, MinOfTwo
  <2>. QED  BY <2>1 DEF FirstN
<1> HIDE DEF m
<1>3. SubSeq(s, 1, m) \in Seq(X) /\ Len(SubSeq(s, 1, m)) = m /\ \A i \in 1..m : SubSeq(s, 1, m)[i] = s[i]
  BY <1>1
<1>. QED  BY <1>1, <1>2, <1>3 DEF m

LEMMA FirstOfFirst ==
  ASSUME NEW X, NEW s \in Seq(X), NEW t \in Seq(X), NEW cap \in Nat
  PROVE  /\ FirstN(FirstN(s, cap) \o t, cap) = FirstN(s \o t, cap)
         /\ (Len(s) > cap \/ Len(FirstN(s, cap)) + Len(t) > cap) <=> Len(s \o t) > cap
<1> DEFINE f == FirstN(s, cap)
           k == NatMin(cap, Len(s))
           u == f \o t
           v == s \o t
           m == NatMin(cap, Len(v))
<1>1. Len(s) \in Nat /\ Len(t) \in Nat /\ v \in Seq(X) /\ Len(v) = Len(s) + Len(t)
  OBVIOUS
<1>2. f \in Seq(X) /\ Len(f) = k /\ k \in 0..Len(s) /\ \A i \in 1..k : f[i] = s[i]
  BY FirstNIs
<1> HIDE DEF f
<1>3. u \in Seq(X) /\ Len(u) = k + Len(t)
  BY <1>1, <1>2
<1>4. NatMin(cap, Len(u)) = m /\ m \in Nat
  BY <1>1, <1>2, <1>3 DEF NatMin
<1>5. (Len(s) > cap \/ Len(f) + Len(t) > cap) <=> Len(v) > cap
  BY <1>1, <1>2 DEF NatMin
<1>6. \A i \in 1..m : u[i] = v[i]
  <2> TAKE i \in 1..m
  <2>1. CASE i <= k
    <3>1. u[i] = f[i] /\ v[i] = s[i] /\ i \in 1..k
      BY <1>1, <1>2, <1>4, <2>1
    <3>. QED  BY <1>2, <3>1
  <2>2. CASE i > k
    <3>1. k = Len(s)
      BY <1>1, <1>4, <2>2 DEF NatMin
    <3>2. i \in 1..(k + Len(t))
      BY <1>1, <1>2, <1>3, <1>4, <3>1 DEF NatMin
    <3>3. u[i] = t[i - k] /\ v[i] = t[i - k]
      BY <1>1, <1>2, <2>2, <3>1, <3>2
    <3>. QED  BY <3>3
  <2>3. k \in Nat /\ i \in Nat
    BY <1>1, <1>2, <1>4
  <2>4. i <= k \/ i > k
    <3> HIDE DEF k
    <3>. QED  BY <2>3
  <2> HIDE DEF u, v, k
  <2>. QED  BY <2>1, <2>2, <2>4
<1>7. /\ FirstN(u, cap) \in Seq(X) /\ Len(FirstN(u, cap)) = m /\ \A i \in 1..m : FirstN(u, cap)[i] = u[i]
  <2> HIDE DEF u, m
  <2>. QED  BY <1>3, <1>4, FirstNIs
<1>8. /\ FirstN(v, cap) \in Seq(X) /\ Len(FirstN(v, cap)) = m /\ \A i \in 1..m : FirstN(v, cap)[i] = v[i]
  <2> HIDE DEF v
  <2>. QED  BY <1>1, FirstNIs
<1> HIDE DEF u, v, m
<1>9. FirstN(u, cap) = FirstN(v, cap)
  BY <1>4, <1>6, <1>7, <1>8, SameSeq
<1>. QED  BY <1>5, <1>9 DEF u, v, f

(* After the offsets u, of which there was room for cap, and the bytes z.  *)
Recorded(u, cap, z) == [out |-> FirstN(u, cap), saturated |-> Len(u) > cap, data |-> z]

LEMMA RecordIs ==
  ASSUME NEW u \in Seq(Nat), NEW more \in Seq(Nat), NEW cap \in Nat, NEW z, NEW read
  PROVE  Record(Recorded(u, cap, z), more, read, cap) = Recorded(u \o more, cap, z \o Zeros(read))
<1>1. /\ FirstN(FirstN(u, cap) \o more, cap) = FirstN(u \o more, cap)
      /\ (Len(u) > cap \/ Len(FirstN(u, cap)) + Len(more) > cap) <=> Len(u \o more) > cap
  BY FirstOfFirst
<1>2. Record(Recorded(u, cap, z), more, read, cap)
      = [out |-> FirstN(FirstN(u, cap) \o more, cap),
         saturated |-> Len(u) > cap \/ Len(FirstN(u, cap)) + Len(more) > cap, data |-> z \o Zeros(read)]
  BY DEF Record, Recorded
<1>3. (Len(u) > cap \/ Len(FirstN(u, cap)) + Len(more) > cap) = (Len(u \o more) > cap)
  BY <1>1
<1>. QED  BY <1>1, <1>2, <1>3 DEF Recorded

LEMMA ZerosIs ==
  ASSUME NEW X, NEW s \in Seq(X)
  PROVE  Zeros(s) \in Seq({{}}) /\ Len(Zeros(s)) = Len(s) /\ \A i \in 1..Len(s) : Zeros(s)[i] = {}
<1>1. DOMAIN s = 1..Len(s) /\ Len(s) \in Nat
  OBVIOUS
<1>2. Zeros(s) \in [1..Len(s) -> {{}}] /\ \A i \in 1..Len(s) : Zeros(s)[i] = {}
  BY <1>1 DEF Zeros
<1>. QED  BY <1>1, <1>2

LEMMA ZerosJoin ==
  ASSUME NEW X, NEW s \in Seq(X), NEW t \in Seq(X)
  PROVE  Zeros(s \o t) = Zeros(s) \o Zeros(t)
<1> DEFINE u == Zeros(s \o t)
           v == Zeros(s) \o Zeros(t)
           n == Len(s) + Len(t)
<1>1. s \o t \in Seq(X) /\ Len(s \o t) = n /\ n \in Nat
  OBVIOUS
<1>2. u \in Seq({{}}) /\ Len(u) = n
  <2> HIDE DEF n
  <2>. QED  BY <1>1, ZerosIs
<1>3. /\ Zeros(s) \in Seq({{}}) /\ Len(Zeros(s)) = Len(s)
      /\ Zeros(t) \in Seq({{}}) /\ Len(Zeros(t)) = Len(t)
  BY ZerosIs
<1>4. v \in Seq({{}}) /\ Len(v) = n
  <2> DEFINE a == Zeros(s)
             b == Zeros(t)
  <2>1. a \in Seq({{}}) /\ b \in Seq({{}}) /\ Len(a) = Len(s) /\ Len(b) = Len(t)
    BY <1>3
  <2> HIDE DEF a, b
  <2>2. a \o b \in Seq({{}}) /\ Len(a \o b) = Len(a) + Len(b)
    BY <2>1
  <2>. QED  BY <2>1, <2>2 DEF a, b
<1> HIDE DEF u, v, n
<1>5. \A i \in 1..n : u[i] = v[i]
  <2> TAKE i \in 1..n
  <2>1. u[i] \in {{}} /\ v[i] \in {{}}
    BY <1>2, <1>4
  <2>. QED  BY <2>1
<1>6. u = v
  BY <1>1, <1>2, <1>4, <1>5, SameSeq
<1>. QED  BY <1>6 DEF u, v

LEMMA ScanSame ==
  ASSUME NEW d \in Bytes, NEW cap \in Nat
  PROVE  FastScanNonzeroClear(d, cap) = ScanNonzeroClear(d, cap)
<1> DEFINE n == Len(d)
           C == n \div Width
           U(c) == Ascending(Below(Nonzero(d), StartOf(c + 1)))
           Z(c) == Zeros(SubSeq(d, 1, StartOf(c + 1)))
           step(r, c) == Record(r, InChunk(d, c), Load(d, StartOf(c)), cap)
           Body(f) == [c \in 0..C |-> IF c = 0 THEN NothingFound ELSE step(f[c - 1], c)]
           after == CHOOSE f : f = Body(f)
           G == [c \in 0..C |-> Recorded(U(c), cap, Z(c))]
<1>1. /\ \A c \in 0..C : U(c) \in Seq(Nat)
      /\ U(0) = <<>>
      /\ \A c \in Chunks(n) : InChunk(d, c) \in Seq(Nat) /\ U(c) = U(c - 1) \o InChunk(d, c)
      /\ FoundInTail(d) \in Seq(Nat)
      /\ Ascending(Nonzero(d)) = U(C) \o FoundInTail(d)
  BY FoundByChunks
<1>2. n \in Nat /\ d \in Seq(Cells)
  BY DEF Bytes
<1>3. C \in Nat /\ Chunks(n) = 1..C /\ StartOf(1) = 0 /\ StartOf(C + 1) = TailStart(n)
  BY <1>2, Chunking DEF Chunks
<1>4. /\ \A c \in Chunks(n) :
           /\ Load(d, StartOf(c)) \in Seq(Cells)
           /\ SubSeq(d, 1, StartOf(c + 1)) = SubSeq(d, 1, StartOf(c)) \o Load(d, StartOf(c))
      /\ Tail32(d) \in Seq(Cells)
      /\ d = SubSeq(d, 1, TailStart(n)) \o Tail32(d)
  BY <1>2, Loads
<1>5. \A c \in 0..C : SubSeq(d, 1, StartOf(c + 1)) \in Seq(Cells)
  <2> TAKE c \in 0..C
  <2> HIDE DEF C
  <2>1. StartOf(c + 1) \in Int /\ StartOf(c + 1) <= n
    <3>1. CASE c = 0
      BY <1>2, <1>3, <3>1
    <3>2. CASE c # 0
      <4>1. c \in Chunks(n)
        BY <1>3, <3>2
      <4>2. StartOf(c) \in Nat /\ StartOf(c) + Width = StartOf(c + 1) /\ StartOf(c + 1) <= TailStart(n)
            /\ TailStart(n) \in 0..n
        BY <1>2, <4>1, Chunking
      <4> HIDE DEF n
      <4>. QED  BY <1>2, <4>2, WidthAssumption
    <3>. QED  BY <3>1, <3>2
  <2>. QED  BY <1>2, <2>1
<1>6. FastScanNonzeroClear(d, cap) = Record(after[C], FoundInTail(d), Tail32(d), cap)
  BY DEF FastScanNonzeroClear
<1> HIDE DEF C, n, U, Z
<1>7. G[0] = NothingFound
  <2>1. Z(0) = <<>>
    <3>1. SubSeq(d, 1, 0) \in Seq(Cells) /\ Len(SubSeq(d, 1, 0)) = 0
      BY <1>2
    <3>2. Zeros(SubSeq(d, 1, 0)) \in Seq({{}}) /\ Len(Zeros(SubSeq(d, 1, 0))) = 0
      BY <3>1, ZerosIs
    <3>3. StartOf(0 + 1) = 0
      BY <1>3
    <3>4. Zeros(SubSeq(d, 1, 0)) = <<>>
      BY <3>2
    <3>. QED  BY <3>3, <3>4 DEF Z
  <2>2. FirstN(<<>>, cap) = <<>>
    <3>1. <<>> \in Seq(Nat) /\ Len(<<>>) = 0
      OBVIOUS
    <3>2. FirstN(<<>>, cap) \in Seq(Nat) /\ Len(FirstN(<<>>, cap)) \in 0..0
      BY <3>1, FirstNIs
    <3>. QED  BY <3>2
  <2>3. (Len(<<>>) > cap) = FALSE
    OBVIOUS
  <2>4. G[0] = Recorded(U(0), cap, Z(0))
    BY <1>3
  <2>. QED  BY <1>1, <2>1, <2>2, <2>3, <2>4 DEF Recorded, NothingFound
<1>8. \A c \in 1..C : step(G[c - 1], c) = G[c]
  <2> TAKE c \in 1..C
  <2>1. c \in 0..C /\ c - 1 \in 0..C /\ c \in Chunks(n) /\ (c - 1) + 1 = c
    BY <1>3
  <2>2. Record(Recorded(U(c - 1), cap, Z(c - 1)), InChunk(d, c), Load(d, StartOf(c)), cap)
        = Recorded(U(c), cap, Z(c - 1) \o Zeros(Load(d, StartOf(c))))
    <3>1. U(c - 1) \in Seq(Nat) /\ InChunk(d, c) \in Seq(Nat) /\ U(c) = U(c - 1) \o InChunk(d, c)
      BY <1>1, <2>1
    <3>. QED  BY <3>1, RecordIs
  <2>3. Z(c) = Z(c - 1) \o Zeros(Load(d, StartOf(c)))
    <3>1. SubSeq(d, 1, StartOf((c - 1) + 1)) \in Seq(Cells)
      BY <1>5, <2>1
    <3>2. SubSeq(d, 1, StartOf(c)) \in Seq(Cells)
      BY <2>1, <3>1
    <3>3. Zeros(SubSeq(d, 1, StartOf(c)) \o Load(d, StartOf(c))) = Zeros(SubSeq(d, 1, StartOf(c))) \o Zeros(Load(d, StartOf(c)))
      BY <1>4, <2>1, <3>2, ZerosJoin
    <3>. QED  BY <1>4, <2>1, <3>3 DEF Z
  <2>4. G[c - 1] = Recorded(U(c - 1), cap, Z(c - 1)) /\ G[c] = Recorded(U(c), cap, Z(c))
    BY <2>1
  <2> HIDE DEF G
  <2>. QED  BY <2>2, <2>3, <2>4
<1> HIDE DEF G, step
<1>9. G = Body(G)
  <2>1. \A c \in 0..C : G[c] = IF c = 0 THEN NothingFound ELSE step(G[c - 1], c)
    <3> TAKE c \in 0..C
    <3>1. c = 0 \/ c \in 1..C
      BY <1>3
    <3>. QED  BY <1>3, <1>7, <1>8, <3>1
  <2>2. G = [c \in 0..C |-> G[c]]
    BY DEF G
  <2>. QED  BY <2>1, <2>2
<1>10. after = Body(after)
  BY <1>9
<1> HIDE DEF after
<1>11. SameStep(after, G, C)
  <2>1. after[0] = G[0]
    BY <1>3, <1>7, <1>10
  <2>2. \A c \in 1..C : after[c - 1] = G[c - 1] => after[c] = G[c]
    <3> TAKE c \in 1..C
    <3>1. c \in 0..C /\ c # 0
      BY <1>3
    <3>. QED  BY <1>8, <1>10, <3>1
  <2>. QED  BY <2>1, <2>2 DEF SameStep
<1>12. after[C] = Recorded(U(C), cap, Z(C))
  <2>1. \A c \in 0..C : after[c] = G[c]
    BY <1>3, <1>11, SameSteps
  <2>2. C \in 0..C
    BY <1>3
  <2>3. G[C] = Recorded(U(C), cap, Z(C))
    BY <2>2 DEF G
  <2>. QED  BY <2>1, <2>2, <2>3
<1>13. Record(Recorded(U(C), cap, Z(C)), FoundInTail(d), Tail32(d), cap)
       = Recorded(Ascending(Nonzero(d)), cap, Z(C) \o Zeros(Tail32(d)))
  <2>1. U(C) \in Seq(Nat)
    BY <1>1, <1>3
  <2>. QED  BY <1>1, <2>1, RecordIs
<1>14. Z(C) \o Zeros(Tail32(d)) = Zeros(d)
  <2>1. C \in 0..C
    BY <1>3
  <2>2. SubSeq(d, 1, TailStart(n)) \in Seq(Cells)
    BY <1>3, <1>5, <2>1
  <2>3. Zeros(SubSeq(d, 1, TailStart(n)) \o Tail32(d)) = Zeros(SubSeq(d, 1, TailStart(n))) \o Zeros(Tail32(d))
    BY <1>4, <2>2, ZerosJoin
  <2>. QED  BY <1>3, <1>4, <2>3 DEF Z
<1>15. FastScanNonzeroClear(d, cap) = Recorded(Ascending(Nonzero(d)), cap, Zeros(d))
  BY <1>6, <1>12, <1>13, <1>14
<1>16. CountNonzero(d) = Len(Ascending(Nonzero(d)))
  <2>1. Nonzero(d) \in SUBSET (0..(n - 1))
    BY NonzeroParts DEF n
  <2>2. IsAsc(Ascending(Nonzero(d)), Nonzero(d))
    BY <1>2, <2>1, AscIs
  <2>. QED  BY <2>2, AscCount DEF CountNonzero
<1>. QED  BY <1>15, <1>16 DEF ScanNonzeroClear, NonzeroIndices, Recorded

-----------------------------------------------------------------------------
(* The presence mask: what it says of an offset, it says of its group.     *)
LEMMA QuotientIs ==
  ASSUME NEW d \in Nat \ {0}, NEW q \in Nat, NEW r \in 0..(d - 1), NEW x, x = d * q + r
  PROVE  x \in Nat /\ x \div d = q /\ x % d = r
<1> DEFINE p == x \div d
           y == x % d
<1>1. d * q \in Nat /\ x \in Nat
  BY Z3
<1>2. p \in Nat /\ y \in 0..(d - 1) /\ x = d * p + y
  BY <1>1, Division
<1> HIDE DEF p, y
<1>3. p = q
  <2>1. CASE p < q
    <3>1. d * (p + 1) <= d * q
      BY <1>2, <2>1, Z3
    <3>2. d * (p + 1) = d * p + d
      BY <1>2, Z3
    <3>3. d * p \in Nat
      BY <1>2, Z3
    <3>. QED  BY <1>1, <1>2, <3>1, <3>2, <3>3
  <2>2. CASE q < p
    <3>1. d * (q + 1) <= d * p
      BY <1>2, <2>2, Z3
    <3>2. d * (q + 1) = d * q + d
      BY Z3
    <3>3. d * p \in Nat
      BY <1>2, Z3
    <3>. QED  BY <1>1, <1>2, <3>1, <3>2, <3>3
  <2>. QED  BY <1>2, <2>1, <2>2
<1>4. y = r
  BY <1>1, <1>2, <1>3
<1>. QED  BY <1>1, <1>3, <1>4 DEF p, y

LEMMA GroupBit ==
  ASSUME NEW i \in Nat
  PROVE  SlotOf(i) = (i \div Group) \div SlotGroups /\ BitOf(i) = (i \div Group) % SlotGroups
<1> DEFINE q == i \div Group
           r == i % Group
           a == q \div SlotGroups
           b == q % SlotGroups
           w == SlotGroups * Group
           x == Group * b + r
<1>1. Group \in Nat \ {0} /\ SlotGroups \in Nat \ {0}
  BY WidthAssumption
<1>2. q \in Nat /\ r \in 0..(Group - 1) /\ i = Group * q + r
  BY <1>1, Division
<1> HIDE DEF q, r
<1>3. a \in Nat /\ b \in 0..(SlotGroups - 1) /\ q = SlotGroups * a + b
  BY <1>1, <1>2, Division
<1> HIDE DEF a, b
<1>4. w \in Nat \ {0}
  BY <1>1, Z3
<1>5. x \in 0..(w - 1)
  <2>1. b + 1 <= SlotGroups /\ b \in Nat
    BY <1>1, <1>3
  <2>2. Group * (b + 1) <= Group * SlotGroups
    BY <1>1, <2>1, Z3
  <2>3. Group * (b + 1) = Group * b + Group /\ Group * SlotGroups = w /\ Group * b \in Nat
    BY <1>1, <2>1, Z3
  <2> HIDE DEF w
  <2>. QED  BY <1>1, <1>2, <1>4, <2>2, <2>3
<1>6. i = w * a + x
  <2>1. Group * (SlotGroups * a + b) = (SlotGroups * Group) * a + Group * b
    BY <1>1, <1>3, Z3
  <2>2. (SlotGroups * Group) * a \in Nat /\ Group * b \in Nat
    BY <1>1, <1>3, <1>4, Z3
  <2>. QED  BY <1>2, <1>3, <2>1, <2>2
<1>7. i \div w = a /\ i % w = x
  <2> HIDE DEF w, x
  <2>. QED  BY <1>3, <1>4, <1>5, <1>6, QuotientIs
<1>8. x \div Group = b
  BY <1>1, <1>2, <1>3, QuotientIs
<1>. QED  BY <1>7, <1>8 DEF SlotOf, BitOf, a, b, q

LEMMA SameGroup ==
  ASSUME NEW i \in Nat, NEW j \in Nat, i \div Group = j \div Group
  PROVE  SlotOf(i) = SlotOf(j) /\ BitOf(i) = BitOf(j)
BY GroupBit

LEMMA LaneGroup ==
  ASSUME NEW n \in Nat, NEW c \in Chunks(n), NEW k \in 0..(Width - 1)
  PROVE  /\ StartOf(c) + (k \div Group) * Group \in Nat /\ StartOf(c) + k \in Nat
         /\ (StartOf(c) + (k \div Group) * Group) \div Group = (StartOf(c) + k) \div Group
<1> DEFINE g == k \div Group
           r == k % Group
           M == Width \div Group
           s == StartOf(c)
           q == (c - 1) * M + g
<1>1. Group \in Nat \ {0} /\ Width \in Nat \ {0} /\ Width % Group = 0 /\ k \in Nat
  BY WidthAssumption
<1>2. g \in Nat /\ r \in 0..(Group - 1) /\ k = Group * g + r
  BY <1>1, Division
<1> HIDE DEF g, r
<1>3. M \in Nat /\ Width = Group * M
  <2>1. M \in Nat /\ Width = Group * M + 0
    BY <1>1, Division
  <2> HIDE DEF M
  <2>2. Group * M \in Nat
    BY <1>1, <2>1, Z3
  <2>. QED  BY <2>1, <2>2
<1> HIDE DEF M
<1>4. c - 1 \in Nat /\ c \in Nat
  <2>1. n \div Width \in Nat
    BY Chunking
  <2>2. c \in 1..(n \div Width)
    BY DEF Chunks
  <2> DEFINE C == n \div Width
  <2> HIDE DEF C
  <2>3. C \in Nat /\ c \in 1..C
    BY <2>1, <2>2 DEF C
  <2>. QED  BY <2>3
<1>5. s = Group * ((c - 1) * M)
  <2>1. (c - 1) * (Group * M) = Group * ((c - 1) * M)
    BY <1>1, <1>3, <1>4, Z3
  <2>. QED  BY <1>3, <2>1 DEF StartOf
<1> HIDE DEF s
<1>6. (c - 1) * M \in Nat /\ q \in Nat
  BY <1>2, <1>3, <1>4, Z3
<1>7. Group * q = Group * ((c - 1) * M) + Group * g
  <2> DEFINE u == (c - 1) * M
  <2> HIDE DEF u
  <2>1. u \in Nat
    BY <1>6 DEF u
  <2>2. Group * (u + g) = Group * u + Group * g
    BY <1>1, <1>2, <2>1, Z3
  <2>. QED  BY <2>2 DEF u
<1> HIDE DEF q
<1>8. g * Group = Group * g /\ Group * g \in Nat /\ s \in Nat
  <2> DEFINE u == (c - 1) * M
  <2> HIDE DEF u
  <2>1. u \in Nat /\ s = Group * u
    BY <1>5, <1>6 DEF u
  <2>. QED  BY <1>1, <1>2, <2>1, Z3
<1>9. s + g * Group = Group * q + 0 /\ s + k = Group * q + r
  <2>1. Group * q = s + Group * g
    BY <1>5, <1>7
  <2>. QED  BY <1>1, <1>2, <1>8, <2>1
<1>10. s + g * Group \in Nat /\ (s + g * Group) \div Group = q
  <2>1. 0 \in 0..(Group - 1)
    BY <1>1
  <2>. QED  BY <1>1, <1>6, <1>9, <2>1, QuotientIs
<1>11. s + k \in Nat /\ (s + k) \div Group = q
  <2>1. r \in 0..(Group - 1)
    BY <1>2
  <2> DEFINE x == s + k
  <2>2. x = Group * q + r
    BY <1>9
  <2> HIDE DEF x
  <2>3. x \in Nat /\ x \div Group = q
    <3>1. Group \in Nat \ {0} /\ q \in Nat
      BY <1>1, <1>6
    <3>. QED  BY <2>1, <2>2, <3>1, QuotientIs, Zenon
  <2>. QED  BY <2>3 DEF x
<1>. QED  BY <1>10, <1>11 DEF s, g

MaskOf(marked, slots) == [s \in 1..slots |-> {BitOf(i) : i \in {j \in marked : SlotOf(j) = s - 1}}]

LEMMA MaskByGroups ==
  ASSUME NEW P \in SUBSET Nat, NEW R \in SUBSET Nat, NEW slots,
         \A x \in P : \E y \in R : x \div Group = y \div Group,
         \A y \in R : \E x \in P : x \div Group = y \div Group
  PROVE  MaskOf(P, slots) = MaskOf(R, slots)
<1> DEFINE B(S, s) == {BitOf(i) : i \in {j \in S : SlotOf(j) = s - 1}}
<1>1. ASSUME NEW s \in 1..slots PROVE B(P, s) = B(R, s)
  <2>1. ASSUME NEW x \in P, SlotOf(x) = s - 1 PROVE BitOf(x) \in B(R, s)
    <3>1. PICK y \in R : x \div Group = y \div Group
      OBVIOUS
    <3>2. SlotOf(y) = SlotOf(x) /\ BitOf(y) = BitOf(x)
      BY <3>1, SameGroup
    <3>. QED  BY <2>1, <3>2
  <2>2. ASSUME NEW y \in R, SlotOf(y) = s - 1 PROVE BitOf(y) \in B(P, s)
    <3>1. PICK x \in P : x \div Group = y \div Group
      OBVIOUS
    <3>2. SlotOf(y) = SlotOf(x) /\ BitOf(y) = BitOf(x)
      BY <3>1, SameGroup
    <3>. QED  BY <2>2, <3>2
  <2>. QED  BY <2>1, <2>2
<1>. QED  BY <1>1 DEF MaskOf

(* The groups the chunks and the tail mark.                                *)
GroupsIn(d, i) == {i + (k \div Group) * Group : k \in Lanes32(Load(d, i))}
SeenIn(d) == (UNION {GroupsIn(d, StartOf(c)) : c \in Chunks(Len(d))})
             \cup {TailStart(Len(d)) + j : j \in Nonzero(Tail32(d))}

LEMMA MaskSame ==
  ASSUME NEW d \in Bytes, NEW slots
  PROVE  FastChunkPresentMask(d, slots) = ChunkPresentMask(d, slots)
<1> DEFINE n == Len(d)
           P == Nonzero(d)
           R == SeenIn(d)
<1>1. n \in Nat /\ P \in SUBSET (0..(n - 1))
  BY NonzeroParts DEF Bytes
<1>2. FastChunkPresentMask(d, slots) = MaskOf(R, slots) /\ ChunkPresentMask(d, slots) = MaskOf(P, slots)
  BY DEF FastChunkPresentMask, ChunkPresentMask, MaskOf, SeenIn, GroupsIn
<1>3. \A c \in Chunks(n) : Lanes32(Load(d, StartOf(c))) = InLanes(P, c)
  BY NonzeroParts
<1>4. Nonzero(Tail32(d)) = AfterAll(P, n)
  BY NonzeroParts
<1>5. TailStart(n) \in Nat
  BY <1>1, Chunking
<1>6. \A y : y \in R <=> \/ \E c \in Chunks(n) : y \in GroupsIn(d, StartOf(c))
                         \/ \E k \in Nonzero(Tail32(d)) : y = TailStart(n) + k
  <2> DEFINE A == UNION {GroupsIn(d, StartOf(c)) : c \in Chunks(n)}
             B == {TailStart(n) + k : k \in Nonzero(Tail32(d))}
  <2>1. \A y : y \in A <=> \E c \in Chunks(n) : y \in GroupsIn(d, StartOf(c))
    OBVIOUS
  <2>2. \A y : y \in B <=> \E k \in Nonzero(Tail32(d)) : y = TailStart(n) + k
    OBVIOUS
  <2>3. R = A \cup B
    BY DEF SeenIn
  <2> HIDE DEF A, B, R
  <2>. QED  BY <2>1, <2>2, <2>3
<1>7. \A i, y : y \in GroupsIn(d, i) <=> \E k \in Lanes32(Load(d, i)) : y = i + (k \div Group) * Group
  BY DEF GroupsIn
<1> HIDE DEF R
<1>8. \A x \in P : \E y \in R : x \div Group = y \div Group
  <2> TAKE x \in P
  <2>1. ASSUME NEW c \in Chunks(n), NEW k \in 0..(Width - 1), x = StartOf(c) + k
        PROVE  \E y \in R : x \div Group = y \div Group
    <3>1. k \in Lanes32(Load(d, StartOf(c)))
      BY <1>3, <2>1 DEF InLanes
    <3>2. StartOf(c) + (k \div Group) * Group \in R
      BY <1>6, <1>7, <3>1
    <3>3. (StartOf(c) + (k \div Group) * Group) \div Group = x \div Group
      BY <1>1, <2>1, LaneGroup
    <3>. QED  BY <3>2, <3>3
  <2>2. ASSUME NEW k \in 0..(n - TailStart(n) - 1), x = TailStart(n) + k
        PROVE  \E y \in R : x \div Group = y \div Group
    <3>1. k \in Nonzero(Tail32(d))
      BY <1>4, <2>2 DEF AfterAll
    <3>2. x \in R
      BY <1>6, <2>2, <3>1
    <3>. QED  BY <3>2
  <2>. QED  BY <1>1, <2>1, <2>2, Locate
<1>9. \A y \in R : y \in Nat /\ \E x \in P : x \div Group = y \div Group
  <2> TAKE y \in R
  <2>1. ASSUME NEW c \in Chunks(n), NEW k \in Lanes32(Load(d, StartOf(c))), y = StartOf(c) + (k \div Group) * Group
        PROVE  y \in Nat /\ \E x \in P : x \div Group = y \div Group
    <3>1. k \in 0..(Width - 1) /\ StartOf(c) + k \in P
      BY <1>3 DEF InLanes
    <3>2. y \in Nat /\ y \div Group = (StartOf(c) + k) \div Group
      BY <1>1, <2>1, <3>1, LaneGroup
    <3>. QED  BY <3>1, <3>2
  <2>2. ASSUME NEW k \in Nonzero(Tail32(d)), y = TailStart(n) + k
        PROVE  y \in Nat /\ \E x \in P : x \div Group = y \div Group
    <3>1. TailStart(n) + k \in P
      BY <1>4 DEF AfterAll
    <3>. QED  BY <1>1, <2>2, <3>1
  <2>. QED  BY <1>6, <1>7, <2>1, <2>2
<1>10. P \in SUBSET Nat /\ R \in SUBSET Nat
  BY <1>1, <1>9
<1> HIDE DEF P, R
<1>11. MaskOf(P, slots) = MaskOf(R, slots)
  BY <1>8, <1>9, <1>10, MaskByGroups
<1>. QED  BY <1>2, <1>11

-----------------------------------------------------------------------------
(* I3, one operation at a time.                                            *)
LEMMA FastIsScalar ==
  ASSUME NEW op \in Unary \cup Capped \cup Binary, NEW a \in Bytes, NEW b \in Bytes, NEW cap \in Nat
  PROVE  Fast(op, a, b, cap) = Scalar(op, a, b, cap)
<1> USE DEF Fast, Scalar
<1>1. CASE op \in Binary /\ Len(a) # Len(b)
  BY <1>1
<1>2. CASE op \in Unary
  <2>1. CASE op = "count_nonzero"
    BY <2>1, CountNonzeroSame DEF Binary
  <2>2. CASE op = "clear"
    BY <2>2, ClearSame DEF Binary
  <2>3. CASE op = "clear_nonzero"
    BY <2>3, ClearSame, CountNonzeroSame DEF Binary, FastClearNonzero, ClearNonzero
  <2>4. CASE op = "popcount"
    BY <2>4, PopcountSame DEF Binary
  <2>. QED  BY <1>2, <2>1, <2>2, <2>3, <2>4 DEF Unary
<1>3. CASE op \in Capped
  <2>1. CASE op = "nonzero_indices"
    BY <2>1, NonzeroIndicesSame DEF Binary
  <2>2. CASE op = "scan_nonzero_clear"
    BY <2>2, ScanSame DEF Binary
  <2>3. CASE op = "chunk_present_mask"
    BY <2>3, MaskSame DEF Binary
  <2>. QED  BY <1>3, <2>1, <2>2, <2>3 DEF Capped
<1>4. CASE op \in Binary /\ Len(a) = Len(b)
  <2>1. Alike(a, b)
    BY <1>4 DEF Alike
  <2>2. CASE op = "count_newly_set"
    BY <1>4, <2>1, <2>2, NewlySetSame
  <2>3. CASE op = "merge_into"
    BY <1>4, <2>1, <2>3, MergeSame
  <2>4. CASE op = "xor_into"
    BY <1>4, <2>1, <2>4, XorSame
  <2>5. CASE op = "first_mismatch"
    BY <1>4, <2>1, <2>5, FirstMismatchSame
  <2>6. CASE op = "last_mismatch"
    BY <1>4, <2>1, <2>6, LastMismatchSame
  <2>7. CASE op = "mismatch_count"
    BY <1>4, <2>1, <2>7, MismatchCountSame
  <2>. QED  BY <1>4, <2>2, <2>3, <2>4, <2>5, <2>6, <2>7 DEF Binary
<1>. QED  BY <1>1, <1>2, <1>3, <1>4

LEMMA BuffersAreBytes ==
  /\ \A n \in Nat : \A a \in Buffers(n) : a \in Bytes /\ Len(a) = n
  /\ \A a \in Data : a \in Bytes
  /\ <<>> \in Bytes
<1>1. \A n \in Nat : \A a \in Buffers(n) : a \in Bytes /\ Len(a) = n
  BY DEF Buffers, Bytes
<1>2. \A a \in Data : \E n \in 0..MaxData : a \in Buffers(n)
  BY DEF Data
<1>3. MaxData \in Nat
  BY WidthAssumption
<1>. QED  BY <1>1, <1>2, <1>3 DEF Bytes

LEMMA CalledSame ==
  ASSUME NEW op \in Unary \cup Capped \cup Binary, NEW a \in Bytes, NEW b \in Bytes, NEW cap \in Nat,
         Called(op, a, b, cap)
  PROVE  SameAsScalar'
BY FastIsScalar DEF Called, SameAsScalar

(* Whatever the vector width, the buffers and the room: the fast path of   *)
(* every operation does what the scalar one does (simd/, invariant I3).    *)
THEOREM KernelsAgree == KernelsSpec => []SameAsScalar
<1>1. KernelsInit => SameAsScalar
  BY DEF KernelsInit, SameAsScalar
<1>2. SameAsScalar /\ [KernelsNext]_kernelVars => SameAsScalar'
  <2> SUFFICES ASSUME SameAsScalar, [KernelsNext]_kernelVars PROVE SameAsScalar'
    OBVIOUS
  <2>1. MaxOut \in Nat
    BY WidthAssumption
  <2>2. ASSUME NEW op \in Unary, CallUnary(op) PROVE SameAsScalar'
    <3>1. PICK a \in Data : Called(op, a, a, 0)
      BY <2>2 DEF CallUnary
    <3>. QED  BY <3>1, BuffersAreBytes, CalledSame
  <2>3. ASSUME NEW op \in Capped, CallCapped(op) PROVE SameAsScalar'
    <3>1. PICK a \in Data, cap \in 0..MaxOut : Called(op, a, a, cap)
      BY <2>3 DEF CallCapped
    <3>2. cap \in Nat
      BY <2>1
    <3>. QED  BY <3>1, <3>2, BuffersAreBytes, CalledSame
  <2>4. ASSUME NEW op \in Binary, CallBinary(op) PROVE SameAsScalar'
    <3>1. CASE \E n \in 0..MaxData : \E a, b \in Buffers(n) : Called(op, a, b, 0)
      <4>1. PICK n \in 0..MaxData : \E a, b \in Buffers(n) : Called(op, a, b, 0)
        BY <3>1
      <4>2. PICK a \in Buffers(n), b \in Buffers(n) : Called(op, a, b, 0)
        BY <4>1
      <4>3. n \in Nat
        BY WidthAssumption
      <4>. QED  BY <4>2, <4>3, BuffersAreBytes, CalledSame
    <3>2. CASE \E a \in Buffers(1) : Called(op, a, <<>>, 0)
      BY <3>2, BuffersAreBytes, CalledSame
    <3>. QED  BY <2>4, <3>1, <3>2 DEF CallBinary
  <2>5. CASE Return
    BY <2>5 DEF Return, SameAsScalar
  <2>6. ASSUME NEW len, Register(len) PROVE SameAsScalar'
    BY <2>6 DEF Register, SameAsScalar
  <2>7. CASE StartLoop
    BY <2>7 DEF StartLoop, SameAsScalar
  <2>8. CASE NoCounters
    BY <2>8 DEF NoCounters, SameAsScalar
  <2>9. CASE Count
    BY <2>9 DEF Count, SameAsScalar
  <2>10. CASE ClearAll
    BY <2>10 DEF ClearAll, SameAsScalar
  <2>11. ASSUME NEW cap, ScanAndClear(cap) PROVE SameAsScalar'
    BY <2>11 DEF ScanAndClear, SameAsScalar
  <2>12. CASE UNCHANGED kernelVars
    BY <2>12 DEF kernelVars, SameAsScalar
  <2>. QED  BY <2>2, <2>3, <2>4, <2>5, <2>6, <2>7, <2>8, <2>9, <2>10, <2>11, <2>12 DEF KernelsNext
<1>. QED  BY <1>1, <1>2, PTL DEF KernelsSpec

-----------------------------------------------------------------------------
(* A scan over all counter arrays.                                         *)
LEMMA RoomSum ==
  ASSUME NEW c \in Nat, NEW a \in Nat, NEW b \in Nat
  PROVE  /\ NatMin(c, a) + NatMin(c - NatMin(c, a), b) = NatMin(c, a + b)
         /\ NatMin(c, a + b) \in Nat
<1>1. CASE c <= a
  <2>1. NatMin(c, a) = c /\ c <= a + b /\ c - c = 0 /\ 0 <= b
    BY <1>1 DEF NatMin
  <2>. QED  BY <2>1 DEF NatMin
<1>2. CASE a < c
  <2>1. NatMin(c, a) = a /\ (c - a <= b <=> c <= a + b)
    BY <1>2 DEF NatMin
  <2>. QED  BY <1>2, <2>1 DEF NatMin
<1>. QED  BY <1>1, <1>2

LEMMA FirstRoom ==
  ASSUME NEW X, NEW s \in Seq(X), NEW t \in Seq(X), NEW cap \in Nat
  PROVE  LET f == FirstN(s, cap) IN
         /\ cap - Len(f) \in Nat
         /\ f \o FirstN(t, cap - Len(f)) = FirstN(s \o t, cap)
         /\ (Len(s) > cap \/ Len(t) > cap - Len(f)) <=> Len(s \o t) > cap
<1> DEFINE f == FirstN(s, cap)
           k == NatMin(cap, Len(s))
           r == cap - Len(f)
           g == FirstN(t, r)
           u == f \o g
           v == s \o t
           m == NatMin(cap, Len(v))
<1>1. Len(s) \in Nat /\ Len(t) \in Nat /\ v \in Seq(X) /\ Len(v) = Len(s) + Len(t)
  OBVIOUS
<1>2. f \in Seq(X) /\ Len(f) = k /\ k \in 0..Len(s) /\ \A i \in 1..k : f[i] = s[i]
  BY FirstNIs
<1>3. r = cap - k /\ r \in Nat
  BY <1>1, <1>2 DEF NatMin
<1> HIDE DEF f, r
<1>4. g \in Seq(X) /\ Len(g) = NatMin(r, Len(t)) /\ \A i \in 1..NatMin(r, Len(t)) : g[i] = t[i]
  BY <1>3, FirstNIs
<1> HIDE DEF g
<1>5. u \in Seq(X) /\ Len(u) = m /\ m \in Nat
  <2>1. f \in Seq(X) /\ g \in Seq(X)
    BY <1>2, <1>4
  <2>2. u \in Seq(X) /\ Len(u) = Len(f) + Len(g)
    BY <2>1
  <2>3. k + NatMin(r, Len(t)) = m /\ m \in Nat
    <3>1. Len(v) = Len(s) + Len(t) /\ r = cap - k /\ Len(s) \in Nat /\ Len(t) \in Nat
      BY <1>1, <1>3
    <3>2. k = NatMin(cap, Len(s)) /\ m = NatMin(cap, Len(s) + Len(t))
      BY <3>1
    <3> HIDE DEF v, k, m
    <3>. QED  BY <3>1, <3>2, RoomSum
  <2>. QED  BY <1>2, <1>4, <2>2, <2>3
<1>6. (Len(s) > cap \/ Len(t) > r) <=> Len(v) > cap
  BY <1>1, <1>3 DEF NatMin
<1>7. \A i \in 1..m : u[i] = v[i]
  <2> TAKE i \in 1..m
  <2>1. k \in Nat /\ i \in Nat /\ i <= m /\ i >= 1
    BY <1>1, <1>2, <1>5
  <2>2. CASE i <= k
    <3>1. u[i] = f[i] /\ v[i] = s[i] /\ i \in 1..k
      BY <1>1, <1>2, <1>4, <1>5, <2>1, <2>2
    <3>. QED  BY <1>2, <3>1
  <2>3. CASE i > k
    <3>1. k = Len(s)
      BY <1>1, <1>5, <2>1, <2>3 DEF NatMin
    <3>2. i - k \in 1..NatMin(r, Len(t)) /\ i \in 1..(Len(s) + Len(t))
      BY <1>1, <1>3, <2>1, <2>3, <3>1 DEF NatMin
    <3>3. u[i] = g[i - k]
      BY <1>2, <1>4, <1>5, <2>1, <2>3
    <3>4. v[i] = t[i - k]
      BY <1>1, <2>1, <2>3, <3>1, <3>2
    <3>. QED  BY <1>4, <3>2, <3>3, <3>4
  <2>4. i <= k \/ i > k
    <3> HIDE DEF k
    <3>. QED  BY <2>1
  <2> HIDE DEF u, v, k
  <2>. QED  BY <2>2, <2>3, <2>4
<1>8. FirstN(v, cap) \in Seq(X) /\ Len(FirstN(v, cap)) = m /\ \A i \in 1..m : FirstN(v, cap)[i] = v[i]
  <2> HIDE DEF v
  <2>. QED  BY <1>1, FirstNIs
<1> HIDE DEF u, v, m
<1>9. u = FirstN(v, cap)
  BY <1>5, <1>7, <1>8, SameSeq
<1>. QED  BY <1>3, <1>6, <1>9 DEF u, v, g, r, f

(* The entries of one array, and of the first m.                           *)
Entry == Nat \X Nat
Tagged(i, s) == [k \in DOMAIN s |-> <<i, s[k]>>]

Listed(h, rs, m) ==
  /\ h \in Seq(Entry)
  /\ \A i, j \in 1..Len(h) : i < j => Before(h[i], h[j])
  /\ \A i \in 1..Len(h) : h[i][1] \in 1..m /\ h[i][2] \in Nonzero(rs[h[i][1]])
  /\ \A p \in 1..m : \A q \in Nonzero(rs[p]) : \E i \in 1..Len(h) : h[i] = <<p, q>>

LEMMA TaggedIs ==
  ASSUME NEW s \in Seq(Nat), NEW i \in Nat
  PROVE  Tagged(i, s) \in Seq(Entry) /\ Len(Tagged(i, s)) = Len(s)
         /\ \A k \in 1..Len(s) : Tagged(i, s)[k] = <<i, s[k]>>
<1>1. DOMAIN s = 1..Len(s) /\ Len(s) \in Nat /\ \A k \in 1..Len(s) : s[k] \in Nat
  OBVIOUS
<1>2. Tagged(i, s) \in [1..Len(s) -> Entry] /\ \A k \in 1..Len(s) : Tagged(i, s)[k] = <<i, s[k]>>
  BY <1>1 DEF Tagged, Entry
<1>. QED  BY <1>1, <1>2

LEMMA TaggedFirst ==
  ASSUME NEW s \in Seq(Nat), NEW i \in Nat, NEW cap \in Nat
  PROVE  Tagged(i, FirstN(s, cap)) = FirstN(Tagged(i, s), cap)
<1> DEFINE m == NatMin(cap, Len(s))
           f == FirstN(s, cap)
           t == Tagged(i, s)
           u == Tagged(i, f)
           v == FirstN(t, cap)
<1>1. f \in Seq(Nat) /\ Len(f) = m /\ m \in 0..Len(s) /\ \A k \in 1..m : f[k] = s[k]
  BY FirstNIs
<1>2. t \in Seq(Entry) /\ Len(t) = Len(s) /\ \A k \in 1..Len(s) : t[k] = <<i, s[k]>>
  BY TaggedIs
<1> HIDE DEF f, t
<1>3. u \in Seq(Entry) /\ Len(u) = m /\ \A k \in 1..m : u[k] = <<i, f[k]>>
  BY <1>1, TaggedIs
<1>4. v \in Seq(Entry) /\ Len(v) = m /\ \A k \in 1..m : v[k] = t[k]
  BY <1>2, FirstNIs
<1>5. m \in Nat /\ \A k \in 1..m : k \in 1..Len(s)
  <2>1. Len(s) \in Nat
    OBVIOUS
  <2> HIDE DEF m
  <2>. QED  BY <1>1, <2>1
<1>6. \A k \in 1..m : u[k] = v[k]
  BY <1>1, <1>2, <1>3, <1>4, <1>5
<1> HIDE DEF u, v, m
<1>7. u = v
  BY <1>3, <1>4, <1>5, <1>6, SameSeq
<1>. QED  BY <1>7 DEF u, v, f, t

LEMMA ListedNone == ASSUME NEW rs PROVE Listed(<<>>, rs, 0)
<1>1. <<>> \in Seq(Entry) /\ Len(<<>>) = 0
  OBVIOUS
<1>. QED  BY <1>1 DEF Listed

LEMMA ListedMore ==
  ASSUME NEW rs, NEW m \in Nat \ {0}, NEW h, Listed(h, rs, m - 1), NEW s, IsAsc(s, Nonzero(rs[m]))
  PROVE  Listed(h \o Tagged(m, s), rs, m)
<1> DEFINE t == Tagged(m, s)
           a == Len(h)
           n == Len(s)
           u == h \o t
<1>1. /\ s \in Seq(Nat) /\ n \in Nat
      /\ \A i, j \in 1..n : i < j => s[i] < s[j]
      /\ \A i \in 1..n : s[i] \in Nonzero(rs[m]) /\ s[i] \in Nat
      /\ \A x \in Nonzero(rs[m]) : \E i \in 1..n : s[i] = x
  BY DEF IsAsc
<1>2. /\ h \in Seq(Entry) /\ a \in Nat
      /\ \A i, j \in 1..a : i < j => Before(h[i], h[j])
      /\ \A i \in 1..a : h[i][1] \in 1..(m - 1) /\ h[i][2] \in Nonzero(rs[h[i][1]])
      /\ \A p \in 1..(m - 1) : \A q \in Nonzero(rs[p]) : \E i \in 1..a : h[i] = <<p, q>>
  <2>1. h \in Seq(Entry)
    BY DEF Listed
  <2>2. a \in Nat
    BY <2>1
  <2> HIDE DEF a
  <2>. QED  BY <2>1, <2>2 DEF Listed, a
<1>3. t \in Seq(Entry) /\ Len(t) = n /\ \A k \in 1..n : t[k] = <<m, s[k]>>
  BY <1>1, TaggedIs
<1> HIDE DEF t, n
<1>4. u \in Seq(Entry) /\ Len(u) = a + n /\ \A i \in 1..a : u[i] = h[i]
  <2>1. h \in Seq(Entry) /\ t \in Seq(Entry) /\ Len(t) = n
    BY <1>2, <1>3
  <2>. QED  BY <2>1
<1>5. \A i \in 1..(a + n) : i \in 1..a \/ (i > a /\ i - a \in 1..n /\ u[i] = t[i - a])
  <2>1. h \in Seq(Entry) /\ t \in Seq(Entry) /\ Len(t) = n /\ a \in Nat /\ n \in Nat
    BY <1>1, <1>2, <1>3
  <2>. QED  BY <2>1
<1> HIDE DEF a
<1>6. \A i \in 1..n : a + i \in 1..(a + n) /\ (a + i) - a = i /\ a + i \notin 1..a
  BY <1>1, <1>2
<1>7. \A i \in 1..(a + n) : i \in 1..a \/ (i > a /\ i - a \in 1..n /\ u[i] = <<m, s[i - a]>>)
  BY <1>3, <1>5
<1> HIDE DEF u
<1>8. \A i, j \in 1..(a + n) : i < j => Before(u[i], u[j])
  <2> TAKE i, j \in 1..(a + n)
  <2> HAVE i < j
  <2>1. CASE j \in 1..a
    <3>1. i \in 1..a
      BY <1>2, <2>1
    <3>. QED  BY <1>2, <1>4, <2>1, <3>1
  <2>2. CASE j - a \in 1..n /\ u[j] = <<m, s[j - a]>> /\ i \in 1..a
    <3>1. u[i][1] < m /\ u[j][1] = m
      BY <1>2, <1>4, <2>2
    <3>. QED  BY <3>1 DEF Before
  <2>3. CASE j - a \in 1..n /\ u[j] = <<m, s[j - a]>> /\ i - a \in 1..n /\ u[i] = <<m, s[i - a]>>
    <3>1. i - a < j - a
      BY <1>1, <1>2
    <3>2. s[i - a] < s[j - a]
      BY <1>1, <2>3, <3>1
    <3>3. u[i][1] = m /\ u[j][1] = m /\ u[i][2] = s[i - a] /\ u[j][2] = s[j - a]
      BY <2>3
    <3>. QED  BY <3>2, <3>3 DEF Before
  <2>. QED  BY <1>7, <2>1, <2>2, <2>3
<1>9. \A i \in 1..(a + n) : u[i][1] \in 1..m /\ u[i][2] \in Nonzero(rs[u[i][1]])
  <2> TAKE i \in 1..(a + n)
  <2>1. CASE i \in 1..a
    <3>1. h[i][1] \in 1..(m - 1) /\ h[i][2] \in Nonzero(rs[h[i][1]])
      BY <1>2, <2>1
    <3>. QED  BY <1>4, <2>1, <3>1
  <2>2. CASE i - a \in 1..n /\ u[i] = <<m, s[i - a]>>
    <3>1. u[i][1] = m /\ u[i][2] = s[i - a] /\ m \in 1..m
      BY <2>2
    <3>. QED  BY <1>1, <2>2, <3>1
  <2>. QED  BY <1>7, <2>1, <2>2
<1>10. \A p \in 1..m : \A q \in Nonzero(rs[p]) : \E i \in 1..(a + n) : u[i] = <<p, q>>
  <2> TAKE p \in 1..m
  <2> TAKE q \in Nonzero(rs[p])
  <2>1. CASE p \in 1..(m - 1)
    <3>1. PICK i \in 1..a : h[i] = <<p, q>>
      BY <1>2, <2>1
    <3>2. i \in 1..(a + n)
      BY <1>1, <1>2
    <3>. QED  BY <1>4, <3>1, <3>2
  <2>2. CASE p = m
    <3>1. PICK i \in 1..n : s[i] = q
      BY <1>1, <2>2
    <3>2. a + i \in 1..(a + n) /\ (a + i) - a = i /\ a + i \notin 1..a
      BY <1>6
    <3>3. u[a + i] = <<m, s[i]>>
      BY <1>7, <3>2
    <3>. QED  BY <2>2, <3>1, <3>2, <3>3
  <2>. QED  BY <2>1, <2>2
<1>. QED  BY <1>4, <1>8, <1>9, <1>10 DEF Listed, u, t

LEMMA ScanRangeIs ==
  ASSUME NEW h \in Seq(Entry), NEW cap \in Nat, NEW z, NEW i \in Nat, NEW d \in Bytes
  PROVE  ScanRange(Recorded(h, cap, z), i, d, cap)
         = Recorded(h \o Tagged(i, Ascending(Nonzero(d))), cap, Append(z, Zeros(d)))
<1> DEFINE a == Ascending(Nonzero(d))
           t == Tagged(i, a)
           f == FirstN(h, cap)
           r == cap - Len(f)
           got == FastScanNonzeroClear(d, r)
<1>1. IsAsc(a, Nonzero(d))
  <2>1. Len(d) \in Nat /\ Nonzero(d) \in SUBSET (0..(Len(d) - 1))
    BY NonzeroParts DEF Bytes
  <2>. QED  BY <2>1, AscIs
<1>2. a \in Seq(Nat) /\ CountNonzero(d) = Len(a)
  BY <1>1, AscCount DEF IsAsc, CountNonzero
<1> HIDE DEF a
<1>3. t \in Seq(Entry) /\ Len(t) = Len(a)
  BY <1>2, TaggedIs
<1> HIDE DEF t
<1>4. /\ r \in Nat
      /\ f \o FirstN(t, r) = FirstN(h \o t, cap)
      /\ (Len(h) > cap \/ Len(t) > r) <=> Len(h \o t) > cap
  BY <1>3, FirstRoom
<1> HIDE DEF f, r
<1>5. got = [out |-> FirstN(a, r), saturated |-> Len(a) > r, data |-> Zeros(d)]
  BY <1>2, <1>4, ScanSame DEF ScanNonzeroClear, NonzeroIndices, a
<1> HIDE DEF got
<1>6. [k \in DOMAIN got.out |-> <<i, got.out[k]>>] = FirstN(t, r)
  <2>1. got.out = FirstN(a, r)
    BY <1>5
  <2>2. [k \in DOMAIN got.out |-> <<i, got.out[k]>>] = Tagged(i, FirstN(a, r))
    BY <2>1 DEF Tagged
  <2>. QED  BY <1>2, <1>4, <2>2, TaggedFirst DEF t
<1>7. ScanRange(Recorded(h, cap, z), i, d, cap)
      = [out |-> f \o [k \in DOMAIN got.out |-> <<i, got.out[k]>>],
         saturated |-> (Len(h) > cap) \/ got.saturated,
         data |-> Append(z, got.data)]
  BY DEF ScanRange, Recorded, got, r, f
<1>8. ((Len(h) > cap) \/ got.saturated) = (Len(h \o t) > cap)
  <2>1. got.saturated = (Len(a) > r)
    BY <1>5
  <2>2. (Len(a) > r) = (Len(t) > r)
    BY <1>3
  <2>3. (Len(h) > cap \/ got.saturated) <=> Len(h \o t) > cap
    BY <1>4, <2>1, <2>2, Zenon
  <2>. QED  BY <2>3
<1>9. got.data = Zeros(d)
  BY <1>5
<1>. QED  BY <1>4, <1>6, <1>7, <1>8, <1>9 DEF Recorded, t, a

(* A scan reports the first cap of all the entries there are, and leaves   *)
(* every array zeroed.                                                     *)
LEMMA ScanIs ==
  ASSUME NEW rs \in Seq(Bytes), NEW cap \in Nat
  PROVE  \E h : /\ Listed(h, rs, Len(rs))
                /\ Scan(rs, cap) = Recorded(h, cap, [j \in 1..Len(rs) |-> Zeros(rs[j])])
<1> DEFINE N == Len(rs)
           V == Seq(Entry)
           T(i) == Tagged(i, Ascending(Nonzero(rs[i])))
           st == [i \in 1..N |-> [x \in V |-> x \o T(i)]]
           Z(i) == [j \in 1..i |-> Zeros(rs[j])]
           step(r, i) == ScanRange(r, i, rs[i], cap)
           Body(f) == [i \in 0..N |-> IF i = 0 THEN NothingFound ELSE step(f[i - 1], i)]
           upto == CHOOSE f : f = Body(f)
<1>1. N \in Nat /\ \A i \in 1..N : rs[i] \in Bytes
  OBVIOUS
<1>2. \A i \in 1..N : IsAsc(Ascending(Nonzero(rs[i])), Nonzero(rs[i]))
  <2> TAKE i \in 1..N
  <2>1. Len(rs[i]) \in Nat /\ Nonzero(rs[i]) \in SUBSET (0..(Len(rs[i]) - 1))
    BY <1>1, NonzeroParts DEF Bytes
  <2>. QED  BY <2>1, AscIs
<1>3. \A i \in 1..N : T(i) \in V
  <2> TAKE i \in 1..N
  <2>1. Ascending(Nonzero(rs[i])) \in Seq(Nat) /\ i \in Nat
    BY <1>1, <1>2 DEF IsAsc
  <2>. QED  BY <2>1, TaggedIs
<1>4. Scan(rs, cap) = upto[N]
  BY DEF Scan, Fold
<1> HIDE DEF N, T
<1>5. PICK h : h \in [0..N -> V] /\ h[0] = <<>> /\ \A i \in 1..N : h[i] = h[i - 1] \o T(i)
  <2>1. <<>> \in V
    OBVIOUS
  <2>2. st \in [1..N -> [V -> V]]
    <3>1. \A i \in 1..N : \A x \in V : x \o T(i) \in V
      BY <1>3
    <3> HIDE DEF V
    <3>. QED  BY <3>1
  <2> HIDE DEF V, st
  <2>3. PICK g : Iterated(g, V, N, <<>>, st)
    BY <1>1, <2>1, <2>2, Iterates
  <2>4. g \in [0..N -> V] /\ g[0] = <<>> /\ \A i \in 1..N : g[i] = st[i][g[i - 1]]
    BY <2>3 DEF Iterated
  <2>5. \A i \in 1..N : g[i] = g[i - 1] \o T(i)
    <3> TAKE i \in 1..N
    <3>1. g[i - 1] \in V
      BY <1>1, <2>4
    <3>. QED  BY <2>4, <3>1 DEF st
  <2>. QED  BY <2>4, <2>5
<1> DEFINE G == [i \in 0..N |-> Recorded(h[i], cap, Z(i))]
<1>6. G[0] = NothingFound
  <2>1. Z(0) = <<>>
    OBVIOUS
  <2>2. FirstN(<<>>, cap) = <<>>
    <3>1. <<>> \in Seq(Nat) /\ Len(<<>>) = 0
      OBVIOUS
    <3>2. FirstN(<<>>, cap) \in Seq(Nat) /\ Len(FirstN(<<>>, cap)) \in 0..0
      BY <3>1, FirstNIs
    <3>. QED  BY <3>2
  <2>3. (Len(<<>>) > cap) = FALSE
    OBVIOUS
  <2>4. G[0] = Recorded(<<>>, cap, Z(0))
    BY <1>1, <1>5
  <2>. QED  BY <2>1, <2>2, <2>3, <2>4 DEF Recorded, NothingFound
<1>7. \A i \in 1..N : step(G[i - 1], i) = G[i]
  <2> TAKE i \in 1..N
  <2>1. i \in 0..N /\ i - 1 \in 0..N /\ i \in Nat /\ rs[i] \in Bytes
    BY <1>1
  <2>2. h[i - 1] \in Seq(Entry) /\ h[i] = h[i - 1] \o T(i)
    BY <1>5, <2>1
  <2>3. ScanRange(Recorded(h[i - 1], cap, Z(i - 1)), i, rs[i], cap)
        = Recorded(h[i - 1] \o Tagged(i, Ascending(Nonzero(rs[i]))), cap, Append(Z(i - 1), Zeros(rs[i])))
    <3> HIDE DEF Z
    <3>. QED  BY <2>1, <2>2, ScanRangeIs
  <2>4. Append(Z(i - 1), Zeros(rs[i])) = Z(i)
    <3> DEFINE Q == {Zeros(rs[j]) : j \in 1..N}
               u == Append(Z(i - 1), Zeros(rs[i]))
    <3>1. Z(i - 1) \in Seq(Q) /\ Len(Z(i - 1)) = i - 1 /\ Z(i) \in Seq(Q) /\ Len(Z(i)) = i /\ Zeros(rs[i]) \in Q
      <4>1. \A j \in 1..N : Zeros(rs[j]) \in Q
        OBVIOUS
      <4>2. ASSUME NEW m \in 0..N PROVE Z(m) \in Seq(Q) /\ Len(Z(m)) = m
        <5>1. m \in Nat /\ 1..m \subseteq 1..N
          BY <1>1
        <5> HIDE DEF Q
        <5>2. Z(m) \in [1..m -> Q]
          BY <4>1, <5>1
        <5> HIDE DEF Z
        <5>. QED  BY <5>1, <5>2
      <4> HIDE DEF Z, Q
      <4>. QED  BY <2>1, <4>1, <4>2
    <3>2. \A j \in 1..(i - 1) : Z(i - 1)[j] = Zeros(rs[j])
      OBVIOUS
    <3>3. \A j \in 1..i : Z(i)[j] = Zeros(rs[j])
      OBVIOUS
    <3> HIDE DEF Z, Q
    <3>4. u \in Seq(Q) /\ Len(u) = i
      BY <2>1, <3>1
    <3>5. \A j \in 1..i : u[j] = Zeros(rs[j])
      BY <2>1, <3>1, <3>2
    <3>6. \A j \in 1..i : u[j] = Z(i)[j]
      BY <3>3, <3>5
    <3> HIDE DEF u
    <3>7. u = Z(i)
      BY <2>1, <3>1, <3>4, <3>6, SameSeq
    <3>. QED  BY <3>7 DEF u
  <2>5. G[i - 1] = Recorded(h[i - 1], cap, Z(i - 1)) /\ G[i] = Recorded(h[i], cap, Z(i))
    BY <2>1
  <2> HIDE DEF G, Z
  <2>. QED  BY <2>2, <2>3, <2>4, <2>5 DEF T
<1> HIDE DEF G, step, Z
<1>8. G = Body(G)
  <2>1. \A i \in 0..N : G[i] = IF i = 0 THEN NothingFound ELSE step(G[i - 1], i)
    <3> TAKE i \in 0..N
    <3>1. i = 0 \/ i \in 1..N
      BY <1>1
    <3>. QED  BY <1>1, <1>6, <1>7, <3>1
  <2>2. G = [i \in 0..N |-> G[i]]
    BY DEF G
  <2>. QED  BY <2>1, <2>2
<1>9. upto = Body(upto)
  BY <1>8
<1> HIDE DEF upto
<1>10. SameStep(upto, G, N)
  <2>1. upto[0] = G[0]
    BY <1>1, <1>6, <1>9
  <2>2. \A i \in 1..N : upto[i - 1] = G[i - 1] => upto[i] = G[i]
    <3> TAKE i \in 1..N
    <3>1. i \in 0..N /\ i # 0
      BY <1>1
    <3>. QED  BY <1>7, <1>9, <3>1
  <2>. QED  BY <2>1, <2>2 DEF SameStep
<1>11. upto[N] = Recorded(h[N], cap, Z(N))
  <2>1. \A i \in 0..N : upto[i] = G[i]
    BY <1>1, <1>10, SameSteps
  <2>2. N \in 0..N
    BY <1>1
  <2>3. G[N] = Recorded(h[N], cap, Z(N))
    BY <2>2 DEF G
  <2>. QED  BY <2>1, <2>2, <2>3
<1>12. \A i \in 0..N : Listed(h[i], rs, i)
  <2> DEFINE Bad == {i \in 0..N : ~Listed(h[i], rs, i)}
  <2> SUFFICES ASSUME Bad # {} PROVE FALSE
    OBVIOUS
  <2>1. PICK m \in Bad : \A j \in Bad : m <= j
    <3>1. Bad \subseteq Nat
      BY <1>1
    <3> HIDE DEF Bad
    <3>. QED  BY <3>1, Smallest
  <2>2. m \in 1..N
    BY <1>1, <1>5, <2>1, ListedNone
  <2>3. m - 1 \in 0..N /\ m \in Nat \ {0} /\ Listed(h[m - 1], rs, m - 1)
    BY <1>1, <2>1, <2>2
  <2>4. Listed(h[m - 1] \o Tagged(m, Ascending(Nonzero(rs[m]))), rs, m)
    BY <1>2, <2>2, <2>3, ListedMore
  <2>5. h[m] = h[m - 1] \o Tagged(m, Ascending(Nonzero(rs[m])))
    BY <1>5, <2>2 DEF T
  <2>. QED  BY <2>1, <2>4, <2>5
<1>13. Listed(h[N], rs, N)
  BY <1>1, <1>12
<1>14. Listed(h[N], rs, N) /\ Scan(rs, cap) = Recorded(h[N], cap, Z(N))
  BY <1>4, <1>11, <1>13
<1>. QED  BY <1>14 DEF N, Z

LEMMA HitInIs ==
  ASSUME NEW rs, NEW x
  PROVE  x \in HitIn(rs) <=> \E i \in DOMAIN rs : \E j \in Nonzero(rs[i]) : x = <<i, j>>
BY DEF HitIn

(* What a scan of the arrays rs with room for cap entries gives.           *)
LEMMA ScanReports ==
  ASSUME NEW rs \in Seq(Bytes), NEW cap \in Nat
  PROVE  LET r == Scan(rs, cap) IN
         /\ r.data = [i \in 1..Len(rs) |-> Zeros(rs[i])]
         /\ \A i, j \in DOMAIN r.out : i < j => Before(r.out[i], r.out[j])
         /\ ToSet(r.out) \subseteq HitIn(rs)
         /\ Len(r.out) \in Nat
         /\ ~r.saturated => ToSet(r.out) = HitIn(rs)
         /\ r.saturated => Len(r.out) < Cardinality(HitIn(rs))
<1> DEFINE N == Len(rs)
           r == Scan(rs, cap)
           R == HitIn(rs)
<1>1. PICK h : Listed(h, rs, N) /\ r = Recorded(h, cap, [j \in 1..N |-> Zeros(rs[j])])
  BY ScanIs
<1> DEFINE n == Len(h)
           m == NatMin(cap, n)
           f == FirstN(h, cap)
<1>2. h \in Seq(Entry)
  BY <1>1 DEF Listed
<1>3. n \in Nat
  BY <1>2
<1>4. /\ \A i, j \in 1..n : i < j => Before(h[i], h[j])
      /\ \A i \in 1..n : h[i][1] \in 1..N /\ h[i][2] \in Nonzero(rs[h[i][1]])
      /\ \A p \in 1..N : \A q \in Nonzero(rs[p]) : \E i \in 1..n : h[i] = <<p, q>>
  BY <1>1 DEF Listed
<1>5. \A i \in 1..n : h[i] \in Entry /\ h[i] = <<h[i][1], h[i][2]>> /\ h[i][1] \in Nat /\ h[i][2] \in Nat
  BY <1>2 DEF Entry
<1>6. f \in Seq(Entry) /\ Len(f) = m /\ m \in 0..n /\ \A i \in 1..m : f[i] = h[i]
  BY <1>2, FirstNIs
<1>7. r.out = f /\ r.saturated = (n > cap) /\ r.data = [j \in 1..N |-> Zeros(rs[j])]
  BY <1>1 DEF Recorded
<1>8. DOMAIN rs = 1..N
  OBVIOUS
<1>9. \A i \in 1..n : h[i] \in R
  BY <1>4, <1>5, <1>8, HitInIs
<1>10. \A x \in R : \E i \in 1..n : h[i] = x
  <2> TAKE x \in R
  <2>1. PICK p \in 1..N : \E q \in Nonzero(rs[p]) : x = <<p, q>>
    BY <1>8, HitInIs
  <2>2. PICK q \in Nonzero(rs[p]) : x = <<p, q>>
    BY <2>1
  <2>. QED  BY <1>4, <2>2
<1>11. \A i, j \in 1..n : h[i] = h[j] => i = j
  <2> TAKE i, j \in 1..n
  <2>1. ASSUME NEW x \in 1..n, NEW y \in 1..n, x < y PROVE h[x] # h[y]
    <3>1. Before(h[x], h[y])
      BY <1>4, <2>1
    <3>2. h[x][1] \in Nat /\ h[x][2] \in Nat
      BY <1>5
    <3>. QED  BY <3>1, <3>2 DEF Before
  <2>2. i < j \/ j < i \/ i = j
    BY <1>3
  <2>. QED  BY <2>1, <2>2
<1> HIDE DEF R, r, f
<1>12. Cardinality(R) = n
  <2> HIDE DEF n
  <2>. QED  BY <1>3, <1>9, <1>10, <1>11, Enumerated
<1>13. m \in Nat /\ DOMAIN f = 1..m /\ \A i \in 1..m : i \in 1..n /\ f[i] = h[i]
  <2>1. DOMAIN f = 1..m
    BY <1>6
  <2> HIDE DEF m, n
  <2>. QED  BY <1>3, <1>6, <2>1
<1>14. ToSet(f) = {f[i] : i \in 1..m}
  BY <1>13 DEF ToSet
<1>15. ToSet(f) \subseteq R
  BY <1>9, <1>13, <1>14
<1>16. \A i, j \in 1..m : i < j => Before(f[i], f[j])
  BY <1>4, <1>13
<1>17. ~(n > cap) => ToSet(f) = R
  <2> SUFFICES ASSUME ~(n > cap) PROVE R \subseteq ToSet(f)
    BY <1>15
  <2>1. m = n
    <3> HIDE DEF n
    <3>. QED  BY <1>3 DEF NatMin
  <2>. QED  BY <1>10, <1>13, <1>14, <2>1
<1>18. n > cap => m < n
  <2> HIDE DEF n
  <2>. QED  BY <1>3 DEF NatMin
<1> HIDE DEF m, n
<1>. QED  BY <1>6, <1>7, <1>12, <1>13, <1>15, <1>16, <1>17, <1>18 DEF r, R, N

(* Arrays of zeros are arrays, and no counter of theirs has counted.       *)
LEMMA ZeroedArrays ==
  ASSUME NEW rs \in Seq(Bytes)
  PROVE  LET zs == [i \in 1..Len(rs) |-> Zeros(rs[i])] IN
         zs \in Seq(Bytes) /\ HitIn(zs) = {}
<1> DEFINE N == Len(rs)
           zs == [i \in 1..N |-> Zeros(rs[i])]
<1>1. N \in Nat /\ \A i \in 1..N : rs[i] \in Bytes
  OBVIOUS
<1>2. \A i \in 1..N : Zeros(rs[i]) \in Bytes /\ Nonzero(Zeros(rs[i])) = {}
  <2> TAKE i \in 1..N
  <2> DEFINE z == Zeros(rs[i])
             k == Len(rs[i])
  <2>1. rs[i] \in Seq(Cells) /\ k \in Nat
    BY <1>1 DEF Bytes
  <2>2. z \in Seq({{}}) /\ Len(z) = k /\ \A j \in 1..k : z[j] = {}
    BY <2>1, ZerosIs
  <2> HIDE DEF z, k
  <2>3. z \in Seq(Cells)
    <3>1. z \in [1..k -> Cells]
      <4>1. {} \in Cells
        BY WidthAssumption
      <4>2. z \in [1..k -> {{}}]
        BY <2>1, <2>2
      <4>. QED  BY <4>1, <4>2
    <3>. QED  BY <2>1, <3>1
  <2>4. \A j \in 0..(k - 1) : j + 1 \in 1..k
    BY <2>1
  <2>5. Nonzero(z) = {}
    BY <2>2, <2>4 DEF Nonzero, Offsets, At
  <2>. QED  BY <2>3, <2>5 DEF Bytes, z
<1>3. zs \in [1..N -> Bytes] /\ DOMAIN zs = 1..N /\ \A i \in 1..N : zs[i] = Zeros(rs[i])
  BY <1>2
<1> HIDE DEF zs, N
<1>4. zs \in Seq(Bytes)
  BY <1>1, <1>3
<1>5. \A x : x \notin HitIn(zs)
  BY <1>2, <1>3, HitInIs
<1>. QED  BY <1>4, <1>5 DEF zs, N

CountersInv ==
  /\ ranges \in Seq(Bytes)
  /\ ~on => report = NoReport
  /\ ScanConsumes

LEMMA CountersNext == CountersInv /\ [KernelsNext]_kernelVars => CountersInv'
<1> SUFFICES ASSUME CountersInv, [KernelsNext]_kernelVars PROVE CountersInv'
  OBVIOUS
<1>1. ranges \in Seq(Bytes) /\ (~on => report = NoReport) /\ ScanConsumes
  BY DEF CountersInv
<1>2. ASSUME UNCHANGED covVars PROVE CountersInv'
  BY <1>1, <1>2 DEF covVars, CountersInv, ScanConsumes
<1>3. ASSUME NEW len \in 0..(MaxLen + 1), Register(len) PROVE CountersInv'
  <2>1. ~on /\ on' = on /\ report' = report /\ report = NoReport
    BY <1>1, <1>3 DEF Register
  <2>2. [j \in 1..len |-> {}] \in Bytes
    <3>1. len \in Nat /\ {} \in Cells
      BY WidthAssumption
    <3>. QED  BY <3>1 DEF Bytes
  <2>3. ranges' \in Seq(Bytes)
    <3> DEFINE z == [j \in 1..len |-> {}]
    <3>1. ranges' = ranges \/ ranges' = Append(ranges, z)
      BY <1>3 DEF Register
    <3>2. z \in Bytes
      BY <2>2
    <3> HIDE DEF z
    <3>. QED  BY <1>1, <3>1, <3>2
  <2>. QED  BY <2>1, <2>3 DEF CountersInv, ScanConsumes
<1>4. CASE StartLoop
  BY <1>1, <1>4 DEF StartLoop, CountersInv, ScanConsumes
<1>5. CASE NoCounters
  BY <1>1, <1>5 DEF NoCounters, CountersInv, ScanConsumes
<1>6. CASE Count
  <2>1. report' = NoReport
    BY <1>6 DEF Count
  <2>2. PICK i \in DOMAIN ranges :
          \E j \in DOMAIN ranges[i], x \in Cells : ranges' = [ranges EXCEPT ![i][j] = x]
    BY <1>6 DEF Count
  <2>3. PICK j \in DOMAIN ranges[i], x \in Cells : ranges' = [ranges EXCEPT ![i][j] = x]
    BY <2>2
  <2> DEFINE e == [ranges[i] EXCEPT ![j] = x]
  <2>4. ranges[i] \in Seq(Cells)
    BY <1>1 DEF Bytes
  <2>5. e \in Bytes
    BY <2>4 DEF Bytes
  <2>6. ranges' = [ranges EXCEPT ![i] = e]
    BY <2>3
  <2> HIDE DEF e
  <2>7. ranges' \in Seq(Bytes)
    BY <1>1, <2>5, <2>6
  <2>. QED  BY <2>1, <2>7 DEF CountersInv, ScanConsumes
<1>7. CASE ClearAll
  <2>1. report' = NoReport
    BY <1>7 DEF ClearAll
  <2>2. ranges' = [i \in 1..Len(ranges) |-> Zeros(ranges[i])]
    <3>1. DOMAIN ranges = 1..Len(ranges) /\ \A i \in 1..Len(ranges) : ranges[i] \in Bytes
      BY <1>1
    <3>2. \A i \in 1..Len(ranges) : FastClear(ranges[i]) = Zeros(ranges[i])
      BY <3>1, ClearSame
    <3>3. ranges' = [i \in DOMAIN ranges |-> FastClear(ranges[i])]
      BY <1>7 DEF ClearAll
    <3>. QED  BY <3>1, <3>2, <3>3
  <2>3. ranges' \in Seq(Bytes)
    BY <1>1, <2>2, ZeroedArrays
  <2>. QED  BY <2>1, <2>3 DEF CountersInv, ScanConsumes
<1>8. ASSUME NEW cap \in 0..MaxOut, ScanAndClear(cap) PROVE CountersInv'
  <2> DEFINE r == Scan(ranges, cap)
  <2>1. cap \in Nat
    BY WidthAssumption
  <2>2. /\ on /\ on' = on
        /\ ranges' = r.data
        /\ report' = [n |-> IF r.saturated THEN TooSmall ELSE Len(r.out), out |-> r.out, before |-> ranges]
    BY <1>8 DEF ScanAndClear
  <2>3. /\ r.data = [i \in 1..Len(ranges) |-> Zeros(ranges[i])]
        /\ \A i, j \in DOMAIN r.out : i < j => Before(r.out[i], r.out[j])
        /\ ToSet(r.out) \subseteq HitIn(ranges)
        /\ Len(r.out) \in Nat
        /\ ~r.saturated => ToSet(r.out) = HitIn(ranges)
        /\ r.saturated => Len(r.out) < Cardinality(HitIn(ranges))
    BY <1>1, <2>1, ScanReports
  <2>4. ranges' \in Seq(Bytes) /\ HitIn(ranges') = {}
    BY <1>1, <2>2, <2>3, ZeroedArrays
  <2> HIDE DEF r
  <2>5. report'.out = r.out /\ report'.before = ranges
        /\ report'.n = IF r.saturated THEN TooSmall ELSE Len(r.out)
    BY <2>2
  <2>6. report'.n # TooSmall => ~r.saturated
    BY <2>5
  <2>7. report'.n = TooSmall => r.saturated
    BY <2>3, <2>5 DEF TooSmall
  <2>8. ScanConsumes'
    BY <2>3, <2>4, <2>5, <2>6, <2>7 DEF ScanConsumes
  <2>. QED  BY <2>2, <2>4, <2>8 DEF CountersInv
<1>9. ASSUME NEW op, CallUnary(op) \/ CallCapped(op) \/ CallBinary(op) PROVE CountersInv'
  BY <1>2, <1>9 DEF CallUnary, CallCapped, CallBinary, Called
<1>10. CASE Return
  BY <1>2, <1>10 DEF Return
<1>11. CASE UNCHANGED kernelVars
  BY <1>2, <1>11 DEF kernelVars
<1>. QED  BY <1>3, <1>4, <1>5, <1>6, <1>7, <1>8, <1>9, <1>10, <1>11 DEF KernelsNext

(* Whatever arrays are registered and whatever room a scan is given: it    *)
(* reports the counters that had counted, in order and once, or says that  *)
(* there was no room for all; and it leaves all of them zero               *)
(* (scan_and_clear, target_runtime/sancov.rs).                             *)
THEOREM ScansConsume == KernelsSpec => []ScanConsumes
<1>1. KernelsInit => CountersInv
  <2>1. <<>> \in Seq(Bytes)
    OBVIOUS
  <2>. QED  BY <2>1 DEF KernelsInit, CountersInv, ScanConsumes
<1>2. CountersInv => ScanConsumes
  BY DEF CountersInv
<1>. QED  BY <1>1, <1>2, CountersNext, PTL DEF KernelsSpec
=============================================================================
