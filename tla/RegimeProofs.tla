---------------------------- MODULE RegimeProofs ----------------------------
(* For any configuration of the observer and any campaigns: episodes are   *)
(* what they report, none is lost, stored ones do not overlap, hysteresis  *)
(* keeps them apart, and a signal that stays flat settles.                 *)
(* For any edges of a root: its structural episodes and verdicts are those *)
(* of the edges, whatever the campaigns that admitted them.                *)
EXTENDS RegimeEpisodes, StructuralEpisodes, FiniteSetTheorems, WellFoundedInduction, TLAPS

(* An episode is open in state InEpisode only. *)
Good(o) == o \in Observers /\ (o.episode # None <=> o.state = "InEpisode")

(* Samples the hysteresis has seen at least since the last episode. *)
Level(o) == IF o.state = "Recovering" THEN o.driftRun
            ELSE IF o.state = "Stable" THEN DriftDwell + o.driftRun
            ELSE 2 * DriftDwell

-----------------------------------------------------------------------------
(* A set of naturals that is not empty has a least element. *)
LEMMA LeastNumber ==
  ASSUME NEW T, T \subseteq Nat, T # {}
  PROVE  \E k \in T : \A j \in T : k <= j
<1> DEFINE R == OpToRel(<, Nat)
<1>1. IsWellFoundedOn(R, Nat)
  BY NatLessThanWellFounded
<1> HIDE DEF R
<1>2. PICK k \in T : \A j \in T : ~ (<<j, k>> \in R)
  BY <1>1, WFMin
<1>3. \A j \in T : ~(j < k)
  BY <1>2 DEF R, OpToRel
<1>. QED BY <1>3

-----------------------------------------------------------------------------
(* The parts of feed, on well-typed observers. *)

LEMMA MagnitudeType == ASSUME NEW n \in Int PROVE Magnitude(n) \in Nat
BY DEF Magnitude

(* Observers with some fields replaced. *)
LEMMA ObserverEntering ==
  ASSUME NEW o \in Observers, NEW s \in States
  PROVE  [o EXCEPT !.state = s, !.driftRun = 0] \in Observers
BY DEF Observers

LEMMA ObserverOpening ==
  ASSUME NEW o \in Observers, NEW s \in States, NEW e \in OpenEpisodes
  PROVE  [o EXCEPT !.state = s, !.recoverRun = 0, !.episode = e] \in Observers
BY DEF Observers

LEMMA ObserverWith ==
  ASSUME NEW o \in Observers,
         NEW b \in Int \cup {None}, NEW e \in OpenEpisodes \cup {None}
  PROVE  [o EXCEPT !.baseline = b, !.episode = e] \in Observers
BY DEF Observers

LEMMA ObserverReset ==
  ASSUME NEW o \in Observers, NEW n \in Nat, NEW c \in Int
  PROVE  [o EXCEPT !.recoverRun = n, !.cumulative = c] \in Observers
BY DEF Observers

LEMMA ObserverClosing ==
  ASSUME NEW o \in Observers, NEW s \in States
  PROVE  [o EXCEPT !.state = s, !.recoverRun = 0, !.driftRun = 0,
                   !.cumulative = 0, !.baseline = o.prev, !.episode = None]
           \in Observers
<1> DEFINE q == [o EXCEPT !.state = s, !.driftRun = 0]
           t == [q EXCEPT !.recoverRun = 0, !.cumulative = 0]
           u == [t EXCEPT !.baseline = o.prev, !.episode = None]
<1>1. q \in Observers
  BY ObserverEntering
<1>2. t \in Observers
  <2>1. 0 \in Nat /\ 0 \in Int
    OBVIOUS
  <2>. HIDE DEF q
  <2>. QED  BY <1>1, <2>1, ObserverReset, Zenon
<1>3. u \in Observers
  <2>1. o.prev \in Int \cup {None} /\ None \in OpenEpisodes \cup {None}
    BY DEF Observers
  <2>. HIDE DEF t
  <2>. QED  BY <1>2, <2>1, ObserverWith
<1>4. u = [o EXCEPT !.state = s, !.recoverRun = 0, !.driftRun = 0,
                    !.cumulative = 0, !.baseline = o.prev, !.episode = None]
  BY DEF Observers
<1>. QED  BY <1>3, <1>4

LEMMA SampledType ==
  ASSUME NEW o, Good(o), NEW v \in Int
  PROVE  /\ Good(Sampled(o, v))
         /\ Sampled(o, v).state = o.state
         /\ Sampled(o, v).driftRun = o.driftRun
         /\ Sampled(o, v).recoverRun = o.recoverRun
         /\ Sampled(o, v).episode = o.episode
         /\ Sampled(o, v).prev = v
<1> DEFINE r == IF o.prev = None THEN 0 ELSE v - o.prev
<1>1. r \in Int
  BY DEF Good, Observers
<1>2. o.ema - (o.ema \div Scale) + r * Scale \in Int
  <2>1. o.ema \in Int /\ Scale \in Nat \ {0}
    BY RegimeAssumption DEF Good, Observers
  <2>2. o.ema \div Scale \in Int
    BY <2>1
  <2>3. r * Scale \in Int
    BY <1>1, <2>1
  <2>. HIDE DEF r
  <2>. QED  BY <2>1, <2>2, <2>3
<1>3. o.cumulative + r \in Int
  BY <1>1 DEF Good, Observers
<1>4. (IF o.baseline = None THEN v ELSE o.baseline) \in Int \cup {None}
  BY DEF Good, Observers
<1>5. Sampled(o, v) = [o EXCEPT
          !.ema = o.ema - (o.ema \div Scale) + r * Scale,
          !.cumulative = o.cumulative + r,
          !.baseline = IF o.baseline = None THEN v ELSE o.baseline,
          !.prev = v]
  BY DEF Sampled
<1>. HIDE DEF r
<1>. QED  BY <1>1, <1>2, <1>3, <1>4, <1>5 DEF Good, Observers

LEMMA CountedType ==
  ASSUME NEW o, Good(o), o.state # "InEpisode",
         NEW b \in BOOLEAN, NEW next \in {"Stable", "Drift"}
  PROVE  LET p == Counted(o, b, next) IN
         /\ Good(p) /\ p.cumulative = o.cumulative /\ p.prev = o.prev
         /\ \/ p.state = o.state /\ p.driftRun <= o.driftRun + 1
            \/ p.state = next /\ p.driftRun = 0 /\ o.driftRun + 1 >= DriftDwell
<1>1. o.driftRun \in Nat /\ DriftDwell \in Nat
  BY RegimeAssumption DEF Good, Observers
<1>2. o.episode = None
  BY DEF Good
<1>3. CASE ~b
  <2>1. Counted(o, b, next) = [o EXCEPT !.driftRun = 0]
    BY <1>3 DEF Counted
  <2>. QED  BY <1>1, <1>2, <2>1 DEF Good, Observers
<1>4. CASE b /\ o.driftRun + 1 >= DriftDwell
  <2>1. Counted(o, b, next) = [o EXCEPT !.state = next, !.driftRun = 0]
    BY <1>4 DEF Counted
  <2>2. next \in States /\ next # "InEpisode"
    BY DEF States
  <2> DEFINE p == Counted(o, b, next)
  <2>3. p \in Observers
    <3>1. o \in Observers
      BY DEF Good
    <3>2. [o EXCEPT !.state = next, !.driftRun = 0] \in Observers
      BY <2>2, <3>1, ObserverEntering, Zenon
    <3>. QED  BY <2>1, <3>2
  <2>4. /\ p.state = next /\ p.driftRun = 0 /\ p.episode = o.episode
        /\ p.cumulative = o.cumulative /\ p.prev = o.prev
    BY <2>1 DEF Good, Observers
  <2>. QED  BY <1>2, <1>4, <2>2, <2>3, <2>4 DEF Good
<1>5. CASE b /\ ~(o.driftRun + 1 >= DriftDwell)
  <2>1. Counted(o, b, next) = [o EXCEPT !.driftRun = o.driftRun + 1]
    BY <1>5 DEF Counted
  <2>. QED  BY <1>1, <1>2, <2>1 DEF Good, Observers
<1>. QED  BY <1>3, <1>4, <1>5

LEMMA OpenedType ==
  ASSUME NEW o, Good(o), o.prev \in Int, NEW k \in Nat
  PROVE  LET p == Opened(o, k) IN
         /\ Good(p)
         /\ \/ p = o
            \/ o.state = "Drift" /\ p.state = "InEpisode" /\ p.episode.onset = k
<1>1. CASE o.state = "Drift" /\ Magnitude(o.cumulative) >= EpisodeThreshold
  <2> DEFINE e == [onset |-> k, peak |-> k, value |-> o.prev,
                   dev |-> Magnitude(o.cumulative), dwell |-> 1]
  <2>1. Magnitude(o.cumulative) \in Nat
    BY MagnitudeType DEF Good, Observers
  <2>2. e \in OpenEpisodes /\ e.onset = k
    BY <2>1 DEF OpenEpisodes
  <2>3. e # None
    BY <2>2, NoneAssumption
  <2>4. Opened(o, k) = [o EXCEPT !.state = "InEpisode", !.recoverRun = 0,
                                 !.episode = e]
    BY <1>1 DEF Opened
  <2>. HIDE DEF e
  <2> DEFINE p == Opened(o, k)
  <2>5. "InEpisode" \in States
    BY DEF States
  <2>6. p \in Observers
    <3>1. o \in Observers
      BY DEF Good
    <3>2. [o EXCEPT !.state = "InEpisode", !.recoverRun = 0, !.episode = e]
            \in Observers
      BY <2>2, <2>5, <3>1, ObserverOpening, Zenon
    <3>. QED  BY <2>4, <3>2
  <2>7. p.state = "InEpisode" /\ p.episode = e
    BY <2>4 DEF Good, Observers
  <2>. QED  BY <1>1, <2>2, <2>3, <2>6, <2>7 DEF Good
<1>2. CASE ~(o.state = "Drift" /\ Magnitude(o.cumulative) >= EpisodeThreshold)
  BY <1>2 DEF Opened
<1>. QED  BY <1>1, <1>2

LEMMA LongerType ==
  ASSUME NEW o, Good(o), o.state = "InEpisode", o.prev \in Int, NEW k \in Nat
  PROVE  LET p == Longer(o, k) IN
         /\ Good(p) /\ p.state = "InEpisode" /\ p.prev = o.prev
         /\ p.episode \in OpenEpisodes
         /\ p.episode.onset = o.episode.onset
<1> DEFINE dev == Magnitude(o.cumulative)
           longer == [o.episode EXCEPT !.dwell = @ + 1]
           e == IF dev > longer.dev
                  THEN [longer EXCEPT !.peak = k, !.value = o.prev, !.dev = dev]
                  ELSE longer
           run == IF Calm(o, RecoveryThreshold) THEN o.recoverRun + 1 ELSE 0
<1>1. dev \in Nat
  BY MagnitudeType DEF Good, Observers
<1>2. o.episode \in OpenEpisodes
  BY DEF Good, Observers
<1>3. longer \in OpenEpisodes /\ longer.onset = o.episode.onset
  BY <1>2 DEF OpenEpisodes
<1>4. e \in OpenEpisodes /\ e.onset = o.episode.onset
  <2>. HIDE DEF longer, dev
  <2>. QED  BY <1>1, <1>3 DEF OpenEpisodes
<1>5. e # None
  BY <1>4, NoneAssumption
<1>6. run \in Nat
  BY DEF Good, Observers
<1>7. Longer(o, k) = [o EXCEPT !.recoverRun = run, !.episode = e]
  BY DEF Longer
<1>. HIDE DEF e, run
<1>. QED  BY <1>4, <1>5, <1>6, <1>7 DEF Good, Observers

LEMMA ClosedType ==
  ASSUME NEW o, Good(o)
  PROVE  /\ Good(Closed(o)) /\ Closed(o).state = "Recovering"
         /\ Closed(o).driftRun = 0
<1>1. "Recovering" \in States
  BY DEF States
<1>2. Closed(o) \in Observers
  BY <1>1, ObserverClosing DEF Closed, Good
<1>3. /\ Closed(o).state = "Recovering" /\ Closed(o).driftRun = 0
      /\ Closed(o).episode = None
  BY DEF Closed, Good, Observers
<1>. QED  BY <1>2, <1>3 DEF Good

-----------------------------------------------------------------------------
(* What feed may make of an observer o at ordinal k: the observer p, and   *)
(* the episode c or None.                                                  *)
FeedShape(o, k, p, c) ==
  /\ Good(p)
  /\ c = None \/ (c \in Episodes /\ c.close = k
                  /\ o.state = "InEpisode" /\ c.onset = o.episode.onset)
  /\ o.state = "Stable" =>
       \/ p.state = "Stable" /\ p.driftRun <= o.driftRun + 1
       \/ p.state = "Drift" /\ o.driftRun + 1 >= DriftDwell
  /\ o.state = "Drift" =>
       \/ p.state = "Drift"
       \/ p.state = "Stable" /\ p.driftRun = 0
       \/ p.state = "InEpisode" /\ p.episode.onset = k
  /\ o.state = "InEpisode" =>
       \/ c = None /\ p.state = "InEpisode"
            /\ p.episode.onset = o.episode.onset
       \/ p.state = "Recovering" /\ p.driftRun = 0
  /\ o.state = "Recovering" =>
       \/ p.state = "Recovering" /\ p.driftRun <= o.driftRun + 1
       \/ p.state = "Stable" /\ p.driftRun = 0
            /\ o.driftRun + 1 >= DriftDwell

LEMMA FeedType ==
  ASSUME NEW o, Good(o), NEW k \in Nat, NEW v \in Int
  PROVE  FeedShape(o, k, Feed(o, k, v), ClosedBy(o, k, v))
<1> DEFINE s == Sampled(o, v)
           l == Longer(s, k)
           d == Calm(s, DriftThreshold)
<1>1. /\ Good(s) /\ s.state = o.state /\ s.driftRun = o.driftRun
      /\ s.recoverRun = o.recoverRun /\ s.episode = o.episode /\ s.prev = v
  BY SampledType
<1>2. d \in BOOLEAN /\ (~d) \in BOOLEAN
  <2>1. (Magnitude(s.ema) < DriftThreshold * Scale) \in BOOLEAN
    OBVIOUS
  <2>. QED  BY <2>1 DEF Calm
<1>3. CASE o.state = "Stable"
  <2>1. Feed(o, k, v) = Counted(s, ~d, "Drift") /\ ClosedBy(o, k, v) = None
    BY <1>3 DEF Feed, ClosedBy
  <2>. HIDE DEF s, d
  <2>2. LET p == Counted(s, ~d, "Drift") IN
        /\ Good(p)
        /\ \/ p.state = s.state /\ p.driftRun <= s.driftRun + 1
           \/ p.state = "Drift" /\ p.driftRun = 0 /\ s.driftRun + 1 >= DriftDwell
    BY <1>1, <1>2, <1>3, CountedType
  <2>. QED  BY <1>1, <1>3, <2>1, <2>2 DEF FeedShape
<1>4. CASE o.state = "Drift"
  <2> DEFINE q == Counted(s, d, "Stable")
  <2>1. Feed(o, k, v) = Opened(q, k) /\ ClosedBy(o, k, v) = None
    BY <1>4 DEF Feed, ClosedBy
  <2>2. /\ Good(q) /\ q.prev = v
        /\ \/ q.state = "Drift"
           \/ q.state = "Stable" /\ q.driftRun = 0
    <3>. HIDE DEF s, d
    <3>. QED  BY <1>1, <1>2, <1>4, CountedType
  <2>. HIDE DEF q
  <2>3. /\ Good(Opened(q, k))
        /\ \/ Opened(q, k) = q
           \/ /\ q.state = "Drift" /\ Opened(q, k).state = "InEpisode"
              /\ Opened(q, k).episode.onset = k
    BY <2>2, OpenedType
  <2>. QED  BY <1>4, <2>1, <2>2, <2>3 DEF FeedShape
<1>5. CASE o.state = "InEpisode"
  <2>1. /\ Good(l) /\ l.state = "InEpisode" /\ l.episode \in OpenEpisodes
        /\ l.episode.onset = o.episode.onset
    <3>. HIDE DEF s
    <3>. QED  BY <1>1, <1>5, LongerType
  <2>2. CASE CloseReason(l) = None
    <3>1. Feed(o, k, v) = l /\ ClosedBy(o, k, v) = None
      BY <1>5, <2>2 DEF Feed, ClosedBy
    <3>. HIDE DEF l
    <3>. QED  BY <1>5, <2>1, <3>1 DEF FeedShape
  <2>3. CASE CloseReason(l) # None
    <3> DEFINE c == [onset |-> l.episode.onset, peak |-> l.episode.peak,
                     value |-> l.episode.value, dev |-> l.episode.dev,
                     dwell |-> l.episode.dwell, close |-> k,
                     reason |-> CloseReason(l)]
    <3>1. Feed(o, k, v) = Closed(l) /\ ClosedBy(o, k, v) = c
      BY <1>5, <2>3 DEF Feed, ClosedBy
    <3>2. CloseReason(l) \in {"RecoveryDwell", "MaxDwell"}
      BY <2>3 DEF CloseReason
    <3>. HIDE DEF l
    <3>3. c \in Episodes /\ c.close = k /\ c.onset = o.episode.onset
      BY <2>1, <3>2 DEF Episodes, OpenEpisodes
    <3>4. Good(Closed(l)) /\ Closed(l).state = "Recovering"
          /\ Closed(l).driftRun = 0
      BY <2>1, ClosedType
    <3>. HIDE DEF c
    <3>. QED  BY <1>5, <3>1, <3>3, <3>4 DEF FeedShape
  <2>. QED  BY <2>2, <2>3
<1>6. CASE o.state = "Recovering"
  <2>1. Feed(o, k, v) = Counted(s, d, "Stable") /\ ClosedBy(o, k, v) = None
    BY <1>6 DEF Feed, ClosedBy
  <2>. HIDE DEF s, d
  <2>2. LET p == Counted(s, d, "Stable") IN
        /\ Good(p)
        /\ \/ p.state = s.state /\ p.driftRun <= s.driftRun + 1
           \/ p.state = "Stable" /\ p.driftRun = 0 /\ s.driftRun + 1 >= DriftDwell
    BY <1>1, <1>2, <1>6, CountedType
  <2>. QED  BY <1>1, <1>6, <2>1, <2>2 DEF FeedShape
<1>. QED  BY <1>3, <1>4, <1>5, <1>6 DEF Good, Observers, States

-----------------------------------------------------------------------------
(* The derivation of a sequence of entries: h[n] is the observer after the *)
(* first n of them.                                                        *)

Entries == Values \cup {Still}

After(o, k, x) == IF x = Still THEN o ELSE Feed(o, k, x)
Closes(o, k, x) == IF x = Still THEN None ELSE ClosedBy(o, k, x)

(* The samples after entry m up to entry n. *)
FedIn(ms, m, n) == {k \in (m + 1)..n : ms[k] # Still}

ClosingAt(h, ms, m) == Closes(h[m - 1], m, ms[m]) # None

(* What the observer after n entries knows of the episodes before. *)
Spaced(h, ms, n) ==
  /\ Good(h[n])
  /\ h[n].state = "InEpisode" => h[n].episode.onset \in 1..n
  /\ \A m \in 1..n : ClosingAt(h, ms, m) =>
       /\ h[n].state = "InEpisode" =>
            /\ m < h[n].episode.onset
            /\ 2 * DriftDwell <= Cardinality(FedIn(ms, m, h[n].episode.onset - 1))
       /\ h[n].state # "InEpisode" =>
            Level(h[n]) <= Cardinality(FedIn(ms, m, n))

Derivation(h, ms) ==
  /\ DOMAIN h = 0..Len(ms) /\ h[0] = New
  /\ \A n \in 1..Len(ms) : h[n] = After(h[n - 1], n, ms[n])
  /\ \A n \in 0..Len(ms) : Spaced(h, ms, n)

LEMMA FedInFinite ==
  ASSUME NEW ms, NEW m \in Nat, NEW n \in Nat
  PROVE  /\ IsFiniteSet(FedIn(ms, m, n))
         /\ Cardinality(FedIn(ms, m, n)) \in Nat
<1>1. IsFiniteSet((m + 1)..n)
  BY FS_Interval
<1>2. FedIn(ms, m, n) \subseteq (m + 1)..n
  BY DEF FedIn
<1>3. IsFiniteSet(FedIn(ms, m, n))
  BY <1>1, <1>2, FS_Subset
<1>. QED  BY <1>3, FS_CardinalityType

LEMMA FedInNext ==
  ASSUME NEW ms, NEW m \in Nat, NEW n \in Nat, m <= n
  PROVE  Cardinality(FedIn(ms, m, n + 1)) =
           IF ms[n + 1] # Still THEN Cardinality(FedIn(ms, m, n)) + 1
                                ELSE Cardinality(FedIn(ms, m, n))
<1>1. CASE ms[n + 1] # Still
  <2>1. FedIn(ms, m, n + 1) = FedIn(ms, m, n) \cup {n + 1}
    BY <1>1 DEF FedIn
  <2>2. n + 1 \notin FedIn(ms, m, n)
    BY DEF FedIn
  <2>. QED  BY <1>1, <2>1, <2>2, FedInFinite, FS_AddElement
<1>2. CASE ms[n + 1] = Still
  <2>1. FedIn(ms, m, n + 1) = FedIn(ms, m, n)
    BY <1>2 DEF FedIn
  <2>. QED  BY <1>2, <2>1
<1>. QED  BY <1>1, <1>2

(* One more entry. *)
LEMMA SpacedNext ==
  ASSUME NEW ms, NEW h, NEW n \in Nat, Spaced(h, ms, n),
         ms[n + 1] \in Entries, h[n + 1] = After(h[n], n + 1, ms[n + 1])
  PROVE  Spaced(h, ms, n + 1)
<1> DEFINE k == n + 1
           o == h[n]
           p == h[k]
           x == ms[k]
           c == Closes(o, k, x)
<1>1. /\ DriftDwell \in Nat \ {0} /\ k \in Nat /\ k - 1 = n
      /\ Good(o) /\ o.driftRun \in Nat
      /\ \A m \in 1..k : m = k \/ m \in 1..n
  BY RegimeAssumption DEF Spaced, Good, Observers
<1>2. CASE x = Still
  <2>1. p = o /\ ~ClosingAt(h, ms, k)
    BY <1>1, <1>2 DEF After, ClosingAt, Closes
  <2>2. ASSUME NEW m \in 1..n
        PROVE  Cardinality(FedIn(ms, m, k)) = Cardinality(FedIn(ms, m, n))
    BY <1>2, FedInNext
  <2>. HIDE DEF o, p, x, c, k
  <2>3. Good(p) /\ (p.state = "InEpisode" => p.episode.onset \in 1..k)
    BY <2>1 DEF Spaced, o, p, k
  <2>4. ASSUME NEW m \in 1..k, ClosingAt(h, ms, m)
        PROVE  /\ p.state = "InEpisode" =>
                    /\ m < p.episode.onset
                    /\ 2 * DriftDwell <=
                         Cardinality(FedIn(ms, m, p.episode.onset - 1))
               /\ p.state # "InEpisode" =>
                    Level(p) <= Cardinality(FedIn(ms, m, k))
    <3>1. m \in 1..n
      BY <1>1, <2>1, <2>4
    <3>. QED  BY <2>1, <2>2, <2>4, <3>1 DEF Spaced, o
  <2>. QED  BY <2>3, <2>4 DEF Spaced, p, k
<1>3. CASE x # Still
  <2>1. x \in Int
    BY <1>3, EpisodesAssumption DEF Entries
  <2>2. /\ p = Feed(o, k, x) /\ c = ClosedBy(o, k, x)
        /\ ClosingAt(h, ms, k) <=> c # None
    BY <1>1, <1>3 DEF After, ClosingAt, Closes
  <2>3. ASSUME NEW m \in 1..n
        PROVE  /\ Cardinality(FedIn(ms, m, k)) = Cardinality(FedIn(ms, m, n)) + 1
               /\ Cardinality(FedIn(ms, m, n)) \in Nat
    <3>1. m \in Nat /\ m <= n
      OBVIOUS
    <3>. HIDE DEF k
    <3>2. Cardinality(FedIn(ms, m, n + 1)) = Cardinality(FedIn(ms, m, n)) + 1
      BY <1>3, <3>1, FedInNext DEF k
    <3>. QED  BY <3>1, <3>2, FedInFinite DEF k
  <2>4. Cardinality(FedIn(ms, k, k)) = 0
    <3>1. FedIn(ms, k, k) = {}
      BY DEF FedIn
    <3>. QED  BY <3>1, FS_EmptySet
  <2>5. ASSUME NEW m \in 1..n, ClosingAt(h, ms, m)
        PROVE  /\ o.state = "InEpisode" =>
                    /\ m < o.episode.onset
                    /\ 2 * DriftDwell <=
                         Cardinality(FedIn(ms, m, o.episode.onset - 1))
               /\ o.state # "InEpisode" =>
                    Level(o) <= Cardinality(FedIn(ms, m, n))
    BY <2>5 DEF Spaced
  <2>6. o.state = "InEpisode" => o.episode.onset \in 1..n
    BY DEF Spaced
  <2>. HIDE DEF o, p, x, c
  <2>7. FeedShape(o, k, p, c)
    <3>. HIDE DEF k
    <3>. QED  BY <1>1, <2>1, <2>2, FeedType
  <2>8. Good(p) /\ p.driftRun \in Nat
    BY <2>7 DEF FeedShape, Good, Observers
  <2>9. p.state = "InEpisode" => p.episode.onset \in 1..k
    BY <1>1, <2>6, <2>7 DEF FeedShape, Good, Observers, States
  <2>10. ASSUME NEW m \in 1..k, ClosingAt(h, ms, m)
        PROVE  /\ p.state = "InEpisode" =>
                    /\ m < p.episode.onset
                    /\ 2 * DriftDwell <=
                         Cardinality(FedIn(ms, m, p.episode.onset - 1))
               /\ p.state # "InEpisode" =>
                    Level(p) <= Cardinality(FedIn(ms, m, k))
    <3>1. CASE m = k
      <4>1. o.state = "InEpisode" /\ c # None
        BY <2>2, <2>10, <2>7, <3>1 DEF FeedShape
      <4>2. p.state = "Recovering" /\ p.driftRun = 0
        BY <2>7, <4>1 DEF FeedShape
      <4>. QED  BY <2>4, <3>1, <4>2 DEF Level
    <3>2. CASE m \in 1..n /\ o.state = "Stable"
      <4>1. DriftDwell + o.driftRun <= Cardinality(FedIn(ms, m, n))
        BY <2>5, <2>10, <3>2 DEF Level
      <4>2. \/ p.state = "Stable" /\ p.driftRun <= o.driftRun + 1
            \/ p.state = "Drift" /\ o.driftRun + 1 >= DriftDwell
        BY <2>7, <3>2 DEF FeedShape
      <4>. QED  BY <1>1, <2>3, <2>8, <3>2, <4>1, <4>2 DEF Level
    <3>3. CASE m \in 1..n /\ o.state = "Drift"
      <4>1. 2 * DriftDwell <= Cardinality(FedIn(ms, m, n))
        BY <2>5, <2>10, <3>3 DEF Level
      <4>2. \/ p.state = "Drift"
            \/ p.state = "Stable" /\ p.driftRun = 0
            \/ p.state = "InEpisode" /\ p.episode.onset = k
        BY <2>7, <3>3 DEF FeedShape
      <4>. QED  BY <1>1, <2>3, <2>8, <3>3, <4>1, <4>2 DEF Level
    <3>4. CASE m \in 1..n /\ o.state = "InEpisode"
      <4>1. \/ p.state = "InEpisode" /\ p.episode.onset = o.episode.onset
            \/ p.state = "Recovering" /\ p.driftRun = 0
        BY <2>7, <3>4 DEF FeedShape
      <4>. QED  BY <1>1, <2>3, <2>5, <2>10, <3>4, <4>1 DEF Level
    <3>5. CASE m \in 1..n /\ o.state = "Recovering"
      <4>1. o.driftRun <= Cardinality(FedIn(ms, m, n))
        BY <2>5, <2>10, <3>5 DEF Level
      <4>2. \/ p.state = "Recovering" /\ p.driftRun <= o.driftRun + 1
            \/ p.state = "Stable" /\ p.driftRun = 0 /\ o.driftRun + 1 >= DriftDwell
        BY <2>7, <3>5 DEF FeedShape
      <4>. QED  BY <1>1, <2>3, <2>8, <3>5, <4>1, <4>2 DEF Level
    <3>6. o.state \in States
      BY <1>1 DEF Good, Observers
    <3>. QED  BY <1>1, <3>1, <3>2, <3>3, <3>4, <3>5, <3>6 DEF States
  <2>. HIDE DEF k
  <2>. QED  BY <2>8, <2>9, <2>10 DEF Spaced, p, k
<1>. QED  BY <1>2, <1>3

(* A sequence with one more entry has a derivation that prolongs the one   *)
(* of the sequence.                                                        *)
LEMMA DerivationAppend ==
  ASSUME NEW ms \in Seq(Entries), NEW h, Derivation(h, ms), NEW x \in Entries
  PROVE  \E g : /\ Derivation(g, Append(ms, x))
                /\ \A n \in 0..Len(ms) : g[n] = h[n]
                /\ g[Len(ms) + 1] = After(h[Len(ms)], Len(ms) + 1, x)
<1> DEFINE L == Len(ms)
           ns == Append(ms, x)
           g == [n \in 0..(L + 1) |-> IF n <= L THEN h[n] ELSE After(h[L], L + 1, x)]
<1>1. /\ L \in Nat /\ ns \in Seq(Entries) /\ Len(ns) = L + 1
      /\ ns[L + 1] = x /\ \A k \in 1..L : ns[k] = ms[k]
  OBVIOUS
<1>2. /\ DOMAIN g = 0..Len(ns)
      /\ \A n \in 0..L : g[n] = h[n]
      /\ g[L + 1] = After(h[L], L + 1, x)
  BY <1>1
<1>. HIDE DEF g, L, ns
<1>3. g[0] = New
  BY <1>1, <1>2 DEF Derivation
<1>4. ASSUME NEW n \in 1..Len(ns)
      PROVE  g[n] = After(g[n - 1], n, ns[n])
  <2>1. CASE n \in 1..L
    <3>1. n - 1 \in 0..L /\ n \in 0..L
      BY <1>1, <2>1
    <3>2. h[n] = After(h[n - 1], n, ms[n])
      BY <2>1 DEF Derivation, L
    <3>. QED  BY <1>1, <1>2, <2>1, <3>1, <3>2
  <2>2. CASE n = L + 1
    <3>1. n - 1 = L /\ L \in 0..L
      BY <1>1, <2>2
    <3>. QED  BY <1>1, <1>2, <2>2, <3>1
  <2>. QED  BY <1>1, <2>1, <2>2
<1>5. ASSUME NEW n \in 0..L
      PROVE  Spaced(g, ns, n)
  <2>1. Spaced(h, ms, n) /\ g[n] = h[n]
    BY <1>2 DEF Derivation, L
  <2>2. ASSUME NEW m \in 1..n
        PROVE  ClosingAt(g, ns, m) <=> ClosingAt(h, ms, m)
    <3>1. m - 1 \in 0..L /\ m \in 1..L
      BY <1>1
    <3>. QED  BY <1>1, <1>2, <3>1 DEF ClosingAt
  <2>3. ASSUME NEW m \in 1..n, NEW j \in Int, j <= n
        PROVE  FedIn(ns, m, j) = FedIn(ms, m, j)
    <3>1. \A k \in (m + 1)..j : ns[k] = ms[k]
      BY <1>1, <2>3
    <3>. QED  BY <3>1 DEF FedIn
  <2>4. h[n].state = "InEpisode" =>
           /\ h[n].episode.onset - 1 \in Int
           /\ h[n].episode.onset - 1 <= n
    BY <2>1 DEF Spaced
  <2>. QED  BY <2>1, <2>2, <2>3, <2>4 DEF Spaced
<1>6. Spaced(g, ns, L + 1)
  <2>1. Spaced(g, ns, L) /\ g[L + 1] = After(g[L], L + 1, ns[L + 1])
    BY <1>1, <1>2, <1>5
  <2>. QED  BY <1>1, <2>1, SpacedNext
<1>7. \A n \in 0..Len(ns) : Spaced(g, ns, n)
  BY <1>1, <1>5, <1>6
<1>8. Derivation(g, ns)
  BY <1>2, <1>3, <1>4, <1>7 DEF Derivation
<1>. QED  BY <1>2, <1>8 DEF L, ns

(* The episodes of a derivation. *)
Derived(h, ms) == {Closes(h[k - 1], k, ms[k]) : k \in 1..Len(ms)} \ {None}

LEMMA EpisodeAt ==
  ASSUME NEW ms \in Seq(Entries), NEW h, Derivation(h, ms),
         NEW k \in 1..Len(ms), Closes(h[k - 1], k, ms[k]) # None
  PROVE  LET e == Closes(h[k - 1], k, ms[k]) IN
         /\ e \in Episodes /\ e.close = k /\ e.onset \in 1..(k - 1)
         /\ \A m \in 1..(k - 1) : ClosingAt(h, ms, m) =>
              /\ m < e.onset
              /\ 2 * DriftDwell <= Cardinality(FedIn(ms, m, e.onset - 1))
<1> DEFINE o == h[k - 1]
           e == Closes(o, k, ms[k])
<1>1. k - 1 \in 0..Len(ms) /\ k \in Nat /\ ms[k] \in Entries
  OBVIOUS
<1>2. Spaced(h, ms, k - 1)
  BY <1>1 DEF Derivation
<1>3. ms[k] # Still /\ e = ClosedBy(o, k, ms[k]) /\ ms[k] \in Int
  BY <1>1, EpisodesAssumption DEF Closes, Entries
<1>4. FeedShape(o, k, Feed(o, k, ms[k]), e)
  BY <1>1, <1>2, <1>3, FeedType DEF Spaced
<1>5. /\ e \in Episodes /\ e.close = k
      /\ o.state = "InEpisode" /\ e.onset = o.episode.onset
  <2>. HIDE DEF o, e
  <2>1. e # None
    BY DEF o, e
  <2>. QED  BY <1>4, <2>1 DEF FeedShape
<1>6. /\ o.episode.onset \in 1..(k - 1)
      /\ \A m \in 1..(k - 1) : ClosingAt(h, ms, m) =>
           /\ m < o.episode.onset
           /\ 2 * DriftDwell <= Cardinality(FedIn(ms, m, o.episode.onset - 1))
  BY <1>2, <1>5 DEF Spaced
<1>. HIDE DEF e
<1>7. /\ e \in Episodes /\ e.close = k /\ e.onset \in 1..(k - 1)
      /\ \A m \in 1..(k - 1) : ClosingAt(h, ms, m) =>
           /\ m < e.onset
           /\ 2 * DriftDwell <= Cardinality(FedIn(ms, m, e.onset - 1))
  BY <1>5, <1>6
<1>. QED  BY <1>7 DEF e

-----------------------------------------------------------------------------
(* The inductive invariant: memory and store follow the derivation of the  *)
(* metas, memory up to the entry it has got to.  Where the derivation got  *)
(* to once, all episodes before have closed: Seen.                         *)
Seen(h) ==
  /\ \A k \in 1..ordinal : Closes(h[k - 1], k, metas[k]) \in closed \cup {None}
  /\ \A e \in closed : \A k \in 1..(e.close) : Closes(h[k - 1], k, metas[k]) \in closed \cup {None}

Follows(h) ==
  /\ observer = h[ordinal] /\ Seen(h)
  /\ closed \subseteq Derived(h, metas)
  /\ episodes \subseteq Derived(h, metas)
  /\ toWrite \in Derived(h, metas) \cup {None}
  /\ \A k \in 1..ordinal :
       Closes(h[k - 1], k, metas[k]) \in episodes \cup {toWrite, None}

IInv ==
  /\ metas \in Seq(Entries) /\ ordinal \in 0..Len(metas)
  /\ phase \in {"off", "rebuild", "on"} /\ residual \in BOOLEAN
  /\ starts \in Nat
  /\ \E h : Derivation(h, metas) /\ Follows(h)
  /\ phase = "on" => \A e \in closed : e.close <= ordinal
  /\ phase = "on" /\ residual => ordinal = Len(metas)
  /\ phase # "on" => toWrite = None

LEMMA NewGood == Good(New)
<1>1. New \in Observers
  BY DEF New, Observers, States
<1>. QED  BY <1>1 DEF Good, New

LEMMA InitIInv == Init => IInv
<1>. SUFFICES ASSUME Init PROVE IInv
  OBVIOUS
<1> DEFINE h == [n \in {0} |-> New]
<1>1. metas = <<>> /\ Len(metas) = 0 /\ metas \in Seq(Entries)
  BY DEF Init
<1>2. DOMAIN h = 0..0 /\ h[0] = New
  OBVIOUS
<1>. HIDE DEF h
<1>3. Spaced(h, metas, 0)
  BY <1>2, NewGood DEF Spaced, New
<1>4. Derivation(h, metas)
  BY <1>1, <1>2, <1>3 DEF Derivation
<1>5. Follows(h)
  BY <1>2 DEF Init, Follows, Seen
<1>6. phase = "off" /\ residual \in BOOLEAN
  BY DEF Init
<1>7. starts \in Nat /\ ordinal \in 0..Len(metas) /\ toWrite = None
  BY <1>1 DEF Init
<1>. QED  BY <1>1, <1>4, <1>5, <1>6, <1>7, Zenon DEF IInv

(* What the steps that leave the metas alone have to keep. *)
LEMMA KeepMetas ==
  ASSUME IInv, metas' = metas,
         ASSUME NEW h, Derivation(h, metas), Follows(h) PROVE Follows(h)'
  PROVE  \E h : Derivation(h, metas') /\ Follows(h)'
BY DEF IInv

LEMMA StartIInv == ASSUME IInv, NEW r \in BOOLEAN, Start(r) PROVE IInv'
<1>1. metas' = metas
  BY DEF Start, store
<1>2. \E h : Derivation(h, metas') /\ Follows(h)'
  <2>1. ASSUME NEW h, Derivation(h, metas), Follows(h)
        PROVE  Follows(h)'
    <3>1. h[0] = New
      BY <2>1 DEF Derivation
    <3>. QED  BY <2>1, <3>1 DEF Start, store, Follows, Seen
  <2>. QED  BY <1>1, <2>1, KeepMetas
<1>. QED  BY <1>1, <1>2 DEF IInv, Start, store

(* What a derivation says at a step. *)
LEMMA DerivationStep ==
  ASSUME NEW h, Derivation(h, metas), NEW k \in 1..Len(metas)
  PROVE  /\ h[k] = After(h[k - 1], k, metas[k])
         /\ Some(Closes(h[k - 1], k, metas[k])) \subseteq Derived(h, metas)
BY DEF Derivation, Derived, Some

(* The step of rebuild, and of an admission, in terms of the derivation. *)
LEMMA ReplayStep ==
  ASSUME Replay
  PROVE  /\ phase = "rebuild" /\ ordinal < Len(metas) /\ ordinal' = ordinal + 1
         /\ observer' = After(observer, ordinal + 1, metas[ordinal + 1])
         /\ LET c == Closes(observer, ordinal + 1, metas[ordinal + 1]) IN
              episodes' = episodes \cup Some(c) /\ closed' = closed \cup Some(c)
         /\ metas' = metas /\ phase' = phase /\ residual' = residual
         /\ toWrite' = toWrite /\ starts' = starts
<1>1. CASE metas[ordinal + 1] = Still
  BY <1>1 DEF Replay, After, Closes, Some
<1>2. CASE metas[ordinal + 1] # Still
  BY <1>2 DEF Replay, After, Closes
<1>. QED  BY <1>1, <1>2

LEMMA ReplayIInv == ASSUME IInv, Replay PROVE IInv'
<1> DEFINE k == ordinal + 1
           c == Closes(observer, k, metas[k])
<1>1. /\ k \in 1..Len(metas) /\ k - 1 = ordinal /\ ordinal' = k
      /\ observer' = After(observer, k, metas[k])
      /\ episodes' = episodes \cup Some(c) /\ closed' = closed \cup Some(c)
      /\ metas' = metas /\ phase' = phase /\ residual' = residual
      /\ toWrite' = toWrite /\ starts' = starts /\ phase = "rebuild"
  BY ReplayStep DEF IInv
<1>. HIDE DEF k, c
<1>2. ASSUME NEW h, Derivation(h, metas), Follows(h)
      PROVE  Follows(h)'
  <2>1. h[k - 1] = observer /\ c = Closes(h[k - 1], k, metas[k])
    BY <1>1, <1>2 DEF Follows, c
  <2>2. observer' = h[k] /\ Some(c) \subseteq Derived(h, metas)
    BY <1>1, <1>2, <2>1, DerivationStep
  <2>3. ASSUME NEW j \in 1..ordinal'
        PROVE  Closes(h[j - 1], j, metas[j]) \in episodes' \cup {toWrite, None}
    <3>1. CASE j = k
      BY <1>1, <2>1, <3>1 DEF Some
    <3>2. CASE j # k
      <4>1. j \in 1..ordinal
        BY <1>1, <3>2 DEF IInv
      <4>. QED  BY <1>1, <1>2, <4>1 DEF Follows
    <3>. QED  BY <3>1, <3>2
  <2>4. ASSUME NEW j \in 1..k
        PROVE  Closes(h[j - 1], j, metas[j]) \in closed' \cup {None}
    <3>1. CASE j = k
      BY <1>1, <2>1, <3>1 DEF Some
    <3>2. CASE j # k
      <4>1. j \in 1..ordinal
        BY <1>1, <3>2 DEF IInv
      <4>. QED  BY <1>1, <1>2, <4>1 DEF Follows, Seen
    <3>. QED  BY <3>1, <3>2
  <2>5. ASSUME NEW e \in closed', NEW j \in 1..(e.close)
        PROVE  Closes(h[j - 1], j, metas[j]) \in closed' \cup {None}
    <3>1. CASE e \in closed
      BY <1>1, <1>2, <3>1 DEF Follows, Seen
    <3>2. CASE e = c /\ c # None
      <4>1. c.close = k
        BY <1>1, <1>2, <2>1, <3>2, EpisodeAt DEF IInv
      <4>. QED  BY <2>4, <3>2, <4>1
    <3>. QED  BY <1>1, <3>1, <3>2 DEF Some
  <2>6. Seen(h)'
    BY <1>1, <2>4, <2>5 DEF Seen
  <2>. QED  BY <1>1, <1>2, <2>2, <2>3, <2>6 DEF Follows
<1>3. \E h : Derivation(h, metas') /\ Follows(h)'
  BY <1>1, <1>2, KeepMetas
<1>4. ordinal' \in 0..Len(metas')
  BY <1>1 DEF IInv
<1>. QED  BY <1>1, <1>3, <1>4 DEF IInv

LEMMA RebuiltIInv == ASSUME IInv, Rebuilt PROVE IInv'
<1>1. /\ ordinal = Len(metas) /\ phase = "rebuild" /\ phase' = "on"
      /\ metas' = metas /\ episodes' = episodes /\ residual' = residual
      /\ observer' = observer /\ ordinal' = ordinal /\ toWrite' = toWrite
      /\ starts' = starts /\ closed' = closed
  BY DEF Rebuilt, store, memory
<1>2. \E h : Derivation(h, metas') /\ Follows(h)'
  BY <1>1, KeepMetas DEF Follows, Seen
<1>3. ASSUME NEW e \in closed
      PROVE  e.close <= ordinal
  <2>1. PICK h : Derivation(h, metas) /\ Follows(h)
    BY DEF IInv
  <2>2. PICK k \in 1..Len(metas) : e = Closes(h[k - 1], k, metas[k]) /\ e # None
    BY <2>1 DEF Follows, Derived
  <2>3. e.close = k
    BY <2>1, <2>2, EpisodeAt DEF IInv
  <2>. QED  BY <1>1, <2>3
<1>. QED  BY <1>1, <1>2, <1>3 DEF IInv

(* The derivation of one more entry has the episodes of the shorter one.   *)
LEMMA AppendDerived ==
  ASSUME NEW ms \in Seq(Entries), NEW x \in Entries, NEW h, NEW g,
         \A n \in 0..Len(ms) : g[n] = h[n]
  PROVE  /\ \A k \in 1..Len(ms) :
              Closes(g[k - 1], k, Append(ms, x)[k]) = Closes(h[k - 1], k, ms[k])
         /\ Derived(h, ms) \subseteq Derived(g, Append(ms, x))
         /\ Some(Closes(h[Len(ms)], Len(ms) + 1, x))
              \subseteq Derived(g, Append(ms, x))
<1> DEFINE ns == Append(ms, x)
           L == Len(ms)
<1>1. /\ L \in Nat /\ Len(ns) = L + 1 /\ ns[L + 1] = x
      /\ \A k \in 1..L : ns[k] = ms[k]
  OBVIOUS
<1>. HIDE DEF ns, L
<1>2. ASSUME NEW k \in 1..L
      PROVE  Closes(g[k - 1], k, ns[k]) = Closes(h[k - 1], k, ms[k])
  <2>1. k - 1 \in 0..L
    BY <1>1
  <2>. QED  BY <1>1, <2>1 DEF L
<1>3. Derived(h, ms) \subseteq Derived(g, ns)
  <2>1. 1..L \subseteq 1..Len(ns)
    BY <1>1
  <2>. QED  BY <1>2, <2>1 DEF Derived, L
<1>4. Some(Closes(h[L], L + 1, x)) \subseteq Derived(g, ns)
  <2>1. L + 1 \in 1..Len(ns) /\ (L + 1) - 1 = L /\ L \in 0..L
    BY <1>1
  <2>2. g[L] = h[L]
    BY <2>1 DEF L
  <2>3. Closes(h[L], L + 1, x) = Closes(g[(L + 1) - 1], L + 1, ns[L + 1])
    BY <1>1, <2>1, <2>2
  <2>. QED  BY <2>1, <2>3 DEF Derived, Some
<1>. QED  BY <1>2, <1>3, <1>4 DEF L, ns

LEMMA AdmitStep ==
  ASSUME NEW v, Admit(v)
  PROVE  /\ phase = "on" /\ residual /\ toWrite = None
         /\ metas' = Append(metas, v) /\ ordinal' = ordinal + 1
         /\ observer' = After(observer, ordinal + 1, v)
         /\ toWrite' = Closes(observer, ordinal + 1, v)
         /\ closed' = closed \cup Some(Closes(observer, ordinal + 1, v))
         /\ episodes' = episodes /\ phase' = phase /\ residual' = residual
         /\ starts' = starts
<1>1. CASE v = Still
  BY <1>1 DEF Admit, Ready, After, Closes, Some
<1>2. CASE v # Still
  BY <1>2 DEF Admit, Ready, After, Closes
<1>. QED  BY <1>1, <1>2

LEMMA AdmitIInv == ASSUME IInv, NEW v \in Entries, Admit(v) PROVE IInv'
<1> DEFINE L == Len(metas)
           c == Closes(observer, L + 1, v)
<1>1. L \in Nat /\ ordinal = L /\ metas \in Seq(Entries)
  BY AdmitStep DEF IInv
<1>2. /\ phase = "on" /\ residual /\ toWrite = None
      /\ metas' = Append(metas, v) /\ ordinal' = L + 1
      /\ observer' = After(observer, L + 1, v)
      /\ toWrite' = c /\ closed' = closed \cup Some(c)
      /\ episodes' = episodes /\ phase' = phase /\ residual' = residual
      /\ starts' = starts
  BY <1>1, AdmitStep
<1>3. PICK h : Derivation(h, metas) /\ Follows(h)
  BY DEF IInv
<1>4. PICK g : /\ Derivation(g, Append(metas, v))
               /\ \A n \in 0..L : g[n] = h[n]
               /\ g[L + 1] = After(h[L], L + 1, v)
  BY <1>1, <1>3, DerivationAppend
<1>5. /\ \A k \in 1..L :
           Closes(g[k - 1], k, metas'[k]) = Closes(h[k - 1], k, metas[k])
      /\ Derived(h, metas) \subseteq Derived(g, metas')
      /\ Some(Closes(h[L], L + 1, v)) \subseteq Derived(g, metas')
  BY <1>1, <1>2, <1>4, AppendDerived
<1>6. metas' \in Seq(Entries) /\ Len(metas') = L + 1 /\ metas'[L + 1] = v
  BY <1>1, <1>2
<1>7. observer = h[L] /\ c = Closes(h[L], L + 1, v)
  BY <1>1, <1>3 DEF Follows
<1>. HIDE DEF L, c
<1>8. Some(c) \subseteq Derived(g, metas') /\ c \in Derived(g, metas') \cup {None}
  BY <1>5, <1>7 DEF Some
<1>9. ASSUME NEW j \in 1..(L + 1)
      PROVE  Closes(g[j - 1], j, metas'[j]) \in episodes \cup {c, None}
  <2>1. CASE j = L + 1
    <3>1. j - 1 = L /\ L \in 0..L
      BY <1>1, <2>1
    <3>. QED  BY <1>4, <1>6, <1>7, <2>1, <3>1
  <2>2. CASE j # L + 1
    <3>1. j \in 1..ordinal /\ j \in 1..L
      BY <1>1, <2>2
    <3>2. Closes(h[j - 1], j, metas[j]) \in episodes \cup {None}
      BY <1>2, <1>3, <3>1 DEF Follows
    <3>. QED  BY <1>5, <3>1, <3>2
  <2>. QED  BY <2>1, <2>2
<1>10. Follows(g)'
  <2>1. observer' = g[ordinal']
    BY <1>2, <1>4, <1>7
  <2>2. closed' \subseteq Derived(g, metas') /\ episodes' \subseteq Derived(g, metas')
    BY <1>2, <1>3, <1>5, <1>8 DEF Follows
  <2>3. ASSUME NEW j \in 1..(L + 1)
        PROVE  Closes(g[j - 1], j, metas'[j]) \in closed' \cup {None}
    <3>1. CASE j = L + 1
      <4>1. j - 1 = L /\ L \in 0..L
        BY <1>1, <3>1
      <4>. QED  BY <1>2, <1>4, <1>6, <1>7, <3>1, <4>1 DEF Some
    <3>2. CASE j # L + 1
      <4>1. j \in 1..ordinal /\ j \in 1..L
        BY <1>1, <3>2
      <4>. QED  BY <1>2, <1>3, <1>5, <4>1 DEF Follows, Seen
    <3>. QED  BY <3>1, <3>2
  <2>4. \A e \in closed' : \A j \in 1..(e.close) : Closes(g[j - 1], j, metas'[j]) \in closed' \cup {None}
    <3>1. ASSUME NEW e \in closed' PROVE e.close \in 1..(L + 1)
      <4>1. e \in Derived(g, metas') /\ Derivation(g, metas')
        BY <1>2, <1>4, <2>2
      <4>2. PICK j \in 1..Len(metas') : e = Closes(g[j - 1], j, metas'[j]) /\ e # None
        BY <4>1 DEF Derived
      <4>. QED  BY <1>6, <4>1, <4>2, EpisodeAt
    <3>2. \A e \in closed' : 1..(e.close) \subseteq 1..(L + 1)
      BY <1>1, <3>1
    <3>. QED  BY <2>3, <3>2
  <2>5. Seen(g)'
    BY <1>2, <2>3, <2>4 DEF Seen
  <2>. QED  BY <1>2, <1>8, <1>9, <2>1, <2>2, <2>5 DEF Follows
<1>11. \A e \in closed' : e.close <= ordinal'
  <2>1. \A e \in closed : e.close <= ordinal
    BY <1>2 DEF IInv
  <2>2. \A e \in Some(c) : e.close = L + 1
    <3>1. CASE c # None
      <4>1. L + 1 \in 1..Len(metas') /\ (L + 1) - 1 = L /\ L \in 0..L
        BY <1>1, <1>6
      <4>2. c = Closes(g[(L + 1) - 1], L + 1, metas'[L + 1])
        BY <1>4, <1>6, <1>7, <4>1
      <4>3. Derivation(g, metas')
        BY <1>2, <1>4
      <4>4. c.close = L + 1
        BY <1>6, <3>1, <4>1, <4>2, <4>3, EpisodeAt
      <4>. QED  BY <4>4 DEF Some
    <3>2. CASE c = None
      BY <3>2 DEF Some
    <3>. QED  BY <3>1, <3>2
  <2>3. \A e \in closed : e.close \in Nat
    <3>1. Derived(h, metas) \subseteq Episodes
      BY <1>1, <1>3, EpisodeAt DEF Derived
    <3>. QED  BY <1>3, <3>1 DEF Follows, Episodes
  <2>. QED  BY <1>1, <1>2, <2>1, <2>2, <2>3
<1>12. \E f : Derivation(f, metas') /\ Follows(f)'
  BY <1>2, <1>4, <1>10
<1>13. ordinal' \in 0..Len(metas') /\ ordinal' = Len(metas')
  BY <1>1, <1>2, <1>6
<1>14. residual' \in BOOLEAN /\ phase' = "on" /\ starts' \in Nat
  BY <1>2 DEF IInv
<1>. QED  BY <1>6, <1>11, <1>12, <1>13, <1>14, Zenon DEF IInv

LEMMA AdmitPlainIInv == ASSUME IInv, NEW v \in Entries, AdmitPlain(v) PROVE IInv'
<1> DEFINE L == Len(metas)
<1>1. /\ phase = "on" /\ ~residual /\ toWrite = None
      /\ metas' = Append(metas, v) /\ ordinal' = ordinal
      /\ observer' = observer /\ toWrite' = toWrite /\ closed' = closed
      /\ episodes' = episodes /\ phase' = phase /\ residual' = residual
      /\ starts' = starts
  BY DEF AdmitPlain, Ready, memory
<1>2. PICK h : Derivation(h, metas) /\ Follows(h)
  BY DEF IInv
<1>3. PICK g : /\ Derivation(g, Append(metas, v))
               /\ \A n \in 0..L : g[n] = h[n]
  BY <1>2, DerivationAppend DEF IInv
<1>4. /\ \A k \in 1..L :
           Closes(g[k - 1], k, metas'[k]) = Closes(h[k - 1], k, metas[k])
      /\ Derived(h, metas) \subseteq Derived(g, metas')
  BY <1>1, <1>3, AppendDerived DEF IInv
<1>5. metas' \in Seq(Entries) /\ Len(metas') = L + 1 /\ L \in Nat
  BY <1>1 DEF IInv
<1>6. ordinal \in 0..L /\ 1..ordinal \subseteq 1..L
  BY DEF IInv
<1>. HIDE DEF L
<1>7. Follows(g)'
  <2>1. observer' = g[ordinal']
    BY <1>1, <1>2, <1>3, <1>6 DEF Follows
  <2>2. ASSUME NEW j \in 1..ordinal
        PROVE  Closes(g[j - 1], j, metas'[j]) \in episodes \cup {toWrite, None}
    <3>1. Closes(h[j - 1], j, metas[j]) \in episodes \cup {toWrite, None}
      BY <1>2 DEF Follows
    <3>. QED  BY <1>4, <1>6, <3>1
  <2>3. ASSUME NEW j \in 1..L, Closes(h[j - 1], j, metas[j]) \in closed \cup {None}
        PROVE  Closes(g[j - 1], j, metas'[j]) \in closed \cup {None}
    BY <1>4, <2>3
  <2>4. \A j \in 1..ordinal : Closes(g[j - 1], j, metas'[j]) \in closed \cup {None}
    BY <1>2, <1>6, <2>3 DEF Follows, Seen
  <2>5. \A e \in closed : 1..(e.close) \subseteq 1..L
    <3>1. ASSUME NEW e \in closed PROVE e.close \in 1..L
      <4>1. PICK j \in 1..L : e = Closes(h[j - 1], j, metas[j]) /\ e # None
        BY <1>2 DEF Follows, Derived, L
      <4>. QED  BY <1>2, <4>1, EpisodeAt DEF L, IInv
    <3>. QED  BY <1>5, <3>1
  <2>6. \A e \in closed : \A j \in 1..(e.close) : Closes(g[j - 1], j, metas'[j]) \in closed \cup {None}
    BY <1>2, <2>3, <2>5 DEF Follows, Seen
  <2>7. Seen(g)'
    BY <1>1, <2>4, <2>6 DEF Seen
  <2>. QED  BY <1>1, <1>2, <1>4, <2>1, <2>2, <2>7 DEF Follows
<1>8. ordinal' \in 0..Len(metas')
  BY <1>1, <1>5, <1>6
<1>9. \E f : Derivation(f, metas') /\ Follows(f)'
  BY <1>1, <1>3, <1>7
<1>. QED  BY <1>1, <1>5, <1>8, <1>9 DEF IInv

LEMMA WriteIInv == ASSUME IInv, WriteEpisode PROVE IInv'
<1>1. /\ phase = "on" /\ toWrite # None /\ toWrite' = None
      /\ episodes' = episodes \cup {toWrite}
      /\ metas' = metas /\ phase' = phase /\ residual' = residual
      /\ observer' = observer /\ ordinal' = ordinal
      /\ starts' = starts /\ closed' = closed
  BY DEF WriteEpisode, memory
<1>2. \E h : Derivation(h, metas') /\ Follows(h)'
  <2>1. ASSUME NEW h, Derivation(h, metas), Follows(h)
        PROVE  Follows(h)'
    BY <1>1, <2>1 DEF Follows, Seen
  <2>. QED  BY <1>1, <2>1, KeepMetas
<1>. QED  BY <1>1, <1>2 DEF IInv

LEMMA EndIInv == ASSUME IInv, End PROVE IInv'
<1>1. /\ phase' = "off" /\ residual' = FALSE /\ observer' = New
      /\ ordinal' = 0 /\ toWrite' = None
      /\ metas' = metas /\ episodes' = episodes
      /\ starts' = starts /\ closed' = closed
  BY DEF End, store
<1>2. \E h : Derivation(h, metas') /\ Follows(h)'
  <2>1. ASSUME NEW h, Derivation(h, metas), Follows(h)
        PROVE  Follows(h)'
    <3>1. h[0] = New
      BY <2>1 DEF Derivation
    <3>. QED  BY <1>1, <2>1, <3>1 DEF Follows, Seen
  <2>. QED  BY <1>1, <2>1, KeepMetas
<1>3. ordinal' \in 0..Len(metas')
  BY <1>1 DEF IInv
<1>4. residual' \in BOOLEAN /\ starts' \in Nat /\ metas' \in Seq(Entries)
  BY <1>1 DEF IInv
<1>. QED  BY <1>1, <1>2, <1>3, <1>4, Zenon DEF IInv

LEMMA StutterIInv == ASSUME IInv, UNCHANGED vars PROVE IInv'
<1>1. /\ metas' = metas /\ episodes' = episodes /\ phase' = phase
      /\ residual' = residual /\ observer' = observer /\ ordinal' = ordinal
      /\ toWrite' = toWrite /\ starts' = starts /\ closed' = closed
  BY DEF vars, store, memory
<1>2. \E h : Derivation(h, metas') /\ Follows(h)'
  BY <1>1, KeepMetas DEF Follows, Seen
<1>. QED  BY <1>1, <1>2 DEF IInv

LEMMA Inductive == Spec => []IInv
<1>1. Init => IInv
  BY InitIInv
<1>2. IInv /\ [Next]_vars => IInv'
  <2>. SUFFICES ASSUME IInv, [Next]_vars PROVE IInv'
    OBVIOUS
  <2>1. CASE \E r \in BOOLEAN : Start(r)
    BY <2>1, StartIInv
  <2>2. CASE Replay
    BY <2>2, ReplayIInv
  <2>3. CASE Rebuilt
    BY <2>3, RebuiltIInv
  <2>4. CASE \E v \in Values \cup {Still} : Admit(v) \/ AdmitPlain(v)
    BY <2>4, AdmitIInv, AdmitPlainIInv DEF Entries
  <2>5. CASE WriteEpisode
    BY <2>5, WriteIInv
  <2>6. CASE End
    BY <2>6, EndIInv
  <2>7. CASE Rest \/ UNCHANGED vars
    BY <2>7, StutterIInv DEF Rest
  <2>. QED  BY <2>1, <2>2, <2>3, <2>4, <2>5, <2>6, <2>7 DEF Next
<1>. QED  BY <1>1, <1>2, PTL DEF Spec

-----------------------------------------------------------------------------
(* What the invariant says of an episode: the entry it closes at, and the  *)
(* hysteresis between it and the episodes before.                          *)
LEMMA EpisodeFacts ==
  ASSUME IInv, NEW h, Derivation(h, metas), NEW b \in Derived(h, metas)
  PROVE  /\ b \in Episodes /\ b.close \in 1..Len(metas)
         /\ b.onset \in 1..(b.close - 1)
         /\ b = Closes(h[b.close - 1], b.close, metas[b.close])
         /\ \A a \in Derived(h, metas) : a.close < b.close =>
              /\ a.close < b.onset
              /\ 2 * DriftDwell <=
                   Cardinality(FedIn(metas, a.close, b.onset - 1))
<1>1. metas \in Seq(Entries)
  BY DEF IInv
<1>2. PICK k \in 1..Len(metas) : b = Closes(h[k - 1], k, metas[k]) /\ b # None
  BY DEF Derived
<1>3. /\ b \in Episodes /\ b.close = k /\ b.onset \in 1..(k - 1)
      /\ \A m \in 1..(k - 1) : ClosingAt(h, metas, m) =>
           /\ m < b.onset
           /\ 2 * DriftDwell <= Cardinality(FedIn(metas, m, b.onset - 1))
  BY <1>1, <1>2, EpisodeAt
<1>4. ASSUME NEW a \in Derived(h, metas), a.close < b.close
      PROVE  /\ a.close < b.onset
             /\ 2 * DriftDwell <=
                  Cardinality(FedIn(metas, a.close, b.onset - 1))
  <2>1. PICK m \in 1..Len(metas) : a = Closes(h[m - 1], m, metas[m]) /\ a # None
    BY DEF Derived
  <2>2. a.close = m
    BY <1>1, <2>1, EpisodeAt
  <2>3. m \in 1..(k - 1) /\ ClosingAt(h, metas, m)
    BY <1>3, <1>4, <2>1, <2>2 DEF ClosingAt
  <2>. QED  BY <1>3, <2>2, <2>3
<1>. QED  BY <1>2, <1>3, <1>4

(* Every episode that ever closed is stored whenever a campaign is between *)
(* two admissions, however many were killed before: rebuild stores again   *)
(* what process_result could not.                                          *)
THEOREM NoEpisodeLostAlways == Spec => []NoEpisodeLost
<1>1. IInv => NoEpisodeLost
  <2>. SUFFICES ASSUME IInv, phase = "on", toWrite = None, NEW e \in closed
                PROVE  e \in episodes
    BY DEF NoEpisodeLost
  <2>1. PICK h : Derivation(h, metas) /\ Follows(h)
    BY DEF IInv
  <2>2. e \in Derived(h, metas)
    BY <2>1 DEF Follows
  <2>3. /\ e # None /\ e.close \in 1..Len(metas)
        /\ e = Closes(h[e.close - 1], e.close, metas[e.close])
    BY <2>1, <2>2, EpisodeFacts DEF Derived
  <2>4. e.close \in 1..ordinal
    BY <2>3 DEF IInv
  <2>. QED  BY <2>1, <2>3, <2>4 DEF Follows
<1>. QED  BY <1>1, Inductive, PTL

(* Stored episodes do not overlap, whichever campaigns derived them.       *)
THEOREM EpisodesDisjointAlways == Spec => []EpisodesDisjoint
<1>1. IInv => EpisodesDisjoint
  <2>. SUFFICES ASSUME IInv, NEW a \in episodes, NEW b \in episodes
                PROVE  a = b \/ a.close < b.onset \/ b.close < a.onset
    BY DEF EpisodesDisjoint
  <2>1. PICK h : Derivation(h, metas) /\ Follows(h)
    BY DEF IInv
  <2>2. a \in Derived(h, metas) /\ b \in Derived(h, metas)
    BY <2>1 DEF Follows
  <2>3. /\ a.close \in Nat /\ b.close \in Nat
        /\ a = Closes(h[a.close - 1], a.close, metas[a.close])
        /\ b = Closes(h[b.close - 1], b.close, metas[b.close])
    BY <2>1, <2>2, EpisodeFacts
  <2>4. CASE a.close = b.close
    BY <2>3, <2>4
  <2>5. CASE a.close < b.close
    BY <2>1, <2>2, <2>5, EpisodeFacts
  <2>6. CASE b.close < a.close
    BY <2>1, <2>2, <2>6, EpisodeFacts
  <2>. QED  BY <2>3, <2>4, <2>5, <2>6
<1>. QED  BY <1>1, Inductive, PTL

(* Two episodes are at least two drift dwells of samples apart: one for    *)
(* the signal to calm down, one for it to drift again.                     *)
THEOREM EpisodesApartAlways == Spec => []EpisodesApart
<1>1. IInv => EpisodesApart
  <2>. SUFFICES ASSUME IInv, NEW a \in closed, NEW b \in closed,
                       a.close < b.onset
                PROVE  Cardinality({k \in Fed : a.close < k /\ k < b.onset})
                         >= 2 * DriftDwell
    BY DEF EpisodesApart
  <2>1. PICK h : Derivation(h, metas) /\ Follows(h)
    BY DEF IInv
  <2>2. a \in Derived(h, metas) /\ b \in Derived(h, metas)
    BY <2>1 DEF Follows
  <2>3. /\ a.close \in 1..Len(metas) /\ b.close \in 1..Len(metas)
        /\ b.onset \in 1..(b.close - 1)
    BY <2>1, <2>2, EpisodeFacts
  <2>4. a.close < b.close
    BY <2>3
  <2>5. 2 * DriftDwell <= Cardinality(FedIn(metas, a.close, b.onset - 1))
    BY <2>1, <2>2, <2>4, EpisodeFacts
  <2>6. FedIn(metas, a.close, b.onset - 1)
          = {k \in Fed : a.close < k /\ k < b.onset}
    <3>1. DOMAIN metas = 1..Len(metas)
      BY DEF IInv
    <3>. QED  BY <2>3, <3>1 DEF FedIn, Fed
  <2>7. DriftDwell \in Nat /\ Cardinality(FedIn(metas, a.close, b.onset - 1)) \in Nat
    BY <2>3, FedInFinite, RegimeAssumption
  <2>. QED  BY <2>5, <2>6, <2>7
<1>. QED  BY <1>1, Inductive, PTL

(* Type correctness of the episodes, of those stored and those that ever   *)
(* closed: it follows from the derivation.                                 *)
THEOREM EpisodeTypes == Spec => []TypeOK
<1>1. IInv => TypeOK
  <2>. SUFFICES ASSUME IInv PROVE TypeOK
    OBVIOUS
  <2>1. PICK h : Derivation(h, metas) /\ Follows(h)
    BY DEF IInv
  <2>2. Derived(h, metas) \subseteq Episodes
    BY <2>1, EpisodeFacts
  <2>3. /\ episodes \subseteq Episodes /\ closed \subseteq Episodes
        /\ toWrite \in Episodes \cup {None}
    BY <2>1, <2>2 DEF Follows
  <2>4. ordinal \in 0..Len(metas) /\ metas \in Seq(Values \cup {Still})
    BY DEF IInv, Entries
  <2>5. observer \in Observers
    BY <2>1, <2>4 DEF Follows, Derivation, Spaced, Good
  <2>6. ordinal \in Nat
    BY <2>4
  <2>7. phase \in {"off", "rebuild", "on"} /\ residual \in BOOLEAN /\ starts \in Nat
    BY DEF IInv
  <2>. QED  BY <2>3, <2>4, <2>5, <2>6, <2>7, Zenon DEF TypeOK
<1>. QED  BY <1>1, Inductive, PTL

(* The observer a campaign with the residual channel decides by is the one *)
(* that is fed with the store's entries from the first on                  *)
(* (coordinator.rs, rebuild and process_result), however many campaigns    *)
(* were killed: h[n] is that observer after the first n.                   *)
IsReplay(h) ==
  /\ DOMAIN h = 0..Len(metas) /\ h[0] = New
  /\ \A n \in 1..Len(metas) :
       h[n] = IF metas[n] = Still THEN h[n - 1] ELSE Feed(h[n - 1], n, metas[n])

MemoryIsReplay ==
  phase = "on" /\ residual =>
    \E h : IsReplay(h) /\ observer = h[Len(metas)]

(* A campaign that was resumed decides as one that never stopped would.    *)
THEOREM MemoryIsReplayAlways == Spec => []MemoryIsReplay
<1>1. IInv => MemoryIsReplay
  <2>. SUFFICES ASSUME IInv, phase = "on", residual
                PROVE  \E h : IsReplay(h) /\ observer = h[Len(metas)]
    BY DEF MemoryIsReplay
  <2>1. PICK h : Derivation(h, metas) /\ Follows(h)
    BY DEF IInv
  <2>2. IsReplay(h)
    BY <2>1 DEF Derivation, IsReplay, After
  <2>3. ordinal = Len(metas) /\ observer = h[ordinal]
    BY <2>1 DEF IInv, Follows
  <2>. QED  BY <2>2, <2>3
<1>. QED  BY <1>1, Inductive, PTL

-----------------------------------------------------------------------------
(* The fields of feed's parts that an episode reports. *)
LEMMA SampledFields ==
  ASSUME NEW o, Good(o), NEW v \in Int
  PROVE  /\ Sampled(o, v).cumulative = o.cumulative + (IF o.prev = None THEN 0 ELSE v - o.prev)
         /\ Sampled(o, v).baseline = IF o.baseline = None THEN v ELSE o.baseline
         /\ Sampled(o, v).prev = v
BY DEF Sampled, Good, Observers

LEMMA CountedFields ==
  ASSUME NEW o, Good(o), NEW b, NEW next \in {"Stable", "Drift"}, o.state # "InEpisode"
  PROVE  LET p == Counted(o, b, next)
         IN  /\ p.cumulative = o.cumulative /\ p.baseline = o.baseline /\ p.prev = o.prev
             /\ p.state # "InEpisode"
<1>1. o \in Observers
  BY DEF Good
<1>2. Counted(o, b, next) \in {[o EXCEPT !.driftRun = 0], [o EXCEPT !.driftRun = @ + 1],
                               [o EXCEPT !.state = next, !.driftRun = 0]}
  BY DEF Counted
<1>. QED  BY <1>1, <1>2 DEF Observers

LEMMA OpenedFields ==
  ASSUME NEW o, Good(o), NEW k
  PROVE  LET p == Opened(o, k)
         IN  /\ p.cumulative = o.cumulative /\ p.baseline = o.baseline /\ p.prev = o.prev
             /\ o.state # "InEpisode" /\ p.state = "InEpisode" =>
                  /\ Magnitude(o.cumulative) >= EpisodeThreshold
                  /\ p.episode = [onset |-> k, peak |-> k, value |-> o.prev,
                                  dev |-> Magnitude(o.cumulative), dwell |-> 1]
<1>1. o \in Observers
  BY DEF Good
<1>2. CASE o.state = "Drift" /\ Magnitude(o.cumulative) >= EpisodeThreshold
  <2> DEFINE e == [onset |-> k, peak |-> k, value |-> o.prev, dev |-> Magnitude(o.cumulative), dwell |-> 1]
  <2>1. Opened(o, k) = [o EXCEPT !.state = "InEpisode", !.recoverRun = 0, !.episode = e]
    BY <1>2 DEF Opened
  <2> HIDE DEF e
  <2>2. LET p == Opened(o, k)
        IN  p.cumulative = o.cumulative /\ p.baseline = o.baseline /\ p.prev = o.prev /\ p.episode = e
    BY <1>1, <2>1 DEF Observers
  <2>. QED  BY <1>2, <2>2 DEF e
<1>3. CASE ~(o.state = "Drift" /\ Magnitude(o.cumulative) >= EpisodeThreshold)
  BY <1>3 DEF Opened
<1>. QED  BY <1>2, <1>3

LEMMA LongerFields ==
  ASSUME NEW o, Good(o), o.state = "InEpisode", NEW k
  PROVE  LET p == Longer(o, k)
             e == o.episode
             f == p.episode
             dev == Magnitude(o.cumulative)
         IN  /\ p.cumulative = o.cumulative /\ p.baseline = o.baseline /\ p.prev = o.prev
             /\ f.onset = e.onset /\ f.dwell = e.dwell + 1
             /\ dev > e.dev => f.peak = k /\ f.value = o.prev /\ f.dev = dev
             /\ ~(dev > e.dev) => f.peak = e.peak /\ f.value = e.value /\ f.dev = e.dev
<1> DEFINE dev == Magnitude(o.cumulative)
           longer == [o.episode EXCEPT !.dwell = @ + 1]
           f == IF dev > longer.dev
                  THEN [longer EXCEPT !.peak = k, !.value = o.prev, !.dev = dev]
                  ELSE longer
           run == IF Calm(o, RecoveryThreshold) THEN o.recoverRun + 1 ELSE 0
<1>1. o \in Observers /\ o.episode \in OpenEpisodes
  BY DEF Good, Observers
<1>2. Longer(o, k) = [o EXCEPT !.recoverRun = run, !.episode = f]
  BY DEF Longer
<1>3. longer \in OpenEpisodes /\ longer.onset = o.episode.onset /\ longer.dwell = o.episode.dwell + 1
      /\ longer.dev = o.episode.dev /\ longer.peak = o.episode.peak /\ longer.value = o.episode.value
  BY <1>1 DEF OpenEpisodes
<1> HIDE DEF longer, dev
<1>4. /\ f.onset = o.episode.onset /\ f.dwell = o.episode.dwell + 1
      /\ dev > o.episode.dev => f.peak = k /\ f.value = o.prev /\ f.dev = dev
      /\ ~(dev > o.episode.dev) => f.peak = o.episode.peak /\ f.value = o.episode.value /\ f.dev = o.episode.dev
  BY <1>3 DEF OpenEpisodes
<1> HIDE DEF f, run
<1>5. Longer(o, k).episode = f /\ Longer(o, k).cumulative = o.cumulative
      /\ Longer(o, k).baseline = o.baseline /\ Longer(o, k).prev = o.prev
  BY <1>1, <1>2 DEF Observers
<1>. QED  BY <1>4, <1>5 DEF dev

LEMMA ClosedFields ==
  ASSUME NEW o, Good(o)
  PROVE  LET p == Closed(o)
         IN  p.cumulative = 0 /\ p.baseline = o.prev /\ p.prev = o.prev /\ p.state = "Recovering"
BY DEF Closed, Good, Observers

(* What feed makes of the sample v: the observer p, and the episode c that *)
(* closed or None.                                                         *)
LEMMA FeedFields ==
  ASSUME NEW o, Good(o), NEW k \in Nat, NEW v \in Int
  PROVE  LET s == Sampled(o, v)
             p == Feed(o, k, v)
             c == ClosedBy(o, k, v)
             f == Longer(s, k).episode
         IN  /\ p.prev = v
             /\ c = None => p.baseline = s.baseline /\ p.cumulative = s.cumulative
             /\ c # None => p.baseline = v /\ p.cumulative = 0 /\ p.state = "Recovering" /\ o.state = "InEpisode"
             /\ o.state # "InEpisode" /\ p.state = "InEpisode" =>
                  /\ Magnitude(s.cumulative) >= EpisodeThreshold
                  /\ p.episode = [onset |-> k, peak |-> k, value |-> v,
                                  dev |-> Magnitude(s.cumulative), dwell |-> 1]
             /\ o.state = "InEpisode" /\ c = None =>
                  p.state = "InEpisode" /\ p.episode = f /\ ~(f.dwell >= MaxDwell)
             /\ c # None => /\ c.onset = f.onset /\ c.peak = f.peak /\ c.value = f.value /\ c.dev = f.dev
                            /\ c.dwell = f.dwell /\ c.close = k
<1> DEFINE s == Sampled(o, v)
           p == Feed(o, k, v)
           c == ClosedBy(o, k, v)
           l == Longer(s, k)
           d == Calm(s, DriftThreshold)
<1>1. Good(s) /\ s.state = o.state /\ s.prev = v
  BY SampledType
<1>2. o.state \in States
  BY DEF Good, Observers
<1>3. CASE o.state = "Stable"
  <2>1. p = Counted(s, ~d, "Drift") /\ c = None
    BY <1>3 DEF Feed, ClosedBy
  <2> HIDE DEF s, d, p, c
  <2>. QED  BY <1>1, <1>3, <2>1, CountedFields DEF s, p, c
<1>4. CASE o.state = "Recovering"
  <2>1. p = Counted(s, d, "Stable") /\ c = None
    BY <1>4 DEF Feed, ClosedBy
  <2> HIDE DEF s, d, p, c
  <2>. QED  BY <1>1, <1>4, <2>1, CountedFields DEF s, p, c
<1>5. CASE o.state = "Drift"
  <2> DEFINE q == Counted(s, d, "Stable")
  <2>1. p = Opened(q, k) /\ c = None
    BY <1>5 DEF Feed, ClosedBy
  <2>2. d \in BOOLEAN
    <3>1. (Magnitude(s.ema) < DriftThreshold * Scale) \in BOOLEAN
      OBVIOUS
    <3>. QED  BY <3>1 DEF Calm
  <2> HIDE DEF s, d, p, c
  <2>3. Good(q) /\ q.cumulative = s.cumulative /\ q.baseline = s.baseline /\ q.prev = v /\ q.state # "InEpisode"
    BY <1>1, <1>5, <2>2, CountedFields, CountedType
  <2> HIDE DEF q
  <2>4. /\ p.cumulative = q.cumulative /\ p.baseline = q.baseline /\ p.prev = q.prev
        /\ p.state = "InEpisode" =>
             /\ Magnitude(q.cumulative) >= EpisodeThreshold
             /\ p.episode = [onset |-> k, peak |-> k, value |-> q.prev,
                             dev |-> Magnitude(q.cumulative), dwell |-> 1]
    BY <2>1, <2>3, OpenedFields
  <2>. QED  BY <1>5, <2>1, <2>3, <2>4 DEF s, p, c
<1>6. CASE o.state = "InEpisode"
  <2>1. Good(l) /\ l.prev = v /\ l.cumulative = s.cumulative /\ l.baseline = s.baseline /\ l.state = "InEpisode"
    <3> HIDE DEF s
    <3>. QED  BY <1>1, <1>6, LongerFields, LongerType
  <2>2. /\ CloseReason(l) \in {"RecoveryDwell", "MaxDwell", None}
        /\ CloseReason(l) = None => ~(l.episode.dwell >= MaxDwell)
    BY NoneAssumption DEF CloseReason
  <2>3. CASE CloseReason(l) = None
    <3>1. p = l /\ c = None
      BY <1>6, <2>3 DEF Feed, ClosedBy
    <3> HIDE DEF l, s, p, c
    <3>. QED  BY <1>6, <2>1, <2>2, <2>3, <3>1 DEF l, s, p, c
  <2>4. CASE CloseReason(l) # None
    <3> DEFINE e == l.episode
               r == [onset |-> e.onset, peak |-> e.peak, value |-> e.value, dev |-> e.dev,
                     dwell |-> e.dwell, close |-> k, reason |-> CloseReason(l)]
    <3>1. p = Closed(l) /\ c = r
      BY <1>6, <2>4 DEF Feed, ClosedBy
    <3>2. /\ p.cumulative = 0 /\ p.baseline = v /\ p.prev = v /\ p.state = "Recovering"
      <4> HIDE DEF l, p
      <4>. QED  BY <2>1, <3>1, ClosedFields
    <3>3. r.onset = e.onset /\ r.peak = e.peak /\ r.value = e.value /\ r.dev = e.dev /\ r.dwell = e.dwell /\ r.close = k
      OBVIOUS
    <3>4. r # None
      <4>1. e \in OpenEpisodes
        <5> HIDE DEF l
        <5>. QED  BY <2>1 DEF Good, Observers
      <4>2. CloseReason(l) \in {"RecoveryDwell", "MaxDwell"}
        BY <2>2, <2>4
      <4> HIDE DEF e, l
      <4>3. r \in Episodes
        BY <4>1, <4>2 DEF Episodes, OpenEpisodes
      <4>. QED  BY <4>3, NoneAssumption
    <3> HIDE DEF r, p, c, s
    <3>5. c # None
      BY <3>1, <3>4
    <3>6. c.onset = e.onset /\ c.peak = e.peak /\ c.value = e.value /\ c.dev = e.dev /\ c.dwell = e.dwell /\ c.close = k
      BY <3>1, <3>3
    <3> HIDE DEF l
    <3>. QED  BY <1>6, <3>2, <3>5, <3>6 DEF s, p, c, l
  <2>. QED  BY <2>3, <2>4
<1>. QED  BY <1>2, <1>3, <1>4, <1>5, <1>6 DEF States

-----------------------------------------------------------------------------
(* What the observer after n entries knows of the entries: the nominal is  *)
(* the entry the last episode closed at, or the first sample; the open     *)
(* episode is that of the reference definition, as far as it goes.         *)
Past(h, ms, n) == {m \in 1..n : ClosingAt(h, ms, m)}
FirstIn(ms, n) == {j \in FedIn(ms, 0, n) : \A i \in FedIn(ms, 0, n) : j <= i}
Anchor(S, a) == a \in S /\ \A i \in S : i <= a
Anchors(h, ms, n) == Past(h, ms, n) \cup FirstIn(ms, n)

Spans(e, ms, b, n) ==
  /\ {e.onset, e.peak} \subseteq FedIn(ms, e.onset - 1, n)
  /\ e.dwell = Cardinality(FedIn(ms, e.onset - 1, n))
  /\ e.value = ms[e.peak] /\ e.dev = Magnitude(ms[e.peak] - b)
  /\ Magnitude(ms[e.onset] - b) >= EpisodeThreshold
  /\ \A k \in FedIn(ms, e.onset - 1, n) :
       /\ Magnitude(ms[k] - b) <= e.dev
       /\ k < e.peak => Magnitude(ms[k] - b) < e.dev

Nominal(o, h, ms, n) ==
  \E a \in Nat : /\ Anchor(Anchors(h, ms, n), a) /\ o.baseline = ms[a]
                 /\ o.baseline \in Int /\ o.cumulative = o.prev - o.baseline

Truthful(h, ms, n) ==
  LET o == h[n]
  IN  /\ o.prev = None => /\ FedIn(ms, 0, n) = {} /\ o.baseline = None
                          /\ o.cumulative = 0 /\ o.state # "InEpisode"
      /\ o.prev # None => Nominal(o, h, ms, n) /\ FedIn(ms, 0, n) # {}
      /\ o.state = "InEpisode" =>
           Spans(o.episode, ms, o.baseline, n) /\ o.episode.dwell < MaxDwell

(* What an episode that closes at k reports. *)
TruthfulClose(h, ms, k) ==
  ClosingAt(h, ms, k) =>
    LET e == Closes(h[k - 1], k, ms[k])
    IN  /\ e.dwell <= MaxDwell
        /\ \E a \in Nat : Anchor(Anchors(h, ms, k - 1), a) /\ Spans(e, ms, ms[a], k)

LEMMA SamplesGrow ==
  ASSUME NEW ms, NEW m \in Nat, NEW n \in Nat, m <= n, ms[n + 1] # Still
  PROVE  /\ FedIn(ms, m, n + 1) = FedIn(ms, m, n) \cup {n + 1}
         /\ n + 1 \notin FedIn(ms, m, n)
         /\ Cardinality(FedIn(ms, m, n + 1)) = Cardinality(FedIn(ms, m, n)) + 1
<1>1. FedIn(ms, m, n + 1) = FedIn(ms, m, n) \cup {n + 1} /\ n + 1 \notin FedIn(ms, m, n)
  BY DEF FedIn
<1>. QED  BY <1>1, FedInNext

LEMMA SamplesStay ==
  ASSUME NEW ms, NEW m \in Nat, NEW n \in Nat, ms[n + 1] = Still
  PROVE  FedIn(ms, m, n + 1) = FedIn(ms, m, n)
BY DEF FedIn

LEMMA FirstGrows ==
  ASSUME NEW ms, NEW n \in Nat, ms[n + 1] # Still
  PROVE  FirstIn(ms, n + 1) = IF FedIn(ms, 0, n) = {} THEN {n + 1} ELSE FirstIn(ms, n)
<1> DEFINE F == FedIn(ms, 0, n)
<1>1. FedIn(ms, 0, n + 1) = F \cup {n + 1}
  BY SamplesGrow
<1>2. \A i \in F : i \in 1..n
  BY DEF FedIn
<1> HIDE DEF F
<1>3. CASE F = {}
  BY <1>1, <1>3 DEF FirstIn, F
<1>4. CASE F # {}
  <2>1. PICK i \in F : i < n + 1
    BY <1>2, <1>4
  <2>. QED  BY <1>1, <1>2, <1>4, <2>1 DEF FirstIn, F
<1>. QED  BY <1>3, <1>4 DEF F

LEMMA PastGrows ==
  ASSUME NEW ms, NEW h, NEW n \in Nat
  PROVE  /\ Past(h, ms, n + 1) = IF ClosingAt(h, ms, n + 1) THEN Past(h, ms, n) \cup {n + 1} ELSE Past(h, ms, n)
         /\ Past(h, ms, n) \subseteq FedIn(ms, 0, n)
<1>1. \A m \in Nat : m \in 1..(n + 1) <=> m \in 1..n \/ m = n + 1
  OBVIOUS
<1>2. ASSUME NEW m \in Past(h, ms, n) PROVE m \in FedIn(ms, 0, n)
  BY DEF Past, ClosingAt, Closes, FedIn
<1>3. \A m : m \in Past(h, ms, n + 1) <=> m \in Past(h, ms, n) \/ (m = n + 1 /\ ClosingAt(h, ms, n + 1))
  <2> HIDE DEF ClosingAt
  <2>. QED  BY DEF Past
<1>. QED  BY <1>2, <1>3

(* An episode of one sample, and of one sample more. *)
LEMMA SpansOne ==
  ASSUME NEW ms, NEW n \in Nat, NEW b \in Int, NEW v \in Int, ms[n + 1] = v, v # Still,
         Magnitude(v - b) >= EpisodeThreshold,
         NEW e, e = [onset |-> n + 1, peak |-> n + 1, value |-> v, dev |-> Magnitude(v - b), dwell |-> 1]
  PROVE  Spans(e, ms, b, n + 1) /\ e.dwell < MaxDwell
<1>1. FedIn(ms, n, n + 1) = {n + 1} /\ (n + 1) - 1 = n
  BY DEF FedIn
<1>2. Cardinality({n + 1}) = 1
  BY FS_Singleton
<1>3. Magnitude(v - b) \in Nat
  BY MagnitudeType
<1>4. 1 < MaxDwell
  BY RegimeAssumption
<1>. QED  BY <1>1, <1>2, <1>3, <1>4 DEF Spans

LEMMA SpansMore ==
  ASSUME NEW ms, NEW n \in Nat, NEW b \in Int, NEW v \in Int, ms[n + 1] = v, v # Still,
         \A k \in 1..n : ms[k] # Still => ms[k] \in Int,
         NEW e \in OpenEpisodes, Spans(e, ms, b, n), e.onset \in 1..n, NEW f,
         f.onset = e.onset, f.dwell = e.dwell + 1,
         Magnitude(v - b) > e.dev => f.peak = n + 1 /\ f.value = v /\ f.dev = Magnitude(v - b),
         ~(Magnitude(v - b) > e.dev) => f.peak = e.peak /\ f.value = e.value /\ f.dev = e.dev
  PROVE  Spans(f, ms, b, n + 1)
<1> DEFINE F == FedIn(ms, e.onset - 1, n)
<1>1. /\ FedIn(ms, e.onset - 1, n + 1) = F \cup {n + 1}
      /\ Cardinality(FedIn(ms, e.onset - 1, n + 1)) = Cardinality(F) + 1
  <2>1. e.onset - 1 \in Nat /\ e.onset - 1 <= n
    OBVIOUS
  <2>. QED  BY <2>1, SamplesGrow
<1>2. \A k \in F : k \in 1..n /\ ms[k] \in Int /\ Magnitude(ms[k] - b) \in Nat
  <2>1. \A k \in F : k \in 1..n /\ ms[k] # Still
    BY DEF FedIn
  <2>. QED  BY <2>1, MagnitudeType
<1>3. Magnitude(v - b) \in Nat /\ e.dev \in Nat
  BY MagnitudeType DEF OpenEpisodes
<1>4. /\ {e.onset, e.peak} \subseteq F /\ e.dwell = Cardinality(F)
      /\ e.value = ms[e.peak] /\ e.dev = Magnitude(ms[e.peak] - b)
      /\ Magnitude(ms[e.onset] - b) >= EpisodeThreshold
      /\ \A k \in F : Magnitude(ms[k] - b) <= e.dev /\ (k < e.peak => Magnitude(ms[k] - b) < e.dev)
  BY DEF Spans
<1> HIDE DEF F
<1>5. CASE Magnitude(v - b) > e.dev
  <2>1. f.peak = n + 1 /\ f.value = v /\ f.dev = Magnitude(v - b)
    BY <1>5
  <2>2. \A k \in F \cup {n + 1} : /\ Magnitude(ms[k] - b) <= f.dev
                                  /\ k < f.peak => Magnitude(ms[k] - b) < f.dev
    BY <1>2, <1>3, <1>4, <1>5, <2>1
  <2>. QED  BY <1>1, <1>4, <2>1, <2>2 DEF Spans
<1>6. CASE ~(Magnitude(v - b) > e.dev)
  <2>1. f.peak = e.peak /\ f.value = e.value /\ f.dev = e.dev
    BY <1>6
  <2>2. e.peak \in 1..n
    BY <1>2, <1>4
  <2>3. \A k \in F \cup {n + 1} : /\ Magnitude(ms[k] - b) <= f.dev
                                  /\ k < f.peak => Magnitude(ms[k] - b) < f.dev
    BY <1>2, <1>3, <1>4, <1>6, <2>1, <2>2
  <2>. QED  BY <1>1, <1>4, <2>1, <2>3 DEF Spans
<1>. QED  BY <1>5, <1>6

(* The sample that enters: where the nominal is, and the deviation. *)
Entered(s, h, ms, n, v) ==
  /\ s.baseline \in Int /\ s.cumulative = v - s.baseline
  /\ \E a \in Nat : Anchor(Past(h, ms, n) \cup FirstIn(ms, n + 1), a) /\ s.baseline = ms[a]
  /\ h[n].prev # None => FirstIn(ms, n + 1) = FirstIn(ms, n) /\ s.baseline = h[n].baseline

LEMMA EnteringNominal ==
  ASSUME NEW ms, NEW h, NEW n \in Nat, Good(h[n]), Truthful(h, ms, n),
         NEW v \in Int, ms[n + 1] = v, v # Still
  PROVE  Entered(Sampled(h[n], v), h, ms, n, v)
<1> DEFINE o == h[n]
           s == Sampled(o, v)
<1>1. /\ s.cumulative = o.cumulative + (IF o.prev = None THEN 0 ELSE v - o.prev)
      /\ s.baseline = IF o.baseline = None THEN v ELSE o.baseline
  BY SampledFields
<1>2. /\ o.prev = None => /\ FedIn(ms, 0, n) = {} /\ o.baseline = None /\ o.cumulative = 0
      /\ o.prev # None => Nominal(o, h, ms, n) /\ FedIn(ms, 0, n) # {}
      /\ o.prev \in Int \cup {None}
  BY DEF Truthful, Good, Observers
<1>3. None \notin Int
  BY RegimeAssumption
<1>4. /\ FirstIn(ms, n + 1) = IF FedIn(ms, 0, n) = {} THEN {n + 1} ELSE FirstIn(ms, n)
      /\ Past(h, ms, n) \subseteq FedIn(ms, 0, n)
  BY FirstGrows, PastGrows
<1> HIDE DEF s, o
<1>5. CASE o.prev = None
  <2>1. s.baseline = v /\ s.cumulative = 0 /\ v - v = 0
    BY <1>1, <1>2, <1>5
  <2>2. Past(h, ms, n) \cup FirstIn(ms, n + 1) = {n + 1}
    BY <1>2, <1>4, <1>5
  <2>3. Anchor({n + 1}, n + 1) /\ n + 1 \in Nat
    BY DEF Anchor
  <2>. QED  BY <1>5, <2>1, <2>2, <2>3 DEF o, s, Entered
<1>6. CASE o.prev # None
  <2>1. PICK a \in Nat : /\ Anchor(Anchors(h, ms, n), a) /\ o.baseline = ms[a]
                         /\ o.baseline \in Int /\ o.cumulative = o.prev - o.baseline
    BY <1>2, <1>6 DEF Nominal
  <2>2. s.baseline = o.baseline /\ s.cumulative = v - o.baseline
    BY <1>1, <1>2, <1>3, <1>6, <2>1
  <2>3. FirstIn(ms, n + 1) = FirstIn(ms, n)
    BY <1>2, <1>4, <1>6
  <2>. QED  BY <1>6, <2>1, <2>2, <2>3 DEF o, s, Anchors, Entered
<1>. QED  BY <1>5, <1>6

(* One more entry. *)
LEMMA TruthfulNext ==
  ASSUME NEW ms, NEW h, NEW n \in Nat, Spaced(h, ms, n), Truthful(h, ms, n),
         \A k \in 1..(n + 1) : ms[k] \in Entries, h[n + 1] = After(h[n], n + 1, ms[n + 1])
  PROVE  Truthful(h, ms, n + 1) /\ TruthfulClose(h, ms, n + 1)
<1> DEFINE k == n + 1
           o == h[n]
           p == h[k]
           v == ms[k]
           c == Closes(o, k, v)
<1>1. Good(o) /\ (o.state = "InEpisode" => o.episode.onset \in 1..n) /\ k \in Nat /\ k - 1 = n
  BY DEF Spaced
<1>2. CASE v = Still
  <2>1. p = o /\ ~ ClosingAt(h, ms, k)
    BY <1>1, <1>2 DEF After, ClosingAt, Closes
  <2>2. \A m \in Nat : FedIn(ms, m, k) = FedIn(ms, m, n)
    BY <1>2, SamplesStay
  <2>3. Past(h, ms, k) = Past(h, ms, n)
    BY <2>1, PastGrows
  <2>4. Anchors(h, ms, k) = Anchors(h, ms, n)
    BY <2>2, <2>3 DEF Anchors, FirstIn
  <2>5. o.state = "InEpisode" => o.episode.onset - 1 \in Nat
    BY <1>1
  <2> HIDE DEF p, o, k, v, c
  <2>6. Truthful(h, ms, k)
    <3>1. o.prev = None => /\ FedIn(ms, 0, k) = {} /\ o.baseline = None
                           /\ o.cumulative = 0 /\ o.state # "InEpisode"
      BY <2>2 DEF Truthful, o
    <3>2. o.prev # None => Nominal(o, h, ms, k) /\ FedIn(ms, 0, k) # {}
      BY <2>2, <2>4 DEF Truthful, Nominal, o
    <3>3. o.state = "InEpisode" => Spans(o.episode, ms, o.baseline, k) /\ o.episode.dwell < MaxDwell
      BY <2>2, <2>5 DEF Truthful, Spans, o
    <3>. QED  BY <2>1, <3>1, <3>2, <3>3 DEF Truthful, p
  <2>. QED  BY <2>1, <2>6 DEF TruthfulClose, k
<1>3. CASE v # Still
  <2> DEFINE s == Sampled(o, v)
             b == s.baseline
             f == Longer(s, k).episode
  <2>1. v \in Int
    <3>1. k \in 1..(n + 1)
      OBVIOUS
    <3>2. v \in Entries
      BY <3>1
    <3> HIDE DEF v
    <3>. QED  BY <1>3, <3>2, EpisodesAssumption DEF Entries
  <2>2. p = Feed(o, k, v) /\ c = ClosedBy(o, k, v) /\ (ClosingAt(h, ms, k) <=> c # None)
    BY <1>1, <1>3 DEF After, ClosingAt, Closes
  <2>3. /\ b \in Int /\ s.cumulative = v - b
        /\ \E a \in Nat : Anchor(Past(h, ms, n) \cup FirstIn(ms, k), a) /\ b = ms[a]
        /\ o.prev # None => FirstIn(ms, k) = FirstIn(ms, n) /\ b = o.baseline
    <3>1. ms[n + 1] = v /\ Good(h[n]) /\ k = n + 1 /\ o = h[n]
      BY <1>1
    <3> HIDE DEF v, s, o, k
    <3>2. Entered(Sampled(h[n], v), h, ms, n, v)
      BY <1>3, <2>1, <3>1, EnteringNominal
    <3>. QED  BY <3>1, <3>2 DEF Entered, s
  <2>4. Good(s) /\ s.state = o.state /\ s.prev = v /\ s.episode = o.episode
    BY <1>1, <2>1, SampledType
  <2>5. /\ p.prev = v
        /\ c = None => p.baseline = b /\ p.cumulative = s.cumulative
        /\ c # None => p.baseline = v /\ p.cumulative = 0 /\ p.state = "Recovering" /\ o.state = "InEpisode"
        /\ o.state # "InEpisode" /\ p.state = "InEpisode" =>
             /\ Magnitude(s.cumulative) >= EpisodeThreshold
             /\ p.episode = [onset |-> k, peak |-> k, value |-> v,
                             dev |-> Magnitude(s.cumulative), dwell |-> 1]
        /\ o.state = "InEpisode" /\ c = None =>
             p.state = "InEpisode" /\ p.episode = f /\ ~(f.dwell >= MaxDwell)
        /\ c # None => /\ c.onset = f.onset /\ c.peak = f.peak /\ c.value = f.value /\ c.dev = f.dev
                       /\ c.dwell = f.dwell /\ c.close = k
    <3> HIDE DEF o, k, v, p, c
    <3>. QED  BY <1>1, <2>1, <2>2, FeedFields
  <2>6. v # None
    BY <2>1, RegimeAssumption
  <2>7. /\ Past(h, ms, k) = IF c # None THEN Past(h, ms, n) \cup {k} ELSE Past(h, ms, n)
        /\ Past(h, ms, n) \subseteq FedIn(ms, 0, n)
    BY <2>2, PastGrows
  <2>8. FedIn(ms, 0, k) # {} /\ k \in FedIn(ms, 0, k)
    BY <1>3 DEF FedIn
  <2>9. ASSUME o.state = "InEpisode"
        PROVE  /\ Spans(f, ms, b, k) /\ f.dwell <= MaxDwell /\ f.dwell \in Nat /\ o.prev # None
    <3>1. o.prev # None /\ Spans(o.episode, ms, b, n) /\ o.episode.dwell < MaxDwell
      BY <2>3, <2>9 DEF Truthful
    <3>2. o.episode \in OpenEpisodes
      BY <1>1, <2>9 DEF Good, Observers
    <3>3. /\ f.onset = o.episode.onset /\ f.dwell = o.episode.dwell + 1
          /\ Magnitude(s.cumulative) > o.episode.dev => f.peak = k /\ f.value = v /\ f.dev = Magnitude(s.cumulative)
          /\ ~(Magnitude(s.cumulative) > o.episode.dev) =>
                f.peak = o.episode.peak /\ f.value = o.episode.value /\ f.dev = o.episode.dev
      <4> HIDE DEF s, k, o, v
      <4>. QED  BY <2>4, <2>9, LongerFields
    <3>4. \A j \in 1..n : ms[j] # Still => ms[j] \in Int
      <4>1. \A j \in 1..n : j \in 1..(n + 1)
        OBVIOUS
      <4>2. \A j \in 1..n : ms[j] \in Entries
        BY <4>1
      <4>. QED  BY <4>2, EpisodesAssumption DEF Entries
    <3> HIDE DEF f, s, b
    <3>5. Spans(f, ms, b, k)
      BY <1>1, <1>3, <2>1, <2>3, <2>9, <3>1, <3>2, <3>3, <3>4, SpansMore
    <3>6. f.dwell <= MaxDwell /\ f.dwell \in Nat
      <4>1. MaxDwell \in Nat /\ o.episode.dwell \in Nat
        BY <3>2, RegimeAssumption DEF OpenEpisodes
      <4>. QED  BY <3>1, <3>3, <4>1
    <3>. QED  BY <3>1, <3>5, <3>6
  <2> HIDE DEF s, b, f, p, c, o
  <2>10. Nominal(p, h, ms, k)
    <3>1. CASE c = None
      <4>1. Anchors(h, ms, k) = Past(h, ms, n) \cup FirstIn(ms, k)
        BY <2>7, <3>1 DEF Anchors
      <4>. QED  BY <2>3, <2>5, <3>1, <4>1 DEF Nominal
    <3>2. CASE c # None
      <4>1. p.baseline = v /\ p.cumulative = 0 /\ p.prev = v /\ v - v = 0
        BY <2>1, <2>5, <3>2
      <4>2. k \in Anchors(h, ms, k)
        BY <2>7, <3>2 DEF Anchors
      <4>3. \A i \in Anchors(h, ms, k) : i <= k
        BY DEF Anchors, Past, FirstIn, FedIn
      <4>4. Anchor(Anchors(h, ms, k), k) /\ k \in Nat
        BY <4>2, <4>3 DEF Anchor
      <4> HIDE DEF k
      <4>. QED  BY <2>1, <4>1, <4>4 DEF Nominal, v
    <3>. QED  BY <3>1, <3>2
  <2>11. p.state = "InEpisode" => Spans(p.episode, ms, p.baseline, k) /\ p.episode.dwell < MaxDwell
    <3>1. CASE c # None
      BY <2>5, <3>1
    <3>2. CASE c = None /\ o.state = "InEpisode"
      <4>1. MaxDwell \in Nat
        BY RegimeAssumption
      <4>. QED  BY <2>5, <2>9, <3>2, <4>1
    <3>3. CASE c = None /\ o.state # "InEpisode" /\ p.state = "InEpisode"
      BY <1>3, <2>1, <2>3, <2>5, <3>3, SpansOne
    <3>. QED  BY <3>1, <3>2, <3>3
  <2>12. Truthful(h, ms, k)
    BY <2>5, <2>6, <2>8, <2>10, <2>11 DEF Truthful, p
  <2>13. TruthfulClose(h, ms, k)
    <3> SUFFICES ASSUME c # None
                 PROVE  /\ c.dwell <= MaxDwell
                        /\ \E a \in Nat : Anchor(Anchors(h, ms, n), a) /\ Spans(c, ms, ms[a], k)
      BY <1>1, <2>2 DEF TruthfulClose, c, o
    <3>1. o.state = "InEpisode"
      BY <2>5
    <3>2. Spans(c, ms, b, k) /\ c.dwell <= MaxDwell
      BY <2>5, <2>9, <3>1 DEF Spans
    <3>3. Anchors(h, ms, n) = Past(h, ms, n) \cup FirstIn(ms, k)
      BY <2>3, <2>9, <3>1 DEF Anchors
    <3>. QED  BY <2>3, <3>2, <3>3
  <2>. QED  BY <2>12, <2>13
<1>. QED  BY <1>2, <1>3

LEMMA DerivationTruthful ==
  ASSUME NEW ms \in Seq(Entries), NEW h, Derivation(h, ms)
  PROVE  /\ \A n \in 0..Len(ms) : Truthful(h, ms, n)
         /\ \A k \in 1..Len(ms) : TruthfulClose(h, ms, k)
<1>1. Truthful(h, ms, 0)
  <2>1. h[0] = New /\ FedIn(ms, 0, 0) = {}
    BY DEF Derivation, FedIn
  <2>. QED  BY <2>1 DEF Truthful, New
<1>2. ASSUME NEW n \in 0..(Len(ms) - 1), Truthful(h, ms, n)
      PROVE  Truthful(h, ms, n + 1) /\ TruthfulClose(h, ms, n + 1)
  <2>1. n \in Nat /\ n + 1 \in 1..Len(ms) /\ (n + 1) - 1 = n /\ n \in 0..Len(ms)
    OBVIOUS
  <2>2. Spaced(h, ms, n) /\ h[n + 1] = After(h[n], n + 1, ms[n + 1])
    BY <2>1 DEF Derivation
  <2>3. \A k \in 1..(n + 1) : ms[k] \in Entries
    BY <2>1
  <2>. QED  BY <1>2, <2>1, <2>2, <2>3, TruthfulNext
<1>3. \A n \in 0..Len(ms) : Truthful(h, ms, n)
  <2> DEFINE T == {n \in 0..Len(ms) : ~ Truthful(h, ms, n)}
  <2> SUFFICES ASSUME T # {} PROVE FALSE
    OBVIOUS
  <2>1. T \subseteq Nat
    OBVIOUS
  <2>2. PICK k \in T : \A j \in T : k <= j
    BY <2>1, LeastNumber
  <2>3. k \in 0..Len(ms) /\ ~ Truthful(h, ms, k) /\ k # 0
    BY <1>1
  <2>4. k - 1 \in 0..(Len(ms) - 1) /\ (k - 1) + 1 = k /\ k - 1 \in 0..Len(ms) /\ k - 1 < k
    BY <2>3
  <2>5. Truthful(h, ms, k - 1)
    BY <2>2, <2>4
  <2>. QED  BY <1>2, <2>3, <2>4, <2>5
<1>4. ASSUME NEW k \in 1..Len(ms) PROVE TruthfulClose(h, ms, k)
  <2>1. k - 1 \in 0..(Len(ms) - 1) /\ (k - 1) + 1 = k /\ k - 1 \in 0..Len(ms)
    OBVIOUS
  <2>2. TruthfulClose(h, ms, (k - 1) + 1)
    BY <1>2, <1>3, <2>1
  <2>. QED  BY <2>1, <2>2
<1>. QED  BY <1>3, <1>4

(* The reference definition's nominal is where the derivation has it. *)
LEMMA NominalIs ==
  ASSUME IInv, NEW h, Derivation(h, metas), Follows(h), NEW e \in closed,
         NEW a \in Nat, Anchor(Anchors(h, metas, e.close - 1), a), FedIn(metas, 0, e.close - 1) # {}
  PROVE  NominalAt(e.onset) = metas[a]
<1> DEFINE L == Len(metas)
           k == e.close
           S == ClosesBefore(e.onset) \cup {j \in Fed : \A i \in Fed : j <= i}
<1>1. /\ metas \in Seq(Entries) /\ DOMAIN metas = 1..L /\ L \in Nat
      /\ e \in Derived(h, metas) /\ closed \subseteq Derived(h, metas)
  BY DEF IInv, Follows
<1>2. /\ k \in 1..L /\ e.onset \in 1..(k - 1)
      /\ \A b \in Derived(h, metas) : b.close < k => b.close < e.onset
  BY <1>1, EpisodeFacts
<1>3. ClosesBefore(e.onset) = Past(h, metas, k - 1)
  <2>1. ASSUME NEW x \in closed, x.close < e.onset PROVE x.close \in Past(h, metas, k - 1)
    <3>1. PICK m \in 1..L : x = Closes(h[m - 1], m, metas[m]) /\ x # None
      BY <1>1 DEF Derived
    <3>2. x.close = m
      BY <1>1, <3>1, EpisodeAt
    <3>. QED  BY <1>2, <2>1, <3>1, <3>2 DEF Past, ClosingAt
  <2>2. ASSUME NEW m \in Past(h, metas, k - 1)
        PROVE  \E x \in closed : x.close = m /\ m < e.onset
    <3> DEFINE x == Closes(h[m - 1], m, metas[m])
    <3>1. m \in 1..(k - 1) /\ m \in 1..L /\ m \in 1..k /\ x # None
      BY <1>2 DEF Past, ClosingAt
    <3>2. x \in closed
      BY <3>1 DEF Follows, Seen
    <3>3. x.close = m
      BY <1>1, <3>1, EpisodeAt
    <3>4. m < k /\ x \in Derived(h, metas)
      BY <1>1, <1>2, <3>1, <3>2
    <3> HIDE DEF x
    <3>. QED  BY <1>2, <3>2, <3>3, <3>4
  <2>. QED  BY <2>1, <2>2 DEF ClosesBefore
<1>4. {j \in Fed : \A i \in Fed : j <= i} = FirstIn(metas, k - 1)
  <2>1. Fed = FedIn(metas, 0, L)
    BY <1>1 DEF Fed, FedIn
  <2>2. \A j : j \in FedIn(metas, 0, k - 1) <=> j \in Fed /\ j < k
    BY <1>1, <1>2 DEF Fed, FedIn
  <2>3. \A j \in Fed : j \in Nat
    BY <1>1 DEF Fed
  <2>4. PICK i \in Fed : i < k
    BY <2>2
  <2>. QED  BY <1>2, <2>2, <2>3, <2>4 DEF FirstIn
<1>5. S = Anchors(h, metas, k - 1)
  BY <1>3, <1>4 DEF Anchors
<1>6. \A i \in S : i \in Nat
  BY <1>5 DEF Anchors, Past, FirstIn, FedIn
<1>7. Anchor(S, a)
  BY <1>5
<1>8. NominalAt(e.onset) = metas[CHOOSE j \in S : \A i \in S : i <= j]
  BY DEF NominalAt
<1> HIDE DEF S
<1>9. (CHOOSE j \in S : \A i \in S : i <= j) = a
  <2>1. a \in S /\ \A i \in S : i <= a
    BY <1>7 DEF Anchor
  <2>2. ASSUME NEW j \in S, \A i \in S : i <= j PROVE j = a
    <3>1. a <= j /\ j <= a /\ j \in Nat
      BY <1>6, <2>1, <2>2
    <3>. QED  BY <3>1
  <2>. QED  BY <2>1, <2>2
<1>. QED  BY <1>8, <1>9

(* Every episode that ever closed reports what happened: the samples it    *)
(* spans, the first of those that deviate most from the nominal of its     *)
(* time, and by how much, however many campaigns derived the observer.     *)
THEOREM EpisodesTrueAlways == Spec => []EpisodesTrue
<1>1. ASSUME IInv, NEW e \in closed
      PROVE  /\ {e.onset, e.peak, e.close} \subseteq Samples(e)
             /\ e.dwell = Cardinality(Samples(e)) /\ e.dwell <= MaxDwell
             /\ e.value = metas[e.peak] /\ e.dev = Deviation(e, e.peak)
             /\ Deviation(e, e.onset) >= EpisodeThreshold
             /\ \A k \in Samples(e) :
                  /\ Deviation(e, k) <= e.dev
                  /\ k < e.peak => Deviation(e, k) < e.dev
  <2>1. PICK h : Derivation(h, metas) /\ Follows(h)
    BY <1>1 DEF IInv
  <2>2. metas \in Seq(Entries) /\ e \in Derived(h, metas)
    BY <1>1, <2>1 DEF IInv, Follows
  <2>3. /\ e.close \in 1..Len(metas) /\ e.onset \in 1..(e.close - 1)
        /\ e = Closes(h[e.close - 1], e.close, metas[e.close]) /\ e # None
    BY <1>1, <2>1, <2>2, EpisodeFacts DEF Derived
  <2>4. TruthfulClose(h, metas, e.close)
    BY <2>1, <2>2, <2>3, DerivationTruthful
  <2>5. PICK a \in Nat : Anchor(Anchors(h, metas, e.close - 1), a) /\ Spans(e, metas, metas[a], e.close)
    BY <2>3, <2>4 DEF TruthfulClose, ClosingAt
  <2>6. e.dwell <= MaxDwell
    BY <2>3, <2>4 DEF TruthfulClose, ClosingAt
  <2>7. Samples(e) = FedIn(metas, e.onset - 1, e.close)
    <3>1. DOMAIN metas = 1..Len(metas)
      BY <2>2
    <3>. QED  BY <2>3, <3>1 DEF Samples, Fed, FedIn
  <2>8. e.onset \in FedIn(metas, 0, e.close - 1)
    BY <2>3, <2>5 DEF Spans, FedIn
  <2>9. NominalAt(e.onset) = metas[a]
    BY <1>1, <2>1, <2>5, <2>8, NominalIs
  <2>10. \A k : Deviation(e, k) = Magnitude(metas[k] - metas[a])
    BY <2>9 DEF Deviation
  <2>11. e.close \in FedIn(metas, e.onset - 1, e.close)
    BY <2>3 DEF Closes, FedIn
  <2> HIDE DEF Deviation, Samples
  <2>. QED  BY <2>5, <2>6, <2>7, <2>10, <2>11 DEF Spans
<1>2. IInv => EpisodesTrue
  BY <1>1 DEF EpisodesTrue
<1>. QED  BY <1>2, Inductive, PTL

-----------------------------------------------------------------------------
(* Induction over a set of numbers, and what a recursive function computes *)
(* step by step.                                                           *)

(* What holds of 0 and of i whenever of i - 1 holds up to N. *)
LEMMA UpTo ==
  ASSUME NEW N \in Nat, NEW S, 0 \in S, \A i \in 1..N : i - 1 \in S => i \in S
  PROVE  \A i \in 0..N : i \in S
<1> SUFFICES ASSUME ~ \A i \in 0..N : i \in S PROVE FALSE
  OBVIOUS
<1> DEFINE T == {i \in 0..N : i \notin S}
<1>1. PICK k \in T : \A j \in T : k <= j
  <2>1. T \subseteq Nat /\ T # {}
    OBVIOUS
  <2> HIDE DEF T
  <2>. QED  BY <2>1, LeastNumber
<1>2. k \in 1..N /\ k - 1 \in 0..N /\ ~(k <= k - 1)
  BY <1>1
<1>3. k - 1 \in S
  BY <1>1, <1>2
<1>. QED  BY <1>1, <1>2, <1>3

(* What n steps make of b. *)
Orbit(g, V, n, b, step) ==
  g \in [0..n -> V] /\ g[0] = b /\ \A i \in 1..n : g[i] = step[g[i - 1]]

LEMMA Orbits ==
  ASSUME NEW V, NEW N \in Nat, NEW b \in V, NEW step \in [V -> V]
  PROVE  \E g : Orbit(g, V, N, b, step)
<1> DEFINE S == {n \in 0..N : \E g : Orbit(g, V, n, b, step)}
<1>1. 0 \in S
  <2>1. Orbit([n \in 0..0 |-> b], V, 0, b, step)
    BY DEF Orbit
  <2>. QED  BY <2>1
<1>2. ASSUME NEW k \in 1..N, k - 1 \in S PROVE k \in S
  <2>1. PICK g : Orbit(g, V, k - 1, b, step)
    BY <1>2
  <2> DEFINE d == step[g[k - 1]]
             h == [n \in 0..k |-> IF n = k THEN d ELSE g[n]]
  <2>2. k - 1 \in 0..(k - 1) /\ 0 \in 0..(k - 1) /\ g \in [0..(k - 1) -> V] /\ g[0] = b
    BY <2>1 DEF Orbit
  <2>3. d \in V
    BY <2>2
  <2>4. h \in [0..k -> V] /\ h[0] = b
    <3> HIDE DEF d
    <3>. QED  BY <2>2, <2>3
  <2>5. \A i \in 1..k : h[i] = step[h[i - 1]]
    <3> TAKE i \in 1..k
    <3>1. h[i - 1] = g[i - 1]
      BY DEF h
    <3>2. CASE i = k
      BY <3>1, <3>2
    <3>3. CASE i # k
      <4>1. i \in 1..(k - 1)
        BY <3>3
      <4>2. g[i] = step[g[i - 1]]
        BY <2>1, <4>1 DEF Orbit
      <4>. QED  BY <3>1, <3>3, <4>2
    <3>. QED  BY <3>2, <3>3
  <2> HIDE DEF h
  <2>6. Orbit(h, V, k, b, step)
    BY <2>4, <2>5 DEF Orbit
  <2>. QED  BY <2>6
<1> HIDE DEF S
<1>3. N \in S
  BY <1>1, <1>2, UpTo
<1>. QED  BY <1>3 DEF S

-----------------------------------------------------------------------------
(* The smoothed residual stays within bounds that samples build up, and    *)
(* shrinks without them.                                                   *)
Within(e, b) == e \in Int /\ -b <= e /\ e <= b

LEMMA Quotient ==
  ASSUME NEW s \in Nat \ {0}, NEW e \in Int
  PROVE  e \div s \in Int /\ s * (e \div s) \in Int /\ s * (e \div s) <= e /\ e < s * (e \div s) + s
BY Z3

LEMMA QuotientOrder ==
  ASSUME NEW s \in Nat \ {0}, NEW x \in Int, NEW y \in Int, s * x < s * y + s
  PROVE  x <= y
BY Z3

LEMMA Shrinks ==
  ASSUME NEW s \in Nat \ {0}, NEW b \in Nat, NEW e, Within(e, b)
  PROVE  /\ b - (b \div s) \in 0..b
         /\ Within(e - (e \div s), b - (b \div s))
<1> DEFINE p == e \div s
           q == b \div s
<1>1. p \in Int /\ s * p \in Int /\ s * p <= e /\ e < s * p + s /\ e \in Int /\ -b <= e /\ e <= b
  BY Quotient DEF Within
<1>2. q \in Int /\ s * q \in Int /\ s * q <= b /\ b < s * q + s
  BY Quotient
<1> HIDE DEF p, q
<1>3. s * 0 = 0 /\ s * 1 = s
  OBVIOUS
<1>4. 0 <= q
  BY <1>2, <1>3, QuotientOrder
<1>5. q <= b
  BY <1>2, <1>4, Z3
<1>6. e - p <= b - q
  <2>1. CASE q <= p
    BY <1>1, <1>2, <2>1
  <2>2. CASE p < q
    <3>1. s * (q - p) < (b - e) + s
      BY <1>1, <1>2, Z3
    <3>2. q - p <= b - e
      BY <1>1, <1>2, <2>2, <3>1, Z3
    <3>. QED  BY <1>1, <1>2, <3>2
  <2>. QED  BY <1>1, <1>2, <2>1, <2>2
<1>7. -(b - q) <= e - p
  <2> DEFINE x == p + q
  <2>1. s * x = s * p + s * q
    BY <1>1, <1>2, Z3
  <2>2. x <= e + b
    <3>1. s * x <= e + b
      BY <1>1, <1>2, <2>1
    <3>2. CASE x <= 0
      BY <1>1, <1>2, <3>2
    <3>3. CASE x > 0
      <4>1. x \in Nat
        BY <1>1, <1>2, <3>3
      <4> HIDE DEF x
      <4>2. x <= s * x
        BY <4>1, Z3
      <4>. QED  BY <1>1, <3>1, <4>1, <4>2
    <3>. QED  BY <1>1, <1>2, <3>2, <3>3
  <2>. QED  BY <1>1, <1>2, <2>2
<1>8. e - p \in Int /\ b - q \in 0..b
  BY <1>1, <1>2, <1>4, <1>5
<1>. QED  BY <1>6, <1>7, <1>8 DEF Within, p, q

LEMMA Builds ==
  ASSUME NEW s \in Nat \ {0}, NEW d \in Nat, NEW r, Within(r, d), NEW e, Within(e, s * s * d)
  PROVE  Within(e - (e \div s) + r * s, s * s * d)
<1> DEFINE b == s * s * d
<1>1. b \in Nat /\ s * d \in Nat /\ b = s * (s * d)
  BY Z3
<1>2. b \div s = s * d
  <2>1. b \div s \in Int /\ s * (b \div s) <= b /\ b < s * (b \div s) + s /\ s * (b \div s) \in Int
    BY <1>1, Quotient
  <2> DEFINE q == b \div s
  <2> HIDE DEF b, q
  <2>2. q <= s * d
    BY <1>1, <2>1, QuotientOrder DEF q
  <2>3. s * d <= q
    BY <1>1, <2>1, QuotientOrder DEF q
  <2>. QED  BY <1>1, <2>1, <2>2, <2>3 DEF q
<1>3. Within(e - (e \div s), b - s * d)
  <2> HIDE DEF b
  <2>. QED  BY <1>1, <1>2, Shrinks DEF b
<1>4. r * s \in Int /\ -(s * d) <= r * s /\ r * s <= s * d
  BY Z3 DEF Within
<1> HIDE DEF b
<1>. QED  BY <1>1, <1>3, <1>4 DEF Within, b

(* A recursive function is its own orbit: the residual that decays. *)
LEMMA DecayedIs ==
  ASSUME NEW b \in Nat, NEW n \in Nat
  PROVE  \E g : /\ Orbit(g, Nat, n, b, [x \in Nat |-> x - (x \div Scale)])
                /\ Decayed(b, n) = g[n]
<1> DEFINE step == [x \in Nat |-> x - (x \div Scale)]
           Body(f) == [i \in 0..n |-> IF i = 0 THEN b ELSE f[i - 1] - (f[i - 1] \div Scale)]
           left == CHOOSE f : f = Body(f)
<1>1. step \in [Nat -> Nat]
  <2>1. \A x \in Nat : x - (x \div Scale) \in Nat
    <3> TAKE x \in Nat
    <3>1. Within(x, x) /\ Scale \in Nat \ {0}
      BY RegimeAssumption DEF Within
    <3>2. x - (x \div Scale) \in 0..x
      BY <3>1, Shrinks
    <3>. QED  BY <3>2
  <2>. QED  BY <2>1
<1>2. PICK g : Orbit(g, Nat, n, b, step)
  <2> HIDE DEF step
  <2>. QED  BY <1>1, Orbits
<1>3. g = Body(g)
  <2>1. \A i \in 0..n : g[i] = Body(g)[i]
    <3> TAKE i \in 0..n
    <3>1. CASE i = 0
      BY <1>2, <3>1 DEF Orbit
    <3>2. CASE i # 0
      <4>1. i \in 1..n /\ i - 1 \in 0..n
        BY <3>2
      <4>2. g[i] = step[g[i - 1]] /\ g[i - 1] \in Nat
        BY <1>2, <4>1 DEF Orbit
      <4>. QED  BY <3>2, <4>2
    <3>. QED  BY <3>1, <3>2
  <2>2. DOMAIN g = 0..n /\ g = [i \in 0..n |-> g[i]]
    BY <1>2 DEF Orbit
  <2>. QED  BY <2>1, <2>2
<1>4. left = Body(left)
  BY <1>3
<1>5. \A i \in 0..n : left[i] = g[i]
  <2> DEFINE S == {i \in 0..n : left[i] = g[i]}
  <2> HIDE DEF left
  <2>1. 0 \in S
    <3>1. left[0] = b
      BY <1>4
    <3>2. g[0] = b /\ 0 \in 0..n
      <4> HIDE DEF step
      <4>. QED  BY <1>2 DEF Orbit
    <3>. QED  BY <3>1, <3>2
  <2>2. \A i \in 1..n : i - 1 \in S => i \in S
    <3> TAKE i \in 1..n
    <3> HAVE i - 1 \in S
    <3>1. left[i - 1] = g[i - 1] /\ i \in 0..n /\ i - 1 \in 0..n
      OBVIOUS
    <3>2. left[i] = left[i - 1] - (left[i - 1] \div Scale)
      BY <1>4, <3>1
    <3>3. g[i] = step[g[i - 1]] /\ g[i - 1] \in Nat
      BY <1>2, <3>1 DEF Orbit
    <3>. QED  BY <3>1, <3>2, <3>3
  <2> HIDE DEF S
  <2>3. \A i \in 0..n : i \in S
    BY <2>1, <2>2, UpTo
  <2>. QED  BY <2>3 DEF S
<1>6. Decayed(b, n) = left[n]
  BY DEF Decayed
<1>7. n \in 0..n
  OBVIOUS
<1> HIDE DEF left
<1>. QED  BY <1>2, <1>5, <1>6, <1>7

-----------------------------------------------------------------------------
(* What feed does to the smoothed residual, the runs and the dwell.        *)
LEMMA CountedRuns ==
  ASSUME NEW o, Good(o), o.driftRun < DriftDwell, NEW b \in BOOLEAN, NEW next \in {"Stable", "Drift"}
  PROVE  LET p == Counted(o, b, next)
         IN  /\ p.ema = o.ema /\ p.prev = o.prev /\ p.driftRun \in Nat /\ p.driftRun < DriftDwell
             /\ p.state \in {o.state, next} /\ p.episode = o.episode
             /\ b => p.state = next \/ (p.state = o.state /\ p.driftRun = o.driftRun + 1)
             /\ ~b => p.state = o.state
<1>1. o \in Observers /\ o.driftRun \in Nat /\ DriftDwell \in Nat \ {0}
  BY RegimeAssumption DEF Good, Observers
<1>2. CASE ~b
  <2>1. Counted(o, b, next) = [o EXCEPT !.driftRun = 0]
    BY <1>2 DEF Counted
  <2>. QED  BY <1>1, <1>2, <2>1 DEF Observers
<1>3. CASE b /\ o.driftRun + 1 >= DriftDwell
  <2> DEFINE w == [o EXCEPT !.state = next, !.driftRun = 0]
  <2>1. Counted(o, b, next) = w
    BY <1>3 DEF Counted
  <2>2. w.ema = o.ema /\ w.prev = o.prev /\ w.driftRun = 0 /\ w.state = next /\ w.episode = o.episode
    BY <1>1 DEF Observers
  <2> HIDE DEF w
  <2>3. w.driftRun \in Nat /\ w.driftRun < DriftDwell /\ w.state \in {o.state, next}
    BY <1>1, <2>2
  <2>. QED  BY <1>3, <2>1, <2>2, <2>3, Zenon
<1>4. CASE b /\ ~(o.driftRun + 1 >= DriftDwell)
  <2> DEFINE w == [o EXCEPT !.driftRun = o.driftRun + 1]
  <2>1. Counted(o, b, next) = w
    BY <1>4 DEF Counted
  <2>2. w.ema = o.ema /\ w.prev = o.prev /\ w.driftRun = o.driftRun + 1 /\ w.state = o.state /\ w.episode = o.episode
    BY <1>1 DEF Observers
  <2> HIDE DEF w
  <2>3. w.driftRun \in Nat /\ w.driftRun < DriftDwell /\ w.state \in {o.state, next}
    BY <1>1, <1>4, <2>2
  <2>. QED  BY <1>4, <2>1, <2>2, <2>3, Zenon
<1>. QED  BY <1>2, <1>3, <1>4

LEMMA OpenedRuns ==
  ASSUME NEW o, Good(o), NEW k
  PROVE  LET p == Opened(o, k)
         IN  /\ p.ema = o.ema /\ p.prev = o.prev /\ p.driftRun = o.driftRun
             /\ p = o \/ (o.state = "Drift" /\ p.state = "InEpisode" /\ p.episode.dwell = 1)
<1>1. o \in Observers
  BY DEF Good
<1>2. CASE o.state = "Drift" /\ Magnitude(o.cumulative) >= EpisodeThreshold
  <2> DEFINE e == [onset |-> k, peak |-> k, value |-> o.prev, dev |-> Magnitude(o.cumulative), dwell |-> 1]
  <2>1. Opened(o, k) = [o EXCEPT !.state = "InEpisode", !.recoverRun = 0, !.episode = e]
    BY <1>2 DEF Opened
  <2>2. e.dwell = 1
    OBVIOUS
  <2> HIDE DEF e
  <2>. QED  BY <1>1, <1>2, <2>1, <2>2 DEF Observers
<1>3. CASE ~(o.state = "Drift" /\ Magnitude(o.cumulative) >= EpisodeThreshold)
  BY <1>3 DEF Opened
<1>. QED  BY <1>2, <1>3

LEMMA LongerRuns ==
  ASSUME NEW o, Good(o), NEW k
  PROVE  /\ Longer(o, k).ema = o.ema /\ Longer(o, k).prev = o.prev
         /\ Longer(o, k).driftRun = o.driftRun
<1> DEFINE e == Longer(o, k).episode
           run == Longer(o, k).recoverRun
           w == [o EXCEPT !.recoverRun = run, !.episode = e]
<1>1. o \in Observers
  BY DEF Good
<1>. QED  BY <1>1 DEF Longer, Observers

LEMMA ClosedRuns == ASSUME NEW o, Good(o) 
  PROVE  Closed(o).ema = o.ema /\ Closed(o).prev = o.prev /\ Closed(o).driftRun = 0
BY DEF Closed, Good, Observers

-----------------------------------------------------------------------------
(* An observer whose residual is within b, no run and no episode at its    *)
(* end.                                                                    *)
Bounded(o, b) ==
  /\ Good(o) /\ Within(o.ema, b) /\ o.driftRun < DriftDwell
  /\ o.state = "InEpisode" => o.episode.dwell < MaxDwell

(* Calm samples until the observer is Stable, at most.                     *)
Rank(o) ==
  CASE o.state = "Stable"     -> 0
    [] o.state = "Recovering" -> DriftDwell - o.driftRun
    [] o.state = "InEpisode"  -> DriftDwell + MaxDwell - o.episode.dwell
    [] OTHER                  -> MaxDwell + 2 * DriftDwell - o.driftRun

LEMMA RankType ==
  ASSUME NEW o, NEW b, Bounded(o, b)
  PROVE  /\ Rank(o) \in 0..(MaxDwell + 2 * DriftDwell)
         /\ Rank(o) = 0 => o.state = "Stable"
<1>1. /\ MaxDwell \in Nat /\ DriftDwell \in Nat \ {0} /\ o.driftRun \in Nat /\ o.driftRun < DriftDwell
      /\ o.state \in States
  BY RegimeAssumption DEF Bounded, Good, Observers
<1>2. o.state = "InEpisode" => o.episode.dwell \in Nat /\ o.episode.dwell < MaxDwell
  BY DEF Bounded, Good, Observers, OpenEpisodes
<1>. QED  BY <1>1, <1>2 DEF Rank, States

(* What feed makes of it: the bound is that of the smoothed residual, and  *)
(* a calm sample brings the observer closer to Stable.                     *)
LEMMA FeedRuns ==
  ASSUME NEW o, NEW b, Bounded(o, b), NEW k \in Nat, NEW v \in Int,
         NEW c, Within(Sampled(o, v).ema, c)
  PROVE  LET p == Feed(o, k, v)
         IN  /\ Bounded(p, c) /\ p.prev = v
             /\ Calm(Sampled(o, v), DriftThreshold) => Rank(p) < Rank(o) \/ Rank(p) = 0
<1> DEFINE s == Sampled(o, v)
           p == Feed(o, k, v)
           l == Longer(s, k)
           d == Calm(s, DriftThreshold)
<1>1. Good(o) /\ Good(p)
  <2>1. Good(o)
    BY DEF Bounded
  <2>2. FeedShape(o, k, p, ClosedBy(o, k, v))
    BY <2>1, FeedType
  <2>. QED  BY <2>1, <2>2 DEF FeedShape
<1>2. /\ Good(s) /\ s.state = o.state /\ s.driftRun = o.driftRun /\ s.episode = o.episode
      /\ s.prev = v /\ Within(s.ema, c)
  BY <1>1, SampledType
<1>3. s.driftRun < DriftDwell /\ s.driftRun \in Nat /\ DriftDwell \in Nat \ {0} /\ MaxDwell \in Nat \ {0, 1}
  BY <1>2, RegimeAssumption DEF Bounded, Good, Observers
<1>4. d \in BOOLEAN
  <2>1. (Magnitude(s.ema) < DriftThreshold * Scale) \in BOOLEAN
    OBVIOUS
  <2>. QED  BY <2>1 DEF Calm
<1>5. CASE o.state = "Stable"
  <2>1. p = Counted(s, ~d, "Drift")
    BY <1>5 DEF Feed
  <2> HIDE DEF s, d, p
  <2>2. /\ p.ema = s.ema /\ p.prev = v /\ p.driftRun < DriftDwell /\ p.state \in {"Stable", "Drift"}
        /\ d => p.state = "Stable"
    BY <1>2, <1>3, <1>4, <1>5, <2>1, CountedRuns
  <2>3. Bounded(p, c)
    BY <1>1, <1>2, <2>2 DEF Bounded
  <2>. QED  BY <2>2, <2>3 DEF Rank, p, s, d
<1>6. CASE o.state = "Recovering"
  <2>1. p = Counted(s, d, "Stable")
    BY <1>6 DEF Feed
  <2> HIDE DEF s, d, p
  <2>2. /\ p.ema = s.ema /\ p.prev = v /\ p.driftRun < DriftDwell /\ p.state \in {"Stable", "Recovering"}
        /\ p.driftRun \in Nat
        /\ d => p.state = "Stable" \/ (p.state = "Recovering" /\ p.driftRun = o.driftRun + 1)
    BY <1>2, <1>3, <1>4, <1>6, <2>1, CountedRuns
  <2>3. Bounded(p, c)
    BY <1>1, <1>2, <2>2 DEF Bounded
  <2>4. d => Rank(p) < Rank(o) \/ Rank(p) = 0
    BY <1>2, <1>3, <1>6, <2>2 DEF Rank
  <2>. QED  BY <2>2, <2>3, <2>4 DEF p, s, d
<1>7. CASE o.state = "Drift"
  <2> DEFINE q == Counted(s, d, "Stable")
  <2>1. p = Opened(q, k)
    BY <1>7 DEF Feed
  <2> HIDE DEF s, d, p
  <2>2. Good(q)
    BY <1>2, <1>4, <1>7, CountedType
  <2>3. /\ q.ema = s.ema /\ q.prev = v /\ q.driftRun < DriftDwell /\ q.state \in {"Stable", "Drift"}
        /\ q.driftRun \in Nat
        /\ d => q.state = "Stable" \/ (q.state = "Drift" /\ q.driftRun = o.driftRun + 1)
    BY <1>2, <1>3, <1>4, <1>7, CountedRuns
  <2> HIDE DEF q
  <2>4. /\ p.ema = q.ema /\ p.prev = q.prev /\ p.driftRun = q.driftRun
        /\ p = q \/ (q.state = "Drift" /\ p.state = "InEpisode" /\ p.episode.dwell = 1)
    BY <2>1, <2>2, OpenedRuns
  <2>5. Bounded(p, c)
    BY <1>1, <1>2, <1>3, <2>3, <2>4 DEF Bounded
  <2>6. d => Rank(p) < Rank(o) \/ Rank(p) = 0
    BY <1>2, <1>3, <1>7, <2>3, <2>4 DEF Rank
  <2>. QED  BY <2>3, <2>4, <2>5, <2>6 DEF p, s, d
<1>8. CASE o.state = "InEpisode"
  <2>1. /\ Good(l) /\ l.state = "InEpisode" /\ l.ema = s.ema /\ l.prev = v /\ l.driftRun = s.driftRun
        /\ l.episode.dwell = o.episode.dwell + 1
    <3> HIDE DEF s
    <3>. QED  BY <1>2, <1>8, LongerType, LongerFields, LongerRuns
  <2>2. o.episode.dwell \in Nat /\ o.episode.dwell < MaxDwell
    BY <1>8 DEF Bounded, Good, Observers, OpenEpisodes
  <2>3. CASE CloseReason(l) = None
    <3>1. p = l
      BY <1>8, <2>3 DEF Feed
    <3>2. ~(l.episode.dwell >= MaxDwell)
      BY <2>3, NoneAssumption DEF CloseReason
    <3> HIDE DEF l, s, d, p
    <3>3. Bounded(p, c)
      BY <1>1, <1>2, <1>3, <2>1, <2>2, <3>1, <3>2 DEF Bounded
    <3>4. Rank(p) < Rank(o)
      BY <1>3, <1>8, <2>1, <2>2, <3>1 DEF Rank
    <3>. QED  BY <2>1, <3>1, <3>3, <3>4 DEF p, s, d
  <2>4. CASE CloseReason(l) # None
    <3>1. p = Closed(l)
      BY <1>8, <2>4 DEF Feed
    <3> HIDE DEF l, s, d, p
    <3>2. p.ema = s.ema /\ p.prev = v /\ p.driftRun = 0 /\ p.state = "Recovering"
      BY <2>1, <3>1, ClosedRuns, ClosedFields
    <3>3. Bounded(p, c)
      BY <1>1, <1>2, <1>3, <3>2 DEF Bounded
    <3>4. Rank(p) < Rank(o)
      BY <1>3, <1>8, <2>2, <3>2 DEF Rank
    <3>. QED  BY <3>2, <3>3, <3>4 DEF p, s, d
  <2>. QED  BY <2>3, <2>4
<1>. QED  BY <1>1, <1>5, <1>6, <1>7, <1>8 DEF Good, Observers, States

-----------------------------------------------------------------------------
(* A bound of the residual that the values can build up.                   *)
Reaching(b) ==
  /\ \E d \in Nat : /\ b = Scale * Scale * d
                    /\ \A u, v \in Values : Within(v - u, d)
  /\ \E n \in 0..Settling : /\ Decayed(b, n) < DriftThreshold * Scale
                            /\ n + MaxDwell + 2 * DriftDwell <= Settling
Reach == CHOOSE b \in Nat : Reaching(b)

LEMMA ReachIs == Reach \in Nat /\ Reaching(Reach)
<1>1. PICK low \in Values, high \in Values, n \in 0..Settling :
        /\ \A v \in Values : low <= v /\ v <= high
        /\ Decayed(Scale * Scale * (high - low), n) < DriftThreshold * Scale
        /\ n + MaxDwell + 2 * DriftDwell <= Settling
  BY SettlingAssumption
<1> DEFINE d == high - low
           b == Scale * Scale * d
<1>2. Values \subseteq Int /\ low \in Int /\ high \in Int /\ Scale \in Nat
  BY <1>1, EpisodesAssumption, RegimeAssumption
<1>3. d \in Nat /\ \A u, v \in Values : Within(v - u, d)
  <2>1. low <= high
    BY <1>1
  <2>2. d \in Nat
    BY <1>2, <2>1
  <2>3. ASSUME NEW u \in Values, NEW v \in Values PROVE Within(v - u, d)
    <3>1. u \in Int /\ v \in Int /\ low <= u /\ u <= high /\ low <= v /\ v <= high
      BY <1>1, <1>2
    <3>. QED  BY <1>2, <3>1 DEF Within
  <2>. QED  BY <2>2, <2>3
<1> HIDE DEF d
<1>4. b \in Nat
  BY <1>2, <1>3, Z3
<1>5. Reaching(b)
  BY <1>1, <1>3 DEF Reaching, d
<1> HIDE DEF b
<1>. QED  BY <1>4, <1>5 DEF Reach

FlatInv == Bounded(observer, Reach) /\ observer.prev \in Values \cup {None}

(* All that happens to the observer: it is fed with values.                *)
LEMMA ObserverSteps ==
  ASSUME IInv, [Next]_vars
  PROVE  \/ observer' \in {observer, New}
         \/ \E k \in Nat, v \in Values : observer' = Feed(observer, k, v)
<1>1. metas \in Seq(Entries) /\ ordinal \in Nat
  BY DEF IInv
<1>2. CASE Replay
  <2>1. CASE metas[ordinal'] = Still
    BY <1>2, <2>1 DEF Replay
  <2>2. CASE metas[ordinal'] # Still
    <3>1. ordinal' = ordinal + 1 /\ ordinal < Len(metas) /\ observer' = Feed(observer, ordinal', metas[ordinal'])
      BY <1>2, <2>2 DEF Replay
    <3>2. ordinal' \in 1..Len(metas)
      BY <1>1, <3>1
    <3>3. metas[ordinal'] \in Values
      BY <1>1, <2>2, <3>2 DEF Entries
    <3>. QED  BY <3>1, <3>2, <3>3
  <2>. QED  BY <2>1, <2>2
<1>3. ASSUME NEW v \in Values \cup {Still}, Admit(v)
      PROVE  \/ observer' = observer
             \/ \E k \in Nat, x \in Values : observer' = Feed(observer, k, x)
  <2>1. CASE v = Still
    BY <1>3, <2>1 DEF Admit
  <2>2. CASE v # Still
    <3>1. ordinal' = ordinal + 1 /\ observer' = Feed(observer, ordinal', v)
      BY <1>3, <2>2 DEF Admit
    <3>2. ordinal' \in Nat /\ v \in Values
      BY <1>1, <2>2, <3>1
    <3>. QED  BY <3>1, <3>2
  <2>. QED  BY <2>1, <2>2
<1>4. ASSUME NEW v \in Values \cup {Still}, AdmitPlain(v) PROVE observer' = observer
  BY <1>4 DEF AdmitPlain, memory
<1>5. ASSUME NEW r \in BOOLEAN, Start(r) PROVE observer' = New
  BY <1>5 DEF Start
<1>6. CASE Rebuilt \/ WriteEpisode \/ Rest \/ UNCHANGED vars
  BY <1>6 DEF Rebuilt, WriteEpisode, Rest, vars, memory
<1>7. CASE End
  BY <1>7 DEF End
<1>. QED  BY <1>2, <1>3, <1>4, <1>5, <1>6, <1>7 DEF Next

LEMMA NewBounded == Bounded(New, Reach) /\ New.prev = None
<1>1. Good(New) /\ New.ema = 0 /\ New.driftRun = 0 /\ New.state = "Stable" /\ New.prev = None
  BY NewGood DEF New
<1>2. Within(0, Reach)
  BY ReachIs DEF Within
<1>3. DriftDwell \in Nat \ {0}
  BY RegimeAssumption
<1>. QED  BY <1>1, <1>2, <1>3 DEF Bounded

(* Values build up no more than the bound. *)
LEMMA FedBounded ==
  ASSUME NEW o, Bounded(o, Reach), o.prev \in Values \cup {None},
         NEW k \in Nat, NEW v \in Values
  PROVE  Bounded(Feed(o, k, v), Reach) /\ Feed(o, k, v).prev = v
<1> DEFINE r == IF o.prev = None THEN 0 ELSE v - o.prev
<1>1. PICK d \in Nat : Reach = Scale * Scale * d /\ \A u, w \in Values : Within(w - u, d)
  BY ReachIs DEF Reaching
<1>2. Within(r, d)
  BY <1>1 DEF Within
<1>3. Scale \in Nat \ {0} /\ v \in Int
  BY RegimeAssumption, EpisodesAssumption
<1>4. Sampled(o, v).ema = o.ema - (o.ema \div Scale) + r * Scale
  BY DEF Sampled, Bounded, Good, Observers
<1> HIDE DEF r
<1>5. Within(o.ema - (o.ema \div Scale) + r * Scale, Reach)
  <2>1. Within(o.ema, Scale * Scale * d)
    BY <1>1 DEF Bounded
  <2>. QED  BY <1>1, <1>2, <1>3, <2>1, Builds
<1>6. Within(Sampled(o, v).ema, Reach)
  BY <1>4, <1>5
<1>. QED  BY <1>3, <1>6, FeedRuns

LEMMA FlatHolds == Spec => []FlatInv
<1>1. Init => FlatInv
  <2> SUFFICES ASSUME Init PROVE FlatInv
    OBVIOUS
  <2>1. observer = New
    BY DEF Init
  <2>. QED  BY <2>1, NewBounded DEF FlatInv
<1>2. IInv /\ FlatInv /\ [Next]_vars => FlatInv'
  <2> SUFFICES ASSUME IInv, FlatInv, [Next]_vars PROVE FlatInv'
    OBVIOUS
  <2>1. CASE observer' = observer
    BY <2>1 DEF FlatInv
  <2>2. CASE observer' = New
    BY <2>2, NewBounded DEF FlatInv
  <2>3. ASSUME NEW k \in Nat, NEW v \in Values, observer' = Feed(observer, k, v) PROVE FlatInv'
    <3>1. Bounded(Feed(observer, k, v), Reach) /\ Feed(observer, k, v).prev = v
      BY FedBounded DEF FlatInv
    <3>. QED  BY <2>3, <3>1 DEF FlatInv
  <2>. QED  BY <2>1, <2>2, <2>3, ObserverSteps
<1>. QED  BY <1>1, <1>2, Inductive, PTL DEF Spec

-----------------------------------------------------------------------------
(* The observer that follows o while the signal stays at v. *)
Holding(v) == {o \in Observers : Bounded(o, Reach) /\ o.prev = v}
Again(v) == [o \in Holding(v) |-> Feed(o, 0, v)]

(* Without movement the residual shrinks. *)
LEMMA HeldSample ==
  ASSUME NEW o, NEW b \in Nat, Bounded(o, b), NEW v \in Int, o.prev = v
  PROVE  Within(Sampled(o, v).ema, b - (b \div Scale)) /\ b - (b \div Scale) \in 0..b
<1>1. Scale \in Nat \ {0} /\ v # None
  BY RegimeAssumption
<1>2. Sampled(o, v).ema = o.ema - (o.ema \div Scale) + (v - v) * Scale
  BY <1>1 DEF Sampled, Bounded, Good, Observers
<1>3. Within(o.ema, b) /\ o.ema \in Int
  BY DEF Bounded, Within
<1>4. /\ b - (b \div Scale) \in 0..b
      /\ Within(o.ema - (o.ema \div Scale), b - (b \div Scale))
  BY <1>1, <1>3, Shrinks
<1>5. Sampled(o, v).ema = o.ema - (o.ema \div Scale)
  <2>1. o.ema \div Scale \in Int
    BY <1>1, <1>3
  <2>2. (v - v) * Scale = 0
    BY <1>1
  <2>. QED  BY <1>2, <1>3, <2>1, <2>2
<1>. QED  BY <1>4, <1>5

LEMMA HoldingFed == ASSUME NEW v \in Int PROVE Again(v) \in [Holding(v) -> Holding(v)]
<1>1. ASSUME NEW o \in Holding(v) PROVE Feed(o, 0, v) \in Holding(v)
  <2> DEFINE e == Sampled(o, v).ema
             c == Reach - (Reach \div Scale)
             p == Feed(o, 0, v)
  <2>1. Bounded(o, Reach) /\ o.prev = v /\ Reach \in Nat
    BY ReachIs DEF Holding
  <2>2. Within(e, c) /\ c \in 0..Reach
    BY <2>1, HeldSample
  <2> HIDE DEF c
  <2>3. Within(e, Reach)
    BY <2>1, <2>2 DEF Within
  <2>4. Bounded(p, Reach) /\ p.prev = v
    <3> HIDE DEF p
    <3>1. 0 \in Nat
      OBVIOUS
    <3>. QED  BY <2>1, <2>3, <3>1, FeedRuns DEF p
  <2> HIDE DEF p
  <2>5. p \in Holding(v)
    BY <2>4 DEF Holding, Bounded, Good
  <2>. QED  BY <2>5 DEF p
<1>. QED  BY <1>1 DEF Again

LEMMA FlatIs ==
  ASSUME NEW v \in Int, NEW o \in Holding(v)
  PROVE  \E g : Orbit(g, Holding(v), Settling, o, Again(v)) /\ Flat(o) = g[Settling]
<1> DEFINE Body(f) == [n \in 0..Settling |-> IF n = 0 THEN o ELSE Feed(f[n - 1], 0, o.prev)]
           after == CHOOSE f : f = Body(f)
<1>1. Settling \in Nat /\ o.prev = v
  BY EpisodesAssumption DEF Holding
<1>2. PICK g : Orbit(g, Holding(v), Settling, o, Again(v))
  BY <1>1, HoldingFed, Orbits
<1>3. \A i \in 1..Settling : g[i] = Feed(g[i - 1], 0, v) /\ g[i - 1] \in Holding(v)
  <2> TAKE i \in 1..Settling
  <2>1. i - 1 \in 0..Settling
    BY <1>1
  <2>2. g[i] = Again(v)[g[i - 1]] /\ g[i - 1] \in Holding(v)
    BY <1>2, <2>1 DEF Orbit
  <2>. QED  BY <2>2 DEF Again
<1>4. g = Body(g)
  <2>1. \A i \in 0..Settling : g[i] = Body(g)[i]
    <3> TAKE i \in 0..Settling
    <3>1. CASE i = 0
      BY <1>2, <3>1 DEF Orbit
    <3>2. CASE i # 0
      <4>1. i \in 1..Settling
        BY <1>1, <3>2
      <4>. QED  BY <1>1, <1>3, <3>2, <4>1
    <3>. QED  BY <3>1, <3>2
  <2>2. g = [i \in 0..Settling |-> g[i]]
    BY <1>2 DEF Orbit
  <2>. QED  BY <2>1, <2>2
<1>5. after = Body(after)
  BY <1>4
<1>6. \A i \in 0..Settling : after[i] = g[i]
  <2> DEFINE S == {i \in 0..Settling : after[i] = g[i]}
  <2> HIDE DEF after
  <2>1. 0 \in S
    <3>1. g[0] = o /\ 0 \in 0..Settling
      BY <1>1, <1>2 DEF Orbit
    <3>2. after[0] = o
      BY <1>5, <3>1
    <3>. QED  BY <3>1, <3>2
  <2>2. ASSUME NEW i \in 1..Settling, i - 1 \in S PROVE i \in S
    <3>1. after[i - 1] = g[i - 1] /\ i \in 0..Settling /\ i # 0
      BY <2>2
    <3>2. after[i] = Body(after)[i]
      BY <1>5
    <3>3. after[i] = Feed(after[i - 1], 0, o.prev)
      BY <3>1, <3>2
    <3>. QED  BY <1>1, <1>3, <3>1, <3>3
  <2> HIDE DEF S
  <2>3. \A i \in 0..Settling : i \in S
    BY <1>1, <2>1, <2>2, UpTo
  <2>. QED  BY <2>3 DEF S
<1>7. Flat(o) = after[Settling]
  BY DEF Flat
<1> HIDE DEF after
<1>. QED  BY <1>1, <1>2, <1>6, <1>7

(* First the residual decays, then the observer comes to rest.             *)
LEMMA Settles ==
  ASSUME NEW v \in Int, NEW o \in Holding(v)
  PROVE  Flat(o).state = "Stable" /\ Flat(o).episode = None
<1> DEFINE M == MaxDwell + 2 * DriftDwell
           shrink == [x \in Nat |-> x - (x \div Scale)]
<1>1. PICK n \in 0..Settling : /\ Decayed(Reach, n) < DriftThreshold * Scale
                               /\ n + MaxDwell + 2 * DriftDwell <= Settling
  BY ReachIs DEF Reaching
<1>2. n \in Nat /\ n + M <= Settling /\ Settling \in Nat /\ M \in Nat /\ Scale \in Nat \ {0} /\ DriftThreshold \in Nat \ {0} /\ Reach \in Nat
  BY <1>1, EpisodesAssumption, RegimeAssumption, ReachIs
<1> HIDE DEF M
<1>3. PICK left : Orbit(left, Nat, n, Reach, shrink) /\ Decayed(Reach, n) = left[n]
  BY <1>2, DecayedIs
<1>4. PICK g : Orbit(g, Holding(v), Settling, o, Again(v)) /\ Flat(o) = g[Settling]
  BY FlatIs
<1>5. ASSUME NEW i \in 1..Settling, NEW b \in Nat, Bounded(g[i - 1], b)
      PROVE  LET c == b - (b \div Scale)
             IN  /\ c \in 0..b /\ Bounded(g[i], c)
                 /\ c < DriftThreshold * Scale => Rank(g[i]) < Rank(g[i - 1]) \/ Rank(g[i]) = 0
  <2> DEFINE x == g[i - 1]
             c == b - (b \div Scale)
             e == Sampled(x, v).ema
  <2>1. i - 1 \in 0..Settling
    BY <1>2
  <2>2. x \in Holding(v) /\ g[i] = Again(v)[x]
    BY <1>4, <2>1 DEF Orbit
  <2>3. x.prev = v /\ g[i] = Feed(x, 0, v)
    BY <2>2 DEF Holding, Again
  <2> HIDE DEF x, c, e
  <2>4. Within(e, c) /\ c \in 0..b
    BY <1>5, <2>3, HeldSample DEF x, c, e
  <2>5. /\ Bounded(Feed(x, 0, v), c)
        /\ Calm(Sampled(x, v), DriftThreshold) => Rank(Feed(x, 0, v)) < Rank(x) \/ Rank(Feed(x, 0, v)) = 0
    <3>1. 0 \in Nat
      OBVIOUS
    <3>. QED  BY <1>5, <2>4, <3>1, FeedRuns DEF x, e
  <2>6. c < DriftThreshold * Scale => Calm(Sampled(x, v), DriftThreshold)
    <3>1. Magnitude(e) <= c
      BY <2>4 DEF Within, Magnitude
    <3>2. Magnitude(e) \in Int /\ DriftThreshold * Scale \in Int
      BY <1>2, <2>4 DEF Within, Magnitude
    <3>. QED  BY <2>4, <3>1, <3>2 DEF Calm, e
  <2>. QED  BY <2>3, <2>4, <2>5, <2>6 DEF x, c
<1>6. left[n] \in Nat /\ Bounded(g[n], left[n])
  <2> DEFINE S == {i \in 0..n : Bounded(g[i], left[i])}
  <2>1. 0 \in S
    <3>1. g[0] = o /\ left[0] = Reach /\ 0 \in 0..n
      <4> HIDE DEF shrink
      <4>. QED  BY <1>3, <1>4 DEF Orbit
    <3>. QED  BY <3>1 DEF Holding
  <2>2. ASSUME NEW i \in 1..n, i - 1 \in S PROVE i \in S
    <3>1. i \in 1..Settling /\ i \in 0..n /\ i - 1 \in 0..n /\ Bounded(g[i - 1], left[i - 1])
      BY <1>2, <2>2
    <3>2. left[i - 1] \in Nat /\ left[i] = shrink[left[i - 1]]
      <4> HIDE DEF shrink
      <4>. QED  BY <1>3, <3>1 DEF Orbit
    <3>3. left[i] = left[i - 1] - (left[i - 1] \div Scale)
      BY <3>2
    <3>4. Bounded(g[i], left[i - 1] - (left[i - 1] \div Scale))
      BY <1>5, <3>1, <3>2
    <3>. QED  BY <3>1, <3>3, <3>4
  <2> HIDE DEF S
  <2>3. \A i \in 0..n : i \in S
    BY <2>1, <2>2, UpTo
  <2>4. n \in 0..n
    OBVIOUS
  <2>5. left[n] \in Nat
    <3> HIDE DEF shrink
    <3>. QED  BY <1>3, <2>4 DEF Orbit
  <2>. QED  BY <2>3, <2>4, <2>5 DEF S
<1> DEFINE K == Settling - n
           b == left[n]
<1>7. K \in Nat /\ M <= K /\ b \in Nat /\ b < DriftThreshold * Scale
  BY <1>1, <1>2, <1>3, <1>6
<1>8. Bounded(g[n + K], b) /\ (Rank(g[n + K]) + K <= M \/ Rank(g[n + K]) = 0)
  <2> DEFINE Calmer(j) == Bounded(g[n + j], b) /\ (Rank(g[n + j]) + j <= M \/ Rank(g[n + j]) = 0)
             S == {j \in 0..K : Calmer(j)}
  <2>1. 0 \in S
    <3>1. Bounded(g[n + 0], b)
      BY <1>6
    <3>2. Rank(g[n + 0]) \in 0..M
      BY <3>1, RankType DEF M
    <3> HIDE DEF b, K
    <3>. QED  BY <1>2, <1>7, <3>1, <3>2
  <2>2. ASSUME NEW j \in 1..K, j - 1 \in S PROVE j \in S
    <3> DEFINE i == n + j
               c == b - (b \div Scale)
    <3>1. i \in 1..Settling /\ i - 1 = n + (j - 1) /\ j \in 0..K
      BY <1>2
    <3>2. Bounded(g[i - 1], b) /\ (Rank(g[i - 1]) + (j - 1) <= M \/ Rank(g[i - 1]) = 0)
      BY <2>2, <3>1
    <3> HIDE DEF b, K, i
    <3>3. /\ c \in 0..b /\ Bounded(g[i], c)
          /\ c < DriftThreshold * Scale => Rank(g[i]) < Rank(g[i - 1]) \/ Rank(g[i]) = 0
      BY <1>5, <1>7, <3>1, <3>2
    <3> HIDE DEF c
    <3>4. Bounded(g[i], b)
      BY <1>7, <3>3 DEF Bounded, Within
    <3>5. Rank(g[i]) < Rank(g[i - 1]) \/ Rank(g[i]) = 0
      <4>1. DriftThreshold * Scale \in Int
        BY <1>2
      <4>. QED  BY <1>7, <3>3, <4>1
    <3>6. Rank(g[i]) \in Nat /\ Rank(g[i - 1]) \in Nat
      <4>1. Rank(g[i]) \in 0..M /\ Rank(g[i - 1]) \in 0..M
        BY <3>2, <3>4, RankType DEF M
      <4>. QED  BY <1>2, <4>1
    <3>7. Rank(g[i]) + j <= M \/ Rank(g[i]) = 0
      BY <1>2, <1>7, <3>1, <3>2, <3>5, <3>6
    <3>. QED  BY <3>1, <3>4, <3>7 DEF i
  <2> HIDE DEF S, K
  <2>3. \A j \in 0..K : j \in S
    BY <1>7, <2>1, <2>2, UpTo
  <2>4. K \in S
    BY <1>7, <2>3
  <2>. QED  BY <2>4 DEF S
<1>9. n + K = Settling
  BY <1>2
<1> HIDE DEF K, b
<1>10. Rank(g[Settling]) \in 0..M /\ (Rank(g[Settling]) = 0 => g[Settling].state = "Stable")
  BY <1>8, <1>9, RankType DEF M
<1>11. Rank(g[Settling]) = 0
  BY <1>2, <1>7, <1>8, <1>9, <1>10
<1>. QED  BY <1>4, <1>8, <1>9, <1>10, <1>11 DEF Bounded, Good

(* A signal that stays flat settles, whatever the observer has seen and    *)
(* however its thresholds and dwells are set: FlatSettles.                 *)
THEOREM FlatSettlesAlways == Spec => []FlatSettles
<1>1. FlatInv => FlatSettles
  <2> SUFFICES ASSUME FlatInv, observer.prev # None
               PROVE  Flat(observer).state = "Stable" /\ Flat(observer).episode = None
    BY DEF FlatSettles
  <2>1. observer.prev \in Int /\ observer \in Holding(observer.prev)
    BY EpisodesAssumption DEF FlatInv, Holding, Bounded, Good
  <2>. QED  BY <2>1, Settles
<1>. QED  BY <1>1, FlatHolds, PTL

-----------------------------------------------------------------------------
(* Structural episodes: maxima, and the edges of a root. *)

LEMMA MaxOfTwo ==
  ASSUME NEW x \in Int, NEW y \in Int
  PROVE  Max({x, y}) = IF x >= y THEN x ELSE y
<1> DEFINE m == IF x >= y THEN x ELSE y
<1>1. m \in {x, y} /\ \A z \in {x, y} : m >= z
  OBVIOUS
<1>2. \A w \in {x, y} : (\A z \in {x, y} : w >= z) => w = m
  OBVIOUS
<1>. QED  BY <1>1, <1>2 DEF Max

LEMMA MaxOfFew ==
  ASSUME NEW S \in SUBSET (0..3), S # {}
  PROVE  Max(S) \in S /\ \A x \in S : Max(S) >= x
<1>1. \E m \in S : \A x \in S : m >= x
  <2>1. CASE 3 \in S
    BY <2>1
  <2>2. CASE 3 \notin S /\ 2 \in S
    <3>1. \A x \in S : 2 >= x
      BY <2>2
    <3>. QED  BY <2>2, <3>1
  <2>3. CASE 3 \notin S /\ 2 \notin S /\ 1 \in S
    <3>1. \A x \in S : 1 >= x
      BY <2>3
    <3>. QED  BY <2>3, <3>1
  <2>4. CASE 3 \notin S /\ 2 \notin S /\ 1 \notin S
    <3>1. \A x \in S : x = 0
      BY <2>4
    <3>2. PICK y \in S : TRUE
      OBVIOUS
    <3>. QED  BY <3>1, <3>2
  <2>. QED  BY <2>1, <2>2, <2>3, <2>4
<1>. QED  BY <1>1 DEF Max

(* The greatest element is the one that is not exceeded.                   *)
LEMMA MaxIs ==
  ASSUME NEW S \in SUBSET Int, NEW m \in S, \A x \in S : m >= x
  PROVE  Max(S) = m
<1>1. \A w \in S : (\A x \in S : w >= x) => w = m
  OBVIOUS
<1>. QED  BY <1>1 DEF Max

LEMMA CalibrationLength ==
  MaxCalibration \in Nat /\ MaxCalibration > 0 /\ CalibrationWindows <= MaxCalibration
  /\ CalibrationWindows \in Nat
<1>1. CalibrationWindows \in Nat
  BY StructuralAssumption
<1>2. MaxCalibration = IF 2 * CalibrationWindows >= 3 THEN 2 * CalibrationWindows ELSE 3
  BY <1>1, MaxOfTwo DEF MaxCalibration
<1>. QED  BY <1>1, <1>2

StructuralEdges == UNION {[d -> [value : Reached, policy : 0..3]] : d \in SUBSET Axes}

LEMMA EdgeType ==
  ASSUME NEW e \in StructuralEdges
  PROVE  DOMAIN e \subseteq Axes /\ \A a \in DOMAIN e : e[a] \in [value : Reached, policy : 0..3]
BY DEF StructuralEdges

(* One more edge after the edges m. *)
LEMMA OneMore ==
  ASSUME NEW m \in Seq(StructuralEdges), NEW e \in StructuralEdges
  PROVE  /\ Append(m, e) \in Seq(StructuralEdges) /\ Len(Append(m, e)) = Len(m) + 1
         /\ Append(m, e)[Len(m) + 1] = e /\ \A k \in 1..Len(m) : Append(m, e)[k] = m[k]
         /\ Len(m) \in Nat /\ DOMAIN m = 1..Len(m) /\ DOMAIN Append(m, e) = 1..(Len(m) + 1)
OBVIOUS

LEMMA MovesType ==
  ASSUME NEW m, NEW a, NEW k \in Nat
  PROVE  Moves(m, a, k) \subseteq 1..k /\ IsFiniteSet(Moves(m, a, k)) /\ Cardinality(Moves(m, a, k)) \in Nat
<1>1. Moves(m, a, k) \subseteq 1..k
  BY DEF Moves
<1>2. IsFiniteSet(1..k)
  BY FS_Interval
<1>. QED  BY <1>1, <1>2, FS_Subset, FS_CardinalityType

(* It does not change what was. *)
LEMMA MovesGrow ==
  ASSUME NEW m \in Seq(StructuralEdges), NEW e \in StructuralEdges, NEW a
  PROVE  /\ \A k \in 0..Len(m) : Moves(Append(m, e), a, k) = Moves(m, a, k)
         /\ Moves(Append(m, e), a, Len(m) + 1)
              = Moves(m, a, Len(m)) \cup (IF a \in DOMAIN e THEN {Len(m) + 1} ELSE {})
         /\ \A k \in 0..Len(m) : \A j \in Moves(m, a, k) : j \in 1..Len(m) /\ j <= k
<1> DEFINE w == Append(m, e)
           n == Len(m)
<1>1. n \in Nat /\ w[n + 1] = e /\ \A k \in 1..n : w[k] = m[k]
  BY OneMore
<1> HIDE DEF w, n
<1>2. \A k \in 0..n : Moves(w, a, k) = Moves(m, a, k)
  BY <1>1 DEF Moves
<1>3. Moves(w, a, n + 1) = Moves(m, a, n) \cup (IF a \in DOMAIN e THEN {n + 1} ELSE {})
  BY <1>1 DEF Moves
<1>4. \A k \in 0..n : \A j \in Moves(m, a, k) : j \in 1..n /\ j <= k
  BY <1>1 DEF Moves
<1>. QED  BY <1>2, <1>3, <1>4 DEF w, n

(* Some move is the last. *)
LEMMA GreatestMove ==
  ASSUME NEW m, NEW a, NEW k \in Nat, Moves(m, a, k) # {}
  PROVE  \E x \in Moves(m, a, k) : \A y \in Moves(m, a, k) : x >= y
<1> DEFINE T == {i \in Nat : \E x \in Moves(m, a, k) : i = k - x}
<1>1. Moves(m, a, k) \subseteq 1..k
  BY MovesType
<1>2. T \subseteq Nat /\ T # {}
  BY <1>1
<1>3. PICK i \in T : \A j \in T : i <= j
  <2> HIDE DEF T
  <2>. QED  BY <1>2, LeastNumber
<1>4. PICK x \in Moves(m, a, k) : i = k - x
  BY <1>3
<1>5. \A y \in Moves(m, a, k) : x >= y
  <2> TAKE y \in Moves(m, a, k)
  <2>1. k - y \in T
    BY <1>1
  <2>. QED  BY <1>1, <1>3, <1>4, <2>1
<1>. QED  BY <1>5

ValuesOf(m, a, k) == {m[i][a].value : i \in Moves(m, a, k)}

LEMMA CalibratedMeans ==
  ASSUME NEW m, NEW a, NEW k
  PROVE  CalibratedBy(m, a, k) <=>
           \E j \in Moves(m, a, k) :
             /\ Cardinality(Moves(m, a, j)) \in CalibrationWindows..MaxCalibration
             /\ Cardinality(ValuesOf(m, a, j)) > 1
BY DEF CalibratedBy, ValuesOf

LEMMA CalibratedGrows ==
  ASSUME NEW m \in Seq(StructuralEdges), NEW e \in StructuralEdges, NEW a
  PROVE  LET w == Append(m, e)
             n == Len(m)
         IN  /\ \A k \in 0..n : ValuesOf(w, a, k) = ValuesOf(m, a, k)
             /\ \A k \in 0..n : CalibratedBy(w, a, k) <=> CalibratedBy(m, a, k)
             /\ a \notin DOMAIN e => (CalibratedBy(w, a, n + 1) <=> CalibratedBy(m, a, n))
             /\ a \in DOMAIN e =>
                  (CalibratedBy(w, a, n + 1) <=>
                     \/ CalibratedBy(m, a, n)
                     \/ /\ Cardinality(Moves(w, a, n + 1)) \in CalibrationWindows..MaxCalibration
                        /\ Cardinality(ValuesOf(w, a, n + 1)) > 1)
             /\ a \in DOMAIN e => ValuesOf(w, a, n + 1) = ValuesOf(m, a, n) \cup {e[a].value}
<1> DEFINE w == Append(m, e)
           n == Len(m)
           C(j) == /\ Cardinality(Moves(w, a, j)) \in CalibrationWindows..MaxCalibration
                   /\ Cardinality(ValuesOf(w, a, j)) > 1
           D(j) == /\ Cardinality(Moves(m, a, j)) \in CalibrationWindows..MaxCalibration
                   /\ Cardinality(ValuesOf(m, a, j)) > 1
<1>1. n \in Nat /\ w[n + 1] = e /\ \A k \in 1..n : w[k] = m[k]
  BY OneMore
<1>2. /\ \A k \in 0..n : Moves(w, a, k) = Moves(m, a, k)
      /\ Moves(w, a, n + 1) = Moves(m, a, n) \cup (IF a \in DOMAIN e THEN {n + 1} ELSE {})
      /\ \A k \in 0..n : \A j \in Moves(m, a, k) : j \in 1..n /\ j <= k
  BY MovesGrow
<1>3. \A k : CalibratedBy(w, a, k) <=> \E j \in Moves(w, a, k) : C(j)
  BY CalibratedMeans
<1>4. \A k : CalibratedBy(m, a, k) <=> \E j \in Moves(m, a, k) : D(j)
  BY CalibratedMeans
<1> HIDE DEF w, n
<1>5. \A k \in 0..n : ValuesOf(w, a, k) = ValuesOf(m, a, k)
  BY <1>1, <1>2 DEF ValuesOf
<1>6. \A j \in 1..n : C(j) <=> D(j)
  BY <1>1, <1>2, <1>5
<1>7. a \in DOMAIN e => ValuesOf(w, a, n + 1) = ValuesOf(m, a, n) \cup {e[a].value}
  <2>1. \A i \in Moves(m, a, n) : w[i] = m[i]
    BY <1>1, <1>2
  <2>. QED  BY <1>1, <1>2, <2>1 DEF ValuesOf
<1> HIDE DEF C, D
<1>8. \A k \in 0..n : CalibratedBy(w, a, k) <=> CalibratedBy(m, a, k)
  BY <1>2, <1>3, <1>4, <1>6
<1>9. n \in 0..n
  BY <1>1
<1>10. CalibratedBy(w, a, n + 1) <=> CalibratedBy(m, a, n) \/ (a \in DOMAIN e /\ C(n + 1))
  <2>1. \A j \in Moves(m, a, n) : C(j) <=> D(j)
    BY <1>2, <1>6, <1>9
  <2>. QED  BY <1>2, <1>3, <1>4, <2>1
<1>. QED  BY <1>5, <1>7, <1>8, <1>10 DEF C, w, n

-----------------------------------------------------------------------------
(* The stream of one axis after the edges m. *)
StreamType == [mode : {"calibrating", "calibrated", "discrete"}, calib : Seq(Reached), sticky : 0..3]

StreamFollows(s, m, a) ==
  LET n == Len(m)
  IN  /\ s \in StreamType
      /\ s.mode = "calibrating" =>
           /\ Len(s.calib) = Cardinality(Moves(m, a, n)) /\ Len(s.calib) < MaxCalibration
           /\ ToSet(s.calib) = ValuesOf(m, a, n)
           /\ s.sticky = Silent /\ ~ CalibratedBy(m, a, n)
      /\ s.mode = "calibrated" =>
           CalibratedBy(m, a, n) /\ s.sticky = m[Max(Moves(m, a, n))][a].policy
      /\ s.mode = "discrete" =>
           /\ Cardinality(Moves(m, a, n)) >= MaxCalibration
           /\ s.sticky = Silent /\ ~ CalibratedBy(m, a, n)

(* Its verdict is the policy of the reference definition.                  *)
LEMMA StickyIsPolicy ==
  ASSUME NEW s, NEW m, NEW a, StreamFollows(s, m, a)
  PROVE  s.sticky = PolicyOf(m, a, Len(m)) /\ s.sticky \in 0..3
BY DEF StreamFollows, StreamType, PolicyOf

(* An edge that does not move the axis leaves its stream as it was.        *)
LEMMA StreamStays ==
  ASSUME NEW m \in Seq(StructuralEdges), NEW e \in StructuralEdges, NEW a, a \notin DOMAIN e,
         NEW s, StreamFollows(s, m, a)
  PROVE  StreamFollows(s, Append(m, e), a)
<1> DEFINE w == Append(m, e)
           n == Len(m)
<1>1. n \in Nat /\ Len(w) = n + 1 /\ \A k \in 1..n : w[k] = m[k]
  BY OneMore
<1>2. Moves(w, a, n + 1) = Moves(m, a, n) /\ \A j \in Moves(m, a, n) : j \in 1..n
  <2>1. Moves(w, a, n + 1) = Moves(m, a, n) \cup {}
    <3>1. Moves(w, a, n + 1) = Moves(m, a, n) \cup (IF a \in DOMAIN e THEN {n + 1} ELSE {})
      BY MovesGrow
    <3> HIDE DEF w, n
    <3>. QED  BY <3>1
  <2>2. n \in 0..n
    BY <1>1
  <2>. QED  BY <2>1, <2>2, MovesGrow
<1>3. CalibratedBy(w, a, n + 1) <=> CalibratedBy(m, a, n)
  BY CalibratedGrows
<1>4. ValuesOf(w, a, n + 1) = ValuesOf(m, a, n)
  <2> HIDE DEF w
  <2>. QED  BY <1>1, <1>2 DEF ValuesOf
<1>5. s.mode = "calibrated" => w[Max(Moves(m, a, n))] = m[Max(Moves(m, a, n))]
  <2>1. SUFFICES ASSUME s.mode = "calibrated" PROVE Max(Moves(m, a, n)) \in 1..n
    BY <1>1
  <2>2. Moves(m, a, n) # {}
    BY <2>1 DEF StreamFollows, CalibratedBy
  <2>3. \E x \in Moves(m, a, n) : \A y \in Moves(m, a, n) : x >= y
    BY <1>1, <2>2, GreatestMove
  <2>4. Max(Moves(m, a, n)) \in Moves(m, a, n)
    BY <2>3 DEF Max
  <2>. QED  BY <1>2, <2>4
<1> HIDE DEF w, n
<1>. QED  BY <1>1, <1>2, <1>3, <1>4, <1>5 DEF StreamFollows, w, n

(* An edge that moves it is pushed. *)
LEMMA StreamPushed ==
  ASSUME NEW m \in Seq(StructuralEdges), NEW e \in StructuralEdges, NEW a \in DOMAIN e,
         NEW s, StreamFollows(s, m, a)
  PROVE  StreamFollows(Push(s, e[a]), Append(m, e), a)
<1> DEFINE w == Append(m, e)
           n == Len(m)
           N == n + 1
           r == e[a]
           c == Append(s.calib, r.value)
           t == Push(s, r)
           M == Moves(w, a, N)
<1>1. n \in Nat /\ Len(w) = N /\ w[N] = e /\ N \in Nat /\ r \in [value : Reached, policy : 0..3]
  BY OneMore, EdgeType
<1>2. M = Moves(m, a, n) \cup {N} /\ \A j \in Moves(m, a, n) : j \in 1..n /\ j <= n
  BY <1>1, MovesGrow
<1>3. CalibratedBy(w, a, N) <=>
        \/ CalibratedBy(m, a, n)
        \/ Cardinality(M) \in CalibrationWindows..MaxCalibration /\ Cardinality(ValuesOf(w, a, N)) > 1
  BY CalibratedGrows
<1>4. ValuesOf(w, a, N) = ValuesOf(m, a, n) \cup {r.value}
  BY CalibratedGrows
<1>5. Cardinality(M) = Cardinality(Moves(m, a, n)) + 1 /\ Cardinality(Moves(m, a, n)) \in Nat
  <2>1. IsFiniteSet(Moves(m, a, n)) /\ Cardinality(Moves(m, a, n)) \in Nat
    BY <1>1, MovesType
  <2>2. N \notin Moves(m, a, n)
    BY <1>1, <1>2
  <2> HIDE DEF N
  <2>. QED  BY <1>2, <2>1, <2>2, FS_AddElement
<1>6. w[Max(M)] = e
  <2>1. N \in M /\ M \in SUBSET Int /\ \A x \in M : N >= x
    BY <1>1, <1>2
  <2>2. Max(M) = N
    <3> HIDE DEF M, N
    <3>. QED  BY <2>1, MaxIs
  <2>. QED  BY <1>1, <2>2
<1>7. s \in StreamType /\ c \in Seq(Reached) /\ Len(c) = Len(s.calib) + 1
      /\ ToSet(c) = ToSet(s.calib) \cup {r.value} /\ Len(s.calib) \in Nat
  <2>1. s \in StreamType /\ s.calib \in Seq(Reached)
    BY DEF StreamFollows, StreamType
  <2> DEFINE q == s.calib
  <2>2. q \in Seq(Reached) /\ r.value \in Reached
    BY <1>1, <2>1
  <2> HIDE DEF q, r
  <2>3. LET z == Append(q, r.value) IN
        /\ z \in Seq(Reached) /\ Len(z) = Len(q) + 1 /\ Len(q) \in Nat
        /\ DOMAIN z = DOMAIN q \cup {Len(q) + 1} /\ z[Len(q) + 1] = r.value
        /\ \A i \in DOMAIN q : z[i] = q[i]
    BY <2>2
  <2>4. ToSet(Append(q, r.value)) = ToSet(q) \cup {r.value}
    BY <2>3 DEF ToSet
  <2>. QED  BY <2>1, <2>3, <2>4 DEF q
<1> HIDE DEF w, n, N, r, c, M
<1>8. CASE s.mode = "discrete"
  <2>1. t = s
    BY <1>8 DEF Push
  <2>2. ~ CalibratedBy(w, a, N) /\ Cardinality(M) >= MaxCalibration /\ s.sticky = Silent
    BY <1>3, <1>5, <1>8, CalibrationLength DEF StreamFollows, n
  <2>. QED  BY <1>1, <1>7, <1>8, <2>1, <2>2 DEF StreamFollows, w, r, M
<1>9. CASE s.mode = "calibrated" \/ (s.mode = "calibrating" /\ Varied(c))
  <2>1. t = [mode |-> "calibrated", calib |-> <<>>, sticky |-> r.policy]
    BY <1>9 DEF Push, c
  <2>2. t \in StreamType
    BY <1>1, <2>1 DEF StreamType
  <2>3. CalibratedBy(w, a, N)
    <3>1. CASE s.mode = "calibrated"
      BY <1>3, <3>1 DEF StreamFollows, n
    <3>2. CASE s.mode = "calibrating" /\ Varied(c)
      <4>1. Len(s.calib) = Cardinality(Moves(m, a, n)) /\ Len(s.calib) < MaxCalibration
            /\ ToSet(s.calib) = ValuesOf(m, a, n)
        BY <3>2 DEF StreamFollows, n
      <4>2. Len(c) = Cardinality(M) /\ ToSet(c) = ValuesOf(w, a, N)
        BY <1>4, <1>5, <1>7, <4>1
      <4>3. Len(c) >= CalibrationWindows /\ Cardinality(ValuesOf(w, a, N)) > 1
        BY <3>2, <4>2 DEF Varied
      <4>4. Cardinality(M) \in CalibrationWindows..MaxCalibration
        BY <1>5, <1>7, <4>1, <4>2, <4>3, CalibrationLength
      <4>. QED  BY <1>3, <4>3, <4>4
    <3>. QED  BY <1>9, <3>1, <3>2
  <2>. QED  BY <1>1, <1>6, <2>1, <2>2, <2>3 DEF StreamFollows, w, r, M
<1>10. CASE s.mode = "calibrating" /\ ~ Varied(c)
  <2>1. Len(s.calib) = Cardinality(Moves(m, a, n)) /\ Len(s.calib) < MaxCalibration
        /\ ToSet(s.calib) = ValuesOf(m, a, n) /\ s.sticky = Silent /\ ~ CalibratedBy(m, a, n)
    BY <1>10 DEF StreamFollows, n
  <2>2. Len(c) = Cardinality(M) /\ ToSet(c) = ValuesOf(w, a, N)
    BY <1>4, <1>5, <1>7, <2>1
  <2>3. ~ CalibratedBy(w, a, N)
    BY <1>3, <1>5, <1>10, <2>1, <2>2, CalibrationLength DEF Varied
  <2>4. CASE Len(c) >= MaxCalibration
    <3>1. t = [mode |-> "discrete", calib |-> <<>>, sticky |-> Silent]
      BY <1>10, <2>4 DEF Push, c
    <3>. QED  BY <1>1, <2>2, <2>3, <2>4, <3>1 DEF StreamFollows, StreamType, w, r, M, Silent
  <2>5. CASE ~(Len(c) >= MaxCalibration)
    <3>1. t = [s EXCEPT !.calib = c]
      BY <1>10, <2>5 DEF Push, c
    <3>2. t = [mode |-> "calibrating", calib |-> c, sticky |-> Silent]
      BY <1>7, <1>10, <2>1, <3>1 DEF StreamType
    <3>3. t \in StreamType /\ Len(c) < MaxCalibration
      BY <1>7, <2>5, <3>2, CalibrationLength DEF StreamType, Silent
    <3>. QED  BY <1>1, <2>2, <2>3, <3>2, <3>3 DEF StreamFollows, w, r, M
  <2>. QED  BY <2>4, <2>5
<1>. QED  BY <1>7, <1>8, <1>9, <1>10 DEF StreamType

-----------------------------------------------------------------------------
(* The policies after each edge, and the edges that are quiet. *)
PolicyTable(m) == [k \in DOMAIN m |-> [a \in Axes |-> PolicyOf(m, a, k)]]

LEMMA PolicyType ==
  ASSUME NEW m \in Seq(StructuralEdges), NEW a, NEW k \in 0..Len(m)
  PROVE  /\ PolicyOf(m, a, k) \in 0..3
         /\ CalibratedBy(m, a, k) => Max(Moves(m, a, k)) \in 1..k
<1>1. CASE CalibratedBy(m, a, k)
  <2>1. Moves(m, a, k) # {} /\ k \in Nat
    BY <1>1 DEF CalibratedBy
  <2>2. \E x \in Moves(m, a, k) : \A y \in Moves(m, a, k) : x >= y
    BY <2>1, GreatestMove
  <2> DEFINE x == Max(Moves(m, a, k))
  <2>3. x \in Moves(m, a, k)
    BY <2>2 DEF Max
  <2> HIDE DEF x
  <2>4. x \in 1..k /\ a \in DOMAIN m[x]
    BY <2>3 DEF Moves
  <2>5. m[x] \in StructuralEdges
    BY <2>4
  <2>6. m[x][a].policy \in 0..3
    BY <2>4, <2>5, EdgeType
  <2>. QED  BY <1>1, <2>4, <2>6 DEF PolicyOf, x
<1>2. CASE ~ CalibratedBy(m, a, k)
  BY <1>2 DEF PolicyOf, Silent
<1>. QED  BY <1>1, <1>2

(* One more edge does not change the policies before it. *)
LEMMA TableGrows ==
  ASSUME NEW m \in Seq(StructuralEdges), NEW e \in StructuralEdges
  PROVE  /\ \A k \in 1..Len(m) : PolicyTable(Append(m, e))[k] = PolicyTable(m)[k]
         /\ \A k \in 1..(Len(m) + 1), a \in Axes : PolicyTable(Append(m, e))[k][a] \in 0..3
         /\ \A a \in Axes : PolicyTable(Append(m, e))[Len(m) + 1][a] = PolicyOf(Append(m, e), a, Len(m) + 1)
<1> DEFINE w == Append(m, e)
           n == Len(m)
<1>1. w \in Seq(StructuralEdges) /\ Len(w) = n + 1 /\ DOMAIN w = 1..(n + 1) /\ DOMAIN m = 1..n
      /\ n \in Nat /\ \A k \in 1..n : w[k] = m[k]
  BY OneMore
<1>2. ASSUME NEW k \in 1..n, NEW a \in Axes PROVE PolicyOf(w, a, k) = PolicyOf(m, a, k)
  <2>1. Moves(w, a, k) = Moves(m, a, k) /\ (CalibratedBy(w, a, k) <=> CalibratedBy(m, a, k))
    BY MovesGrow, CalibratedGrows
  <2>2. CalibratedBy(m, a, k) => Max(Moves(m, a, k)) \in 1..k
    BY PolicyType
  <2>3. CalibratedBy(m, a, k) => w[Max(Moves(m, a, k))] = m[Max(Moves(m, a, k))]
    BY <1>1, <2>2
  <2> HIDE DEF w
  <2>. QED  BY <2>1, <2>3 DEF PolicyOf
<1>3. ASSUME NEW k \in 1..(n + 1), NEW a \in Axes PROVE PolicyOf(w, a, k) \in 0..3
  <2>1. k \in 0..Len(w)
    BY <1>1
  <2>. QED  BY <1>1, <2>1, PolicyType
<1> HIDE DEF w, n
<1>4. \A k \in 1..(n + 1) : PolicyTable(w)[k] = [a \in Axes |-> PolicyOf(w, a, k)]
  BY <1>1 DEF PolicyTable
<1>5. \A k \in 1..n : PolicyTable(m)[k] = [a \in Axes |-> PolicyOf(m, a, k)]
  BY <1>1 DEF PolicyTable
<1>6. ASSUME NEW k \in 1..n PROVE PolicyTable(w)[k] = PolicyTable(m)[k]
  <2>1. [a \in Axes |-> PolicyOf(w, a, k)] = [a \in Axes |-> PolicyOf(m, a, k)]
    BY <1>2
  <2>2. k \in 1..(n + 1)
    BY <1>1
  <2>. QED  BY <1>4, <1>5, <2>1, <2>2
<1>7. n + 1 \in 1..(n + 1)
  BY <1>1
<1>8. \A k \in 1..(n + 1), a \in Axes : PolicyTable(w)[k][a] \in 0..3
  BY <1>3, <1>4
<1>9. \A a \in Axes : PolicyTable(w)[n + 1][a] = PolicyOf(w, a, n + 1)
  BY <1>4, <1>7
<1>. QED  BY <1>6, <1>8, <1>9 DEF w, n

LEMMA QuietMeans ==
  ASSUME NEW p, NEW k \in Nat, NEW n \in Nat
  PROVE  QuietFor(p, k, n) <=> \A j \in 1..k : j > k - n => ~ Loud(p, j)
<1>1. Max({1, k - n + 1}) = IF 1 >= k - n + 1 THEN 1 ELSE k - n + 1
  BY MaxOfTwo
<1>2. \A j \in Int : j \in Max({1, k - n + 1})..k <=> j \in 1..k /\ j > k - n
  BY <1>1
<1>3. \A j : j \in Max({1, k - n + 1})..k => j \in Int
  BY <1>1
<1>. QED  BY <1>2, <1>3 DEF QuietFor

LEMMA QuietStays ==
  ASSUME NEW p, NEW q, NEW n \in Nat, \A k \in 1..n : q[k] = p[k],
         NEW d \in Nat
  PROVE  /\ \A k \in 1..n : Loud(q, k) <=> Loud(p, k)
         /\ \A k \in 0..n : QuietFor(q, k, d) <=> QuietFor(p, k, d)
<1>1. \A k \in 1..n : Loud(q, k) <=> Loud(p, k)
  BY DEF Loud
<1>2. ASSUME NEW k \in 0..n PROVE QuietFor(q, k, d) <=> QuietFor(p, k, d)
  <2>1. QuietFor(q, k, d) <=> \A j \in 1..k : j > k - d => ~ Loud(q, j)
    BY QuietMeans
  <2>2. QuietFor(p, k, d) <=> \A j \in 1..k : j > k - d => ~ Loud(p, j)
    BY QuietMeans
  <2>3. \A j \in 1..k : Loud(q, j) <=> Loud(p, j)
    BY <1>1
  <2>. QED  BY <2>1, <2>2, <2>3
<1>. QED  BY <1>1, <1>2

-----------------------------------------------------------------------------
(* The episode of a root after the edges m. *)
OpenSpans == [open : Nat, peak : Nat, axes : SUBSET Axes, policy : 0..3]
ClosedSpans == [open : Nat, close : Nat, peak : Nat, axes : SUBSET Axes, policy : 0..3]

MovedTo(m, k, level) == {a \in DOMAIN m[k] : PolicyTable(m)[k][a] >= level}
MovedBetween(m, o, c) == UNION {MovedTo(m, k, Review) : k \in o..c}

(* Their highest policy is reached on an axis they moved into review.      *)
HighestOf(m, axes, policy, o, c) ==
  /\ \E a \in axes, k \in o..c : PolicyTable(m)[k][a] = policy
  /\ \A a \in Axes, k \in o..c : PolicyTable(m)[k][a] <= policy

OpenSince(p, o, n) ==
  /\ Loud(p, o) /\ QuietFor(p, o - 1, DriftWindow)
  /\ \A k \in (o + DriftWindow)..n : ~ QuietFor(p, k, DriftWindow)
LastLoud(p, x, n) == Loud(p, x) /\ \A j \in (x + 1)..n : ~ Loud(p, j)

OpenTrue(s, quiet, m) ==
  LET n == Len(m)
      p == PolicyTable(m)
  IN  /\ s \in OpenSpans /\ s.open \in 1..n /\ OpenSince(p, s.open, n)
      /\ quiet \in 0..(DriftWindow - 1) /\ s.peak = n - quiet /\ s.peak >= s.open /\ LastLoud(p, s.peak, n)
      /\ s.axes = MovedBetween(m, s.open, n) /\ s.axes # {}
      /\ HighestOf(m, s.axes, s.policy, s.open, n)

EpisodeFollows(open, quiet, m) ==
  IF open = NoSpan THEN QuietFor(PolicyTable(m), Len(m), DriftWindow) ELSE OpenTrue(open, quiet, m)

ClosedTrue(s, m) ==
  /\ s \in ClosedSpans /\ s.open \in 1..Len(m) /\ s.close \in 1..Len(m)
  /\ IsSpan(PolicyTable(m), s.open, s.close) /\ s.peak = s.close - DriftWindow
  /\ s.axes = MovedBetween(m, s.open, s.close) /\ s.axes # {}
  /\ HighestOf(m, s.axes, s.policy, s.open, s.close)

(* What has been found of the edges m stays so. *)
LEMMA MovedStays ==
  ASSUME NEW m \in Seq(StructuralEdges), NEW e \in StructuralEdges
  PROVE  /\ \A level : \A k \in 1..Len(m) : MovedTo(Append(m, e), k, level) = MovedTo(m, k, level)
         /\ \A o \in 1..Len(m), c \in 1..Len(m) :
              MovedBetween(Append(m, e), o, c) = MovedBetween(m, o, c)
<1> DEFINE w == Append(m, e)
           n == Len(m)
<1>1. n \in Nat /\ (\A k \in 1..n : w[k] = m[k]) /\ \A k \in 1..n : PolicyTable(w)[k] = PolicyTable(m)[k]
  BY OneMore, TableGrows
<1> HIDE DEF w, n
<1>2. \A level : \A k \in 1..n : MovedTo(w, k, level) = MovedTo(m, k, level)
  BY <1>1 DEF MovedTo
<1>3. ASSUME NEW o \in 1..n, NEW c \in 1..n PROVE MovedBetween(w, o, c) = MovedBetween(m, o, c)
  <2>1. \A k \in o..c : k \in 1..n
    BY <1>1
  <2>. QED  BY <1>2, <2>1 DEF MovedBetween
<1>. QED  BY <1>2, <1>3 DEF w, n

LEMMA ClosedStays ==
  ASSUME NEW m \in Seq(StructuralEdges), NEW e \in StructuralEdges, NEW s, ClosedTrue(s, m)
  PROVE  ClosedTrue(s, Append(m, e))
<1> DEFINE w == Append(m, e)
           n == Len(m)
           p == PolicyTable(m)
           q == PolicyTable(w)
           o == s.open
           c == s.close
<1>1. n \in Nat /\ Len(w) = n + 1 /\ \A k \in 1..n : q[k] = p[k]
  BY OneMore, TableGrows
<1>2. DriftWindow \in Nat \ {0}
  BY StructuralAssumption
<1>3. o \in 1..n /\ c \in 1..n /\ o <= c - DriftWindow /\ IsSpan(p, o, c)
  BY DEF ClosedTrue, IsSpan
<1>4. /\ \A k \in 1..n : Loud(q, k) <=> Loud(p, k)
      /\ \A k \in 0..n : QuietFor(q, k, DriftWindow) <=> QuietFor(p, k, DriftWindow)
  <2> HIDE DEF p, q, n
  <2>. QED  BY <1>1, <1>2, QuietStays
<1>5. MovedBetween(w, o, c) = MovedBetween(m, o, c)
  BY <1>3, MovedStays
<1> HIDE DEF w, n, p, q, o, c
<1>6. IsSpan(q, o, c)
  <2>1. o - 1 \in 0..n /\ c \in 0..n /\ \A k \in (o + DriftWindow)..(c - 1) : k \in 0..n
    BY <1>1, <1>2, <1>3
  <2>. QED  BY <1>3, <1>4, <2>1 DEF IsSpan
<1>7. HighestOf(w, s.axes, s.policy, o, c)
  <2>1. HighestOf(m, s.axes, s.policy, o, c)
    BY DEF ClosedTrue, o, c
  <2>2. \A k \in o..c : q[k] = p[k]
    BY <1>1, <1>3
  <2>. QED  BY <2>1, <2>2 DEF HighestOf, p, q
<1>. QED  BY <1>1, <1>3, <1>5, <1>6, <1>7 DEF ClosedTrue, w, n, p, q, o, c

(* What the next edge says of the episode.                                 *)
LEMMA NextEdge ==
  ASSUME NEW m \in Seq(StructuralEdges), NEW e \in StructuralEdges
  PROVE  LET w == Append(m, e)
             n == Len(m)
             p == PolicyTable(m)
             q == PolicyTable(w)
         IN  /\ n \in Nat /\ Len(w) = n + 1
             /\ \A k \in 1..n : q[k] = p[k] /\ (Loud(q, k) <=> Loud(p, k))
             /\ \A k \in 0..n : QuietFor(q, k, DriftWindow) <=> QuietFor(p, k, DriftWindow)
             /\ QuietFor(q, n + 1, DriftWindow) <=>
                  ~ Loud(q, n + 1) /\ \A j \in 1..n : j > n + 1 - DriftWindow => ~ Loud(p, j)
             /\ \A o \in 1..n : MovedBetween(w, o, n + 1) = MovedBetween(m, o, n) \cup MovedTo(w, n + 1, Review)
             /\ MovedBetween(w, n + 1, n + 1) = MovedTo(w, n + 1, Review)
             /\ ~ Loud(q, n + 1) => MovedTo(w, n + 1, Review) = {}
             /\ MovedTo(w, n + 1, Review) \in SUBSET Axes
<1> DEFINE w == Append(m, e)
           n == Len(m)
           p == PolicyTable(m)
           q == PolicyTable(w)
<1>1. n \in Nat /\ Len(w) = n + 1 /\ w[n + 1] = e /\ (\A k \in 1..n : q[k] = p[k])
      /\ \A k \in 1..(n + 1), a \in Axes : q[k][a] \in 0..3
  BY OneMore, TableGrows
<1>2. DriftWindow \in Nat \ {0}
  BY StructuralAssumption
<1>3. /\ \A k \in 1..n : Loud(q, k) <=> Loud(p, k)
      /\ \A k \in 0..n : QuietFor(q, k, DriftWindow) <=> QuietFor(p, k, DriftWindow)
  <2> HIDE DEF p, q, n
  <2>. QED  BY <1>1, <1>2, QuietStays
<1>4. \A k \in 1..n : MovedTo(w, k, Review) = MovedTo(m, k, Review)
  BY MovedStays
<1>5. DOMAIN e \subseteq Axes
  BY EdgeType
<1> HIDE DEF w, n, p, q
<1>6. QuietFor(q, n + 1, DriftWindow) <=>
        ~ Loud(q, n + 1) /\ \A j \in 1..n : j > n + 1 - DriftWindow => ~ Loud(p, j)
  <2>1. QuietFor(q, n + 1, DriftWindow) <=> \A j \in 1..(n + 1) : j > n + 1 - DriftWindow => ~ Loud(q, j)
    <3> DEFINE N == n + 1
    <3>1. N \in Nat
      BY <1>1
    <3> HIDE DEF N
    <3>2. QuietFor(q, N, DriftWindow) <=> \A j \in 1..N : j > N - DriftWindow => ~ Loud(q, j)
      BY <1>2, <3>1, QuietMeans
    <3>3. \A j \in 1..N : j > N - DriftWindow <=> j > n + 1 - DriftWindow
      BY <1>1, <1>2 DEF N
    <3>. QED  BY <3>2, <3>3 DEF N
  <2>2. n + 1 \in 1..(n + 1) /\ n + 1 > n + 1 - DriftWindow /\ \A j \in 1..(n + 1) : j = n + 1 \/ j \in 1..n
    BY <1>1, <1>2
  <2>3. \A j \in 1..n : j \in 1..(n + 1)
    BY <1>1
  <2>. QED  BY <1>3, <2>1, <2>2, <2>3
<1>7. ASSUME NEW o \in 1..n
      PROVE  MovedBetween(w, o, n + 1) = MovedBetween(m, o, n) \cup MovedTo(w, n + 1, Review)
  <2>1. o..(n + 1) = (o..n) \cup {n + 1}
    BY <1>1
  <2>2. \A k \in o..n : k \in 1..n
    BY <1>1
  <2>. QED  BY <1>4, <2>1, <2>2 DEF MovedBetween
<1>8. MovedBetween(w, n + 1, n + 1) = MovedTo(w, n + 1, Review)
  <2>1. (n + 1)..(n + 1) = {n + 1}
    BY <1>1
  <2>. QED  BY <2>1 DEF MovedBetween
<1>9. MovedTo(w, n + 1, Review) \in SUBSET Axes /\ (~ Loud(q, n + 1) => MovedTo(w, n + 1, Review) = {})
  BY <1>1, <1>5 DEF MovedTo, Loud, q
<1>. QED  BY <1>1, <1>3, <1>6, <1>7, <1>8, <1>9 DEF w, n, p, q

(* No episode is open: the first edge that is loud opens one. *)
LEMMA Opens ==
  ASSUME NEW m \in Seq(StructuralEdges), NEW e \in StructuralEdges,
         QuietFor(PolicyTable(m), Len(m), DriftWindow),
         Loud(PolicyTable(Append(m, e)), Len(m) + 1),
         NEW policy \in 0..3, MovedTo(Append(m, e), Len(m) + 1, Review) # {},
         HighestOf(Append(m, e), MovedTo(Append(m, e), Len(m) + 1, Review), policy, Len(m) + 1, Len(m) + 1)
  PROVE  OpenTrue([open |-> Len(m) + 1, peak |-> Len(m) + 1,
                   axes |-> MovedTo(Append(m, e), Len(m) + 1, Review), policy |-> policy],
                  0, Append(m, e))
<1> DEFINE w == Append(m, e)
           n == Len(m)
           p == PolicyTable(m)
           q == PolicyTable(w)
           axes == MovedTo(w, n + 1, Review)
           s == [open |-> n + 1, peak |-> n + 1, axes |-> axes, policy |-> policy]
<1>1. /\ n \in Nat /\ Len(w) = n + 1 /\ axes \in SUBSET Axes
      /\ QuietFor(q, n, DriftWindow) <=> QuietFor(p, n, DriftWindow)
      /\ MovedBetween(w, n + 1, n + 1) = axes
  BY NextEdge
<1>2. DriftWindow \in Nat \ {0}
  BY StructuralAssumption
<1> HIDE DEF w, n, p, q, axes
<1>3. s \in OpenSpans /\ s.open \in 1..(n + 1) /\ 0 \in 0..(DriftWindow - 1)
  BY <1>1, <1>2 DEF OpenSpans
<1>4. OpenSince(q, n + 1, n + 1)
  <2> DEFINE N == n + 1
  <2>1. Loud(q, N) /\ QuietFor(q, n, DriftWindow)
    BY <1>1 DEF w, n, p, q
  <2>2. n = N - 1 /\ N \in Nat
    BY <1>1
  <2> HIDE DEF N
  <2>3. \A k \in (N + DriftWindow)..N : FALSE
    BY <1>2, <2>2
  <2>4. QuietFor(q, N - 1, DriftWindow)
    BY <2>1, <2>2
  <2>5. OpenSince(q, N, N)
    BY <2>1, <2>3, <2>4 DEF OpenSince
  <2>. QED  BY <2>5 DEF N
<1>5. LastLoud(q, n + 1, n + 1)
  <2>1. (n + 1 + 1)..(n + 1) = {}
    BY <1>1
  <2>. QED  BY <2>1 DEF LastLoud, w, n, q
<1>6. axes # {} /\ HighestOf(w, axes, policy, n + 1, n + 1)
  BY DEF axes, w, n
<1>7. OpenTrue(s, 0, w)
  BY <1>1, <1>3, <1>4, <1>5, <1>6 DEF OpenTrue, q
<1>. QED  BY <1>7 DEF w, n, axes

(* One is open: a loud edge prolongs it, and a quiet one ends it when it   *)
(* is the last of DriftWindow.                                             *)
LEMMA Prolongs ==
  ASSUME NEW m \in Seq(StructuralEdges), NEW e \in StructuralEdges, NEW s, NEW quiet,
         OpenTrue(s, quiet, m), Loud(PolicyTable(Append(m, e)), Len(m) + 1),
         NEW policy \in 0..3,
         HighestOf(Append(m, e), s.axes \cup MovedTo(Append(m, e), Len(m) + 1, Review), policy, s.open, Len(m) + 1)
  PROVE  OpenTrue([open |-> s.open, peak |-> Len(m) + 1,
                   axes |-> s.axes \cup MovedTo(Append(m, e), Len(m) + 1, Review), policy |-> policy],
                  0, Append(m, e))
<1> DEFINE w == Append(m, e)
           n == Len(m)
           p == PolicyTable(m)
           q == PolicyTable(w)
           axes == s.axes \cup MovedTo(w, n + 1, Review)
           o == s.open
           t == [open |-> o, peak |-> n + 1, axes |-> axes, policy |-> policy]
<1>1. /\ n \in Nat /\ Len(w) = n + 1 /\ MovedTo(w, n + 1, Review) \in SUBSET Axes
      /\ \A k \in 1..n : q[k] = p[k] /\ (Loud(q, k) <=> Loud(p, k))
      /\ \A k \in 0..n : QuietFor(q, k, DriftWindow) <=> QuietFor(p, k, DriftWindow)
      /\ QuietFor(q, n + 1, DriftWindow) => ~ Loud(q, n + 1)
      /\ \A k \in 1..n : MovedBetween(w, k, n + 1) = MovedBetween(m, k, n) \cup MovedTo(w, n + 1, Review)
  BY NextEdge
<1>2. DriftWindow \in Nat \ {0}
  BY StructuralAssumption
<1>3. s \in OpenSpans /\ o \in 1..n /\ OpenSince(p, o, n) /\ s.axes = MovedBetween(m, o, n) /\ s.axes # {}
  BY DEF OpenTrue
<1>4. Loud(q, n + 1) /\ HighestOf(w, axes, policy, o, n + 1)
  OBVIOUS
<1>5. axes = MovedBetween(w, o, n + 1) /\ axes # {} /\ axes \in SUBSET Axes
  <2>1. s.axes \in SUBSET Axes
    BY <1>3 DEF OpenSpans
  <2> HIDE DEF w, n, o
  <2>. QED  BY <1>1, <1>3, <2>1
<1> HIDE DEF w, n, p, q, axes, o
<1>6. t \in OpenSpans /\ t.open \in 1..(n + 1) /\ 0 \in 0..(DriftWindow - 1) /\ n + 1 >= o
  BY <1>1, <1>2, <1>3, <1>5 DEF OpenSpans
<1>7. OpenSince(q, o, n + 1)
  <2>1. o - 1 \in 0..n /\ \A k \in (o + DriftWindow)..(n + 1) : k = n + 1 \/ (k \in 0..n /\ k \in (o + DriftWindow)..n)
    BY <1>1, <1>2, <1>3
  <2>. QED  BY <1>1, <1>3, <1>4, <2>1 DEF OpenSince
<1>8. LastLoud(q, n + 1, n + 1)
  <2>1. (n + 1 + 1)..(n + 1) = {}
    BY <1>1
  <2>. QED  BY <1>4, <2>1 DEF LastLoud
<1>9. OpenTrue(t, 0, w)
  BY <1>1, <1>4, <1>5, <1>6, <1>7, <1>8 DEF OpenTrue, q
<1>. QED  BY <1>9 DEF w, n, axes, o

LEMMA Quietens ==
  ASSUME NEW m \in Seq(StructuralEdges), NEW e \in StructuralEdges, NEW s, NEW quiet,
         OpenTrue(s, quiet, m), ~ Loud(PolicyTable(Append(m, e)), Len(m) + 1),
         HighestOf(Append(m, e), s.axes, s.policy, s.open, Len(m) + 1)
  PROVE  /\ quiet \in Nat
         /\ quiet + 1 < DriftWindow => OpenTrue(s, quiet + 1, Append(m, e))
         /\ quiet + 1 >= DriftWindow =>
              /\ QuietFor(PolicyTable(Append(m, e)), Len(m) + 1, DriftWindow)
              /\ ClosedTrue([open |-> s.open, close |-> Len(m) + 1, peak |-> s.peak,
                             axes |-> s.axes, policy |-> s.policy], Append(m, e))
<1> DEFINE w == Append(m, e)
           n == Len(m)
           p == PolicyTable(m)
           q == PolicyTable(w)
           o == s.open
           t == [open |-> o, close |-> n + 1, peak |-> s.peak, axes |-> s.axes, policy |-> s.policy]
<1>1. /\ n \in Nat /\ Len(w) = n + 1 /\ MovedTo(w, n + 1, Review) = {}
      /\ \A k \in 1..n : q[k] = p[k] /\ (Loud(q, k) <=> Loud(p, k))
      /\ \A k \in 0..n : QuietFor(q, k, DriftWindow) <=> QuietFor(p, k, DriftWindow)
      /\ QuietFor(q, n + 1, DriftWindow) <=>
           ~ Loud(q, n + 1) /\ \A j \in 1..n : j > n + 1 - DriftWindow => ~ Loud(p, j)
      /\ \A k \in 1..n : MovedBetween(w, k, n + 1) = MovedBetween(m, k, n) \cup MovedTo(w, n + 1, Review)
  BY NextEdge
<1>2. DriftWindow \in Nat \ {0}
  BY StructuralAssumption
<1>3. /\ s \in OpenSpans /\ o \in 1..n /\ OpenSince(p, o, n) /\ s.axes = MovedBetween(m, o, n) /\ s.axes # {}
      /\ quiet \in 0..(DriftWindow - 1) /\ s.peak = n - quiet /\ s.peak >= o /\ LastLoud(p, s.peak, n)
  BY DEF OpenTrue
<1>4. ~ Loud(q, n + 1) /\ HighestOf(w, s.axes, s.policy, o, n + 1)
  OBVIOUS
<1>5. s.axes = MovedBetween(w, o, n + 1)
  <2> HIDE DEF w, n, o
  <2>. QED  BY <1>1, <1>3
<1> HIDE DEF w, n, p, q, o
<1>6. s.peak \in 1..n /\ Loud(p, s.peak)
  BY <1>1, <1>2, <1>3 DEF LastLoud
<1>7. CASE quiet + 1 < DriftWindow
  <2>1. ~ QuietFor(q, n + 1, DriftWindow)
    <3>1. s.peak > n + 1 - DriftWindow
      BY <1>1, <1>2, <1>3, <1>7
    <3>. QED  BY <1>1, <1>6, <3>1
  <2>2. OpenSince(q, o, n + 1)
    <3>1. o - 1 \in 0..n /\ \A k \in (o + DriftWindow)..(n + 1) : k = n + 1 \/ (k \in 0..n /\ k \in (o + DriftWindow)..n)
      BY <1>1, <1>2, <1>3
    <3>. QED  BY <1>1, <1>3, <2>1, <3>1 DEF OpenSince
  <2>3. LastLoud(q, s.peak, n + 1)
    <3>1. \A j \in (s.peak + 1)..(n + 1) : j = n + 1 \/ (j \in 1..n /\ j \in (s.peak + 1)..n)
      BY <1>1, <1>6
    <3>. QED  BY <1>1, <1>3, <1>4, <1>6, <3>1 DEF LastLoud
  <2>4. quiet + 1 \in 0..(DriftWindow - 1) /\ s.peak = (n + 1) - (quiet + 1) /\ o \in 1..(n + 1)
    BY <1>1, <1>2, <1>3, <1>7
  <2>5. OpenTrue(s, quiet + 1, w)
    BY <1>1, <1>3, <1>4, <1>5, <2>2, <2>3, <2>4 DEF OpenTrue, q, o
  <2>. QED  BY <1>2, <1>3, <1>7, <2>5 DEF w, n
<1>8. CASE quiet + 1 >= DriftWindow
  <2>1. quiet = DriftWindow - 1 /\ s.peak = n + 1 - DriftWindow
    BY <1>1, <1>2, <1>3, <1>8
  <2>2. QuietFor(q, n + 1, DriftWindow)
    <3>1. \A j \in 1..n : j > n + 1 - DriftWindow => j \in (s.peak + 1)..n
      BY <1>1, <1>2, <2>1
    <3>. QED  BY <1>1, <1>3, <1>4, <3>1 DEF LastLoud
  <2>3. IsSpan(q, o, n + 1)
    <3> DEFINE c == n + 1
    <3>1. o <= c - DriftWindow /\ o - 1 \in 0..n /\ o \in 1..n
          /\ \A k \in (o + DriftWindow)..(c - 1) : k \in 0..n /\ k \in (o + DriftWindow)..n
      BY <1>1, <1>2, <1>3, <2>1
    <3>2. QuietFor(q, c, DriftWindow)
      BY <2>2
    <3> HIDE DEF c
    <3>3. Loud(p, o) /\ QuietFor(p, o - 1, DriftWindow)
          /\ \A k \in (o + DriftWindow)..n : ~ QuietFor(p, k, DriftWindow)
      BY <1>3 DEF OpenSince
    <3>4. Loud(q, o) /\ QuietFor(q, o - 1, DriftWindow)
          /\ \A k \in (o + DriftWindow)..(c - 1) : ~ QuietFor(q, k, DriftWindow)
      BY <1>1, <3>1, <3>3
    <3>5. IsSpan(q, o, c)
      BY <3>1, <3>2, <3>4 DEF IsSpan
    <3>. QED  BY <3>5 DEF c
  <2>4. t \in ClosedSpans /\ t.open \in 1..(n + 1) /\ t.close \in 1..(n + 1)
    BY <1>1, <1>3 DEF OpenSpans, ClosedSpans
  <2>5. t.open = o /\ t.close = n + 1 /\ t.peak = s.peak /\ t.axes = s.axes /\ t.policy = s.policy
    OBVIOUS
  <2>6. s.peak = n + 1 - DriftWindow
    BY <2>1
  <2> HIDE DEF t
  <2>7. IsSpan(q, t.open, t.close) /\ t.peak = t.close - DriftWindow
        /\ t.axes = MovedBetween(w, t.open, t.close) /\ HighestOf(w, t.axes, t.policy, t.open, t.close)
    <3>1. IsSpan(q, t.open, t.close)
      BY <2>3, <2>5
    <3>2. t.peak = t.close - DriftWindow
      BY <1>1, <1>2, <2>5, <2>6
    <3>3. t.axes = MovedBetween(w, t.open, t.close)
      BY <1>5, <2>5
    <3>4. HighestOf(w, t.axes, t.policy, t.open, t.close)
      BY <1>4, <2>5
    <3>. QED  BY <3>1, <3>2, <3>3, <3>4
  <2>8. ClosedTrue(t, w)
    BY <1>1, <1>3, <2>4, <2>5, <2>7 DEF ClosedTrue, q
  <2>. QED  BY <1>2, <1>3, <1>8, <2>2, <2>8 DEF w, n, o, q, t
<1>. QED  BY <1>2, <1>3, <1>7, <1>8

(* Two spans cannot lead to one state: an episode that ends here is the    *)
(* one that is open.                                                       *)
LEMMA EndsTheOpen ==
  ASSUME NEW m \in Seq(StructuralEdges), NEW e \in StructuralEdges, NEW s, NEW quiet,
         EpisodeFollows(s, quiet, m), NEW o \in 1..(Len(m) + 1),
         IsSpan(PolicyTable(Append(m, e)), o, Len(m) + 1)
  PROVE  /\ s # NoSpan /\ s.open = o /\ quiet + 1 >= DriftWindow
         /\ ~ Loud(PolicyTable(Append(m, e)), Len(m) + 1)
<1> DEFINE w == Append(m, e)
           n == Len(m)
           p == PolicyTable(m)
           q == PolicyTable(w)
<1>1. /\ n \in Nat
      /\ \A k \in 1..n : q[k] = p[k] /\ (Loud(q, k) <=> Loud(p, k))
      /\ \A k \in 0..n : QuietFor(q, k, DriftWindow) <=> QuietFor(p, k, DriftWindow)
      /\ QuietFor(q, n + 1, DriftWindow) <=>
           ~ Loud(q, n + 1) /\ \A j \in 1..n : j > n + 1 - DriftWindow => ~ Loud(p, j)
  BY NextEdge
<1>2. DriftWindow \in Nat \ {0}
  BY StructuralAssumption
<1>3. o \in 1..(n + 1) /\ IsSpan(q, o, n + 1)
  OBVIOUS
<1>4. s = NoSpan => QuietFor(p, n, DriftWindow)
  BY DEF EpisodeFollows
<1>5. s # NoSpan => /\ s.open \in 1..n /\ OpenSince(p, s.open, n) /\ quiet \in 0..(DriftWindow - 1)
                    /\ s.peak = n - quiet /\ s.peak >= s.open /\ LastLoud(p, s.peak, n)
  BY DEF EpisodeFollows, OpenTrue
<1> HIDE DEF w, n, p, q
<1>6. /\ o <= n + 1 - DriftWindow /\ Loud(p, o) /\ QuietFor(p, o - 1, DriftWindow)
      /\ ~ Loud(q, n + 1) /\ (\A j \in 1..n : j > n + 1 - DriftWindow => ~ Loud(p, j))
      /\ \A k \in (o + DriftWindow)..n : ~ QuietFor(p, k, DriftWindow)
  <2>1. o <= n + 1 - DriftWindow /\ Loud(q, o) /\ QuietFor(q, o - 1, DriftWindow)
        /\ QuietFor(q, n + 1, DriftWindow)
        /\ \A k \in (o + DriftWindow)..n : ~ QuietFor(q, k, DriftWindow)
    <3> DEFINE c == n + 1
    <3>1. IsSpan(q, o, c) /\ n = c - 1 /\ c = n + 1
      BY <1>1, <1>3
    <3> HIDE DEF c
    <3>2. o <= c - DriftWindow /\ Loud(q, o) /\ QuietFor(q, o - 1, DriftWindow)
          /\ QuietFor(q, c, DriftWindow)
          /\ \A k \in (o + DriftWindow)..(c - 1) : ~ QuietFor(q, k, DriftWindow)
      BY <3>1 DEF IsSpan
    <3>3. \A k \in (o + DriftWindow)..n : ~ QuietFor(q, k, DriftWindow)
      BY <3>1, <3>2
    <3>4. o <= n + 1 - DriftWindow
      BY <1>1, <1>2, <3>1, <3>2
    <3>5. Loud(q, o)
      BY <3>2
    <3>6. QuietFor(q, o - 1, DriftWindow)
      BY <3>2
    <3>7. QuietFor(q, n + 1, DriftWindow)
      BY <3>1, <3>2
    <3>. QED  BY <3>3, <3>4, <3>5, <3>6, <3>7
  <2>2. o \in 1..n /\ o - 1 \in 0..n /\ \A k \in (o + DriftWindow)..n : k \in 0..n
    BY <1>1, <1>2, <1>3, <2>1
  <2>. QED  BY <1>1, <2>1, <2>2
<1>7. \A k \in 0..n : QuietFor(p, k, DriftWindow) <=> \A j \in 1..k : j > k - DriftWindow => ~ Loud(p, j)
  BY <1>1, <1>2, QuietMeans
<1>8. s # NoSpan
  <2> SUFFICES ASSUME QuietFor(p, n, DriftWindow) PROVE FALSE
    BY <1>4
  <2>1. CASE n >= o + DriftWindow
    BY <1>1, <1>2, <1>3, <1>6, <2>1
  <2>2. CASE n < o + DriftWindow
    <3>1. o \in 1..n /\ o > n - DriftWindow /\ n \in 0..n
      BY <1>1, <1>2, <1>3, <1>6, <2>2
    <3>. QED  BY <1>6, <1>7, <3>1
  <2>. QED  BY <1>1, <1>2, <1>3, <2>1, <2>2
<1> DEFINE x == s.open
<1>9. x \in 1..n /\ Loud(p, x) /\ QuietFor(p, x - 1, DriftWindow)
      /\ \A k \in (x + DriftWindow)..n : ~ QuietFor(p, k, DriftWindow)
  BY <1>5, <1>8 DEF OpenSince
<1> HIDE DEF x
<1>10. ASSUME NEW u \in 1..n, NEW v \in 1..n, u < v, Loud(p, u), QuietFor(p, v - 1, DriftWindow),
              \A k \in (u + DriftWindow)..n : ~ QuietFor(p, k, DriftWindow)
       PROVE  FALSE
  <2>1. v - 1 \in 0..n /\ u \in 1..(v - 1)
    BY <1>1, <1>10
  <2>2. v - 1 < u + DriftWindow
    BY <1>1, <1>2, <1>10, <2>1
  <2>3. u > (v - 1) - DriftWindow
    BY <1>1, <1>2, <2>2
  <2>. QED  BY <1>7, <1>10, <2>1, <2>3
<1>11. x = o
  <2>1. o \in 1..n
    BY <1>1, <1>2, <1>3, <1>6
  <2>2. ~(x < o) /\ ~(o < x)
    BY <1>6, <1>9, <1>10, <2>1
  <2>. QED  BY <1>9, <2>1, <2>2
<1>12. quiet + 1 >= DriftWindow
  <2>1. s.peak \in 1..n /\ Loud(p, s.peak)
    BY <1>1, <1>2, <1>5, <1>8 DEF LastLoud
  <2>2. ~(s.peak > n + 1 - DriftWindow)
    BY <1>6, <2>1
  <2>. QED  BY <1>1, <1>2, <1>5, <1>8, <2>1, <2>2
<1>. QED  BY <1>6, <1>8, <1>11, <1>12 DEF x, n, w, q

-----------------------------------------------------------------------------
(* The policies at the edge that is fed. *)
LEMMA MaxAdds ==
  ASSUME NEW b \in 0..3, NEW V \in SUBSET (0..3)
  PROVE  LET x == Max({b} \cup V)
         IN  x \in 0..3 /\ x >= b /\ (\A v \in V : x >= v) /\ (x = b \/ x \in V) /\ (V = {} => x = b)
<1> DEFINE S == {b} \cup V
<1>1. S \in SUBSET (0..3) /\ S # {}
  OBVIOUS
<1>2. Max(S) \in S /\ \A x \in S : Max(S) >= x
  <2> HIDE DEF S
  <2>. QED  BY <1>1, MaxOfFew
<1>. QED  BY <1>1, <1>2

(* An axis the edge does not move keeps its policy.                        *)
LEMMA Unmoved ==
  ASSUME NEW m \in Seq(StructuralEdges), NEW e \in StructuralEdges, NEW a \in Axes, a \notin DOMAIN e
  PROVE  PolicyTable(Append(m, e))[Len(m) + 1][a] = IF Len(m) = 0 THEN Silent ELSE PolicyTable(m)[Len(m)][a]
<1> DEFINE w == Append(m, e)
           n == Len(m)
<1>1. n \in Nat /\ n \in 0..n /\ (\A k \in 1..n : w[k] = m[k]) /\ DOMAIN m = 1..n
  BY OneMore
<1>2. PolicyTable(w)[n + 1][a] = PolicyOf(w, a, n + 1)
  BY TableGrows
<1>3. Moves(w, a, n + 1) = Moves(m, a, n)
  <2>1. Moves(w, a, n + 1) = Moves(m, a, n) \cup {}
    <3>1. Moves(w, a, n + 1) = Moves(m, a, n) \cup (IF a \in DOMAIN e THEN {n + 1} ELSE {})
      BY MovesGrow
    <3> HIDE DEF w, n
    <3>. QED  BY <3>1
  <2>. QED  BY <2>1
<1>4. CalibratedBy(w, a, n + 1) <=> CalibratedBy(m, a, n)
  BY CalibratedGrows
<1>5. CalibratedBy(m, a, n) => Max(Moves(m, a, n)) \in 1..n
  BY <1>1, PolicyType
<1> HIDE DEF w, n
<1>6. PolicyOf(w, a, n + 1) = PolicyOf(m, a, n)
  BY <1>1, <1>3, <1>4, <1>5 DEF PolicyOf
<1>7. CASE n = 0
  <2>1. ~ CalibratedBy(m, a, n)
    BY <1>5, <1>7
  <2>. QED  BY <1>2, <1>6, <1>7, <2>1 DEF PolicyOf, w, n
<1>8. CASE n # 0
  <2>1. n \in DOMAIN m
    BY <1>1, <1>8
  <2>2. PolicyTable(m)[n][a] = PolicyOf(m, a, n)
    BY <2>1 DEF PolicyTable
  <2>. QED  BY <1>2, <1>6, <1>8, <2>2 DEF w, n
<1>. QED  BY <1>7, <1>8

Raised(m, k) == {PolicyTable(m)[k][a] : a \in MovedTo(m, k, Review)}

(* What opens an episode is an axis the edge moved.                        *)
LEMMA OpeningHighest ==
  ASSUME NEW m \in Seq(StructuralEdges), NEW e \in StructuralEdges,
         QuietFor(PolicyTable(m), Len(m), DriftWindow),
         Loud(PolicyTable(Append(m, e)), Len(m) + 1)
  PROVE  LET w == Append(m, e)
             n == Len(m)
             policy == Max({Review} \cup Raised(w, n + 1))
         IN  /\ MovedTo(w, n + 1, Review) # {} /\ policy \in 0..3
             /\ HighestOf(w, MovedTo(w, n + 1, Review), policy, n + 1, n + 1)
<1> DEFINE w == Append(m, e)
           n == Len(m)
           p == PolicyTable(m)
           q == PolicyTable(w)
           N == n + 1
           fresh == MovedTo(w, N, Review)
           policy == Max({Review} \cup Raised(w, N))
<1>1. n \in Nat /\ N \in Nat /\ w[N] = e /\ \A a \in Axes : q[N][a] \in 0..3
  BY OneMore, TableGrows
<1>2. \A a \in Axes : a \notin DOMAIN e => q[N][a] = IF n = 0 THEN Silent ELSE p[n][a]
  BY Unmoved
<1>3. DriftWindow \in Nat \ {0} /\ DOMAIN e \subseteq Axes
  BY StructuralAssumption, EdgeType
<1>4. fresh = {a \in DOMAIN e : q[N][a] >= Review}
  BY <1>1 DEF MovedTo
<1>5. Raised(w, N) = {q[N][a] : a \in fresh}
  BY DEF Raised
<1>6. QuietFor(p, n, DriftWindow) /\ Loud(q, N)
  OBVIOUS
<1> HIDE DEF w, n, p, q, N, fresh
<1>7. n # 0 => \A a \in Axes : ~(p[n][a] >= Review)
  <2>1. \A j \in 1..n : j > n - DriftWindow => ~ Loud(p, j)
    BY <1>1, <1>3, <1>6, QuietMeans
  <2>2. n # 0 => n \in 1..n /\ n > n - DriftWindow
    BY <1>1, <1>3
  <2>. QED  BY <2>1, <2>2 DEF Loud
<1>8. \A a \in Axes : q[N][a] >= Review => a \in fresh
  BY <1>1, <1>2, <1>4, <1>7 DEF Silent, Review
<1>9. fresh # {} /\ fresh \subseteq Axes
  BY <1>3, <1>4, <1>6, <1>8 DEF Loud
<1>10. Review \in 0..3 /\ Raised(w, N) \in SUBSET (0..3)
  BY <1>1, <1>5, <1>9 DEF Review
<1>11. policy \in 0..3 /\ policy >= Review /\ (\A v \in Raised(w, N) : policy >= v)
       /\ (policy = Review \/ policy \in Raised(w, N))
  BY <1>10, MaxAdds
<1> HIDE DEF policy
<1>12. \E a \in fresh : q[N][a] = policy
  <2>1. CASE policy \in Raised(w, N)
    BY <1>5, <2>1
  <2>2. CASE policy = Review
    <3>1. PICK a \in fresh : TRUE
      BY <1>9
    <3>2. q[N][a] >= Review /\ policy >= q[N][a] /\ q[N][a] \in 0..3
      BY <1>1, <1>4, <1>5, <1>9, <1>11, <3>1
    <3>. QED  BY <2>2, <3>2 DEF Review
  <2>. QED  BY <1>11, <2>1, <2>2
<1>13. \A a \in Axes : q[N][a] <= policy
  <2> TAKE a \in Axes
  <2>1. CASE a \in fresh
    BY <1>1, <1>5, <1>11, <2>1
  <2>2. CASE a \notin fresh
    BY <1>1, <1>8, <1>11, <2>2 DEF Review
  <2>. QED  BY <2>1, <2>2
<1>14. HighestOf(w, fresh, policy, N, N)
  <2>1. \A k \in N..N : k = N
    BY <1>1
  <2>2. N \in N..N
    BY <1>1
  <2>. QED  BY <1>12, <1>13, <2>1, <2>2 DEF HighestOf, q
<1>. QED  BY <1>9, <1>11, <1>14 DEF fresh, N, n, w, policy

(* What an episode in progress has reached stays reached.                  *)
LEMMA OngoingHighest ==
  ASSUME NEW m \in Seq(StructuralEdges), NEW e \in StructuralEdges, NEW s, NEW quiet, OpenTrue(s, quiet, m)
  PROVE  LET w == Append(m, e)
             n == Len(m)
             policy == Max({s.policy} \cup Raised(w, n + 1))
         IN  /\ policy \in 0..3
             /\ HighestOf(w, s.axes \cup MovedTo(w, n + 1, Review), policy, s.open, n + 1)
<1> DEFINE w == Append(m, e)
           n == Len(m)
           p == PolicyTable(m)
           q == PolicyTable(w)
           N == n + 1
           o == s.open
           fresh == MovedTo(w, N, Review)
           policy == Max({s.policy} \cup Raised(w, N))
<1>1. n \in Nat /\ N \in Nat /\ N = n + 1 /\ w[N] = e /\ (\A a \in Axes : q[N][a] \in 0..3)
      /\ \A k \in 1..n : q[k] = p[k]
  BY OneMore, TableGrows
<1>2. \A a \in Axes : a \notin DOMAIN e => q[N][a] = IF n = 0 THEN Silent ELSE p[n][a]
  BY Unmoved
<1>3. DOMAIN e \subseteq Axes
  BY EdgeType
<1>4. fresh = {a \in DOMAIN e : q[N][a] >= Review}
  BY <1>1 DEF MovedTo
<1>5. Raised(w, N) = {q[N][a] : a \in fresh}
  BY DEF Raised
<1>6. s.policy \in 0..3 /\ o \in 1..n /\ Loud(p, o) /\ HighestOf(m, s.axes, s.policy, o, n)
  BY DEF OpenTrue, OpenSpans, OpenSince
<1> HIDE DEF w, n, q, N, o, fresh
<1>7. Raised(w, N) \in SUBSET (0..3)
  BY <1>1, <1>3, <1>4, <1>5
<1>8. policy \in 0..3 /\ policy >= s.policy /\ (\A v \in Raised(w, N) : policy >= v)
      /\ (policy = s.policy \/ policy \in Raised(w, N))
  BY <1>6, <1>7, MaxAdds
<1> HIDE DEF policy
<1>9. /\ \E a \in s.axes, k \in o..n : p[k][a] = s.policy
      /\ \A a \in Axes, k \in o..n : p[k][a] <= s.policy
  BY <1>6 DEF HighestOf
<1> HIDE DEF p
<1>10. \A k \in o..n : k \in 1..n /\ k \in o..N
  BY <1>1, <1>6
<1>11. N \in o..N /\ \A k \in o..N : k = N \/ k \in o..n
  BY <1>1, <1>6
<1>12. \E a \in s.axes \cup fresh, k \in o..N : q[k][a] = policy
  <2>1. CASE policy \in Raised(w, N)
    BY <1>5, <1>11, <2>1
  <2>2. CASE policy = s.policy
    BY <1>1, <1>9, <1>10, <2>2
  <2>. QED  BY <1>8, <2>1, <2>2
<1>13. PICK b \in Axes : p[o][b] >= Review
  BY <1>6 DEF Loud
<1>14. s.policy >= Review
  <2>1. p[o][b] <= s.policy
    BY <1>1, <1>6, <1>9
  <2>2. p[o][b] \in 0..3
    <3>1. p[o][b] = q[o][b] /\ o \in 1..(n + 1)
      BY <1>1, <1>6
    <3>. QED  BY <3>1, TableGrows DEF q, w, n
  <2>. QED  BY <1>6, <1>13, <2>1, <2>2 DEF Review
<1>15. ASSUME NEW a \in Axes PROVE q[N][a] <= policy
  <2>1. CASE a \in fresh
    BY <1>1, <1>5, <1>8, <2>1
  <2>2. CASE a \in DOMAIN e /\ a \notin fresh
    BY <1>1, <1>4, <1>6, <1>8, <1>14, <2>2 DEF Review
  <2>3. CASE a \notin DOMAIN e
    <3>1. n # 0 /\ n \in o..n
      BY <1>1, <1>6
    <3>2. q[N][a] = p[n][a]
      BY <1>2, <2>3, <3>1
    <3>3. p[n][a] <= s.policy
      BY <1>9, <3>1
    <3>4. p[n][a] \in 0..3
      BY <1>1, <3>2
    <3>. QED  BY <1>6, <1>8, <3>2, <3>3, <3>4
  <2>. QED  BY <2>1, <2>2, <2>3
<1>16. ASSUME NEW a \in Axes, NEW k \in o..n PROVE q[k][a] <= policy
  <2>1. q[k][a] = p[k][a] /\ p[k][a] <= s.policy
    BY <1>1, <1>9, <1>10
  <2>2. q[k][a] \in 0..3
    <3>1. k \in 1..(n + 1)
      BY <1>1, <1>10
    <3>. QED  BY <3>1, TableGrows DEF q, w, n
  <2>. QED  BY <1>6, <1>8, <2>1, <2>2
<1>17. HighestOf(w, s.axes \cup fresh, policy, o, N)
  BY <1>11, <1>12, <1>15, <1>16 DEF HighestOf, q
<1>. QED  BY <1>8, <1>17 DEF fresh, N, n, w, policy, o

-----------------------------------------------------------------------------
(* The substrate of a root after the edges m. *)
SubstrateType ==
  [fed : BOOLEAN, ordinal : Nat, streams : [Axes -> StreamType], open : {NoSpan} \cup OpenSpans, quiet : Nat]

SubstrateFollows(sub, m) ==
  /\ sub \in SubstrateType /\ sub.ordinal = Len(m) /\ (sub.fed <=> m # <<>>)
  /\ \A a \in Axes : StreamFollows(sub.streams[a], m, a)
  /\ EpisodeFollows(sub.open, sub.quiet, m)

(* Before any edge. *)
LEMMA SubstrateStarts == SubstrateFollows(NewSubstrate, <<>>)
<1> DEFINE m == <<>>
<1>1. m = <<>> /\ Len(m) = 0 /\ m \in Seq(StructuralEdges)
  OBVIOUS
<1>2. ASSUME NEW a \in Axes PROVE StreamFollows(NewStream, m, a)
  <2>1. Moves(m, a, 0) = {}
    BY DEF Moves
  <2>2. Cardinality(Moves(m, a, 0)) = 0
    BY <2>1, FS_EmptySet
  <2>3. ~ CalibratedBy(m, a, 0)
    BY <2>1 DEF CalibratedBy
  <2>4. ValuesOf(m, a, 0) = {}
    BY <2>1 DEF ValuesOf
  <2>5. Len(NewStream.calib) = 0 /\ ToSet(NewStream.calib) = {} /\ NewStream.sticky = Silent
        /\ NewStream.mode = "calibrating"
    BY DEF ToSet, NewStream
  <2>6. NewStream \in StreamType
    BY DEF NewStream, StreamType, Silent
  <2> HIDE DEF m
  <2>. QED  BY <1>1, <2>2, <2>3, <2>4, <2>5, <2>6, CalibrationLength DEF StreamFollows
<1>3. EpisodeFollows(NoSpan, 0, m)
  <2>1. DriftWindow \in Nat \ {0}
    BY StructuralAssumption
  <2>2. QuietFor(PolicyTable(m), 0, DriftWindow) <=> \A j \in 1..0 : j > 0 - DriftWindow => ~ Loud(PolicyTable(m), j)
    BY <2>1, QuietMeans
  <2> HIDE DEF m
  <2>. QED  BY <1>1, <2>2 DEF EpisodeFollows
<1>4. NewSubstrate \in SubstrateType /\ NewSubstrate.ordinal = 0 /\ ~ NewSubstrate.fed
      /\ NewSubstrate.open = NoSpan /\ NewSubstrate.quiet = 0
      /\ NewSubstrate.streams = [a \in Axes |-> NewStream]
  BY DEF NewSubstrate, SubstrateType, NewStream, StreamType, Silent
<1> HIDE DEF m
<1>5. SubstrateFollows(NewSubstrate, m)
  BY <1>1, <1>2, <1>3, <1>4 DEF SubstrateFollows
<1>. QED  BY <1>5 DEF m

(* What an edge e, the last of m, did to an episode. *)
ClosesTrue(before, after, m) ==
  LET s == ClosedAt(before, after)
  IN  /\ s # NoSpan => ClosedTrue(s, m)
      /\ \A o \in 1..Len(m) : IsSpan(PolicyTable(m), o, Len(m)) => s # NoSpan /\ s.open = o /\ s.close = Len(m)

(* What a loud edge makes of an episode, field by field. *)
StickyOf(sub, axes) == {sub.streams[a].sticky : a \in axes}

Ongoing(f, n, st, o, k, axes, policy, quiet) ==
  [fed |-> f, ordinal |-> n, streams |-> st,
   open |-> [open |-> o, peak |-> k, axes |-> axes, policy |-> policy], quiet |-> quiet]

LEMMA Prolonged ==
  ASSUME NEW mid, NEW e, NEW f, NEW n, NEW st, NEW o, NEW k, NEW axes, NEW policy, NEW quiet,
         mid = Ongoing(f, n, st, o, k, axes, policy, quiet)
  PROVE  Continue(mid, e) = Ongoing(f, n, st, o, n, axes \cup At(Review, mid, e),
                                    Max({policy} \cup StickyOf(mid, At(Review, mid, e))), 0)
<1> DEFINE fresh == At(Review, mid, e)
           raised == StickyOf(mid, fresh)
           a == [mid EXCEPT !.quiet = 0]
           b == [a EXCEPT !.open.peak = n]
           c == [b EXCEPT !.open.axes = @ \cup fresh]
           d == [c EXCEPT !.open.policy = Max({@} \cup raised)]
<1> HIDE DEF fresh, raised
<1>1. a = Ongoing(f, n, st, o, k, axes, policy, 0)
  BY DEF Ongoing
<1>2. b = Ongoing(f, n, st, o, n, axes, policy, 0)
  <2> HIDE DEF a
  <2>. QED  BY ONLY <1>1 DEF Ongoing
<1>3. c = Ongoing(f, n, st, o, n, axes \cup fresh, policy, 0)
  <2> HIDE DEF b
  <2>. QED  BY ONLY <1>2 DEF Ongoing
<1>4. d = Ongoing(f, n, st, o, n, axes \cup fresh, Max({policy} \cup raised), 0)
  <2> HIDE DEF c
  <2>. QED  BY ONLY <1>3 DEF Ongoing
<1>5. Continue(mid, e) = d
  <2>1. mid.ordinal = n
    BY DEF Ongoing
  <2>2. fresh = At(Review, mid, e) /\ raised = {mid.streams[x].sticky : x \in fresh}
    BY DEF fresh, raised, StickyOf
  <2>3. Continue(mid, e) = [mid EXCEPT !.quiet = 0, !.open.peak = n, !.open.axes = @ \cup fresh,
                                       !.open.policy = Max({@} \cup raised)]
    <3> HIDE DEF d
    <3>. QED  BY ONLY <2>1, <2>2 DEF Continue
  <2>. QED  BY <2>3 DEF Ongoing
<1> HIDE DEF d
<1>. QED  BY <1>4, <1>5 DEF fresh, raised

LEMMA EpisodeAdvances ==
  ASSUME NEW m \in Seq(StructuralEdges), NEW e \in StructuralEdges,
         NEW sub \in SubstrateType, EpisodeFollows(sub.open, sub.quiet, m),
         NEW mid \in SubstrateType, mid.ordinal = Len(m) + 1, mid.open = sub.open, mid.quiet = sub.quiet,
         \A a \in Axes : mid.streams[a].sticky = PolicyTable(Append(m, e))[Len(m) + 1][a]
  PROVE  LET w == Append(m, e)
             t == AdvanceEpisode(mid, e)
         IN  /\ t \in SubstrateType /\ t.ordinal = mid.ordinal /\ t.fed = mid.fed /\ t.streams = mid.streams
             /\ EpisodeFollows(t.open, t.quiet, w) /\ ClosesTrue(sub, t, w)
<1> DEFINE w == Append(m, e)
           n == Len(m)
           N == n + 1
           p == PolicyTable(m)
           q == PolicyTable(w)
           t == AdvanceEpisode(mid, e)
           fresh == MovedTo(w, N, Review)
           raised == Raised(w, N)
<1>1. /\ n \in Nat /\ Len(w) = N /\ N = n + 1
      /\ QuietFor(q, N, DriftWindow) <=>
           ~ Loud(q, N) /\ \A j \in 1..n : j > n + 1 - DriftWindow => ~ Loud(p, j)
      /\ fresh \in SUBSET Axes
      /\ ~ Loud(q, N) => fresh = {}
      /\ QuietFor(q, N, DriftWindow) => ~ Loud(q, N)
  BY NextEdge
<1>2. DriftWindow \in Nat \ {0} /\ w[N] = e /\ DOMAIN e \subseteq Axes
      /\ NoSpan \notin OpenSpans /\ NoSpan \notin ClosedSpans
  BY StructuralAssumption, EdgeType, OneMore DEF OpenSpans, ClosedSpans
<1>3. \A a \in Axes : mid.streams[a].sticky = q[N][a]
  OBVIOUS
<1>4. At(Review, mid, e) = fresh
  BY <1>2, <1>3 DEF At, MovedTo
<1>5. Active(mid, e) <=> Loud(q, N)
  BY <1>3 DEF Active, Loud
<1>6. {mid.streams[a].sticky : a \in fresh} = raised
  BY <1>1, <1>3 DEF Raised
<1>7. mid = [fed |-> mid.fed, ordinal |-> mid.ordinal, streams |-> mid.streams, open |-> sub.open, quiet |-> sub.quiet]
      /\ mid.ordinal = N /\ sub.open \in {NoSpan} \cup OpenSpans /\ sub.quiet \in Nat /\ mid.fed \in BOOLEAN
      /\ mid.streams \in [Axes -> StreamType]
  BY DEF SubstrateType
<1>8. sub.open = NoSpan => QuietFor(p, n, DriftWindow)
  BY DEF EpisodeFollows
<1>9. sub.open # NoSpan => OpenTrue(sub.open, sub.quiet, m)
  BY DEF EpisodeFollows
<1>10. ASSUME NEW o \in 1..N, IsSpan(q, o, N)
       PROVE  sub.open # NoSpan /\ sub.open.open = o /\ sub.quiet + 1 >= DriftWindow /\ ~ Loud(q, N)
  <2>1. EpisodeFollows(sub.open, sub.quiet, m) /\ o \in 1..(Len(m) + 1) /\ IsSpan(PolicyTable(Append(m, e)), o, Len(m) + 1)
    BY <1>10
  <2>. QED  BY <2>1, EndsTheOpen
<1> DEFINE Made(open, quiet) == [fed |-> mid.fed, ordinal |-> N, streams |-> mid.streams, open |-> open, quiet |-> quiet]
<1>11. ASSUME NEW open, NEW quiet \in Nat, t = Made(open, quiet), EpisodeFollows(open, quiet, w),
              open = NoSpan \/ open \in OpenSpans, ClosesTrue(sub, t, w)
       PROVE  /\ t \in SubstrateType /\ t.ordinal = mid.ordinal /\ t.fed = mid.fed /\ t.streams = mid.streams
              /\ EpisodeFollows(t.open, t.quiet, w) /\ ClosesTrue(sub, t, w)
  <2> HIDE DEF t, w
  <2>. QED  BY <1>1, <1>7, <1>11 DEF SubstrateType
<1> HIDE DEF w, n, N, p, q, fresh, raised
<1>12. ASSUME sub.open = NoSpan, ~ Loud(q, N)
       PROVE  t = Made(NoSpan, 0) /\ EpisodeFollows(NoSpan, 0, w) /\ ClosesTrue(sub, t, w)
  <2>1. t = Made(NoSpan, 0)
    BY <1>5, <1>7, <1>12 DEF AdvanceEpisode, OpenOrStay
  <2>2. \A j \in 1..n : j > n - DriftWindow => ~ Loud(p, j)
    BY <1>1, <1>2, <1>8, <1>12, QuietMeans
  <2>3. \A j \in 1..n : j > n + 1 - DriftWindow => j > n - DriftWindow
    BY <1>1, <1>2
  <2>4. QuietFor(q, N, DriftWindow)
    BY <1>1, <1>12, <2>2, <2>3
  <2>5. EpisodeFollows(NoSpan, 0, w)
    BY <1>1, <2>4 DEF EpisodeFollows, q
  <2>6. ClosedAt(sub, t) = NoSpan
    BY <1>12 DEF ClosedAt
  <2>. QED  BY <1>1, <1>10, <1>12, <2>1, <2>5, <2>6 DEF ClosesTrue, q
<1>13. ASSUME sub.open = NoSpan, Loud(q, N)
       PROVE  \E s \in OpenSpans : t = Made(s, 0) /\ EpisodeFollows(s, 0, w) /\ ClosesTrue(sub, t, w)
  <2> DEFINE policy == Max({Review} \cup raised)
             s == [open |-> N, peak |-> N, axes |-> fresh, policy |-> policy]
  <2>1. QuietFor(PolicyTable(m), Len(m), DriftWindow) /\ Loud(PolicyTable(Append(m, e)), Len(m) + 1)
    BY <1>8, <1>13 DEF p, q, w, n, N
  <2>2. fresh # {} /\ policy \in 0..3 /\ HighestOf(w, fresh, policy, N, N)
    BY <2>1, OpeningHighest DEF w, n, N, fresh, raised
  <2> HIDE DEF policy
  <2>3. OpenTrue(s, 0, w)
    BY <2>1, <2>2, Opens DEF w, n, N, fresh
  <2>4. s \in OpenSpans /\ s # NoSpan
    BY <1>2, <2>3 DEF OpenTrue
  <2>5. t = Made(s, 0)
    BY <1>4, <1>5, <1>6, <1>7, <1>13 DEF AdvanceEpisode, OpenOrStay, policy
  <2> HIDE DEF s
  <2>6. EpisodeFollows(s, 0, w)
    BY <2>3, <2>4 DEF EpisodeFollows
  <2>7. ClosedAt(sub, t) = NoSpan
    BY <1>13 DEF ClosedAt
  <2>8. ClosesTrue(sub, t, w)
    BY <1>1, <1>10, <1>13, <2>7 DEF ClosesTrue, q
  <2>. QED  BY <2>4, <2>5, <2>6, <2>8
<1>14. ASSUME sub.open # NoSpan, Loud(q, N)
       PROVE  \E s \in OpenSpans : t = Made(s, 0) /\ EpisodeFollows(s, 0, w) /\ ClosesTrue(sub, t, w)
  <2> DEFINE policy == Max({sub.open.policy} \cup raised)
             s == [open |-> sub.open.open, peak |-> N, axes |-> sub.open.axes \cup fresh, policy |-> policy]
  <2>1. OpenTrue(sub.open, sub.quiet, m) /\ Loud(PolicyTable(Append(m, e)), Len(m) + 1)
    BY <1>9, <1>14 DEF q, w, n, N
  <2>2. policy \in 0..3 /\ HighestOf(w, sub.open.axes \cup fresh, policy, sub.open.open, N)
    BY <2>1, OngoingHighest DEF w, n, N, fresh, raised
  <2> HIDE DEF policy
  <2>3. OpenTrue(s, 0, w)
    BY <2>1, <2>2, Prolongs DEF w, n, N, fresh
  <2>4. s \in OpenSpans /\ s # NoSpan
    BY <1>2, <2>3 DEF OpenTrue
  <2>5. sub.open = [open |-> sub.open.open, peak |-> sub.open.peak, axes |-> sub.open.axes, policy |-> sub.open.policy]
    BY <1>7, <1>14 DEF OpenSpans
  <2>6. t = Continue(mid, e)
    BY <1>5, <1>7, <1>14 DEF AdvanceEpisode
  <2>7. t = Made(s, 0)
    <3>1. mid = Ongoing(mid.fed, N, mid.streams, sub.open.open, sub.open.peak, sub.open.axes, sub.open.policy, sub.quiet)
      BY <1>7, <2>5 DEF Ongoing
    <3>2. StickyOf(mid, fresh) = raised
      BY <1>6 DEF StickyOf
    <3>3. Continue(mid, e) =
            Ongoing(mid.fed, N, mid.streams, sub.open.open, N, sub.open.axes \cup At(Review, mid, e),
                    Max({sub.open.policy} \cup StickyOf(mid, At(Review, mid, e))), 0)
      BY ONLY <3>1, Prolonged
    <3> HIDE DEF t
    <3>. QED  BY <1>4, <2>6, <3>2, <3>3 DEF policy, Ongoing
  <2> HIDE DEF s
  <2>8. EpisodeFollows(s, 0, w)
    BY <2>3, <2>4 DEF EpisodeFollows
  <2>9. ClosedAt(sub, t) = NoSpan
    BY <2>4, <2>7 DEF ClosedAt
  <2>10. ClosesTrue(sub, t, w)
    BY <1>1, <1>10, <1>14, <2>9 DEF ClosesTrue, q
  <2>. QED  BY <2>4, <2>7, <2>8, <2>10
<1>15. ASSUME sub.open # NoSpan, ~ Loud(q, N)
       PROVE  \E s \in {NoSpan} \cup OpenSpans, quiet \in Nat :
                t = Made(s, quiet) /\ EpisodeFollows(s, quiet, w) /\ ClosesTrue(sub, t, w)
  <2> DEFINE s == sub.open
             quiet == sub.quiet
  <2>1. OpenTrue(s, quiet, m) /\ ~ Loud(PolicyTable(Append(m, e)), Len(m) + 1)
    BY <1>9, <1>15 DEF q, w, n, N
  <2>2. HighestOf(w, s.axes, s.policy, s.open, N)
    <3>1. fresh = {} /\ raised = {}
      BY <1>1, <1>15, <1>6
    <3>2. s.policy \in 0..3
      BY <2>1 DEF OpenTrue, OpenSpans
    <3>3. Max({s.policy} \cup raised) = s.policy
      BY <3>1, <3>2, MaxAdds
    <3>4. s.axes \cup fresh = s.axes
      BY <3>1
    <3>5. HighestOf(w, s.axes \cup fresh, Max({s.policy} \cup raised), s.open, N)
      BY <2>1, OngoingHighest DEF w, n, N, fresh, raised
    <3>. QED  BY <3>3, <3>4, <3>5
  <2>3. HighestOf(Append(m, e), s.axes, s.policy, s.open, Len(m) + 1)
    BY <2>2 DEF w, n, N
  <2> DEFINE c == [open |-> s.open, close |-> N, peak |-> s.peak, axes |-> s.axes, policy |-> s.policy]
  <2>4. /\ quiet \in Nat
        /\ quiet + 1 < DriftWindow => OpenTrue(s, quiet + 1, w)
        /\ quiet + 1 >= DriftWindow => QuietFor(q, N, DriftWindow) /\ ClosedTrue(c, w)
    BY <2>1, <2>3, Quietens DEF w, n, N, q
  <2>5. s \in OpenSpans /\ s # NoSpan
    BY <1>7, <1>15
  <2>6. t = Quieten(mid)
    BY <1>5, <1>7, <1>15 DEF AdvanceEpisode
  <2>7. CASE quiet + 1 < DriftWindow
    <3>1. ~(quiet + 1 >= DriftWindow)
      BY <1>2, <2>4, <2>7
    <3>2. t = Made(s, quiet + 1)
      BY <1>7, <2>6, <3>1 DEF Quieten
    <3>3. EpisodeFollows(s, quiet + 1, w)
      BY <2>4, <2>5, <2>7 DEF EpisodeFollows
    <3>4. ClosedAt(sub, t) = NoSpan
      BY <2>5, <3>2 DEF ClosedAt
    <3>5. ClosesTrue(sub, t, w)
      BY <1>1, <1>10, <3>1, <3>4 DEF ClosesTrue, q
    <3>6. quiet + 1 \in Nat
      BY <2>4
    <3>. QED  BY <2>5, <3>2, <3>3, <3>5, <3>6
  <2>8. CASE quiet + 1 >= DriftWindow
    <3>1. t = Made(NoSpan, 0)
      BY <1>7, <2>6, <2>8 DEF Quieten
    <3>2. EpisodeFollows(NoSpan, 0, w)
      BY <1>1, <2>4, <2>8 DEF EpisodeFollows, q
    <3>3. ClosedAt(sub, t) = c
      BY <2>5, <3>1 DEF ClosedAt
    <3>4. ClosedTrue(c, w)
      BY <2>4, <2>8
    <3>5. c # NoSpan /\ c.open = s.open /\ c.close = N
      BY <1>2, <3>4 DEF ClosedTrue
    <3> HIDE DEF c
    <3>6. ClosesTrue(sub, t, w)
      BY <1>1, <1>10, <3>3, <3>4, <3>5 DEF ClosesTrue, q
    <3>. QED  BY <3>1, <3>2, <3>6
  <2>. QED  BY <1>2, <2>4, <2>7, <2>8
<1> HIDE DEF t, Made
<1>16. 0 \in Nat
  OBVIOUS
<1>17. \E s \in {NoSpan} \cup OpenSpans, quiet \in Nat :
         t = Made(s, quiet) /\ EpisodeFollows(s, quiet, w) /\ ClosesTrue(sub, t, w)
  BY <1>12, <1>13, <1>14, <1>15, <1>16
<1>18. /\ t \in SubstrateType /\ t.ordinal = mid.ordinal /\ t.fed = mid.fed /\ t.streams = mid.streams
       /\ EpisodeFollows(t.open, t.quiet, w) /\ ClosesTrue(sub, t, w)
  BY <1>11, <1>17
<1>. QED  BY <1>18 DEF w, t

-----------------------------------------------------------------------------
(* One edge is fed. *)
LEMMA NothingFed ==
  ASSUME NEW sub, SubstrateFollows(sub, <<>>), NEW e, DOMAIN e = {}
  PROVE  FeedEdge(sub, e) = sub /\ At(Watch, sub, e) = {}
BY DEF SubstrateFollows, FeedEdge, At

LEMMA EdgeFed ==
  ASSUME NEW m \in Seq(StructuralEdges), NEW e \in StructuralEdges,
         NEW sub, SubstrateFollows(sub, m), m # <<>> \/ DOMAIN e # {}
  PROVE  LET w == Append(m, e)
             t == FeedEdge(sub, e)
         IN  /\ SubstrateFollows(t, w) /\ ClosesTrue(sub, t, w)
             /\ At(Watch, t, e) = MovedTo(w, Len(w), Watch)
<1> DEFINE w == Append(m, e)
           n == Len(m)
           N == n + 1
           q == PolicyTable(w)
           S == [a \in Axes |-> IF a \in DOMAIN e THEN Push(sub.streams[a], e[a]) ELSE sub.streams[a]]
           mid == [sub EXCEPT !.fed = TRUE, !.ordinal = @ + 1, !.streams = S]
           t == FeedEdge(sub, e)
<1>1. n \in Nat /\ Len(w) = N /\ w[N] = e /\ w \in Seq(StructuralEdges) /\ w # <<>>
      /\ DOMAIN e \subseteq Axes
  BY OneMore, EdgeType
<1>2. sub \in SubstrateType /\ sub.ordinal = n /\ EpisodeFollows(sub.open, sub.quiet, m)
      /\ (sub.fed <=> m # <<>>) /\ \A a \in Axes : StreamFollows(sub.streams[a], m, a)
  BY DEF SubstrateFollows
<1>3. ASSUME NEW a \in Axes
      PROVE  StreamFollows(S[a], w, a) /\ S[a].sticky = q[N][a] /\ S[a] \in StreamType
  <2>1. StreamFollows(S[a], w, a)
    <3>1. CASE a \in DOMAIN e
      BY <1>2, <3>1, StreamPushed
    <3>2. CASE a \notin DOMAIN e
      BY <1>2, <3>2, StreamStays
    <3>. QED  BY <3>1, <3>2
  <2> HIDE DEF S
  <2>2. S[a].sticky = PolicyOf(w, a, Len(w))
    BY <2>1, StickyIsPolicy
  <2>3. q[N][a] = PolicyOf(w, a, N)
    BY TableGrows
  <2>4. S[a] \in StreamType
    BY <2>1 DEF StreamFollows
  <2>. QED  BY <1>1, <2>1, <2>2, <2>3, <2>4
<1>4. S \in [Axes -> StreamType]
  BY <1>3
<1>5. t = AdvanceEpisode(mid, e)
  BY <1>2 DEF FeedEdge
<1> HIDE DEF w, n, q, S
<1>6. mid \in SubstrateType /\ mid.ordinal = N /\ mid.fed /\ mid.streams = S /\ mid.open = sub.open /\ mid.quiet = sub.quiet
  <2> DEFINE a == [sub EXCEPT !.fed = TRUE]
             b == [a EXCEPT !.ordinal = @ + 1]
             c == [b EXCEPT !.streams = S]
  <2>1. a \in SubstrateType /\ a.fed /\ a.ordinal = n /\ a.open = sub.open /\ a.quiet = sub.quiet
    BY <1>2 DEF SubstrateType
  <2>2. b \in SubstrateType /\ b.fed /\ b.ordinal = N /\ b.open = sub.open /\ b.quiet = sub.quiet
    <3> HIDE DEF a
    <3>. QED  BY <1>1, <2>1 DEF SubstrateType
  <2>3. c \in SubstrateType /\ c.fed /\ c.ordinal = N /\ c.open = sub.open /\ c.quiet = sub.quiet /\ c.streams = S
    <3> HIDE DEF b
    <3>. QED  BY <1>4, <2>2 DEF SubstrateType
  <2>4. mid = c
    BY <1>2 DEF SubstrateType
  <2> HIDE DEF c, mid
  <2>. QED  BY <2>3, <2>4
<1> HIDE DEF mid, t
<1>7. /\ t \in SubstrateType /\ t.ordinal = mid.ordinal /\ t.fed = mid.fed /\ t.streams = mid.streams
      /\ EpisodeFollows(t.open, t.quiet, w) /\ ClosesTrue(sub, t, w)
  <2>1. \A a \in Axes : mid.streams[a].sticky = PolicyTable(Append(m, e))[Len(m) + 1][a]
    BY <1>3, <1>6 DEF q, w, n
  <2>2. mid.ordinal = Len(m) + 1
    BY <1>6 DEF n
  <2>. QED  BY <1>2, <1>5, <1>6, <2>1, <2>2, EpisodeAdvances DEF w
<1>8. SubstrateFollows(t, w)
  BY <1>1, <1>3, <1>6, <1>7 DEF SubstrateFollows
<1>9. At(Watch, t, e) = MovedTo(w, Len(w), Watch)
  BY <1>1, <1>3, <1>6, <1>7 DEF At, MovedTo, q
<1>. QED  BY <1>7, <1>8, <1>9 DEF w, t

(* The edges since the first that moved an axis. *)
Since(E) == SubSeq(E, Min({k \in DOMAIN E : DOMAIN E[k] # {}} \cup {Len(E) + 1}), Len(E))

LEMMA FirstMove ==
  ASSUME NEW E \in Seq(StructuralEdges)
  PROVE  LET f == Min({k \in DOMAIN E : DOMAIN E[k] # {}} \cup {Len(E) + 1})
         IN  /\ f \in 1..(Len(E) + 1) /\ \A k \in 1..Len(E) : k < f => DOMAIN E[k] = {}
             /\ f <= Len(E) => DOMAIN E[f] # {}
<1> DEFINE T == {k \in DOMAIN E : DOMAIN E[k] # {}} \cup {Len(E) + 1}
<1>1. T \subseteq Nat /\ T # {} /\ DOMAIN E = 1..Len(E) /\ Len(E) \in Nat
  OBVIOUS
<1>2. \E k \in T : \A j \in T : k <= j
  <2> HIDE DEF T
  <2>. QED  BY <1>1, LeastNumber
<1>3. Min(T) \in T /\ \A j \in T : Min(T) <= j
  <2> HIDE DEF T
  <2>. QED  BY <1>2 DEF Min
<1> DEFINE f == Min(T)
<1>4. f \in T /\ \A j \in T : f <= j
  BY <1>3
<1> HIDE DEF f
<1>5. f \in 1..(Len(E) + 1)
  BY <1>1, <1>4
<1>6. f <= Len(E) => DOMAIN E[f] # {}
  BY <1>1, <1>4
<1>7. ASSUME NEW k \in 1..Len(E), k < f PROVE DOMAIN E[k] = {}
  <2>1. k \notin T
    BY <1>1, <1>4, <1>5, <1>7
  <2>. QED  BY <1>1, <2>1
<1>. QED  BY <1>5, <1>6, <1>7 DEF f

LEMMA SinceGrows ==
  ASSUME NEW E \in Seq(StructuralEdges), NEW e \in StructuralEdges
  PROVE  /\ Since(E) \in Seq(StructuralEdges)
         /\ Since(E) = <<>> /\ DOMAIN e = {} => Since(Append(E, e)) = <<>>
         /\ Since(E) # <<>> \/ DOMAIN e # {} => Since(Append(E, e)) = Append(Since(E), e)
<1> DEFINE w == Append(E, e)
           n == Len(E)
           f == Min({k \in DOMAIN E : DOMAIN E[k] # {}} \cup {Len(E) + 1})
           g == Min({k \in DOMAIN w : DOMAIN w[k] # {}} \cup {Len(w) + 1})
<1>1. n \in Nat /\ Len(w) = n + 1 /\ w[n + 1] = e /\ (\A k \in 1..n : w[k] = E[k]) /\ w \in Seq(StructuralEdges)
  BY OneMore
<1>2. f \in 1..(n + 1) /\ (\A k \in 1..n : k < f => DOMAIN E[k] = {}) /\ (f <= n => DOMAIN E[f] # {})
  BY FirstMove
<1>3. g \in 1..(n + 2) /\ (\A k \in 1..(n + 1) : k < g => DOMAIN w[k] = {}) /\ (g <= n + 1 => DOMAIN w[g] # {})
  <2>1. g \in 1..(Len(w) + 1) /\ (\A k \in 1..Len(w) : k < g => DOMAIN w[k] = {}) /\ (g <= Len(w) => DOMAIN w[g] # {})
    <3> HIDE DEF w
    <3>. QED  BY <1>1, FirstMove
  <2> HIDE DEF g
  <2>. QED  BY <1>1, <2>1
<1>4. Since(E) = SubSeq(E, f, n) /\ Since(w) = SubSeq(w, g, n + 1)
  BY <1>1 DEF Since
<1> HIDE DEF f, g
<1>5. SubSeq(E, f, n) \in Seq(StructuralEdges) /\ Len(SubSeq(E, f, n)) = n + 1 - f
  BY <1>2
<1>6. SubSeq(w, f, n + 1) = Append(SubSeq(E, f, n), e)
  BY <1>2
<1> HIDE DEF w, n
<1>7. Since(E) = <<>> <=> f = n + 1
  <2> DEFINE m == Since(E)
  <2>1. m \in Seq(StructuralEdges) /\ Len(m) = n + 1 - f
    BY <1>4, <1>5
  <2> HIDE DEF m
  <2>2. m = <<>> <=> Len(m) = 0
    BY <2>1
  <2>3. Len(m) = 0 <=> f = n + 1
    BY <1>1, <1>2, <2>1
  <2>. QED  BY <2>2, <2>3 DEF m
<1>8. CASE f <= n
  <2>1. g = f
    <3>1. ~(g < f)
      BY <1>1, <1>2, <1>3, <1>8
    <3>2. ~(f < g)
      BY <1>1, <1>2, <1>3, <1>8
    <3>. QED  BY <1>1, <1>2, <1>3, <3>1, <3>2
  <2>. QED  BY <1>1, <1>2, <1>4, <1>5, <1>6, <1>7, <1>8, <2>1 DEF w
<1>9. CASE f = n + 1 /\ DOMAIN e # {}
  <2>1. g = n + 1
    <3>1. ~(g < n + 1)
      BY <1>1, <1>2, <1>3, <1>9
    <3>2. ~(n + 1 < g)
      BY <1>1, <1>2, <1>3, <1>9
    <3>. QED  BY <1>1, <1>3, <3>1, <3>2
  <2>. QED  BY <1>4, <1>5, <1>6, <1>9, <2>1 DEF w
<1>10. CASE f = n + 1 /\ DOMAIN e = {}
  <2>1. g = n + 2
    BY <1>1, <1>2, <1>3, <1>10
  <2>2. SubSeq(w, n + 2, n + 1) = <<>>
    <3>1. Len(w) + 1 = n + 2
      BY <1>1
    <3>2. SubSeq(w, Len(w) + 1, Len(w)) = <<>>
      BY <1>1
    <3>. QED  BY <1>1, <3>1, <3>2
  <2>. QED  BY <1>4, <1>5, <1>7, <1>10, <2>1, <2>2 DEF w
<1>11. f <= n \/ f = n + 1
  BY <1>1, <1>2
<1>. QED  BY <1>8, <1>9, <1>10, <1>11

LEMMA SinceNothing == Since(<<>>) = <<>>
<1> DEFINE E == <<>>
<1>1. E \in Seq(StructuralEdges) /\ Len(E) = 0
  OBVIOUS
<1>2. Len(Since(E)) = 0 /\ Since(E) \in Seq(StructuralEdges)
  <2>1. SubSeq(E, 1, 0) = <<>>
    OBVIOUS
  <2> HIDE DEF E
  <2> DEFINE f == Min({k \in DOMAIN E : DOMAIN E[k] # {}} \cup {Len(E) + 1})
  <2>2. f \in 1..(Len(E) + 1)
    BY <1>1, FirstMove
  <2>3. Since(E) = SubSeq(E, f, 0)
    BY <1>1 DEF Since
  <2> HIDE DEF f
  <2>4. f = 1
    BY <1>1, <2>2
  <2>. QED  BY <2>1, <2>3, <2>4
<1>. QED  BY <1>2

(* What the substrate of a root is after one more of its edges.            *)
LEMMA SubstrateFeeds ==
  ASSUME NEW E \in Seq(StructuralEdges), NEW e \in StructuralEdges,
         NEW sub, SubstrateFollows(sub, Since(E))
  PROVE  SubstrateFollows(FeedEdge(sub, e), Since(Append(E, e)))
<1> DEFINE m == Since(E)
<1>1. /\ m \in Seq(StructuralEdges)
      /\ m = <<>> /\ DOMAIN e = {} => Since(Append(E, e)) = <<>>
      /\ m # <<>> \/ DOMAIN e # {} => Since(Append(E, e)) = Append(m, e)
  BY SinceGrows
<1> HIDE DEF m
<1>2. SubstrateFollows(sub, m)
  BY DEF m
<1>3. CASE m = <<>> /\ DOMAIN e = {}
  BY <1>1, <1>2, <1>3, NothingFed
<1>4. CASE m # <<>> \/ DOMAIN e # {}
  BY <1>1, <1>2, <1>4, EdgeFed
<1>. QED  BY <1>3, <1>4

-----------------------------------------------------------------------------
(* What the store holds of the edges m, and what is still owed of the last.*)
ReadingHeld(m, c, stored, due) ==
  MovedTo(m, c, Watch) # {} => c \in stored \/ (c = Len(m) /\ due.reading)
SpanHeld(m, c, stored, due) ==
  \A o \in 1..c : IsSpan(PolicyTable(m), o, c) =>
    \/ \E s \in stored : s.open = o /\ s.close = c
    \/ c = Len(m) /\ due.span # NoSpan /\ due.span.open = o /\ due.span.close = c

OwedType == [reading : BOOLEAN, span : {NoSpan} \cup ClosedSpans]

SubstrateInv ==
  /\ SubstrateFollows(followed, Since(edges))
  /\ arm => SubstrateFollows(substrate, Since(SubSeq(edges, 1, rebuilt)))
OwedInv ==
  /\ owed \in OwedType
  /\ owed # Nothing => arm /\ rebuilt = Len(edges)
  /\ owed.span # NoSpan => ClosedTrue(owed.span, Since(edges))
KeptInv ==
  /\ \A s \in spans : ClosedTrue(s, Since(edges))
  /\ \A c \in 1..Len(Since(edges)) : c \notin unstored =>
       ReadingHeld(Since(edges), c, readings, owed) /\ SpanHeld(Since(edges), c, spans, owed)

StructureInv ==
  /\ edges \in Seq(StructuralEdges) /\ rebuilt \in 0..Len(edges)
  /\ arm \in BOOLEAN /\ (arm => running)
  /\ ~ running => rebuilt = 0 /\ substrate = NewSubstrate
  /\ SubstrateInv /\ OwedInv /\ KeptInv

LEMMA EdgesSound == ASSUME NEW e \in NextEdges PROVE e \in StructuralEdges
<1> DEFINE judged == [a \in Axes |-> Judged(a)]
<1>1. PICK d \in Together : e \in {f \in [d -> UNION {judged[a] : a \in d}] : \A a \in d : f[a] \in judged[a]}
  BY DEF NextEdges
<1>2. d \subseteq Axes
  BY StructuralAssumption
<1>3. DOMAIN e = d /\ e = [a \in d |-> e[a]] /\ \A a \in d : e[a] \in Judged(a)
  <2>1. \A a \in d : judged[a] = Judged(a)
    BY <1>2
  <2> HIDE DEF judged
  <2>. QED  BY <1>1, <2>1
<1>4. \A a \in d : e[a] \in [value : Reached, policy : 0..3]
  <2> TAKE a \in d
  <2>1. e[a] \in [value : Reached, policy : Policies[a] \cup {Silent}]
    BY <1>3 DEF Judged
  <2>2. Policies[a] \subseteq 0..3
    BY <1>2, StructuralAssumption
  <2>. QED  BY <2>1, <2>2 DEF Silent
<1>5. e \in [d -> [value : Reached, policy : 0..3]]
  BY <1>3, <1>4
<1>. QED  BY <1>2, <1>5 DEF StructuralEdges

LEMMA PrefixGrows ==
  ASSUME NEW E \in Seq(StructuralEdges), NEW k \in 0..Len(E)
  PROVE  /\ SubSeq(E, 1, 0) = <<>> /\ SubSeq(E, 1, Len(E)) = E /\ SubSeq(E, 1, k) \in Seq(StructuralEdges)
         /\ k < Len(E) => SubSeq(E, 1, k + 1) = Append(SubSeq(E, 1, k), E[k + 1]) /\ E[k + 1] \in StructuralEdges
<1>1. SubSeq(E, 1, 0) = <<>> /\ SubSeq(E, 1, Len(E)) = E /\ SubSeq(E, 1, k) \in Seq(StructuralEdges)
  OBVIOUS
<1>2. ASSUME k < Len(E)
      PROVE  SubSeq(E, 1, k + 1) = Append(SubSeq(E, 1, k), E[k + 1]) /\ E[k + 1] \in StructuralEdges
  BY <1>2
<1>. QED  BY <1>1, <1>2

LEMMA StructureStarts == StructureInit => StructureInv
<1> SUFFICES ASSUME StructureInit PROVE StructureInv
  OBVIOUS
<1>1. edges = <<>> /\ Len(edges) = 0 /\ rebuilt = 0 /\ arm = FALSE /\ running = FALSE /\ edges \in Seq(StructuralEdges)
      /\ substrate = NewSubstrate /\ followed = NewSubstrate /\ owed = Nothing /\ spans = {}
  BY DEF StructureInit
<1>2. rebuilt \in 0..Len(edges) /\ arm \in BOOLEAN
  <2>1. rebuilt \in 0..Len(edges)
    BY <1>1
  <2>2. arm \in BOOLEAN
    BY <1>1
  <2>. QED  BY <2>1, <2>2
<1>3. Since(edges) = <<>>
  BY <1>1, SinceNothing
<1>4. SubstrateInv
  BY <1>1, <1>3, SubstrateStarts DEF SubstrateInv
<1>5. OwedInv
  BY <1>1 DEF OwedInv, OwedType, Nothing
<1>6. KeptInv
  <2>1. Len(Since(edges)) = 0
    BY <1>3
  <2>2. \A c \in 1..Len(Since(edges)) : FALSE
    BY <2>1
  <2>. QED  BY <1>1, <2>2 DEF KeptInv
<1>. QED  BY <1>1, <1>4, <1>5, <1>6, <1>2 DEF StructureInv

(* The put of an edge. *)
LEMMA EdgeAdmitted ==
  ASSUME StructureInv, Admitting, NEW e \in StructuralEdges, AdmitEdge(e)
  PROVE  StructureInv'
<1> DEFINE m == Since(edges)
           w == Since(edges')
           fed == FeedEdge(followed, e)
           t == FeedEdge(substrate, e)
<1>1. edges \in Seq(StructuralEdges) /\ edges' = Append(edges, e) /\ edges' \in Seq(StructuralEdges)
      /\ Len(edges') = Len(edges) + 1 /\ Len(edges) \in Nat
  BY OneMore DEF StructureInv, AdmitEdge
<1>2. /\ m \in Seq(StructuralEdges)
      /\ m = <<>> /\ DOMAIN e = {} => w = <<>>
      /\ m # <<>> \/ DOMAIN e # {} => w = Append(m, e)
  BY <1>1, SinceGrows
<1>3. running /\ rebuilt = Len(edges) /\ owed = Nothing /\ owed.span = NoSpan /\ owed.reading = FALSE
  BY DEF Admitting, Nothing
<1>4. SubstrateFollows(followed, m) /\ SubstrateFollows(fed, w) /\ followed' = fed
  BY <1>1, SubstrateFeeds DEF StructureInv, SubstrateInv, AdmitEdge
<1>5. rebuilt' = rebuilt + 1 /\ running' = running /\ arm' = arm /\ readings' = readings /\ spans' = spans
      /\ arm \in BOOLEAN
  BY DEF AdmitEdge, StructureInv
<1>6. edges' = SubSeq(edges', 1, rebuilt') /\ rebuilt' \in 0..Len(edges')
  BY <1>1, <1>3, <1>5, PrefixGrows
<1>7. arm => /\ SubstrateFollows(substrate, m) /\ SubstrateFollows(t, w) /\ substrate' = t /\ unstored' = unstored
             /\ owed' = [reading |-> At(Watch, t, e) # {}, span |-> ClosedAt(substrate, t)]
  <2> SUFFICES ASSUME arm PROVE /\ SubstrateFollows(substrate, m) /\ SubstrateFollows(t, w) /\ substrate' = t /\ unstored' = unstored
             /\ owed' = [reading |-> At(Watch, t, e) # {}, span |-> ClosedAt(substrate, t)]
    OBVIOUS
  <2>1. SubSeq(edges, 1, rebuilt) = edges
    BY <1>1, <1>3, PrefixGrows
  <2>2. SubstrateFollows(substrate, m)
    BY <2>1 DEF StructureInv, SubstrateInv
  <2>3. SubstrateFollows(t, w)
    BY <1>1, <2>2, SubstrateFeeds
  <2>. QED  BY <2>2, <2>3 DEF AdmitEdge
<1>8. ~ arm => owed' = owed /\ unstored' = unstored \cup {fed.ordinal}
  BY DEF AdmitEdge
<1>9. /\ \A s \in spans : ClosedTrue(s, m)
      /\ \A c \in 1..Len(m) : c \notin unstored => ReadingHeld(m, c, readings, owed) /\ SpanHeld(m, c, spans, owed)
  BY DEF StructureInv, KeptInv
<1> HIDE DEF m, w, fed, t
<1>10. arm => (SubstrateFollows(substrate, Since(SubSeq(edges, 1, rebuilt))))'
  BY <1>6, <1>7 DEF w
<1>11. SubstrateInv'
  BY <1>4, <1>5, <1>10 DEF SubstrateInv, w
<1>12. fed.ordinal = Len(w)
  BY <1>4 DEF SubstrateFollows
<1>13. CASE m = <<>> /\ DOMAIN e = {}
  <2>1. w = <<>> /\ Len(w) = 0 /\ \A c \in 1..Len(w) : FALSE
    <3>1. w = <<>> /\ Len(w) = 0
      BY <1>2, <1>13
    <3>. QED  BY <3>1
  <2>2. \A s \in spans : ClosedTrue(s, w)
    BY <1>2, <1>9, <1>13
  <2>3. KeptInv'
    BY <1>5, <2>1, <2>2 DEF KeptInv, w
  <2>4. arm => owed' = Nothing
    <3> SUFFICES ASSUME arm PROVE owed' = Nothing
      OBVIOUS
    <3>1. t = substrate /\ At(Watch, substrate, e) = {}
      BY <1>7, <1>13, NothingFed DEF t
    <3>2. ClosedAt(substrate, substrate) = NoSpan
      BY DEF ClosedAt
    <3>. QED  BY <1>7, <3>1, <3>2 DEF Nothing
  <2>5. owed' = Nothing
    BY <1>3, <1>5, <1>8, <2>4
  <2>6. OwedInv'
    BY <2>5 DEF OwedInv, OwedType, Nothing
  <2>. QED  BY <1>1, <1>3, <1>5, <1>6, <1>11, <2>3, <2>6 DEF StructureInv
<1>14. CASE m # <<>> \/ DOMAIN e # {}
  <2> DEFINE n == Len(m)
  <2>1. w = Append(m, e) /\ n \in Nat /\ Len(w) = n + 1
    BY <1>2, <1>14, OneMore
  <2>2. \A k \in 1..n : PolicyTable(w)[k] = PolicyTable(m)[k]
    BY <1>2, <2>1, TableGrows
  <2>3. \A s \in spans : ClosedTrue(s, w)
    BY <1>2, <1>9, <2>1, ClosedStays
  <2>4. ASSUME NEW c \in 1..n, NEW o \in 1..c PROVE IsSpan(PolicyTable(w), o, c) <=> IsSpan(PolicyTable(m), o, c)
    <3> DEFINE p == PolicyTable(m)
               q == PolicyTable(w)
    <3>1. DriftWindow \in Nat \ {0}
      BY StructuralAssumption
    <3>2. /\ \A k \in 1..n : Loud(q, k) <=> Loud(p, k)
          /\ \A k \in 0..n : QuietFor(q, k, DriftWindow) <=> QuietFor(p, k, DriftWindow)
      <4> HIDE DEF p, q, n
      <4>. QED  BY <2>1, <2>2, <3>1, QuietStays DEF p, q
    <3> HIDE DEF p, q, n
    <3>3. c \in 0..n /\ o - 1 \in 0..n /\ o \in 1..n /\ \A k \in (o + DriftWindow)..(c - 1) : k \in 0..n
      BY <2>1, <3>1
    <3>4. IsSpan(q, o, c) <=> IsSpan(p, o, c)
      BY <3>2, <3>3 DEF IsSpan
    <3>. QED  BY <3>4 DEF p, q
  <2>5. \A c \in 1..n : MovedTo(w, c, Watch) = MovedTo(m, c, Watch)
    BY <1>2, <2>1, MovedStays
  <2> HIDE DEF n
  <2>6. ASSUME NEW c \in 1..n, c \notin unstored
        PROVE  (MovedTo(w, c, Watch) # {} => c \in readings)
               /\ \A o \in 1..c : IsSpan(PolicyTable(w), o, c) => \E s \in spans : s.open = o /\ s.close = c
    <3>1. ReadingHeld(m, c, readings, owed) /\ SpanHeld(m, c, spans, owed)
      BY <1>9, <2>6 DEF n
    <3>. QED  BY <1>3, <2>4, <2>5, <3>1 DEF ReadingHeld, SpanHeld
  <2>7. \A c \in 1..n : c \notin unstored => ReadingHeld(w, c, readings, owed') /\ SpanHeld(w, c, spans, owed')
    BY <2>6 DEF ReadingHeld, SpanHeld
  <2>8. n + 1 \in 1..(n + 1) /\ \A c \in 1..(n + 1) : c = n + 1 \/ c \in 1..n
    BY <2>1
  <2>9. CASE arm
    <3>1. ClosesTrue(substrate, t, w) /\ At(Watch, t, e) = MovedTo(w, Len(w), Watch)
      BY <1>2, <1>7, <1>14, <2>1, <2>9, EdgeFed DEF t
    <3>2. owed' = [reading |-> At(Watch, t, e) # {}, span |-> ClosedAt(substrate, t)]
      BY <1>7, <2>9
    <3>3. ClosedAt(substrate, t) # NoSpan => ClosedTrue(ClosedAt(substrate, t), w)
      BY <3>1 DEF ClosesTrue
    <3>4. owed' \in OwedType /\ (owed'.span # NoSpan => ClosedTrue(owed'.span, w))
      BY <3>2, <3>3 DEF OwedType, ClosedTrue
    <3>5. OwedInv'
      BY <1>1, <1>3, <1>5, <2>9, <3>4 DEF OwedInv, w
    <3>6. ReadingHeld(w, n + 1, readings, owed')
      BY <2>1, <3>1, <3>2 DEF ReadingHeld
    <3>7. SpanHeld(w, n + 1, spans, owed')
      BY <2>1, <3>1, <3>2 DEF SpanHeld, ClosesTrue
    <3>8. KeptInv'
      BY <1>5, <1>7, <2>1, <2>3, <2>7, <2>8, <2>9, <3>6, <3>7 DEF KeptInv, w
    <3>. QED  BY <1>1, <1>3, <1>5, <1>6, <1>11, <3>5, <3>8 DEF StructureInv
  <2>10. CASE ~ arm
    <3>1. owed' = owed /\ unstored' = unstored \cup {n + 1}
      BY <1>8, <1>12, <2>1, <2>10
    <3>2. OwedInv'
      BY <1>3, <3>1 DEF OwedInv, OwedType, Nothing
    <3>3. KeptInv'
      BY <1>5, <2>1, <2>3, <2>7, <2>8, <3>1 DEF KeptInv, w
    <3>. QED  BY <1>1, <1>3, <1>5, <1>6, <1>11, <3>2, <3>3 DEF StructureInv
  <2>. QED  BY <1>5, <2>9, <2>10
<1>. QED  BY <1>13, <1>14

(* Every step keeps it. *)
LEMMA StructureSteps == StructureInv /\ [StructureNext]_structureVars => StructureInv'
<1> SUFFICES ASSUME StructureInv, [StructureNext]_structureVars PROVE StructureInv'
  OBVIOUS
<1>1. edges \in Seq(StructuralEdges) /\ rebuilt \in 0..Len(edges) /\ arm \in BOOLEAN /\ (arm => running)
      /\ SubstrateInv /\ OwedInv /\ KeptInv /\ (~ running => rebuilt = 0 /\ substrate = NewSubstrate)
  BY DEF StructureInv
<1> DEFINE m == Since(edges)
<1>2. ASSUME NEW r \in BOOLEAN, Resume(r) PROVE StructureInv'
  <2>1. ~ running /\ running' /\ arm' \in BOOLEAN /\ rebuilt' = 0 /\ substrate' = NewSubstrate /\ edges' = edges
        /\ owed' = owed /\ rebuilt = 0 /\ followed' = followed /\ spans' = spans /\ readings' = readings
        /\ unstored' = unstored
    BY <1>1, <1>2 DEF Resume
  <2>2. ~ arm /\ owed = Nothing
    BY <1>1, <2>1 DEF OwedInv
  <2>3. SubSeq(edges', 1, rebuilt') = <<>>
    BY <1>1, <2>1, PrefixGrows
  <2>4. SubstrateInv'
    BY <1>1, <2>1, <2>3, SinceNothing, SubstrateStarts DEF SubstrateInv
  <2>5. OwedInv'
    BY <1>1, <2>1, <2>2 DEF OwedInv, Nothing
  <2>6. KeptInv'
    BY <1>1, <2>1 DEF KeptInv
  <2>. QED  BY <1>1, <2>1, <2>4, <2>5, <2>6 DEF StructureInv
<1>3. ASSUME Rederive PROVE StructureInv'
  <2>1. running /\ rebuilt < Len(edges) /\ rebuilt' = rebuilt + 1 /\ edges' = edges /\ running' = running
        /\ arm' = arm /\ owed' = owed /\ followed' = followed /\ spans' = spans /\ readings' = readings
        /\ unstored' = unstored
        /\ substrate' = IF arm THEN FeedEdge(substrate, edges[rebuilt']) ELSE substrate
    BY <1>3 DEF Rederive
  <2>2. owed = Nothing
    BY <1>1, <2>1 DEF OwedInv
  <2>3. SubSeq(edges, 1, rebuilt + 1) = Append(SubSeq(edges, 1, rebuilt), edges[rebuilt + 1])
        /\ edges[rebuilt + 1] \in StructuralEdges /\ SubSeq(edges, 1, rebuilt) \in Seq(StructuralEdges)
    BY <1>1, <2>1, PrefixGrows
  <2>4. arm => SubstrateFollows(substrate', Since(SubSeq(edges', 1, rebuilt')))
    <3> SUFFICES ASSUME arm PROVE SubstrateFollows(substrate', Since(SubSeq(edges', 1, rebuilt')))
      OBVIOUS
    <3> DEFINE E == SubSeq(edges, 1, rebuilt)
               e == edges[rebuilt + 1]
    <3>1. SubstrateFollows(substrate, Since(E)) /\ substrate' = FeedEdge(substrate, e)
          /\ SubSeq(edges', 1, rebuilt') = Append(E, e) /\ E \in Seq(StructuralEdges) /\ e \in StructuralEdges
      BY <1>1, <2>1, <2>3 DEF SubstrateInv
    <3> HIDE DEF E, e
    <3>. QED  BY <3>1, SubstrateFeeds
  <2>5. SubstrateInv'
    BY <1>1, <2>1, <2>4 DEF SubstrateInv
  <2>6. OwedInv'
    BY <1>1, <2>1, <2>2 DEF OwedInv, Nothing
  <2>7. KeptInv'
    BY <1>1, <2>1 DEF KeptInv
  <2>8. rebuilt' \in 0..Len(edges')
    BY <1>1, <2>1
  <2>. QED  BY <1>1, <2>1, <2>5, <2>6, <2>7, <2>8 DEF StructureInv
<1>4. ASSUME Admitting, NEW e \in NextEdges, AdmitEdge(e) PROVE StructureInv'
  BY <1>4, EdgesSound, EdgeAdmitted
(* The last edge is what is owed. *)
<1>5. ASSUME owed # Nothing
      PROVE  arm /\ running /\ rebuilt = Len(edges) /\ substrate.ordinal = Len(m)
  <2>1. arm /\ running /\ rebuilt = Len(edges)
    BY <1>1, <1>5 DEF OwedInv
  <2>2. SubSeq(edges, 1, rebuilt) = edges
    BY <1>1, <2>1, PrefixGrows
  <2>. QED  BY <1>1, <2>1, <2>2 DEF SubstrateInv, SubstrateFollows
<1>6. ASSUME PutReading PROVE StructureInv'
  <2>1. owed.reading /\ readings' = readings \cup {substrate.ordinal} /\ owed' = [owed EXCEPT !.reading = FALSE]
        /\ UNCHANGED <<edges, spans, running, arm, substrate, rebuilt, campaigns, followed, unstored>>
    BY <1>6 DEF PutReading
  <2>2. owed # Nothing
    BY <2>1 DEF Nothing
  <2>3. owed' \in OwedType /\ owed'.span = owed.span
    BY <1>1, <2>1 DEF OwedInv, OwedType
  <2>4. SubstrateInv'
    BY <1>1, <2>1 DEF SubstrateInv
  <2>5. OwedInv'
    BY <1>1, <1>5, <2>1, <2>2, <2>3 DEF OwedInv
  <2>6. Len(m) \in readings' /\ readings \subseteq readings'
    BY <1>5, <2>1, <2>2
  <2>7. KeptInv'
    <3>1. \A c \in 1..Len(m) : ReadingHeld(m, c, readings, owed) => ReadingHeld(m, c, readings', owed')
      BY <2>6 DEF ReadingHeld
    <3>2. \A c \in 1..Len(m) : SpanHeld(m, c, spans, owed) => SpanHeld(m, c, spans, owed')
      BY <2>3 DEF SpanHeld
    <3>. QED  BY <1>1, <2>1, <3>1, <3>2 DEF KeptInv
  <2>. QED  BY <1>1, <2>1, <2>4, <2>5, <2>7 DEF StructureInv
<1>7. ASSUME PutSpan PROVE StructureInv'
  <2>1. ~ owed.reading /\ owed.span # NoSpan /\ spans' = spans \cup {owed.span} /\ owed' = Nothing
        /\ UNCHANGED <<edges, readings, running, arm, substrate, rebuilt, campaigns, followed, unstored>>
    BY <1>7 DEF PutSpan
  <2>2. SubstrateInv'
    BY <1>1, <2>1 DEF SubstrateInv
  <2>3. OwedInv'
    BY <2>1 DEF OwedInv, OwedType, Nothing
  <2>4. KeptInv'
    <3>1. \A c \in 1..Len(m) : ReadingHeld(m, c, readings, owed) => ReadingHeld(m, c, readings, owed')
      BY <2>1 DEF ReadingHeld
    <3>2. \A c \in 1..Len(m) : SpanHeld(m, c, spans, owed) => SpanHeld(m, c, spans', owed')
      BY <2>1 DEF SpanHeld
    <3>3. \A s \in spans' : ClosedTrue(s, m)
      BY <1>1, <2>1 DEF KeptInv, OwedInv
    <3>. QED  BY <1>1, <2>1, <3>1, <3>2, <3>3 DEF KeptInv
  <2>. QED  BY <1>1, <2>1, <2>2, <2>3, <2>4 DEF StructureInv
<1>8. ASSUME Stop PROVE StructureInv'
  <2>1. running' = FALSE /\ arm' = FALSE /\ substrate' = NewSubstrate /\ rebuilt' = 0 /\ owed' = Nothing
        /\ unstored' = unstored \cup (IF owed = Nothing THEN {} ELSE {substrate.ordinal})
        /\ UNCHANGED <<edges, readings, spans, campaigns, followed>>
    BY <1>8 DEF Stop
  <2>2. SubstrateInv'
    BY <1>1, <2>1 DEF SubstrateInv
  <2>3. OwedInv'
    BY <2>1 DEF OwedInv, OwedType, Nothing
  <2>4. KeptInv'
    <3>1. CASE owed = Nothing
      BY <1>1, <2>1, <3>1 DEF KeptInv
    <3>2. CASE owed # Nothing
      <4>1. unstored' = unstored \cup {Len(m)}
        BY <1>5, <2>1, <3>2
      <4>2. \A c \in 1..Len(m) : c # Len(m) /\ ReadingHeld(m, c, readings, owed) => ReadingHeld(m, c, readings, owed')
        BY DEF ReadingHeld
      <4>3. \A c \in 1..Len(m) : c # Len(m) /\ SpanHeld(m, c, spans, owed) => SpanHeld(m, c, spans, owed')
        BY DEF SpanHeld
      <4>. QED  BY <1>1, <2>1, <4>1, <4>2, <4>3 DEF KeptInv
    <3>. QED  BY <3>1, <3>2
  <2>5. rebuilt' \in 0..Len(edges') /\ edges' \in Seq(StructuralEdges)
    BY <1>1, <2>1
  <2>. QED  BY <2>1, <2>2, <2>3, <2>4, <2>5 DEF StructureInv
<1>9. ASSUME UNCHANGED structureVars PROVE StructureInv'
  BY <1>9 DEF structureVars, StructureInv, SubstrateInv, OwedInv, KeptInv
<1>. QED  BY <1>2, <1>3, <1>4, <1>6, <1>7, <1>8, <1>9 DEF StructureNext, StructureRest

LEMMA StructureHolds == StructureSpec => []StructureInv
BY StructureStarts, StructureSteps, PTL DEF StructureSpec

(* The stored episodes are those of the reference definition. *)
LEMMA HighestIsMax ==
  ASSUME NEW m \in Seq(StructuralEdges), NEW s, ClosedTrue(s, m)
  PROVE  s.policy = Max({PolicyTable(m)[k][a] : a \in s.axes, k \in s.open..s.close})
<1> DEFINE p == PolicyTable(m)
           S == {p[k][a] : a \in s.axes, k \in s.open..s.close}
<1>1. s.axes \subseteq Axes /\ s.open \in 1..Len(m) /\ s.close \in 1..Len(m) /\ s.policy \in 0..3
      /\ HighestOf(m, s.axes, s.policy, s.open, s.close)
  BY DEF ClosedTrue, ClosedSpans
<1>2. \A k \in s.open..s.close : k \in 1..Len(m) /\ k \in 0..Len(m)
  BY <1>1
<1>3. \A k \in 1..Len(m), a \in Axes : p[k][a] \in 0..3
  <2> TAKE k \in 1..Len(m), a \in Axes
  <2>1. p[k][a] = PolicyOf(m, a, k)
    BY DEF PolicyTable
  <2>2. k \in 0..Len(m)
    OBVIOUS
  <2>. QED  BY <2>1, <2>2, PolicyType
<1>4. s.policy \in S
  BY <1>1 DEF HighestOf
<1>5. \A x \in S : s.policy >= x
  BY <1>1, <1>2, <1>3 DEF HighestOf
<1>6. S \in SUBSET Int
  BY <1>1, <1>2, <1>3
<1> HIDE DEF S
<1>7. Max(S) = s.policy
  BY <1>4, <1>5, <1>6, MaxIs
<1>. QED  BY <1>7 DEF S

SpanKept(m, s) ==
  /\ IsSpan(PolicyTable(m), s.open, s.close) /\ s.peak = s.close - DriftWindow
  /\ s.axes = UNION {MovedTo(m, k, Review) : k \in s.open..s.close} /\ s.axes # {}
  /\ s.policy = Max({PolicyTable(m)[k][a] : a \in s.axes, k \in s.open..s.close})
EdgeKept(m, c) ==
  /\ MovedTo(m, c, Watch) # {} => c \in readings
  /\ \A o \in 1..c : IsSpan(PolicyTable(m), o, c) => \E s \in spans : s.open = o /\ s.close = c

LEMMA KeptMeans ==
  StructureKept <=>
    (owed = Nothing =>
       (\A s \in spans : SpanKept(FromFirstMove, s)) /\ \A c \in DOMAIN FromFirstMove \ unstored : EdgeKept(FromFirstMove, c))
BY DEF StructureKept, SpanKept, EdgeKept, PolicyTable, MovedTo

LEMMA StructureInvKept == StructureInv => StructureKept
<1> SUFFICES ASSUME StructureInv, owed = Nothing
             PROVE  (\A s \in spans : SpanKept(FromFirstMove, s))
                    /\ \A c \in DOMAIN FromFirstMove \ unstored : EdgeKept(FromFirstMove, c)
  BY KeptMeans
<1> DEFINE m == FromFirstMove
<1>1. m = Since(edges)
  BY DEF FromFirstMove, Since
<1>2. edges \in Seq(StructuralEdges)
  BY DEF StructureInv
<1>3. /\ \A s \in spans : ClosedTrue(s, m)
      /\ \A c \in 1..Len(m) : c \notin unstored => ReadingHeld(m, c, readings, owed) /\ SpanHeld(m, c, spans, owed)
  BY <1>1 DEF StructureInv, KeptInv
<1> HIDE DEF m
<1>4. m \in Seq(StructuralEdges) /\ DOMAIN m = 1..Len(m)
  <2>1. [a \in {} |-> 0] \in [{} -> [value : Reached, policy : 0..3]]
    OBVIOUS
  <2>2. PICK e \in StructuralEdges : TRUE
    BY <2>1 DEF StructuralEdges
  <2>. QED  BY <1>1, <1>2, <2>2, SinceGrows
<1>5. ASSUME NEW s \in spans PROVE SpanKept(m, s)
  <2>1. ClosedTrue(s, m)
    BY <1>3
  <2>2. s.policy = Max({PolicyTable(m)[k][a] : a \in s.axes, k \in s.open..s.close})
    BY <1>4, <2>1, HighestIsMax
  <2>3. s.axes = UNION {MovedTo(m, k, Review) : k \in s.open..s.close}
    BY <2>1 DEF ClosedTrue, MovedBetween
  <2>. QED  BY <2>1, <2>2, <2>3 DEF ClosedTrue, SpanKept
<1>6. ASSUME NEW c \in DOMAIN m \ unstored PROVE EdgeKept(m, c)
  <2>1. ReadingHeld(m, c, readings, owed) /\ SpanHeld(m, c, spans, owed)
    BY <1>3, <1>4
  <2>2. owed.reading = FALSE /\ owed.span = NoSpan
    BY DEF Nothing
  <2>. QED  BY <2>1, <2>2 DEF ReadingHeld, SpanHeld, EdgeKept
<1>. QED  BY <1>5, <1>6 DEF m

(* The stored episodes and verdicts are those of the edges, whatever       *)
(* campaign admitted them, but for what a kill or a campaign without the   *)
(* residual channel left unstored: StructureKept.                          *)
THEOREM StructureIsKept == StructureSpec => []StructureKept
BY StructureHolds, StructureInvKept, PTL
=============================================================================
