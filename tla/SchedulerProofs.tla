-------------------------- MODULE SchedulerProofs --------------------------
(* For any weights, lanes, families and corpus: no class starves, no index *)
(* is sent twice before a kill, every frontier is admitted, and the queues *)
(* never outgrow their caps.                                               *)
EXTENDS Scheduler, Integers, TLAPS, FiniteSetTheorems, WellFoundedInduction

-----------------------------------------------------------------------------
(* Arithmetic of the round robin. *)

(* The sums of the weights of available classes are among Sums. *)
LEMMA TotalInSums == Total \in Sums /\ Total \in Nat
<1>1. /\ Weight(1) = Weights[1] /\ Weight(3) = 0
      /\ Weight(2) \in {0, Weights[2]} /\ Weight(4) \in {0, Weights[4]}
      /\ \A c \in Classes : Weights[c] \in Nat
  BY PolicyAssumption
     DEF Weight, Available, Classes, Explore, Amplify, Discriminate, Falsify
<1>2. Total = Weight(1) + Weight(2) + Weight(3) + Weight(4)
  BY DEF Total, Below
<1>3. Total = Weights[1] + Weight(2) + Weight(4)
  BY <1>1, <1>2 DEF Classes
<1>. QED  BY <1>1, <1>3 DEF Sums, Classes

LEMMA Grows ==
  ASSUME NEW t \in Nat, NEW d \in Int, d >= 1
  PROVE  t * d >= t
<1>1. d - 1 \in Nat /\ t * d = t * (d - 1) + t
  BY Z3
<1>2. t * (d - 1) \in Nat
  BY <1>1, Z3
<1>. QED  BY <1>1, <1>2

(* A period is no shorter than a sum it is a multiple of, and its last     *)
(* slot is the last of every round.                                        *)
LEMMA LastSlot ==
  ASSUME NEW t \in Nat \ {0}, Period % t = 0
  PROVE  t <= Period /\ (Period - 1) % t = t - 1
<1> DEFINE q == Period \div t
           a == (Period - 1) \div t
           b == (Period - 1) % t
<1>1. Period \in Nat \ {0}
  BY PolicyAssumption
<1>2. q \in Nat /\ Period = t * q
  BY <1>1, Z3
<1>3. q >= 1
  BY <1>1, <1>2, Z3
<1>4. t <= Period
  BY <1>2, <1>3, Grows
<1>5. a \in Nat /\ b \in Nat /\ b < t /\ Period - 1 = t * a + b
  BY <1>1, Z3
<1>6. t * (q - a) = b + 1
  BY <1>2, <1>5, Z3
<1>7. q - a >= 1
  <2>1. t * (a - q) = 0 - (b + 1)
    BY <1>2, <1>5, Z3
  <2>2. CASE a - q >= 0
    <3>1. t * (a - q) \in Nat
      <4> DEFINE d == a - q
      <4>1. d \in Nat
        BY <1>2, <1>5, <2>2
      <4>. HIDE DEF d
      <4>2. t * d \in Nat
        BY <4>1, Z3
      <4>. QED  BY <4>2 DEF d
    <3>. QED  BY <1>5, <2>1, <3>1
  <2>. QED  BY <1>2, <1>5, <2>2
<1>8. b + 1 >= t
  <2>. HIDE DEF q, a, b
  <2>. QED  BY <1>2, <1>5, <1>6, <1>7, Grows
<1>. QED  BY <1>4, <1>5, <1>8

-----------------------------------------------------------------------------
(* The round robin. *)

(* The slots of the classes, end to end. *)
LEMMA Slots ==
  /\ \A c \in Classes : Weight(c) \in Nat /\ Weight(c) <= Weights[c]
  /\ Below[1] = 0 /\ Below[2] = Weights[1]
  /\ Below[3] = Weights[1] + Weight(2) /\ Below[4] = Weights[1] + Weight(2)
  /\ Total = Weights[1] + Weight(2) + Weight(4)
  /\ Weight(1) = Weights[1] /\ Weight(3) = 0
<1>1. /\ Weight(1) = Weights[1] /\ Weight(3) = 0
      /\ Weight(2) \in {0, Weights[2]} /\ Weight(4) \in {0, Weights[4]}
      /\ \A c \in Classes : Weights[c] \in Nat
  BY PolicyAssumption
     DEF Weight, Available, Classes, Explore, Amplify, Discriminate, Falsify
<1>2. /\ Below[1] = 0 /\ Below[2] = Weight(1) /\ Below[3] = Weight(1) + Weight(2)
      /\ Below[4] = Weight(1) + Weight(2) + Weight(3)
      /\ Total = Below[4] + Weight(4)
  BY DEF Below, Total
<1>. QED  BY <1>1, <1>2 DEF Classes

LEMMA SomeWork ==
  ASSUME NEW c \in Classes, Weight(c) > 0
  PROVE  Total \in Nat /\ Total > 0
<1>1. /\ Weight(1) \in Nat /\ Weight(2) \in Nat /\ Weight(4) \in Nat
      /\ Weight(3) = 0 /\ Total = Weight(1) + Weight(2) + Weight(4)
  BY Slots DEF Classes
<1>2. c = 1 \/ c = 2 \/ c = 3 \/ c = 4
  BY DEF Classes
<1>3. Weight(1) > 0 \/ Weight(2) > 0 \/ Weight(4) > 0
  BY <1>1, <1>2
<1>. QED  BY <1>1, <1>3

(* In its home slot a class that has work is the one that is picked. *)
LEMMA HomeTurn ==
  ASSUME NEW c \in Classes, Weight(c) > 0, slot = Home(c)
  PROVE  Pick = c
<1>1. Total \in Sums \ {0} /\ Total \in Nat \ {0} /\ Period % Total = 0
  <2>1. Total \in Nat /\ Total > 0
    BY SomeWork
  <2>. QED  BY <2>1, TotalInSums, PolicyAssumption
<1>2. \A b \in Classes : Turn(b) <=> b = c
  <2>. DEFINE s == slot % Total
  <2>1. CASE c = 1
    <3>1. slot = 0 /\ s = 0
      BY <1>1, <2>1 DEF Home, Amplify, Falsify
    <3>. QED  BY <2>1, <3>1, Slots DEF Turn, Classes
  <2>2. CASE c = 2
    <3>0. slot = Weights[1]
      BY <2>2 DEF Home, Amplify, Falsify
    <3>1. Weights[1] \in Nat /\ Weights[1] < Total
      <4>1. Weight(2) > 0 /\ Weight(2) \in Nat /\ Weight(4) \in Nat
        BY <2>2, Slots DEF Classes
      <4>. QED  BY <4>1, Slots, PolicyAssumption DEF Classes
    <3>2. s = Weights[1]
      BY <1>1, <3>0, <3>1
    <3>. QED  BY <2>2, <3>2, Slots DEF Turn, Classes
  <2>3. CASE c = 4
    <3>1. s = Total - 1
      BY <1>1, <2>3, LastSlot DEF Home, Amplify, Falsify
    <3>. QED  BY <1>1, <2>3, <3>1, Slots DEF Turn, Classes
  <2>4. c # 3
    BY Slots DEF Classes
  <2>. QED  BY <2>1, <2>2, <2>3, <2>4 DEF Classes
<1>. QED  BY <1>1, <1>2 DEF Pick

LEMMA HomeInPeriod ==
  ASSUME NEW c \in Classes, Weight(c) > 0
  PROVE  Home(c) \in 0..(Period - 1)
<1>1. CASE c = 2
  <2>1. Weights[1] + Weights[2] \in Sums \ {0} /\ Weights[1] + Weights[2] \in Nat \ {0}
    <3>1. Weights[2] > 0 /\ Weights[1] \in Nat /\ Weights[2] \in Nat
      BY <1>1, Slots, PolicyAssumption DEF Classes
    <3>2. Weights[1] + Weights[2] + 0 \in Sums
      BY DEF Sums
    <3>. QED  BY <3>1, <3>2
  <2>2. Weights[1] + Weights[2] <= Period
    BY <2>1, LastSlot, PolicyAssumption
  <2>. QED
    BY <1>1, <2>2, Slots, PolicyAssumption DEF Home, Amplify, Classes
<1>2. CASE c # 2
  BY <1>2, PolicyAssumption DEF Home, Amplify, Falsify
<1>. QED  BY <1>1, <1>2

IWait ==
  /\ slot \in 0..(Period - 1)
  /\ waited \in [Classes -> Nat]
  /\ EveryClassServed

(* A pick keeps every class within its wait. *)
LEMMA AdvanceServes == IWait /\ Advance => IWait'
<1>. SUFFICES ASSUME IWait, Advance PROVE IWait'
  OBVIOUS
<1>1. Period \in Nat \ {0} /\ slot \in 0..(Period - 1)
  BY PolicyAssumption DEF IWait
<1>2. slot' \in 0..(Period - 1)
  BY <1>1 DEF Advance
<1>3. waited' \in [Classes -> Nat]
  BY DEF IWait, Advance
<1>4. ASSUME NEW c \in Classes, waited'[c] > 0
      PROVE  waited'[c] <= Since(c)'
  <2>1. /\ Weight(c) > 0 /\ c # Pick /\ waited'[c] = waited[c] + 1
        /\ waited[c] \in Nat
    BY <1>4 DEF Advance, IWait
  <2>2. slot # Home(c) /\ Home(c) \in 0..(Period - 1) /\ Home(c)' = Home(c)
    BY <2>1, HomeTurn, HomeInPeriod DEF Home
  <2>3. slot' = (slot + 1) % Period
    <3>1. Total > 0 /\ Total \in Nat
      BY <2>1, SomeWork
    <3>2. Total # 0
      BY <3>1
    <3>. QED  BY <3>2 DEF Advance
  <2>4. slot' = IF slot = Period - 1 THEN 0 ELSE slot + 1
    BY <1>1, <2>3
  <2>5. waited[c] <= Since(c)
    BY <1>1, <2>1, <2>2 DEF IWait, EveryClassServed, Since
  <2>6. Since(c)' = Since(c) + 1
    BY <1>1, <2>2, <2>4 DEF Since
  <2>. QED  BY <1>1, <2>1, <2>2, <2>5, <2>6 DEF Since
<1>. QED  BY <1>2, <1>3, <1>4 DEF IWait, EveryClassServed

LEMMA NextServes == IWait /\ [Next]_vars => IWait'
<1>. SUFFICES ASSUME IWait, [Next]_vars PROVE IWait'
  OBVIOUS
<1>1. ASSUME NEW l \in Lanes, NEW p, NEW plan, Send(l, p, plan) PROVE IWait'
  BY <1>1, AdvanceServes DEF Send
<1>2. CASE UNCHANGED <<slot, waited>>
  BY <1>2 DEF IWait, EveryClassServed, Since, Home
<1>3. ASSUME NEW offset \in 0..(Period - 1), Start(offset) PROVE IWait'
  BY <1>3 DEF Start, IWait, EveryClassServed
<1>4. ASSUME NEW l \in Lanes,
             \/ \E p \in Entries : SendExplore(l, p)
             \/ \E k \in Keys : SendAmplify(l, k)
             \/ SendProbe(l)
      PROVE  IWait'
  BY <1>1, <1>4 DEF SendExplore, SendAmplify, SendProbe
<1>. QED
  BY <1>2, <1>3, <1>4
     DEF Next, Result, ResultAdmits, Death, End, Rest, vars, planner, history

-----------------------------------------------------------------------------
(* Frontiers. *)

Probe == [frontier : Entries, mutator : Families]

IFront ==
  /\ corpus \subseteq Entries
  /\ rotation \in 0..(Len(Table) - 1)
  /\ amplify \in [Keys -> Nat]
  /\ probes \in Seq(Probe)
  /\ DOMAIN order = Lanes
  /\ \A l \in Lanes : order[l] # None => order[l].mutator \in Families
  /\ FrontiersAreAdmitted

(* A slot belongs to some class. *)
LEMMA SomeTurn ==
  ASSUME slot \in Nat, Total # 0
  PROVE  \E c \in Classes : Turn(c)
<1>1. Total \in Nat \ {0}
  BY TotalInSums
<1> DEFINE s == slot % Total
<1>2. s \in Nat /\ s < Total
  BY <1>1
<1>. HIDE DEF s
<1>3. \/ s < Weights[1]
      \/ Weights[1] <= s /\ s < Weights[1] + Weight(2)
      \/ Weights[1] + Weight(2) <= s
  BY <1>2, Slots, PolicyAssumption DEF Classes
<1>4. CASE s < Weights[1]
  BY <1>2, <1>4, Slots DEF Turn, Classes, s
<1>5. CASE Weights[1] <= s /\ s < Weights[1] + Weight(2)
  BY <1>2, <1>5, Slots DEF Turn, Classes, s
<1>6. CASE Weights[1] + Weight(2) <= s
  BY <1>2, <1>6, Slots DEF Turn, Classes, s
<1>. QED  BY <1>3, <1>4, <1>5, <1>6

(* A probe is only picked when there is one. *)
LEMMA PickedHasWork ==
  ASSUME slot \in Nat, Pick = Falsify
  PROVE  probes # <<>>
<1>1. Total # 0 /\ Total \in Nat
  BY TotalInSums DEF Pick, Explore, Falsify
<1>2. Turn(4)
  BY <1>1, SomeTurn DEF Pick, Falsify
<1>3. Weight(4) > 0
  <2>1. slot % Total \in Nat
    BY <1>1
  <2>. QED  BY <1>2, <2>1, Slots, PolicyAssumption DEF Turn, Classes
<1>. QED
  BY <1>3 DEF Weight, Available, Explore, Amplify, Discriminate, Falsify

(* A drift adds no key to the queue but the order's own. *)
LEMMA DriftedKeys ==
  ASSUME IFront, NEW key \in Keys, NEW touched \in BOOLEAN,
         NEW drift \in Priorities \cup {0}
  PROVE  LET q == Drifted(key, touched, drift) IN
         /\ q \in [Keys -> Nat]
         /\ \A k \in Keys : q[k] > 0 => amplify[k] > 0 \/ k = key
<1> DEFINE q1 == [amplify EXCEPT ![key] = drift]
<1>1. /\ q1 \in [Keys -> Nat]
      /\ \A k \in Keys : q1[k] > 0 => amplify[k] > 0 \/ k = key
  BY QueueAssumption DEF IFront
<1>2. ASSUME NEW q2 \in [Keys -> Nat]
      PROVE  /\ Capped(q2) \in [Keys -> Nat]
             /\ \A k \in Keys : Capped(q2)[k] > 0 => q2[k] > 0
  <2> DEFINE keys == {k \in Keys : q2[k] > 0}
             last == CHOOSE k \in keys : \A j \in keys \ {k} : Sooner(q2, j, k)
  <2>1. Capped(q2) = q2 \/ Capped(q2) = [q2 EXCEPT ![last] = 0]
    BY DEF Capped
  <2>. HIDE DEF last
  <2>. QED  BY <2>1
<1>3. /\ Capped(q1) \in [Keys -> Nat]
      /\ \A k \in Keys : Capped(q1)[k] > 0 => amplify[k] > 0 \/ k = key
  BY <1>1, <1>2
<1>. QED  BY <1>1, <1>3 DEF Drifted, IFront

LEMMA NextFront == IWait /\ IFront /\ [Next]_vars => IFront'
<1>. SUFFICES ASSUME IWait, IFront, [Next]_vars PROVE IFront'
  OBVIOUS
<1>1. ASSUME NEW l \in Lanes, NEW p \in corpus, NEW plan, Send(l, p, plan),
             plan.parent = p, plan.mutator \in Families
      PROVE  /\ UNCHANGED <<corpus, amplify>>
             /\ DOMAIN order' = Lanes
             /\ \A j \in Lanes : order'[j] # None =>
                  order'[j].parent \in corpus /\ order'[j].mutator \in Families
  BY <1>1 DEF Send, BuildOrder, IFront, FrontiersAreAdmitted
<1>2. ASSUME NEW l \in Lanes, NEW p \in Entries, SendExplore(l, p) PROVE IFront'
  <2>1. /\ p \in corpus /\ Send(l, p, PlanFor(p))
        /\ PlanFor(p).parent = p /\ PlanFor(p).mutator \in Families
    BY <1>2, CorpusAssumption DEF SendExplore, PlanFor, IFront, Families
  <2>2. rotation' \in 0..(Len(Table) - 1) /\ probes' = probes
    BY <1>2, CorpusAssumption DEF SendExplore, IFront
  <2>. QED  BY <1>1, <2>1, <2>2 DEF IFront, FrontiersAreAdmitted, Queued
<1>3. ASSUME NEW l \in Lanes, NEW k \in Keys, SendAmplify(l, k) PROVE IFront'
  <2>1. /\ k[1] \in corpus /\ Send(l, k[1], PlanAmplify(k))
        /\ PlanAmplify(k).parent = k[1] /\ PlanAmplify(k).mutator \in Families
    BY <1>3 DEF SendAmplify, PlanAmplify, IFront, FrontiersAreAdmitted, Keys
  <2>2. rotation' = rotation /\ probes' = probes
    BY <1>3 DEF SendAmplify
  <2>. QED  BY <1>1, <2>1, <2>2 DEF IFront, FrontiersAreAdmitted, Queued
<1>4. ASSUME NEW l \in Lanes, SendProbe(l) PROVE IFront'
  <2>1. probes # <<>>
    BY <1>4, PickedHasWork, PolicyAssumption DEF SendProbe, IWait
  <2>2. /\ Head(probes).frontier \in corpus
        /\ Send(l, Head(probes).frontier, PlanProbe(Head(probes)))
        /\ PlanProbe(Head(probes)).parent = Head(probes).frontier
        /\ PlanProbe(Head(probes)).mutator \in Families
    <3>1. 1 \in DOMAIN probes /\ Head(probes) = probes[1] /\ probes[1] \in Probe
      BY <2>1 DEF IFront
    <3>2. Head(probes).frontier \in corpus
      BY <3>1 DEF IFront, FrontiersAreAdmitted
    <3>. QED  BY <1>4, <3>1, <3>2 DEF SendProbe, PlanProbe, Probe
  <2>3. /\ rotation' = rotation /\ probes' \in Seq(Probe)
        /\ \A n \in DOMAIN probes' : probes'[n].frontier \in corpus
    BY <1>4, <2>1 DEF SendProbe, IFront, FrontiersAreAdmitted
  <2>. QED  BY <1>1, <2>2, <2>3 DEF IFront, FrontiersAreAdmitted, Queued
<1>5. ASSUME NEW l \in Lanes, order[l] # None
      PROVE  KeyOf(l) \in Keys /\ KeyOf(l)[1] \in corpus /\ KeyOf(l)[2] \in Families
  BY <1>5 DEF KeyOf, Keys, IFront, FrontiersAreAdmitted
<1>6. ASSUME NEW l \in Lanes, NEW touched \in BOOLEAN,
             NEW drift \in Priorities \cup {0}, Result(l, touched, drift)
      PROVE  IFront'
  <2> DEFINE q == Drifted(KeyOf(l), touched, drift)
  <2>1. /\ q \in [Keys -> Nat]
        /\ \A k \in Keys : q[k] > 0 => amplify[k] > 0 \/ k = KeyOf(l)
    BY <1>5, <1>6, DriftedKeys DEF Result
  <2>2. amplify' = q
    BY <1>6 DEF Result
  <2>. HIDE DEF q
  <2>. QED
    BY <1>5, <1>6, <2>1, <2>2
       DEF Result, IFront, FrontiersAreAdmitted, Queued, planner
<1>7. ASSUME NEW l \in Lanes, NEW touched \in BOOLEAN,
             NEW drift \in Priorities \cup {0},
             NEW children \in SUBSET (Entries \ corpus), NEW child \in children,
             NEW match \in children \cup {None},
             ResultAdmits(l, touched, drift, children, child, match)
      PROVE  IFront'
  <2> DEFINE q == Drifted(KeyOf(l), touched, drift)
             r == Climbed(q, KeyOf(l), child)
             moved == <<child, KeyOf(l)[2]>>
  <2>1. /\ q \in [Keys -> Nat]
        /\ \A k \in Keys : q[k] > 0 => amplify[k] > 0 \/ k = KeyOf(l)
    BY <1>5, <1>7, DriftedKeys DEF ResultAdmits
  <2>2. amplify' = r /\ corpus' = corpus \cup children
    BY <1>7 DEF ResultAdmits
  <2>3. moved \in Keys /\ KeyOf(l) \in Keys
    BY <1>5, <1>7 DEF Keys, ResultAdmits
  <2>4. /\ r \in [Keys -> Nat]
        /\ \A k \in Keys : r[k] > 0 => q[k] > 0 \/ k = moved
    <3>. HIDE DEF q
    <3>. QED  BY <2>1, <2>3, QueueAssumption DEF Climbed
  <2>5. /\ probes' \in Seq(Probe)
        /\ \A n \in DOMAIN probes' : probes'[n].frontier \in corpus'
    <3>1. CASE probes' = probes
      BY <2>2, <3>1 DEF IFront, FrontiersAreAdmitted
    <3>2. CASE /\ match \in children
               /\ probes' = Append(probes, [frontier |-> match,
                                             mutator |-> order[l].mutator])
      <4> DEFINE new == [frontier |-> match, mutator |-> order[l].mutator]
      <4>1. new \in Probe /\ new.frontier \in corpus'
        BY <1>5, <1>7, <2>2, <3>2 DEF Probe, ResultAdmits, KeyOf
      <4>. HIDE DEF new
      <4>2. probes' = Append(probes, new)
        BY <3>2 DEF new
      <4>. QED  BY <2>2, <4>1, <4>2 DEF IFront, FrontiersAreAdmitted
    <3>. QED  BY <1>7, <3>1, <3>2 DEF ResultAdmits
  <2>6. \A k \in Queued' : k[1] \in corpus'
    <3>. HIDE DEF q, r
    <3>1. \A k \in Keys : amplify'[k] > 0 =>
            amplify[k] > 0 \/ k = KeyOf(l) \/ k = moved
      BY <2>1, <2>2, <2>4
    <3>2. KeyOf(l)[1] \in corpus /\ moved[1] \in corpus'
      BY <1>5, <1>7, <2>2 DEF ResultAdmits
    <3>. QED  BY <2>2, <3>1, <3>2 DEF Queued, IFront, FrontiersAreAdmitted
  <2>. HIDE DEF q, r
  <2>. QED
    BY <1>7, <2>2, <2>4, <2>5, <2>6
       DEF ResultAdmits, IFront, FrontiersAreAdmitted, planner
<1>8. ASSUME NEW l \in Lanes, NEW found \in BOOLEAN, Death(l, found) PROVE IFront'
  BY <1>5, <1>8 DEF Death, IFront, FrontiersAreAdmitted, Queued, planner
<1>9. ASSUME NEW graceful \in BOOLEAN, End(graceful) PROVE IFront'
  BY <1>9 DEF End, IFront, FrontiersAreAdmitted, Queued, NoOrders, planner, queues
<1>10. ASSUME NEW offset \in 0..(Period - 1), Start(offset) PROVE IFront'
  BY <1>10, CorpusAssumption DEF Start, IFront, FrontiersAreAdmitted, Queued
<1>11. CASE UNCHANGED vars
  BY <1>11 DEF vars, planner, queues, IFront, FrontiersAreAdmitted, Queued
<1>. QED
  BY <1>2, <1>3, <1>4, <1>6, <1>7, <1>8, <1>9, <1>10, <1>11 DEF Next, Rest

-----------------------------------------------------------------------------
(* Indices: the next one of a parent is beyond all that were sent, in      *)
(* memory while a campaign runs and in the checkpoint between campaigns.   *)

Ahead(n) == \A e \in Entries : used[e] <= n[e]

IIndex ==
  /\ next \in [Entries -> Nat] /\ saved \in [Entries -> Nat]
  /\ used \in [Entries -> Nat]
  /\ repeated \in BOOLEAN /\ killed \in BOOLEAN
  /\ ~killed => ~repeated
  /\ ~killed /\ phase # "off" => Ahead(next)
  /\ ~killed /\ phase = "off" => Ahead(saved)

LEMMA SendKeepsAhead ==
  ASSUME IIndex, NEW l \in Lanes, NEW p \in Entries, NEW plan, Send(l, p, plan),
         phase # "off"
  PROVE  IIndex'
<1>1. /\ next' = [next EXCEPT ![p] = next[p] + 1]
      /\ used' = [used EXCEPT ![p] = IF used[p] > next[p] THEN used[p]
                                                         ELSE next[p] + 1]
      /\ UNCHANGED <<saved, killed>> /\ phase' # "off"
  BY DEF Send, NextAfter
<1>2. repeated' = (repeated \/ next[p] < used[p])
  BY DEF Send
<1>3. /\ next' \in [Entries -> Nat] /\ used' \in [Entries -> Nat]
      /\ saved' \in [Entries -> Nat]
  BY <1>1 DEF IIndex
<1>4. repeated' \in BOOLEAN /\ killed' \in BOOLEAN
  BY <1>1, <1>2, Zenon DEF IIndex
<1>5. CASE killed
  BY <1>1, <1>3, <1>4, <1>5 DEF IIndex
<1>6. CASE ~killed
  <2>1. Ahead(next) /\ ~repeated
    BY <1>6 DEF IIndex
  <2>2. ~(next[p] < used[p])
    BY <2>1 DEF Ahead, IIndex
  <2>3. ~repeated'
    BY <1>2, <2>1, <2>2, Zenon
  <2>4. Ahead(next)'
    BY <1>1, <2>1 DEF Ahead, IIndex
  <2>. QED  BY <1>1, <1>3, <1>4, <2>3, <2>4 DEF IIndex
<1>. QED  BY <1>5, <1>6

LEMMA NextIndex == IWait /\ IFront /\ IIndex /\ [Next]_vars => IIndex'
<1>. SUFFICES ASSUME IWait, IFront, IIndex, [Next]_vars PROVE IIndex'
  OBVIOUS
<1>1. ASSUME NEW l \in Lanes, NEW p \in Entries, SendExplore(l, p) PROVE IIndex'
  BY <1>1, SendKeepsAhead DEF SendExplore
<1>2. ASSUME NEW l \in Lanes, NEW k \in Keys, SendAmplify(l, k) PROVE IIndex'
  BY <1>2, SendKeepsAhead DEF SendAmplify, Keys
<1>3. ASSUME NEW l \in Lanes, SendProbe(l) PROVE IIndex'
  <2>1. probes # <<>>
    BY <1>3, PickedHasWork, PolicyAssumption DEF SendProbe, IWait
  <2>2. Head(probes).frontier \in Entries
    <3>1. Head(probes) \in Probe
      BY <2>1 DEF IFront
    <3>. QED  BY <3>1 DEF Probe
  <2>. QED  BY <1>3, <2>2, SendKeepsAhead DEF SendProbe
<1>4. ASSUME UNCHANGED <<next, saved, used, repeated, killed>>,
             (phase' = "off") = (phase = "off")
      PROVE  IIndex'
  BY <1>4 DEF IIndex, Ahead
<1>5. ASSUME NEW graceful \in BOOLEAN, End(graceful) PROVE IIndex'
  <2>1. CASE graceful
    BY <1>5, <2>1 DEF End, IIndex, Ahead, history
  <2>2. CASE ~graceful
    BY <1>5, <2>2 DEF End, IIndex, Ahead, history
  <2>. QED  BY <2>1, <2>2
<1>6. ASSUME NEW offset \in 0..(Period - 1), Start(offset) PROVE IIndex'
  BY <1>6 DEF Start, IIndex, Ahead
<1>7. ASSUME NEW l \in Lanes, NEW touched, NEW drift, Result(l, touched, drift)
      PROVE  IIndex'
  BY <1>4, <1>7 DEF Result, indices, history
<1>8. ASSUME NEW l \in Lanes, NEW touched, NEW drift, NEW children, NEW child,
             NEW match, ResultAdmits(l, touched, drift, children, child, match)
      PROVE  IIndex'
  BY <1>4, <1>8 DEF ResultAdmits, indices, history
<1>9. ASSUME NEW l \in Lanes, NEW found, Death(l, found) PROVE IIndex'
  BY <1>4, <1>9 DEF Death, indices, history
<1>10. CASE UNCHANGED vars
  BY <1>4, <1>10 DEF vars, indices, history
<1>. QED
  BY <1>1, <1>2, <1>3, <1>5, <1>6, <1>7, <1>8, <1>9, <1>10 DEF Next, Rest

-----------------------------------------------------------------------------
LEMMA InitAll == Init => IWait /\ IFront /\ IIndex
<1>. SUFFICES ASSUME Init PROVE IWait /\ IFront /\ IIndex
  OBVIOUS
<1>1. IWait
  BY PolicyAssumption DEF Init, IWait, EveryClassServed
<1>2. IFront
  BY CorpusAssumption
     DEF Init, IFront, FrontiersAreAdmitted, Queued, NoOrders
<1>3. IIndex
  <2>1. /\ next \in [Entries -> Nat] /\ saved \in [Entries -> Nat]
        /\ used \in [Entries -> Nat] /\ Ahead(saved)
    BY DEF Init, Ahead
  <2>2. phase = "off" /\ repeated = FALSE /\ killed = FALSE
    BY DEF Init
  <2>. QED  BY <2>1, <2>2, Zenon DEF IIndex
<1>. QED  BY <1>1, <1>2, <1>3

LEMMA Invariants == Spec => [](IWait /\ IFront /\ IIndex)
BY InitAll, NextServes, NextFront, NextIndex, PTL DEF Spec

(* No class starves (policy.rs pick_class): for any weights and whatever   *)
(* other classes have work, one that has waits at most until its home slot.*)
THEOREM NoClassStarves == Spec => []EveryClassServed
<1>1. IWait => EveryClassServed
  BY DEF IWait
<1>. QED  BY <1>1, Invariants, PTL

(* The dispatch's lookups of a queued parent never fail (coordinator.rs    *)
(* 746-749, 772-775): a queue only names what was admitted.                *)
THEOREM LookupsSucceed == Spec => []FrontiersAreAdmitted
<1>1. IFront => FrontiersAreAdmitted
  BY DEF IFront
<1>. QED  BY <1>1, Invariants, PTL

(* No mutation index of a parent is sent twice, by any lanes or campaigns, *)
(* until a campaign dies without its checkpoint (next_index).              *)
THEOREM IndexSpacesContinue == Spec => []IndicesNotRepeated
<1>1. IIndex => IndicesNotRepeated
  BY DEF IIndex, IndicesNotRepeated
<1>. QED  BY <1>1, Invariants, PTL

-----------------------------------------------------------------------------
(* The queue of amplified keys is finite and never outgrows its cap: the   *)
(* one key too many that a drift may add is there to be dropped.           *)

Held(q) == {k \in Keys : q[k] > 0}

Fitting(q) ==
  /\ q \in [Keys -> Nat]
  /\ IsFiniteSet(Held(q)) /\ Cardinality(Held(q)) <= QueueCap

LEMMA LeastNumber ==
  ASSUME NEW T, T \subseteq Nat, T # {}
  PROVE  \E k \in T : \A j \in T : k <= j
<1> DEFINE R == OpToRel(<, Nat)
<1>1. IsWellFoundedOn(R, Nat)
  BY NatLessThanWellFounded
<1> HIDE DEF R
<1>2. PICK k \in T : \A j \in T : ~ (<<j, k>> \in R)
  BY <1>1, WFMin
<1>3. \A j \in T : ~(j < k)
  BY <1>2 DEF R, OpToRel
<1>. QED BY <1>3

(* Priority and key order the queue strictly and totally. *)
LEMMA SoonerIsAnOrder ==
  ASSUME NEW q \in [Keys -> Nat], NEW i \in Keys, NEW j \in Keys, NEW k \in Keys
  PROVE  /\ ~Sooner(q, i, i)
         /\ Sooner(q, i, j) /\ Sooner(q, j, k) => Sooner(q, i, k)
         /\ i # j => Sooner(q, i, j) \/ Sooner(q, j, i)
<1>1. \A x \in Keys : x[1] \in Nat /\ x[2] \in Nat /\ q[x] \in Nat /\ x = <<x[1], x[2]>>
  <2>. SUFFICES ASSUME NEW x \in Keys
                PROVE  x[1] \in Nat /\ x[2] \in Nat /\ q[x] \in Nat /\ x = <<x[1], x[2]>>
    OBVIOUS
  <2>1. q[x] \in Nat
    OBVIOUS
  <2>2. Entries \subseteq Nat /\ Families \subseteq Nat
    BY CorpusAssumption DEF Families
  <2>3. PICK e \in Entries, f \in Families : x = <<e, f>>
    BY DEF Keys
  <2>. QED  BY <2>1, <2>2, <2>3
<1>2. i # j => i[1] # j[1] \/ i[2] # j[2]
  BY <1>1
<1>. QED  BY <1>1, <1>2 DEF Sooner, KeyBelow

(* So a finite queue has a last key. *)
LEMMA QueueHasLast ==
  ASSUME NEW q \in [Keys -> Nat], IsFiniteSet(Held(q)), Held(q) # {}
  PROVE  \E k \in Held(q) : \A j \in Held(q) \ {k} : Sooner(q, j, k)
<1> DEFINE After(k) == {j \in Held(q) : Sooner(q, k, j)}
           T == {Cardinality(After(k)) : k \in Held(q)}
<1>1. \A k \in Held(q) : IsFiniteSet(After(k)) /\ Cardinality(After(k)) \in Nat
  BY FS_Subset, FS_CardinalityType
<1>2. T \subseteq Nat /\ T # {}
  BY <1>1
<1>3. PICK n \in T : \A m \in T : n <= m
  <2>. HIDE DEF T
  <2>. QED  BY <1>2, LeastNumber
<1>4. PICK k \in Held(q) : n = Cardinality(After(k))
  BY <1>3
<1>5. ASSUME NEW j \in Held(q), Sooner(q, k, j) PROVE FALSE
  <2>1. j \in Keys /\ k \in Keys /\ \A i \in Held(q) : i \in Keys
    BY DEF Held
  <2>2. After(j) \in SUBSET After(k)
    BY <1>5, <2>1, SoonerIsAnOrder
  <2>3. j \in After(k) /\ j \notin After(j)
    BY <1>5, <2>1, SoonerIsAnOrder
  <2>4. Cardinality(After(k)) <= Cardinality(After(j))
    BY <1>3, <1>4
  <2>5. /\ Cardinality(After(j)) <= Cardinality(After(k))
        /\ Cardinality(After(k)) = Cardinality(After(j)) => After(k) = After(j)
    <3>. HIDE DEF After
    <3>. QED  BY <1>1, <2>2, FS_Subset
  <2>6. After(k) = After(j)
    <3>1. Cardinality(After(k)) \in Nat /\ Cardinality(After(j)) \in Nat
      BY <1>1
    <3>. HIDE DEF After
    <3>. QED  BY <2>4, <2>5, <3>1
  <2>. QED  BY <2>3, <2>6
<1>6. \A j \in Held(q) \ {k} : Sooner(q, j, k)
  BY <1>5, SoonerIsAnOrder DEF Held
<1>. QED  BY <1>6

(* Fewer keys fit where more did. *)
LEMMA FewerFit ==
  ASSUME NEW q, Fitting(q), NEW r \in [Keys -> Nat], Held(r) \subseteq Held(q)
  PROVE  Fitting(r)
<1>1. /\ IsFiniteSet(Held(r)) /\ Cardinality(Held(r)) <= Cardinality(Held(q))
      /\ Cardinality(Held(r)) \in Nat /\ Cardinality(Held(q)) \in Nat
  BY FS_Subset, FS_CardinalityType DEF Fitting
<1>. QED  BY <1>1, QueueAssumption DEF Fitting

LEMMA CappedFits ==
  ASSUME NEW q \in [Keys -> Nat], IsFiniteSet(Held(q)),
         Cardinality(Held(q)) <= QueueCap + 1
  PROVE  Fitting(Capped(q))
<1>1. Cardinality(Held(q)) \in Nat
  BY FS_CardinalityType
<1>2. CASE Cardinality(Held(q)) <= QueueCap
  BY <1>2 DEF Capped, Fitting, Held
<1>3. CASE ~(Cardinality(Held(q)) <= QueueCap)
  <2> DEFINE last == CHOOSE k \in Held(q) : \A j \in Held(q) \ {k} : Sooner(q, j, k)
             r == [q EXCEPT ![last] = 0]
  <2>1. Capped(q) = r
    BY <1>3 DEF Capped, Held
  <2>2. Held(q) # {}
    BY <1>1, <1>3, FS_EmptySet, QueueAssumption
  <2>3. last \in Held(q)
    BY <2>2, QueueHasLast
  <2>. HIDE DEF last
  <2>4. r \in [Keys -> Nat] /\ Held(r) = Held(q) \ {last}
    BY <2>3 DEF Held
  <2>5. /\ IsFiniteSet(Held(q) \ {last})
        /\ Cardinality(Held(q) \ {last}) = Cardinality(Held(q)) - 1
    BY <2>3, FS_RemoveElement
  <2>. HIDE DEF r
  <2>6. Cardinality(Held(r)) <= QueueCap
    BY <1>1, <2>4, <2>5, QueueAssumption
  <2>. QED  BY <2>1, <2>4, <2>5, <2>6 DEF Fitting
<1>. QED  BY <1>2, <1>3

LEMMA DriftedFits ==
  ASSUME Fitting(amplify), NEW key \in Keys, NEW touched \in BOOLEAN,
         NEW drift \in Priorities \cup {0}
  PROVE  Fitting(Drifted(key, touched, drift))
<1> DEFINE q == [amplify EXCEPT ![key] = drift]
<1>1. amplify \in [Keys -> Nat] /\ drift \in Nat
  BY QueueAssumption DEF Fitting
<1>2. CASE ~touched
  BY <1>2 DEF Drifted
<1>3. CASE touched /\ drift = 0
  <2>1. q \in [Keys -> Nat] /\ Held(q) \subseteq Held(amplify)
    BY <1>1, <1>3 DEF Held
  <2>2. Drifted(key, touched, drift) = q
    BY <1>3 DEF Drifted
  <2>. HIDE DEF q
  <2>. QED  BY <2>1, <2>2, FewerFit
<1>4. CASE touched /\ drift # 0
  <2>1. q \in [Keys -> Nat] /\ Held(q) \subseteq Held(amplify) \cup {key}
    BY <1>1, <1>4 DEF Held
  <2>2. Drifted(key, touched, drift) = Capped(q)
    BY <1>4 DEF Drifted
  <2>. HIDE DEF q
  <2>3. /\ IsFiniteSet(Held(amplify) \cup {key})
        /\ Cardinality(Held(amplify) \cup {key}) <= Cardinality(Held(amplify)) + 1
        /\ Cardinality(Held(amplify)) <= QueueCap
        /\ Cardinality(Held(amplify)) \in Nat /\ Cardinality(Held(amplify) \cup {key}) \in Nat
    <3>1. IsFiniteSet(Held(amplify)) /\ Cardinality(Held(amplify)) <= QueueCap
      BY DEF Fitting
    <3>2. Cardinality(Held(amplify)) \in Nat
      BY <3>1, FS_CardinalityType
    <3>3. /\ IsFiniteSet(Held(amplify) \cup {key})
          /\ Cardinality(Held(amplify) \cup {key}) =
               IF key \in Held(amplify) THEN Cardinality(Held(amplify))
                                        ELSE Cardinality(Held(amplify)) + 1
      BY <3>1, FS_AddElement
    <3>. QED  BY <3>1, <3>2, <3>3
  <2>4. /\ IsFiniteSet(Held(q)) /\ Cardinality(Held(q)) \in Nat
        /\ Cardinality(Held(q)) <= Cardinality(Held(amplify) \cup {key})
    BY <2>1, <2>3, FS_Subset, FS_CardinalityType
  <2>5. Cardinality(Held(q)) <= QueueCap + 1
    BY <2>3, <2>4, QueueAssumption
  <2>. QED  BY <2>1, <2>2, <2>4, <2>5, CappedFits
<1>. QED  BY <1>2, <1>3, <1>4

LEMMA ClimbedFits ==
  ASSUME NEW q, Fitting(q), NEW key \in Keys, NEW child \in Entries
  PROVE  Fitting(Climbed(q, key, child))
<1> DEFINE moved == <<child, key[2]>>
           r == [q EXCEPT ![moved] = q[key] + Boost, ![key] = 0]
<1>1. q \in [Keys -> Nat] /\ moved \in Keys /\ Boost \in Nat
  BY QueueAssumption DEF Fitting, Keys
<1>2. CASE q[key] = 0
  BY <1>2 DEF Climbed
<1>3. CASE q[key] # 0
  <2>1. Climbed(q, key, child) = r
    BY <1>3 DEF Climbed
  <2>2. r \in [Keys -> Nat] /\ Held(r) \subseteq (Held(q) \ {key}) \cup {moved}
    BY <1>1, <1>3 DEF Held
  <2>3. key \in Held(q)
    BY <1>1, <1>3 DEF Held
  <2>. HIDE DEF r, moved
  <2>4. IsFiniteSet(Held(q)) /\ Cardinality(Held(q)) \in Nat /\ Cardinality(Held(q)) <= QueueCap
    BY FS_CardinalityType DEF Fitting
  <2> DEFINE rest == Held(q) \ {key}
  <2>5. IsFiniteSet(rest) /\ Cardinality(rest) = Cardinality(Held(q)) - 1
    BY <2>3, <2>4, FS_RemoveElement
  <2>. HIDE DEF rest
  <2>6. /\ IsFiniteSet(rest \cup {moved})
        /\ Cardinality(rest \cup {moved}) =
             IF moved \in rest THEN Cardinality(rest) ELSE Cardinality(rest) + 1
    BY <2>5, FS_AddElement
  <2>7. /\ IsFiniteSet(Held(r)) /\ Cardinality(Held(r)) \in Nat
        /\ Cardinality(Held(r)) <= Cardinality(rest \cup {moved})
    BY <2>2, <2>6, FS_Subset, FS_CardinalityType DEF rest
  <2>8. Cardinality(Held(r)) <= QueueCap
    BY <2>4, <2>5, <2>6, <2>7, QueueAssumption
  <2>. QED  BY <2>1, <2>2, <2>7, <2>8 DEF Fitting
<1>. QED  BY <1>2, <1>3

IQueue ==
  /\ Fitting(amplify) /\ Len(probes) <= ProbeCap
  /\ Seeds \subseteq corpus /\ sent \in 0..MaxOrders
  /\ phase \in {"off", "dispatch", "poll", "check"}
  /\ order \in [Lanes -> Orders \cup {None}]

LEMMA SendKeepsQueue ==
  ASSUME IQueue, IIndex, NEW l \in Lanes, NEW p \in Entries, NEW plan, Send(l, p, plan),
         plan.parent = p, plan.mutator \in Families, plan.class \in Classes
  PROVE  /\ Fitting(amplify') /\ Seeds \subseteq corpus' /\ sent' \in 0..MaxOrders
         /\ phase' \in {"off", "dispatch", "poll", "check"}
         /\ order' \in [Lanes -> Orders \cup {None}]
<1>1. BuildOrder(plan) \in Orders
  BY DEF BuildOrder, Orders, IIndex
<1>2. order' \in [Lanes -> Orders \cup {None}]
  BY <1>1 DEF Send, IQueue
<1>3. sent' \in 0..MaxOrders
  BY QueueAssumption DEF Send, IQueue
<1>4. amplify' = amplify /\ corpus' = corpus /\ phase' \in {"poll", "dispatch"}
  BY DEF Send
<1>. QED  BY <1>2, <1>3, <1>4 DEF IQueue

LEMMA NextQueue == IWait /\ IFront /\ IIndex /\ IQueue /\ [Next]_vars => IQueue'
<1>. SUFFICES ASSUME IWait, IFront, IIndex, IQueue, [Next]_vars PROVE IQueue'
  OBVIOUS
<1>0. /\ probes \in Seq(Probe) /\ Len(probes) \in Nat /\ Len(probes) <= ProbeCap
      /\ ProbeCap \in Nat /\ sent \in 0..MaxOrders /\ amplify \in [Keys -> Nat]
      /\ order \in [Lanes -> Orders \cup {None}]
  BY QueueAssumption DEF IFront, IQueue
<1>1. ASSUME NEW l \in Lanes, order[l] # None
      PROVE  KeyOf(l) \in Keys
  BY <1>0, <1>1 DEF KeyOf, Keys, Orders
<1>2. ASSUME NEW l \in Lanes
      PROVE  [order EXCEPT ![l] = None] \in [Lanes -> Orders \cup {None}]
  BY <1>0
<1>3. ASSUME NEW l \in Lanes, NEW p \in Entries, SendExplore(l, p) PROVE IQueue'
  <2>1. /\ Send(l, p, PlanFor(p)) /\ PlanFor(p).parent = p
        /\ PlanFor(p).mutator \in Families /\ PlanFor(p).class \in Classes
    BY <1>3, CorpusAssumption DEF SendExplore, PlanFor, IFront, Families, Classes, Explore
  <2>2. probes' = probes
    BY <1>3 DEF SendExplore
  <2>. QED  BY <1>0, <2>1, <2>2, SendKeepsQueue DEF IQueue
<1>4. ASSUME NEW l \in Lanes, NEW k \in Keys, SendAmplify(l, k) PROVE IQueue'
  <2>1. /\ Send(l, k[1], PlanAmplify(k)) /\ k[1] \in Entries
        /\ PlanAmplify(k).parent = k[1]
        /\ PlanAmplify(k).mutator \in Families /\ PlanAmplify(k).class \in Classes
    BY <1>4 DEF SendAmplify, PlanAmplify, Keys, Classes, Amplify
  <2>2. probes' = probes
    BY <1>4 DEF SendAmplify
  <2>. QED  BY <1>0, <2>1, <2>2, SendKeepsQueue DEF IQueue
<1>5. ASSUME NEW l \in Lanes, SendProbe(l) PROVE IQueue'
  <2>1. probes # <<>>
    BY <1>5, PickedHasWork, PolicyAssumption DEF SendProbe, IWait
  <2>2. Head(probes) \in Probe /\ Len(Tail(probes)) = Len(probes) - 1
    BY <1>0, <2>1
  <2>3. /\ Send(l, Head(probes).frontier, PlanProbe(Head(probes)))
        /\ Head(probes).frontier \in Entries
        /\ PlanProbe(Head(probes)).parent = Head(probes).frontier
        /\ PlanProbe(Head(probes)).mutator \in Families
        /\ PlanProbe(Head(probes)).class \in Classes
    BY <1>5, <2>2 DEF SendProbe, PlanProbe, Probe, Classes, Falsify
  <2>4. Len(probes') <= ProbeCap
    BY <1>0, <1>5, <2>2 DEF SendProbe
  <2>. QED  BY <2>3, <2>4, SendKeepsQueue DEF IQueue
<1>6. ASSUME NEW l \in Lanes, NEW touched \in BOOLEAN,
             NEW drift \in Priorities \cup {0}, Result(l, touched, drift)
      PROVE  IQueue'
  <2>1. KeyOf(l) \in Keys /\ amplify' = Drifted(KeyOf(l), touched, drift)
    BY <1>1, <1>6 DEF Result
  <2>2. Fitting(amplify')
    BY <2>1, DriftedFits DEF IQueue
  <2>3. /\ phase' = "check" /\ order' = [order EXCEPT ![l] = None]
        /\ corpus' = corpus /\ probes' = probes /\ sent' = sent
    BY <1>6 DEF Result
  <2>. QED  BY <1>2, <2>2, <2>3 DEF IQueue
<1>7. ASSUME NEW l \in Lanes, NEW touched \in BOOLEAN,
             NEW drift \in Priorities \cup {0},
             NEW children \in SUBSET (Entries \ corpus), NEW child \in children,
             NEW match \in children \cup {None},
             ResultAdmits(l, touched, drift, children, child, match)
      PROVE  IQueue'
  <2> DEFINE q == Drifted(KeyOf(l), touched, drift)
  <2>1. KeyOf(l) \in Keys /\ amplify' = Climbed(q, KeyOf(l), child) /\ child \in Entries
    BY <1>1, <1>7 DEF ResultAdmits
  <2>2. Fitting(q)
    BY <2>1, DriftedFits DEF IQueue
  <2>3. Fitting(amplify')
    <3>. HIDE DEF q
    <3>. QED  BY <2>1, <2>2, ClimbedFits
  <2>4. Len(probes') <= ProbeCap
    <3>1. CASE probes' = probes
      BY <1>0, <3>1
    <3>2. ASSUME Len(probes) < ProbeCap, NEW new, probes' = Append(probes, new)
          PROVE  Len(probes') <= ProbeCap
      <4>1. Len(probes') = Len(probes) + 1
        BY <1>0, <3>2
      <4>. QED  BY <1>0, <3>2, <4>1
    <3>. QED  BY <1>7, <3>1, <3>2 DEF ResultAdmits
  <2>5. /\ phase' = "check" /\ order' = [order EXCEPT ![l] = None]
        /\ corpus' = corpus \cup children /\ sent' = sent
    BY <1>7 DEF ResultAdmits
  <2>. QED  BY <1>2, <2>3, <2>4, <2>5 DEF IQueue
<1>8. ASSUME NEW l \in Lanes, NEW found \in BOOLEAN, Death(l, found) PROVE IQueue'
  <2>1. Fitting(amplify')
    <3>1. CASE amplify' = amplify
      BY <3>1 DEF IQueue
    <3>2. CASE amplify' = [amplify EXCEPT ![KeyOf(l)] = 0]
      <4> DEFINE key == KeyOf(l)
                 r == [amplify EXCEPT ![key] = 0]
      <4>0. key \in Keys
        BY <1>1, <1>8 DEF Death
      <4>. HIDE DEF key
      <4>1. r \in [Keys -> Nat] /\ Held(r) \subseteq Held(amplify)
        BY <1>0, <4>0 DEF Held
      <4>. HIDE DEF r
      <4>. QED  BY <3>2, <4>1, FewerFit DEF IQueue, r, key
    <3>. QED  BY <1>8, <3>1, <3>2 DEF Death
  <2>2. /\ phase' = "check" /\ order' = [order EXCEPT ![l] = None]
        /\ corpus' = corpus /\ probes' = probes /\ sent' = sent
    BY <1>8 DEF Death
  <2>. QED  BY <1>2, <2>1, <2>2 DEF IQueue
<1>9. ASSUME NEW graceful \in BOOLEAN, End(graceful) PROVE IQueue'
  BY <1>9 DEF End, IQueue, NoOrders, queues
<1>10. ASSUME NEW offset \in 0..(Period - 1), Start(offset) PROVE IQueue'
  <2> DEFINE r == [k \in Keys |-> 0]
  <2>1. r \in [Keys -> Nat] /\ Held(r) \subseteq Held(amplify)
    BY DEF Held
  <2>. HIDE DEF r
  <2>2. Fitting(r)
    BY <2>1, FewerFit DEF IQueue
  <2>. QED  BY <1>0, <1>10, <2>2 DEF IQueue, Start, r
<1>11. CASE UNCHANGED vars
  BY <1>11 DEF vars, planner, queues, IQueue
<1>. QED
  BY <1>3, <1>4, <1>5, <1>6, <1>7, <1>8, <1>9, <1>10, <1>11 DEF Next, Rest

LEMMA InitQueue == Init => IQueue
<1>. SUFFICES ASSUME Init PROVE IQueue
  OBVIOUS
<1>1. Held(amplify) = {} /\ amplify \in [Keys -> Nat]
  BY DEF Init, Held
<1>2. Fitting(amplify)
  BY <1>1, FS_EmptySet, QueueAssumption DEF Fitting
<1>3. Len(probes) <= ProbeCap /\ sent \in 0..MaxOrders
  BY QueueAssumption DEF Init
<1>. QED  BY <1>2, <1>3, CorpusAssumption DEF Init, IQueue, NoOrders

(* Type correctness of the scheduler: at any time at most                  *)
(* MAX_AMPLIFY_ENTRIES lineages are amplified and MAX_PROBE_ENTRIES probes *)
(* wait, every order sent continues a parent of the corpus with a mutator  *)
(* of the table, and the round stays within its period.                    *)
THEOREM QueuesAreBounded == Spec => []TypeOK
<1>1. IWait /\ IFront /\ IIndex /\ IQueue => TypeOK
  BY DEF IWait, IFront, IIndex, IQueue, TypeOK, Fitting, Held, Queued, Probe
<1>. QED  BY <1>1, InitQueue, NextQueue, Invariants, PTL DEF Spec
=============================================================================
