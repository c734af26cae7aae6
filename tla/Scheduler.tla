----------------------------- MODULE Scheduler -----------------------------
(***************************************************************************)
(* What the next order of a lane is: the class by weighted round robin     *)
(* (scheduler/policy.rs), then the lineage to amplify, the probe, or any   *)
(* parent, and the mutation indices it continues with; and how results,    *)
(* deaths, restarts and the checkpoint change the queues and indices       *)
(* (execute/coordinator.rs).                                               *)
(*                                                                         *)
(* Residual and precedent guidance are on: without them only the first     *)
(* class is left.  Whether a new entry matches a precedent is PrecedentBank*)
(* and a free choice here.  Indices count batches.                         *)
(***************************************************************************)
EXTENDS Naturals, Sequences, FiniteSets

CONSTANTS
  Lanes,      (* 1, 2, ...: polled and given orders in this order.         *)
  Entries,    (* Ids of corpus entries, numbered in their order.           *)
  Seeds,      (* Those the corpus starts with.                             *)
  Table,      (* The mutator families, in the order of their rotation.     *)
  Weights,    (* policy.class_weights                                      *)
  Period,     (* A multiple of every sum of weights.                       *)
  Priorities, (* Priorities a batch's drift may give.                      *)
  Boost,      (* AMPLIFY_HOT_BOOST                                         *)
  QueueCap,   (* MAX_AMPLIFY_ENTRIES                                       *)
  ProbeCap,   (* MAX_PROBE_ENTRIES                                         *)
  MaxOrders,  (* Bound: orders sent.                                       *)
  None

Classes  == 1..4
Explore  == 1
Amplify  == 2
Discriminate == 3
Falsify  == 4
Families == 1..Len(Table)

(* What the four weights may sum up to, as classes come and go. *)
Sums == {Weights[1] + a + f : a \in {0, Weights[2]}, f \in {0, Weights[4]}}

ASSUME PolicyAssumption ==
  /\ Weights \in [Classes -> Nat] /\ Period \in Nat \ {0}
  /\ \A t \in Sums \ {0} : Period % t = 0
ASSUME QueueAssumption ==
  /\ Priorities \subseteq Nat \ {0} /\ Boost \in Nat
  /\ QueueCap \in Nat \ {0} /\ ProbeCap \in Nat /\ MaxOrders \in Nat
ASSUME CorpusAssumption ==
  /\ Lanes \subseteq Nat /\ Entries \subseteq Nat
  /\ Seeds \subseteq Entries /\ Seeds # {}
  /\ Len(Table) \in Nat \ {0}

VARIABLES
  phase,      (* "off", "dispatch", "poll", or "check" after an event.     *)
  slot,       (* class_round + seed_offset, modulo Period.                 *)
  rotation,   (* rotation, modulo the table.                               *)
  corpus,     (* Admitted entries.                                         *)
  amplify,    (* state.amplify: the priority of each key, 0 if absent.     *)
  probes,     (* state.probes, in the order of their keys.                 *)
  next,       (* next_index                                                *)
  order,      (* The pending order of each lane, or None.                  *)
  saved,      (* next_index of the checkpoint.                             *)
  sent,       (* Orders sent (bound).                                      *)
  waited,     (* History: how often each class was passed over in a row    *)
              (* while it had work.                                        *)
  used,       (* History: the end of the indices sent of each parent.      *)
  repeated,   (* History: an order repeated an index of its parent.        *)
  killed      (* History: a campaign ended without its checkpoint.         *)

planner == <<slot, rotation>>
queues  == <<amplify, probes>>
indices == <<next, saved>>
history == <<waited, used, repeated>>
vars    == <<phase, planner, corpus, queues, indices, order, sent, history, killed>>

Keys   == Entries \X Families
Queued == {k \in Keys : amplify[k] > 0}
Idle   == {l \in Lanes : order[l] = None}

-----------------------------------------------------------------------------
(* OrderPlanner::pick_class. *)

(* No precedent declares a confuser, so there is nothing to discriminate.  *)
Available(c) ==
  CASE c = Explore -> TRUE
    [] c = Amplify -> Queued # {}
    [] c = Discriminate -> FALSE
    [] c = Falsify -> probes # <<>>

Weight(c) == IF Available(c) THEN Weights[c] ELSE 0

Below ==
  <<0, Weight(1), Weight(1) + Weight(2), Weight(1) + Weight(2) + Weight(3)>>
Total == Below[4] + Weight(4)

(* Slip: a class keeps the slot behind its own. *)
TurnOneMore(c) ==
  /\ slot % Total <= Below[c] + Weight(c)
  /\ \A b \in 1..(c - 1) : slot % Total > Below[b] + Weight(b)
Turn(c) == Below[c] <= slot % Total /\ slot % Total < Below[c] + Weight(c)

Pick == IF Total = 0 THEN Explore ELSE CHOOSE c \in Classes : Turn(c)

(* pick_class advances the round, and the history sees who had to wait. *)
Advance ==
  /\ slot' = IF Total = 0 THEN slot ELSE (slot + 1) % Period
  /\ waited' = [c \in Classes |->
                 IF Weight(c) > 0 /\ c # Pick THEN waited[c] + 1 ELSE 0]

-----------------------------------------------------------------------------
(* Dispatch. *)

KeyBelow(j, k) == j[1] < k[1] \/ (j[1] = k[1] /\ j[2] < k[2])

(* Is j to be amplified before k?  The higher priority, then the lower key.*)
Sooner(q, j, k) == q[j] > q[k] \/ (q[j] = q[k] /\ KeyBelow(j, k))

(* Slip: the index space is not advanced. *)
NextKept(p) == next
NextAfter(p) == [next EXCEPT ![p] = @ + 1]

(* plan_for, plan_amplify and plan_probe: the class, the parent and the    *)
(* mutator family of an order ...                                          *)
PlanFor(p) == [class |-> Explore, parent |-> p, mutator |-> rotation + 1]
PlanAmplify(k) == [class |-> Amplify, parent |-> k[1], mutator |-> k[2]]
PlanProbe(e) == [class |-> Falsify, parent |-> e.frontier, mutator |-> e.mutator]

(* ... and build_order, with the indices of the parent that are next.      *)
BuildOrder(plan) ==
  [class |-> plan.class, parent |-> plan.parent, mutator |-> plan.mutator,
   start |-> next[plan.parent]]

(* The lane gets an order on p, which takes the next indices of p.         *)
Send(l, p, plan) ==
  /\ l \in Idle /\ \A k \in Idle : l <= k
  /\ sent < MaxOrders /\ sent' = sent + 1
  /\ order' = [order EXCEPT ![l] = BuildOrder(plan)]
  /\ next' = NextAfter(p)
  /\ repeated' = (repeated \/ next[p] < used[p])
  /\ used' = [used EXCEPT ![p] = IF @ > next[p] THEN @ ELSE next[p] + 1]
  /\ phase' = IF Idle = {l} THEN "poll" ELSE "dispatch"
  /\ Advance
  /\ UNCHANGED <<corpus, amplify, saved, killed>>

SendExplore(l, p) ==
  /\ phase \in {"dispatch", "check"} /\ Pick = Explore
  /\ p \in corpus
  /\ Send(l, p, PlanFor(p))
  /\ rotation' = (rotation + 1) % Len(Table)
  /\ UNCHANGED probes

(* The first key of the queue. *)
SendAmplify(l, k) ==
  /\ phase \in {"dispatch", "check"} /\ Pick = Amplify
  /\ k \in Queued /\ \A j \in Queued \ {k} : Sooner(amplify, k, j)
  /\ Send(l, k[1], PlanAmplify(k))
  /\ UNCHANGED <<rotation, probes>>

SendProbe(l) ==
  /\ phase \in {"dispatch", "check"} /\ Pick = Falsify
  /\ Send(l, Head(probes).frontier, PlanProbe(Head(probes)))
  /\ probes' = Tail(probes)
  /\ UNCHANGED rotation

-----------------------------------------------------------------------------
(* Events.  A batch summary that touched no signal leaves the queue alone; *)
(* else its drift sets or ends the amplification of the order's key.       *)

(* The queue without its last entry when it has outgrown its cap. *)
Capped(q) ==
  LET keys == {k \in Keys : q[k] > 0} IN
  IF Cardinality(keys) <= QueueCap THEN q
  ELSE LET last == CHOOSE k \in keys : \A j \in keys \ {k} : Sooner(q, j, k)
       IN  [q EXCEPT ![last] = 0]

Drifted(key, touched, drift) ==
  IF ~touched THEN amplify
  ELSE IF drift = 0 THEN [amplify EXCEPT ![key] = 0]
  ELSE Capped([amplify EXCEPT ![key] = drift])

(* An admitted child takes its parent's place, with a boost. *)
Climbed(q, key, child) ==
  IF q[key] = 0 THEN q
  ELSE [q EXCEPT ![<<child, key[2]>>] = q[key] + Boost, ![key] = 0]

KeyOf(l) == <<order[l].parent, order[l].mutator>>

(* Slip: the frontier moves to a child that was refused. *)
ResultClimbs(l, touched, drift) ==
  /\ phase = "poll" /\ phase' = "check"
  /\ order[l] # None /\ order' = [order EXCEPT ![l] = None]
  /\ \E e \in Entries :
       amplify' = Climbed(Drifted(KeyOf(l), touched, drift), KeyOf(l), e)
  /\ UNCHANGED <<planner, corpus, probes, indices, sent, history, killed>>

(* process_result without an admission ... *)
Result(l, touched, drift) ==
  /\ phase = "poll" /\ phase' = "check"
  /\ order[l] # None /\ order' = [order EXCEPT ![l] = None]
  /\ amplify' = Drifted(KeyOf(l), touched, drift)
  /\ UNCHANGED <<planner, corpus, probes, indices, sent, history, killed>>

(* ... and with some, the first of them child; frontier is the one that    *)
(* matches a precedent first, if any.                                      *)
ResultAdmits(l, touched, drift, children, child, match) ==
  /\ phase = "poll" /\ phase' = "check"
  /\ order[l] # None /\ order' = [order EXCEPT ![l] = None]
  /\ children \subseteq Entries \ corpus /\ child \in children
  /\ corpus' = corpus \cup children
  /\ amplify' = Climbed(Drifted(KeyOf(l), touched, drift), KeyOf(l), child)
  /\ \/ match = None /\ probes' = probes
     \/ /\ match \in children /\ Len(probes) < ProbeCap
        /\ probes' = Append(probes, [frontier |-> match, mutator |-> order[l].mutator])
  /\ UNCHANGED <<planner, indices, sent, history, killed>>

(* handle_worker_death: a lineage that ended in a finding is no longer     *)
(* amplified.                                                              *)
Death(l, found) ==
  /\ phase = "poll" /\ phase' = "check"
  /\ order[l] # None /\ order' = [order EXCEPT ![l] = None]
  /\ amplify' = IF found /\ order[l].class = Amplify
                  THEN [amplify EXCEPT ![KeyOf(l)] = 0] ELSE amplify
  /\ UNCHANGED <<planner, corpus, probes, indices, sent, history, killed>>

-----------------------------------------------------------------------------
(* Campaigns. *)

NoOrders == [l \in Lanes |-> None]

(* The campaign stops and writes its checkpoint, or is killed. *)
End(graceful) ==
  /\ phase' = "off" /\ order' = NoOrders
  /\ IF graceful THEN phase = "check" /\ saved' = next /\ killed' = killed
                 ELSE phase # "off" /\ saved' = saved /\ killed' = TRUE
  /\ UNCHANGED <<planner, corpus, queues, next, sent, history>>

Start(offset) ==
  /\ phase = "off" /\ phase' = "dispatch"
  /\ slot' = offset /\ rotation' = 0
  /\ amplify' = [k \in Keys |-> 0] /\ probes' = <<>> /\ next' = saved
  /\ waited' = [c \in Classes |-> 0]
  /\ UNCHANGED <<corpus, order, saved, sent, used, repeated, killed>>

Init ==
  /\ phase = "off" /\ slot = 0 /\ rotation = 0 /\ corpus = Seeds
  /\ amplify = [k \in Keys |-> 0] /\ probes = <<>>
  /\ next = [e \in Entries |-> 0] /\ saved = [e \in Entries |-> 0]
  /\ order = NoOrders /\ sent = 0
  /\ waited = [c \in Classes |-> 0] /\ used = [e \in Entries |-> 0]
  /\ repeated = FALSE /\ killed = FALSE

(* The bound on orders is reached. *)
Rest == sent = MaxOrders /\ Idle # {} /\ UNCHANGED vars

Next ==
  \/ \E l \in Lanes, p \in Entries : SendExplore(l, p)
  \/ \E l \in Lanes, k \in Keys : SendAmplify(l, k)
  \/ \E l \in Lanes : SendProbe(l)
  \/ \E l \in Lanes, touched \in BOOLEAN, drift \in Priorities \cup {0} :
       Result(l, touched, drift)
  \/ \E l \in Lanes, touched \in BOOLEAN, drift \in Priorities \cup {0},
        children \in SUBSET (Entries \ corpus) :
       \E child \in children, match \in children \cup {None} :
         ResultAdmits(l, touched, drift, children, child, match)
  \/ \E l \in Lanes, found \in BOOLEAN : Death(l, found)
  \/ \E graceful \in BOOLEAN : End(graceful)
  \/ \E offset \in 0..(Period - 1) : Start(offset)
  \/ Rest

Spec == Init /\ [][Next]_vars

-----------------------------------------------------------------------------
(* What must hold. *)

Orders == [class : Classes, parent : Entries, mutator : Families, start : Nat]

TypeOK ==
  /\ phase \in {"off", "dispatch", "poll", "check"}
  /\ slot \in 0..(Period - 1) /\ rotation \in 0..(Len(Table) - 1)
  /\ Seeds \subseteq corpus /\ corpus \subseteq Entries
  /\ amplify \in [Keys -> Nat] /\ Cardinality(Queued) <= QueueCap
  /\ probes \in Seq([frontier : Entries, mutator : Families])
  /\ Len(probes) <= ProbeCap
  /\ next \in [Entries -> Nat] /\ saved \in [Entries -> Nat]
  /\ order \in [Lanes -> Orders \cup {None}]
  /\ sent \in 0..MaxOrders
  /\ waited \in [Classes -> Nat] /\ used \in [Entries -> Nat]
  /\ repeated \in BOOLEAN /\ killed \in BOOLEAN

(* The lookups of a queue's parent must not fail (the two `expect`s of the *)
(* dispatch): whatever is queued or under way descends from the corpus.    *)
FrontiersAreAdmitted ==
  /\ \A k \in Queued : k[1] \in corpus
  /\ \A n \in DOMAIN probes : probes[n].frontier \in corpus
  /\ \A l \in Lanes : order[l] # None => order[l].parent \in corpus

(* Each class has a home slot that is its own whatever other classes have  *)
(* work, though the round is taken modulo a sum that changes with them.    *)
Home(c) ==
  CASE c = Amplify -> Weights[1] [] c = Falsify -> Period - 1 [] OTHER -> 0

Since(c) == IF slot > Home(c) THEN slot - Home(c) - 1
                              ELSE slot + Period - Home(c) - 1

(* No class starves, however the availability of the others comes and goes:*)
(* one that has work never waits past its home slot, so less than Period   *)
(* orders.                                                                 *)
EveryClassServed ==
  \A c \in Classes : waited[c] > 0 => waited[c] <= Since(c)

(* Until a campaign dies without its checkpoint, no two orders on a parent *)
(* share a mutation index, also across campaigns.                          *)
IndicesNotRepeated == repeated => killed
=============================================================================
