---------------------------- MODULE FeatureSync ----------------------------
(***************************************************************************)
(* Who knows which coverage feature: the corpus index, the deltas the      *)
(* coordinator sends with its orders (execute/coordinator.rs), and the     *)
(* baseline by which each worker suppresses what it takes for known        *)
(* (target_runtime/worker.rs).                                             *)
(*                                                                         *)
(* A discovery is the set of features of one execution.  A discovery whose *)
(* features are news is admitted, unless the target is not deterministic   *)
(* and its input is in the corpus already.  Deaths outside an order, and   *)
(* sending to a dead worker, are in Campaign.                              *)
(***************************************************************************)
EXTENDS Naturals, Sequences

CONSTANTS
  Features,
  Lanes,
  Batch,      (* Executions of an order.                                   *)
  MaxDisc,    (* MAX_DISCOVERIES_PER_RESULT                                *)
  MaxDeaths   (* Bound: workers dying.                                     *)

ASSUME BoundsAssumption ==
  Batch \in Nat \ {0} /\ MaxDisc \in Nat \ {0} /\ MaxDeaths \in Nat

VARIABLES
  polling,    (* Is the coordinator in the poll, or before the dispatch?   *)
  known,      (* index.global_features()                                   *)
  deltas,     (* Features admitted since the last dispatch.                *)
  at,         (* What each lane's worker is doing.                         *)
  order,      (* The delta in each lane's order.                           *)
  left,       (* Executions left of the order.                             *)
  baseline,   (* local_baseline of each worker.                            *)
  disc,       (* The discoveries of the batch, or of its result.           *)
  dropped,    (* History: features a worker suppresses although nobody     *)
              (* keeps them: truncated, or of an input already known.      *)
  deaths

coordinator == <<polling, known, deltas, order>>
worker      == <<left, baseline, disc>>
vars        == <<coordinator, at, worker, dropped, deaths>>

Idle == {l \in Lanes : at[l] = "idle"}

Put(f, l, v) == [f EXCEPT ![l] = v]

(* All the features of a set of discoveries of lane l. *)
FeaturesIn(l, ks) == UNION {disc[l][k] : k \in ks}
Reported(l) == FeaturesIn(l, DOMAIN disc[l])

-----------------------------------------------------------------------------
(* The coordinator. *)

(* Every lane without an order gets one with the deltas, which are then    *)
(* cleared.                                                                *)
Dispatch ==
  /\ ~polling /\ polling' = TRUE
  /\ at' = [l \in Lanes |-> IF l \in Idle THEN "order" ELSE at[l]]
  /\ order' = [l \in Lanes |-> IF l \in Idle THEN deltas ELSE order[l]]
  /\ deltas' = {}
  /\ UNCHANGED <<known, worker, dropped, deaths>>

NewGlobal(l, admitted) == FeaturesIn(l, admitted) \ known

(* process_result; again are the discoveries whose input is known. *)
Process(l, again) ==
  /\ polling /\ polling' = FALSE
  /\ at[l] = "result"
  /\ LET admitted == DOMAIN disc[l] \ again IN
       /\ known' = known \cup FeaturesIn(l, admitted)
       /\ deltas' = deltas \cup NewGlobal(l, admitted)
       /\ dropped' = Put(dropped, l, dropped[l] \cup FeaturesIn(l, again))
  /\ at' = Put(at, l, "idle") /\ disc' = Put(disc, l, <<>>)
  /\ order' = Put(order, l, {})
  /\ UNCHANGED <<left, baseline, deaths>>

(* Slip: the new worker is told what the old one had suppressed. *)
BaselineKept(l) == baseline[l]
FirstBaseline(l) == {}

(* handle_worker_death: the order is dropped and the worker restarted. *)
HandleDeath(l) ==
  /\ polling /\ polling' = FALSE
  /\ at[l] = "dead"
  /\ at' = Put(at, l, "idle") /\ order' = Put(order, l, {})
  /\ baseline' = Put(baseline, l, FirstBaseline(l))
  /\ disc' = Put(disc, l, <<>>) /\ dropped' = Put(dropped, l, {})
  /\ UNCHANGED <<known, deltas, left, deaths>>

-----------------------------------------------------------------------------
(* A worker. *)

TakeOrder(l) ==
  /\ at[l] = "order" /\ at' = Put(at, l, "run")
  /\ baseline' = Put(baseline, l, baseline[l] \cup order[l])
  /\ left' = Put(left, l, Batch)
  /\ UNCHANGED <<coordinator, disc, dropped, deaths>>

(* push_discovery: is there room for another discovery? *)
Fits(l) == Len(disc[l]) < MaxDisc

(* One execution.  It is reported when a feature is locally new, or when   *)
(* its signals are of interest; while there is room for another, it may    *)
(* still not fit the byte budget, beside others or on its own.             *)
Execute(l, feats, signals, small) ==
  /\ at[l] = "run" /\ left[l] > 0 /\ left' = Put(left, l, left[l] - 1)
  /\ baseline' = Put(baseline, l, baseline[l] \cup feats)
  /\ LET novel == feats \ baseline[l] IN
     IF novel = {} /\ ~signals
       THEN UNCHANGED <<disc, dropped>>
       ELSE IF Fits(l) /\ small
       THEN disc' = Put(disc, l, Append(disc[l], feats)) /\ dropped' = dropped
       ELSE dropped' = Put(dropped, l, dropped[l] \cup novel) /\ disc' = disc
  /\ UNCHANGED <<coordinator, at, deaths>>

Answer(l) ==
  /\ at[l] = "run" /\ left[l] = 0 /\ at' = Put(at, l, "result")
  /\ UNCHANGED <<coordinator, worker, dropped, deaths>>

Die(l) ==
  /\ at[l] \in {"order", "run"} /\ at' = Put(at, l, "dead")
  /\ deaths < MaxDeaths /\ deaths' = deaths + 1
  /\ UNCHANGED <<coordinator, worker, dropped>>

-----------------------------------------------------------------------------
(* The corpus has been seeded; no worker's baseline knows of it. *)
Init ==
  /\ polling = FALSE /\ known \in SUBSET Features /\ deltas = {}
  /\ at = [l \in Lanes |-> "idle"] /\ order = [l \in Lanes |-> {}]
  /\ left = [l \in Lanes |-> 0] /\ baseline = [l \in Lanes |-> {}]
  /\ disc = [l \in Lanes |-> <<>>] /\ dropped = [l \in Lanes |-> {}]
  /\ deaths = 0

Next ==
  \/ Dispatch
  \/ \E l \in Lanes : \E again \in SUBSET DOMAIN disc[l] : Process(l, again)
  \/ \E l \in Lanes : HandleDeath(l)
  \/ \E l \in Lanes : TakeOrder(l)
  \/ \E l \in Lanes, feats \in SUBSET Features, signals, small \in BOOLEAN :
       Execute(l, feats, signals, small)
  \/ \E l \in Lanes : Answer(l)
  \/ \E l \in Lanes : Die(l)

Spec == Init /\ [][Next]_vars

-----------------------------------------------------------------------------
(* What must hold. *)

TypeOK ==
  /\ polling \in BOOLEAN
  /\ known \subseteq Features /\ deltas \subseteq Features
  /\ at \in [Lanes -> {"idle", "order", "run", "result", "dead"}]
  /\ order \in [Lanes -> SUBSET Features]
  /\ left \in [Lanes -> 0..Batch]
  /\ baseline \in [Lanes -> SUBSET Features]
  /\ disc \in [Lanes -> Seq(SUBSET Features)]
  /\ \A l \in Lanes : Len(disc[l]) <= MaxDisc
  /\ dropped \in [Lanes -> SUBSET Features]
  /\ deaths \in 0..MaxDeaths

(* No coverage is lost silently: what a worker suppresses is in the corpus,*)
(* on its way there, or was truncated or refused (worker.rs:459-467).      *)
SuppressedIsReported ==
  \A l \in Lanes : baseline[l] \subseteq known \cup Reported(l) \cup dropped[l]

(* A worker is never told to suppress a feature the corpus does not hold,  *)
(* whatever was refused, truncated or lost with a worker meanwhile.        *)
DeltasAreAdmitted ==
  deltas \subseteq known /\ \A l \in Lanes : order[l] \subseteq known

=============================================================================
