----------------------------- MODULE WorkerBatch -----------------------------
(***************************************************************************)
(* What a worker sees of its executions and what it tells of them          *)
(* (target_runtime/worker.rs): the calibration, the compare ring and the coverage counters  *)
(* around the measurement window, the compare hits one execution leaves to *)
(* the mutation of the next, the drift tracker, the batch summary, and the *)
(* discoveries a result has room for.  One signal; what the target does is *)
(* free.  Deaths are in WorkerLane and Campaign.                           *)
(***************************************************************************)
EXTENDS Integers, FiniteSets, SequencesExt, TLC

CONSTANTS
  Pushes,      (* What the target may push in one execution: sequences of  *)
  Switch,      (* operands, and of switches, which leave no hit.           *)
  Around,      (* What the window's own instrumented code may push between *)
               (* reset and snapshot: [before, after] the target.          *)
  Edges,       (* Edges of the target,                                     *)
  Skeleton,    (* of the window around it,                                 *)
  Once,        (* of what the window runs the first times only, and        *)
  Outside,     (* of the code between two windows.                         *)
  Levels,      (* Values of the signal,                                    *)
  Parents,     (* and of the parent's: levels or Unseen.                   *)
  Unseen,      (* An untouched signal.                                     *)
  RingLen,     (* RING_LEN                                                 *)
  MaxHits,     (* MAX_CMP_EVENTS_PER_EXEC = MAX_CMP_HITS_PER_EXEC          *)
  MinRun, MinCum, LargeDelta,   (* The thresholds of interest.             *)
  Room,        (* MAX_DISCOVERIES_PER_RESULT                               *)
  Budget,      (* RESULT_BYTE_BUDGET                                       *)
  Orders, Size                  (* Bounds: orders, and executions of one.  *)

ASSUME BatchAssumption ==
  /\ RingLen \in Nat \ {0} /\ MaxHits \in Nat
  /\ Pushes \subseteq Seq(UNION {ToSet(es) : es \in Pushes})
  /\ Edges \cap (Skeleton \cup Once) = {}

OwnPushes == UNION {{o.before, o.after} : o \in Around}

ASSUME AroundAssumption ==
  /\ Around \subseteq [before : OwnPushes, after : OwnPushes]
  /\ OwnPushes \subseteq Seq(UNION {ToSet(es) : es \in OwnPushes})

VARIABLES
  doing,       (* "calibrating", "refused", "idle", "batch" or "told"      *)
  footprint,   (* calibrate_window's last, then footprint_set.             *)
  windows,     (* Windows a calibration under way has run.                 *)
  parent,      (* The signal of the order's parent.                        *)
  ring,        (* [head, tail, slots, over]                                *)
  hits,        (* last_cmp_hits                                            *)
  seen,        (* local_baseline                                           *)
  drift,       (* OrderSignalTracker: [run, dir, cum]                      *)
  summary,     (* SignalBatchSummary: [count, min, max, sum, run]          *)
  result,      (* [found, bytes, truncated]                                *)
  ran,         (* History: what the executions of the order really were.   *)
  orders       (* Orders taken.                                            *)

calibration == <<footprint, windows>>
batch == <<doing, calibration, parent, ring, hits, seen, drift, summary, result, ran, orders>>

-----------------------------------------------------------------------------
(* The ring of compare events. *)

EmptyRing == [head |-> 0, tail |-> 0, slots |-> [i \in 0..RingLen - 1 |-> Switch], over |-> FALSE]
ResetRing(r) == [r EXCEPT !.head = 0, !.tail = 0, !.over = FALSE]

(* push: when full, the oldest event gives way.                            *)
Push(r, e) ==
  LET full == r.tail - r.head >= RingLen
  IN  [head |-> IF full THEN r.head + 1 ELSE r.head, tail |-> r.tail + 1,
       slots |-> [r.slots EXCEPT ![r.tail % RingLen] = e], over |-> full]

Pushed(r, es) ==
  LET after[n \in 0..Len(es)] == IF n = 0 THEN r ELSE Push(after[n - 1], es[n])
  IN  after[Len(es)]

(* snapshot: the live events, oldest first, in at most two copies.         *)
Snapshot(r) ==
  LET n     == r.tail - r.head
      h     == r.head % RingLen
      first == IF n < RingLen - h THEN n ELSE RingLen - h
  IN  [i \in 1..first |-> r.slots[h + i - 1]] \o [i \in 1..n - first |-> r.slots[i - 1]]

Prefix(s, n) == SubSeq(s, 1, IF Len(s) < n THEN Len(s) ELSE n)

(* The hits a window leaves: a switch leaves none.                         *)
HitsOf(events) ==
  LET s == Prefix(events, MaxHits)
      of[n \in 0..Len(s)] == IF n = 0 THEN <<>>
                             ELSE IF s[n] = Switch THEN of[n - 1] ELSE Append(of[n - 1], s[n])
  IN  of[Len(s)]

-----------------------------------------------------------------------------
(* Signals against the parent's. *)

Base(x) == IF x = Unseen THEN 0 ELSE x
Delta(child) == Base(child) - Base(parent)
Mag(n) == IF n < 0 THEN -n ELSE n

(* magnitude_bucket: 0, or one more than the logarithm.                    *)
Bucket(m) == IF m = 0 THEN 0 ELSE CHOOSE b \in 1..m : 2 ^ (b - 1) <= m /\ m < 2 ^ b

(* The sketch: an untouched signal has no magnitude and no direction.      *)
Sketched(child) == IF child = Unseen THEN 0 ELSE Delta(child)
Dir(n) == IF n > 0 THEN 1 ELSE IF n < 0 THEN 2 ELSE 0

NoDrift == [run |-> 0, dir |-> 0, cum |-> 0]
Drifted(t, child) ==
  LET d == Dir(Sketched(child))
  IN  IF d = 0 THEN t
      ELSE [run |-> IF d = t.dir THEN t.run + 1 ELSE 1, dir |-> d, cum |-> t.cum + Mag(Delta(child))]

Persistent(t, child) ==
  Dir(Sketched(child)) # 0 /\ (t.run >= MinRun \/ Bucket(t.cum) >= MinCum)

Lesser(x, y) == IF x < y THEN x ELSE y
Greater(x, y) == IF x > y THEN x ELSE y
NoSummary == [count |-> 0, min |-> 99, max |-> 0, sum |-> 0, run |-> 0]
Summed(s, child) ==
  LET touched == child # Unseen
  IN  [s EXCEPT !.sum = @ + Mag(Delta(child)),
                !.count = IF touched THEN @ + 1 ELSE @,
                !.min = IF touched THEN Lesser(@, child) ELSE @,
                !.max = IF touched THEN Greater(@, child) ELSE @]

-----------------------------------------------------------------------------
(* The window, and the result. *)

(* Slip: the counters of the code between the windows are left standing.   *)
NotCleared == Outside

(* clear_all: what the code since the last scan has counted is wiped.      *)
Cleared == {}

(* What a window pushes: push has no filter, so the comparisons of the     *)
(* code around the target are in the ring with the target's own.           *)
Compared(own, es) == own.before \o es \o own.after

(* window_with: the counters and the ring are cleared, the target runs,    *)
(* the ring is read before the counters are scanned; its hits are kept.    *)
Window(own, es, feats) ==
  LET r   == Pushed(ResetRing(ring), Compared(own, es))
      all == Cleared \cup Skeleton \cup feats
  IN  [ring |-> r, events |-> Snapshot(r), features |-> all \ footprint]

(* apply is a function of the order, the index and the hits alone.         *)
Mutated(index, used) == [index |-> index, hits |-> used]

Interesting(w, child, t) ==
  \/ w.features \ seen # {}
  \/ child # Unseen /\ parent = Unseen
  \/ Persistent(t, child)
  \/ Bucket(Mag(Sketched(child))) >= LargeDelta

Estimate(d) == 1 + Cardinality(d.features) + Len(d.events) + Len(d.hits)

PushDiscovery(res, d) ==
  IF Len(res.found) >= Room \/ res.bytes + Estimate(d) > Budget
  THEN [res EXCEPT !.truncated = TRUE]
  ELSE [res EXCEPT !.found = Append(@, d), !.bytes = @ + Estimate(d)]

Discovery(index, w, child, used) ==
  [index |-> index, features |-> w.features, events |-> Prefix(w.events, MaxHits),
   hits |-> used, signal |-> child]

NoResult == [found |-> <<>>, bytes |-> 0, truncated |-> FALSE]

-----------------------------------------------------------------------------
(* calibrate_window, one empty window: until two in a row agree, the first *)
(* being compared with no feature at all; four that do not end the worker. *)
CalibrateWindow(own, extra) ==
  /\ doing = "calibrating"
  /\ LET w == Window(own, <<>>, {}) IN ring' = w.ring /\ hits' = HitsOf(w.events)
  /\ LET feats == Skeleton \cup extra IN
       \/ /\ feats = footprint /\ doing' = "idle"
          /\ windows' = 0 /\ UNCHANGED footprint
       \/ /\ feats # footprint
          /\ footprint' = feats /\ windows' = windows + 1
          /\ doing' = IF windows = 3 THEN "refused" ELSE doing
  /\ UNCHANGED <<parent, seen, drift, summary, result, ran, orders>>

TakeBatch(p) ==
  /\ doing \in {"idle", "told"} /\ orders < Orders
  /\ doing' = "batch" /\ parent' = p /\ orders' = orders + 1
  /\ drift' = NoDrift /\ summary' = NoSummary /\ result' = NoResult /\ ran' = <<>>
  /\ UNCHANGED <<calibration, ring, hits, seen>>

(* Slip: the hits recorded are those the execution itself left.            *)
UsedAfter(w) == HitsOf(w.events)
Used(w) == Prefix(hits, MaxHits)

Run(own, es, feats, child) ==
  /\ doing = "batch" /\ Len(ran) < Size
  /\ LET w == Window(own, es, feats)
         t == Drifted(drift, child)
         d == Discovery(Len(ran), w, child, Used(w))
     IN  /\ ring' = w.ring /\ hits' = HitsOf(w.events)
         /\ drift' = t /\ summary' = Summed(summary, child)
         /\ seen' = seen \cup w.features
         /\ result' = IF Interesting(w, child, t) THEN PushDiscovery(result, d) ELSE result
         /\ ran' = Append(ran, [candidate |-> Mutated(Len(ran), hits), around |-> own, pushed |-> es,
                                features |-> feats, signal |-> child, seen |-> seen])
  /\ UNCHANGED <<doing, calibration, parent, orders>>

FinalRun(s) == Greater(s.run, drift.run)

Tell ==
  /\ doing = "batch" /\ Len(ran) = Size
  /\ doing' = "told" /\ summary' = [summary EXCEPT !.run = FinalRun(summary)]
  /\ UNCHANGED <<calibration, parent, ring, hits, seen, drift, result, ran, orders>>

(* execute_override: status, features and signals only; its hits stay.     *)
RunOverride(own, es, feats) ==
  /\ doing \in {"idle", "told"} /\ orders < Orders /\ orders' = orders + 1
  /\ LET w == Window(own, es, feats)
     IN  ring' = w.ring /\ hits' = HitsOf(w.events)
  /\ UNCHANGED <<doing, calibration, parent, seen, drift, summary, result, ran>>

(* No order is left within the bound, or the worker has ended.             *)
Retire ==
  /\ doing = "refused" \/ (doing \in {"idle", "told"} /\ orders = Orders)
  /\ UNCHANGED batch

BatchInit ==
  /\ doing = "calibrating" /\ footprint = {} /\ windows = 0
  /\ parent = Unseen /\ ring = EmptyRing /\ hits = <<>>
  /\ seen = {} /\ drift = NoDrift /\ summary = NoSummary /\ result = NoResult
  /\ ran = <<>> /\ orders = 0

BatchNext ==
  \/ \E own \in Around, extra \in SUBSET Once : CalibrateWindow(own, extra)
  \/ \E p \in Parents : TakeBatch(p)
  \/ \E own \in Around, es \in Pushes, feats \in SUBSET Edges, child \in Levels \cup {Unseen} :
       Run(own, es, feats, child)
  \/ \E own \in Around, es \in Pushes, feats \in SUBSET Edges : RunOverride(own, es, feats)
  \/ Tell
  \/ Retire

BatchSpec == BatchInit /\ [][BatchNext]_batch

-----------------------------------------------------------------------------
Found == {result.found[i] : i \in DOMAIN result.found}
Was(d) == ran[d.index + 1]

(* The coordinator rebuilds a candidate from the order, the index and the  *)
(* hits of the record (reconstruct_candidate): it is the one that ran.     *)
Reconstructs == \A d \in Found : Mutated(d.index, d.hits) = Was(d).candidate

(* A discovery is about its own execution: exactly the edges the target    *)
(* covered and its signal, nothing of the code around it; and the first of *)
(* the newest RING_LEN comparisons made between this window's reset and    *)
(* snapshot, the window's own among the target's, none of an earlier       *)
(* execution or of the code between two windows.                           *)
Newest(s) == SubSeq(s, IF Len(s) > RingLen THEN Len(s) - RingLen + 1 ELSE 1, Len(s))
ReportsItsOwn ==
  \A d \in Found : /\ d.features = Was(d).features /\ d.signal = Was(d).signal
                   /\ d.events = Prefix(Newest(Compared(Was(d).around, Was(d).pushed)), MaxHits)

(* The moves of the first n executions, and the lengths of the stretches   *)
(* of them that go one way.                                                *)
Move(i) == IF ran[i].signal = Unseen THEN 0 ELSE Delta(ran[i].signal)
Moves(n) == SelectSeq([i \in 1..n |-> Dir(Move(i))], LAMBDA d : d # 0)
OneWay(s, i, j) == \A k \in i..j : s[k] = s[j]
Runs(s) == {p[2] - p[1] + 1 : p \in {q \in (DOMAIN s) \X (DOMAIN s) :
                                       q[1] <= q[2] /\ OneWay(s, q[1], q[2])}}

(* The summary's max_run is the "maximum same-direction run observed in    *)
(* the batch (persistence)" (signals.rs:478).                              *)
MaxRunIsMaximum == doing = "told" => \A n \in Runs(Moves(Len(ran))) : n <= summary.run
=============================================================================
