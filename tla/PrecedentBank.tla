--------------------------- MODULE PrecedentBank ---------------------------
(***************************************************************************)
(* The durable precedents and the probes that test them (precedent/ and    *)
(* the probe queue of execute/coordinator.rs), through stops and restarts  *)
(* of the coordinator.                                                     *)
(*                                                                         *)
(* A precedent family is a (root, mutator, profile); its history is a chain*)
(* of immutable revisions in the store.  Mutators do not interact (matching*)
(* and every key compare them), so the model has one.  Whether a live shape*)
(* subsumes a profile is a free choice.                                    *)
(*                                                                         *)
(* The coordinator is one thread; process_result is split into one step per*)
(* admitted entry and one for the probe outcome, and handle_worker_death   *)
(* into the probe outcome and the admission of a family: the campaign may  *)
(* be killed between them, and no other step can tell them apart.          *)
(***************************************************************************)
EXTENDS Naturals, Sequences, FiniteSets

CONSTANTS
  Roots,          (* Seed entries; lineages descend from them.             *)
  Profiles,       (* Prefix profiles, by identity.                         *)
  Lanes,
  Ids,            (* Content ids, in the order list_object_ids visits them.*)
  MaxProbes,      (* MAX_PROBE_ENTRIES.                                    *)
  MaxLoaded,      (* MAX_LOADED_PRECEDENTS.                                *)
  Enough,         (* Contradictions that refute a family: 3.               *)
  MaxAdmissions,  (* Bound: corpus entries admitted.                       *)
  MaxStops,       (* Bound: ends of a campaign, of whatever kind.          *)
  Summaries,      (* What a batch reports of the probed axis: executions   *)
                  (* that moved it, longest run, magnitude bucket.         *)
  Recipe,         (* What a probe demands of them: the same three, minima. *)
  None

ASSUME IdsAssumption == Ids \subseteq Nat /\ None \notin Ids
ASSUME LimitsAssumption ==
  /\ MaxProbes \in Nat /\ MaxLoaded \in Nat /\ Enough \in Nat \ {0}
  /\ MaxAdmissions \in Nat /\ MaxStops \in Nat
ASSUME SummariesAssumption ==
  \A s \in Summaries \cup {Recipe} :
    s.moved \in Nat /\ s.run \in Nat /\ s.bucket \in Nat

VARIABLES
  revs,       (* The store: the revision with each id, or None.            *)
  seq,        (* admission_seq; durable, as every admission writes its meta.*)
  running,    (* Is a campaign running?                                    *)
  current,    (* state.precedents: the current revision of each family.    *)
  queue,      (* state.probes, in seq order.                               *)
  inflight,   (* state.probe_inflight.                                     *)
  pend,       (* The probe each lane's pending order tests, or None.       *)
  stops       (* Campaigns ended so far (bound).                           *)

store  == <<revs, seq>>
memory == <<current, queue, inflight, pend>>
vars   == <<store, memory, running, stops>>

Families == Roots \X Profiles
Statuses == {"candidate", "confirmed", "contradicted"}
Outcomes == {"support", "direct", "partial", "ambiguous"}

Revision ==
  [fam : Families, prev : Ids \cup {None}, seq : 0..MaxAdmissions,
   status : Statuses, sup : Nat, con : Nat, amb : Nat,
   last : Outcomes \cup {None}]

(* A probe: the revision matched, on which live root. *)
Probe == [root : Roots, rev : Ids]

ASSUME NoneAssumption == None \notin Revision \cup Probe \cup Outcomes

Free   == {i \in Ids : revs[i] = None}
Stored == Ids \ Free
Of(f)  == {i \in Stored : revs[i].fam = f}

Schedulable(f) ==
  current[f] # None /\ revs[current[f]].status \in {"candidate", "confirmed"}

FamilyOf(probe) == revs[probe.rev].fam

(* probe_key: the live root, the mutator and the profile; two families of  *)
(* one profile share it.                                                   *)
Key(probe) == <<probe.root, FamilyOf(probe)[2]>>

Queued(r) == \E n \in 1..Len(queue) : queue[n].root = r

-----------------------------------------------------------------------------
(* Admissions of corpus entries, and the probes they enqueue. *)

Admit ==
  /\ running /\ seq < MaxAdmissions
  /\ seq' = seq + 1
  /\ UNCHANGED <<revs, memory, running, stops>>

(* Slip: no look at what is under way already. *)
EnqueueAgain(r, f) ==
  Schedulable(f) /\ ~Queued(r) /\ Len(queue) < MaxProbes

(* enqueue_precedent_probes, for the one match it can enqueue: the first   *)
(* entry it queues for a root keeps the other matches of the edge out.     *)
MayEnqueue(r, f) ==
  /\ Schedulable(f)
  /\ <<r, f[2]>> \notin inflight
  /\ ~Queued(r)
  /\ Len(queue) < MaxProbes

AdmitAndMatch(r, f) ==
  /\ running /\ seq < MaxAdmissions
  /\ MayEnqueue(r, f)
  /\ seq' = seq + 1
  /\ queue' = Append(queue, [root |-> r, rev |-> current[f]])
  /\ UNCHANGED <<revs, current, inflight, pend, running, stops>>

(* A probe class was picked: the earliest queued probe goes to an idle lane.*)
Dispatch(l) ==
  /\ running /\ pend[l] = None /\ queue # <<>>
  /\ pend' = [pend EXCEPT ![l] = Head(queue)]
  /\ inflight' = inflight \cup {Key(Head(queue))}
  /\ queue' = Tail(queue)
  /\ UNCHANGED <<store, current, running, stops>>

-----------------------------------------------------------------------------
(* Revisions. *)

(* save_revision; the new object's id is a hash, so any unused one.        *)
Save(i, rev) ==
  /\ revs' = [revs EXCEPT ![i] = rev]
  /\ current' = [current EXCEPT ![rev.fam] = i]

(* maybe_admit_precedent: a structured lineage reached a terminal event.   *)
TerminalFirst(f, i) ==
  /\ running /\ current[f] = None /\ i \in Free
  /\ Save(i, [fam |-> f, prev |-> None, seq |-> seq, status |-> "candidate",
              sup |-> 0, con |-> 0, amb |-> 0, last |-> None])
  /\ UNCHANGED <<seq, queue, inflight, pend, running, stops>>

(* evaluate, for the one expectation that is ever derived: that the axis   *)
(* goes on moving.  A contradiction is direct if it did not move at all    *)
(* (contradiction_weight).                                                 *)
Judged(s) ==
  CASE /\ s.moved >= Recipe.moved
       /\ s.run >= Recipe.run
       /\ s.bucket >= Recipe.bucket -> "support"
    [] OTHER -> IF s.moved = 0 THEN "direct"
                ELSE IF s.bucket + 1 < Recipe.bucket THEN "partial" ELSE "ambiguous"

(* A probe's worker that dies reached the terminal event: a support.       *)
ProbeEnds == {"support"} \cup {Judged(s) : s \in Summaries}

Contradicts(o) == o \in {"direct", "partial"}
One(b) == IF b THEN 1 ELSE 0

(* Slip: a support confirms whatever the status was. *)
SupportAlways(s, con, o) ==
  IF o = "support" THEN "confirmed"
  ELSE IF o = "direct" \/ (o = "partial" /\ con >= Enough) THEN "contradicted"
  ELSE s

(* apply_probe's status, con counting the outcome o. *)
StatusAfter(s, con, o) ==
  IF o = "support" /\ s = "candidate" THEN "confirmed"
  ELSE IF o = "direct" \/ (o = "partial" /\ con >= Enough) THEN "contradicted"
  ELSE s

(* Slip: the revision the probe was queued with, not the current one. *)
BaseAsQueued(probe) == probe.rev

(* record_probe_result looks the family up again. *)
Base(probe) == current[FamilyOf(probe)]

(* persist_probe_update *)
Updated(base, o) ==
  LET con == revs[base].con + One(Contradicts(o))
  IN [revs[base] EXCEPT
        !.prev = current[revs[base].fam], !.seq = seq,
        !.status = StatusAfter(revs[base].status, con, o),
        !.sup = @ + One(o = "support"), !.con = con,
        !.amb = @ + One(o = "ambiguous"), !.last = o]

(* A probe order ended with the outcome o: its result was evaluated, or its*)
(* worker died on an attributable input.                                   *)
ProbeOutcome(l, o, i) ==
  /\ running /\ pend[l] # None /\ i \in Free
  /\ Save(i, Updated(Base(pend[l]), o))
  /\ inflight' = inflight \ {Key(pend[l])}
  /\ pend' = [pend EXCEPT ![l] = None]
  /\ UNCHANGED <<seq, queue, running, stops>>

(* The worker of a probe order died and no input could be held responsible.*)
ProbeLost(l) ==
  /\ running /\ pend[l] # None
  /\ pend' = [pend EXCEPT ![l] = None]
  /\ UNCHANGED <<store, current, queue, inflight, running, stops>>

-----------------------------------------------------------------------------
(* Campaigns. *)

NoBank   == [f \in Families |-> None]
NoOrders == [l \in Lanes |-> None]

(* The campaign ends, gracefully or not: its memory is gone. *)
Stop ==
  /\ running /\ stops < MaxStops
  /\ running' = FALSE /\ stops' = stops + 1
  /\ current' = NoBank /\ queue' = <<>> /\ inflight' = {} /\ pend' = NoOrders
  /\ UNCHANGED <<store>>

Loadable == Cardinality(Stored) <= MaxLoaded

(* load_current: the greatest updated_seq, and the lowest id among equals. *)
Loaded(f) ==
  IF Of(f) = {} THEN None
  ELSE CHOOSE i \in Of(f) : \A j \in Of(f) :
         \/ revs[i].seq > revs[j].seq
         \/ revs[i].seq = revs[j].seq /\ i <= j

Start ==
  /\ ~running /\ Loadable
  /\ running' = TRUE
  /\ current' = [f \in Families |-> Loaded(f)]
  /\ UNCHANGED <<store, queue, inflight, pend, stops>>

-----------------------------------------------------------------------------
Init ==
  /\ revs = [i \in Ids |-> None] /\ seq = 0
  /\ running = TRUE
  /\ current = NoBank /\ queue = <<>> /\ inflight = {} /\ pend = NoOrders
  /\ stops = 0

(* A bank the next campaign refuses to load, or all bounds reached. *)
Rest == (running => Free = {} \/ stops = MaxStops) /\ UNCHANGED vars

Next ==
  \/ Admit
  \/ \E r \in Roots, f \in Families : AdmitAndMatch(r, f)
  \/ \E l \in Lanes : Dispatch(l)
  \/ \E f \in Families, i \in Ids : TerminalFirst(f, i)
  \/ \E l \in Lanes, o \in ProbeEnds, i \in Ids : ProbeOutcome(l, o, i)
  \/ \E l \in Lanes : ProbeLost(l)
  \/ Stop
  \/ Start
  \/ Rest

Spec == Init /\ [][Next]_vars

-----------------------------------------------------------------------------
(* What must hold. *)

TypeOK ==
  /\ revs \in [Ids -> {None} \cup Revision]
  /\ seq \in 0..MaxAdmissions
  /\ running \in BOOLEAN
  /\ current \in [Families -> {None} \cup Ids]
  /\ queue \in Seq(Probe) /\ Len(queue) <= MaxProbes
  /\ inflight \subseteq Roots \X Profiles
  /\ pend \in [Lanes -> {None} \cup Probe]
  /\ stops \in 0..MaxStops

Busy == {l \in Lanes : pend[l] # None}

(* One live lineage is never probed twice at once for one profile, and no  *)
(* probe is queued that is already under way.                              *)
OneProbePerKey ==
  /\ \A l, k \in Busy : Key(pend[l]) = Key(pend[k]) => l = k
  /\ \A l \in Busy : Key(pend[l]) \in inflight
  /\ \A n \in 1..Len(queue) : Key(queue[n]) \notin inflight

(* No probe outcome is lost or counted twice: each revision counts what its*)
(* predecessor counted and the one outcome it was written for, also when   *)
(* several probes of a family are out and their outcomes arrive in any     *)
(* order.                                                                  *)
EveryOutcomeCounted ==
  \A i \in Stored : LET r == revs[i] IN
    IF r.prev = None
      THEN r.sup + r.con + r.amb = 0
      ELSE /\ r.prev \in Of(r.fam)
           /\ LET p == revs[r.prev] IN
                /\ r.sup = p.sup + One(r.last = "support")
                /\ r.con = p.con + One(r.last \in {"direct", "partial"})
                /\ r.amb = p.amb + One(r.last = "ambiguous")
                /\ r.seq >= p.seq

(* "Contradicted -> terminal": a revision is contradicted exactly when its *)
(* chain holds a direct refutation or three contradictions, and no later   *)
(* support undoes that; otherwise it is a candidate until supported.       *)
StatusFollowsHistory ==
  \A i \in Stored : LET r == revs[i] IN
    /\ r.status = "contradicted" <=>
         \/ r.last = "direct"
         \/ r.con >= Enough
         \/ r.prev # None /\ revs[r.prev].status = "contradicted"
    /\ r.status = "candidate" => r.sup = 0
=============================================================================
