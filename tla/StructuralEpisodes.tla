------------------------ MODULE StructuralEpisodes ------------------------
(***************************************************************************)
(* The structural episodes of one root: each admitted edge is fed to the   *)
(* root's substrate, which calibrates every axis, keeps the verdict an     *)
(* axis got last, and opens and closes episodes; process_result stores the *)
(* verdicts of an edge and the episode it closed, one put after another,   *)
(* and rebuild derives the substrate again without storing anything.       *)
(*                                                                         *)
(* An edge is a function of the axes it moved: the value reached, and the  *)
(* policy state DSFB's chain (sign, grammar, dsa, policy) gives the axis   *)
(* there once it is calibrated.  The chain is deterministic, so a replay   *)
(* finds the policy that is part of the edge.                              *)
(***************************************************************************)
EXTENDS Integers, FiniteSets, Sequences, SequencesExt

CONSTANTS
  Axes, Reached, Policies,          (* Policies: the PolicyStates of axes. *)
  Together,                         (* The sets of axes an edge moves.     *)
  CalibrationWindows, DriftWindow,  (* BridgeConfig.                       *)
  MaxEdges, MaxCampaigns,           (* Bounds.                             *)
  NoSpan

ASSUME StructuralAssumption ==
  /\ {CalibrationWindows, MaxEdges, MaxCampaigns} \subseteq Nat
  /\ DriftWindow \in Nat \ {0} /\ Policies \in [Axes -> SUBSET (0..3)]
  /\ Together \subseteq SUBSET Axes
  /\ NoSpan \notin [open : Nat, peak : Nat, axes : SUBSET Axes, policy : 0..3]
  /\ NoSpan \notin [open : Nat, close : Nat, peak : Nat, axes : SUBSET Axes, policy : 0..3]

VARIABLES
  edges,       (* The store: the admitted edges, in admission order.       *)
  readings,    (* The store: StructuralVerdict objects, by ordinal.        *)
  spans,       (* The store: StructuralEpisode objects.                    *)
  running, arm,     (* Whether a campaign runs; its policy.residual.       *)
  substrate,        (* root_dsfb[root] with its root_ordinals.             *)
  rebuilt,          (* Edges rebuild has replayed, of those in the store.  *)
  owed,             (* What the admission in progress has still to put.    *)
  campaigns,        (* Campaigns started (bound).                          *)
  followed,         (* History: the substrate that all edges lead to.      *)
  unstored          (* History: edges not all of whose puts were made.     *)

structureVars ==
  <<edges, readings, spans, running, arm, substrate, rebuilt, owed, campaigns,
    followed, unstored>>

Silent == 0
Watch  == 1
Review == 2

NewStream == [mode |-> "calibrating", calib |-> <<>>, sticky |-> Silent]
NewSubstrate ==
  [fed |-> FALSE, ordinal |-> 0, streams |-> [a \in Axes |-> NewStream],
   open |-> NoSpan, quiet |-> 0]

MaxCalibration == Max({2 * CalibrationWindows, 3})

(* The envelope's radius is positive once two values of the segment differ.*)
Varied(c) == Len(c) >= CalibrationWindows /\ Cardinality(ToSet(c)) > 1

(* The push that calibrates is evaluated; a discrete axis stays silent.    *)
Push(s, r) ==
  LET c == Append(s.calib, r.value)
  IN  IF s.mode = "discrete" THEN s
      ELSE IF s.mode = "calibrated" \/ Varied(c)
        THEN [mode |-> "calibrated", calib |-> <<>>, sticky |-> r.policy]
      ELSE IF Len(c) >= MaxCalibration
        THEN [mode |-> "discrete", calib |-> <<>>, sticky |-> Silent]
      ELSE [s EXCEPT !.calib = c]

(* The axes the edge moved that are now at a level or higher.              *)
At(level, sub, e) == {a \in DOMAIN e : sub.streams[a].sticky >= level}

(* Slip: an edge is quiet when none of the axes it moved is in review.     *)
ActiveWhenFresh(sub, e) == At(Review, sub, e) # {}
(* An axis the edge did not move keeps its verdict and the episode open.   *)
Active(sub, e) == \E a \in Axes : sub.streams[a].sticky >= Review

(* advance_episode *)
OpenOrStay(sub, e) ==
  LET fresh == At(Review, sub, e)
  IN  [sub EXCEPT !.quiet = 0,
         !.open = IF ~Active(sub, e) THEN NoSpan
                  ELSE [open |-> sub.ordinal, peak |-> sub.ordinal, axes |-> fresh,
                        policy |-> Max({Review} \cup {sub.streams[a].sticky : a \in fresh})]]

Continue(sub, e) ==
  LET fresh == At(Review, sub, e)
  IN  [sub EXCEPT !.quiet = 0,
         !.open.peak = sub.ordinal, !.open.axes = @ \cup fresh,
         !.open.policy = Max({@} \cup {sub.streams[a].sticky : a \in fresh})]

Quieten(sub) ==
  IF sub.quiet + 1 >= DriftWindow THEN [sub EXCEPT !.open = NoSpan, !.quiet = 0]
  ELSE [sub EXCEPT !.quiet = @ + 1]

AdvanceEpisode(sub, e) ==
  CASE sub.open = NoSpan -> OpenOrStay(sub, e)
    [] sub.open # NoSpan /\ Active(sub, e) -> Continue(sub, e)
    [] OTHER -> Quieten(sub)

(* The substrate of a root is made by the first edge that moves anything.  *)
FeedEdge(sub, e) ==
  IF ~sub.fed /\ DOMAIN e = {} THEN sub
  ELSE AdvanceEpisode(
         [sub EXCEPT !.fed = TRUE, !.ordinal = @ + 1,
            !.streams = [a \in Axes |-> IF a \in DOMAIN e THEN Push(@[a], e[a]) ELSE @[a]]],
         e)

ClosedAt(before, after) ==
  IF before.open # NoSpan /\ after.open = NoSpan
    THEN [open |-> before.open.open, close |-> after.ordinal, peak |-> before.open.peak,
          axes |-> before.open.axes, policy |-> before.open.policy]
    ELSE NoSpan

Nothing == [reading |-> FALSE, span |-> NoSpan]

Resume(r) ==
  /\ ~running /\ campaigns < MaxCampaigns
  /\ running' = TRUE /\ arm' = r /\ campaigns' = campaigns + 1
  /\ UNCHANGED <<edges, readings, spans, substrate, rebuilt, owed, followed, unstored>>

(* rebuild feeds an edge if the channel is on, and stores nothing.         *)
Rederive ==
  /\ running /\ rebuilt < Len(edges)
  /\ rebuilt' = rebuilt + 1
  /\ substrate' = IF arm THEN FeedEdge(substrate, edges[rebuilt']) ELSE substrate
  /\ UNCHANGED <<edges, readings, spans, running, arm, owed, campaigns, followed, unstored>>

Admitting == running /\ rebuilt = Len(edges) /\ owed = Nothing /\ Len(edges) < MaxEdges

(* The put of an edge's meta, and what is fed to memory with it.           *)
AdmitEdge(e) ==
  /\ Admitting
  /\ edges' = Append(edges, e) /\ rebuilt' = rebuilt + 1
  /\ followed' = FeedEdge(followed, e)
  /\ IF arm
       THEN /\ substrate' = FeedEdge(substrate, e)
            /\ owed' = [reading |-> At(Watch, substrate', e) # {},
                        span |-> ClosedAt(substrate, substrate')]
            /\ UNCHANGED unstored
       ELSE /\ unstored' = unstored \cup {followed'.ordinal}
            /\ UNCHANGED <<substrate, owed>>
  /\ UNCHANGED <<readings, spans, running, arm, campaigns>>

PutReading ==
  /\ owed.reading
  /\ readings' = readings \cup {substrate.ordinal}
  /\ owed' = [owed EXCEPT !.reading = FALSE]
  /\ UNCHANGED <<edges, spans, running, arm, substrate, rebuilt, campaigns, followed, unstored>>

PutSpan ==
  /\ ~owed.reading /\ owed.span # NoSpan
  /\ spans' = spans \cup {owed.span}
  /\ owed' = Nothing
  /\ UNCHANGED <<edges, readings, running, arm, substrate, rebuilt, campaigns, followed, unstored>>

(* The campaign ends, or is killed between any two puts.                   *)
Stop ==
  /\ running /\ running' = FALSE /\ arm' = FALSE
  /\ substrate' = NewSubstrate /\ rebuilt' = 0 /\ owed' = Nothing
  /\ unstored' = unstored \cup (IF owed = Nothing THEN {} ELSE {substrate.ordinal})
  /\ UNCHANGED <<edges, readings, spans, campaigns, followed>>

StructureInit ==
  /\ edges = <<>> /\ readings = {} /\ spans = {} /\ running = FALSE /\ arm = FALSE
  /\ substrate = NewSubstrate /\ rebuilt = 0 /\ owed = Nothing /\ campaigns = 0
  /\ followed = NewSubstrate /\ unstored = {}

(* The edges that can come next: what the chain says of an axis counts     *)
(* only where the axis is calibrated, its value only until then, and of    *)
(* the values only whether they differ.                                    *)
Judged(a) ==
  LET s     == followed.streams[a]
      first == CHOOSE v \in Reached : TRUE
  IN  {r \in [value : Reached, policy : Policies[a] \cup {Silent}] :
         /\ r.policy \in (IF Push(s, r).mode = "calibrated" THEN Policies[a] ELSE {Silent})
         /\ (s.mode # "calibrating" \/ s.calib = <<>>) => r.value = first}
NextEdges ==
  LET judged == [a \in Axes |-> Judged(a)]
  IN  UNION {{e \in [m -> UNION {judged[a] : a \in m}] : \A a \in m : e[a] \in judged[a]} :
               m \in Together}

(* All campaigns have run. *)
StructureRest == ~running /\ campaigns = MaxCampaigns /\ UNCHANGED structureVars

StructureNext ==
  \/ \E r \in BOOLEAN : Resume(r)
  \/ Admitting /\ (\E e \in NextEdges : AdmitEdge(e))
  \/ Rederive \/ PutReading \/ PutSpan \/ Stop \/ StructureRest

StructureSpec == StructureInit /\ [][StructureNext]_structureVars

-----------------------------------------------------------------------------
(* The reference definition, over the edges since the first that moved an  *)
(* axis: the policy of an axis is that of its last move since it was       *)
(* calibrated, and an episode lasts from an edge with an axis in review    *)
(* after DriftWindow edges without one to the next DriftWindow such edges. *)
FromFirstMove ==
  SubSeq(edges, Min({k \in DOMAIN edges : DOMAIN edges[k] # {}} \cup {Len(edges) + 1}), Len(edges))
Moves(m, a, k) == {j \in 1..k : a \in DOMAIN m[j]}
CalibratedBy(m, a, k) ==
  \E j \in Moves(m, a, k) :
    /\ Cardinality(Moves(m, a, j)) \in CalibrationWindows..MaxCalibration
    /\ Cardinality({m[i][a].value : i \in Moves(m, a, j)}) > 1
PolicyOf(m, a, k) ==
  IF CalibratedBy(m, a, k) THEN m[Max(Moves(m, a, k))][a].policy ELSE Silent
Loud(p, k) == \E a \in Axes : p[k][a] >= Review
QuietFor(p, k, n) == \A j \in Max({1, k - n + 1})..k : ~Loud(p, j)
IsSpan(p, o, c) ==
  /\ o <= c - DriftWindow /\ Loud(p, o)
  /\ QuietFor(p, o - 1, DriftWindow) /\ QuietFor(p, c, DriftWindow)
  /\ \A k \in (o + DriftWindow)..(c - 1) : ~QuietFor(p, k, DriftWindow)

(* Nothing structural is lost but what a kill or a campaign without the    *)
(* residual channel kept from being put, and nothing is made up: between   *)
(* two admissions the stored episodes are those of the edges, whoever      *)
(* admitted them, each with the axes that were moved into review, at least *)
(* one, and their highest policy; and each edge with an axis at Watch has  *)
(* its verdicts.  feed_edge, advance_episode, rebuild, process_result.     *)
StructureKept ==
  owed = Nothing =>
    LET m == FromFirstMove
        p == [k \in DOMAIN m |-> [a \in Axes |-> PolicyOf(m, a, k)]]
        moved(k, level) == {a \in DOMAIN m[k] : p[k][a] >= level}
    IN  /\ \A s \in spans :
             /\ IsSpan(p, s.open, s.close) /\ s.peak = s.close - DriftWindow
             /\ s.axes = UNION {moved(k, Review) : k \in s.open..s.close} /\ s.axes # {}
             /\ s.policy = Max({p[k][a] : a \in s.axes, k \in s.open..s.close})
        /\ \A c \in DOMAIN m \ unstored :
             /\ moved(c, Watch) # {} => c \in readings
             /\ \A o \in 1..c : IsSpan(p, o, c) =>
                  \E s \in spans : s.open = o /\ s.close = c
=============================================================================
