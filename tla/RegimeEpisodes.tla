--------------------------- MODULE RegimeEpisodes ---------------------------
(***************************************************************************)
(* The regime episodes of one signal of one lineage, across campaigns:     *)
(* process_result feeds the observer with each admitted entry and stores   *)
(* the episode that closed, rebuild feeds a new observer with all entries  *)
(* the store holds and stores their episodes again, and the coordinator    *)
(* may be killed between any two puts.                                     *)
(*                                                                         *)
(* An entry is the value of the signal if it differs from the parent's,    *)
(* else Still: the observer is fed with moved axes only.  The parent is    *)
(* any entry of the root, of this lineage or not, so value and movement    *)
(* are free.  Seeds are no edges and do not appear.                        *)
(***************************************************************************)
EXTENDS RegimeObserver, FiniteSets, Sequences

CONSTANTS
  Values, Still,
  MaxEntries, MaxStarts,  (* Bounds: entries admitted, campaigns started.  *)
  Settling                (* Samples within which a flat signal settles.   *)

ASSUME EpisodesAssumption ==
  /\ Values \subseteq Int /\ Still \notin Values
  /\ {MaxEntries, MaxStarts, Settling} \subseteq Nat

VARIABLES
  metas,      (* The store: the lineage's entries in admission order.      *)
  episodes,   (* The store: the RegimeEpisode objects.                     *)
  phase,      (* "off", "rebuild" or "on"                                  *)
  residual,   (* policy.residual of the campaign.                          *)
  observer, ordinal,  (* LineageState                                      *)
  toWrite,    (* The episode that closed and is not stored yet, or None.   *)
  starts,     (* Campaigns started so far (bound).                         *)
  closed      (* History: the episodes that ever closed.                   *)

store  == <<metas, episodes>>
memory == <<observer, ordinal>>
vars   == <<store, phase, residual, memory, toWrite, starts, closed>>

Some(e) == {e} \ {None}

(* Start of a campaign: rebuild begins with a fresh LineageState. *)
Start(r) ==
  /\ phase = "off" /\ starts < MaxStarts /\ starts' = starts + 1
  /\ phase' = "rebuild" /\ residual' = r
  /\ observer' = New /\ ordinal' = 0
  /\ UNCHANGED <<store, toWrite, closed>>

(* Slip: rebuild's own comment, "nothing new is persisted here". *)
ReplaySilently ==
  /\ phase = "rebuild" /\ ordinal < Len(metas)
  /\ ordinal' = ordinal + 1
  /\ IF metas[ordinal'] = Still
       THEN UNCHANGED <<observer, episodes, closed>>
       ELSE /\ observer' = Feed(observer, ordinal', metas[ordinal'])
            /\ closed' = closed \cup
                 Some(ClosedBy(observer, ordinal', metas[ordinal']))
            /\ UNCHANGED episodes
  /\ UNCHANGED <<metas, phase, residual, toWrite, starts>>

(* Slip: rebuild feeds the observer with every entry, moved or not. *)
ReplayAll ==
  /\ phase = "rebuild" /\ ordinal < Len(metas)
  /\ ordinal' = ordinal + 1
  /\ LET v == IF metas[ordinal'] # Still THEN metas[ordinal']
              ELSE IF observer.prev # None THEN observer.prev ELSE 0
         e == ClosedBy(observer, ordinal', v) IN
       /\ observer' = Feed(observer, ordinal', v)
       /\ episodes' = episodes \cup Some(e)
       /\ closed' = closed \cup Some(e)
  /\ UNCHANGED <<metas, phase, residual, toWrite, starts>>

(* One entry in rebuild's loop; an episode is written whatever residual is.*)
Replay ==
  /\ phase = "rebuild" /\ ordinal < Len(metas)
  /\ ordinal' = ordinal + 1
  /\ IF metas[ordinal'] = Still
       THEN UNCHANGED <<observer, episodes, closed>>
       ELSE LET e == ClosedBy(observer, ordinal', metas[ordinal']) IN
            /\ observer' = Feed(observer, ordinal', metas[ordinal'])
            /\ episodes' = episodes \cup Some(e)
            /\ closed' = closed \cup Some(e)
  /\ UNCHANGED <<metas, phase, residual, toWrite, starts>>

Rebuilt ==
  /\ phase = "rebuild" /\ ordinal = Len(metas)
  /\ phase' = "on"
  /\ UNCHANGED <<store, residual, memory, toWrite, starts, closed>>

Ready == phase = "on" /\ toWrite = None /\ Len(metas) < MaxEntries

(* An entry's meta is put, and the observer fed: what is fed to memory     *)
(* between the put of the meta and that of the episode dies with it.       *)
Admit(v) ==
  /\ Ready /\ residual
  /\ metas' = Append(metas, v)
  /\ ordinal' = ordinal + 1
  /\ IF v = Still
       THEN UNCHANGED <<observer, toWrite, closed>>
       ELSE LET e == ClosedBy(observer, ordinal', v) IN
            /\ observer' = Feed(observer, ordinal', v)
            /\ toWrite' = e
            /\ closed' = closed \cup Some(e)
  /\ UNCHANGED <<episodes, phase, residual, starts>>

(* A campaign without the residual channel keeps no structural memory. *)
AdmitPlain(v) ==
  /\ Ready /\ ~residual
  /\ metas' = Append(metas, v)
  /\ UNCHANGED <<episodes, phase, residual, memory, toWrite, starts, closed>>

WriteEpisode ==
  /\ phase = "on" /\ toWrite # None
  /\ episodes' = episodes \cup {toWrite}
  /\ toWrite' = None
  /\ UNCHANGED <<metas, phase, residual, memory, starts, closed>>

(* The campaign ends, or is killed wherever it is. *)
End ==
  /\ phase # "off" /\ phase' = "off"
  /\ residual' = FALSE /\ observer' = New /\ ordinal' = 0 /\ toWrite' = None
  /\ UNCHANGED <<store, starts, closed>>

Init ==
  /\ metas = <<>> /\ episodes = {} /\ phase = "off" /\ residual = FALSE
  /\ observer = New /\ ordinal = 0 /\ toWrite = None
  /\ starts = 0 /\ closed = {}

(* All campaigns have run. *)
Rest == phase = "off" /\ starts = MaxStarts /\ UNCHANGED vars

Next ==
  \/ \E r \in BOOLEAN : Start(r)
  \/ Replay \/ Rebuilt
  \/ \E v \in Values \cup {Still} : Admit(v) \/ AdmitPlain(v)
  \/ WriteEpisode \/ End \/ Rest

Spec == Init /\ [][Next]_vars

-----------------------------------------------------------------------------
TypeOK ==
  /\ metas \in Seq(Values \cup {Still})
  /\ episodes \subseteq Episodes /\ closed \subseteq Episodes
  /\ phase \in {"off", "rebuild", "on"} /\ residual \in BOOLEAN
  /\ observer \in Observers /\ ordinal \in Nat
  /\ toWrite \in Episodes \cup {None} /\ starts \in Nat

(* The reference definition of an episode: the samples between its onset   *)
(* and its close, and the nominal they deviate from.                       *)
Fed == {k \in DOMAIN metas : metas[k] # Still}
Samples(e) == {k \in Fed : e.onset <= k /\ k <= e.close}
ClosesBefore(k) == {e.close : e \in {x \in closed : x.close < k}}
NominalAt(k) ==
  LET starting == ClosesBefore(k) \cup {j \in Fed : \A i \in Fed : j <= i} IN
  metas[CHOOSE j \in starting : \A i \in starting : i <= j]
Deviation(e, k) == Magnitude(metas[k] - NominalAt(e.onset))

(* An episode reports what happened: its dwell is the number of samples it *)
(* spans, its peak the first of them that deviates most from the nominal   *)
(* (the first value of the stream, or the one the previous episode closed  *)
(* at) and by how much, at least the threshold; it began past the          *)
(* threshold, and it is no longer than the cap.  feed, update_peak, close. *)
EpisodesTrue == \A e \in closed :
  /\ {e.onset, e.peak, e.close} \subseteq Samples(e)
  /\ e.dwell = Cardinality(Samples(e)) /\ e.dwell <= MaxDwell
  /\ e.value = metas[e.peak] /\ e.dev = Deviation(e, e.peak)
  /\ Deviation(e, e.onset) >= EpisodeThreshold
  /\ \A k \in Samples(e) :
       /\ Deviation(e, k) <= e.dev
       /\ k < e.peak => Deviation(e, k) < e.dev

(* Hysteresis: after an episode closed the signal has to be calm for the   *)
(* drift dwell and to drift for as long before another opens, so sustained *)
(* noise gives few episodes.  The dwells and resets of feed and close.     *)
EpisodesApart == \A a, b \in closed :
  a.close < b.onset =>
    Cardinality({k \in Fed : a.close < k /\ k < b.onset}) >= 2 * DriftDwell

(* No episode is lost for good: whenever the campaign is between two       *)
(* admissions, every episode that ever closed is in the store, the one a   *)
(* kill kept from being written included; write_episode in process_result  *)
(* and in rebuild.                                                         *)
NoEpisodeLost == phase = "on" /\ toWrite = None => closed \subseteq episodes

(* Replays are exact: what rebuild derives from the metas is what was      *)
(* derived when they were admitted, so no two stored episodes overlap.     *)
EpisodesDisjoint == \A a, b \in episodes :
  a = b \/ a.close < b.onset \/ b.close < a.onset

(* What is left of a smoothed residual e after n samples that do not move. *)
Decayed(e, n) ==
  LET left[i \in 0..n] ==
        IF i = 0 THEN e ELSE left[i - 1] - (left[i - 1] \div Scale)
  IN  left[n]

(* The largest residual the values can build up, Scale ^ 2 times their     *)
(* spread, has decayed below the drift threshold soon enough for a drift   *)
(* to become an episode, the episode to reach its cap and the recovery to  *)
(* end within Settling samples.                                            *)
ASSUME SettlingAssumption ==
  \E low, high \in Values, n \in 0..Settling :
    /\ \A v \in Values : low <= v /\ v <= high
    /\ Decayed(Scale * Scale * (high - low), n) < DriftThreshold * Scale
    /\ n + MaxDwell + 2 * DriftDwell <= Settling

(* The observer Settling samples after o, all of the value it saw last.    *)
Flat(o) ==
  LET after[n \in 0..Settling] ==
        IF n = 0 THEN o ELSE Feed(after[n - 1], 0, o.prev)
  IN  after[Settling]

(* Whatever the observer has seen, a signal that stays flat settles: no    *)
(* episode stays open and the state is Stable, because the fixed-point     *)
(* residual decays below the thresholds and does not stick above them.     *)
FlatSettles ==
  observer.prev # None =>
    Flat(observer).state = "Stable" /\ Flat(observer).episode = None
=============================================================================
