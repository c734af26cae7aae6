--------------------------- MODULE RegimeObserver ---------------------------
(***************************************************************************)
(* The regime observer of one signal of one lineage (dsfb/regime.rs): what *)
(* RegimeObserver::feed makes of a stream of samples.  Integers are        *)
(* unbounded: the i64 smoothed residual saturates only for signals near    *)
(* the ends of u64.  The extreme residual an episode also reports is left  *)
(* out, no decision reads it.                                              *)
(***************************************************************************)
EXTENDS Integers

CONSTANTS
  Scale,              (* 2 ^ ema_shift                                     *)
  DriftThreshold, DriftDwell, EpisodeThreshold,
  RecoveryThreshold, RecoveryDwell, MaxDwell,  (* RegimeConfig             *)
  None

ASSUME RegimeAssumption ==
  /\ {EpisodeThreshold, RecoveryThreshold} \subseteq Nat
  /\ {Scale, DriftThreshold, DriftDwell, RecoveryDwell} \subseteq Nat \ {0}
  /\ MaxDwell \in Nat \ {0, 1}
  /\ None \notin Int

States == {"Stable", "Drift", "InEpisode", "Recovering"}

OpenEpisodes == [onset : Nat, peak : Nat, value : Int, dev : Nat, dwell : Nat]
Episodes == [onset : Nat, peak : Nat, value : Int, dev : Nat, dwell : Nat,
             close : Nat, reason : {"RecoveryDwell", "MaxDwell"}]
Observers ==
  [state : States, ema : Int, cumulative : Int,
   baseline : Int \cup {None}, prev : Int \cup {None},
   driftRun : Nat, recoverRun : Nat, episode : OpenEpisodes \cup {None}]

ASSUME NoneAssumption ==
  None \notin OpenEpisodes \cup Episodes \cup {"RecoveryDwell", "MaxDwell"}

New == [state |-> "Stable", ema |-> 0, cumulative |-> 0,
        baseline |-> None, prev |-> None,
        driftRun |-> 0, recoverRun |-> 0, episode |-> None]

Magnitude(n) == IF n < 0 THEN -n ELSE n

(* Slip: a threshold in units of the signal against the scaled residual. *)
CalmUnscaled(o, threshold) == Magnitude(o.ema) < threshold

(* |ema| is below a threshold given in units of the signal. *)
Calm(o, threshold) == Magnitude(o.ema) < threshold * Scale

(* The sample enters the smoothed residual (>> rounds down, as \div does)  *)
(* and the deviation.                                                      *)
Sampled(o, v) ==
  LET r == IF o.prev = None THEN 0 ELSE v - o.prev IN
  [o EXCEPT !.ema = @ - (@ \div Scale) + r * Scale,
            !.cumulative = @ + r,
            !.baseline = IF @ = None THEN v ELSE @,
            !.prev = v]

(* One more sample in a row, or the end of the row; DriftDwell of them     *)
(* change the state.                                                       *)
Counted(o, counts, next) ==
  IF ~counts THEN [o EXCEPT !.driftRun = 0]
  ELSE IF o.driftRun + 1 >= DriftDwell
         THEN [o EXCEPT !.state = next, !.driftRun = 0]
         ELSE [o EXCEPT !.driftRun = @ + 1]

(* maybe_open_episode, at ordinal k. *)
Opened(o, k) ==
  IF o.state = "Drift" /\ Magnitude(o.cumulative) >= EpisodeThreshold
    THEN [o EXCEPT !.state = "InEpisode", !.recoverRun = 0,
                   !.episode = [onset |-> k, peak |-> k, value |-> o.prev,
                                dev |-> Magnitude(o.cumulative), dwell |-> 1]]
    ELSE o

(* Slip: a flat tail moves the peak along. *)
LongerToTail(o, k) ==
  LET dev == Magnitude(o.cumulative)
      longer == [o.episode EXCEPT !.dwell = @ + 1] IN
  [o EXCEPT !.recoverRun = IF Calm(o, RecoveryThreshold) THEN @ + 1 ELSE 0,
            !.episode = IF dev >= longer.dev
              THEN [longer EXCEPT !.peak = k, !.value = o.prev, !.dev = dev]
              ELSE longer]

(* The open episode takes one more sample in: dwell, peak, recover_run. *)
Longer(o, k) ==
  LET dev == Magnitude(o.cumulative)
      longer == [o.episode EXCEPT !.dwell = @ + 1] IN
  [o EXCEPT !.recoverRun = IF Calm(o, RecoveryThreshold) THEN @ + 1 ELSE 0,
            !.episode = IF dev > longer.dev
              THEN [longer EXCEPT !.peak = k, !.value = o.prev, !.dev = dev]
              ELSE longer]

(* Why the episode closes with this sample, if it does. *)
CloseReason(o) ==
  IF o.recoverRun >= RecoveryDwell THEN "RecoveryDwell"
  ELSE IF o.episode.dwell >= MaxDwell THEN "MaxDwell"
  ELSE None

(* Slip: the drift threshold is not waited for after an episode. *)
ClosedToStable(o) ==
  [o EXCEPT !.state = "Stable", !.recoverRun = 0, !.driftRun = 0,
            !.cumulative = 0, !.baseline = o.prev, !.episode = None]

(* close: the sample becomes the nominal of the next episode. *)
Closed(o) ==
  [o EXCEPT !.state = "Recovering", !.recoverRun = 0, !.driftRun = 0,
            !.cumulative = 0, !.baseline = o.prev, !.episode = None]

(* The observer after it was fed v at ordinal k. *)
Feed(o, k, v) ==
  LET s == Sampled(o, v) IN
  CASE o.state = "Stable" ->
         Counted(s, ~Calm(s, DriftThreshold), "Drift")
    [] o.state = "Drift" ->
         Opened(Counted(s, Calm(s, DriftThreshold), "Stable"), k)
    [] o.state = "InEpisode" ->
         IF CloseReason(Longer(s, k)) = None THEN Longer(s, k)
                                             ELSE Closed(Longer(s, k))
    [] OTHER ->
         Counted(s, Calm(s, DriftThreshold), "Stable")

(* The episode that feeding v closed, or None. *)
ClosedBy(o, k, v) ==
  LET s == Longer(Sampled(o, v), k) IN
  IF o.state # "InEpisode" \/ CloseReason(s) = None THEN None
  ELSE [onset |-> s.episode.onset, peak |-> s.episode.peak,
        value |-> s.episode.value, dev |-> s.episode.dev,
        dwell |-> s.episode.dwell, close |-> k, reason |-> CloseReason(s)]
=============================================================================
