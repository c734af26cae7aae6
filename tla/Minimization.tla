---------------------------- MODULE Minimization ----------------------------
(***************************************************************************)
(* The commands that shrink what a campaign found: boundary                *)
(* (boundary/minimize.rs: both sides of a pair that survives and dies),    *)
(* tmin (corpus/minimize.rs: one dying input), cmin (the corpus), and the  *)
(* replay of the tapes they leave (tape/replay.rs, tape/revision.rs).      *)
(* Every step runs the target once or twice, within a budget.              *)
(***************************************************************************)
EXTENDS Integers, FiniteSets, SequencesExt, FiniteSetsExt

CONSTANTS
  Letters,    (* The bytes of an input.                                    *)
  Inputs2,    (* The inputs a pair for boundary is drawn from.             *)
  Targets2,   (* Their targets: each is the set of inputs that kill it.    *)
  Inputs1,    (* The inputs for tmin.                                      *)
  Targets1,
  MaxVerify,  (* --max-verify: the values given to it.                     *)
  Corpora,    (* For cmin: functions from entries to [features, size].     *)
  LengthWeight (* What a byte of length counts in a distance: 256.         *)

ASSUME InputsAssumption ==
  /\ Letters \subseteq Nat /\ Inputs1 \cup Inputs2 \subseteq Seq(Letters)
  /\ MaxVerify \subseteq Nat /\ LengthWeight \in Nat \ {0}
  /\ \A c \in Corpora :
       /\ IsFiniteSet(DOMAIN c) /\ DOMAIN c \subseteq Nat
       /\ \A e \in DOMAIN c : IsFiniteSet(c[e].features) /\ c[e].size \in Nat

VARIABLES
  task,    (* The command that runs and its arguments, or NoTask.          *)
  left, right, (* The pair; tmin's input is right.                         *)
  pos,     (* [i, side]: the next move of the sweep.                       *)
  moved,   (* tmin: this pass has deleted a byte.                          *)
  used,    (* Runs of the target.                                          *)
  tries,   (* minimize_pair: verifications of a pair.                      *)
  saved,   (* What was put: the finding of tmin, the witness, the tapes.   *)
  covered, chosen  (* cmin.                                                *)

minVars == <<task, left, right, pos, moved, used, tries, saved, covered, chosen>>

Kills(x) == x \in task.dies
Gap(x, y) == IF x > y THEN x - y ELSE y - x
Common(a, b) == Min({Len(a), Len(b)})

(* byte_distance                                                           *)
Distance(a, b) ==
  LET gaps[n \in 0..Common(a, b)] ==
        IF n = 0 THEN 0 ELSE gaps[n - 1] + Gap(a[n], b[n])
  IN  gaps[Common(a, b)] + LengthWeight * Gap(Len(a), Len(b))

-----------------------------------------------------------------------------
NoTask   == [cmd |-> "none"]
NotSaved == [what |-> "nothing"]
Running(cmd) == task # NoTask /\ task.cmd = cmd /\ saved = NotSaved

First    == [i |-> 1, side |-> "left"]
Begin(c, l, r) ==
  /\ task' = c /\ left' = l /\ right' = r /\ pos' = First /\ moved' = FALSE
  /\ tries' = 0 /\ saved' = NotSaved /\ covered' = {} /\ chosen' = {}

Fail == task' = [task EXCEPT !.cmd = "failed"]

(* cmd_boundary's classify, of the inputs in order as far as each answers  *)
(* as hoped: the runs it makes and how it ends.                            *)
Classify(l, r) ==
  IF used >= task.max THEN [used |-> used, ends |-> "error"]
  ELSE IF Kills(l) THEN [used |-> used + 1, ends |-> "no"]
  ELSE IF used + 1 >= task.max THEN [used |-> used + 1, ends |-> "error"]
  ELSE [used |-> used + 2, ends |-> IF Kills(r) THEN "yes" ELSE "no"]

(* A move that brings the pair closer goes to verify_budget.               *)
VerifyBudget(l, r) ==
  IF Distance(l, r) >= Distance(left, right) \/ tries >= task.tries
    THEN [used |-> used, ends |-> "no", tried |-> 0]
  ELSE LET c == Classify(l, r) IN [used |-> c.used, ends |-> c.ends, tried |-> 1]

(* The pair has to be one before anything is minimized.                    *)
CmdBoundary(dies, l, r, max) ==
  LET c == [cmd |-> "check", dies |-> dies, max |-> max, tries |-> 0, l |-> l, r |-> r]
  IN  Begin(c, l, r) /\ used' = 0

CheckPair ==
  /\ Running("check")
  /\ LET c == Classify(left, right)
     IN  /\ used' = c.used
         /\ IF c.ends = "yes"
              THEN task' = [task EXCEPT !.cmd = "sweep", !.tries = Max({0, task.max - c.used})]
              ELSE Fail
  /\ UNCHANGED <<left, right, pos, moved, tries, saved, covered, chosen>>

(* One verified move: a kept one restarts the sweep.                       *)
Move(l, r, next) ==
  LET v == VerifyBudget(l, r)
  IN  /\ used' = v.used /\ tries' = tries + v.tried
      /\ IF v.ends = "yes" THEN left' = l /\ right' = r /\ pos' = First
                           ELSE pos' = next /\ UNCHANGED <<left, right>>
      /\ IF v.ends = "error" THEN Fail ELSE UNCHANGED task
      /\ UNCHANGED <<moved, saved, covered, chosen>>

Sweeping == Running("sweep") /\ pos.i <= Common(left, right)
Beyond(p) == IF p.side = "left" THEN [p EXCEPT !.side = "right"] ELSE [i |-> p.i + 1, side |-> "left"]

SkipByte ==
  /\ Sweeping /\ left[pos.i] = right[pos.i]
  /\ pos' = [i |-> pos.i + 1, side |-> "left"]
  /\ UNCHANGED <<task, left, right, moved, used, tries, saved, covered, chosen>>

LeftTowardRight ==
  /\ Sweeping /\ left[pos.i] # right[pos.i] /\ pos.side = "left"
  /\ Move([left EXCEPT ![pos.i] = right[pos.i]], right, Beyond(pos))

RightTowardLeft ==
  /\ Sweeping /\ left[pos.i] # right[pos.i] /\ pos.side = "right"
  /\ Move(left, [right EXCEPT ![pos.i] = left[pos.i]], Beyond(pos))

Swept == Running("sweep") /\ pos.i > Common(left, right) /\ pos.side # "end"
AtEnd == [i |-> Common(left, right) + 1, side |-> "end"]

(* The longer side loses its last byte.                                    *)
TrimTail ==
  /\ Swept /\ Len(left) # Len(right)
  /\ IF Len(left) > Len(right) THEN Move(Front(left), right, AtEnd)
                               ELSE Move(left, Front(right), AtEnd)

Converged == Running("sweep") /\ (pos.side = "end" \/ (Swept /\ Len(left) = Len(right)))

(* The witness, then a tape of each side.                                  *)
TapeOf(x, ends) == [candidate |-> x, termination |-> ends, observation |-> "none"]

PutPair ==
  /\ Converged
  /\ saved' = [what |-> "witness", left |-> left, right |-> right,
               distance |-> Distance(left, right),
               tapes |-> {TapeOf(left, "Ok"), TapeOf(right, "Crash")}]
  /\ UNCHANGED <<task, left, right, pos, moved, used, tries, covered, chosen>>

-----------------------------------------------------------------------------
(* tmin                                                                    *)

(* The empty input is tried first.                                         *)
CmdTmin(dies, x, max) ==
  LET c == [cmd |-> "delete", dies |-> dies, max |-> max, tries |-> 0, l |-> <<>>, r |-> x]
      empty == max > 0 /\ <<>> \in dies
  IN  Begin(c, <<>>, IF empty THEN <<>> ELSE x) /\ used' = Min({1, max})

Dies(x) == used < task.max /\ Kills(x)

(* One pass tries each byte; the next follows while a pass has deleted.    *)
TryDelete ==
  /\ Running("delete") /\ pos.i <= Len(right)
  /\ used' = Min({used + 1, task.max})
  /\ LET cand == RemoveAt(right, pos.i)
     IN  IF Dies(cand) THEN right' = cand /\ moved' = TRUE /\ UNCHANGED pos
                       ELSE pos' = [pos EXCEPT !.i = @ + 1] /\ UNCHANGED <<right, moved>>
  /\ UNCHANGED <<task, left, tries, saved, covered, chosen>>

NextPass ==
  /\ Running("delete") /\ pos.i > Len(right) /\ moved
  /\ pos' = First /\ moved' = FALSE
  /\ UNCHANGED <<task, left, right, used, tries, saved, covered, chosen>>

(* Slip: one pass only.                                                    *)
PassesOverOnce == TRUE
PassesOver     == ~moved

(* The finding is put again with the input found, not replayed.            *)
PutFinding ==
  /\ Running("delete") /\ pos.i > Len(right) /\ PassesOver
  /\ saved' = [what |-> "finding", input |-> right, replay |-> "NotReplayed"]
  /\ UNCHANGED <<task, left, right, pos, moved, used, tries, covered, chosen>>

-----------------------------------------------------------------------------
(* cmin                                                                    *)

CmdCmin(corpus) ==
  /\ task' = [cmd |-> "select", corpus |-> corpus]
  /\ covered' = {} /\ chosen' = {} /\ saved' = NotSaved
  /\ UNCHANGED <<left, right, pos, moved, used, tries>>

FeaturesOf(ids, corpus) == UNION {corpus[e].features : e \in ids}
Universe == FeaturesOf(DOMAIN task.corpus, task.corpus)

(* contribution                                                            *)
Gain(e)    == Cardinality(task.corpus[e].features \ covered)
Ahead(e, o) ==
  \/ Gain(e) > Gain(o)
  \/ Gain(e) = Gain(o) /\ task.corpus[e].size < task.corpus[o].size
  \/ Gain(e) = Gain(o) /\ task.corpus[e].size = task.corpus[o].size /\ e < o
Best == CHOOSE e \in DOMAIN task.corpus \ chosen :
          \A o \in DOMAIN task.corpus \ (chosen \cup {e}) : Ahead(e, o)

Unselected == covered # Universe /\ DOMAIN task.corpus \ chosen # {}

SelectBest ==
  /\ Running("select") /\ Unselected
  /\ chosen' = chosen \cup {Best}
  /\ covered' = covered \cup task.corpus[Best].features
  /\ UNCHANGED <<task, left, right, pos, moved, used, tries, saved>>

WriteSelection ==
  /\ Running("select") /\ ~Unselected
  /\ saved' = [what |-> "selection", ids |-> chosen]
  /\ UNCHANGED <<task, left, right, pos, moved, used, tries, covered, chosen>>

-----------------------------------------------------------------------------
(* Replay: what a run showed, [died, features, signals], against a tape,   *)
(* whose observation is [features, signals] or "none".                     *)
Deaths == {"Crash", "Timeout"}

ReplayTape(tape, live) ==
  IF tape.termination \in Deaths
    THEN IF live.died THEN "TerminationReproduced" ELSE "Diverged"
  ELSE IF live.died THEN "Diverged"
  ELSE IF tape.observation = "none" THEN "Matches"
  ELSE IF live.features = tape.observation.features /\ live.signals = tape.observation.signals
    THEN "Matches" ELSE "Diverged"

(* replay_across_states: what a build of another revision shows.           *)
StateOf(tape, live) ==
  [termination |-> IF ~live.died THEN "Ok"
                   ELSE IF tape.termination = "Ok" THEN "Crash" ELSE tape.termination,
   signals |-> IF live.died THEN "none" ELSE live.signals]

(* compare_state_to_tape: features are not compared between builds.        *)
CompareState(tape, state) ==
  IF tape.termination \in Deaths
    THEN IF state.termination = "Ok" THEN "Diverged" ELSE "TerminationReproduced"
  ELSE IF state.termination # "Ok" THEN "Diverged"
  ELSE IF tape.observation = "none" \/ state.signals = tape.observation.signals
    THEN "Matches" ELSE "Diverged"

LiveOf(x) == [died |-> x \in task.dies, features |-> {}, signals |-> <<>>]

-----------------------------------------------------------------------------
MinInit ==
  /\ task = NoTask /\ left = <<>> /\ right = <<>> /\ pos = First /\ moved = FALSE
  /\ used = 0 /\ tries = 0 /\ saved = NotSaved /\ covered = {} /\ chosen = {}

(* The command has ended.                                                  *)
Leave ==
  /\ task # NoTask /\ (saved # NotSaved \/ task.cmd = "failed")
  /\ task' = NoTask /\ left' = <<>> /\ right' = <<>> /\ pos' = First /\ moved' = FALSE
  /\ used' = 0 /\ tries' = 0 /\ saved' = NotSaved /\ covered' = {} /\ chosen' = {}

MinNext ==
  \/ task = NoTask /\ \E dies \in Targets2, max \in MaxVerify, l, r \in Inputs2 : CmdBoundary(dies, l, r, max)
  \/ task = NoTask /\ \E dies \in Targets1, max \in MaxVerify, x \in Inputs1 : CmdTmin(dies, x, max)
  \/ task = NoTask /\ \E corpus \in Corpora : CmdCmin(corpus)
  \/ CheckPair \/ SkipByte \/ LeftTowardRight \/ RightTowardLeft \/ TrimTail \/ PutPair
  \/ TryDelete \/ NextPass \/ PutFinding
  \/ SelectBest \/ WriteSelection
  \/ Leave

MinSpec == MinInit /\ [][MinNext]_minVars

-----------------------------------------------------------------------------
Saved(what) == saved.what = what

(* The pairs one move away.                                                *)
MovesOf(l, r) ==
  {<<[l EXCEPT ![i] = r[i]], r>> : i \in {j \in 1..Common(l, r) : l[j] # r[j]}} \cup
  {<<l, [r EXCEPT ![i] = l[i]]>> : i \in {j \in 1..Common(l, r) : l[j] # r[j]}} \cup
  (IF Len(l) > Len(r) THEN {<<Front(l), r>>}
   ELSE IF Len(r) > Len(l) THEN {<<l, Front(r)>>} ELSE {})

IsPair(l, r) == l \notin task.dies /\ r \in task.dies

(* A boundary witness is a pair that still survives and dies, no further   *)
(* apart than the one it came from, and, unless the budget ran out, no     *)
(* single move brings it closer; its tapes replay, by both comparisons.    *)
DistinctionKept ==
  Saved("witness") =>
    /\ IsPair(saved.left, saved.right)
    /\ saved.distance <= Distance(task.l, task.r)
    /\ tries < task.tries => \A p \in MovesOf(saved.left, saved.right) : ~IsPair(p[1], p[2])
    /\ \A t \in saved.tapes :
         /\ ReplayTape(t, LiveOf(t.candidate)) # "Diverged"
         /\ CompareState(t, StateOf(t, LiveOf(t.candidate))) = ReplayTape(t, LiveOf(t.candidate))

(* tmin's input dies if the finding's did, and, unless the budget ran out, *)
(* not without any one of its bytes.                                       *)
DeathKept ==
  Saved("finding") =>
    /\ task.r \in task.dies => saved.input \in task.dies
    /\ used < task.max => \A i \in DOMAIN saved.input : RemoveAt(saved.input, i) \notin task.dies

(* cmin's selection covers what the corpus covers, and no entry of it was  *)
(* taken for nothing.                                                      *)
CoverageKept ==
  Saved("selection") =>
    /\ FeaturesOf(saved.ids, task.corpus) = Universe
    /\ Cardinality(saved.ids) <= Cardinality(Universe)

(* What is minimized keeps what it is kept for.                            *)
MinimizedKeeps == DistinctionKept /\ DeathKept /\ CoverageKept
=============================================================================
