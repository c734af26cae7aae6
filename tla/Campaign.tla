------------------------------ MODULE Campaign ------------------------------
(***************************************************************************)
(* The campaign loop (execute/coordinator.rs, run_campaign): one           *)
(* coordinator thread and one worker process per lane, joined by two pipes.*)
(*                                                                         *)
(* The coordinator gives every lane without a pending order a new one, then*)
(* polls the lanes from lane 0 on until ONE event arrives, handles it, and *)
(* checks whether to stop.  Workers are crash-only: a worker may die at any*)
(* instant, and its death is an event like any other.                      *)
(*                                                                         *)
(* What an order asks for is abstracted away (see WorkerLane for what one  *)
(* execution leaves behind); the pipe contents, the bookkeeping of pending *)
(* orders, every error exit and the order of the checks are kept.          *)
(***************************************************************************)
EXTENDS Naturals, Sequences, FiniteSets

CONSTANTS
  Workers,          (* The number of lanes.                                *)
  ExecLimits,       (* Values of cfg.max_execs, in results; NoLimit: None. *)
  NoLimit,
  TimeLimit,        (* May cfg.max_time be set?                            *)
  MaxStartupDeaths, (* MAX_STARTUP_DEATHS.                                 *)
  MaxFrames         (* Bound: frames between the coordinator and a worker  *)
                    (* at a heartbeat (their pipes hold 64 KiB).           *)

ASSUME WorkersAssumption == Workers \in Nat \ {0}
ASSUME BoundsAssumption ==
  /\ MaxStartupDeaths \in Nat \ {0} /\ MaxFrames \in Nat
  /\ NoLimit \notin Nat /\ ExecLimits \subseteq (Nat \ {0}) \cup {NoLimit}
  /\ TimeLimit \in BOOLEAN

VARIABLES
  phase,        (* Where the coordinator is in its loop.                    *)
  at,           (* The lane its dispatch or poll loop looks at.             *)
  limit,        (* cfg.max_execs of this campaign.                          *)
  pending,      (* pending[l]: an order was sent, its result not processed. *)
  startup,      (* startup_deaths[l].                                       *)
  executions,   (* Results processed (left at 0 when there is no limit).    *)
  interrupted,  (* The INTERRUPTED flag the SIGINT handler sets.            *)
  saved,        (* Has the checkpoint been written?                         *)
  worker,       (* The process of each lane.                                *)
  inbox,        (* The frames in its stdin pipe.                            *)
  outbox        (* The frames in its stdout pipe and event channel.         *)

control == <<phase, at, saved>>
books   == <<pending, startup, executions>>
procs   == <<worker, inbox, outbox>>
vars    == <<control, books, interrupted, procs, limit>>

Lanes == 0..(Workers - 1)

Stopped == phase \in {"exited", "aborted"}

-----------------------------------------------------------------------------
(* Dispatch: every lane without a pending order gets one. *)

(* The loops move to the next lane; past the last one dispatch turns to    *)
(* polling, which starts at lane 0, and polling starts over.               *)
LastLane  == at = Workers - 1
FirstPoll == 0
NextLane  == IF LastLane THEN 0 ELSE at + 1

Advance ==
  IF LastLane THEN phase' = "poll" /\ at' = FirstPoll
              ELSE phase' = phase /\ at' = at + 1

SkipLane ==
  /\ phase = "dispatch" /\ pending[at]
  /\ Advance
  /\ UNCHANGED <<saved, books, interrupted, procs, limit>>

(* Slip: a lane with a pending order is not skipped. *)
SendOrderAgain ==
  /\ phase = "dispatch" /\ worker[at] # "gone"
  /\ inbox' = [inbox EXCEPT ![at] = Append(@, "order")]
  /\ pending' = [pending EXCEPT ![at] = TRUE]
  /\ Advance
  /\ UNCHANGED <<saved, startup, executions, interrupted, worker, outbox,
                 limit>>

SendOrder ==
  /\ phase = "dispatch" /\ ~pending[at] /\ worker[at] # "gone"
  /\ inbox' = [inbox EXCEPT ![at] = Append(@, "order")]
  /\ pending' = [pending EXCEPT ![at] = TRUE]
  /\ Advance
  /\ UNCHANGED <<saved, startup, executions, interrupted, worker, outbox,
                 limit>>

(* An error the loop propagates with `?`: run_campaign returns without     *)
(* shutting workers down and without a checkpoint.                         *)
Abort == phase' = "aborted" /\ UNCHANGED <<at, saved>>

(* The worker of an idle lane has died: the write fails (EPIPE).           *)
SendFails ==
  /\ phase = "dispatch" /\ ~pending[at] /\ worker[at] = "gone"
  /\ Abort
  /\ UNCHANGED <<books, interrupted, procs, limit>>

-----------------------------------------------------------------------------
(* Poll: the first event found ends the poll. *)

(* Slip: the executions of a result are not added. *)
CountedNever(n) == IF limit = NoLimit THEN n ELSE n + 0

Counted(n) == IF limit = NoLimit THEN n ELSE n + 1

(* A frame from a lane with a pending order is decoded as its result,      *)
(* whatever its kind (the reader thread forwards payloads only); the empty *)
(* payload of a heartbeat reply does not decode.  Other frames are ignored.*)
TakeFrame ==
  /\ phase = "poll" /\ outbox[at] # <<>>
  /\ outbox' = [outbox EXCEPT ![at] = Tail(@)]
  /\ pending' = [pending EXCEPT ![at] = FALSE]
  /\ IF pending[at] /\ Head(outbox[at]) # "result"
       THEN Abort
       ELSE phase' = "check" /\ UNCHANGED <<at, saved>>
  /\ IF pending[at] /\ Head(outbox[at]) = "result"
       THEN executions' = Counted(executions)
       ELSE UNCHANGED executions
  /\ UNCHANGED <<startup, interrupted, worker, inbox, limit>>

(* Slip: death noticed by the process status, before its last frames.      *)
SeesExit == phase = "poll" /\ worker[at] = "gone"

(* Eof is the event after the last frame of a dead worker. *)
SeesEof == phase = "poll" /\ worker[at] = "gone" /\ outbox[at] = <<>>

StartupAfter(attributed) ==
  IF ~attributed /\ ~pending[at] THEN startup[at] + 1 ELSE 0

(* handle_worker_death: the pending order is dropped; a death with no      *)
(* input and no pending order counts towards "broken binary"; otherwise    *)
(* the input is recorded and replayed; the lane gets a fresh worker.       *)
(* Whether the ledger and the echo name an input is a free choice here.    *)
HandleDeath(attributed) ==
  /\ SeesEof
  /\ pending' = [pending EXCEPT ![at] = FALSE]
  /\ startup' = [startup EXCEPT ![at] = StartupAfter(attributed)]
  /\ IF startup'[at] >= MaxStartupDeaths
       THEN Abort /\ UNCHANGED procs
       ELSE /\ phase' = "check" /\ UNCHANGED <<at, saved>>
            /\ worker' = [worker EXCEPT ![at] = "idle"]
            /\ inbox' = [inbox EXCEPT ![at] = <<>>]
            /\ outbox' = [outbox EXCEPT ![at] = <<>>]
  /\ UNCHANGED <<executions, interrupted, limit>>

(* Handling the death fails: the ledger is damaged, or a fresh worker (for *)
(* the replay or for the lane) dies before its hello.                      *)
RecoveryFails ==
  /\ SeesEof
  /\ Abort
  /\ UNCHANGED <<books, interrupted, procs, limit>>

PollTimesOut ==
  /\ phase = "poll" /\ outbox[at] = <<>> /\ worker[at] # "gone"
  /\ at' = NextLane
  /\ UNCHANGED <<phase, saved, books, interrupted, procs, limit>>

(* After a silent round longer than HEARTBEAT_INTERVAL every lane is       *)
(* pinged; a failed write is ignored.                                      *)
Heartbeat ==
  /\ phase = "poll" /\ LastLane /\ outbox[at] = <<>> /\ worker[at] # "gone"
  /\ \A l \in Lanes : Len(inbox[l]) + Len(outbox[l]) < MaxFrames
  /\ at' = NextLane
  /\ inbox' = [l \in Lanes |-> IF worker[l] = "gone" THEN inbox[l]
                                                     ELSE Append(inbox[l], "beat")]
  /\ UNCHANGED <<phase, saved, books, interrupted, worker, outbox, limit>>

-----------------------------------------------------------------------------
(* The termination checks, made after every event. *)

(* Slip: the interrupt flag is not tested. *)
MustStopAtLimit == limit # NoLimit /\ executions >= limit

MustStop ==
  \/ interrupted
  \/ limit # NoLimit /\ executions >= limit

(* Shutdown, then the checkpoint.  A worker gets SHUTDOWN_GRACE to finish  *)
(* its batch; what it still writes is not read.                            *)
Finish ==
  /\ phase = "check" /\ (MustStop \/ TimeLimit)
  /\ phase' = "exited" /\ saved' = TRUE
  /\ worker' = [l \in Lanes |-> "gone"]
  /\ UNCHANGED <<at, books, interrupted, inbox, outbox, limit>>

GoOn ==
  /\ phase = "check" /\ ~MustStop
  /\ phase' = "dispatch" /\ at' = 0
  /\ UNCHANGED <<saved, books, interrupted, procs, limit>>

-----------------------------------------------------------------------------
(* The workers' frame loop, and the environment. *)

StartOrder(l) ==
  /\ ~Stopped /\ worker[l] = "idle" /\ inbox[l] # <<>> /\ Head(inbox[l]) = "order"
  /\ worker' = [worker EXCEPT ![l] = "busy"]
  /\ inbox' = [inbox EXCEPT ![l] = Tail(@)]
  /\ UNCHANGED <<control, books, interrupted, outbox, limit>>

FinishOrder(l) ==
  /\ ~Stopped /\ worker[l] = "busy"
  /\ worker' = [worker EXCEPT ![l] = "idle"]
  /\ outbox' = [outbox EXCEPT ![l] = Append(@, "result")]
  /\ UNCHANGED <<control, books, interrupted, inbox, limit>>

AnswerBeat(l) ==
  /\ ~Stopped /\ worker[l] = "idle" /\ inbox[l] # <<>> /\ Head(inbox[l]) = "beat"
  /\ inbox' = [inbox EXCEPT ![l] = Tail(@)]
  /\ outbox' = [outbox EXCEPT ![l] = Append(@, "beat")]
  /\ UNCHANGED <<control, books, interrupted, worker, limit>>

(* Crash, watchdog abort, OOM kill, at any instant: what it wrote stays    *)
(* readable, what it had not read is lost.                                 *)
Killed(S) ==
  /\ worker' = [l \in Lanes |-> IF l \in S THEN "gone" ELSE worker[l]]
  /\ inbox' = [l \in Lanes |-> IF l \in S THEN <<>> ELSE inbox[l]]
  /\ UNCHANGED outbox

Die(l) ==
  /\ ~Stopped /\ worker[l] # "gone"
  /\ Killed({l})
  /\ UNCHANGED <<control, books, interrupted, limit>>

(* SIGINT to the coordinator alone (kill), or from the terminal to the     *)
(* whole foreground group: the workers are not shielded from it.           *)
Interrupt(S) ==
  /\ ~Stopped /\ ~interrupted
  /\ interrupted' = TRUE
  /\ Killed(S)
  /\ UNCHANGED <<control, books, limit>>

-----------------------------------------------------------------------------
Init ==
  /\ phase = "dispatch" /\ at = 0 /\ saved = FALSE
  /\ pending = [l \in Lanes |-> FALSE]
  /\ startup = [l \in Lanes |-> 0]
  /\ limit \in ExecLimits /\ executions = 0 /\ interrupted = FALSE
  /\ worker = [l \in Lanes |-> "idle"]
  /\ inbox = [l \in Lanes |-> <<>>]
  /\ outbox = [l \in Lanes |-> <<>>]

Coordinator ==
  \/ SkipLane
  \/ SendOrder
  \/ SendFails
  \/ TakeFrame
  \/ \E attributed \in BOOLEAN : HandleDeath(attributed)
  \/ RecoveryFails
  \/ PollTimesOut
  \/ Heartbeat
  \/ Finish
  \/ GoOn

Worker(l) ==
  \/ StartOrder(l)
  \/ FinishOrder(l)
  \/ AnswerBeat(l)

Environment ==
  \/ \E l \in Lanes : Die(l)
  \/ \E S \in {{}, Lanes} : Interrupt(S)

Rest == Stopped /\ UNCHANGED vars

Next ==
  \/ Coordinator
  \/ \E l \in Lanes : Worker(l)
  \/ Environment
  \/ Rest

Spec == Init /\ [][Next]_vars

(* The coordinator is one thread that never waits longer than AWAIT_POLL;  *)
(* a worker finishes its batch because every execution ends: it returns,   *)
(* or the one-shot alarm aborts it.                                        *)
FairSpec ==
  /\ Spec
  /\ WF_vars(Coordinator)
  /\ \A l \in Lanes : WF_vars(Worker(l))

-----------------------------------------------------------------------------
(* What must hold. *)

TypeOK ==
  /\ phase \in {"dispatch", "poll", "check", "exited", "aborted"}
  /\ at \in Lanes
  /\ pending \in [Lanes -> BOOLEAN]
  /\ startup \in [Lanes -> 0..MaxStartupDeaths]
  /\ limit \in ExecLimits /\ executions \in Nat
  /\ interrupted \in BOOLEAN /\ saved \in BOOLEAN
  /\ worker \in [Lanes -> {"idle", "busy", "gone"}]
  /\ inbox \in [Lanes -> Seq({"order", "beat"})]
  /\ outbox \in [Lanes -> Seq({"result", "beat"})]

Occurrences(f, s) == Cardinality({i \in DOMAIN s : s[i] = f})

(* The order of lane l, wherever it is: in the pipe, under execution, or   *)
(* answered and not yet read.                                              *)
InFlight(l) ==
  Occurrences("order", inbox[l]) + Occurrences("result", outbox[l])
    + (IF worker[l] = "busy" THEN 1 ELSE 0)

(* The pending map and the pipes agree: a lane never has two orders in     *)
(* flight, none without a pending entry to match the result against, and a *)
(* pending order disappears only with the worker that held it.             *)
PendingIsInFlight ==
  ~Stopped => \A l \in Lanes :
    /\ InFlight(l) <= 1
    /\ InFlight(l) = 1 => pending[l]
    /\ pending[l] /\ InFlight(l) = 0 => worker[l] = "gone"

(* The coordinator never waits while a lane has no work: the poll starts   *)
(* only when every lane has a pending order.                               *)
EveryLaneHasWork == phase = "poll" => \A l \in Lanes : pending[l]

(* A result that reached the pipe is processed, even when its worker died  *)
(* right after writing it: frames leave the pipe only through processing,  *)
(* and the death is handled after them.                                    *)
NoResultDropped ==
  [][\A l \in Lanes :
       Occurrences("result", outbox'[l]) < Occurrences("result", outbox[l])
         => pending[l] /\ ~pending'[l] /\ executions' = Counted(executions)]_vars

(* An interrupted campaign stops, however often its workers die.           *)
InterruptHonoured == interrupted ~> Stopped

(* A campaign with an execution limit ends, however often the workers of   *)
(* other lanes die, unless lane 0's dies again and again.  A death counts  *)
(* no execution and every poll begins at lane 0, so results of lane 0 get  *)
(* through as long as its worker lasts, and only those surely do.          *)
CampaignEnds ==
  limit # NoLimit => \/ <>Stopped
                     \/ []<><<worker[0] # "gone" /\ worker'[0] = "gone">>_vars

-----------------------------------------------------------------------------
(* What the code says of itself and does not do. *)

(* "Level-3 durable boundary on every exit path (graceful or not); the     *)
(* local checkpoint above is always the durable continuation record".      *)
CheckpointOnEveryExit == Stopped => saved
=============================================================================
