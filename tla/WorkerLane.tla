----------------------------- MODULE WorkerLane -----------------------------
(***************************************************************************)
(* What one lane leaves behind of each execution, and what the coordinator *)
(* makes of it when the worker dies (target_runtime/worker.rs,             *)
(* execute_batch and window_execute; execute/coordinator.rs,               *)
(* handle_worker_death and classify_and_replay).                           *)
(*                                                                         *)
(* Before every execution the worker commits the coordinate to the ledger, *)
(* then copies the candidate into the ledger's echo region.  The ledger is *)
(* the atomic CommitRegister; StorageProofs shows that the two-slot    *)
(* ledger of the code implements it.                                       *)
(*                                                                         *)
(* Mutation is a function of the order, the coordinate and, for the        *)
(* compare-guided mutator, the hits of the previous execution; here the    *)
(* candidate is a free choice, and reconstruction yields the same candidate*)
(* when it has the same arguments.                                         *)
(***************************************************************************)
EXTENDS Naturals, FiniteSets

CONSTANTS
  Inputs,       (* Non-empty candidates.                                   *)
  Empty,        (* The empty candidate, and an empty echo region.          *)
  Torn,         (* An echo that is neither the old nor the new candidate.  *)
  Crashing,     (* Candidates the target dies on ...                       *)
  Hanging,      (* ... or never returns from.                              *)
  None,
  Batch,        (* Executions per order (bound).                           *)
  MaxOrders,    (* Bound: orders sent to the lane.                         *)
  MaxKills      (* Bound: deaths no candidate causes (OOM killer, SIGKILL).*)

ASSUME InputsAssumption ==
  /\ Empty \notin Inputs /\ Torn \notin Inputs \cup {Empty}
  /\ Crashing \subseteq Inputs \cup {Empty}
  /\ Hanging \subseteq Inputs \cup {Empty}
  /\ Crashing \cap Hanging = {}
ASSUME LaneBounds ==
  Batch \in Nat \ {0} /\ MaxOrders \in Nat /\ MaxKills \in Nat

Coords == (1..MaxOrders) \X (1..Batch)
MaxCommits == Batch * MaxOrders

ASSUME NoneAssumption ==
  /\ None \notin Coords /\ None \notin Nat
  /\ None \notin {"crash", "timeout", "killed"}
  /\ \A s \in 0..MaxCommits, c \in Coords :
       None # [seq |-> s, coord |-> c]

VARIABLES
  reg, op, up,  (* The ledger, and whether the worker process lives.        *)
  echo,         (* The echo region of the ledger file.                      *)
  pc,           (* Where the worker is.                                     *)
  order, i,     (* The order it works on, and the index within its batch.   *)
  cand,         (* The candidate of that index, and whether hits shaped it. *)
  hits,         (* Did the previous execution leave compare hits?           *)
  answered,     (* Is a result on its way to the coordinator?               *)
  pend, sent,   (* The coordinator's pending order; orders sent so far.     *)
  findings,     (* The findings recorded, in their replayed revision.       *)
  aborted,      (* Has the campaign ended with an error?                    *)
  cause,        (* History: what killed the worker.                         *)
  made,         (* History: the last commit of this process, with its       *)
                (* candidate.                                               *)
  kills         (* Kills so far (bound).                                    *)

ledger == <<reg, op, up>>
lane   == <<echo, pc, order, i, cand, hits, answered, made>>
coord  == <<pend, sent, findings, aborted>>
death  == <<cause, kills>>
laneVars == <<ledger, lane, coord, death>>

Ledger == INSTANCE CommitRegister WITH MaxSeq <- MaxCommits

Bytes == Inputs \cup {Empty}
Candidates == [input : Bytes, guided : BOOLEAN]
NoCandidate == [input |-> Empty, guided |-> FALSE]
NothingMade == [coord |-> None, input |-> Empty, guided |-> FALSE]

-----------------------------------------------------------------------------
(* The worker. *)

TakeOrder ==
  /\ up /\ pc = "idle" /\ ~answered /\ pend # None /\ order # pend
  /\ order' = pend /\ i' = 1
  /\ pc' = "mutate"
  /\ UNCHANGED <<ledger, echo, cand, hits, answered, made, coord, death>>

(* Mutate, then begin the commit of the coordinate. *)
BeginCommit ==
  /\ pc = "mutate"
  /\ cand' \in {c \in Candidates : c.guided => hits}
  /\ Ledger!Call(<<order, i>>)
  /\ pc' = "commit"
  /\ UNCHANGED <<echo, order, i, hits, answered, made, coord, death>>

CommitLands ==
  /\ pc = "commit"
  /\ Ledger!Apply
  /\ made' = [coord |-> <<order, i>>, input |-> cand.input, guided |-> cand.guided]
  /\ pc' = "echo"
  /\ UNCHANGED <<echo, order, i, cand, hits, answered, coord, death>>

(* Slip: the target runs before the bytes are copied. *)
EchoLengthOnly ==
  /\ up /\ pc = "echo"
  /\ echo' = IF cand.input = Empty THEN Empty ELSE Torn
  /\ pc' = "window"
  /\ UNCHANGED <<ledger, order, i, cand, hits, answered, made, coord, death>>

(* commit_echo: the length, then the bytes.  Once a non-empty length is    *)
(* stored the region may hold anything until the bytes are copied.         *)
EchoLength ==
  /\ up /\ pc = "echo"
  /\ echo' = IF cand.input = Empty THEN Empty ELSE Torn
  /\ pc' = "copy"
  /\ UNCHANGED <<ledger, order, i, cand, hits, answered, made, coord, death>>

EchoBytes ==
  /\ up /\ pc = "copy"
  /\ echo' = cand.input
  /\ pc' = "window"
  /\ UNCHANGED <<ledger, order, i, cand, hits, answered, made, coord, death>>

(* The measurement window ends, and with the batch its result is written.  *)
Execute ==
  /\ up /\ pc = "window" /\ cand.input \notin Crashing \cup Hanging
  /\ hits' \in BOOLEAN
  /\ IF i < Batch THEN i' = i + 1 /\ pc' = "mutate" /\ UNCHANGED answered
                  ELSE i' = i /\ pc' = "idle" /\ answered' = TRUE
  /\ UNCHANGED <<ledger, echo, order, cand, made, coord, death>>

DieInWindow ==
  /\ pc = "window" /\ cand.input \in Crashing \cup Hanging
  /\ Ledger!Die
  /\ cause' = IF cand.input \in Crashing THEN "crash" ELSE "timeout"
  /\ UNCHANGED <<lane, coord, kills>>

Kill ==
  /\ kills < MaxKills
  /\ Ledger!Die
  /\ cause' = "killed" /\ kills' = kills + 1
  /\ UNCHANGED <<lane, coord>>

-----------------------------------------------------------------------------
(* The coordinator. *)

Send ==
  /\ ~aborted /\ pend = None /\ ~answered /\ up /\ sent < MaxOrders
  /\ sent' = sent + 1 /\ pend' = sent + 1
  /\ UNCHANGED <<ledger, lane, findings, aborted, death>>

Aborts == aborted' = TRUE /\ UNCHANGED <<ledger, lane, pend, sent, findings, death>>

(* The pipe of a worker that died without a pending order is closed. *)
DispatchFails == ~aborted /\ pend = None /\ ~up /\ Aborts

(* A result is read before the Eof that may follow it. *)
ProcessResult ==
  /\ ~aborted /\ answered
  /\ answered' = FALSE /\ pend' = None
  /\ UNCHANGED <<ledger, echo, pc, order, i, cand, hits, made, sent, findings,
                 aborted, death>>

SeesDeath == ~aborted /\ ~up /\ ~answered /\ pend # None

(* The first commit of this worker may have been torn so that the reader   *)
(* reports a damaged ledger (Damaged in CrashLedger).                      *)
LedgerDamaged == SeesDeath /\ reg = None /\ op # None /\ Aborts

(* reconstruct_candidate on the pending order and the ledger's coordinate, *)
(* with no hits: exact when the coordinate is of that order and no hits    *)
(* were used.  The guided mutator keeps the length of the parent.          *)
Reconstructed ==
  IF reg.coord[1] # pend THEN Bytes
  ELSE IF ~made.guided \/ made.input = Empty THEN {made.input}
  ELSE Inputs

(* Slip: the echo is not consulted. *)
BlamedByCoordinate == IF reg = None THEN {Empty} ELSE Reconstructed

(* The inputs the coordinator may hold responsible. *)
Blamed ==
  IF reg = None THEN {Empty}
  ELSE IF echo # Empty THEN {echo}
  ELSE Reconstructed

(* A fresh worker runs the input alone; torn bytes may do anything. *)
Replay(input) ==
  IF input \in Crashing \cup Hanging THEN {"reproduced"}
  ELSE IF input \in Inputs THEN {"not-reproduced"}
  ELSE {"reproduced", "not-reproduced"}

Recorded(input, replay) ==
  IF input = Empty THEN findings
  ELSE findings \cup {[coord |-> reg.coord, input |-> input,
                       kind |-> "crash", replay |-> replay]}

(* Slip: the lane's ledger file is reused as it is. *)
RespawnStale ==
  /\ ~up /\ up' = TRUE /\ op' = None
  /\ pc' = "idle" /\ order' = None /\ i' = 1 /\ cand' = NoCandidate
  /\ hits' = FALSE /\ made' = NothingMade /\ cause' = None
  /\ UNCHANGED <<reg, echo>>

(* spawn: the ledger file is removed and created anew. *)
Respawn ==
  /\ Ledger!Reopen
  /\ echo' = Empty
  /\ pc' = "idle" /\ order' = None /\ i' = 1 /\ cand' = NoCandidate
  /\ hits' = FALSE /\ made' = NothingMade /\ cause' = None

HandleWorkerDeath ==
  /\ SeesDeath
  /\ \E input \in Blamed : \E replay \in Replay(input) :
       findings' = Recorded(input, replay)
  /\ pend' = None
  /\ Respawn
  /\ UNCHANGED <<answered, sent, aborted, kills>>

-----------------------------------------------------------------------------
LaneInit ==
  /\ Ledger!Init
  /\ echo = Empty /\ pc = "idle" /\ order = None /\ i = 1
  /\ cand = NoCandidate /\ hits = FALSE /\ answered = FALSE /\ made = NothingMade
  /\ pend = None /\ sent = 0 /\ findings = {} /\ aborted = FALSE
  /\ cause = None /\ kills = 0

(* The bound on orders is reached, or the campaign is over. *)
LaneRest == (aborted \/ (pend = None /\ sent = MaxOrders)) /\ UNCHANGED laneVars

LaneNext ==
  \/ TakeOrder
  \/ BeginCommit
  \/ CommitLands
  \/ EchoLength
  \/ EchoBytes
  \/ Execute
  \/ DieInWindow
  \/ Kill
  \/ Send
  \/ DispatchFails
  \/ ProcessResult
  \/ LedgerDamaged
  \/ HandleWorkerDeath
  \/ LaneRest

LaneSpec == LaneInit /\ [][LaneNext]_laneVars

-----------------------------------------------------------------------------
(* What must hold. *)

LedgerTyped ==
  /\ reg \in {None} \cup [seq : 1..MaxCommits, coord : Coords]
  /\ op \in {None} \cup Coords
  /\ up \in BOOLEAN

LaneTyped ==
  /\ echo \in Bytes \cup {Torn}
  /\ pc \in {"idle", "mutate", "commit", "echo", "copy", "window"}
  /\ order \in {None} \cup 1..MaxOrders /\ i \in 1..Batch
  /\ cand \in Candidates
  /\ hits \in BOOLEAN /\ answered \in BOOLEAN
  /\ made \in [coord : {None} \cup Coords, input : Bytes, guided : BOOLEAN]

CoordTyped ==
  /\ sent \in 0..MaxOrders /\ pend \in {None} \cup 1..MaxOrders
  /\ findings \subseteq [coord : Coords, input : Inputs \cup {Torn},
                         kind : {"crash"}, replay : {"reproduced", "not-reproduced"}]
  /\ aborted \in BOOLEAN

DeathTyped ==
  cause \in {None, "crash", "timeout", "killed"} /\ kills \in 0..MaxKills

LaneTypeOK == LedgerTyped /\ LaneTyped /\ CoordTyped /\ DeathTyped

(* "Crash reconstructability FIRST": whenever the target runs, the ledger  *)
(* file holds the coordinate and the bytes of exactly this execution.      *)
CommittedBeforeWindow ==
  pc = "window" => /\ reg # None /\ reg.coord = <<order, i>>
                   /\ echo = cand.input

(* A death inside the window, on a non-empty candidate, becomes a finding  *)
(* with that execution's coordinate and bytes, and replay confirms it.     *)
DeathInWindowAttributed ==
  [][HandleWorkerDeath /\ cause \in {"crash", "timeout"} /\ cand.input # Empty
       => \E f \in findings' : /\ f.coord = <<order, i>>
                               /\ f.input = cand.input
                               /\ f.replay = "reproduced"]_laneVars

(* A worker is never held responsible for a coordinate of the worker before*)
(* it on the lane: a new finding names the last commit of the process that *)
(* died, and none when that process committed nothing.                     *)
NoStaleBlame ==
  [][\A f \in findings' \ findings : f.coord = made.coord]_laneVars

-----------------------------------------------------------------------------
(* What the code says of itself and does not do. *)
=============================================================================
