------------------------------- MODULE Court -------------------------------
(***************************************************************************)
(* What becomes of a finding: the coordinator's handling of a dead worker  *)
(* from the finding on (execute/coordinator.rs), the FRF court             *)
(* (frf_bridge.rs), the publication into Gemel (gemel_bridge.rs) and the   *)
(* commands of cli.rs that work on stored findings and tapes.              *)
(*                                                                         *)
(* Two processes can have the store open, a campaign and a command.  Each  *)
(* object is written by one put (ObjectStore), so a killed process leaves  *)
(* the objects it had put.  An object is its own id: a record that names   *)
(* another holds it.  FRF and Gemel are libraries; what they do is modelled *)
(* from how they are called.                                               *)
(***************************************************************************)
EXTENDS Naturals, FiniteSets

CONSTANTS
  Inputs,      (* Input bytes.                                             *)
  Coords,      (* Mutation coordinates: two deaths on one input differ.    *)
  Versions,    (* name-version of an authority: its FRF id.                *)
  Oracles,     (* Contents of the authority's executable.                  *)
  Divergent,   (* <<input, oracle>> on which target and reference differ.  *)
  Configs,     (* What campaigns are started with.                         *)
  Exclusive,   (* TRUE: a command runs only while no campaign does.        *)
  MaxStarts, MaxKills, MaxEdits,   (* Bounds.                 *)
  None

ASSUME CourtAssumption ==
  /\ Divergent \subseteq Inputs \X Oracles /\ Exclusive \in BOOLEAN
  /\ \A c \in Configs : c.version \in Versions \cup {None} /\ {c.claim, c.gemel} \subseteq BOOLEAN
  /\ {MaxStarts, MaxKills, MaxEdits} \subseteq Nat
  /\ None \notin Inputs \cup Oracles \cup Coords \cup Versions

VARIABLES
  findings, tapes, witnesses, precedents,   (* The store: what fsck links. *)
  verifications, boundaries, residuals,
  oracle,      (* The bytes at the authority's path now.                   *)
  admitted,    (* FRF: the bytes each version was admitted with.           *)
  receipts, claims,   (* FRF: runs with a receipt, with a compiled claim.  *)
  staged,      (* The input in the court directory's fixture.bin.          *)
  gemel,       (* Gemel: the objects inserted, <<family, subject>>.        *)
  at, job,     (* The next step of each process, and what it works on.     *)
  config,      (* The configuration of the campaign.                       *)
  verified,    (* verified_inputs: memory of the campaign.                 *)
  starts, kills, edits,
  skipped      (* History: findings left to an earlier court, and version. *)

store == <<findings, tapes, witnesses, precedents, verifications,
           boundaries, residuals>>
frf   == <<admitted, receipts, claims, staged>>
env   == <<oracle, edits>>
count == <<starts, kills>>
vars  == <<store, env, frf, gemel, at, job, config, verified, count, skipped>>

Procs    == {"campaign", "command"}
Statuses == {"Ok", "Crash", "Timeout"}
Finding  == [input : Inputs, coord : Coords \cup {None},
             replay : {"NotReplayed", "Reproduced", "NotReproduced"}]
Tape     == [candidate : Inputs, termination : Statuses]
CourtRun == [version : Versions, bytes : Oracles, input : Inputs]
Verification ==
  [finding : Finding, version : Versions, outcome : {"Verified", "Failed"},
   run : CourtRun \cup {None}, receipt : BOOLEAN, claim : BOOLEAN,
   note : {"none", "config", "court", "receipt", "parity", "claim"}]
Boundary == [kind : {"FindingVerified", "PrecedentAdmitted"}, subject : Finding,
             published : BOOLEAN]
Job      == [finding : Finding, version : Versions \cup {None}, claim : BOOLEAN, gemel : BOOLEAN,
             rec : Verification \cup {None}, boundary : Boundary \cup {None}]

(* A record is not None. *)
ASSUME NoneAssumption == None \notin CourtRun \cup Verification

(* A campaign's authority or None, --claim, and whether it publishes: with *)
(* --gemel off, as without a repository, nothing is written.               *)
Config   == [version : Versions \cup {None}, claim : BOOLEAN, gemel : BOOLEAN]

Init ==
  /\ findings = {} /\ tapes = {} /\ witnesses = {} /\ precedents = {}
  /\ verifications = {} /\ boundaries = {} /\ residuals = {}
  /\ oracle \in Oracles /\ admitted = [v \in Versions |-> None]
  /\ receipts = {} /\ claims = {} /\ staged = None /\ gemel = {}
  /\ at = [p \in Procs |-> "idle"] /\ job = [p \in Procs |-> None]
  /\ config \in Configs /\ verified = {} /\ skipped = {}
  /\ starts = 0 /\ kills = 0 /\ edits = 0

(***************************************************************************)
(* Helpers.                                                                *)
(***************************************************************************)
Goto(p, s) == at' = [at EXCEPT ![p] = s] /\ UNCHANGED job

GotoWith(p, s, j) == at' = [at EXCEPT ![p] = s] /\ job' = [job EXCEPT ![p] = j]

Done(p) == GotoWith(p, "idle", None)

MayStart(p) ==
  /\ at[p] = "idle"
  /\ Exclusive => \A q \in Procs : at[q] = "idle"

StartCommand == MayStart("command") /\ starts < MaxStarts /\ starts' = starts + 1

Publish(p, k, f) ==
  GotoWith(p, "evidence",
    [job[p] EXCEPT !.boundary = [kind |-> k, subject |-> f, published |-> FALSE]])

(* A court record before anything is known, bound to its finding.          *)
Blank(f, v) == [finding |-> f, version |-> v, outcome |-> "Failed", run |-> None,
                receipt |-> FALSE, claim |-> FALSE, note |-> "none"]

NewJob(f, c) == [finding |-> f, version |-> c.version, claim |-> c.claim,
                 gemel |-> c.gemel, rec |-> None, boundary |-> None]

ToCourt(p, j) == GotoWith(p, "admit", [j EXCEPT !.rec = Blank(j.finding, j.version)])

(* The campaign turns a hard error of the court into a Failed record that  *)
(* keeps only its reason; the command ends with it and records nothing.    *)
HardError(p) ==
  IF p = "campaign"
    THEN GotoWith(p, "record", [job[p] EXCEPT !.rec =
           [Blank(job[p].finding, job[p].version) EXCEPT !.note = "config"]])
    ELSE Done(p)

(* Slip: the latest failure hides an earlier verification.                 *)
CurrentFailed(f) ==
  LET of  == {r \in verifications : r.finding = f}
      top == {r \in of : r.outcome = "Failed"}
  IN  IF of = {} THEN None ELSE CHOOSE r \in of : top = {} \/ r \in top

(* current_verification: the strongest record of a finding.                *)
Current(f) ==
  LET of  == {r \in verifications : r.finding = f}
      top == {r \in of : r.outcome = "Verified"}
  IN  IF of = {} THEN None ELSE CHOOSE r \in of : top = {} \/ r \in top

(***************************************************************************)
(* A worker died: finding, crash tape, boundary witness, precedent,        *)
(* deliberate replay.                                                      *)
(***************************************************************************)
Die(i, c) ==
  LET f == [input |-> i, coord |-> c, replay |-> "NotReplayed"] IN
  /\ MayStart("campaign") /\ starts < MaxStarts
  /\ findings' = findings \cup {f} /\ starts' = starts + 1
  /\ GotoWith("campaign", "tape", NewJob(f, config))
  /\ UNCHANGED <<tapes, witnesses, precedents, verifications, boundaries, residuals,
                 env, frf, gemel, config, verified, kills, skipped>>

PutTape ==
  /\ at["campaign"] = "tape"
  /\ tapes' = tapes \cup {[candidate |-> job["campaign"].finding.input,
                           termination |-> "Crash"]}
  /\ Goto("campaign", "witness")
  /\ UNCHANGED <<findings, witnesses, precedents, verifications, boundaries, residuals,
                 env, frf, gemel, config, verified, count, skipped>>

(* Only with a pending order, and a parent still in the corpus.            *)
PutWitness ==
  /\ at["campaign"] = "witness"
  /\ \/ witnesses' = witnesses \cup {[right |-> job["campaign"].finding]}
     \/ UNCHANGED witnesses
  /\ Goto("campaign", "precedent")
  /\ UNCHANGED <<findings, tapes, precedents, verifications, boundaries, residuals,
                 env, frf, gemel, config, verified, count, skipped>>

(* maybe_admit_precedent: its guards on the lineage are the choice here.   *)
(* A precedent that is admitted is published before the replay.            *)
AdmitPrecedent ==
  LET c == "campaign" IN
  /\ at[c] = "precedent"
  /\ \/ UNCHANGED precedents /\ Goto(c, "replay")
     \/ /\ precedents' = precedents \cup {[terminal |-> job[c].finding]}
        /\ IF job[c].gemel
             THEN Publish(c, "PrecedentAdmitted", job[c].finding)
             ELSE Goto(c, "replay")
  /\ UNCHANGED <<findings, tapes, witnesses, verifications, boundaries, residuals,
                 env, frf, gemel, config, verified, count, skipped>>

(* Slip: the revision that goes to court is never put.                     *)
ReplayUnstored(st) ==
  LET c == "campaign"
      f == [job[c].finding EXCEPT !.replay = st]
      v == job[c].version IN
  /\ at[c] = "replay" /\ st # "NotReplayed"
  /\ CASE st = "NotReproduced" \/ v = None ->
            Done(c) /\ UNCHANGED <<verified, skipped>>
       [] st = "Reproduced" /\ v # None /\ f.input \in verified ->
            Done(c) /\ skipped' = skipped \cup {<<f, v>>} /\ UNCHANGED verified
       [] OTHER ->
            /\ ToCourt(c, [job[c] EXCEPT !.finding = f])
            /\ verified' = verified \cup {f.input} /\ UNCHANGED skipped
  /\ UNCHANGED <<store, env, frf, gemel, config, count>>

(* classify_and_replay puts a new revision of the finding; with an         *)
(* authority a reproduced one goes to court, unless its input has been.    *)
Replay(st) ==
  LET c == "campaign"
      f == [job[c].finding EXCEPT !.replay = st]
      v == job[c].version IN
  /\ at[c] = "replay" /\ st # "NotReplayed"
  /\ findings' = findings \cup {f}
  /\ CASE st = "NotReproduced" \/ v = None ->
            Done(c) /\ UNCHANGED <<verified, skipped>>
       [] st = "Reproduced" /\ v # None /\ f.input \in verified ->
            Done(c) /\ skipped' = skipped \cup {<<f, v>>} /\ UNCHANGED verified
       [] OTHER ->
            /\ ToCourt(c, [job[c] EXCEPT !.finding = f])
            /\ verified' = verified \cup {f.input} /\ UNCHANGED skipped
  /\ UNCHANGED <<tapes, witnesses, precedents, verifications, boundaries, residuals,
                 env, frf, gemel, config, count>>

(***************************************************************************)
(* The court, step by step, for either process.                            *)
(***************************************************************************)
Verify(f, c) ==
  /\ StartCommand /\ f \in findings /\ c.version # None
  /\ ToCourt("command", NewJob(f, c))
  /\ UNCHANGED <<store, env, frf, gemel, config, verified, kills, skipped>>

(* A missing or unusable candidate, authority, id or question.             *)
Unusable(p) ==
  /\ at[p] = "admit" /\ HardError(p)
  /\ UNCHANGED <<store, env, frf, gemel, config, verified, count, skipped>>

(* Slip: changed bytes are admitted again under the same version.          *)
AdmitAgain(p) ==
  LET v == job[p].version IN
  /\ at[p] = "admit"
  /\ admitted' = [admitted EXCEPT ![v] = oracle] /\ Goto(p, "stage")
  /\ UNCHANGED <<store, env, receipts, claims, staged, gemel, config, verified, count,
                 skipped>>

(* admit_or_verify: the first court of a version admits the oracle; later  *)
(* ones refuse other bytes.                                                *)
Admit(p) ==
  LET v == job[p].version IN
  /\ at[p] = "admit"
  /\ \/ /\ admitted[v] = None
        /\ admitted' = [admitted EXCEPT ![v] = oracle] /\ Goto(p, "stage")
     \/ /\ admitted[v] = oracle
        /\ Goto(p, "stage") /\ UNCHANGED admitted
     \/ /\ admitted[v] \notin {None, oracle}
        /\ HardError(p) /\ UNCHANGED admitted
  /\ UNCHANGED <<store, env, receipts, claims, staged, gemel, config, verified, count,
                 skipped>>

(* The fixture is one file per question id, shared by all courts.          *)
Stage(p) ==
  /\ at[p] = "stage"
  /\ staged' = job[p].finding.input /\ Goto(p, "run")
  /\ UNCHANGED <<store, env, admitted, receipts, claims, gemel, config, verified, count,
                 skipped>>

(* FRF snapshots the staged fixture, and refuses a drifted oracle.         *)
RunCourt(p) ==
  LET v   == job[p].version
      run == [version |-> v, bytes |-> oracle, input |-> staged] IN
  /\ at[p] = "run"
  /\ \/ GotoWith(p, "record", [job[p] EXCEPT !.rec.note = "court"])
     \/ oracle = admitted[v] /\ GotoWith(p, "receipt", [job[p] EXCEPT !.rec.run = run])
  /\ UNCHANGED <<store, env, frf, gemel, config, verified, count, skipped>>

Receipt(p) ==
  /\ at[p] = "receipt"
  /\ \/ /\ GotoWith(p, "record", [job[p] EXCEPT !.rec.note = "receipt"])
        /\ UNCHANGED receipts
     \/ /\ GotoWith(p, "judge", [job[p] EXCEPT !.rec.receipt = TRUE])
        /\ receipts' = receipts \cup {job[p].rec.run}
  /\ UNCHANGED <<store, env, admitted, claims, staged, gemel, config, verified, count,
                 skipped>>

(* Slip: the receipt alone is taken for the verification.                  *)
JudgeByReceipt(p) ==
  /\ at[p] = "judge"
  /\ GotoWith(p, IF job[p].claim THEN "claim" ELSE "record",
             [job[p] EXCEPT !.rec.outcome = "Verified"])
  /\ UNCHANGED <<store, env, frf, gemel, config, verified, count, skipped>>

(* A receipt of a run without a divergence verifies nothing.               *)
Judge(p) ==
  LET run == job[p].rec.run
      diverged == <<run.input, run.bytes>> \in Divergent IN
  /\ at[p] = "judge"
  /\ \/ HardError(p)
     \/ ~diverged /\ GotoWith(p, "record", [job[p] EXCEPT !.rec.note = "parity"])
     \/ diverged /\ GotoWith(p, IF job[p].claim THEN "claim" ELSE "record",
                             [job[p] EXCEPT !.rec.outcome = "Verified"])
  /\ UNCHANGED <<store, env, frf, gemel, config, verified, count, skipped>>

(* A refused claim leaves the verdict, with a note.                        *)
CompileClaim(p) ==
  /\ at[p] = "claim"
  /\ \/ /\ claims' = claims \cup {job[p].rec.run}
        /\ GotoWith(p, "record", [job[p] EXCEPT !.rec.claim = TRUE])
     \/ /\ GotoWith(p, "record", [job[p] EXCEPT !.rec.note = "claim"])
        /\ UNCHANGED claims
  /\ UNCHANGED <<store, env, admitted, receipts, staged, gemel, config, verified, count,
                 skipped>>

(* The record is put; a verified finding is published, with Gemel on.      *)
Record(p) ==
  LET rec == job[p].rec IN
  /\ at[p] = "record"
  /\ verifications' = verifications \cup {rec}
  /\ IF rec.outcome = "Verified" /\ job[p].gemel
       THEN Publish(p, "FindingVerified", rec.finding) ELSE Done(p)
  /\ UNCHANGED <<findings, tapes, witnesses, precedents, boundaries, residuals, env, frf,
                 gemel, config, verified, count, skipped>>

(***************************************************************************)
(* publish_boundary.                                                       *)
(***************************************************************************)
(* After a precedent the replay is still due.                              *)
After(p) == IF job[p].boundary.kind = "PrecedentAdmitted"
              THEN GotoWith(p, "replay", [job[p] EXCEPT !.boundary = None])
              ELSE Done(p)

(* The repository is broken, has no head state, or the insertion fails.    *)
InsertEvidence(p) ==
  LET b == job[p].boundary IN
  /\ at[p] = "evidence"
  /\ \/ Goto(p, "local") /\ UNCHANGED gemel
     \/ /\ gemel' = gemel \cup {<<"evidence", b.kind, b.subject>>}
        /\ IF b.kind = "FindingVerified" THEN Goto(p, "gclaim")
           ELSE GotoWith(p, "local", [job[p] EXCEPT !.boundary.published = TRUE])
  /\ UNCHANGED <<store, env, frf, config, verified, count, skipped>>

InsertClaim(p) ==
  LET b == job[p].boundary IN
  /\ at[p] = "gclaim"
  /\ \/ Goto(p, "local") /\ UNCHANGED gemel
     \/ /\ gemel' = gemel \cup {<<"claim", b.kind, b.subject>>}
        /\ GotoWith(p, "local", [job[p] EXCEPT !.boundary.published = TRUE])
  /\ UNCHANGED <<store, env, frf, config, verified, count, skipped>>

PutBoundary(p) ==
  /\ at[p] = "local"
  /\ boundaries' = boundaries \cup {job[p].boundary} /\ After(p)
  /\ UNCHANGED <<findings, tapes, witnesses, precedents, verifications, residuals, env,
                 frf, gemel, config, verified, count, skipped>>

(***************************************************************************)
(* The other commands on a finding or a tape.  One that is killed leaves   *)
(* the first of its puts.                                                  *)
(***************************************************************************)
(* replay: a revision with the status seen.                                *)
ReplayFinding(f, st) ==
  /\ StartCommand /\ f \in findings
  /\ findings' = findings \cup {[f EXCEPT !.replay = st]}
  /\ UNCHANGED <<tapes, witnesses, precedents, verifications, boundaries, residuals, env,
                 frf, gemel, at, job, config, verified, kills, skipped>>

(* tmin: a revision with other bytes, and no coordinate.                   *)
MinimizeFinding(f, i) ==
  /\ StartCommand /\ f \in findings
  /\ findings' = findings \cup {[input |-> i, coord |-> None, replay |-> "NotReplayed"]}
  /\ UNCHANGED <<tapes, witnesses, precedents, verifications, boundaries, residuals, env,
                 frf, gemel, at, job, config, verified, kills, skipped>>

(* boundary: the witness, then a tape of its surviving and dying side.     *)
MinimizeBoundary(f, l, r, puts) ==
  /\ StartCommand /\ f \in findings /\ l # r
  /\ witnesses' = witnesses \cup {[right |-> f]}
  /\ tapes' = tapes \cup (IF puts >= 2 THEN {[candidate |-> l, termination |-> "Ok"]} ELSE {})
                    \cup (IF puts = 3 THEN {[candidate |-> r, termination |-> "Crash"]} ELSE {})
  /\ UNCHANGED <<findings, precedents, verifications, boundaries, residuals, env, frf,
                 gemel, at, job, config, verified, kills, skipped>>

(* revision replay: what each state's artifact made of the tape, and one   *)
(* residual per adjacent pair; a death keeps the tape's own class.         *)
Observed(t, survived) ==
  IF survived THEN "Ok" ELSE IF t.termination = "Ok" THEN "Crash" ELSE t.termination

ReplayRevisions(t, survived, puts) ==
  /\ StartCommand /\ t \in tapes
  /\ residuals' = residuals \cup
       {[tape |-> t, earlier |-> Observed(t, survived[n]),
         later |-> Observed(t, survived[n + 1])] : n \in 1..puts}
  /\ UNCHANGED <<findings, tapes, witnesses, precedents, verifications, boundaries, env,
                 frf, gemel, at, job, config, verified, kills, skipped>>

(* Slip: the inputs verified are remembered across campaigns.              *)
KillRemembers(p, c) ==
  /\ kills < MaxKills /\ kills' = kills + 1 /\ Done(p)
  /\ IF p = "campaign" THEN config' = c ELSE c = config /\ UNCHANGED config
  /\ UNCHANGED <<store, env, frf, gemel, verified, starts, skipped>>

(***************************************************************************)
(* The process is killed, or ends; the next campaign has its own memory    *)
(* and configuration.  The oracle is edited.                               *)
(***************************************************************************)
Kill(p, c) ==
  /\ kills < MaxKills /\ kills' = kills + 1 /\ Done(p)
  /\ IF p = "campaign" THEN verified' = {} /\ config' = c
                       ELSE c = config /\ UNCHANGED <<verified, config>>
  /\ UNCHANGED <<store, env, frf, gemel, starts, skipped>>

EditOracle ==
  /\ edits < MaxEdits /\ edits' = edits + 1
  /\ oracle' \in Oracles \ {oracle}
  /\ UNCHANGED <<store, frf, gemel, at, job, config, verified, count, skipped>>

(* Both processes may be at rest; in the middle of a handler they are not. *)
Rest == (\A p \in Procs : at[p] = "idle") /\ UNCHANGED vars

CourtStep(p) ==
  \/ Unusable(p) \/ Admit(p) \/ Stage(p) \/ RunCourt(p) \/ Receipt(p) \/ Judge(p)
  \/ CompileClaim(p) \/ Record(p)
  \/ InsertEvidence(p) \/ InsertClaim(p) \/ PutBoundary(p)

Command ==
  \/ \E f \in findings, c \in Configs : Verify(f, c)
  \/ \E f \in findings, st \in {"Reproduced", "NotReproduced"} : ReplayFinding(f, st)
  \/ \E f \in findings, i \in Inputs : MinimizeFinding(f, i)
  \/ \E f \in findings, l, r \in Inputs, puts \in 1..3 : MinimizeBoundary(f, l, r, puts)
  \/ \E t \in tapes, survived \in [1..3 -> BOOLEAN], puts \in 1..2 :
        ReplayRevisions(t, survived, puts)

Next ==
  \/ \E i \in Inputs, c \in Coords : Die(i, c)
  \/ PutTape \/ PutWitness \/ AdmitPrecedent
  \/ \E st \in {"Reproduced", "NotReproduced"} : Replay(st)
  \/ \E p \in Procs : CourtStep(p)
  \/ Command
  \/ \E p \in Procs, c \in Configs : Kill(p, c)
  \/ EditOracle
  \/ Rest

Spec == Init /\ [][Next]_vars

(***************************************************************************)
(* Properties.                                                             *)
(***************************************************************************)
TypeOK ==
  /\ findings \subseteq Finding /\ tapes \subseteq Tape
  /\ witnesses \subseteq [right : Finding] /\ precedents \subseteq [terminal : Finding]
  /\ verifications \subseteq Verification /\ boundaries \subseteq Boundary
  /\ residuals \subseteq [tape : Tape, earlier : Statuses, later : Statuses]
  /\ oracle \in Oracles /\ admitted \in [Versions -> Oracles \cup {None}]
  /\ receipts \subseteq CourtRun /\ claims \subseteq CourtRun
  /\ staged \in Inputs \cup {None}
  /\ gemel \subseteq {"evidence", "claim"} \X {"FindingVerified", "PrecedentAdmitted"} \X Finding
  /\ at \in [Procs -> {"idle", "tape", "witness", "precedent", "replay", "admit", "stage",
                      "run", "receipt", "judge", "claim", "record", "evidence", "gclaim",
                      "local"}]
  /\ job \in [Procs -> Job \cup {None}]
  /\ config \in Configs /\ verified \subseteq Inputs
  /\ skipped \subseteq Finding \X Versions
  /\ {starts, kills, edits} \subseteq Nat

(* A finding is recorded as verified only on a run that captured its own   *)
(* input, against the very bytes its authority was admitted with, that     *)
(* diverged and has a receipt: a staged fixture of another court, a        *)
(* replaced oracle or a parity run never verify it.                        *)
VerifiedOnOwnInput ==
  \A r \in verifications : r.outcome = "Verified" =>
    /\ r.receipt /\ r.run \in receipts
    /\ r.run.input = r.finding.input
    /\ r.run.version = r.version /\ r.run.bytes = admitted[r.version]
    /\ <<r.run.input, r.run.bytes>> \in Divergent

(* Verifying the same input again against the same authority, by the       *)
(* campaign or by a command, across edits of the oracle, kills and         *)
(* restarts, yields the same run: what two courts say of it never differs. *)
RunsConverge ==
  \A r, s \in verifications :
    /\ r.finding.input = s.finding.input /\ r.version = s.version
    /\ None \notin {r.run, s.run}
    => r.run = s.run

(* A finding the campaign leaves to an earlier court, because its input    *)
(* has been verified, finds a durable record on its input and its          *)
(* authority.                                                              *)
SkippedIsCovered ==
  \A s \in skipped : \E r \in verifications :
    r.finding.input = s[1].input /\ r.version = s[2]

(* What Gemel holds on a finding, and what the store says was published,   *)
(* is backed: the finding's current verification is Verified, and stays so *)
(* when a later court refuses; a published boundary has its objects.       *)
ClaimsBacked ==
  /\ \A g \in gemel : g[2] = "FindingVerified" =>
       Current(g[3]) # None /\ Current(g[3]).outcome = "Verified"
  /\ \A b \in boundaries : b.published =>
       /\ <<"evidence", b.kind, b.subject>> \in gemel
       /\ b.kind = "FindingVerified" => <<"claim", b.kind, b.subject>> \in gemel

(* What fsck's link checks report, by family.                              *)
PrecedentErrors    == {p \in precedents : p.terminal \notin findings}
VerificationErrors == {r \in verifications : r.finding \notin findings}
GemelErrors ==
  {b \in boundaries :
     \/ b.kind = "FindingVerified" /\ b.subject \notin findings
     \/ b.kind = "PrecedentAdmitted" /\ [terminal |-> b.subject] \notin precedents
     \/ b.published /\ \A g \in gemel : g[2] # b.kind \/ g[3] # b.subject}
RevisionErrors     == {r \in residuals : r.tape \notin tapes}

LinkErrors == PrecedentErrors \cup VerificationErrors \cup GemelErrors \cup RevisionErrors

(* fsck passes after a kill at any step: nothing is put before what it     *)
(* names, in the store or in FRF's, and a witness has its finding.         *)
LinksClosed ==
  /\ LinkErrors = {}
  /\ {w.right : w \in witnesses} \subseteq findings
  /\ \A r \in verifications : (r.receipt => r.run \in receipts) /\ (r.claim => r.run \in claims)
=============================================================================
