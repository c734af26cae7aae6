---------------------------- MODULE CourtProofs ----------------------------
(***************************************************************************)
(* Theorems about what becomes of a finding, for any inputs, authorities,  *)
(* oracles and divergences, and any number of starts, kills and edits.     *)
(* Only what rests on the shared fixture file needs a store that one       *)
(* process has to itself (Exclusive); the rest holds for two at a time.    *)
(* In the second part, what the commands that minimize keep.               *)
(***************************************************************************)
EXTENDS Court, Minimization, FiniteSetTheorems, WellFoundedInduction, TLAPS

InCourt == {"admit", "stage", "run", "receipt", "judge", "claim", "record"}
Stages  == InCourt \cup {"idle", "tape", "witness", "precedent", "replay",
                         "evidence", "gclaim", "local"}

(* A record says only what is so, from the moment it is begun.             *)
Sound(r) ==
  /\ r.finding \in findings
  /\ r.run # None =>
       /\ r.run.version = r.version /\ r.run.bytes = admitted[r.version]
       /\ Exclusive => r.run.input = r.finding.input
  /\ r.receipt => r.run \in receipts
  /\ r.claim => r.run \in claims
  /\ r.outcome = "Verified" => r.receipt /\ <<r.run.input, r.run.bytes>> \in Divergent

(* What the steps of the court before s have done to the record.           *)
ReadyFor(s, r) ==
  /\ s \in {"admit", "stage", "run"} =>
       r.run = None /\ ~r.receipt /\ ~r.claim /\ r.outcome = "Failed"
  /\ s \in {"receipt", "judge", "claim"} => r.run \in CourtRun
  /\ s = "judge" => r.receipt

(* A boundary, and what Gemel holds, rest on what the store holds.         *)
HasVerdict(f) == \E r \in verifications : r.finding = f /\ r.outcome = "Verified"

Backed(b) ==
  /\ b.kind = "FindingVerified" => b.subject \in findings /\ HasVerdict(b.subject)
  /\ b.kind = "PrecedentAdmitted" => [terminal |-> b.subject] \in precedents
  /\ b.published => /\ <<"evidence", b.kind, b.subject>> \in gemel
                    /\ b.kind = "FindingVerified" => <<"claim", b.kind, b.subject>> \in gemel

JobInv(p) ==
  /\ at[p] # "idle" =>
       /\ job[p] \in Job /\ job[p].finding \in findings
       /\ p = "campaign" => job[p].version = config.version
  /\ at[p] \in InCourt =>
       /\ job[p].version \in Versions /\ job[p].rec \in Verification
       /\ job[p].rec.finding = job[p].finding /\ job[p].rec.version = job[p].version
       /\ Sound(job[p].rec) /\ ReadyFor(at[p], job[p].rec)
  /\ at[p] = "run" => staged \in Inputs /\ (Exclusive => staged = job[p].finding.input)
  /\ at[p] \in {"evidence", "gclaim", "local"} =>
       job[p].boundary \in Boundary /\ Backed(job[p].boundary)
  /\ at[p] = "gclaim" =>
       /\ job[p].boundary.kind = "FindingVerified"
       /\ <<"evidence", "FindingVerified", job[p].boundary.subject>> \in gemel

StoredInv ==
  /\ \A r \in verifications : Sound(r)
  /\ \A b \in boundaries : Backed(b)
  /\ \A g \in gemel : g[2] = "FindingVerified" => HasVerdict(g[3])
  /\ \A w \in witnesses : w.right \in findings
  /\ \A p \in precedents : p.terminal \in findings
  /\ \A r \in residuals : r.tape \in tapes

(* An input the campaign has taken to court has a record, or is there now. *)
Covered(i, v) == \E r \in verifications : r.finding.input = i /\ r.version = v

SkipInv ==
  /\ \A s \in skipped : Covered(s[1].input, s[2])
  /\ \A i \in verified :
       \/ Covered(i, config.version)
       \/ at["campaign"] \in InCourt /\ job["campaign"].finding.input = i

Alone == Exclusive => \A p, q \in Procs : at[p] # "idle" /\ at[q] # "idle" => p = q

IInv == TypeOK /\ (\A p \in Procs : JobInv(p)) /\ StoredInv /\ SkipInv /\ Alone

-----------------------------------------------------------------------------
(* What is put stays: no family loses an object, and an authority keeps    *)
(* the bytes it was admitted with.                                         *)
Grows ==
  /\ findings \subseteq findings' /\ tapes \subseteq tapes'
  /\ precedents \subseteq precedents' /\ verifications \subseteq verifications'
  /\ receipts \subseteq receipts' /\ claims \subseteq claims' /\ gemel \subseteq gemel'
  /\ \A v \in Versions : admitted[v] # None => admitted'[v] = admitted[v]

LEMMA SoundKept ==
  ASSUME Grows, NEW r \in Verification, Sound(r)
  PROVE  Sound(r)'
<1>1. r.version \in Versions /\ (r.run # None => r.run \in CourtRun /\ r.run.bytes \in Oracles)
  BY DEF Verification, CourtRun
<1>2. r.run # None => admitted'[r.version] = admitted[r.version]
  BY <1>1, CourtAssumption DEF Sound, Grows
<1>. QED  BY <1>2 DEF Sound, Grows

LEMMA VerdictKept ==
  ASSUME Grows, NEW f, HasVerdict(f)
  PROVE  HasVerdict(f)'
BY DEF HasVerdict, Grows

LEMMA BackedKept ==
  ASSUME Grows, NEW b, Backed(b)
  PROVE  Backed(b)'
<1>1. HasVerdict(b.subject) => HasVerdict(b.subject)'
  BY DEF HasVerdict, Grows
<1>. QED  BY <1>1 DEF Backed, Grows

(* A process that does not move keeps what is known of it.                 *)
LEMMA OthersKept ==
  ASSUME Grows, NEW q \in Procs, JobInv(q), at'[q] = at[q], job'[q] = job[q],
         at[q] = "run" => staged' \in Inputs /\ (Exclusive => staged' = staged),
         q = "campaign" => config' = config
  PROVE  JobInv(q)'
<1>1. PICK j : j = job[q]
  OBVIOUS
<1>2. job[q] = j /\ job'[q] = j
  BY <1>1
<1>3. at[q] \in InCourt => Sound(j.rec)'
  <2>. SUFFICES ASSUME at[q] \in InCourt PROVE Sound(j.rec)'
    OBVIOUS
  <2>1. j.rec \in Verification /\ Sound(j.rec)
    BY <1>2 DEF JobInv
  <2>. QED  BY <2>1, SoundKept
<1>4. at[q] \in {"evidence", "gclaim", "local"} => Backed(j.boundary)'
  <2>. SUFFICES ASSUME at[q] \in {"evidence", "gclaim", "local"} PROVE Backed(j.boundary)'
    OBVIOUS
  <2>1. Backed(j.boundary)
    BY <1>2 DEF JobInv
  <2>. QED  BY <2>1, BackedKept
<1>5. at[q] \in InCourt => Sound(job[q].rec)'
  BY <1>2, <1>3 DEF Sound
<1>6. at[q] \in {"evidence", "gclaim", "local"} => Backed(job[q].boundary)'
  BY <1>2, <1>4 DEF Backed, HasVerdict
<1>. QED  BY <1>5, <1>6 DEF JobInv, Grows

(* What was stored stays true; only what is new is to be shown.            *)
LEMMA StoredKept ==
  ASSUME TypeOK, StoredInv, Grows,
         \A r \in verifications' \ verifications : Sound(r)',
         \A b \in boundaries' \ boundaries : Backed(b)',
         \A g \in gemel' \ gemel : g[2] = "FindingVerified" => HasVerdict(g[3])',
         \A w \in witnesses' \ witnesses : w.right \in findings',
         \A x \in precedents' \ precedents : x.terminal \in findings',
         \A r \in residuals' \ residuals : r.tape \in tapes'
  PROVE  StoredInv'
<1>1. ASSUME NEW r \in verifications' PROVE Sound(r)'
  <2>1. CASE r \in verifications
    <3>1. r \in Verification /\ Sound(r)
      BY <2>1 DEF TypeOK, StoredInv
    <3>. QED  BY <3>1, SoundKept
  <2>. QED  BY <2>1
<1>2. ASSUME NEW b \in boundaries' PROVE Backed(b)'
  <2>1. CASE b \in boundaries
    <3>1. Backed(b)
      BY <2>1 DEF StoredInv
    <3>. QED  BY <3>1, BackedKept
  <2>. QED  BY <2>1
<1>3. ASSUME NEW g \in gemel', g[2] = "FindingVerified" PROVE HasVerdict(g[3])'
  <2>1. CASE g \in gemel
    <3>1. HasVerdict(g[3])
      BY <1>3, <2>1 DEF StoredInv
    <3>. QED  BY <3>1, VerdictKept
  <2>. QED  BY <1>3, <2>1
<1>4. /\ \A w \in witnesses' : w.right \in findings'
      /\ \A x \in precedents' : x.terminal \in findings'
      /\ \A r \in residuals' : r.tape \in tapes'
  BY DEF StoredInv, Grows
<1>. QED  BY <1>1, <1>2, <1>3, <1>4 DEF StoredInv

LEMMA SkipKept ==
  ASSUME SkipInv, Grows, UNCHANGED <<verified, skipped, config>>,
         at["campaign"] \in InCourt =>
           \/ /\ at'["campaign"] \in InCourt
              /\ job'["campaign"].finding = job["campaign"].finding
           \/ \E r \in verifications' : /\ r.finding.input = job["campaign"].finding.input
                                       /\ r.version = config.version
  PROVE  SkipInv'
<1>1. \A i, v : Covered(i, v) => Covered(i, v)'
  BY DEF Covered, Grows
<1>2. \A s \in skipped' : Covered(s[1].input, s[2])'
  BY <1>1 DEF SkipInv
<1>3. ASSUME NEW i \in verified'
      PROVE  \/ Covered(i, config.version)'
             \/ at'["campaign"] \in InCourt /\ job'["campaign"].finding.input = i
  <2>1. CASE Covered(i, config.version)
    <3>1. config' = config /\ verifications \subseteq verifications'
      BY DEF Grows
    <3>. QED  BY <2>1, <3>1 DEF Covered
  <2>2. CASE at["campaign"] \in InCourt /\ job["campaign"].finding.input = i
    <3>1. config' = config
      OBVIOUS
    <3>. QED  BY <2>2, <3>1 DEF Covered
  <2>. QED  BY <2>1, <2>2 DEF SkipInv
<1>. QED  BY <1>2, <1>3 DEF SkipInv

(* A step of p, or a start of p when it may start.                         *)
LEMMA StepKeeps ==
  ASSUME IInv, NEW p \in Procs, TypeOK', Grows,
         \A q \in Procs \ {p} : at'[q] = at[q] /\ job'[q] = job[q],
         staged' = staged \/ (at[p] = "stage" /\ staged' \in Inputs),
         config' = config,
         at[p] # "idle" \/ at'[p] = "idle" \/ MayStart(p),
         JobInv(p)', StoredInv', SkipInv'
  PROVE  IInv'
<1>1. Alone'
  BY DEF IInv, Alone, MayStart
<1>2. ASSUME NEW q \in Procs PROVE JobInv(q)'
  <2>1. CASE q = p
    BY <2>1
  <2>2. CASE q # p
    <3>1. JobInv(q) /\ at'[q] = at[q] /\ job'[q] = job[q]
      BY <2>2 DEF IInv
    <3>2. at[q] = "run" => staged' \in Inputs /\ (Exclusive => staged' = staged)
      BY <2>2, <3>1 DEF IInv, Alone, JobInv
    <3>. QED  BY <3>1, <3>2, OthersKept
  <2>. QED  BY <2>1, <2>2
<1>. QED  BY <1>1, <1>2 DEF IInv

-----------------------------------------------------------------------------
(* A step within the court: process p goes on to s with the record r.      *)
Moves(p, s, r) ==
  /\ at' = [at EXCEPT ![p] = s]
  /\ job' \in [Procs -> Job \cup {None}] /\ job'[p] \in Job
  /\ \A q \in Procs \ {p} : job'[q] = job[q]
  /\ job'[p].finding = job[p].finding /\ job'[p].version = job[p].version
  /\ job'[p].rec = r

LEMMA GotoMoves ==
  ASSUME IInv, NEW p \in Procs, at[p] \in InCourt, NEW s, Goto(p, s)
  PROVE  Moves(p, s, job[p].rec)
<1>1. job \in [Procs -> Job \cup {None}] /\ job[p] \in Job
  BY DEF IInv, TypeOK, JobInv, InCourt
<1>. QED  BY <1>1 DEF Goto, Moves

LEMMA WithMoves ==
  ASSUME IInv, NEW p \in Procs, at[p] \in InCourt, NEW s, NEW r \in Verification,
         GotoWith(p, s, [job[p] EXCEPT !.rec = r])
  PROVE  Moves(p, s, r)
<1>1. job \in [Procs -> Job \cup {None}] /\ job[p] \in Job
  BY DEF IInv, TypeOK, JobInv, InCourt
<1>2. [job[p] EXCEPT !.rec = r] \in Job
  BY <1>1 DEF Job
<1>. QED  BY <1>1, <1>2 DEF GotoWith, Moves, Job

(* What such a step leaves alone, and what it may add to FRF.              *)
CourtFrame ==
  /\ UNCHANGED <<store, oracle, gemel, config, verified, skipped, starts, kills, edits>>
  /\ receipts \subseteq receipts' /\ receipts' \subseteq CourtRun
  /\ claims \subseteq claims' /\ claims' \subseteq CourtRun
  /\ admitted' \in [Versions -> Oracles \cup {None}]
  /\ \A v \in Versions : admitted[v] # None => admitted'[v] = admitted[v]

LEMMA CourtMove ==
  ASSUME IInv, CourtFrame, NEW p \in Procs, at[p] \in InCourt,
         NEW s \in InCourt, NEW r \in Verification, Moves(p, s, r),
         r.finding = job[p].finding, r.version = job[p].version,
         Sound(r)', ReadyFor(s, r),
         staged' = staged \/ (at[p] = "stage" /\ staged' \in Inputs),
         s = "run" => staged' \in Inputs /\ (Exclusive => staged' = job[p].finding.input)
  PROVE  IInv'
<1>1. /\ TypeOK /\ job[p] \in Job /\ job[p].version \in Versions
      /\ job[p].finding \in findings
      /\ p = "campaign" => job[p].version = config.version
      /\ StoredInv /\ SkipInv
  BY DEF IInv, JobInv, InCourt
<1>2. /\ findings' = findings /\ tapes' = tapes /\ witnesses' = witnesses
      /\ precedents' = precedents /\ verifications' = verifications
      /\ boundaries' = boundaries /\ residuals' = residuals /\ oracle' = oracle
      /\ gemel' = gemel /\ config' = config /\ verified' = verified
      /\ skipped' = skipped /\ starts' = starts /\ kills' = kills /\ edits' = edits
  BY DEF CourtFrame, store
<1>3. Grows
  BY <1>2 DEF Grows, CourtFrame
<1>4. at'[p] = s /\ \A q \in Procs \ {p} : at'[q] = at[q] /\ job'[q] = job[q]
  BY <1>1 DEF Moves, TypeOK
<1>5. TypeOK'
  <2>1. at' \in [Procs -> Stages]
    BY <1>1 DEF TypeOK, Moves, Stages, InCourt
  <2>2. staged' \in Inputs \cup {None}
    BY <1>1 DEF TypeOK
  <2>. QED  BY <1>1, <1>2, <2>1, <2>2 DEF TypeOK, CourtFrame, Moves, Stages, InCourt
<1>6. JobInv(p)'
  <2>1. Sound(job[p].rec)'
    BY DEF Moves, Sound
  <2>2. at'[p] \notin {"idle", "evidence", "gclaim", "local"}
    BY <1>4 DEF InCourt
  <2>3. /\ job'[p] \in Job /\ job'[p].finding \in findings'
        /\ p = "campaign" => job'[p].version = config'.version
    BY <1>1, <1>2 DEF Moves
  <2>4. /\ job'[p].version \in Versions /\ job'[p].rec \in Verification
        /\ job'[p].rec.finding = job'[p].finding /\ job'[p].rec.version = job'[p].version
        /\ ReadyFor(at'[p], job'[p].rec)
    BY <1>1, <1>4 DEF Moves
  <2>5. at'[p] = "run" => staged' \in Inputs /\ (Exclusive => staged' = job'[p].finding.input)
    BY <1>4 DEF Moves
  <2>. QED  BY <2>1, <2>2, <2>3, <2>4, <2>5 DEF JobInv
<1>7. StoredInv'
  BY <1>1, <1>2, <1>3, StoredKept
<1>8. SkipInv'
  <2>1. at["campaign"] \in InCourt =>
          /\ at'["campaign"] \in InCourt
          /\ job'["campaign"].finding = job["campaign"].finding
    BY <1>4 DEF Moves, Procs
  <2>. QED  BY <1>1, <1>2, <1>3, <2>1, SkipKept
<1>. QED
  <2>1. at[p] # "idle"
    BY DEF InCourt
  <2>. QED  BY <1>2, <1>3, <1>4, <1>5, <1>6, <1>7, <1>8, <2>1, StepKeeps

(* What is known of a process in court.                                    *)
LEMMA CourtFacts ==
  ASSUME IInv, NEW p \in Procs, at[p] \in InCourt
  PROVE  /\ job[p] \in Job /\ job[p].finding \in Finding /\ job[p].finding \in findings
         /\ job[p].version \in Versions /\ job[p].rec \in Verification
         /\ job[p].rec.finding = job[p].finding /\ job[p].rec.version = job[p].version
         /\ Sound(job[p].rec) /\ ReadyFor(at[p], job[p].rec)
         /\ p = "campaign" => job[p].version = config.version
BY DEF IInv, TypeOK, JobInv, InCourt

(* A step that leaves FRF alone, too, is within the frame.                 *)
LEMMA FrameOf ==
  ASSUME IInv, UNCHANGED <<store, oracle, edits, gemel, config, verified, skipped, count>>,
         admitted' = admitted, receipts' = receipts, claims' = claims
  PROVE  CourtFrame
BY DEF IInv, TypeOK, CourtFrame, count

(* A process that is done is idle, and nothing is claimed of it.           *)
LEMMA DoneKeeps ==
  ASSUME IInv, NEW p \in Procs, Done(p)
  PROVE  /\ at' \in [Procs -> Stages]
         /\ job' \in [Procs -> Job \cup {None}]
         /\ at'[p] = "idle" /\ JobInv(p)'
         /\ \A q \in Procs \ {p} : at'[q] = at[q] /\ job'[q] = job[q]
<1>1. at'[p] = "idle" /\ \A q \in Procs \ {p} : at'[q] = at[q] /\ job'[q] = job[q]
  BY DEF IInv, TypeOK, Done, GotoWith
<1>2. JobInv(p)'
  BY <1>1 DEF JobInv, InCourt
<1>. QED  BY <1>1, <1>2 DEF IInv, TypeOK, Done, GotoWith, Stages, InCourt

LEMMA HardErrorKeeps ==
  ASSUME IInv, NEW p \in Procs, at[p] \in {"admit", "judge"}, HardError(p),
         UNCHANGED <<store, env, frf, gemel, config, verified, count, skipped>>
  PROVE  IInv'
<1>1. at[p] \in InCourt
  BY DEF InCourt
<1>2. /\ UNCHANGED <<store, oracle, edits, gemel, config, verified, skipped, count>>
      /\ admitted' = admitted /\ receipts' = receipts /\ claims' = claims
      /\ staged' = staged
  BY DEF env, frf
<1>3. CASE p = "campaign"
  <2> DEFINE b == [Blank(job[p].finding, job[p].version) EXCEPT !.note = "config"]
  <2>1. b \in Verification
    BY <1>1, CourtFacts DEF Verification, Blank
  <2>2. PICK r \in Verification : r = b
    BY <2>1
  <2>3. /\ r.finding = job[p].finding /\ r.version = job[p].version /\ r.run = None
        /\ ~r.receipt /\ ~r.claim /\ r.outcome = "Failed"
    BY <2>2 DEF Blank
  <2>4. GotoWith(p, "record", [job[p] EXCEPT !.rec = r])
    BY <1>3, <2>2 DEF HardError
  <2>. HIDE DEF b
  <2>5. Moves(p, "record", r)
    BY <1>1, <2>4, WithMoves
  <2>6. CourtFrame
    BY <1>2, FrameOf
  <2>7. Sound(r)' /\ ReadyFor("record", r)
    <3>1. findings' = findings /\ job[p].finding \in findings
      BY <1>1, <1>2, CourtFacts DEF store
    <3>. QED  BY <2>3, <3>1 DEF Sound, ReadyFor
  <2>. QED  BY <1>1, <1>2, <2>3, <2>5, <2>6, <2>7, CourtMove DEF InCourt
<1>4. CASE p # "campaign"
  <2>1. Done(p)
    BY <1>4 DEF HardError
  <2>2. /\ findings' = findings /\ tapes' = tapes /\ witnesses' = witnesses
        /\ precedents' = precedents /\ verifications' = verifications
        /\ boundaries' = boundaries /\ residuals' = residuals /\ oracle' = oracle
        /\ gemel' = gemel /\ config' = config /\ verified' = verified
        /\ skipped' = skipped /\ starts' = starts /\ kills' = kills /\ edits' = edits
    BY <1>2 DEF store, count
  <2>3. Grows
    BY <1>2, <2>2 DEF Grows
  <2>4. TypeOK'
    BY <1>2, <2>1, <2>2, DoneKeeps DEF IInv, TypeOK, Stages, InCourt
  <2>5. StoredInv'
    BY <2>2, <2>3, StoredKept DEF IInv
  <2>6. SkipInv'
    <3>1. at'["campaign"] = at["campaign"] /\ job'["campaign"] = job["campaign"]
      BY <1>4, <2>1, DoneKeeps DEF Procs
    <3>. QED  BY <2>2, <2>3, <3>1, SkipKept DEF IInv
  <2>. QED  BY <1>2, <2>1, <2>2, <2>3, <2>4, <2>5, <2>6, DoneKeeps, StepKeeps
<1>. QED  BY <1>3, <1>4

-----------------------------------------------------------------------------
(* The steps of the court. *)
LEMMA AdmitKeeps ==
  ASSUME IInv, NEW p \in Procs, Admit(p)
  PROVE  IInv'
<1> DEFINE v == job[p].version
<1>1. at[p] = "admit" /\ at[p] \in InCourt /\ oracle \in Oracles
  BY DEF Admit, InCourt, IInv, TypeOK
<1>2. /\ UNCHANGED <<store, oracle, edits, gemel, config, verified, skipped, count>>
      /\ receipts' = receipts /\ claims' = claims /\ staged' = staged
  BY DEF Admit, env
<1>3. CASE admitted[v] \notin {None, oracle} /\ HardError(p) /\ UNCHANGED admitted
  BY <1>1, <1>2, <1>3, HardErrorKeeps DEF env, frf
<1>4. CASE /\ Goto(p, "stage")
           /\ \/ admitted[v] = None /\ admitted' = [admitted EXCEPT ![v] = oracle]
              \/ admitted' = admitted
  <2>1. PICK r \in Verification : r = job[p].rec
    BY <1>1, CourtFacts
  <2>2. /\ r.finding = job[p].finding /\ r.version = v /\ Sound(job[p].rec)
        /\ ReadyFor("admit", r) /\ v \in Versions
    BY <1>1, <2>1, CourtFacts
  <2>. HIDE DEF v
  <2>3. CourtFrame
    BY <1>1, <1>2, <1>4, <2>2 DEF IInv, TypeOK, CourtFrame, count
  <2>4. Moves(p, "stage", r)
    BY <1>1, <1>4, <2>1, GotoMoves
  <2>5. ReadyFor("stage", r)
    BY <2>2 DEF ReadyFor
  <2>6. Sound(r)'
    <3>1. findings' = findings /\ job[p].finding \in findings
      BY <1>1, <1>2, CourtFacts DEF store
    <3>. QED  BY <2>2, <3>1 DEF Sound, ReadyFor
  <2>. QED  BY <1>1, <1>2, <2>2, <2>3, <2>4, <2>5, <2>6, CourtMove DEF InCourt, v
<1>. QED  BY <1>3, <1>4 DEF Admit

LEMMA StageKeeps ==
  ASSUME IInv, NEW p \in Procs, Stage(p)
  PROVE  IInv'
<1>1. at[p] = "stage" /\ at[p] \in InCourt /\ staged' = job[p].finding.input
  BY DEF Stage, InCourt
<1>2. /\ UNCHANGED <<store, oracle, edits, gemel, config, verified, skipped, count>>
      /\ admitted' = admitted /\ receipts' = receipts /\ claims' = claims
  BY DEF Stage, env
<1>3. PICK r \in Verification : r = job[p].rec
  BY <1>1, CourtFacts
<1>4. /\ r.finding = job[p].finding /\ r.version = job[p].version /\ Sound(r)
      /\ ReadyFor("stage", r)
  BY <1>1, <1>3, CourtFacts DEF Sound
<1>5. CourtFrame
  BY <1>2, FrameOf
<1>6. Moves(p, "run", r)
  BY <1>1, <1>3, GotoMoves DEF Stage
<1>7. Sound(r)'
  BY <1>2, <1>4 DEF Sound, store
<1>8. ReadyFor("run", r) /\ staged' \in Inputs
  BY <1>1, <1>4, CourtFacts DEF ReadyFor, Finding
<1>. QED  BY <1>1, <1>4, <1>5, <1>6, <1>7, <1>8, CourtMove DEF InCourt

LEMMA RunCourtKeeps ==
  ASSUME IInv, NEW p \in Procs, RunCourt(p)
  PROVE  IInv'
<1> DEFINE run == [version |-> job[p].version, bytes |-> oracle, input |-> staged]
<1>1. at[p] = "run" /\ at[p] \in InCourt
  BY DEF RunCourt, InCourt
<1>2. /\ UNCHANGED <<store, oracle, edits, gemel, config, verified, skipped, count>>
      /\ admitted' = admitted /\ receipts' = receipts /\ claims' = claims
      /\ staged' = staged
  BY DEF RunCourt, env, frf
<1>3. CourtFrame
  BY <1>2, FrameOf
<1>4. /\ job[p].rec \in Verification /\ job[p].version \in Versions
      /\ job[p].rec.finding = job[p].finding /\ job[p].rec.version = job[p].version
      /\ job[p].finding \in findings /\ ReadyFor("run", job[p].rec)
  BY <1>1, CourtFacts
<1>5. CASE GotoWith(p, "record", [job[p] EXCEPT !.rec.note = "court"])
  <2>1. PICK r \in Verification : r = [job[p].rec EXCEPT !.note = "court"]
    BY <1>4 DEF Verification
  <2>2. GotoWith(p, "record", [job[p] EXCEPT !.rec = r])
    BY <1>5, <2>1
  <2>3. Moves(p, "record", r)
    BY <1>1, <2>2, WithMoves
  <2>4. /\ r.finding = job[p].finding /\ r.version = job[p].version /\ ReadyFor("run", r)
    BY <1>4, <2>1 DEF Verification, ReadyFor
  <2>5. Sound(r)' /\ ReadyFor("record", r)
    BY <1>2, <1>4, <2>4 DEF Sound, ReadyFor, store
  <2>. QED  BY <1>1, <1>2, <1>3, <2>3, <2>4, <2>5, CourtMove DEF InCourt
<1>6. CASE oracle = admitted[job[p].version]
           /\ GotoWith(p, "receipt", [job[p] EXCEPT !.rec.run = run])
  <2>1. staged \in Inputs /\ (Exclusive => staged = job[p].finding.input)
    BY <1>1 DEF IInv, JobInv
  <2>2. run \in CourtRun
    BY <1>4, <2>1 DEF CourtRun, IInv, TypeOK
  <2>3. PICK r \in Verification : r = [job[p].rec EXCEPT !.run = run]
    BY <1>4, <2>2 DEF Verification
  <2>4. GotoWith(p, "receipt", [job[p] EXCEPT !.rec = r])
    BY <1>6, <2>3
  <2>5. Moves(p, "receipt", r)
    BY <1>1, <2>4, WithMoves
  <2>6. /\ r.finding = job[p].finding /\ r.version = job[p].version /\ r.run = run
        /\ ~r.receipt /\ ~r.claim /\ r.outcome = "Failed"
    BY <1>4, <2>3 DEF Verification, ReadyFor
  <2>7. r.run \in CourtRun /\ r.run.version = r.version /\ r.run.bytes = admitted[r.version]
        /\ (Exclusive => r.run.input = r.finding.input)
    BY <1>6, <2>1, <2>2, <2>6
  <2>8. Sound(r)' /\ ReadyFor("receipt", r)
    BY <1>2, <1>4, <2>6, <2>7 DEF Sound, ReadyFor, store
  <2>. QED  BY <1>1, <1>2, <1>3, <2>5, <2>6, <2>8, CourtMove DEF InCourt
<1>. QED  BY <1>5, <1>6 DEF RunCourt

LEMMA ReceiptKeeps ==
  ASSUME IInv, NEW p \in Procs, Receipt(p)
  PROVE  IInv'
<1>1. at[p] = "receipt" /\ at[p] \in InCourt
  BY DEF Receipt, InCourt
<1>2. /\ UNCHANGED <<store, oracle, edits, gemel, config, verified, skipped, count>>
      /\ admitted' = admitted /\ claims' = claims /\ staged' = staged
  BY DEF Receipt, env
<1>3. /\ job[p].rec \in Verification
      /\ job[p].rec.finding = job[p].finding /\ job[p].rec.version = job[p].version
      /\ Sound(job[p].rec) /\ job[p].rec.run \in CourtRun
  BY <1>1, CourtFacts DEF ReadyFor
<1>4. CASE GotoWith(p, "record", [job[p] EXCEPT !.rec.note = "receipt"]) /\ UNCHANGED receipts
  <2>1. PICK r \in Verification : r = [job[p].rec EXCEPT !.note = "receipt"]
    BY <1>3 DEF Verification
  <2>2. GotoWith(p, "record", [job[p] EXCEPT !.rec = r])
    BY <1>4, <2>1
  <2>3. Moves(p, "record", r)
    BY <1>1, <2>2, WithMoves
  <2>4. /\ r.finding = job[p].finding /\ r.version = job[p].version /\ Sound(r)
    BY <1>3, <2>1 DEF Verification, Sound
  <2>5. Sound(r)' /\ ReadyFor("record", r)
    BY <1>2, <1>4, <2>4 DEF Sound, ReadyFor, store
  <2>6. CourtFrame
    BY <1>2, <1>4, FrameOf
  <2>. QED  BY <1>1, <1>2, <2>3, <2>4, <2>5, <2>6, CourtMove DEF InCourt
<1>5. CASE /\ GotoWith(p, "judge", [job[p] EXCEPT !.rec.receipt = TRUE])
           /\ receipts' = receipts \cup {job[p].rec.run}
  <2>1. PICK r \in Verification : r = [job[p].rec EXCEPT !.receipt = TRUE]
    BY <1>3 DEF Verification
  <2>2. GotoWith(p, "judge", [job[p] EXCEPT !.rec = r])
    BY <1>5, <2>1
  <2>3. Moves(p, "judge", r)
    BY <1>1, <2>2, WithMoves
  <2>4. /\ r.finding = job[p].finding /\ r.version = job[p].version
        /\ r.run = job[p].rec.run /\ r.claim = job[p].rec.claim /\ r.receipt
        /\ r.outcome = job[p].rec.outcome
    BY <1>3, <2>1 DEF Verification
  <2>5. Sound(r)' /\ ReadyFor("judge", r)
    BY <1>2, <1>3, <1>5, <2>4 DEF Sound, ReadyFor, store
  <2>6. CourtFrame
    BY <1>2, <1>3, <1>5 DEF IInv, TypeOK, CourtFrame, count
  <2>. QED  BY <1>1, <1>2, <2>3, <2>4, <2>5, <2>6, CourtMove DEF InCourt
<1>. QED  BY <1>4, <1>5 DEF Receipt

LEMMA JudgeKeeps ==
  ASSUME IInv, NEW p \in Procs, Judge(p)
  PROVE  IInv'
<1> DEFINE diverged == <<job[p].rec.run.input, job[p].rec.run.bytes>> \in Divergent
<1>1. at[p] = "judge" /\ at[p] \in InCourt
  BY DEF Judge, InCourt
<1>2. /\ UNCHANGED <<store, oracle, edits, gemel, config, verified, skipped, count>>
      /\ admitted' = admitted /\ receipts' = receipts /\ claims' = claims
      /\ staged' = staged
  BY DEF Judge, env, frf
<1>3. CourtFrame
  BY <1>2, FrameOf
<1>4. /\ job[p].rec \in Verification
      /\ job[p].rec.finding = job[p].finding /\ job[p].rec.version = job[p].version
      /\ Sound(job[p].rec) /\ job[p].rec.run \in CourtRun /\ job[p].rec.receipt
  BY <1>1, CourtFacts DEF ReadyFor
<1>5. CASE HardError(p)
  BY <1>1, <1>5, HardErrorKeeps DEF Judge
<1>6. CASE GotoWith(p, "record", [job[p] EXCEPT !.rec.note = "parity"])
  <2>1. PICK r \in Verification : r = [job[p].rec EXCEPT !.note = "parity"]
    BY <1>4 DEF Verification
  <2>2. GotoWith(p, "record", [job[p] EXCEPT !.rec = r])
    BY <1>6, <2>1
  <2>3. Moves(p, "record", r)
    BY <1>1, <2>2, WithMoves
  <2>4. /\ r.finding = job[p].finding /\ r.version = job[p].version /\ Sound(r)
    BY <1>4, <2>1 DEF Verification, Sound
  <2>5. Sound(r)' /\ ReadyFor("record", r)
    BY <1>2, <2>4 DEF Sound, ReadyFor, store
  <2>. QED  BY <1>1, <1>2, <1>3, <2>3, <2>4, <2>5, CourtMove DEF InCourt
<1>7. ASSUME diverged, NEW s \in {"claim", "record"},
             GotoWith(p, s, [job[p] EXCEPT !.rec.outcome = "Verified"])
      PROVE  IInv'
  <2>1. PICK r \in Verification : r = [job[p].rec EXCEPT !.outcome = "Verified"]
    BY <1>4 DEF Verification
  <2>2. GotoWith(p, s, [job[p] EXCEPT !.rec = r])
    BY <1>7, <2>1
  <2>3. Moves(p, s, r)
    BY <1>1, <2>2, WithMoves
  <2>4. /\ r.finding = job[p].finding /\ r.version = job[p].version
        /\ r.run = job[p].rec.run /\ r.claim = job[p].rec.claim
        /\ r.receipt = job[p].rec.receipt
    BY <1>4, <2>1 DEF Verification
  <2>5. Sound(r)' /\ ReadyFor(s, r)
    BY <1>2, <1>4, <1>7, <2>4 DEF Sound, ReadyFor, store
  <2>. QED  BY <1>1, <1>2, <1>3, <2>3, <2>4, <2>5, CourtMove DEF InCourt
<1>. QED  BY <1>5, <1>6, <1>7 DEF Judge

LEMMA CompileClaimKeeps ==
  ASSUME IInv, NEW p \in Procs, CompileClaim(p)
  PROVE  IInv'
<1>1. at[p] = "claim" /\ at[p] \in InCourt
  BY DEF CompileClaim, InCourt
<1>2. /\ UNCHANGED <<store, oracle, edits, gemel, config, verified, skipped, count>>
      /\ admitted' = admitted /\ receipts' = receipts /\ staged' = staged
  BY DEF CompileClaim, env
<1>3. /\ job[p].rec \in Verification
      /\ job[p].rec.finding = job[p].finding /\ job[p].rec.version = job[p].version
      /\ Sound(job[p].rec) /\ job[p].rec.run \in CourtRun
  BY <1>1, CourtFacts DEF ReadyFor
<1>4. CASE GotoWith(p, "record", [job[p] EXCEPT !.rec.note = "claim"]) /\ UNCHANGED claims
  <2>1. PICK r \in Verification : r = [job[p].rec EXCEPT !.note = "claim"]
    BY <1>3 DEF Verification
  <2>2. GotoWith(p, "record", [job[p] EXCEPT !.rec = r])
    BY <1>4, <2>1
  <2>3. Moves(p, "record", r)
    BY <1>1, <2>2, WithMoves
  <2>4. /\ r.finding = job[p].finding /\ r.version = job[p].version /\ Sound(r)
    BY <1>3, <2>1 DEF Verification, Sound
  <2>5. Sound(r)' /\ ReadyFor("record", r)
    BY <1>2, <1>4, <2>4 DEF Sound, ReadyFor, store
  <2>6. CourtFrame
    BY <1>2, <1>4, FrameOf
  <2>. QED  BY <1>1, <1>2, <2>3, <2>4, <2>5, <2>6, CourtMove DEF InCourt
<1>5. CASE /\ claims' = claims \cup {job[p].rec.run}
           /\ GotoWith(p, "record", [job[p] EXCEPT !.rec.claim = TRUE])
  <2>1. PICK r \in Verification : r = [job[p].rec EXCEPT !.claim = TRUE]
    BY <1>3 DEF Verification
  <2>2. GotoWith(p, "record", [job[p] EXCEPT !.rec = r])
    BY <1>5, <2>1
  <2>3. Moves(p, "record", r)
    BY <1>1, <2>2, WithMoves
  <2>4. /\ r.finding = job[p].finding /\ r.version = job[p].version
        /\ r.run = job[p].rec.run /\ r.receipt = job[p].rec.receipt
        /\ r.outcome = job[p].rec.outcome
    BY <1>3, <2>1 DEF Verification
  <2>5. Sound(r)' /\ ReadyFor("record", r)
    BY <1>2, <1>3, <1>5, <2>4 DEF Sound, ReadyFor, store
  <2>6. CourtFrame
    BY <1>2, <1>3, <1>5 DEF IInv, TypeOK, CourtFrame, count
  <2>. QED  BY <1>1, <1>2, <2>3, <2>4, <2>5, <2>6, CourtMove DEF InCourt
<1>. QED  BY <1>4, <1>5 DEF CompileClaim

-----------------------------------------------------------------------------
(* The record, and its publication. *)

(* A process that goes on to s with a job j. *)
LEMMA StepTo ==
  ASSUME IInv, NEW p \in Procs, NEW s \in Stages, NEW j \in Job \cup {None},
         GotoWith(p, s, j)
  PROVE  /\ at' \in [Procs -> Stages] /\ job' \in [Procs -> Job \cup {None}]
         /\ at'[p] = s /\ job'[p] = j
         /\ \A q \in Procs \ {p} : at'[q] = at[q] /\ job'[q] = job[q]
<1>. at \in [Procs -> Stages] /\ job \in [Procs -> Job \cup {None}]
  BY DEF IInv, TypeOK, Stages, InCourt
<1>. QED  BY DEF GotoWith

LEMMA RecordKeeps ==
  ASSUME IInv, NEW p \in Procs, Record(p)
  PROVE  IInv'
<1>1. at[p] = "record" /\ at[p] \in InCourt /\ TypeOK /\ SkipInv /\ StoredInv
  BY DEF Record, InCourt, IInv
<1>2. /\ findings' = findings /\ tapes' = tapes /\ witnesses' = witnesses
      /\ precedents' = precedents /\ verifications' = verifications \cup {job[p].rec}
      /\ boundaries' = boundaries /\ residuals' = residuals /\ oracle' = oracle
      /\ admitted' = admitted /\ receipts' = receipts /\ claims' = claims /\ staged' = staged
      /\ gemel' = gemel /\ config' = config /\ verified' = verified
      /\ skipped' = skipped /\ starts' = starts /\ kills' = kills /\ edits' = edits
  BY DEF Record, env, frf, count
<1>3. /\ job[p] \in Job /\ job[p].rec \in Verification /\ job[p].finding \in findings
      /\ job[p].finding \in Finding
      /\ job[p].rec.finding = job[p].finding /\ job[p].rec.version = job[p].version
      /\ Sound(job[p].rec)
      /\ p = "campaign" => job[p].version = config.version
  BY <1>1, CourtFacts
<1>4. Grows
  BY <1>2 DEF Grows
<1>5. StoredInv'
  <2>1. ASSUME NEW r \in verifications' \ verifications PROVE Sound(r)'
    <3>1. r = job[p].rec
      BY <1>2, <2>1
    <3>2. Sound(r)
      BY <1>3, <3>1 DEF Sound
    <3>. QED  BY <1>3, <1>4, <3>1, <3>2, SoundKept
  <2>. QED  BY <1>1, <1>2, <1>4, <2>1, StoredKept
<1>6. SkipInv'
  <2>1. at["campaign"] \in InCourt =>
          \/ /\ at'["campaign"] \in InCourt
             /\ job'["campaign"].finding = job["campaign"].finding
          \/ \E r \in verifications' : /\ r.finding.input = job["campaign"].finding.input
                                      /\ r.version = config.version
    <3>1. CASE p = "campaign"
      BY <1>2, <1>3, <3>1
    <3>2. CASE p # "campaign"
      <4>1. at'["campaign"] = at["campaign"] /\ job'["campaign"] = job["campaign"]
        BY <1>1, <3>2 DEF Record, Publish, Done, GotoWith, Procs, TypeOK
      <4>. QED  BY <4>1
    <3>. QED  BY <3>1, <3>2
  <2>. QED  BY <1>1, <1>2, <1>4, <2>1, SkipKept
<1>7. CASE Done(p)
  <2>1. TypeOK'
    BY <1>1, <1>2, <1>3, <1>7, DoneKeeps DEF TypeOK, Stages, InCourt
  <2>. QED  BY <1>2, <1>4, <1>5, <1>6, <1>7, <2>1, DoneKeeps, StepKeeps
<1>8. CASE /\ job[p].rec.outcome = "Verified"
           /\ Publish(p, "FindingVerified", job[p].rec.finding)
  <2> DEFINE bnd == [kind |-> "FindingVerified", subject |-> job[p].rec.finding,
                     published |-> FALSE]
  <2>1. PICK b \in Boundary : b = bnd
    BY <1>3 DEF Boundary
  <2>2. PICK j \in Job : j = [job[p] EXCEPT !.boundary = b]
    BY <1>3 DEF Job
  <2>3. GotoWith(p, "evidence", j)
    BY <1>8, <2>1, <2>2 DEF Publish
  <2>4. /\ at' \in [Procs -> Stages] /\ job' \in [Procs -> Job \cup {None}]
        /\ at'[p] = "evidence" /\ job'[p] = j
        /\ \A q \in Procs \ {p} : at'[q] = at[q] /\ job'[q] = job[q]
    BY <2>3, StepTo DEF Stages
  <2>5. TypeOK'
    BY <1>1, <1>2, <1>3, <2>4 DEF TypeOK, Stages, InCourt
  <2>6. /\ j.finding = job[p].finding /\ j.version = job[p].version /\ j.boundary = b
        /\ b.kind = "FindingVerified" /\ b.subject = job[p].finding /\ ~b.published
    BY <1>3, <2>1, <2>2 DEF Job
  <2>7. Backed(b)'
    <3>1. HasVerdict(b.subject)'
      BY <1>2, <1>3, <1>8, <2>6 DEF HasVerdict
    <3>. QED  BY <1>2, <1>3, <2>6, <3>1 DEF Backed
  <2>8. JobInv(p)'
    <3>1. Backed(job[p].boundary)'
      BY <2>4, <2>6, <2>7 DEF Backed, HasVerdict
    <3>. QED  BY <1>2, <1>3, <2>4, <2>6, <3>1 DEF JobInv, InCourt
  <2>. QED  BY <1>1, <1>2, <1>4, <1>5, <1>6, <2>4, <2>5, <2>8, StepKeeps
<1>. QED  BY <1>7, <1>8 DEF Record

(* A step that leaves the store alone but for what it puts, and goes on to *)
(* a step outside the court.                                               *)
LEMMA OutsideKeeps ==
  ASSUME IInv, NEW p \in Procs, Grows, TypeOK', StoredInv', JobInv(p)',
         NEW s \in Stages \ InCourt, NEW j \in Job \cup {None}, GotoWith(p, s, j),
         staged' = staged, UNCHANGED <<config, verified, skipped>>,
         at[p] \notin InCourt, at[p] # "idle" \/ s = "idle" \/ MayStart(p)
  PROVE  IInv'
<1>1. /\ at'[p] = s /\ \A q \in Procs \ {p} : at'[q] = at[q] /\ job'[q] = job[q]
  BY StepTo
<1>2. at["campaign"] \in InCourt =>
        /\ at'["campaign"] \in InCourt
        /\ job'["campaign"].finding = job["campaign"].finding
  BY <1>1 DEF Procs
<1>3. SkipInv'
  BY <1>2, SkipKept DEF IInv
<1>. QED  BY <1>1, <1>3, StepKeeps

LEMMA InsertKeeps ==
  ASSUME IInv, NEW p \in Procs, InsertEvidence(p) \/ InsertClaim(p)
  PROVE  IInv'
<1>1. /\ at[p] \in {"evidence", "gclaim"} /\ TypeOK /\ StoredInv
      /\ at[p] # "idle" /\ at[p] \notin InCourt
  BY DEF InsertEvidence, InsertClaim, IInv, InCourt
<1>2. /\ findings' = findings /\ tapes' = tapes /\ witnesses' = witnesses
      /\ precedents' = precedents /\ verifications' = verifications
      /\ boundaries' = boundaries /\ residuals' = residuals /\ oracle' = oracle
      /\ admitted' = admitted /\ receipts' = receipts /\ claims' = claims /\ staged' = staged
      /\ config' = config /\ verified' = verified
      /\ skipped' = skipped /\ starts' = starts /\ kills' = kills /\ edits' = edits
  BY DEF InsertEvidence, InsertClaim, store, env, frf, count
<1>3. /\ job[p] \in Job /\ job[p].finding \in findings
      /\ job[p].boundary \in Boundary /\ Backed(job[p].boundary)
      /\ at[p] = "gclaim" =>
           /\ job[p].boundary.kind = "FindingVerified"
           /\ <<"evidence", "FindingVerified", job[p].boundary.subject>> \in gemel
      /\ p = "campaign" => job[p].version = config.version
  BY <1>1 DEF IInv, JobInv
<1>4. PICK b \in Boundary : b = job[p].boundary
  BY <1>3
<1>5. /\ Backed(b) /\ b.kind \in {"FindingVerified", "PrecedentAdmitted"}
      /\ b.subject \in Finding /\ b.published \in BOOLEAN
  BY <1>3, <1>4 DEF Backed, HasVerdict, Boundary
<1>6. PICK y \in {"evidence", "claim"} :
        \/ gemel' = gemel
        \/ gemel' = gemel \cup {<<y, b.kind, b.subject>>}
  BY <1>4 DEF InsertEvidence, InsertClaim
<1>7. Grows
  BY <1>2, <1>6 DEF Grows
<1>8. gemel' \subseteq {"evidence", "claim"} \X {"FindingVerified", "PrecedentAdmitted"} \X Finding
  BY <1>1, <1>5, <1>6 DEF TypeOK
<1>9. StoredInv'
  <2>1. ASSUME NEW g \in gemel' \ gemel, g[2] = "FindingVerified" PROVE HasVerdict(g[3])'
    <3>1. g[2] = b.kind /\ g[3] = b.subject
      BY <1>6, <2>1
    <3>2. HasVerdict(g[3])
      BY <1>5, <2>1, <3>1 DEF Backed
    <3>. QED  BY <1>7, <3>2, VerdictKept
  <2>. QED  BY <1>1, <1>2, <1>7, <2>1, StoredKept
<1>10. ASSUME NEW s \in {"local", "gclaim"}, NEW j \in Job, GotoWith(p, s, j),
              j.finding = job[p].finding, j.version = job[p].version,
              j.boundary \in Boundary, Backed(j.boundary)',
              s = "gclaim" =>
                /\ j.boundary.kind = "FindingVerified"
                /\ <<"evidence", "FindingVerified", j.boundary.subject>> \in gemel'
       PROVE  IInv'
  <2>1. s \in Stages \ InCourt
    BY DEF Stages, InCourt
  <2>2. /\ at' \in [Procs -> Stages] /\ job' \in [Procs -> Job \cup {None}]
        /\ at'[p] = s /\ job'[p] = j
    BY <1>10, <2>1, StepTo
  <2>3. TypeOK'
    BY <1>1, <1>2, <1>8, <2>2 DEF TypeOK, Stages, InCourt
  <2>4. JobInv(p)'
    <3>1. Backed(job[p].boundary)'
      BY <1>10, <2>2 DEF Backed, HasVerdict
    <3>. QED  BY <1>2, <1>3, <1>10, <2>1, <2>2, <3>1 DEF JobInv, InCourt
  <2>. QED  BY <1>1, <1>2, <1>7, <1>9, <1>10, <2>1, <2>3, <2>4, OutsideKeeps
<1>11. ASSUME NEW s, Goto(p, s) PROVE GotoWith(p, s, job[p])
  BY <1>1, <1>11 DEF Goto, GotoWith, TypeOK
<1>12. Backed(b)'
  BY <1>5, <1>7, BackedKept
<1>13. CASE Goto(p, "local")
  <2>1. PICK j \in Job : j = job[p]
    BY <1>3
  <2>. QED  BY <1>3, <1>4, <1>10, <1>11, <1>12, <1>13, <2>1
<1>14. CASE /\ Goto(p, "gclaim") /\ b.kind = "FindingVerified"
            /\ <<"evidence", b.kind, b.subject>> \in gemel'
  <2>1. PICK j \in Job : j = job[p]
    BY <1>3
  <2>. QED  BY <1>3, <1>4, <1>10, <1>11, <1>12, <1>14, <2>1
<1>15. CASE /\ GotoWith(p, "local", [job[p] EXCEPT !.boundary.published = TRUE])
            /\ <<"evidence", b.kind, b.subject>> \in gemel'
            /\ b.kind = "FindingVerified" => <<"claim", b.kind, b.subject>> \in gemel'
  <2>1. PICK c \in Boundary : c = [b EXCEPT !.published = TRUE]
    BY <1>4 DEF Boundary
  <2>2. PICK j \in Job : j = [job[p] EXCEPT !.boundary = c]
    BY <1>3 DEF Job
  <2>3. GotoWith(p, "local", j)
    BY <1>4, <1>15, <2>1, <2>2
  <2>4. /\ j.finding = job[p].finding /\ j.version = job[p].version /\ j.boundary = c
        /\ c.kind = b.kind /\ c.subject = b.subject
    BY <1>3, <2>1, <2>2 DEF Job, Boundary
  <2>5. Backed(c)'
    BY <1>12, <1>15, <2>4 DEF Backed, HasVerdict
  <2>. QED  BY <1>10, <2>3, <2>4, <2>5
<1>16. CASE InsertEvidence(p)
  <2>1. CASE b.kind = "FindingVerified"
    BY <1>4, <1>13, <1>14, <1>16, <2>1 DEF InsertEvidence
  <2>2. CASE b.kind # "FindingVerified"
    BY <1>4, <1>13, <1>15, <1>16, <2>2 DEF InsertEvidence
  <2>. QED  BY <2>1, <2>2
<1>17. CASE InsertClaim(p)
  <2>1. at[p] = "gclaim"
    BY <1>17 DEF InsertClaim
  <2>2. <<"evidence", b.kind, b.subject>> \in gemel'
    BY <1>3, <1>4, <1>6, <2>1
  <2>. QED  BY <1>4, <1>13, <1>15, <1>17, <2>2 DEF InsertClaim
<1>. QED  BY <1>16, <1>17

LEMMA PutBoundaryKeeps ==
  ASSUME IInv, NEW p \in Procs, PutBoundary(p)
  PROVE  IInv'
<1>1. /\ at[p] = "local" /\ TypeOK /\ StoredInv /\ at[p] # "idle" /\ at[p] \notin InCourt
  BY DEF PutBoundary, IInv, InCourt
<1>2. /\ findings' = findings /\ tapes' = tapes /\ witnesses' = witnesses
      /\ precedents' = precedents /\ verifications' = verifications
      /\ boundaries' = boundaries \cup {job[p].boundary} /\ residuals' = residuals
      /\ oracle' = oracle /\ gemel' = gemel
      /\ admitted' = admitted /\ receipts' = receipts /\ claims' = claims /\ staged' = staged
      /\ config' = config /\ verified' = verified
      /\ skipped' = skipped /\ starts' = starts /\ kills' = kills /\ edits' = edits
  BY DEF PutBoundary, env, frf, count
<1>3. /\ job[p] \in Job /\ job[p].finding \in findings
      /\ job[p].boundary \in Boundary /\ Backed(job[p].boundary)
      /\ p = "campaign" => job[p].version = config.version
  BY <1>1 DEF IInv, JobInv
<1>4. Grows
  BY <1>2 DEF Grows
<1>5. StoredInv'
  <2>1. ASSUME NEW b \in boundaries' \ boundaries PROVE Backed(b)'
    <3>1. b = job[p].boundary
      BY <1>2, <2>1
    <3>2. Backed(b)
      BY <1>3, <3>1
    <3>. QED  BY <1>4, <3>2, BackedKept
  <2>. QED  BY <1>1, <1>2, <1>4, <2>1, StoredKept
<1>6. ASSUME NEW s \in {"idle", "replay"}, NEW j \in Job \cup {None}, GotoWith(p, s, j),
             s = "replay" => /\ j \in Job /\ j.finding = job[p].finding
                             /\ j.version = job[p].version
      PROVE  IInv'
  <2>1. s \in Stages \ InCourt
    BY DEF Stages, InCourt
  <2>2. /\ at' \in [Procs -> Stages] /\ job' \in [Procs -> Job \cup {None}]
        /\ at'[p] = s /\ job'[p] = j
    BY <1>6, <2>1, StepTo
  <2>3. TypeOK'
    BY <1>1, <1>2, <1>3, <2>2 DEF TypeOK, Stages, InCourt
  <2>4. JobInv(p)'
    BY <1>2, <1>3, <1>6, <2>1, <2>2 DEF JobInv
  <2>. QED  BY <1>1, <1>2, <1>4, <1>5, <1>6, <2>1, <2>3, <2>4, OutsideKeeps
<1>7. CASE Done(p)
  BY <1>6, <1>7 DEF Done
<1>8. CASE GotoWith(p, "replay", [job[p] EXCEPT !.boundary = None])
  <2>1. PICK j \in Job : j = [job[p] EXCEPT !.boundary = None]
    BY <1>3 DEF Job
  <2>2. j.finding = job[p].finding /\ j.version = job[p].version
    BY <1>3, <2>1 DEF Job
  <2>. QED  BY <1>6, <1>8, <2>1, <2>2
<1>. QED  BY <1>7, <1>8 DEF PutBoundary, After

-----------------------------------------------------------------------------
(* The campaign on the way to court. *)

(* It goes on to s, with its job as it was.                                *)
LEMMA CampaignStep ==
  ASSUME IInv, at["campaign"] \notin InCourt, at["campaign"] # "idle",
         NEW s \in {"tape", "witness", "precedent", "replay"},
         Goto("campaign", s), Grows, StoredInv',
         tapes' \subseteq Tape, witnesses' \subseteq [right : Finding],
         precedents' \subseteq [terminal : Finding],
         UNCHANGED <<findings, verifications, boundaries, residuals, env, frf, gemel,
                     config, verified, count, skipped>>
  PROVE  IInv'
<1> DEFINE c == "campaign"
<1>1. c \in Procs /\ s \in Stages \ InCourt /\ TypeOK
  BY DEF Procs, Stages, InCourt, IInv
<1>2. /\ job[c] \in Job /\ job[c].finding \in findings
      /\ job[c].version = config.version
  BY <1>1 DEF IInv, JobInv
<1>3. GotoWith(c, s, job[c])
  BY <1>1 DEF Goto, GotoWith, TypeOK
<1>4. /\ at' \in [Procs -> Stages] /\ job' \in [Procs -> Job \cup {None}]
      /\ at'[c] = s /\ job'[c] = job[c]
  BY <1>1, <1>2, <1>3, StepTo
<1>5. /\ findings' = findings /\ verifications' = verifications
      /\ boundaries' = boundaries /\ residuals' = residuals /\ oracle' = oracle
      /\ gemel' = gemel
      /\ admitted' = admitted /\ receipts' = receipts /\ claims' = claims /\ staged' = staged
      /\ config' = config /\ verified' = verified
      /\ skipped' = skipped /\ starts' = starts /\ kills' = kills /\ edits' = edits
  BY DEF env, frf, count
<1>6. TypeOK'
  BY <1>1, <1>4, <1>5 DEF TypeOK, Stages, InCourt
<1>7. JobInv(c)'
  BY <1>1, <1>2, <1>4, <1>5 DEF JobInv
<1>. QED  BY <1>1, <1>2, <1>3, <1>5, <1>6, <1>7, OutsideKeeps

LEMMA DieKeeps ==
  ASSUME IInv, NEW i \in Inputs, NEW c \in Coords, Die(i, c)
  PROVE  IInv'
<1> DEFINE f == [input |-> i, coord |-> c, replay |-> "NotReplayed"]
           s == "campaign"
<1>1. s \in Procs /\ at[s] = "idle" /\ at[s] \notin InCourt /\ MayStart(s)
      /\ TypeOK /\ StoredInv
  BY DEF Die, MayStart, Procs, InCourt, IInv
<1>2. /\ findings' = findings \cup {f} /\ tapes' = tapes /\ witnesses' = witnesses
      /\ precedents' = precedents /\ verifications' = verifications
      /\ boundaries' = boundaries /\ residuals' = residuals /\ oracle' = oracle
      /\ gemel' = gemel
      /\ admitted' = admitted /\ receipts' = receipts /\ claims' = claims /\ staged' = staged
      /\ config' = config /\ verified' = verified
      /\ skipped' = skipped /\ starts' = starts + 1 /\ kills' = kills /\ edits' = edits
  BY DEF Die, env, frf
<1>3. f \in Finding
  BY DEF Finding
<1>4. PICK j \in Job : j = NewJob(f, config)
  BY <1>1, <1>3, CourtAssumption DEF TypeOK, NewJob, Job
<1>5. GotoWith(s, "tape", j) /\ "tape" \in Stages \ InCourt
  BY <1>4 DEF Die, Stages, InCourt
<1>6. /\ at' \in [Procs -> Stages] /\ job' \in [Procs -> Job \cup {None}]
      /\ at'[s] = "tape" /\ job'[s] = j
  BY <1>1, <1>5, StepTo
<1>7. TypeOK'
  BY <1>1, <1>2, <1>3, <1>6 DEF TypeOK, Stages, InCourt
<1>8. Grows
  BY <1>2 DEF Grows
<1>9. StoredInv'
  BY <1>1, <1>2, <1>8, StoredKept
<1>10. JobInv(s)'
  BY <1>2, <1>4, <1>6 DEF JobInv, NewJob, InCourt
<1>. QED  BY <1>1, <1>2, <1>5, <1>7, <1>8, <1>9, <1>10, OutsideKeeps

LEMMA PutTapeKeeps == IInv /\ PutTape => IInv'
<1>. SUFFICES ASSUME IInv, PutTape PROVE IInv'
  OBVIOUS
<1>1. /\ at["campaign"] = "tape" /\ at["campaign"] \notin InCourt
      /\ at["campaign"] # "idle" /\ TypeOK /\ StoredInv
  BY DEF PutTape, InCourt, IInv
<1>2. job["campaign"] \in Job /\ job["campaign"].finding \in Finding
  BY <1>1 DEF IInv, JobInv, TypeOK, Procs
<1>3. /\ tapes \subseteq tapes' /\ tapes' \subseteq Tape
      /\ witnesses' = witnesses /\ precedents' = precedents
  BY <1>1, <1>2 DEF PutTape, TypeOK, Tape, Finding, Statuses
<1>4. Grows
  BY <1>3 DEF PutTape, Grows, frf
<1>5. StoredInv'
  BY <1>1, <1>3, <1>4, StoredKept DEF PutTape
<1>. QED  BY <1>1, <1>3, <1>4, <1>5, CampaignStep DEF PutTape, TypeOK

LEMMA PutWitnessKeeps == IInv /\ PutWitness => IInv'
<1>. SUFFICES ASSUME IInv, PutWitness PROVE IInv'
  OBVIOUS
<1>1. /\ at["campaign"] = "witness" /\ at["campaign"] \notin InCourt
      /\ at["campaign"] # "idle" /\ TypeOK /\ StoredInv
  BY DEF PutWitness, InCourt, IInv
<1>2. job["campaign"].finding \in findings /\ job["campaign"].finding \in Finding
  BY <1>1 DEF IInv, JobInv, TypeOK, Procs
<1>3. /\ witnesses' \subseteq [right : Finding]
      /\ \A w \in witnesses' \ witnesses : w.right \in findings
      /\ findings' = findings
  BY <1>1, <1>2 DEF PutWitness, TypeOK
<1>4. Grows
  BY DEF PutWitness, Grows, frf
<1>5. StoredInv'
  BY <1>1, <1>3, <1>4, StoredKept DEF PutWitness
<1>. QED  BY <1>1, <1>3, <1>4, <1>5, CampaignStep DEF PutWitness, TypeOK

LEMMA AdmitPrecedentKeeps == IInv /\ AdmitPrecedent => IInv'
<1>. SUFFICES ASSUME IInv, AdmitPrecedent PROVE IInv'
  OBVIOUS
<1> DEFINE c == "campaign"
           f == job[c].finding
<1>1. /\ at[c] = "precedent" /\ at[c] \notin InCourt /\ c \in Procs
      /\ at[c] # "idle" /\ TypeOK /\ StoredInv
  BY DEF AdmitPrecedent, InCourt, IInv, Procs
<1>2. /\ job[c] \in Job /\ f \in findings /\ f \in Finding
      /\ job[c].version = config.version
  BY <1>1 DEF IInv, JobInv, TypeOK
<1>3. /\ findings' = findings /\ tapes' = tapes /\ witnesses' = witnesses
      /\ verifications' = verifications
      /\ boundaries' = boundaries /\ residuals' = residuals /\ oracle' = oracle
      /\ gemel' = gemel
      /\ admitted' = admitted /\ receipts' = receipts /\ claims' = claims /\ staged' = staged
      /\ config' = config /\ verified' = verified
      /\ skipped' = skipped /\ starts' = starts /\ kills' = kills /\ edits' = edits
  BY DEF AdmitPrecedent, env, frf, count
<1>4. precedents' = precedents \/ precedents' = precedents \cup {[terminal |-> f]}
  BY DEF AdmitPrecedent
<1>5. precedents' \subseteq [terminal : Finding]
  BY <1>1, <1>2, <1>4 DEF TypeOK
<1>6. Grows
  BY <1>3, <1>4 DEF Grows
<1>7. StoredInv'
  BY <1>1, <1>2, <1>3, <1>4, <1>6, StoredKept
<1>8. CASE Goto(c, "replay")
  BY <1>1, <1>3, <1>5, <1>6, <1>7, <1>8, CampaignStep DEF TypeOK, env, frf, count
<1>9. CASE [terminal |-> f] \in precedents' /\ Publish(c, "PrecedentAdmitted", f)
  <2>1. PICK b \in Boundary :
          b = [kind |-> "PrecedentAdmitted", subject |-> f, published |-> FALSE]
    BY <1>2 DEF Boundary
  <2>2. PICK j \in Job : j = [job[c] EXCEPT !.boundary = b]
    BY <1>2 DEF Job
  <2>3. GotoWith(c, "evidence", j) /\ "evidence" \in Stages \ InCourt
    BY <1>9, <2>1, <2>2 DEF Publish, Stages, InCourt
  <2>4. /\ at' \in [Procs -> Stages] /\ job' \in [Procs -> Job \cup {None}]
        /\ at'[c] = "evidence" /\ job'[c] = j
    BY <1>1, <2>3, StepTo
  <2>5. TypeOK'
    BY <1>1, <1>3, <1>5, <2>4 DEF TypeOK, Stages, InCourt
  <2>6. /\ j.finding = f /\ j.version = job[c].version /\ j.boundary = b
        /\ b.kind = "PrecedentAdmitted" /\ b.subject = f /\ ~b.published
    BY <1>2, <2>1, <2>2 DEF Job
  <2>7. Backed(job[c].boundary)'
    BY <1>9, <2>4, <2>6 DEF Backed
  <2>8. JobInv(c)'
    BY <1>1, <1>2, <1>3, <2>3, <2>4, <2>6, <2>7 DEF JobInv
  <2>. QED  BY <1>1, <1>3, <1>6, <1>7, <2>3, <2>5, <2>8, OutsideKeeps
<1>. QED  BY <1>8, <1>9 DEF AdmitPrecedent

(* A process enters the court with a blank record.                         *)
LEMMA EntersCourt ==
  ASSUME IInv, NEW p \in Procs, NEW j \in Job, j.version \in Versions,
         j.finding \in Finding, j.finding \in findings',
         p = "campaign" => j.version = config'.version, ToCourt(p, j)
  PROVE  /\ at' \in [Procs -> Stages] /\ job' \in [Procs -> Job \cup {None}]
         /\ at'[p] = "admit" /\ job'[p].finding = j.finding /\ JobInv(p)'
         /\ \A q \in Procs \ {p} : at'[q] = at[q] /\ job'[q] = job[q]
<1>1. PICK r \in Verification : r = Blank(j.finding, j.version)
  BY DEF Verification, Blank
<1>2. PICK k \in Job : k = [j EXCEPT !.rec = r]
  BY DEF Job
<1>3. GotoWith(p, "admit", k)
  BY <1>1, <1>2 DEF ToCourt
<1>4. /\ at' \in [Procs -> Stages] /\ job' \in [Procs -> Job \cup {None}]
      /\ at'[p] = "admit" /\ job'[p] = k
      /\ \A q \in Procs \ {p} : at'[q] = at[q] /\ job'[q] = job[q]
  BY <1>3, StepTo DEF Stages, InCourt
<1>5. /\ k.finding = j.finding /\ k.version = j.version /\ k.rec = r
      /\ r.finding = j.finding /\ r.version = j.version /\ r.run = None
      /\ ~r.receipt /\ ~r.claim /\ r.outcome = "Failed"
  BY <1>1, <1>2 DEF Job, Blank
<1>6. Sound(r)' /\ ReadyFor("admit", r)
  BY <1>5 DEF Sound, ReadyFor
<1>7. Sound(job[p].rec)'
  BY <1>4, <1>5, <1>6 DEF Sound
<1>8. JobInv(p)'
  BY <1>4, <1>5, <1>6, <1>7 DEF JobInv, InCourt
<1>. QED  BY <1>4, <1>5, <1>8

LEMMA ReplayKeeps ==
  ASSUME IInv, NEW st \in {"Reproduced", "NotReproduced"}, Replay(st)
  PROVE  IInv'
<1> DEFINE c == "campaign"
           f == [job[c].finding EXCEPT !.replay = st]
           v == job[c].version
<1>1. /\ at[c] = "replay" /\ at[c] \notin InCourt /\ c \in Procs
      /\ at[c] # "idle" /\ TypeOK /\ StoredInv /\ SkipInv
  BY DEF Replay, InCourt, IInv, Procs
<1>2. /\ job[c] \in Job /\ job[c].finding \in Finding /\ v = config.version
      /\ v \in Versions \cup {None} /\ f \in Finding /\ f.input = job[c].finding.input
  BY <1>1 DEF IInv, JobInv, TypeOK, Job, Finding
<1>3. /\ findings' = findings \cup {f} /\ tapes' = tapes /\ witnesses' = witnesses
      /\ precedents' = precedents /\ verifications' = verifications
      /\ boundaries' = boundaries /\ residuals' = residuals /\ oracle' = oracle
      /\ gemel' = gemel
      /\ admitted' = admitted /\ receipts' = receipts /\ claims' = claims /\ staged' = staged
      /\ config' = config /\ starts' = starts /\ kills' = kills /\ edits' = edits
  BY DEF Replay, env, frf, count
<1>. HIDE DEF f, v
<1>4. Grows
  BY <1>3 DEF Grows
<1>5. StoredInv'
  BY <1>1, <1>3, <1>4, StoredKept
<1>6. CASE Done(c) /\ verified' = verified
           /\ (skipped' = skipped \/ (/\ v # None /\ f.input \in verified
                                     /\ skipped' = skipped \cup {<<f, v>>}))
  <2>1. TypeOK'
    BY <1>1, <1>2, <1>3, <1>6, DoneKeeps DEF TypeOK, Stages, InCourt
  <2>2. SkipInv'
    <3>1. \A i, w : Covered(i, w) => Covered(i, w)'
      BY <1>3 DEF Covered
    <3>2. ASSUME NEW i \in verified PROVE Covered(i, config.version)
      BY <1>1 DEF SkipInv
    <3>3. ASSUME NEW s \in skipped' PROVE Covered(s[1].input, s[2])
      <4>1. CASE s \in skipped
        BY <1>1, <4>1 DEF SkipInv
      <4>2. CASE s = <<f, v>> /\ f.input \in verified
        BY <1>2, <3>2, <4>2
      <4>. QED  BY <1>6, <3>3, <4>1, <4>2
    <3>4. \A i \in verified' : Covered(i, config.version)'
      BY <1>3, <1>6, <3>2 DEF Covered
    <3>. QED  BY <3>1, <3>3, <3>4 DEF SkipInv
  <2>. QED  BY <1>1, <1>3, <1>4, <1>5, <1>6, <2>1, <2>2, DoneKeeps, StepKeeps
<1>7. CASE /\ v # None /\ ToCourt(c, [job[c] EXCEPT !.finding = f])
           /\ verified' = verified \cup {f.input} /\ skipped' = skipped
  <2>1. PICK j \in Job : j = [job[c] EXCEPT !.finding = f]
    BY <1>2 DEF Job
  <2>2. j.finding = f /\ j.version = v /\ v \in Versions
    BY <1>2, <1>7, <2>1 DEF Job, v
  <2>3. /\ at' \in [Procs -> Stages] /\ job' \in [Procs -> Job \cup {None}]
        /\ at'[c] = "admit" /\ job'[c].finding = f /\ JobInv(c)'
        /\ \A q \in Procs \ {c} : at'[q] = at[q] /\ job'[q] = job[q]
    <3>1. j.finding \in Finding /\ j.finding \in findings' /\ j.version = config'.version
      BY <1>2, <1>3, <2>2
    <3>2. ToCourt(c, j)
      BY <1>7, <2>1
    <3>. QED  BY <1>1, <2>2, <3>1, <3>2, EntersCourt
  <2>4. TypeOK'
    BY <1>1, <1>2, <1>3, <1>7, <2>3 DEF TypeOK, Stages, InCourt, Finding
  <2>5. SkipInv'
    <3>1. at'[c] \in InCourt /\ job'[c].finding.input = f.input
      BY <2>3 DEF InCourt
    <3>2. \A i \in verified : Covered(i, config.version)
      BY <1>1 DEF SkipInv
    <3>. QED  BY <1>1, <1>3, <1>7, <3>1, <3>2 DEF SkipInv, Covered
  <2>. QED  BY <1>1, <1>3, <1>4, <2>3, <2>4, <1>5, <2>5, StepKeeps
<1>8. \/ st = "NotReproduced" \/ v = None
      \/ st = "Reproduced" /\ v # None
  OBVIOUS
<1>. QED  BY <1>6, <1>7, <1>8 DEF Replay, f, v

-----------------------------------------------------------------------------
(* The commands. *)
LEMMA VerifyKeeps ==
  ASSUME IInv, NEW f \in findings, NEW c \in Configs, Verify(f, c)
  PROVE  IInv'
<1> DEFINE p == "command"
<1>1. p \in Procs /\ p # "campaign" /\ MayStart(p) /\ TypeOK /\ StoredInv /\ SkipInv
      /\ f \in Finding
  BY DEF Verify, StartCommand, Procs, IInv, TypeOK
<1>2. /\ findings' = findings /\ tapes' = tapes /\ witnesses' = witnesses
      /\ precedents' = precedents /\ verifications' = verifications
      /\ boundaries' = boundaries /\ residuals' = residuals /\ oracle' = oracle
      /\ gemel' = gemel
      /\ admitted' = admitted /\ receipts' = receipts /\ claims' = claims /\ staged' = staged
      /\ config' = config /\ verified' = verified /\ skipped' = skipped
      /\ starts' = starts + 1 /\ kills' = kills /\ edits' = edits
  BY DEF Verify, StartCommand, store, env, frf
<1>3. /\ c.version \in Versions \cup {None} /\ c.claim \in BOOLEAN /\ c.gemel \in BOOLEAN
  BY CourtAssumption
<1>4. PICK j \in Job : j = NewJob(f, c)
  BY <1>1, <1>3 DEF NewJob, Job
<1>5. j.version \in Versions /\ j.finding = f /\ ToCourt(p, j)
  BY <1>3, <1>4 DEF Verify, NewJob
<1>6. /\ at' \in [Procs -> Stages] /\ job' \in [Procs -> Job \cup {None}] /\ JobInv(p)'
      /\ \A q \in Procs \ {p} : at'[q] = at[q] /\ job'[q] = job[q]
  BY <1>1, <1>2, <1>5, EntersCourt
<1>7. TypeOK'
  BY <1>1, <1>2, <1>6 DEF TypeOK, Stages, InCourt
<1>8. Grows
  BY <1>2 DEF Grows
<1>9. StoredInv'
  BY <1>1, <1>2, <1>8, StoredKept
<1>10. SkipInv'
  BY <1>1, <1>2, <1>6, <1>8, SkipKept DEF Procs
<1>. QED  BY <1>1, <1>2, <1>6, <1>7, <1>8, <1>9, <1>10, StepKeeps

(* A step in which no process moves. *)
LEMMA NobodyMoves ==
  ASSUME IInv, UNCHANGED <<at, job, config, verified, skipped, staged>>,
         Grows, TypeOK', StoredInv'
  PROVE  IInv'
<1>1. "command" \in Procs /\ at' = at /\ job' = job
  BY DEF Procs
<1>2. JobInv("command")'
  BY <1>1, OthersKept DEF IInv, JobInv
<1>3. SkipInv'
  BY <1>1, SkipKept DEF IInv
<1>. QED  BY <1>1, <1>2, <1>3, StepKeeps

LEMMA CommandsKeep ==
  ASSUME IInv, Command
  PROVE  IInv'
<1>1. TypeOK /\ StoredInv
  BY DEF IInv
<1>2. ASSUME NEW f \in findings, NEW st \in {"Reproduced", "NotReproduced"},
             ReplayFinding(f, st)
      PROVE  IInv'
  <2>1. f \in Finding /\ [f EXCEPT !.replay = st] \in Finding
    BY <1>1 DEF TypeOK, Finding
  <2>2. /\ findings' = findings \cup {[f EXCEPT !.replay = st]}
        /\ starts' = starts + 1 /\ kills' = kills
        /\ UNCHANGED <<tapes, witnesses, precedents, verifications, boundaries, residuals>>
        /\ UNCHANGED <<oracle, edits, admitted, receipts, claims, staged, gemel>>
        /\ UNCHANGED <<at, job, config, verified, skipped>>
    BY <1>2 DEF ReplayFinding, StartCommand, env, frf
  <2>3. TypeOK'
    BY <1>1, <2>1, <2>2 DEF TypeOK
  <2>4. Grows
    BY <2>2 DEF Grows
  <2>5. StoredInv'
    BY <1>1, <2>2, <2>4, StoredKept
  <2>. QED  BY <2>2, <2>3, <2>4, <2>5, NobodyMoves
<1>3. ASSUME NEW f \in findings, NEW i \in Inputs, MinimizeFinding(f, i) PROVE IInv'
  <2>1. [input |-> i, coord |-> None, replay |-> "NotReplayed"] \in Finding
    BY DEF Finding
  <2>2. /\ findings' = findings \cup
                         {[input |-> i, coord |-> None, replay |-> "NotReplayed"]}
        /\ starts' = starts + 1 /\ kills' = kills
        /\ UNCHANGED <<tapes, witnesses, precedents, verifications, boundaries, residuals>>
        /\ UNCHANGED <<oracle, edits, admitted, receipts, claims, staged, gemel>>
        /\ UNCHANGED <<at, job, config, verified, skipped>>
    BY <1>3 DEF MinimizeFinding, StartCommand, env, frf
  <2>3. TypeOK'
    BY <1>1, <2>1, <2>2 DEF TypeOK
  <2>4. Grows
    BY <2>2 DEF Grows
  <2>5. StoredInv'
    BY <1>1, <2>2, <2>4, StoredKept
  <2>. QED  BY <2>2, <2>3, <2>4, <2>5, NobodyMoves
<1>4. ASSUME NEW f \in findings, NEW l \in Inputs, NEW r \in Inputs, NEW puts \in 1..3,
             MinimizeBoundary(f, l, r, puts)
      PROVE  IInv'
  <2>1. /\ f \in Finding
        /\ [candidate |-> l, termination |-> "Ok"] \in Tape
        /\ [candidate |-> r, termination |-> "Crash"] \in Tape
    BY <1>1 DEF TypeOK, Tape, Statuses
  <2>2. /\ witnesses' = witnesses \cup {[right |-> f]}
        /\ tapes \subseteq tapes' /\ tapes' \subseteq Tape
        /\ starts' = starts + 1 /\ kills' = kills
        /\ UNCHANGED <<findings, precedents, verifications, boundaries, residuals>>
        /\ UNCHANGED <<oracle, edits, admitted, receipts, claims, staged, gemel>>
        /\ UNCHANGED <<at, job, config, verified, skipped>>
    BY <1>1, <1>4, <2>1 DEF MinimizeBoundary, StartCommand, env, frf, TypeOK
  <2>3. TypeOK'
    BY <1>1, <2>1, <2>2 DEF TypeOK
  <2>4. Grows
    BY <2>2 DEF Grows
  <2>5. StoredInv'
    BY <1>1, <2>2, <2>4, StoredKept
  <2>. QED  BY <2>2, <2>3, <2>4, <2>5, NobodyMoves
<1>5. ASSUME NEW t \in tapes, NEW survived \in [1..3 -> BOOLEAN], NEW puts \in 1..2,
             ReplayRevisions(t, survived, puts)
      PROVE  IInv'
  <2>1. t \in Tape /\ \A b \in BOOLEAN : Observed(t, b) \in Statuses
    BY <1>1 DEF TypeOK, Tape, Observed, Statuses
  <2>2. \A n \in 1..puts : survived[n] \in BOOLEAN /\ survived[n + 1] \in BOOLEAN
    OBVIOUS
  <2>3. /\ residuals \subseteq residuals'
        /\ \A x \in residuals' \ residuals :
             /\ x.tape = t
             /\ x \in [tape : Tape, earlier : Statuses, later : Statuses]
    BY <1>5, <2>1, <2>2 DEF ReplayRevisions
  <2>4. /\ starts' = starts + 1 /\ kills' = kills
        /\ UNCHANGED <<findings, tapes, witnesses, precedents, verifications, boundaries>>
        /\ UNCHANGED <<oracle, edits, admitted, receipts, claims, staged, gemel>>
        /\ UNCHANGED <<at, job, config, verified, skipped>>
    BY <1>5 DEF ReplayRevisions, StartCommand, env, frf
  <2>5. TypeOK'
    <3>1. residuals' \subseteq [tape : Tape, earlier : Statuses, later : Statuses]
      BY <1>1, <2>3 DEF TypeOK
    <3>. QED  BY <1>1, <2>4, <3>1 DEF TypeOK
  <2>6. Grows
    BY <2>4 DEF Grows
  <2>7. StoredInv'
    BY <1>1, <2>3, <2>4, <2>6, StoredKept
  <2>. QED  BY <2>4, <2>5, <2>6, <2>7, NobodyMoves
<1>. QED  BY <1>2, <1>3, <1>4, <1>5, VerifyKeeps DEF Command

-----------------------------------------------------------------------------
(* A kill takes the memory of the campaign with it, and nothing else.      *)
LEMMA KillKeeps ==
  ASSUME IInv, NEW p \in Procs, NEW c \in Configs, Kill(p, c)
  PROVE  IInv'
<1>1. TypeOK /\ StoredInv /\ SkipInv /\ Done(p)
  BY DEF Kill, IInv
<1>2. /\ findings' = findings /\ tapes' = tapes /\ witnesses' = witnesses
      /\ precedents' = precedents /\ verifications' = verifications
      /\ boundaries' = boundaries /\ residuals' = residuals /\ oracle' = oracle
      /\ gemel' = gemel
      /\ admitted' = admitted /\ receipts' = receipts /\ claims' = claims /\ staged' = staged
      /\ skipped' = skipped /\ starts' = starts /\ kills' = kills + 1 /\ edits' = edits
  BY DEF Kill, store, env, frf
<1>3. \/ p = "campaign" /\ verified' = {} /\ config' = c
      \/ p # "campaign" /\ verified' = verified /\ config' = config
  BY DEF Kill
<1>4. Grows
  BY <1>2 DEF Grows
<1>5. StoredInv'
  BY <1>1, <1>2, <1>4, StoredKept
<1>6. TypeOK'
  BY <1>1, <1>2, <1>3, DoneKeeps DEF TypeOK, Stages, InCourt
<1>7. CASE p # "campaign"
  <2>1. at'["campaign"] = at["campaign"] /\ job'["campaign"] = job["campaign"]
    BY <1>1, <1>7, DoneKeeps DEF Procs
  <2>2. SkipInv'
    BY <1>1, <1>2, <1>3, <1>4, <1>7, <2>1, SkipKept
  <2>. QED  BY <1>1, <1>2, <1>3, <1>4, <1>5, <1>6, <1>7, <2>2, DoneKeeps, StepKeeps
<1>8. CASE p = "campaign"
  <2>1. SkipInv'
    <3>1. skipped' = skipped /\ verified' = {} /\ verifications' = verifications
      BY <1>2, <1>3, <1>8
    <3>. QED  BY <1>1, <3>1 DEF SkipInv, Covered
  <2>2. ASSUME NEW q \in Procs PROVE JobInv(q)'
    <3>1. CASE q = p
      BY <1>1, <3>1, DoneKeeps
    <3>2. CASE q # p
      <4>1. JobInv(q) /\ at'[q] = at[q] /\ job'[q] = job[q] /\ q # "campaign"
        BY <1>1, <1>8, <3>2, DoneKeeps DEF IInv
      <4>2. at[q] = "run" => staged' \in Inputs /\ (Exclusive => staged' = staged)
        BY <1>2, <4>1 DEF JobInv
      <4>. QED  BY <1>4, <4>1, <4>2, OthersKept
    <3>. QED  BY <3>1, <3>2
  <2>3. Alone'
    <3>1. at'[p] = "idle" /\ \A q \in Procs \ {p} : at'[q] = at[q]
      BY <1>1, DoneKeeps
    <3>. QED  BY <3>1 DEF Alone, IInv
  <2>. QED  BY <1>5, <1>6, <2>1, <2>2, <2>3 DEF IInv
<1>. QED  BY <1>7, <1>8

LEMMA RestKeeps ==
  ASSUME IInv, EditOracle \/ UNCHANGED vars
  PROVE  IInv'
<1>1. TypeOK /\ StoredInv
  BY DEF IInv
<1>2. /\ UNCHANGED <<findings, tapes, witnesses, precedents, verifications, boundaries>>
      /\ UNCHANGED <<residuals, admitted, receipts, claims, staged, gemel>>
      /\ UNCHANGED <<at, job, config, verified, skipped, starts, kills>>
  BY DEF EditOracle, vars, store, frf, count
<1>3. \/ edits' = edits /\ oracle' = oracle
      \/ edits' = edits + 1 /\ oracle' \in Oracles
  BY DEF EditOracle, vars, env
<1>4. TypeOK'
  BY <1>1, <1>2, <1>3 DEF TypeOK
<1>5. Grows
  BY <1>2 DEF Grows
<1>6. StoredInv'
  BY <1>1, <1>2, <1>5, StoredKept
<1>. QED  BY <1>2, <1>4, <1>5, <1>6, NobodyMoves

LEMMA InitIInv == Init => IInv
<1>. SUFFICES ASSUME Init PROVE IInv
  OBVIOUS
<1>1. \A p \in Procs : at[p] = "idle" /\ job[p] = None
  BY DEF Init
<1>2. TypeOK
  <2>1. at \in [Procs -> Stages] /\ job \in [Procs -> Job \cup {None}]
    BY DEF Init, Stages
  <2>. QED  BY <2>1 DEF Init, TypeOK, Stages, InCourt
<1>3. \A p \in Procs : JobInv(p)
  BY <1>1 DEF JobInv, InCourt
<1>4. StoredInv /\ SkipInv /\ Alone
  BY <1>1 DEF Init, StoredInv, SkipInv, Alone
<1>. QED  BY <1>2, <1>3, <1>4 DEF IInv

LEMMA NextIInv == IInv /\ [Next]_vars => IInv'
<1>. SUFFICES ASSUME IInv, [Next]_vars PROVE IInv'
  OBVIOUS
<1>1. ASSUME NEW p \in Procs, CourtStep(p) PROVE IInv'
  <2>1. CASE Unusable(p)
    BY <2>1, HardErrorKeeps DEF Unusable
  <2>2. CASE InsertEvidence(p) \/ InsertClaim(p)
    BY <2>2, InsertKeeps
  <2>. QED  BY <1>1, <2>1, <2>2, AdmitKeeps, StageKeeps, RunCourtKeeps, ReceiptKeeps,
               JudgeKeeps, CompileClaimKeeps, RecordKeeps, PutBoundaryKeeps DEF CourtStep
<1>2. CASE PutTape \/ PutWitness \/ AdmitPrecedent
  BY <1>2, PutTapeKeeps, PutWitnessKeeps, AdmitPrecedentKeeps
<1>3. CASE EditOracle \/ Rest \/ UNCHANGED vars
  BY <1>3, RestKeeps DEF Rest
<1>. QED  BY <1>1, <1>2, <1>3, DieKeeps, ReplayKeeps, CommandsKeep, KillKeeps DEF Next

(* The inductive invariant. *)
THEOREM CourtInvariant == Spec => []IInv
BY InitIInv, NextIInv, PTL DEF Spec

-----------------------------------------------------------------------------
(* Type correctness of the store, FRF's and Gemel's, and of the jobs.      *)
THEOREM CourtTypeOK == Spec => []TypeOK
<1>1. IInv => TypeOK
  BY DEF IInv
<1>. QED  BY <1>1, CourtInvariant, PTL

(* Where one process has the store to itself, a finding is recorded as     *)
(* verified only on a diverging run of its own input, with a receipt,      *)
(* against the bytes its authority was admitted with (frf_bridge.rs).      *)
THEOREM VerifiedOnItsOwn ==
  ASSUME Exclusive
  PROVE  Spec => []VerifiedOnOwnInput
<1>1. IInv => VerifiedOnOwnInput
  <2>. SUFFICES ASSUME IInv, NEW r \in verifications, r.outcome = "Verified"
                PROVE  /\ r.receipt /\ r.run \in receipts
                       /\ r.run.input = r.finding.input
                       /\ r.run.version = r.version /\ r.run.bytes = admitted[r.version]
                       /\ <<r.run.input, r.run.bytes>> \in Divergent
    BY DEF VerifiedOnOwnInput
  <2>1. Sound(r) /\ receipts \subseteq CourtRun
    BY DEF IInv, StoredInv, TypeOK
  <2>2. r.run # None
    BY <2>1, NoneAssumption DEF Sound
  <2>. QED  BY <2>1, <2>2 DEF Sound
<1>. QED  BY <1>1, CourtInvariant, PTL

(* There, two courts on one input and one authority never differ, whatever *)
(* became of the oracle between them.                                      *)
THEOREM CourtsAgree ==
  ASSUME Exclusive
  PROVE  Spec => []RunsConverge
<1>1. IInv => RunsConverge
  <2>. SUFFICES ASSUME IInv, NEW r \in verifications, NEW s \in verifications,
                       r.finding.input = s.finding.input, r.version = s.version,
                       r.run # None, s.run # None
                PROVE  r.run = s.run
    BY DEF RunsConverge
  <2>1. Sound(r) /\ Sound(s) /\ r.run \in CourtRun /\ s.run \in CourtRun
    BY DEF IInv, StoredInv, TypeOK, Verification
  <2>2. /\ r.run.version = s.run.version /\ r.run.bytes = s.run.bytes
        /\ r.run.input = s.run.input
    BY <2>1 DEF Sound
  <2>. QED  BY <2>1, <2>2 DEF CourtRun
<1>. QED  BY <1>1, CourtInvariant, PTL

(* With two processes, too: a finding the campaign does not take to court  *)
(* because its input has been there has a record by its authority.         *)
THEOREM NothingSkippedUnverified == Spec => []SkippedIsCovered
<1>1. IInv => SkippedIsCovered
  BY DEF IInv, SkipInv, SkippedIsCovered, Covered
<1>. QED  BY <1>1, CourtInvariant, PTL

(* What Gemel holds on a finding is backed by its current verification,    *)
(* and a boundary that says so was published (gemel_bridge.rs).            *)
THEOREM PublishedIsBacked == Spec => []ClaimsBacked
<1>1. ASSUME IInv PROVE ClaimsBacked
  <2>1. ASSUME NEW f, HasVerdict(f)
        PROVE  Current(f) # None /\ Current(f).outcome = "Verified"
    <3> DEFINE of  == {r \in verifications : r.finding = f}
               top == {r \in of : r.outcome = "Verified"}
    <3>1. top # {} /\ of # {} /\ top \subseteq of /\ of \subseteq Verification
      BY <1>1, <2>1 DEF HasVerdict, IInv, TypeOK
    <3>2. Current(f) = CHOOSE r \in of : top = {} \/ r \in top
      BY <3>1 DEF Current
    <3>3. \E r \in of : top = {} \/ r \in top
      BY <3>1
    <3>4. Current(f) \in of /\ (top = {} \/ Current(f) \in top)
      <4>. HIDE DEF of, top
      <4>. QED  BY <3>2, <3>3
    <3>. QED  BY <3>1, <3>4, NoneAssumption
  <2>2. ASSUME NEW g \in gemel, g[2] = "FindingVerified"
        PROVE  Current(g[3]) # None /\ Current(g[3]).outcome = "Verified"
    BY <1>1, <2>1, <2>2 DEF IInv, StoredInv
  <2>. QED  BY <1>1, <2>2 DEF ClaimsBacked, IInv, StoredInv, Backed
<1>. QED  BY <1>1, CourtInvariant, PTL

(* Whatever process is killed wherever, nothing in the store names what is *)
(* not there: fsck's link checks pass (fsck_precedents, fsck_verification, *)
(* fsck_gemel, fsck_revision).                                             *)
THEOREM LinksStayClosed == Spec => []LinksClosed
<1>1. ASSUME IInv PROVE LinksClosed
  <2>1. /\ \A r \in verifications : Sound(r)
        /\ \A b \in boundaries : Backed(b)
        /\ \A w \in witnesses : w.right \in findings
        /\ \A p \in precedents : p.terminal \in findings
        /\ \A r \in residuals : r.tape \in tapes
    BY <1>1 DEF IInv, StoredInv
  <2>2. PrecedentErrors = {} /\ VerificationErrors = {} /\ RevisionErrors = {}
    BY <2>1 DEF PrecedentErrors, VerificationErrors, RevisionErrors, Sound
  <2>3. ASSUME NEW b \in boundaries
        PROVE  /\ b.kind = "FindingVerified" => b.subject \in findings
               /\ b.kind = "PrecedentAdmitted" => [terminal |-> b.subject] \in precedents
               /\ b.published => \E g \in gemel : g[2] = b.kind /\ g[3] = b.subject
    <3>1. Backed(b)
      BY <2>1
    <3>2. b.published => <<"evidence", b.kind, b.subject>> \in gemel
      BY <3>1 DEF Backed
    <3>. QED  BY <3>1, <3>2 DEF Backed
  <2>4. GemelErrors = {}
    BY <2>3 DEF GemelErrors
  <2>. QED  BY <2>1, <2>2, <2>4 DEF LinksClosed, LinkErrors, Sound
<1>. QED  BY <1>1, CourtInvariant, PTL

-----------------------------------------------------------------------------
(* Minimization: the distance of two inputs. *)

(* A set of naturals that is not empty has a least element.               *)
LEMMA Smallest ==
  ASSUME NEW T, T \subseteq Nat, T # {}
  PROVE  \E k \in T : \A j \in T : k <= j
<1> DEFINE R == OpToRel(<, Nat)
<1>1. IsWellFoundedOn(R, Nat)
  BY NatLessThanWellFounded
<1> HIDE DEF R
<1>2. PICK k \in T : \A j \in T : ~ (<<j, k>> \in R)
  BY <1>1, WFMin
<1>3. \A j \in T : ~(j < k)
  BY <1>2 DEF R, OpToRel
<1>. QED BY <1>3

(* How long the shorter of two inputs is.                                  *)
LEMMA CommonLength ==
  ASSUME NEW a, NEW b, Len(a) \in Nat, Len(b) \in Nat
  PROVE  /\ Common(a, b) = IF Len(a) <= Len(b) THEN Len(a) ELSE Len(b)
         /\ Common(a, b) \in Nat /\ Common(a, b) <= Len(a) /\ Common(a, b) <= Len(b)
<1> DEFINE m == IF Len(a) <= Len(b) THEN Len(a) ELSE Len(b)
<1>1. m \in {Len(a), Len(b)} /\ \A y \in {Len(a), Len(b)} : m <= y
  OBVIOUS
<1>2. \A x \in {Len(a), Len(b)} : (\A y \in {Len(a), Len(b)} : x <= y) => x = m
  OBVIOUS
<1>3. Common(a, b) = m
  BY <1>1, <1>2 DEF Common, Min
<1>. QED  BY <1>3

(* The sums of the gaps of the first bytes. *)
SumsOf(g, a, b) ==
  /\ g \in [0..Common(a, b) -> Nat] /\ g[0] = 0
  /\ \A n \in 1..Common(a, b) : g[n] = g[n - 1] + Gap(a[n], b[n])

(* A gap is a number, and 0 only between equals.                           *)
LEMMA GapType ==
  \A x, y \in Nat : Gap(x, y) \in Nat /\ (x # y => Gap(x, y) > 0) /\ Gap(x, x) = 0
BY DEF Gap

(* An input is a sequence of numbers.                                      *)
LEMMA InputType ==
  \A a \in Seq(Letters) : a \in Seq(Nat) /\ Len(a) \in Nat /\ (\A n \in 1..Len(a) : a[n] \in Nat)
<1> SUFFICES ASSUME NEW a \in Seq(Letters)
             PROVE  a \in Seq(Nat) /\ Len(a) \in Nat /\ (\A n \in 1..Len(a) : a[n] \in Nat)
  OBVIOUS
<1>1. Len(a) \in Nat /\ a \in [1..Len(a) -> Letters]
  OBVIOUS
<1>2. a \in [1..Len(a) -> Nat]
  BY <1>1, InputsAssumption
<1>. QED  BY <1>1, <1>2

(* byte_distance adds up the gaps: the recursive definition has a solution,*)
(* since sums up to n exist for every n, and no two.                       *)
LEMMA DistanceIsSum ==
  ASSUME NEW a \in Seq(Nat), NEW b \in Seq(Nat)
  PROVE  \E g : SumsOf(g, a, b) /\ Distance(a, b) = g[Common(a, b)] + LengthWeight * Gap(Len(a), Len(b))
<1> DEFINE c == Common(a, b)
           Body(g) == [n \in 0..c |-> IF n = 0 THEN 0 ELSE g[n - 1] + Gap(a[n], b[n])]
           Upto(N, g) == /\ g \in [0..N -> Nat] /\ g[0] = 0
                         /\ \A n \in 1..N : g[n] = g[n - 1] + Gap(a[n], b[n])
<1>1. c \in Nat /\ c <= Len(a) /\ c <= Len(b)
  BY CommonLength
<1>2. \A n \in 1..c : a[n] \in Nat /\ b[n] \in Nat /\ Gap(a[n], b[n]) \in Nat
  <2> HIDE DEF c
  <2>1. \A n \in 1..c : a[n] \in Nat /\ b[n] \in Nat
    BY <1>1
  <2>. QED  BY <2>1, GapType
<1>3. \E g : Upto(c, g)
  <2> SUFFICES ASSUME ~ \E g : Upto(c, g) PROVE FALSE
    OBVIOUS
  <2> DEFINE T == {N \in 0..c : ~ \E g : Upto(N, g)}
  <2>1. PICK k \in T : \A j \in T : k <= j
    <3>1. T \subseteq Nat /\ c \in T
      BY <1>1
    <3>. QED  BY <3>1, Smallest
  <2>2. k # 0
    <3>1. Upto(0, [n \in 0..0 |-> 0])
      OBVIOUS
    <3>. QED  BY <2>1, <3>1
  <2>3. PICK g : Upto(k - 1, g)
    <3>1. k \in 0..c /\ \A j \in T : k <= j
      BY <2>1
    <3>2. k - 1 \in 0..c /\ ~(k <= k - 1)
      BY <1>1, <2>2, <3>1
    <3>3. k - 1 \notin T
      <4> HIDE DEF T
      <4>. QED  BY <3>1, <3>2
    <3>. QED  BY <3>2, <3>3
  <2> DEFINE d == Gap(a[k], b[k])
             h == [n \in 0..k |-> IF n = k THEN g[k - 1] + d ELSE g[n]]
  <2>4. k \in 1..c /\ d \in Nat
    BY <1>1, <1>2, <2>1, <2>2
  <2> HIDE DEF d
  <2>5. h \in [0..k -> Nat] /\ h[0] = 0
    BY <2>3, <2>4
  <2>6. \A n \in 1..k : h[n] = h[n - 1] + Gap(a[n], b[n])
    <3> TAKE n \in 1..k
    <3>1. CASE n = k
      BY <2>4, <3>1 DEF d
    <3>2. CASE n # k
      <4>1. n \in 1..(k - 1) /\ n - 1 \in 0..k /\ n - 1 # k
        BY <2>4, <3>2
      <4>2. g[n] = g[n - 1] + Gap(a[n], b[n])
        BY <2>3, <4>1
      <4>. QED  BY <3>2, <4>1, <4>2
    <3>. QED  BY <3>1, <3>2
  <2>. QED  BY <2>1, <2>5, <2>6
<1>4. PICK g : Upto(c, g)
  BY <1>3
<1>5. g = Body(g)
  BY <1>1, <1>4
<1> DEFINE s == CHOOSE f : f = Body(f)
<1>6. s = Body(s)
  BY <1>5
<1>7. Distance(a, b) = s[c] + LengthWeight * Gap(Len(a), Len(b))
  BY DEF Distance
<1> HIDE DEF s
<1>8. s[c] = g[c]
  <2> SUFFICES ASSUME s[c] # g[c] PROVE FALSE
    OBVIOUS
  <2> DEFINE T == {n \in 0..c : s[n] # g[n]}
  <2>1. PICK k \in T : \A j \in T : k <= j
    <3>1. T \subseteq Nat /\ c \in T
      BY <1>1
    <3>. QED  BY <3>1, Smallest
  <2>2. CASE k = 0
    BY <1>1, <1>4, <1>6, <2>1, <2>2
  <2>3. CASE k # 0
    <3>1. k - 1 \in 0..c /\ k \in 1..c /\ k - 1 < k
      BY <1>1, <2>1, <2>3
    <3>3. s[k - 1] = g[k - 1]
      BY <2>1, <3>1
    <3>2. s[k] = s[k - 1] + Gap(a[k], b[k])
      <4> HIDE DEF c
      <4>1. k \in 0..c /\ k # 0
        BY <2>3, <3>1
      <4>. QED  BY <1>6, <4>1
    <3>. QED  BY <1>4, <2>1, <3>1, <3>2, <3>3
  <2>. QED  BY <2>2, <2>3
<1>. QED  BY <1>4, <1>7, <1>8 DEF SumsOf

(* Sums whose terms are no greater, and one smaller, are less. *)
LEMMA SumsLess ==
  ASSUME NEW c \in Nat, NEW f \in [0..c -> Nat], NEW g \in [0..c -> Nat],
         f[0] = 0, g[0] = 0, NEW i \in 1..c,
         \A n \in 1..c : g[n] - g[n - 1] <= f[n] - f[n - 1],
         g[i] - g[i - 1] < f[i] - f[i - 1]
  PROVE  g[c] < f[c]
<1> DEFINE Less(n) == g[n] <= f[n] /\ (i <= n => g[n] < f[n])
<1> SUFFICES ASSUME ~Less(c) PROVE FALSE
  OBVIOUS
<1> DEFINE T == {n \in 0..c : ~Less(n)}
<1>1. PICK k \in T : \A j \in T : k <= j
  <2>1. T \subseteq Nat /\ c \in T
    OBVIOUS
  <2> HIDE DEF T
  <2>. QED  BY <2>1, Smallest
<1>2. k # 0
  BY <1>1
<1>3. Less(k - 1) /\ k \in 1..c
  <2>1. k - 1 \in 0..c /\ k - 1 \notin T /\ k \in 1..c
    BY <1>1, <1>2
  <2>. QED  BY <2>1
<1>4. g[k] \in Nat /\ f[k] \in Nat /\ g[k - 1] \in Nat /\ f[k - 1] \in Nat
  <2>1. k \in 0..c /\ k - 1 \in 0..c
    BY <1>3
  <2> HIDE DEF Less, T
  <2>. QED  BY <2>1
<1>5. g[k] - g[k - 1] <= f[k] - f[k - 1] /\ (i = k => g[k] - g[k - 1] < f[k] - f[k - 1])
  BY <1>3
<1>6. ~Less(k)
  BY <1>1
<1>7. k \in Nat /\ i \in Nat /\ (i <= k => i = k \/ i <= k - 1)
  BY <1>3
<1>8. g[k] <= f[k]
  BY <1>3, <1>4, <1>5
<1>9. i <= k => g[k] < f[k]
  <2>1. CASE i = k
    BY <1>3, <1>4, <1>5, <2>1
  <2>2. CASE i <= k - 1
    <3>1. g[k - 1] < f[k - 1]
      BY <1>3, <2>2
    <3> HIDE DEF Less
    <3>. QED  BY <1>4, <1>5, <3>1
  <2>. QED  BY <1>7, <2>1, <2>2
<1>. QED  BY <1>6, <1>8, <1>9

(* A distance is a number.                                                 *)
LEMMA DistanceType ==
  ASSUME NEW a \in Seq(Letters), NEW b \in Seq(Letters)
  PROVE  Distance(a, b) \in Nat
<1>1. a \in Seq(Nat) /\ b \in Seq(Nat)
  BY InputType
<1>2. PICK g : SumsOf(g, a, b) /\ Distance(a, b) = g[Common(a, b)] + LengthWeight * Gap(Len(a), Len(b))
  BY <1>1, DistanceIsSum
<1>3. g[Common(a, b)] \in Nat
  BY <1>1, <1>2, CommonLength DEF SumsOf
<1>4. LengthWeight * Gap(Len(a), Len(b)) \in Nat
  <2>1. Gap(Len(a), Len(b)) \in Nat
    BY <1>1, GapType
  <2> DEFINE d == Gap(Len(a), Len(b))
  <2> HIDE DEF d
  <2>2. d \in Nat
    BY <2>1 DEF d
  <2>3. LengthWeight * d \in Nat
    BY <2>2, InputsAssumption
  <2>. QED  BY <2>3 DEF d
<1>. QED  BY <1>2, <1>3, <1>4

(* A byte that becomes the other's brings the pair closer. *)
LEMMA ByteMoveCloser ==
  ASSUME NEW a \in Seq(Letters), NEW b \in Seq(Letters),
         NEW i \in 1..Common(a, b), a[i] # b[i],
         NEW x \in Seq(Letters), NEW y \in Seq(Letters),
         Len(x) = Len(a), Len(y) = Len(b), x[i] = y[i],
         \A n \in 1..Common(a, b) : n # i => x[n] = a[n] /\ y[n] = b[n]
  PROVE  Distance(x, y) < Distance(a, b)
<1> DEFINE c == Common(a, b)
           w == LengthWeight * Gap(Len(a), Len(b))
<1>1. a \in Seq(Nat) /\ b \in Seq(Nat) /\ x \in Seq(Nat) /\ y \in Seq(Nat)
  BY InputType
<1>2. c \in Nat /\ c <= Len(a) /\ c <= Len(b) /\ Common(x, y) = c
  <2>1. Len(a) \in Nat /\ Len(b) \in Nat /\ Len(x) \in Nat /\ Len(y) \in Nat
    BY <1>1
  <2>. QED  BY <2>1, CommonLength
<1>3. PICK f : SumsOf(f, a, b) /\ Distance(a, b) = f[c] + w
  BY <1>1, DistanceIsSum
<1>4. PICK g : SumsOf(g, x, y) /\ Distance(x, y) = g[c] + w
  BY <1>1, <1>2, DistanceIsSum
<1>5. w \in Nat
  <2> DEFINE d == Gap(Len(a), Len(b))
  <2>1. d \in Nat
    BY <1>1, GapType
  <2> HIDE DEF d
  <2>2. LengthWeight * d \in Nat
    BY <2>1, InputsAssumption
  <2>. QED  BY <2>2 DEF d
<1> HIDE DEF c, w
<1>6. /\ f \in [0..c -> Nat] /\ f[0] = 0 /\ g \in [0..c -> Nat] /\ g[0] = 0
      /\ \A n \in 1..c : f[n] = f[n - 1] + Gap(a[n], b[n])
      /\ \A n \in 1..c : g[n] = g[n - 1] + Gap(x[n], y[n])
  BY <1>2, <1>3, <1>4 DEF SumsOf, c
<1>7. \A n \in 1..c : f[n] \in Nat /\ f[n - 1] \in Nat /\ g[n] \in Nat /\ g[n - 1] \in Nat
  BY <1>2, <1>6
<1>0. \A n \in 1..c : a[n] \in Nat /\ b[n] \in Nat /\ x[n] \in Nat /\ y[n] \in Nat
  <2>1. \A n \in 1..Len(a) : a[n] \in Nat /\ x[n] \in Nat
    BY InputType
  <2>2. \A n \in 1..Len(b) : b[n] \in Nat /\ y[n] \in Nat
    BY InputType
  <2>3. \A n \in 1..c : n \in 1..Len(a) /\ n \in 1..Len(b)
    BY <1>1, <1>2
  <2>. QED  BY <2>1, <2>2, <2>3
<1>8. \A n \in 1..c : Gap(a[n], b[n]) \in Nat /\ Gap(x[n], y[n]) \in Nat
  BY <1>0, GapType
<1>9. i \in 1..c /\ Gap(x[i], y[i]) = 0 /\ Gap(a[i], b[i]) > 0
  <2>1. i \in 1..c
    BY DEF c
  <2> HIDE DEF c
  <2>2. a[i] \in Nat /\ b[i] \in Nat /\ x[i] \in Nat /\ y[i] \in Nat
    BY <1>0, <2>1
  <2>. QED  BY <2>1, <2>2, GapType
<1>10. \A n \in 1..c : g[n] - g[n - 1] = Gap(x[n], y[n]) /\ f[n] - f[n - 1] = Gap(a[n], b[n])
  <2> TAKE n \in 1..c
  <2>1. f[n] = f[n - 1] + Gap(a[n], b[n]) /\ g[n] = g[n - 1] + Gap(x[n], y[n])
    BY <1>6
  <2>2. /\ f[n - 1] \in Nat /\ g[n - 1] \in Nat
        /\ Gap(a[n], b[n]) \in Nat /\ Gap(x[n], y[n]) \in Nat
    BY <1>7, <1>8
  <2>. QED  BY <2>1, <2>2
<1>11. \A n \in 1..c : g[n] - g[n - 1] <= f[n] - f[n - 1]
  <2> TAKE n \in 1..c
  <2>1. CASE n = i
    BY <1>8, <1>9, <1>10, <2>1
  <2>2. CASE n # i
    BY <1>8, <1>10, <2>2 DEF c
  <2>. QED  BY <2>1, <2>2
<1>12. g[i] - g[i - 1] < f[i] - f[i - 1]
  BY <1>9, <1>10
<1>13. g[c] < f[c]
  BY <1>2, <1>6, <1>9, <1>11, <1>12, SumsLess
<1>14. g[c] \in Nat /\ f[c] \in Nat
  BY <1>2, <1>6
<1>. QED  BY <1>3, <1>4, <1>5, <1>13, <1>14

(* The longer side without its last byte is closer. *)
LEMMA TrimCloser ==
  ASSUME NEW a \in Seq(Letters), NEW b \in Seq(Letters),
         NEW x \in Seq(Letters), NEW y \in Seq(Letters),
         Common(x, y) = Common(a, b),
         \A n \in 1..Common(a, b) : x[n] = a[n] /\ y[n] = b[n],
         Gap(Len(x), Len(y)) < Gap(Len(a), Len(b))
  PROVE  Distance(x, y) < Distance(a, b)
<1> DEFINE c == Common(a, b)
           p == Gap(Len(x), Len(y))
           q == Gap(Len(a), Len(b))
<1>1. a \in Seq(Nat) /\ b \in Seq(Nat) /\ x \in Seq(Nat) /\ y \in Seq(Nat)
  BY InputType
<1>2. c \in Nat /\ p \in Nat /\ q \in Nat /\ p < q
  <2>1. Len(a) \in Nat /\ Len(b) \in Nat /\ Len(x) \in Nat /\ Len(y) \in Nat
    BY <1>1
  <2>. QED  BY <2>1, CommonLength, GapType
<1>3. PICK f : SumsOf(f, a, b) /\ Distance(a, b) = f[c] + LengthWeight * q
  BY <1>1, DistanceIsSum
<1>4. PICK g : SumsOf(g, x, y) /\ Distance(x, y) = g[c] + LengthWeight * p
  BY <1>1, DistanceIsSum
<1> HIDE DEF c, p, q
<1>5. /\ f \in [0..c -> Nat] /\ f[0] = 0 /\ g \in [0..c -> Nat] /\ g[0] = 0
      /\ \A n \in 1..c : f[n] = f[n - 1] + Gap(a[n], b[n])
      /\ \A n \in 1..c : g[n] = g[n - 1] + Gap(a[n], b[n])
  BY <1>3, <1>4 DEF SumsOf, c
<1>6. f[c] = g[c]
  <2> SUFFICES ASSUME f[c] # g[c] PROVE FALSE
    OBVIOUS
  <2> DEFINE T == {n \in 0..c : f[n] # g[n]}
  <2>1. PICK k \in T : \A j \in T : k <= j
    <3>1. T \subseteq Nat /\ c \in T
      BY <1>2
    <3> HIDE DEF T
    <3>. QED  BY <3>1, Smallest
  <2>2. k # 0
    BY <1>5, <2>1
  <2>3. f[k - 1] = g[k - 1] /\ k \in 1..c
    BY <1>2, <2>1, <2>2
  <2>. QED  BY <1>5, <2>1, <2>3
<1>7. LengthWeight * p < LengthWeight * q /\ LengthWeight * p \in Nat /\ LengthWeight * q \in Nat
  <2>1. \A u, v, t \in Nat : t > 0 /\ u < v => t * u < t * v /\ t * u \in Nat /\ t * v \in Nat
    <3> SUFFICES ASSUME NEW u \in Nat, NEW v \in Nat, NEW t \in Nat, t > 0, u < v
                 PROVE  t * u < t * v /\ t * u \in Nat /\ t * v \in Nat
      OBVIOUS
    <3>1. t * (v - u) > 0
      <4> DEFINE e == v - u
      <4>1. e \in Nat /\ e > 0
        OBVIOUS
      <4> HIDE DEF e
      <4>2. t * e > 0
        BY <4>1
      <4>. QED  BY <4>2 DEF e
    <3>2. t * (v - u) = t * v - t * u
      OBVIOUS
    <3>3. t * u \in Nat /\ t * v \in Nat
      OBVIOUS
    <3>. QED  BY <3>1, <3>2, <3>3
  <2>. QED  BY <1>2, <2>1, InputsAssumption
<1>8. g[c] \in Nat
  BY <1>2, <1>5
<1>. QED  BY <1>3, <1>4, <1>6, <1>7, <1>8

-----------------------------------------------------------------------------
(* The commands and the progress they make. *)

PairTask ==
  [cmd : {"check", "sweep", "failed"}, dies : Targets2, max : Nat, tries : Nat,
   l : Seq(Letters), r : Seq(Letters)]
DeleteTask ==
  [cmd : {"delete"}, dies : Targets1, max : Nat, tries : {0},
   l : Seq(Letters), r : Seq(Letters)]
SelectTask == [cmd : {"select"}, corpus : Corpora]
Positions == [i : Nat \ {0}, side : {"left", "right", "end"}]

Shorter(a, b) == IF Len(a) > Len(b) THEN <<Front(a), b>> ELSE <<a, Front(b)>>

(* The moves of the sweep before p have been tried on the pair a, b.       *)
Tried(d, a, b, p) ==
  /\ \A j \in 1..Common(a, b) : j < p.i /\ a[j] # b[j] =>
       /\ [a EXCEPT ![j] = b[j]] \in d \/ b \notin d
       /\ a \in d \/ [b EXCEPT ![j] = a[j]] \notin d
  /\ p.side = "right" => [a EXCEPT ![p.i] = b[p.i]] \in d \/ b \notin d
  /\ p.side = "end" =>
       /\ p.i = Common(a, b) + 1
       /\ Len(a) # Len(b) => Shorter(a, b)[1] \in d \/ Shorter(a, b)[2] \notin d

SweepInv ==
  /\ IsPair(left, right)
  /\ Distance(left, right) <= Distance(task.l, task.r)
  /\ tries < task.tries => Tried(task.dies, left, right, pos)

DeleteInv ==
  /\ task.r \in task.dies => right \in task.dies
  /\ used < task.max /\ ~moved =>
       \A i \in 1..Len(right) : i < pos.i => RemoveAt(right, i) \notin task.dies

SelectInv ==
  /\ chosen \subseteq DOMAIN task.corpus
  /\ covered = FeaturesOf(chosen, task.corpus) /\ IsFiniteSet(covered)
  /\ Cardinality(chosen) <= Cardinality(covered)

MinTypes ==
  /\ task \in {NoTask} \cup PairTask \cup DeleteTask \cup SelectTask
  /\ left \in Seq(Letters) /\ right \in Seq(Letters) /\ pos \in Positions
  /\ used \in Nat /\ tries \in Nat

Underway ==
  saved = NotSaved =>
    /\ task.cmd = "check" => left = task.l /\ right = task.r /\ pos = First
    /\ task.cmd = "sweep" => SweepInv
    /\ task.cmd = "delete" => DeleteInv
    /\ task.cmd = "select" => SelectInv

MinInv == MinTypes /\ Underway /\ MinimizedKeeps

(* As long as nothing is saved there is nothing to keep.                   *)
LEMMA NothingSaved == saved = NotSaved => MinimizedKeeps
BY DEF NotSaved, MinimizedKeeps, DistinctionKept, DeathKept, CoverageKept, Saved

(* So too after a step that saves nothing.                                 *)
LEMMA NothingSavedYet ==
  ASSUME saved' = NotSaved
  PROVE  MinimizedKeeps'
BY DEF NotSaved, MinimizedKeeps, DistinctionKept, DeathKept, CoverageKept, Saved

(* What the name of a command says of the task.                            *)
LEMMA CommandOf ==
  ASSUME MinTypes
  PROVE  /\ task.cmd \in {"check", "sweep", "failed"} => task \in PairTask
         /\ task.cmd = "delete" => task \in DeleteTask
         /\ task.cmd = "select" => task \in SelectTask
         /\ task.cmd \in {"none", "check", "sweep", "failed", "delete", "select"}
         /\ task.cmd = "none" => task = NoTask
BY DEF MinTypes, NoTask, PairTask, DeleteTask, SelectTask

(* The invariant holds initially.                                          *)
LEMMA MinInitInv == MinInit => MinInv
<1> SUFFICES ASSUME MinInit PROVE MinInv
  OBVIOUS
<1>1. MinTypes
  BY DEF MinInit, MinTypes, First, Positions
<1>2. Underway
  BY DEF MinInit, Underway, NoTask
<1>. QED  BY <1>1, <1>2, NothingSaved DEF MinInit, MinInv

(* The budget left is never below 0.                                       *)
LEMMA MostOfTwo ==
  ASSUME NEW x \in Int
  PROVE  Max({0, x}) \in Nat
<1> DEFINE m == IF x > 0 THEN x ELSE 0
<1>1. m \in {0, x} /\ \A y \in {0, x} : m >= y
  OBVIOUS
<1>2. \A z \in {0, x} : (\A y \in {0, x} : z >= y) => z = m
  OBVIOUS
<1>3. Max({0, x}) = m
  BY <1>1, <1>2 DEF Max
<1>. QED  BY <1>3

(* The least of two numbers.                                               *)
LEMMA LeastOfTwo ==
  ASSUME NEW x \in Int, NEW y \in Int
  PROVE  Min({x, y}) = IF x <= y THEN x ELSE y
<1> DEFINE m == IF x <= y THEN x ELSE y
<1>1. m \in {x, y} /\ \A z \in {x, y} : m <= z
  OBVIOUS
<1>2. \A w \in {x, y} : (\A z \in {x, y} : w <= z) => w = m
  OBVIOUS
<1>. QED  BY <1>1, <1>2 DEF Min

(* What classify answers, and what it takes. *)
LEMMA Classified ==
  ASSUME MinTypes, task \in PairTask, NEW l \in Seq(Letters), NEW r \in Seq(Letters)
  PROVE  /\ Classify(l, r).used \in Nat /\ Classify(l, r).ends \in {"yes", "no", "error"}
         /\ Classify(l, r).ends = "yes" => IsPair(l, r)
         /\ Classify(l, r).ends = "no" => ~IsPair(l, r)
<1>1. used \in Nat /\ task.max \in Nat
  BY DEF MinTypes, PairTask
<1>. QED  BY <1>1 DEF Classify, Kills, IsPair

(* So too verify_budget, of a pair that is closer.                         *)
LEMMA Verified ==
  ASSUME MinTypes, task \in PairTask, NEW l \in Seq(Letters), NEW r \in Seq(Letters),
         Distance(l, r) < Distance(left, right)
  PROVE  /\ VerifyBudget(l, r).used \in Nat /\ VerifyBudget(l, r).tried \in {0, 1}
         /\ VerifyBudget(l, r).ends \in {"yes", "no", "error"}
         /\ VerifyBudget(l, r).ends = "yes" => IsPair(l, r)
         /\ VerifyBudget(l, r).ends = "no" /\ tries < task.tries => ~IsPair(l, r)
<1>1. used \in Nat /\ tries \in Nat /\ task.tries \in Nat
  BY DEF MinTypes, PairTask
<1>2. Distance(l, r) \in Nat /\ Distance(left, right) \in Nat
  BY DistanceType DEF MinTypes
<1>3. ~(Distance(l, r) >= Distance(left, right))
  BY <1>2
<1>4. CASE tries >= task.tries
  BY <1>1, <1>4 DEF VerifyBudget
<1>5. CASE ~(tries >= task.tries)
  BY <1>1, <1>3, <1>5, Classified DEF VerifyBudget
<1>. QED  BY <1>4, <1>5

(* A move that fails adds to what was tried, one that is kept starts anew. *)
LEMMA MoveKeepsInv ==
  ASSUME MinInv, Running("sweep"),
         NEW l \in Seq(Letters), NEW r \in Seq(Letters), NEW next \in Positions,
         Distance(l, r) < Distance(left, right), Move(l, r, next),
         ~IsPair(l, r) /\ tries < task.tries => Tried(task.dies, left, right, next)
  PROVE  MinInv'
<1>1. task \in PairTask /\ task.cmd = "sweep" /\ saved = NotSaved /\ MinTypes /\ SweepInv
  BY CommandOf DEF MinInv, Running, Underway
<1> DEFINE v == VerifyBudget(l, r)
<1>2. /\ v.used \in Nat /\ v.tried \in {0, 1} /\ v.ends \in {"yes", "no", "error"}
      /\ v.ends = "yes" => IsPair(l, r)
      /\ v.ends = "no" /\ tries < task.tries => ~IsPair(l, r)
  BY <1>1, Verified
<1>3. /\ used' = v.used /\ tries' = tries + v.tried /\ saved' = saved
      /\ IF v.ends = "yes" THEN left' = l /\ right' = r /\ pos' = First
                           ELSE pos' = next /\ left' = left /\ right' = right
      /\ IF v.ends = "error" THEN task' = [task EXCEPT !.cmd = "failed"] ELSE task' = task
  BY DEF Move, Fail
<1> HIDE DEF v
<1>4. First \in Positions
  BY DEF First, Positions
<1>5. tries \in Nat /\ task.tries \in Nat /\ tries' \in Nat /\ tries <= tries'
  BY <1>1, <1>2, <1>3 DEF MinTypes, PairTask
<1>6. task' \in PairTask /\ (v.ends = "error" => task'.cmd = "failed") /\ (v.ends # "error" => task' = task)
  BY <1>1, <1>3 DEF PairTask
<1>7. MinTypes'
  <2>1. left' \in Seq(Letters) /\ right' \in Seq(Letters) /\ pos' \in Positions
    BY <1>1, <1>3, <1>4 DEF MinTypes
  <2>2. used' \in Nat
    BY <1>2, <1>3
  <2>. QED  BY <1>5, <1>6, <2>1, <2>2 DEF MinTypes
<1>8. CASE v.ends = "error"
  <2>1. Underway'
    BY <1>6, <1>8 DEF Underway
  <2>. QED  BY <1>1, <1>3, <1>7, <2>1, NothingSavedYet DEF MinInv
<1>9. CASE v.ends = "yes"
  <2>1. task' = task /\ left' = l /\ right' = r /\ pos' = First
    BY <1>3, <1>6, <1>9
  <2>2. IsPair(l, r)'
    BY <1>2, <1>9, <2>1 DEF IsPair
  <2>3. Distance(l, r) <= Distance(task.l, task.r)
    <3>1. task.l \in Seq(Letters) /\ task.r \in Seq(Letters) /\ left \in Seq(Letters) /\ right \in Seq(Letters)
      BY <1>1 DEF PairTask, MinTypes
    <3>2. Distance(l, r) \in Nat /\ Distance(left, right) \in Nat /\ Distance(task.l, task.r) \in Nat
      BY <3>1, DistanceType
    <3>. QED  BY <1>1, <3>2 DEF SweepInv
  <2>4. Tried(task.dies, l, r, First)
    <3>1. First.i = 1 /\ First.side = "left" /\ \A j \in 1..Common(l, r) : ~(j < 1)
      BY DEF First
    <3>. QED  BY <3>1 DEF Tried
  <2>5. SweepInv'
    BY <2>1, <2>2, <2>3, <2>4 DEF SweepInv, IsPair
  <2>6. Underway'
    BY <1>1, <2>1, <2>5 DEF Underway
  <2>. QED  BY <1>1, <1>3, <1>7, <2>6, NothingSavedYet DEF MinInv
<1>10. CASE v.ends = "no"
  <2>1. task' = task /\ left' = left /\ right' = right /\ pos' = next
    BY <1>3, <1>6, <1>10
  <2>2. tries' < task.tries => tries < task.tries
    BY <1>5
  <2>3. tries' < task'.tries => Tried(task.dies, left, right, next)
    BY <1>2, <1>10, <2>1, <2>2
  <2>4. SweepInv'
    BY <1>1, <2>1, <2>3 DEF SweepInv, IsPair
  <2>5. Underway'
    BY <1>1, <2>1, <2>4 DEF Underway
  <2>. QED  BY <1>1, <1>3, <1>7, <2>5, NothingSavedYet DEF MinInv
<1>. QED  BY <1>2, <1>8, <1>9, <1>10

(* Every command starts with nothing tried.                                *)
LEMMA CommandKeepsInv ==
  ASSUME MinInv
  PROVE  /\ \A dies \in Targets2, max \in MaxVerify, l, r \in Inputs2 :
              CmdBoundary(dies, l, r, max) => MinInv'
         /\ \A dies \in Targets1, max \in MaxVerify, x \in Inputs1 :
              CmdTmin(dies, x, max) => MinInv'
         /\ \A corpus \in Corpora : CmdCmin(corpus) => MinInv'
<1>0. First \in Positions /\ First.i = 1
  BY DEF First, Positions
<1>1. ASSUME NEW dies \in Targets2, NEW max \in MaxVerify, NEW l \in Inputs2, NEW r \in Inputs2,
             CmdBoundary(dies, l, r, max)
      PROVE  MinInv'
  <2>1. max \in Nat /\ l \in Seq(Letters) /\ r \in Seq(Letters)
    BY InputsAssumption
  <2> DEFINE c == [cmd |-> "check", dies |-> dies, max |-> max, tries |-> 0, l |-> l, r |-> r]
  <2>2. /\ task' = c /\ left' = l /\ right' = r /\ pos' = First
        /\ tries' = 0 /\ used' = 0 /\ saved' = NotSaved
    BY <1>1 DEF CmdBoundary, Begin
  <2>3. c \in PairTask /\ c.cmd = "check" /\ c.l = l /\ c.r = r
    BY <2>1 DEF PairTask
  <2> HIDE DEF c
  <2>4. MinTypes'
    BY <1>0, <2>1, <2>2, <2>3 DEF MinTypes
  <2>5. Underway'
    BY <2>2, <2>3 DEF Underway
  <2>. QED  BY <2>2, <2>4, <2>5, NothingSavedYet DEF MinInv
<1>2. ASSUME NEW dies \in Targets1, NEW max \in MaxVerify, NEW x \in Inputs1, CmdTmin(dies, x, max)
      PROVE  MinInv'
  <2>1. max \in Nat /\ x \in Seq(Letters) /\ <<>> \in Seq(Letters)
    BY InputsAssumption
  <2> DEFINE c == [cmd |-> "delete", dies |-> dies, max |-> max, tries |-> 0, l |-> <<>>, r |-> x]
             y == IF max > 0 /\ <<>> \in dies THEN <<>> ELSE x
  <2>2. /\ task' = c /\ left' = <<>> /\ right' = y /\ pos' = First /\ moved' = FALSE
        /\ tries' = 0 /\ used' = Min({1, max}) /\ saved' = NotSaved
    BY <1>2 DEF CmdTmin, Begin
  <2>3. c \in DeleteTask /\ c.cmd = "delete" /\ c.r = x /\ c.dies = dies
    BY <2>1 DEF DeleteTask
  <2>4. y \in Seq(Letters) /\ (x \in dies => y \in dies)
    BY <2>1
  <2>5. Min({1, max}) \in Nat
    BY <2>1, LeastOfTwo
  <2> HIDE DEF c, y
  <2>6. MinTypes'
    BY <1>0, <2>1, <2>2, <2>3, <2>4, <2>5 DEF MinTypes
  <2>7. DeleteInv'
    <3>1. \A i \in 1..Len(y) : ~(i < First.i)
      BY <1>0
    <3>. QED  BY <2>2, <2>3, <2>4, <3>1 DEF DeleteInv
  <2>8. Underway'
    BY <2>2, <2>3, <2>7 DEF Underway
  <2>. QED  BY <2>2, <2>6, <2>8, NothingSavedYet DEF MinInv
<1>3. ASSUME NEW corpus \in Corpora, CmdCmin(corpus) PROVE MinInv'
  <2> DEFINE c == [cmd |-> "select", corpus |-> corpus]
  <2>1. /\ task' = c /\ covered' = {} /\ chosen' = {} /\ saved' = NotSaved
        /\ left' = left /\ right' = right /\ pos' = pos /\ used' = used /\ tries' = tries
    BY <1>3 DEF CmdCmin
  <2>2. c \in SelectTask /\ c.cmd = "select" /\ c.corpus = corpus
    BY DEF SelectTask
  <2> HIDE DEF c
  <2>3. MinTypes'
    BY <2>1, <2>2 DEF MinInv, MinTypes
  <2>4. SelectInv'
    <3>1. FeaturesOf({}, corpus) = {}
      BY DEF FeaturesOf
    <3>. QED  BY <2>1, <2>2, <3>1, FS_EmptySet DEF SelectInv
  <2>5. Underway'
    BY <2>1, <2>2, <2>4 DEF Underway
  <2>. QED  BY <2>1, <2>3, <2>5, NothingSavedYet DEF MinInv
<1>. QED  BY <1>1, <1>2, <1>3

(* The pair that is swept has been checked to be one.                      *)
LEMMA CheckKeepsInv ==
  ASSUME MinInv, CheckPair
  PROVE  MinInv'
<1>1. /\ task \in PairTask /\ task.cmd = "check" /\ saved = NotSaved /\ MinTypes
      /\ left = task.l /\ right = task.r /\ pos = First
  BY CommandOf DEF MinInv, CheckPair, Running, Underway
<1> DEFINE c == Classify(left, right)
<1>2. c.used \in Nat /\ c.ends \in {"yes", "no", "error"} /\ (c.ends = "yes" => IsPair(left, right))
  BY <1>1, Classified DEF MinTypes
<1>3. /\ used' = c.used
      /\ IF c.ends = "yes"
           THEN task' = [task EXCEPT !.cmd = "sweep", !.tries = Max({0, task.max - c.used})]
           ELSE task' = [task EXCEPT !.cmd = "failed"]
      /\ left' = left /\ right' = right /\ pos' = pos /\ tries' = tries /\ saved' = saved
  BY DEF CheckPair, Fail
<1> HIDE DEF c
<1>4. Max({0, task.max - c.used}) \in Nat
  BY <1>1, <1>2, MostOfTwo DEF PairTask
<1>5. /\ task' \in PairTask /\ task'.dies = task.dies /\ task'.l = task.l /\ task'.r = task.r
      /\ task'.cmd = IF c.ends = "yes" THEN "sweep" ELSE "failed"
  <2>1. CASE c.ends = "yes"
    BY <1>1, <1>3, <1>4, <2>1 DEF PairTask
  <2>2. CASE c.ends # "yes"
    BY <1>1, <1>3, <2>2 DEF PairTask
  <2>. QED  BY <2>1, <2>2
<1>6. MinTypes'
  BY <1>1, <1>2, <1>3, <1>5 DEF MinTypes
<1>7. c.ends = "yes" => SweepInv'
  <2> SUFFICES ASSUME c.ends = "yes" PROVE SweepInv'
    OBVIOUS
  <2>1. IsPair(left, right)'
    BY <1>2, <1>3, <1>5 DEF IsPair
  <2>2. Distance(left, right) <= Distance(task.l, task.r)
    BY <1>1, DistanceType DEF MinTypes
  <2>3. Tried(task.dies, left, right, First)
    <3>1. First.i = 1 /\ First.side = "left" /\ \A j \in 1..Common(left, right) : ~(j < 1)
      BY DEF First
    <3>. QED  BY <3>1 DEF Tried
  <2>. QED  BY <1>1, <1>3, <1>5, <2>1, <2>2, <2>3 DEF SweepInv
<1>8. Underway'
  BY <1>1, <1>3, <1>5, <1>7 DEF Underway
<1>. QED  BY <1>1, <1>3, <1>6, <1>8, NothingSavedYet DEF MinInv


(* A kept byte is passed over: nothing is to be tried there.               *)
LEMMA SkipKeepsInv ==
  ASSUME MinInv, SkipByte
  PROVE  MinInv'
<1>1. /\ task \in PairTask /\ task.cmd = "sweep" /\ saved = NotSaved /\ MinTypes /\ SweepInv
      /\ left[pos.i] = right[pos.i]
  BY CommandOf DEF MinInv, SkipByte, Sweeping, Running, Underway
<1> DEFINE q == [i |-> pos.i + 1, side |-> "left"]
<1>2. /\ pos' = q /\ task' = task /\ left' = left /\ right' = right /\ used' = used
      /\ tries' = tries /\ saved' = saved
  BY DEF SkipByte
<1>3. q \in Positions /\ q.i = pos.i + 1 /\ q.side = "left" /\ pos.i \in Nat
  BY <1>1 DEF MinTypes, Positions
<1> HIDE DEF q
<1>4. tries < task.tries => Tried(task.dies, left, right, q)
  <2> SUFFICES ASSUME tries < task.tries PROVE Tried(task.dies, left, right, q)
    OBVIOUS
  <2>1. Tried(task.dies, left, right, pos)
    BY <1>1 DEF SweepInv
  <2>2. \A j \in 1..Common(left, right) : j < q.i /\ left[j] # right[j] => j < pos.i
    BY <1>1, <1>3
  <2>. QED  BY <1>3, <2>1, <2>2 DEF Tried
<1>5. SweepInv'
  BY <1>1, <1>2, <1>4 DEF SweepInv, IsPair
<1>6. MinTypes'
  BY <1>1, <1>2, <1>3 DEF MinTypes
<1>7. Underway'
  BY <1>1, <1>2, <1>5 DEF Underway
<1>. QED  BY <1>1, <1>2, <1>6, <1>7, NothingSavedYet DEF MinInv

(* At a byte that differs: a move may come closer, and where it leads.     *)
LEMMA ByteMoves ==
  ASSUME MinInv, Sweeping, left[pos.i] # right[pos.i]
  PROVE  /\ [left EXCEPT ![pos.i] = right[pos.i]] \in Seq(Letters)
         /\ [right EXCEPT ![pos.i] = left[pos.i]] \in Seq(Letters)
         /\ Distance([left EXCEPT ![pos.i] = right[pos.i]], right) < Distance(left, right)
         /\ Distance(left, [right EXCEPT ![pos.i] = left[pos.i]]) < Distance(left, right)
<1>1. left \in Seq(Letters) /\ right \in Seq(Letters) /\ pos.i \in Nat \ {0}
      /\ pos.i <= Common(left, right)
  BY DEF MinInv, MinTypes, Sweeping, Positions
<1>2. /\ Common(left, right) \in Nat /\ Common(left, right) <= Len(left) /\ Common(left, right) <= Len(right)
      /\ Len(left) \in Nat /\ Len(right) \in Nat
  BY <1>1, CommonLength
<1>3. pos.i \in 1..Common(left, right) /\ pos.i \in 1..Len(left) /\ pos.i \in 1..Len(right)
  BY <1>1, <1>2
<1>4. left[pos.i] \in Letters /\ right[pos.i] \in Letters
  BY <1>1, <1>3
<1> DEFINE l == [left EXCEPT ![pos.i] = right[pos.i]]
           r == [right EXCEPT ![pos.i] = left[pos.i]]
<1>5. l \in Seq(Letters) /\ Len(l) = Len(left) /\ l[pos.i] = right[pos.i]
      /\ \A n \in 1..Common(left, right) : n # pos.i => l[n] = left[n]
  BY <1>1, <1>2, <1>3, <1>4
<1>6. r \in Seq(Letters) /\ Len(r) = Len(right) /\ r[pos.i] = left[pos.i]
      /\ \A n \in 1..Common(left, right) : n # pos.i => r[n] = right[n]
  BY <1>1, <1>2, <1>3, <1>4
<1> HIDE DEF l, r
<1>7. Distance(l, right) < Distance(left, right)
  BY <1>1, <1>3, <1>5, ByteMoveCloser
<1>8. Distance(left, r) < Distance(left, right)
  BY <1>1, <1>3, <1>6, ByteMoveCloser
<1>. QED  BY <1>5, <1>6, <1>7, <1>8 DEF l, r

(* The moves of the sweep keep the invariant.                              *)
LEMMA LeftMoveKeepsInv ==
  ASSUME MinInv, LeftTowardRight
  PROVE  MinInv'
<1>1. /\ Running("sweep") /\ Sweeping /\ left[pos.i] # right[pos.i] /\ pos.side = "left"
      /\ Move([left EXCEPT ![pos.i] = right[pos.i]], right, Beyond(pos))
  BY DEF LeftTowardRight, Sweeping
<1> DEFINE l == [left EXCEPT ![pos.i] = right[pos.i]]
           q == Beyond(pos)
<1>2. l \in Seq(Letters) /\ right \in Seq(Letters) /\ Distance(l, right) < Distance(left, right)
  BY <1>1, ByteMoves DEF MinInv, MinTypes
<1>3. q \in Positions /\ q.i = pos.i /\ q.side = "right" /\ pos.i \in Nat
  BY <1>1 DEF MinInv, MinTypes, Positions, Beyond
<1>4. ~IsPair(l, right) /\ tries < task.tries => Tried(task.dies, left, right, q)
  <2> SUFFICES ASSUME ~IsPair(l, right), tries < task.tries
               PROVE  Tried(task.dies, left, right, q)
    OBVIOUS
  <2>1. Tried(task.dies, left, right, pos)
    BY <1>1 DEF MinInv, Underway, Running, SweepInv
  <2>. QED  BY <1>3, <2>1 DEF Tried, IsPair
<1>5. Move(l, right, q)
  BY <1>1
<1> HIDE DEF l, q
<1>. QED  BY <1>1, <1>2, <1>3, <1>4, <1>5, MoveKeepsInv

(* As on the left, so on the right.                                        *)
LEMMA RightMoveKeepsInv ==
  ASSUME MinInv, RightTowardLeft
  PROVE  MinInv'
<1>1. /\ Running("sweep") /\ Sweeping /\ left[pos.i] # right[pos.i] /\ pos.side = "right"
      /\ Move(left, [right EXCEPT ![pos.i] = left[pos.i]], Beyond(pos))
  BY DEF RightTowardLeft, Sweeping
<1> DEFINE r == [right EXCEPT ![pos.i] = left[pos.i]]
           q == Beyond(pos)
<1>2. left \in Seq(Letters) /\ r \in Seq(Letters) /\ Distance(left, r) < Distance(left, right)
  BY <1>1, ByteMoves DEF MinInv, MinTypes
<1>3. q \in Positions /\ q.i = pos.i + 1 /\ q.side = "left" /\ pos.i \in Nat
  BY <1>1 DEF MinInv, MinTypes, Positions, Beyond
<1>4. ~IsPair(left, r) /\ tries < task.tries => Tried(task.dies, left, right, q)
  <2> SUFFICES ASSUME ~IsPair(left, r), tries < task.tries
               PROVE  Tried(task.dies, left, right, q)
    OBVIOUS
  <2>1. Tried(task.dies, left, right, pos)
    BY <1>1 DEF MinInv, Underway, Running, SweepInv
  <2>2. \A j \in 1..Common(left, right) : j < q.i => j < pos.i \/ j = pos.i
    BY <1>3
  <2>. QED  BY <1>1, <1>3, <2>1, <2>2 DEF Tried, IsPair
<1>5. Move(left, r, q)
  BY <1>1
<1> HIDE DEF r, q
<1>. QED  BY <1>1, <1>2, <1>3, <1>4, <1>5, MoveKeepsInv

(* An input without its last byte.                                         *)
LEMMA FrontType ==
  ASSUME NEW a \in Seq(Letters), Len(a) # 0
  PROVE  /\ Front(a) \in Seq(Letters) /\ Len(Front(a)) = Len(a) - 1
         /\ \A n \in 1..(Len(a) - 1) : Front(a)[n] = a[n]
<1> DEFINE m == Len(a) - 1
<1>1. m \in Nat /\ Len(a) \in Nat /\ m + 1 = Len(a)
  OBVIOUS
<1>2. \A n \in 1..m : a[n] \in Letters
  OBVIOUS
<1> HIDE DEF m
<1>3. SubSeq(a, 1, m) \in Seq(Letters) /\ Len(SubSeq(a, 1, m)) = m
  BY <1>1, <1>2
<1>4. \A n \in 1..m : SubSeq(a, 1, m)[n] = a[n]
  BY <1>1
<1>. QED  BY <1>3, <1>4 DEF Front, m

(* The longer side's tail is the last move.                                *)
LEMMA TrimKeepsInv ==
  ASSUME MinInv, TrimTail
  PROVE  MinInv'
<1>1. /\ Running("sweep") /\ pos.i > Common(left, right) /\ pos.side # "end" /\ Len(left) # Len(right)
      /\ IF Len(left) > Len(right) THEN Move(Front(left), right, AtEnd)
                                   ELSE Move(left, Front(right), AtEnd)
      /\ left \in Seq(Letters) /\ right \in Seq(Letters)
  BY DEF TrimTail, Swept, MinInv, MinTypes
<1>2. /\ Common(left, right) = IF Len(left) <= Len(right) THEN Len(left) ELSE Len(right)
      /\ Common(left, right) \in Nat /\ Len(left) \in Nat /\ Len(right) \in Nat /\ pos.i \in Nat
  BY <1>1, CommonLength DEF MinInv, MinTypes, Positions
<1>3. AtEnd \in Positions /\ AtEnd.i = Common(left, right) + 1 /\ AtEnd.side = "end"
  BY <1>2 DEF AtEnd, Positions
<1>4. ASSUME NEW l, NEW r, <<l, r>> = Shorter(left, right), ~IsPair(l, r), tries < task.tries
      PROVE  Tried(task.dies, left, right, AtEnd)
  <2>1. Tried(task.dies, left, right, pos)
    BY <1>1, <1>4 DEF MinInv, Underway, Running, SweepInv
  <2>2. \A j \in 1..Common(left, right) : j < pos.i
    BY <1>1, <1>2
  <2>3. Shorter(left, right)[1] \in task.dies \/ Shorter(left, right)[2] \notin task.dies
    BY <1>4 DEF IsPair
  <2>. QED  BY <1>3, <2>1, <2>2, <2>3 DEF Tried
<1>5. CASE Len(left) > Len(right)
  <2> DEFINE l == Front(left)
  <2>1. /\ l \in Seq(Letters) /\ Len(l) = Len(left) - 1
        /\ \A n \in 1..Len(right) : l[n] = left[n]
    BY <1>1, <1>2, <1>5, FrontType
  <2>2. <<l, right>> = Shorter(left, right)
    BY <1>5 DEF Shorter
  <2>3. Move(l, right, AtEnd)
    BY <1>1, <1>5
  <2> HIDE DEF l
  <2>4. Common(l, right) = Len(right) /\ Common(left, right) = Len(right)
    BY <1>2, <1>5, <2>1, CommonLength
  <2>5. Gap(Len(l), Len(right)) < Gap(Len(left), Len(right))
    BY <1>2, <1>5, <2>1 DEF Gap
  <2>6. Distance(l, right) < Distance(left, right)
    BY <1>1, <2>1, <2>4, <2>5, TrimCloser
  <2>7. ~IsPair(l, right) /\ tries < task.tries => Tried(task.dies, left, right, AtEnd)
    BY <1>4, <2>2
  <2>. QED  BY <1>1, <1>3, <2>1, <2>3, <2>6, <2>7, MoveKeepsInv
<1>6. CASE ~(Len(left) > Len(right))
  <2> DEFINE r == Front(right)
  <2>1. /\ r \in Seq(Letters) /\ Len(r) = Len(right) - 1
        /\ \A n \in 1..Len(left) : r[n] = right[n]
    BY <1>1, <1>2, <1>6, FrontType
  <2>2. <<left, r>> = Shorter(left, right)
    BY <1>6 DEF Shorter
  <2>3. Move(left, r, AtEnd)
    BY <1>1, <1>6
  <2> HIDE DEF r
  <2>4. Common(left, r) = Len(left) /\ Common(left, right) = Len(left)
    BY <1>1, <1>2, <1>6, <2>1, CommonLength
  <2>5. Gap(Len(left), Len(r)) < Gap(Len(left), Len(right))
    BY <1>1, <1>2, <1>6, <2>1 DEF Gap
  <2>6. Distance(left, r) < Distance(left, right)
    BY <1>1, <2>1, <2>4, <2>5, TrimCloser
  <2>7. ~IsPair(left, r) /\ tries < task.tries => Tried(task.dies, left, right, AtEnd)
    BY <1>4, <2>2
  <2>. QED  BY <1>1, <1>3, <2>1, <2>3, <2>6, <2>7, MoveKeepsInv
<1>. QED  BY <1>5, <1>6


(* Where the sweep ends, no move is left that was not tried.               *)
LEMMA NoMoveLeft ==
  ASSUME MinInv, Converged, tries < task.tries, NEW p \in MovesOf(left, right)
  PROVE  ~IsPair(p[1], p[2])
<1> DEFINE c == Common(left, right)
<1>1. /\ Tried(task.dies, left, right, pos) /\ left \in Seq(Letters) /\ right \in Seq(Letters)
      /\ pos \in Positions
  BY DEF Converged, Running, MinInv, MinTypes, Underway, SweepInv
<1>2. c \in Nat /\ pos.i \in Nat /\ Len(left) \in Nat /\ Len(right) \in Nat
  BY <1>1, CommonLength DEF Positions
<1>3. \A j \in 1..c : j < pos.i
  <2>1. pos.i > c
    BY <1>1, <1>2 DEF Converged, Swept, Tried
  <2>. QED  BY <1>2, <2>1
<1>4. ASSUME NEW j \in 1..c, left[j] # right[j], p = <<[left EXCEPT ![j] = right[j]], right>>
      PROVE  ~IsPair(p[1], p[2])
  BY <1>1, <1>3, <1>4 DEF Tried, IsPair
<1>5. ASSUME NEW j \in 1..c, left[j] # right[j], p = <<left, [right EXCEPT ![j] = left[j]]>>
      PROVE  ~IsPair(p[1], p[2])
  BY <1>1, <1>3, <1>5 DEF Tried, IsPair
<1>6. ASSUME Len(left) # Len(right), p = Shorter(left, right)
      PROVE  ~IsPair(p[1], p[2])
  <2>1. pos.side = "end"
    BY <1>6 DEF Converged
  <2>. QED  BY <1>1, <1>6, <2>1 DEF Tried, IsPair
<1>7. \/ \E j \in 1..c : left[j] # right[j] /\ p = <<[left EXCEPT ![j] = right[j]], right>>
      \/ \E j \in 1..c : left[j] # right[j] /\ p = <<left, [right EXCEPT ![j] = left[j]]>>
      \/ Len(left) # Len(right) /\ p = Shorter(left, right)
  BY <1>2 DEF MovesOf, Shorter
<1>. QED  BY <1>4, <1>5, <1>6, <1>7

(* A tape of either side replays, by both comparisons.                     *)
LEMMA TapesReplay ==
  ASSUME NEW t, \/ t = TapeOf(left, "Ok") /\ left \notin task.dies
                \/ t = TapeOf(right, "Crash") /\ right \in task.dies
  PROVE  /\ ReplayTape(t, LiveOf(t.candidate)) # "Diverged"
         /\ CompareState(t, StateOf(t, LiveOf(t.candidate))) = ReplayTape(t, LiveOf(t.candidate))
<1>1. CASE t = TapeOf(left, "Ok") /\ left \notin task.dies
  <2>1. t.termination = "Ok" /\ t.observation = "none" /\ ~LiveOf(t.candidate).died
    <3>1. t.termination = "Ok" /\ t.observation = "none" /\ t.candidate = left
      BY <1>1 DEF TapeOf
    <3>2. LiveOf(left).died <=> left \in task.dies
      BY DEF LiveOf
    <3>. QED  BY <1>1, <3>1, <3>2
  <2>2. StateOf(t, LiveOf(t.candidate)).termination = "Ok"
    BY <2>1 DEF StateOf
  <2>3. ReplayTape(t, LiveOf(t.candidate)) = "Matches"
    BY <2>1 DEF ReplayTape, Deaths
  <2>4. CompareState(t, StateOf(t, LiveOf(t.candidate))) = "Matches"
    BY <2>1, <2>2 DEF CompareState, Deaths
  <2>. QED  BY <2>3, <2>4
<1>2. CASE t = TapeOf(right, "Crash") /\ right \in task.dies
  <2>1. t.termination = "Crash" /\ LiveOf(t.candidate).died
    <3>1. t.termination = "Crash" /\ t.candidate = right
      BY <1>2 DEF TapeOf
    <3>2. LiveOf(right).died <=> right \in task.dies
      BY DEF LiveOf
    <3>. QED  BY <1>2, <3>1, <3>2
  <2>2. StateOf(t, LiveOf(t.candidate)).termination = "Crash"
    BY <2>1 DEF StateOf
  <2>3. ReplayTape(t, LiveOf(t.candidate)) = "TerminationReproduced"
    BY <2>1 DEF ReplayTape, Deaths
  <2>4. CompareState(t, StateOf(t, LiveOf(t.candidate))) = "TerminationReproduced"
    <3> DEFINE st == StateOf(t, LiveOf(t.candidate))
    <3>1. t.termination \in Deaths /\ st.termination # "Ok" /\ t.termination # "Ok"
      BY <2>1, <2>2 DEF Deaths
    <3> HIDE DEF st
    <3>2. CompareState(t, st) = "TerminationReproduced"
      BY <3>1 DEF CompareState
    <3>. QED  BY <3>2 DEF st
  <2>. QED  BY <2>3, <2>4
<1>. QED  BY <1>1, <1>2

(* The witness is a pair no move brings closer.                            *)
LEMMA PutPairKeepsInv ==
  ASSUME MinInv, PutPair
  PROVE  MinInv'
<1>1. task \in PairTask /\ task.cmd = "sweep" /\ saved = NotSaved /\ MinTypes /\ SweepInv
  BY CommandOf DEF MinInv, PutPair, Converged, Running, Underway
<1> DEFINE w == [what |-> "witness", left |-> left, right |-> right,
                 distance |-> Distance(left, right),
                 tapes |-> {TapeOf(left, "Ok"), TapeOf(right, "Crash")}]
<1>2. /\ saved' = w /\ task' = task /\ left' = left /\ right' = right /\ pos' = pos
      /\ used' = used /\ tries' = tries
  BY DEF PutPair
<1>3. /\ w.what = "witness" /\ w.left = left /\ w.right = right /\ w.distance = Distance(left, right)
      /\ w.tapes = {TapeOf(left, "Ok"), TapeOf(right, "Crash")}
  OBVIOUS
<1> HIDE DEF w
<1>4. MinTypes'
  BY <1>1, <1>2 DEF MinTypes
<1>5. Underway'
  BY <1>2, <1>3 DEF Underway, NotSaved
<1>6. IsPair(left, right)
  BY <1>1 DEF SweepInv
<1>7. IsPair(saved.left, saved.right)'
  BY <1>2, <1>3, <1>6 DEF IsPair
<1>8. (saved.distance <= Distance(task.l, task.r))'
  BY <1>1, <1>2, <1>3 DEF SweepInv
<1>9. (tries < task.tries => \A p \in MovesOf(saved.left, saved.right) : ~IsPair(p[1], p[2]))'
  <2>1. tries < task.tries => \A p \in MovesOf(left, right) : ~IsPair(p[1], p[2])
    BY NoMoveLeft DEF PutPair
  <2>. QED  BY <1>2, <1>3, <2>1 DEF IsPair
<1>10. \A t \in w.tapes :
         /\ ReplayTape(t, LiveOf(t.candidate)) # "Diverged"
         /\ CompareState(t, StateOf(t, LiveOf(t.candidate))) = ReplayTape(t, LiveOf(t.candidate))
  BY <1>3, <1>6, TapesReplay DEF IsPair
<1>11. (\A t \in saved.tapes :
         /\ ReplayTape(t, LiveOf(t.candidate)) # "Diverged"
         /\ CompareState(t, StateOf(t, LiveOf(t.candidate))) = ReplayTape(t, LiveOf(t.candidate)))'
  BY <1>2, <1>10 DEF LiveOf
<1>12. DistinctionKept'
  BY <1>7, <1>8, <1>9, <1>11 DEF DistinctionKept
<1>13. DeathKept' /\ CoverageKept'
  BY <1>2, <1>3 DEF DeathKept, CoverageKept, Saved
<1>. QED  BY <1>4, <1>5, <1>12, <1>13 DEF MinInv, MinimizedKeeps

-----------------------------------------------------------------------------
(* tmin *)

(* An input without one byte is an input.                                  *)
LEMMA RemoveAtType ==
  ASSUME NEW a \in Seq(Letters), NEW i \in 1..Len(a)
  PROVE  RemoveAt(a, i) \in Seq(Letters)
<1>1. Len(a) \in Nat /\ i \in Nat /\ i - 1 \in Nat /\ i - 1 <= Len(a) /\ i + 1 \in Nat
  OBVIOUS
<1>2. \A n \in 1..Len(a) : a[n] \in Letters
  OBVIOUS
<1>3. SubSeq(a, 1, i - 1) \in Seq(Letters)
  BY <1>1, <1>2
<1>4. SubSeq(a, i + 1, Len(a)) \in Seq(Letters)
  BY <1>1, <1>2
<1>. QED  BY <1>3, <1>4 DEF RemoveAt

(* A byte whose removal survives is passed over.                           *)
LEMMA DeleteKeepsInv ==
  ASSUME MinInv, TryDelete
  PROVE  MinInv'
<1>1. /\ task \in DeleteTask /\ task.cmd = "delete" /\ saved = NotSaved /\ MinTypes /\ DeleteInv
      /\ pos.i <= Len(right)
  BY CommandOf DEF MinInv, TryDelete, Running, Underway
<1> DEFINE cand == RemoveAt(right, pos.i)
<1>2. /\ used' = Min({used + 1, task.max}) /\ task' = task /\ left' = left /\ tries' = tries
      /\ saved' = saved
      /\ IF Dies(cand) THEN right' = cand /\ moved' = TRUE /\ pos' = pos
         ELSE pos' = [pos EXCEPT !.i = @ + 1] /\ right' = right /\ moved' = moved
  BY DEF TryDelete
<1>3. /\ right \in Seq(Letters) /\ Len(right) \in Nat /\ pos \in Positions /\ pos.i \in Nat \ {0}
      /\ used \in Nat /\ task.max \in Nat
  BY <1>1 DEF MinTypes, Positions, DeleteTask
<1>4. cand \in Seq(Letters)
  BY <1>1, <1>3, RemoveAtType
<1>5. used' = (IF used + 1 <= task.max THEN used + 1 ELSE task.max) /\ used' \in Nat
  <2>1. used + 1 \in Int /\ task.max \in Int
    BY <1>3
  <2>2. Min({used + 1, task.max}) = IF used + 1 <= task.max THEN used + 1 ELSE task.max
    BY <2>1, LeastOfTwo
  <2>. QED  BY <1>2, <1>3, <2>2
<1>6. [pos EXCEPT !.i = @ + 1] \in Positions /\ [pos EXCEPT !.i = @ + 1].i = pos.i + 1
  BY <1>3 DEF Positions
<1> HIDE DEF cand
<1>7. MinTypes'
  BY <1>1, <1>2, <1>3, <1>4, <1>5, <1>6 DEF MinTypes
<1>8. DeleteInv'
  <2>1. CASE Dies(cand)
    BY <1>1, <1>2, <2>1 DEF DeleteInv, Dies, Kills
  <2>2. CASE ~Dies(cand)
    <3>1. right' = right /\ moved' = moved /\ pos'.i = pos.i + 1 /\ task' = task
      BY <1>2, <1>6, <2>2
    <3>2. used' < task.max => used < task.max
      BY <1>3, <1>5
    <3>3. used < task.max => cand \notin task.dies
      BY <2>2 DEF Dies, Kills
    <3>4. \A i \in 1..Len(right) : i < pos.i + 1 => i < pos.i \/ i = pos.i
      BY <1>3
    <3>5. used' < task.max /\ ~moved =>
            \A i \in 1..Len(right) : i < pos.i + 1 => RemoveAt(right, i) \notin task.dies
      BY <1>1, <3>2, <3>3, <3>4 DEF DeleteInv, cand
    <3>. QED  BY <1>1, <3>1, <3>5 DEF DeleteInv
  <2>. QED  BY <2>1, <2>2
<1>9. Underway'
  BY <1>1, <1>2, <1>8 DEF Underway
<1>. QED  BY <1>1, <1>2, <1>7, <1>9, NothingSavedYet DEF MinInv

(* The next pass starts over.                                              *)
LEMMA PassKeepsInv ==
  ASSUME MinInv, NextPass
  PROVE  MinInv'
<1>1. task \in DeleteTask /\ task.cmd = "delete" /\ saved = NotSaved /\ MinTypes /\ DeleteInv
  BY CommandOf DEF MinInv, NextPass, Running, Underway
<1>2. /\ pos' = First /\ task' = task /\ left' = left /\ right' = right /\ used' = used
      /\ tries' = tries /\ saved' = saved
  BY DEF NextPass
<1>3. First \in Positions /\ First.i = 1 /\ \A i \in 1..Len(right) : ~(i < 1)
  BY DEF First, Positions
<1>4. MinTypes'
  BY <1>1, <1>2, <1>3 DEF MinTypes
<1>5. DeleteInv'
  BY <1>1, <1>2, <1>3 DEF DeleteInv
<1>6. Underway'
  BY <1>1, <1>2, <1>5 DEF Underway
<1>. QED  BY <1>1, <1>2, <1>4, <1>6, NothingSavedYet DEF MinInv

(* The pass that deleted nothing tried every byte.                         *)
LEMMA PutFindingKeepsInv ==
  ASSUME MinInv, PutFinding
  PROVE  MinInv'
<1>1. /\ task \in DeleteTask /\ task.cmd = "delete" /\ saved = NotSaved /\ MinTypes /\ DeleteInv
      /\ pos.i > Len(right) /\ ~moved
  BY CommandOf DEF MinInv, PutFinding, PassesOver, Running, Underway
<1> DEFINE w == [what |-> "finding", input |-> right, replay |-> "NotReplayed"]
<1>2. /\ saved' = w /\ task' = task /\ left' = left /\ right' = right /\ pos' = pos
      /\ used' = used /\ tries' = tries
  BY DEF PutFinding
<1>3. w.what = "finding" /\ w.input = right
  OBVIOUS
<1> HIDE DEF w
<1>4. MinTypes'
  BY <1>1, <1>2 DEF MinTypes
<1>5. Underway'
  BY <1>2, <1>3 DEF Underway, NotSaved
<1>6. DOMAIN right = 1..Len(right) /\ \A i \in 1..Len(right) : i < pos.i
  BY <1>1 DEF MinTypes, Positions
<1>7. /\ task.r \in task.dies => right \in task.dies
      /\ used < task.max => \A i \in DOMAIN right : RemoveAt(right, i) \notin task.dies
  BY <1>1, <1>6 DEF DeleteInv
<1>8. DeathKept'
  BY <1>2, <1>3, <1>7 DEF DeathKept
<1>9. DistinctionKept' /\ CoverageKept'
  BY <1>2, <1>3 DEF DistinctionKept, CoverageKept, Saved
<1>. QED  BY <1>4, <1>5, <1>8, <1>9 DEF MinInv, MinimizedKeeps


-----------------------------------------------------------------------------
(* cmin *)

(* A corpus is finite, and so are its entries' features.                   *)
LEMMA CorpusType ==
  ASSUME task \in SelectTask
  PROVE  /\ IsFiniteSet(DOMAIN task.corpus) /\ DOMAIN task.corpus \subseteq Nat
         /\ \A e \in DOMAIN task.corpus :
              IsFiniteSet(task.corpus[e].features) /\ task.corpus[e].size \in Nat
BY InputsAssumption DEF SelectTask

(* An entry gains nothing only if it brings nothing new.                   *)
LEMMA GainType ==
  ASSUME task \in SelectTask, NEW e \in DOMAIN task.corpus
  PROVE  /\ IsFiniteSet(task.corpus[e].features \ covered) /\ Gain(e) \in Nat
         /\ Gain(e) = 0 <=> task.corpus[e].features \subseteq covered
<1>1. IsFiniteSet(task.corpus[e].features)
  BY CorpusType
<1>2. IsFiniteSet(task.corpus[e].features \ covered)
  BY <1>1, FS_Subset
<1>3. Gain(e) \in Nat
  BY <1>2, FS_CardinalityType DEF Gain
<1>4. Gain(e) = 0 <=> task.corpus[e].features \ covered = {}
  BY <1>2, FS_EmptySet DEF Gain
<1>. QED  BY <1>2, <1>3, <1>4

(* All features together are finitely many.                                *)
LEMMA UniverseFinite ==
  ASSUME task \in SelectTask
  PROVE  IsFiniteSet(Universe)
<1> DEFINE D == DOMAIN task.corpus
           T == {task.corpus[e].features : e \in D}
           f == [e \in D |-> task.corpus[e].features]
<1>1. f \in Surjection(D, T)
  BY DEF Surjection
<1>2. IsFiniteSet(D) /\ \A t \in T : IsFiniteSet(t)
  BY CorpusType
<1>3. IsFiniteSet(T)
  BY <1>1, <1>2, FS_Surjection
<1>4. IsFiniteSet(UNION T)
  BY <1>2, <1>3, FS_UNION
<1>. QED  BY <1>4 DEF Universe, FeaturesOf

(* Of the entries left one is ahead of all others.                         *)
LEMMA OneIsAhead ==
  ASSUME task \in SelectTask, DOMAIN task.corpus \ chosen # {}
  PROVE  \E e \in DOMAIN task.corpus \ chosen :
           \A o \in DOMAIN task.corpus \ (chosen \cup {e}) : Ahead(e, o)
<1> DEFINE R == DOMAIN task.corpus \ chosen
           B == {n \in Nat : \A e \in R : Gain(e) <= n}
<1>1. \A e \in R : e \in Nat /\ Gain(e) \in Nat /\ task.corpus[e].size \in Nat
  BY CorpusType, GainType
<1>2. Cardinality(Universe) \in B
  <2>1. IsFiniteSet(Universe) /\ Cardinality(Universe) \in Nat
    BY UniverseFinite, FS_CardinalityType
  <2>2. ASSUME NEW e \in R PROVE Gain(e) <= Cardinality(Universe)
    <3>1. task.corpus[e].features \ covered \subseteq Universe
      BY <2>2 DEF Universe, FeaturesOf
    <3>. QED  BY <2>1, <3>1, FS_Subset DEF Gain
  <2>. QED  BY <2>1, <2>2
<1>3. PICK m \in B : \A j \in B : m <= j
  <2>1. B \subseteq Nat /\ B # {}
    BY <1>2
  <2> HIDE DEF B
  <2>. QED  BY <2>1, Smallest
<1>4. \E e \in R : Gain(e) = m
  <2> SUFFICES ASSUME \A e \in R : Gain(e) # m PROVE FALSE
    OBVIOUS
  <2>1. PICK x \in R : TRUE
    OBVIOUS
  <2>2. \A e \in R : Gain(e) <= m - 1
    BY <1>1, <1>3
  <2>3. m - 1 \in Nat
    BY <1>1, <1>3, <2>1, <2>2
  <2>4. m - 1 \in B
    BY <2>2, <2>3
  <2>5. m <= m - 1
    BY <1>3, <2>4
  <2>. QED  BY <1>3, <2>5
<1> DEFINE S == {task.corpus[e].size : e \in {x \in R : Gain(x) = m}}
<1>5. PICK s \in S : \A j \in S : s <= j
  <2>1. S \subseteq Nat /\ S # {}
    BY <1>1, <1>4
  <2> HIDE DEF S
  <2>. QED  BY <2>1, Smallest
<1> DEFINE E == {e \in R : Gain(e) = m /\ task.corpus[e].size = s}
<1>6. PICK e \in E : \A j \in E : e <= j
  <2>1. E \subseteq Nat /\ E # {}
    BY <1>1, <1>5
  <2> HIDE DEF E
  <2>. QED  BY <2>1, Smallest
<1>7. ASSUME NEW o \in R, o # e PROVE Ahead(e, o)
  <2>1. Gain(o) <= m /\ (Gain(o) = m => s <= task.corpus[o].size)
    BY <1>3, <1>5, <1>7
  <2>2. Gain(o) = m /\ task.corpus[o].size = s => e <= o
    BY <1>6, <1>7
  <2>3. Gain(e) = m /\ task.corpus[e].size = s
    BY <1>6
  <2>4. Gain(o) \in Nat /\ m \in Nat /\ s \in Nat /\ task.corpus[o].size \in Nat /\ e \in Nat /\ o \in Nat
    BY <1>1, <1>3, <1>5, <1>6, <1>7
  <2>. QED  BY <1>7, <2>1, <2>2, <2>3, <2>4 DEF Ahead
<1>. QED  BY <1>6, <1>7

(* The best entry brings something new while something is missing.         *)
LEMMA BestGains ==
  ASSUME task \in SelectTask, Unselected, covered \subseteq Universe,
         covered = FeaturesOf(chosen, task.corpus)
  PROVE  Best \in DOMAIN task.corpus \ chosen /\ Gain(Best) > 0
<1>1. /\ Best \in DOMAIN task.corpus \ chosen
      /\ \A o \in DOMAIN task.corpus \ (chosen \cup {Best}) : Ahead(Best, o)
  BY OneIsAhead DEF Unselected, Best
<1>2. PICK f \in Universe : f \notin covered
  BY DEF Unselected
<1>3. PICK e \in DOMAIN task.corpus : f \in task.corpus[e].features
  BY <1>2 DEF Universe, FeaturesOf
<1>4. e \notin chosen
  BY <1>2, <1>3 DEF FeaturesOf
<1>5. Gain(e) # 0 /\ Gain(e) \in Nat /\ Gain(Best) \in Nat
  BY <1>1, <1>2, <1>3, GainType
<1>6. e = Best \/ Ahead(Best, e)
  BY <1>1, <1>3, <1>4
<1>. QED  BY <1>1, <1>5, <1>6 DEF Ahead

(* The entry taken brings at least one feature that was missing.           *)
LEMMA SelectKeepsInv ==
  ASSUME MinInv, SelectBest
  PROVE  MinInv'
<1>1. task \in SelectTask /\ task.cmd = "select" /\ saved = NotSaved /\ MinTypes /\ SelectInv
  BY CommandOf DEF MinInv, SelectBest, Running, Underway
<1> DEFINE b == Best
           fs == task.corpus[b].features
<1>2. /\ chosen' = chosen \cup {b} /\ covered' = covered \cup fs /\ task' = task /\ left' = left
      /\ right' = right /\ pos' = pos /\ used' = used /\ tries' = tries /\ saved' = saved
  BY DEF SelectBest
<1>3. covered \subseteq Universe
  BY <1>1 DEF SelectInv, Universe, FeaturesOf
<1>4. b \in DOMAIN task.corpus \ chosen /\ Cardinality(fs \ covered) > 0
  BY <1>1, <1>3, BestGains DEF SelectBest, SelectInv, Gain
<1> HIDE DEF b
<1>5. IsFiniteSet(chosen) /\ IsFiniteSet(covered) /\ IsFiniteSet(fs) /\ IsFiniteSet(fs \ covered)
  BY <1>1, <1>4, CorpusType, FS_Subset DEF SelectInv
<1>6. Cardinality(chosen') = Cardinality(chosen) + 1 /\ Cardinality(chosen) \in Nat
  BY <1>2, <1>4, <1>5, FS_AddElement, FS_CardinalityType
<1>7. /\ IsFiniteSet(covered') /\ Cardinality(covered) \in Nat /\ Cardinality(fs \ covered) \in Nat
      /\ Cardinality(covered') = Cardinality(covered) + Cardinality(fs \ covered)
  <2>1. covered' = covered \cup (fs \ covered) /\ covered \cap (fs \ covered) = {}
    BY <1>2
  <2>2. /\ IsFiniteSet(covered \cup (fs \ covered))
        /\ Cardinality(covered \cup (fs \ covered)) =
             Cardinality(covered) + Cardinality(fs \ covered) - Cardinality(covered \cap (fs \ covered))
    BY <1>5, FS_Union
  <2>3. Cardinality(covered) \in Nat /\ Cardinality(fs \ covered) \in Nat
    BY <1>5, FS_CardinalityType
  <2>4. Cardinality(covered \cap (fs \ covered)) = 0
    BY <2>1, FS_EmptySet
  <2> HIDE DEF fs
  <2>. QED  BY <1>4, <2>1, <2>2, <2>3, <2>4
<1>8. covered' = FeaturesOf(chosen', task.corpus)
  BY <1>1, <1>2 DEF SelectInv, FeaturesOf
<1>9. SelectInv'
  <2>1. chosen' \subseteq DOMAIN task'.corpus
    BY <1>1, <1>2, <1>4 DEF SelectInv
  <2>2. Cardinality(chosen') <= Cardinality(covered')
    BY <1>1, <1>4, <1>6, <1>7 DEF SelectInv
  <2>. QED  BY <1>2, <1>7, <1>8, <2>1, <2>2 DEF SelectInv
<1>10. MinTypes'
  BY <1>1, <1>2 DEF MinTypes
<1>11. Underway'
  BY <1>1, <1>2, <1>9 DEF Underway
<1>. QED  BY <1>1, <1>2, <1>10, <1>11, NothingSavedYet DEF MinInv

(* When no entry is left to take, all features are covered.                *)
LEMMA WriteKeepsInv ==
  ASSUME MinInv, WriteSelection
  PROVE  MinInv'
<1>1. /\ task \in SelectTask /\ task.cmd = "select" /\ saved = NotSaved /\ MinTypes /\ SelectInv
      /\ ~Unselected
  BY CommandOf DEF MinInv, WriteSelection, Running, Underway
<1> DEFINE w == [what |-> "selection", ids |-> chosen]
<1>2. /\ saved' = w /\ task' = task /\ left' = left /\ right' = right /\ pos' = pos
      /\ used' = used /\ tries' = tries
  BY DEF WriteSelection
<1>3. w.what = "selection" /\ w.ids = chosen
  OBVIOUS
<1> HIDE DEF w
<1>4. MinTypes'
  BY <1>1, <1>2 DEF MinTypes
<1>5. Underway'
  BY <1>2, <1>3 DEF Underway, NotSaved
<1>6. covered = Universe
  <2>1. chosen = DOMAIN task.corpus => covered = Universe
    BY <1>1 DEF SelectInv, Universe
  <2>. QED  BY <1>1, <2>1 DEF Unselected, SelectInv
<1>7. FeaturesOf(chosen, task.corpus) = Universe /\ Cardinality(chosen) <= Cardinality(Universe)
  BY <1>1, <1>6 DEF SelectInv
<1>8. CoverageKept'
  BY <1>2, <1>3, <1>7 DEF CoverageKept, Universe
<1>9. DistinctionKept' /\ DeathKept'
  BY <1>2, <1>3 DEF DistinctionKept, DeathKept, Saved
<1>. QED  BY <1>4, <1>5, <1>8, <1>9 DEF MinInv, MinimizedKeeps

-----------------------------------------------------------------------------
(* The end of a command leaves nothing behind.                             *)
LEMMA LeaveKeepsInv ==
  ASSUME MinInv, Leave
  PROVE  MinInv'
<1>1. /\ task' = NoTask /\ left' = <<>> /\ right' = <<>> /\ pos' = First /\ used' = 0
      /\ tries' = 0 /\ saved' = NotSaved
  BY DEF Leave
<1>2. First \in Positions /\ <<>> \in Seq(Letters)
  BY DEF First, Positions
<1>3. MinTypes'
  BY <1>1, <1>2 DEF MinTypes
<1>4. Underway'
  BY <1>1 DEF Underway, NoTask
<1>. QED  BY <1>1, <1>3, <1>4, NothingSavedYet DEF MinInv

(* Every step keeps the invariant.                                         *)
LEMMA MinNextKeepsInv == MinInv /\ [MinNext]_minVars => MinInv'
<1> SUFFICES ASSUME MinInv, [MinNext]_minVars PROVE MinInv'
  OBVIOUS
<1>1. CASE UNCHANGED minVars
  <2>1. /\ task' = task /\ left' = left /\ right' = right /\ pos' = pos /\ moved' = moved
        /\ used' = used /\ tries' = tries /\ saved' = saved /\ covered' = covered /\ chosen' = chosen
    BY <1>1 DEF minVars
  <2>2. MinTypes'
    BY <2>1 DEF MinInv, MinTypes
  <2>3. Underway'
    BY <2>1 DEF MinInv, Underway, SweepInv, IsPair, DeleteInv, SelectInv
  <2>4. DistinctionKept' /\ DeathKept' /\ CoverageKept'
    BY <2>1 DEF MinInv, MinimizedKeeps, DistinctionKept, DeathKept, CoverageKept, Saved,
                IsPair, LiveOf, Universe
  <2>. QED  BY <2>2, <2>3, <2>4 DEF MinInv, MinimizedKeeps
<1>2. CASE MinNext
  BY <1>2, CommandKeepsInv, CheckKeepsInv, SkipKeepsInv, LeftMoveKeepsInv, RightMoveKeepsInv,
     TrimKeepsInv, PutPairKeepsInv, DeleteKeepsInv, PassKeepsInv, PutFindingKeepsInv,
     SelectKeepsInv, WriteKeepsInv, LeaveKeepsInv DEF MinNext
<1>. QED  BY <1>1, <1>2

(* The progress of every command, for any inputs, targets, budgets and     *)
(* corpora (boundary/minimize.rs, corpus/minimize.rs, cmd_cmin).           *)
THEOREM MinimizationInvariant == MinSpec => []MinInv
BY MinInitInv, MinNextKeepsInv, PTL DEF MinSpec

(* For any inputs, targets, budgets and corpora: a boundary witness is a   *)
(* pair that no single move brings closer unless the budget ran out, its   *)
(* tapes replay; tmin's input dies and no byte of it can go; cmin covers   *)
(* what the corpus covers and takes no entry for nothing.                  *)
THEOREM MinimizedStays == MinSpec => []MinimizedKeeps
<1>1. MinInv => MinimizedKeeps
  BY DEF MinInv
<1>. QED  BY <1>1, MinimizationInvariant, PTL
=============================================================================
