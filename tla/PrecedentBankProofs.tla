------------------------ MODULE PrecedentBankProofs ------------------------
(* For any roots, profiles, lanes, ids and bounds: every probe outcome is  *)
(* counted once, a refuted family stays refuted, and no live lineage is    *)
(* probed twice at once for one profile.  And for any signals, histories   *)
(* and bounds: a crash is remembered by a shape that recognises it.        *)
EXTENDS PrecedentBank, LineageShapes, TLAPS, WellFoundedInduction

(* What memory names is in the store, and of the family it is named for.   *)
CurrentStored == \A f \in Families : current[f] # None => current[f] \in Of(f)

Known(probe) == probe.rev \in Stored /\ current[FamilyOf(probe)] # None

ProbesKnown ==
  /\ \A n \in 1..Len(queue) : Known(queue[n])
  /\ \A l \in Lanes : pend[l] # None => Known(pend[l])

(* The queue holds at most one probe of a root. *)
RootsApart ==
  \A n, m \in 1..Len(queue) : queue[n].root = queue[m].root => n = m

(* No revision is from the future. *)
SeqsPast == \A i \in Stored : revs[i].seq <= seq

(* A campaign that is not running knows nothing. *)
Forgotten ==
  ~running => /\ current = NoBank /\ queue = <<>>
              /\ inflight = {} /\ pend = NoOrders

IInv ==
  /\ TypeOK /\ CurrentStored /\ ProbesKnown /\ RootsApart /\ SeqsPast /\ Forgotten
  /\ OneProbePerKey /\ EveryOutcomeCounted /\ StatusFollowsHistory

-----------------------------------------------------------------------------
(* Facts about the store. *)

LEMMA RevisionOfStored ==
  ASSUME TypeOK, NEW i \in Stored
  PROVE  i \in Ids /\ revs[i] \in Revision
BY DEF TypeOK, Stored, Free

(* A revision's parts, one by one. *)
LEMMA RevisionParts ==
  ASSUME NEW r \in Revision
  PROVE  /\ r.fam \in Families /\ r.prev \in Ids \cup {None}
         /\ r.seq \in 0..MaxAdmissions /\ r.status \in Statuses
         /\ r.sup \in Nat /\ r.con \in Nat /\ r.amb \in Nat
         /\ r.last \in Outcomes \cup {None}
BY DEF Revision

(* A new revision goes under a free id and disturbs no other. *)
LEMMA SavedInStore ==
  ASSUME TypeOK, NEW i \in Free, NEW r \in Revision, revs' = [revs EXCEPT ![i] = r]
  PROVE  /\ i \in Ids /\ i \notin Stored
         /\ Stored' = Stored \cup {i}
         /\ revs'[i] = r
         /\ \A j \in Stored : revs'[j] = revs[j]
         /\ \A f \in Families : Of(f) \subseteq Of(f)'
         /\ i \in Of(r.fam)'
         /\ revs' \in [Ids -> {None} \cup Revision]
<1>1. r # None
  BY NoneAssumption
<1>2. i \in Ids /\ revs[i] = None /\ i \notin Stored
  BY DEF Free, Stored
<1>3. /\ revs' \in [Ids -> {None} \cup Revision]
      /\ revs'[i] = r /\ \A j \in Ids : j # i => revs'[j] = revs[j]
  BY <1>2 DEF TypeOK
<1>4. Stored' = Stored \cup {i}
  BY <1>1, <1>2, <1>3 DEF Stored, Free
<1>5. \A j \in Stored : revs'[j] = revs[j]
  BY <1>2, <1>3 DEF Stored
<1>6. \A f \in Families : Of(f) \subseteq Of(f)'
  BY <1>4, <1>5 DEF Of
<1>7. i \in Of(r.fam)'
  BY <1>3, <1>4 DEF Of
<1>. QED  BY <1>2, <1>3, <1>4, <1>5, <1>6, <1>7

(* Every nonempty set of naturals has a least element. *)
LEMMA Least ==
  ASSUME NEW T, T \subseteq Nat, T # {}
  PROVE  \E x \in T : \A y \in T : x <= y
<1>1. \E x \in T : \A y \in T : ~ (<<y, x>> \in OpToRel(<, Nat))
  BY WFMin, NatLessThanWellFounded, Zenon
<1>2. PICK x \in T : \A y \in T : ~ (<<y, x>> \in OpToRel(<, Nat))
  BY <1>1
<1>3. ASSUME NEW y \in T PROVE x <= y
  <2>1. ~ (<<y, x>> \in OpToRel(<, Nat))
    BY <1>2
  <2>2. ~ (y < x)
    BY <2>1 DEF OpToRel
  <2>. QED  BY <2>2
<1>. QED  BY <1>3

(* load_current finds a revision of every family that has one. *)
LEMMA LoadedIsStored ==
  ASSUME TypeOK, NEW f \in Families, Of(f) # {}
  PROVE  Loaded(f) \in Of(f)
<1>1. \A i \in Of(f) : i \in Nat /\ revs[i].seq \in 0..MaxAdmissions
  <2>. SUFFICES ASSUME NEW i \in Of(f)
                PROVE  i \in Nat /\ revs[i].seq \in 0..MaxAdmissions
    OBVIOUS
  <2>1. i \in Ids /\ revs[i] \in Revision
    BY RevisionOfStored DEF Of
  <2>. QED  BY <2>1, RevisionParts, IdsAssumption
<1> DEFINE Ages == {MaxAdmissions - revs[i].seq : i \in Of(f)}
<1>2. Ages \subseteq Nat /\ Ages # {}
  BY <1>1, LimitsAssumption
<1>3. PICK a \in Ages : \A b \in Ages : a <= b
  <2>. HIDE DEF Ages
  <2>. QED  BY <1>2, Least
<1> DEFINE Youngest == {i \in Of(f) : MaxAdmissions - revs[i].seq = a}
<1>4. Youngest \subseteq Nat /\ Youngest # {}
  BY <1>1, <1>3
<1>5. PICK i \in Youngest : \A j \in Youngest : i <= j
  <2>. HIDE DEF Youngest
  <2>. QED  BY <1>4, Least
<1>6. i \in Of(f)
  BY <1>5
<1>7. ASSUME NEW j \in Of(f)
      PROVE  \/ revs[i].seq > revs[j].seq
             \/ revs[i].seq = revs[j].seq /\ i <= j
  <2>1. /\ revs[i].seq \in Nat /\ revs[j].seq \in Nat
        /\ MaxAdmissions - revs[i].seq = a
        /\ a <= MaxAdmissions - revs[j].seq
    BY <1>1, <1>3, <1>5, <1>6, <1>7
  <2>2. revs[j].seq = revs[i].seq => i <= j
    BY <1>5, <1>7
  <2>. QED  BY <2>1, <2>2, LimitsAssumption
<1>. QED  BY <1>6, <1>7 DEF Loaded

-----------------------------------------------------------------------------
(* Facts about what memory names. *)

(* What a probe names has a family, and keeps it. *)
LEMMA KnownProbe ==
  ASSUME TypeOK, NEW p \in Probe, Known(p)
  PROVE  /\ p.root \in Roots /\ p.rev \in Stored
         /\ FamilyOf(p) \in Families
         /\ Key(p) \in Roots \X Profiles
<1>1. p.root \in Roots /\ p.rev \in Stored
  BY DEF Probe, Known
<1>2. FamilyOf(p) \in Families
  BY <1>1, RevisionOfStored, RevisionParts DEF FamilyOf
<1>. QED  BY <1>1, <1>2 DEF Key, Families

(* A probe that is out: known, if one is named. *)
LEMMA QueuedProbe ==
  ASSUME TypeOK, NEW n \in 1..Len(queue)
  PROVE  queue[n] \in Probe
BY DEF TypeOK

LEMMA PendingProbe ==
  ASSUME TypeOK, NEW l \in Lanes, pend[l] # None
  PROVE  pend[l] \in Probe
BY DEF TypeOK

(* As long as the store only grows and no family is forgotten, a probe that*)
(* was known is, and its key is the same.                                  *)
LEMMA KeysKept ==
  ASSUME TypeOK, NEW p \in Probe, Known(p),
         \A j \in Stored : j \in Stored' /\ revs'[j] = revs[j],
         \A f \in Families : current[f] # None => current'[f] # None
  PROVE  Known(p)' /\ Key(p)' = Key(p)
<1>1. p.rev \in Stored /\ FamilyOf(p) \in Families
  BY KnownProbe
<1>2. FamilyOf(p)' = FamilyOf(p)
  BY <1>1 DEF FamilyOf
<1>3. current'[FamilyOf(p)] # None
  BY <1>1 DEF Known
<1>4. Known(p)'
  BY <1>1, <1>2, <1>3 DEF Known
<1>5. Key(p)' = Key(p)
  BY <1>2 DEF Key
<1>. QED  BY <1>4, <1>5

-----------------------------------------------------------------------------
(* The parts of the invariant that concern the store alone. *)

Histories == SeqsPast /\ EveryOutcomeCounted /\ StatusFollowsHistory

LEMMA HistoriesKept ==
  ASSUME TypeOK, Histories, revs' = revs, seq' \in Nat, seq <= seq'
  PROVE  Histories'
<1>1. Stored' = Stored /\ \A f : Of(f)' = Of(f)
  BY DEF Stored, Free, Of
<1>2. SeqsPast'
  <2>. SUFFICES ASSUME NEW i \in Stored PROVE revs[i].seq <= seq'
    BY <1>1 DEF SeqsPast
  <2>1. revs[i].seq \in Nat /\ revs[i].seq <= seq /\ seq \in Nat
    BY RevisionOfStored, RevisionParts, LimitsAssumption DEF Histories, SeqsPast, TypeOK
  <2>. QED  BY <2>1
<1>3. EveryOutcomeCounted'
  BY <1>1 DEF Histories, EveryOutcomeCounted
<1>4. StatusFollowsHistory'
  BY <1>1 DEF Histories, StatusFollowsHistory
<1>. QED  BY <1>2, <1>3, <1>4 DEF Histories

(* What EveryOutcomeCounted and StatusFollowsHistory say of one revision   *)
(* whose predecessor, if it has one, is p.                                 *)
Counted(r, p) ==
  /\ r.sup = p.sup + One(r.last = "support")
  /\ r.con = p.con + One(r.last \in {"direct", "partial"})
  /\ r.amb = p.amb + One(r.last = "ambiguous")
  /\ r.seq >= p.seq

Refuted(r, p) ==
  /\ r.status = "contradicted" <=>
       \/ r.last = "direct" \/ r.con >= Enough \/ p.status = "contradicted"
  /\ r.status = "candidate" => r.sup = 0

(* A revision that continues a stored one of its family. *)
Continues(r) ==
  /\ r.prev \in Of(r.fam)
  /\ Counted(r, revs[r.prev])
  /\ Refuted(r, revs[r.prev])

(* The first revision of a family. *)
Starts(r) ==
  /\ r.prev = None /\ r.sup = 0 /\ r.con = 0 /\ r.amb = 0
  /\ r.status = "candidate" /\ r.last = None

LEMMA HistoriesSaved ==
  ASSUME TypeOK, Histories, NEW i \in Free, NEW r \in Revision,
         revs' = [revs EXCEPT ![i] = r], seq' = seq, r.seq = seq,
         Starts(r) \/ Continues(r)
  PROVE  Histories'
<1>1. /\ i \notin Stored /\ Stored' = Stored \cup {i} /\ revs'[i] = r
      /\ \A j \in Stored : revs'[j] = revs[j]
  BY SavedInStore
<1>2. SeqsPast'
  <2>1. seq <= seq
    BY LimitsAssumption DEF TypeOK
  <2>. QED  BY <1>1, <2>1 DEF Histories, SeqsPast
<1>3. EveryOutcomeCounted'
  <2>. SUFFICES ASSUME NEW j \in Stored'
                PROVE  IF revs'[j].prev = None
                         THEN revs'[j].sup + revs'[j].con + revs'[j].amb = 0
                         ELSE /\ revs'[j].prev \in Stored'
                              /\ revs'[revs'[j].prev].fam = revs'[j].fam
                              /\ Counted(revs'[j], revs'[revs'[j].prev])
    BY DEF EveryOutcomeCounted, Counted, Of
  <2>1. CASE j = i
    <3>1. CASE Starts(r)
      <4>1. revs'[j] = r
        BY <1>1, <2>1
      <4>. QED  BY <3>1, <4>1 DEF Starts
    <3>2. CASE Continues(r)
      <4>1. r.prev \in Stored /\ revs[r.prev].fam = r.fam
        BY <3>2 DEF Continues, Of
      <4>2. r.prev # None
        BY <4>1, RevisionOfStored, IdsAssumption
      <4>3. revs'[r.prev] = revs[r.prev] /\ r.prev \in Stored'
        BY <1>1, <4>1
      <4>4. revs'[j] = r
        BY <1>1, <2>1
      <4>. QED  BY <3>2, <4>1, <4>2, <4>3, <4>4 DEF Continues
    <3>. QED  BY <3>1, <3>2
  <2>2. CASE j # i
    <3>1. j \in Stored /\ revs'[j] = revs[j]
      BY <1>1, <2>2
    <3>2. IF revs[j].prev = None
            THEN revs[j].sup + revs[j].con + revs[j].amb = 0
            ELSE /\ revs[j].prev \in Stored
                 /\ revs[revs[j].prev].fam = revs[j].fam
                 /\ Counted(revs[j], revs[revs[j].prev])
      BY <3>1 DEF Histories, EveryOutcomeCounted, Counted, Of
    <3>3. revs[j].prev \in Stored =>
            /\ revs[j].prev \in Stored'
            /\ revs'[revs[j].prev] = revs[revs[j].prev]
      BY <1>1
    <3>. QED  BY <3>1, <3>2, <3>3
  <2>. QED  BY <2>1, <2>2
<1>4. StatusFollowsHistory'
  <2>. SUFFICES ASSUME NEW j \in Stored'
                PROVE  /\ revs'[j].status = "contradicted" <=>
                            \/ revs'[j].last = "direct"
                            \/ revs'[j].con >= Enough
                            \/ /\ revs'[j].prev # None
                               /\ revs'[revs'[j].prev].status = "contradicted"
                       /\ revs'[j].status = "candidate" => revs'[j].sup = 0
    BY DEF StatusFollowsHistory
  <2>1. CASE j = i
    <3>1. CASE Starts(r)
      <4>1. ~ (0 >= Enough) /\ None # "direct"
        BY LimitsAssumption, NoneAssumption DEF Outcomes
      <4>2. revs'[j] = r
        BY <1>1, <2>1
      <4>. QED  BY <3>1, <4>1, <4>2 DEF Starts
    <3>2. CASE Continues(r)
      <4>1. r.prev \in Stored
        BY <3>2 DEF Continues, Of
      <4>2. r.prev # None /\ revs'[r.prev] = revs[r.prev]
        BY <1>1, <4>1, RevisionOfStored, IdsAssumption
      <4>3. revs'[j] = r
        BY <1>1, <2>1
      <4>. QED  BY <3>2, <4>2, <4>3 DEF Continues, Refuted
    <3>. QED  BY <3>1, <3>2
  <2>2. CASE j # i
    <3>1. j \in Stored /\ revs'[j] = revs[j]
      BY <1>1, <2>2
    <3>2. revs[j].prev # None => revs[j].prev \in Stored
      BY <3>1 DEF Histories, EveryOutcomeCounted, Of
    <3>3. revs[j].prev # None => revs'[revs[j].prev] = revs[revs[j].prev]
      BY <1>1, <3>2
    <3>. QED  BY <3>1, <3>3 DEF Histories, StatusFollowsHistory
  <2>. QED  BY <2>1, <2>2
<1>. QED  BY <1>2, <1>3, <1>4 DEF Histories

LEMMA Judgements == ProbeEnds \subseteq Outcomes
BY DEF ProbeEnds, Judged, Outcomes

(* The revision a probe outcome writes continues the family's current one. *)
LEMMA UpdatedContinues ==
  ASSUME TypeOK, Histories, CurrentStored,
         NEW p \in Probe, Known(p), NEW o \in Outcomes
  PROVE  /\ Base(p) \in Stored
         /\ Updated(Base(p), o) \in Revision
         /\ Updated(Base(p), o).fam = FamilyOf(p)
         /\ Updated(Base(p), o).seq = seq
         /\ Continues(Updated(Base(p), o))
<1> DEFINE f == FamilyOf(p)
           b == Base(p)
           old == revs[b]
           new == Updated(b, o)
           con == old.con + One(Contradicts(o))
<1>1. f \in Families /\ b = current[f] /\ b \in Of(f)
  BY KnownProbe DEF Base, CurrentStored, Known
<1>2. b \in Stored /\ b \in Ids /\ old \in Revision /\ old.fam = f
  BY <1>1, RevisionOfStored DEF Of
<1>3. /\ old.sup \in Nat /\ old.con \in Nat /\ old.amb \in Nat
      /\ old.status \in Statuses /\ old.seq \in 0..MaxAdmissions
  BY <1>2, RevisionParts
<1>4. new = [old EXCEPT !.prev = b, !.seq = seq,
               !.status = StatusAfter(old.status, con, o),
               !.sup = @ + One(o = "support"), !.con = con,
               !.amb = @ + One(o = "ambiguous"), !.last = o]
  BY <1>1, <1>2 DEF Updated
<1>5. /\ new.fam = f /\ new.prev = b /\ new.seq = seq /\ new.last = o
      /\ new.status = StatusAfter(old.status, con, o)
      /\ new.sup = old.sup + One(o = "support") /\ new.con = con
      /\ new.amb = old.amb + One(o = "ambiguous")
  <2>. HIDE DEF b, new, con, old, f
  <2>. QED  BY <1>2, <1>4 DEF Revision
<1>6. new \in Revision
  <2>1. StatusAfter(old.status, con, o) \in Statuses
    BY <1>3 DEF StatusAfter, Statuses
  <2>2. /\ old.sup + One(o = "support") \in Nat /\ con \in Nat
        /\ old.amb + One(o = "ambiguous") \in Nat
    BY <1>3 DEF One
  <2>3. seq \in 0..MaxAdmissions
    BY DEF TypeOK
  <2>. HIDE DEF b, new, con, old, f
  <2>. QED  BY <1>2, <1>4, <2>1, <2>2, <2>3 DEF Revision
<1>7. Counted(new, old)
  <2>1. old.seq <= seq
    BY <1>2 DEF Histories, SeqsPast
  <2>2. con = old.con + One(o \in {"direct", "partial"})
    BY DEF Contradicts
  <2>3. seq >= old.seq
    BY <1>3, <2>1, LimitsAssumption DEF TypeOK
  <2>. HIDE DEF b, new, con, old, f
  <2>. QED  BY <1>5, <2>2, <2>3 DEF Counted
<1>8. Refuted(new, old)
  <2>1. /\ old.con >= Enough => old.status = "contradicted"
        /\ old.status = "candidate" => old.sup = 0
    BY <1>2 DEF Histories, StatusFollowsHistory
  <2>2. ~Contradicts(o) => con = old.con
    BY <1>3 DEF One
  <2>3. o # "support" => old.sup + One(o = "support") = old.sup
    BY <1>3 DEF One
  <2>4. /\ StatusAfter(old.status, con, o) = "contradicted" <=>
             o = "direct" \/ con >= Enough \/ old.status = "contradicted"
        /\ StatusAfter(old.status, con, o) = "candidate" =>
             old.status = "candidate" /\ o # "support"
    <3>. HIDE DEF con, old
    <3>. QED  BY <1>3, <2>1, <2>2 DEF StatusAfter, Statuses, Contradicts, Outcomes
  <2>. HIDE DEF b, new, con, old, f
  <2>. QED  BY <1>5, <2>1, <2>3, <2>4 DEF Refuted
<1>9. Continues(new)
  <2>. HIDE DEF b, new, con, old
  <2>. QED  BY <1>1, <1>5, <1>7, <1>8 DEF Continues, old
<1>. QED  BY <1>2, <1>5, <1>6, <1>9

-----------------------------------------------------------------------------
LEMMA InitInv == Init => IInv
<1>. SUFFICES ASSUME Init PROVE IInv
  OBVIOUS
<1>1. Stored = {}
  BY DEF Init, Stored, Free
<1>2. TypeOK
  <2>1. <<>> \in Seq(Probe) /\ Len(<<>>) = 0
    OBVIOUS
  <2>. QED  BY <2>1, LimitsAssumption DEF Init, TypeOK, NoBank, NoOrders
<1>3. CurrentStored /\ ProbesKnown /\ RootsApart /\ Forgotten /\ OneProbePerKey
  BY DEF Init, NoBank, NoOrders, CurrentStored, ProbesKnown, RootsApart,
         Forgotten, OneProbePerKey, Busy
<1>4. SeqsPast /\ EveryOutcomeCounted /\ StatusFollowsHistory
  BY <1>1 DEF SeqsPast, EveryOutcomeCounted, StatusFollowsHistory
<1>. QED  BY <1>2, <1>3, <1>4 DEF IInv

(* A step that leaves the store and the bank alone and starts no probe.    *)
LEMMA AdmitInv ==
  ASSUME IInv, Admit
  PROVE  IInv'
<1>1. /\ revs' = revs /\ current' = current /\ queue' = queue
      /\ inflight' = inflight /\ pend' = pend
      /\ running' = running /\ stops' = stops
      /\ seq < MaxAdmissions /\ seq' = seq + 1
  BY DEF Admit, memory
<1>2. seq' \in 0..MaxAdmissions /\ seq <= seq'
  BY <1>1, LimitsAssumption DEF IInv, TypeOK
<1>3. TypeOK'
  BY <1>1, <1>2 DEF IInv, TypeOK
<1>4. Histories'
  <2>1. seq' \in Nat
    BY <1>2
  <2>. QED  BY <1>1, <1>2, <2>1, HistoriesKept DEF IInv, Histories
<1>5. CurrentStored' /\ ProbesKnown' /\ RootsApart' /\ Forgotten'
  BY <1>1 DEF IInv, CurrentStored, ProbesKnown, RootsApart, Forgotten, Known,
              FamilyOf, Of, Stored, Free, NoBank, NoOrders
<1>6. OneProbePerKey'
  BY <1>1 DEF IInv, OneProbePerKey, Busy, Key, FamilyOf
<1>. QED  BY <1>3, <1>4, <1>5, <1>6 DEF IInv, Histories

(* Enqueueing: the new probe is known, of a root not queued before, and its*)
(* key is not out.                                                         *)
LEMMA MatchInv ==
  ASSUME IInv, NEW r \in Roots, NEW f \in Families, AdmitAndMatch(r, f)
  PROVE  IInv'
<1> DEFINE new == [root |-> r, rev |-> current[f]]
           n == Len(queue)
<1>1. /\ revs' = revs /\ current' = current /\ queue' = Append(queue, new)
      /\ inflight' = inflight /\ pend' = pend
      /\ running' = running /\ stops' = stops /\ running
      /\ seq < MaxAdmissions /\ seq' = seq + 1
  BY DEF AdmitAndMatch
<1>2. /\ current[f] # None /\ <<r, f[2]>> \notin inflight
      /\ ~Queued(r) /\ n < MaxProbes
  BY DEF AdmitAndMatch, MayEnqueue, Schedulable
<1>3. current[f] \in Stored /\ current[f] \in Ids /\ revs[current[f]].fam = f
  BY <1>2 DEF IInv, CurrentStored, Of, Stored
<1>4. new \in Probe /\ Known(new) /\ Key(new) = <<r, f[2]>>
  BY <1>2, <1>3 DEF Probe, Known, FamilyOf, Key
<1>5. /\ queue \in Seq(Probe) /\ queue' \in Seq(Probe)
      /\ n \in Nat /\ Len(queue') = n + 1 /\ queue'[n + 1] = new
      /\ \A k \in 1..n : queue'[k] = queue[k]
  <2>1. queue \in Seq(Probe)
    BY DEF IInv, TypeOK
  <2>. HIDE DEF new
  <2>. QED  BY <1>1, <1>4, <2>1
<1>6. seq' \in 0..MaxAdmissions /\ seq <= seq'
  BY <1>1, LimitsAssumption DEF IInv, TypeOK
<1>7. TypeOK'
  <2>1. Len(queue') <= MaxProbes
    BY <1>2, <1>5, LimitsAssumption
  <2>. QED  BY <1>1, <1>5, <1>6, <2>1 DEF IInv, TypeOK
<1>8. Histories'
  <2>1. seq' \in Nat
    BY <1>6
  <2>. QED  BY <1>1, <1>6, <2>1, HistoriesKept DEF IInv, Histories
<1>9. CurrentStored' /\ Forgotten'
  BY <1>1 DEF IInv, CurrentStored, Forgotten, Of, Stored, Free
<1>10. \A p : Known(p)' = Known(p) /\ Key(p)' = Key(p)
  BY <1>1 DEF Known, Key, FamilyOf, Stored, Free
<1>11. \A k \in 1..Len(queue') : k \in 1..n \/ k = n + 1
  BY <1>5
<1>12. ProbesKnown'
  <2>1. \A k \in 1..Len(queue') : Known(queue'[k])
    BY <1>4, <1>5, <1>11 DEF IInv, ProbesKnown
  <2>. QED  BY <1>1, <1>10, <2>1 DEF IInv, ProbesKnown
<1>13. RootsApart'
  <2>. SUFFICES ASSUME NEW k \in 1..Len(queue'), NEW m \in 1..Len(queue'),
                       queue'[k].root = queue'[m].root
                PROVE  k = m
    BY DEF RootsApart
  <2>1. \A j \in 1..n : queue[j].root # r
    BY <1>2 DEF Queued
  <2>2. new.root = r
    OBVIOUS
  <2>. HIDE DEF new
  <2>3. CASE k \in 1..n /\ m \in 1..n
    BY <1>5, <2>3 DEF IInv, RootsApart
  <2>4. CASE k = n + 1 \/ m = n + 1
    BY <1>5, <1>11, <2>1, <2>2, <2>4
  <2>. QED  BY <1>11, <2>3, <2>4
<1>14. OneProbePerKey'
  <2>1. Busy' = Busy
    BY <1>1 DEF Busy
  <2>2. \A k \in 1..Len(queue') : Key(queue'[k]) \notin inflight
    BY <1>2, <1>4, <1>5, <1>11 DEF IInv, OneProbePerKey
  <2>. QED  BY <1>1, <1>10, <2>1, <2>2 DEF IInv, OneProbePerKey
<1>. QED  BY <1>7, <1>8, <1>9, <1>12, <1>13, <1>14 DEF IInv, Histories

(* Dispatch: the head's key is not out before, and no other queued probe   *)
(* has its root.                                                           *)
LEMMA DispatchInv ==
  ASSUME IInv, NEW l \in Lanes, Dispatch(l)
  PROVE  IInv'
<1> DEFINE h == Head(queue)
           t == Tail(queue)
<1>1. /\ revs' = revs /\ seq' = seq /\ current' = current
      /\ queue' = t /\ inflight' = inflight \cup {Key(h)}
      /\ pend' = [pend EXCEPT ![l] = h] /\ pend[l] = None /\ queue # <<>>
      /\ running' = running /\ stops' = stops /\ running
  BY DEF Dispatch, store
<1>2. /\ queue \in Seq(Probe) /\ Len(queue) \in Nat /\ Len(queue) >= 1
      /\ t \in Seq(Probe) /\ Len(t) = Len(queue) - 1 /\ h = queue[1]
      /\ \A k \in 1..Len(t) : k + 1 \in 1..Len(queue) /\ t[k] = queue[k + 1]
  BY <1>1 DEF IInv, TypeOK
<1>3. 1 \in 1..Len(queue)
  BY <1>2
<1>4. h \in Probe /\ Known(h) /\ Key(h) \notin inflight
  BY <1>2, <1>3, QueuedProbe DEF IInv, ProbesKnown, OneProbePerKey
<1>5. Key(h) \in Roots \X Profiles
  BY <1>4, KnownProbe DEF IInv
<1>6. \A p : Known(p)' = Known(p) /\ Key(p)' = Key(p)
  BY <1>1 DEF Known, Key, FamilyOf, Stored, Free
<1>7. pend'[l] = h /\ \A k \in Lanes : k # l => pend'[k] = pend[k]
  <2>. HIDE DEF h
  <2>. QED  BY <1>1 DEF IInv, TypeOK
<1>. HIDE DEF h, t
<1>8. TypeOK'
  <2>1. Len(t) <= MaxProbes
    BY <1>2, LimitsAssumption DEF IInv, TypeOK
  <2>2. pend' \in [Lanes -> {None} \cup Probe]
    BY <1>1, <1>4 DEF IInv, TypeOK
  <2>3. inflight' \subseteq Roots \X Profiles
    BY <1>1, <1>5 DEF IInv, TypeOK
  <2>. QED  BY <1>1, <1>2, <2>1, <2>2, <2>3 DEF IInv, TypeOK
<1>9. Histories'
  <2>1. seq \in Nat /\ seq <= seq
    BY LimitsAssumption DEF IInv, TypeOK
  <2>. QED  BY <1>1, <2>1, HistoriesKept DEF IInv, Histories
<1>10. CurrentStored' /\ Forgotten'
  BY <1>1 DEF IInv, CurrentStored, Forgotten, Of, Stored, Free
<1>11. ProbesKnown'
  <2>1. \A k \in 1..Len(queue') : Known(queue'[k])
    BY <1>1, <1>2 DEF IInv, ProbesKnown
  <2>2. \A k \in Lanes : pend'[k] # None => Known(pend'[k])
    BY <1>4, <1>7 DEF IInv, ProbesKnown
  <2>. QED  BY <1>6, <2>1, <2>2 DEF ProbesKnown
<1>12. RootsApart'
  <2>. SUFFICES ASSUME NEW k \in 1..Len(t), NEW m \in 1..Len(t), t[k].root = t[m].root
                PROVE  k = m
    BY <1>1 DEF RootsApart
  <2>1. k + 1 = m + 1
    BY <1>2 DEF IInv, RootsApart
  <2>. QED  BY <2>1
<1>13. OneProbePerKey'
  <2>1. \A k \in Busy' : k = l \/ k \in Busy
    BY <1>7 DEF Busy
  <2>2. ASSUME NEW k \in Busy', NEW m \in Busy', Key(pend'[k]) = Key(pend'[m])
        PROVE  k = m
    <3>1. \A j \in Busy : j # l /\ Key(pend[j]) # Key(h) /\ j \in Lanes
      BY <1>1, <1>4 DEF IInv, OneProbePerKey, Busy
    <3>. QED  BY <1>7, <2>1, <2>2, <3>1 DEF IInv, OneProbePerKey
  <2>3. \A k \in Busy' : Key(pend'[k]) \in inflight'
    <3>. SUFFICES ASSUME NEW k \in Busy' PROVE Key(pend'[k]) \in inflight'
      OBVIOUS
    <3>1. CASE k = l
      BY <1>1, <1>7, <3>1
    <3>2. CASE k # l
      <4>1. k \in Busy /\ pend'[k] = pend[k]
        BY <1>7, <2>1, <3>2 DEF Busy
      <4>. QED  BY <1>1, <4>1 DEF IInv, OneProbePerKey
    <3>. QED  BY <3>1, <3>2
  <2>4. ASSUME NEW k \in 1..Len(t) PROVE Key(t[k]) \notin inflight'
    <3>1. k + 1 \in 1..Len(queue) /\ t[k] = queue[k + 1] /\ k + 1 # 1
      BY <1>2
    <3>2. queue[k + 1].root # queue[1].root
      BY <1>3, <3>1 DEF IInv, RootsApart
    <3>3. Key(t[k]) # Key(h)
      BY <1>2, <3>1, <3>2 DEF Key
    <3>. QED  BY <1>1, <3>1, <3>3 DEF IInv, OneProbePerKey
  <2>. QED  BY <1>1, <1>6, <2>2, <2>3, <2>4 DEF OneProbePerKey
<1>. QED  BY <1>8, <1>9, <1>10, <1>11, <1>12, <1>13 DEF IInv, Histories

(* A saved revision is current for its family, and no probe that was known *)
(* becomes unknown or changes its key.                                     *)
LEMMA SaveKeeps ==
  ASSUME IInv, NEW i \in Free, NEW r \in Revision, Save(i, r)
  PROVE  /\ revs' \in [Ids -> {None} \cup Revision]
         /\ current' \in [Families -> {None} \cup Ids]
         /\ CurrentStored'
         /\ \A p \in Probe : Known(p) => Known(p)' /\ Key(p)' = Key(p)
<1>1. TypeOK /\ r.fam \in Families
  BY RevisionParts DEF IInv
<1>2. revs' = [revs EXCEPT ![i] = r] /\ current' = [current EXCEPT ![r.fam] = i]
  BY DEF Save
<1>3. /\ i \in Ids /\ Stored' = Stored \cup {i}
      /\ \A j \in Stored : revs'[j] = revs[j]
      /\ \A f \in Families : Of(f) \subseteq Of(f)'
      /\ i \in Of(r.fam)' /\ revs' \in [Ids -> {None} \cup Revision]
  BY <1>1, <1>2, SavedInStore
<1>4. /\ current' \in [Families -> {None} \cup Ids] /\ current'[r.fam] = i
      /\ \A f \in Families : f # r.fam => current'[f] = current[f]
  BY <1>1, <1>2, <1>3 DEF TypeOK
<1>5. i # None
  BY <1>3, IdsAssumption
<1>6. CurrentStored'
  <2>. SUFFICES ASSUME NEW f \in Families, current'[f] # None
                PROVE  current'[f] \in Of(f)'
    BY DEF CurrentStored
  <2>1. CASE f = r.fam
    BY <1>3, <1>4, <2>1
  <2>2. CASE f # r.fam
    <3>1. current'[f] \in Of(f)
      BY <1>4, <2>2 DEF IInv, CurrentStored
    <3>. QED  BY <1>3, <3>1
  <2>. QED  BY <2>1, <2>2
<1>7. /\ \A j \in Stored : j \in Stored' /\ revs'[j] = revs[j]
      /\ \A f \in Families : current[f] # None => current'[f] # None
  BY <1>3, <1>4, <1>5
<1>. QED  BY <1>1, <1>3, <1>4, <1>6, <1>7, KeysKept

LEMMA TerminalInv ==
  ASSUME IInv, NEW f \in Families, NEW i \in Ids, TerminalFirst(f, i)
  PROVE  IInv'
<1> DEFINE r == [fam |-> f, prev |-> None, seq |-> seq, status |-> "candidate",
                 sup |-> 0, con |-> 0, amb |-> 0, last |-> None]
<1>1. /\ i \in Free /\ Save(i, r) /\ running
      /\ seq' = seq /\ queue' = queue /\ inflight' = inflight /\ pend' = pend
      /\ running' = running /\ stops' = stops
  BY DEF TerminalFirst
<1>2. r \in Revision
  BY DEF IInv, TypeOK, Revision, Statuses
<1>3. /\ revs' \in [Ids -> {None} \cup Revision]
      /\ current' \in [Families -> {None} \cup Ids] /\ CurrentStored'
      /\ \A p \in Probe : Known(p) => Known(p)' /\ Key(p)' = Key(p)
  BY <1>1, <1>2, SaveKeeps
<1>4. Histories'
  <2>1. Starts(r) /\ r.seq = seq
    BY DEF Starts
  <2>2. revs' = [revs EXCEPT ![i] = r]
    BY <1>1 DEF Save
  <2>. HIDE DEF r
  <2>. QED  BY <1>1, <1>2, <2>1, <2>2, HistoriesSaved DEF IInv, Histories
<1>. HIDE DEF r
<1>5. TypeOK'
  BY <1>1, <1>3 DEF IInv, TypeOK
<1>6. RootsApart' /\ Forgotten'
  BY <1>1 DEF IInv, RootsApart, Forgotten
<1>7. /\ \A n \in 1..Len(queue) : queue[n] \in Probe /\ Known(queue[n])
      /\ \A l \in Lanes : pend[l] # None => pend[l] \in Probe /\ Known(pend[l])
  BY QueuedProbe, PendingProbe DEF IInv, ProbesKnown
<1>8. ProbesKnown'
  BY <1>1, <1>3, <1>7 DEF ProbesKnown
<1>9. OneProbePerKey'
  <2>1. Busy' = Busy
    BY <1>1 DEF Busy
  <2>2. \A l \in Busy : Key(pend[l])' = Key(pend[l])
    <3>. SUFFICES ASSUME NEW l \in Busy PROVE Key(pend[l])' = Key(pend[l])
      OBVIOUS
    <3>1. l \in Lanes /\ pend[l] # None /\ pend'[l] = pend[l]
      BY <1>1 DEF Busy
    <3>2. \A p \in Probe : Known(p) => Key(p)' = Key(p)
      BY <1>3
    <3>. QED  BY <1>1, <1>7, <3>1, <3>2 DEF Key, FamilyOf
  <2>3. \A n \in 1..Len(queue) : Key(queue[n])' = Key(queue[n])
    <3>. SUFFICES ASSUME NEW n \in 1..Len(queue) PROVE Key(queue[n])' = Key(queue[n])
      OBVIOUS
    <3>1. queue'[n] = queue[n]
      BY <1>1
    <3>2. \A p \in Probe : Known(p) => Key(p)' = Key(p)
      BY <1>3
    <3>. QED  BY <1>1, <1>7, <3>1, <3>2 DEF Key, FamilyOf
  <2>. QED  BY <1>1, <2>1, <2>2, <2>3 DEF IInv, OneProbePerKey
<1>. QED  BY <1>3, <1>4, <1>5, <1>6, <1>8, <1>9 DEF IInv, Histories

(* An outcome: its key is released, and no other lane's order holds it.    *)
LEMMA OutcomeInv ==
  ASSUME IInv, NEW l \in Lanes, NEW o \in ProbeEnds, NEW i \in Ids,
         ProbeOutcome(l, o, i)
  PROVE  IInv'
<1> DEFINE p == pend[l]
           r == Updated(Base(p), o)
<1>1. /\ running /\ p # None /\ i \in Free /\ Save(i, r)
      /\ inflight' = inflight \ {Key(p)} /\ pend' = [pend EXCEPT ![l] = None]
      /\ seq' = seq /\ queue' = queue /\ running' = running /\ stops' = stops
  BY DEF ProbeOutcome
<1>2. p \in Probe /\ Known(p) /\ o \in Outcomes
  BY <1>1, PendingProbe, Judgements DEF IInv, ProbesKnown
<1>3. r \in Revision /\ r.seq = seq /\ Continues(r)
  BY <1>2, UpdatedContinues DEF IInv, Histories
<1>. HIDE DEF r
<1>4. /\ revs' \in [Ids -> {None} \cup Revision]
      /\ current' \in [Families -> {None} \cup Ids] /\ CurrentStored'
      /\ \A q \in Probe : Known(q) => Known(q)' /\ Key(q)' = Key(q)
  BY <1>1, <1>3, SaveKeeps
<1>5. Histories'
  <2>1. revs' = [revs EXCEPT ![i] = r]
    BY <1>1 DEF Save
  <2>. QED  BY <1>1, <1>3, <2>1, HistoriesSaved DEF IInv, Histories
<1>6. pend'[l] = None /\ \A k \in Lanes : k # l => pend'[k] = pend[k]
  BY <1>1 DEF IInv, TypeOK
<1>7. TypeOK'
  <2>1. pend' \in [Lanes -> {None} \cup Probe] /\ inflight' \subseteq Roots \X Profiles
    BY <1>1 DEF IInv, TypeOK
  <2>. QED  BY <1>1, <1>4, <2>1 DEF IInv, TypeOK
<1>8. RootsApart' /\ Forgotten'
  BY <1>1 DEF IInv, RootsApart, Forgotten
<1>9. /\ \A n \in 1..Len(queue) : queue[n] \in Probe /\ Known(queue[n])
      /\ \A k \in Lanes : pend[k] # None => pend[k] \in Probe /\ Known(pend[k])
  BY QueuedProbe, PendingProbe DEF IInv, ProbesKnown
<1>10. ProbesKnown'
  <2>1. ASSUME NEW n \in 1..Len(queue) PROVE Known(queue[n])'
    <3>1. queue'[n] = queue[n] /\ queue[n] \in Probe /\ Known(queue[n])
      BY <1>1, <1>9
    <3>2. \A q \in Probe : Known(q) => Known(q)'
      BY <1>4
    <3>. QED  BY <3>1, <3>2 DEF Known, FamilyOf
  <2>2. ASSUME NEW k \in Lanes, pend'[k] # None PROVE Known(pend[k])'
    <3>1. pend'[k] = pend[k] /\ pend[k] \in Probe /\ Known(pend[k])
      BY <1>6, <1>9, <2>2
    <3>2. \A q \in Probe : Known(q) => Known(q)'
      BY <1>4
    <3>. QED  BY <3>1, <3>2 DEF Known, FamilyOf
  <2>. QED  BY <1>1, <2>1, <2>2 DEF ProbesKnown
<1>11. OneProbePerKey'
  <2>1. \A k \in Busy' : k # l /\ k \in Busy /\ k \in Lanes /\ pend'[k] = pend[k]
    BY <1>6 DEF Busy
  <2>2. l \in Busy
    BY <1>1 DEF Busy
  <2>3. ASSUME NEW k \in Busy' PROVE Key(pend[k])' = Key(pend[k])
    <3>1. pend[k] \in Probe /\ Known(pend[k]) /\ pend'[k] = pend[k]
      BY <1>9, <2>1 DEF Busy
    <3>2. \A q \in Probe : Known(q) => Key(q)' = Key(q)
      BY <1>4
    <3>. QED  BY <3>1, <3>2 DEF Key, FamilyOf
  <2>4. ASSUME NEW n \in 1..Len(queue) PROVE Key(queue[n])' = Key(queue[n])
    <3>1. queue'[n] = queue[n]
      BY <1>1
    <3>2. \A q \in Probe : Known(q) => Key(q)' = Key(q)
      BY <1>4
    <3>. QED  BY <1>9, <3>1, <3>2 DEF Key, FamilyOf
  <2>5. \A k \in Busy' : Key(pend[k]) # Key(p) /\ Key(pend[k]) \in inflight
    BY <2>1, <2>2 DEF IInv, OneProbePerKey
  <2>6. \A k, m \in Busy' : Key(pend[k])' = Key(pend[m])' => k = m
    BY <2>1, <2>3 DEF IInv, OneProbePerKey
  <2>7. \A k \in Busy' : Key(pend[k])' \in inflight'
    BY <1>1, <2>3, <2>5
  <2>8. \A n \in 1..Len(queue') : Key(queue[n])' \notin inflight'
    BY <1>1, <2>4 DEF IInv, OneProbePerKey
  <2>. QED  BY <2>6, <2>7, <2>8 DEF OneProbePerKey
<1>. QED  BY <1>4, <1>5, <1>7, <1>8, <1>10, <1>11 DEF IInv, Histories

(* A probe that is given up is out no more. *)
LEMMA LostInv ==
  ASSUME IInv, NEW l \in Lanes, ProbeLost(l)
  PROVE  IInv'
<1>1. /\ revs' = revs /\ seq' = seq /\ current' = current /\ queue' = queue
      /\ inflight' = inflight /\ pend' = [pend EXCEPT ![l] = None]
      /\ running' = running /\ stops' = stops /\ running
  BY DEF ProbeLost, store
<1>2. pend'[l] = None /\ \A k \in Lanes : k # l => pend'[k] = pend[k]
  BY <1>1 DEF IInv, TypeOK
<1>3. TypeOK'
  BY <1>1 DEF IInv, TypeOK
<1>4. Histories'
  <2>1. seq \in Nat /\ seq <= seq
    BY LimitsAssumption DEF IInv, TypeOK
  <2>. QED  BY <1>1, <2>1, HistoriesKept DEF IInv, Histories
<1>5. CurrentStored' /\ RootsApart' /\ Forgotten'
  BY <1>1 DEF IInv, CurrentStored, RootsApart, Forgotten, Of, Stored, Free
<1>6. \A p : Known(p)' = Known(p) /\ Key(p)' = Key(p)
  BY <1>1 DEF Known, Key, FamilyOf, Stored, Free
<1>7. ProbesKnown'
  <2>1. \A k \in Lanes : pend'[k] # None => Known(pend'[k])
    BY <1>2 DEF IInv, ProbesKnown
  <2>. QED  BY <1>1, <1>6, <2>1 DEF IInv, ProbesKnown
<1>8. OneProbePerKey'
  <2>1. \A k \in Busy' : k \in Busy /\ pend'[k] = pend[k]
    BY <1>2 DEF Busy
  <2>. QED  BY <1>1, <1>6, <2>1 DEF IInv, OneProbePerKey
<1>. QED  BY <1>3, <1>4, <1>5, <1>7, <1>8 DEF IInv, Histories

(* The end of a campaign: nothing is named any more. *)
LEMMA StopInv ==
  ASSUME IInv, Stop
  PROVE  IInv'
<1>1. /\ revs' = revs /\ seq' = seq /\ running' = FALSE
      /\ stops < MaxStops /\ stops' = stops + 1
      /\ current' = NoBank /\ queue' = <<>> /\ inflight' = {} /\ pend' = NoOrders
  BY DEF Stop, store
<1>2. TypeOK'
  <2>1. stops' \in 0..MaxStops
    BY <1>1, LimitsAssumption DEF IInv, TypeOK
  <2>2. <<>> \in Seq(Probe) /\ Len(<<>>) = 0
    OBVIOUS
  <2>3. /\ current' \in [Families -> {None} \cup Ids]
        /\ pend' \in [Lanes -> {None} \cup Probe]
    BY <1>1 DEF NoBank, NoOrders
  <2>4. queue' \in Seq(Probe) /\ Len(queue') <= MaxProbes
    BY <1>1, <2>2, LimitsAssumption
  <2>5. /\ revs' \in [Ids -> {None} \cup Revision] /\ seq' \in 0..MaxAdmissions
        /\ running' \in BOOLEAN /\ inflight' \subseteq Roots \X Profiles
    BY <1>1 DEF IInv, TypeOK
  <2>. QED  BY <2>1, <2>3, <2>4, <2>5 DEF TypeOK
<1>3. Histories'
  <2>1. seq \in Nat /\ seq <= seq
    BY LimitsAssumption DEF IInv, TypeOK
  <2>. QED  BY <1>1, <2>1, HistoriesKept DEF IInv, Histories
<1>4. Forgotten'
  BY <1>1 DEF Forgotten, NoBank, NoOrders
<1>5. CurrentStored' /\ ProbesKnown' /\ RootsApart' /\ OneProbePerKey'
  BY <1>1 DEF CurrentStored, ProbesKnown, RootsApart, OneProbePerKey, Busy,
              NoBank, NoOrders
<1>. QED  BY <1>2, <1>3, <1>4, <1>5 DEF IInv, Histories

(* A restart: the bank is what the store holds of each family. *)
LEMMA StartInv ==
  ASSUME IInv, Start
  PROVE  IInv'
<1>1. /\ revs' = revs /\ seq' = seq /\ running' = TRUE /\ stops' = stops
      /\ current' = [f \in Families |-> Loaded(f)]
      /\ queue' = <<>> /\ inflight' = {} /\ pend' = NoOrders
  BY DEF Start, store, IInv, Forgotten
<1>2. \A f \in Families : Loaded(f) = None \/ Loaded(f) \in Of(f)
  <2>. SUFFICES ASSUME NEW f \in Families
                PROVE  Loaded(f) = None \/ Loaded(f) \in Of(f)
    OBVIOUS
  <2>1. CASE Of(f) = {}
    BY <2>1 DEF Loaded
  <2>2. CASE Of(f) # {}
    BY <2>2, LoadedIsStored DEF IInv
  <2>. QED  BY <2>1, <2>2
<1>3. \A f \in Families : Of(f) \subseteq Ids
  BY DEF Of, Stored
<1>4. TypeOK'
  <2>1. current' \in [Families -> {None} \cup Ids]
    BY <1>1, <1>2, <1>3
  <2>2. <<>> \in Seq(Probe) /\ Len(<<>>) = 0
    OBVIOUS
  <2>. QED  BY <1>1, <2>1, <2>2, LimitsAssumption DEF IInv, TypeOK, NoOrders
<1>5. Histories'
  <2>1. seq \in Nat /\ seq <= seq
    BY LimitsAssumption DEF IInv, TypeOK
  <2>. QED  BY <1>1, <2>1, HistoriesKept DEF IInv, Histories
<1>6. CurrentStored'
  <2>1. \A f \in Families : Of(f)' = Of(f)
    BY <1>1 DEF Of, Stored, Free
  <2>. QED  BY <1>1, <1>2, <2>1 DEF CurrentStored
<1>7. Forgotten' /\ ProbesKnown' /\ RootsApart' /\ OneProbePerKey'
  BY <1>1 DEF Forgotten, ProbesKnown, RootsApart, OneProbePerKey, Busy, NoOrders
<1>. QED  BY <1>4, <1>5, <1>6, <1>7 DEF IInv, Histories

-----------------------------------------------------------------------------
LEMMA NextInv == IInv /\ [Next]_vars => IInv'
<1>. SUFFICES ASSUME IInv, [Next]_vars PROVE IInv'
  OBVIOUS
<1>1. CASE UNCHANGED vars
  <2>1. /\ revs' = revs /\ seq' = seq /\ current' = current /\ queue' = queue
        /\ inflight' = inflight /\ pend' = pend
        /\ running' = running /\ stops' = stops
    BY <1>1 DEF vars, store, memory
  <2>2. TypeOK' /\ CurrentStored' /\ RootsApart' /\ Forgotten' /\ SeqsPast'
    BY <2>1 DEF IInv, TypeOK, CurrentStored, RootsApart, Forgotten, SeqsPast,
                Of, Stored, Free
  <2>3. ProbesKnown' /\ OneProbePerKey'
    BY <2>1 DEF IInv, ProbesKnown, OneProbePerKey, Busy, Known, Key, FamilyOf,
                Stored, Free
  <2>4. EveryOutcomeCounted' /\ StatusFollowsHistory'
    BY <2>1 DEF IInv, EveryOutcomeCounted, StatusFollowsHistory, Of, Stored, Free
  <2>. QED  BY <2>2, <2>3, <2>4 DEF IInv
<1>2. ASSUME NEW r \in Roots, NEW f \in Families, AdmitAndMatch(r, f) PROVE IInv'
  BY <1>2, MatchInv
<1>3. ASSUME NEW l \in Lanes, Dispatch(l) PROVE IInv'
  BY <1>3, DispatchInv
<1>4. ASSUME NEW f \in Families, NEW i \in Ids, TerminalFirst(f, i) PROVE IInv'
  BY <1>4, TerminalInv
<1>5. ASSUME NEW l \in Lanes, NEW o \in ProbeEnds, NEW i \in Ids, ProbeOutcome(l, o, i)
      PROVE  IInv'
  BY <1>5, OutcomeInv
<1>6. ASSUME NEW l \in Lanes, ProbeLost(l) PROVE IInv'
  BY <1>6, LostInv
<1>7. CASE Admit
  BY <1>7, AdmitInv
<1>8. CASE Stop
  BY <1>8, StopInv
<1>9. CASE Start
  BY <1>9, StartInv
<1>10. CASE Rest
  BY <1>1, <1>10 DEF Rest
<1>. QED  BY <1>1, <1>2, <1>3, <1>4, <1>5, <1>6, <1>7, <1>8, <1>9, <1>10 DEF Next

(* The bank's variables have their types, and memory names stored revisions.*)
THEOREM BankInvariant == Spec => []IInv
BY InitInv, NextInv, PTL DEF Spec

(* One live lineage is never probed twice at once for one profile, however *)
(* deaths, outcomes, matches and restarts interleave.                      *)
THEOREM NoDoubleProbe == Spec => []OneProbePerKey
<1>1. IInv => OneProbePerKey
  BY DEF IInv
<1>. QED  BY <1>1, BankInvariant, PTL

(* Each revision counts what its predecessor counted and one outcome more. *)
THEOREM OutcomesAreCounted == Spec => []EveryOutcomeCounted
<1>1. IInv => EveryOutcomeCounted
  BY DEF IInv
<1>. QED  BY <1>1, BankInvariant, PTL

(* Contradicted is terminal, and reached exactly by a direct refutation or *)
(* by enough contradictions.                                               *)
THEOREM RefutationIsTerminal == Spec => []StatusFollowsHistory
<1>1. IInv => StatusFollowsHistory
  BY DEF IInv
<1>. QED  BY <1>1, BankInvariant, PTL

-----------------------------------------------------------------------------
(* The shapes a crash is remembered by. *)

(* Shapes kept with the generations they were reached in. *)
Dated(h) == \E K : h \in Seq(K) /\ \A x \in K : x.depth \in Nat

(* p is remembered by the shape choose_precursor took from the history.    *)
Remembers(p) ==
  /\ Dated(p.seen) /\ p.terminal \in Nat
  /\ \E k \in ChoosePrecursor(p.seen, p.terminal) :
       /\ p.depth = p.seen[k].depth
       /\ p.profile = ProfileOf(p.seen[k].sig)
       /\ ~(p.terminal < p.depth + Lookback)

ShapesInv ==
  /\ line \in Seq([gen : Nat, obs : Observations])
  /\ Dated(history)
  /\ \A p \in bank : Remembers(p)

LEMMA DatedAt ==
  ASSUME NEW h, Dated(h)
  PROVE  Len(h) \in Nat /\ \A n \in 1..Len(h) : h[n].depth \in Nat
BY DEF Dated

LEMMA RememberedIsDated ==
  ASSUME NEW h, Dated(h), NEW depth \in Nat, NEW sig
  PROVE  Dated(Remembered(h, depth, sig))
<1> DEFINE x == [depth |-> depth, sig |-> sig]
           kept == Append(h, x)
<1>1. PICK K : h \in Seq(K) /\ \A y \in K : y.depth \in Nat
  BY DEF Dated
<1> DEFINE L == K \cup {x}
<1>2. \A y \in L : y.depth \in Nat
  BY <1>1
<1> HIDE DEF x
<1>3. h \in Seq(L) /\ kept \in Seq(L) /\ kept # <<>>
  BY <1>1
<1> HIDE DEF kept
<1>4. Tail(kept) \in Seq(L)
  BY <1>3
<1>5. Remembered(h, depth, sig) \in Seq(L)
  BY <1>3, <1>4 DEF Remembered, kept, x
<1> HIDE DEF L
<1>. QED  BY <1>2, <1>5 DEF Dated

LEMMA EarliestIs ==
  ASSUME NEW ns, ns \subseteq Nat, ns # {}
  PROVE  Earliest(ns) \in ns /\ \A n \in ns : Earliest(ns) <= n
BY Least DEF Earliest

(* In a history in which the generations only rise, the last is deepest.   *)
LEMMA LastIsDeepest ==
  ASSUME NEW h, Dated(h), Ascending(h), NEW n \in 1..Len(h), n # Len(h)
  PROVE  h[n].depth < h[Len(h)].depth
<1> DEFINE T == {k \in 1..Len(h) : n < k /\ ~(h[n].depth < h[k].depth)}
<1>1. Len(h) \in Nat /\ \A k \in 1..Len(h) : h[k].depth \in Nat
  BY DatedAt
<1>2. SUFFICES ASSUME T # {} PROVE FALSE
  <2>1. Len(h) \in 1..Len(h) /\ n < Len(h)
    BY <1>1
  <2>. QED  BY <1>2, <2>1
<1>3. PICK k \in T : \A j \in T : k <= j
  <2>1. T \subseteq Nat
    BY <1>1
  <2> HIDE DEF T
  <2>. QED  BY <1>2, <2>1, Least
<1>4. k \in 1..Len(h) /\ n < k /\ ~(h[n].depth < h[k].depth)
  BY <1>3
<1>5. k - 1 \in 1..Len(h) /\ k - 1 \in 1..(Len(h) - 1) /\ k - 1 \notin T
  BY <1>1, <1>3, <1>4
<1>6. h[k - 1].depth < h[k].depth
  <2>1. (k - 1) + 1 = k
    BY <1>4, <1>1
  <2>. QED  BY <1>5, <2>1 DEF Ascending
<1>7. k - 1 = n \/ h[n].depth < h[k - 1].depth
  BY <1>1, <1>4, <1>5
<1>8. h[n].depth \in Nat /\ h[k].depth \in Nat /\ h[k - 1].depth \in Nat
  BY <1>1, <1>4, <1>5
<1>. QED  BY <1>4, <1>6, <1>7, <1>8

(* A shape recognises each shape of the same identity.                     *)
LEMMA SameShapeSubsumes ==
  ASSUME NEW s, NEW t, StructuralIdentity(s) = StructuralIdentity(t)
  PROVE  SubsumedBy(ProfileOf(s), t)
BY DEF StructuralIdentity, ProfileOf, SubsumedBy

LEMMA RememberedIsRecognised ==
  ASSUME NEW p, Remembers(p), Ascending(p.seen), Gradual(p.seen),
         NEW n \in InRange(p.seen, p.terminal - Lookback),
         n + 1 \in InRange(p.seen, p.terminal - Lookback),
         ProfileOf(p.seen[n + 1].sig) = ProfileOf(p.seen[n].sig)
  PROVE  \E m \in InRange(p.seen, p.terminal - Lookback) :
           ShapeMatches(p, p.seen[m].sig, p.seen[m].depth)
<1> DEFINE h == p.seen
           cutoff == Cutoff(p.terminal)
           usable == InRange(h, cutoff)
           onsets == {k \in usable : \/ Persists(h, k, cutoff)
                                     \/ h[k].depth = h[Len(h)].depth}
<1>1. PICK k \in ChoosePrecursor(h, p.terminal) :
               /\ p.depth = h[k].depth
               /\ p.profile = ProfileOf(h[k].sig)
               /\ ~(p.terminal < p.depth + Lookback)
  BY DEF Remembers
<1>2. Len(h) \in Nat /\ \A j \in 1..Len(h) : h[j].depth \in Nat
  BY DatedAt DEF Remembers
<1>3. p.terminal \in Nat /\ Lookback \in Nat /\ LeadMax \in Nat
  BY ShapesAssumption DEF Remembers
<1>4. n \in 1..Len(h) /\ n + 1 \in 1..Len(h)
  BY DEF InRange
<1>5. cutoff = p.terminal - Lookback
  <2>1. 2 <= h[n].depth /\ h[n].depth <= p.terminal - Lookback
    BY DEF InRange
  <2>2. h[n].depth \in Nat
    BY <1>2, <1>4
  <2>. QED  BY <1>3, <2>1, <2>2 DEF Cutoff
<1> HIDE DEF cutoff
<1>6. n \in onsets
  <2>1. StructuralIdentity(h[n + 1].sig) = StructuralIdentity(h[n].sig)
    BY DEF ProfileOf, StructuralIdentity
  <2>2. n < Len(h)
    BY <1>2, <1>4
  <2>3. h[n + 1].depth <= cutoff
    BY <1>5 DEF InRange
  <2>4. n \in usable
    BY <1>5
  <2>. QED  BY <2>1, <2>2, <2>3, <2>4 DEF Persists
<1>7. ChoosePrecursor(h, p.terminal) = {Earliest(onsets)}
  BY <1>6 DEF ChoosePrecursor, cutoff
<1>8. onsets \subseteq 1..Len(h)
  BY DEF InRange
<1>9. k \in onsets /\ k <= n
  <2>1. onsets \subseteq Nat
    BY <1>2, <1>8
  <2> HIDE DEF onsets
  <2>. QED  BY <1>1, <1>6, <1>7, <2>1, EarliestIs
<1>10. k \in 1..Len(h) /\ k < Len(h)
  BY <1>2, <1>4, <1>8, <1>9
<1>11. Persists(h, k, cutoff)
  <2>1. h[k].depth < h[Len(h)].depth
    BY <1>10, LastIsDeepest DEF Remembers
  <2>2. h[k].depth \in Nat
    BY <1>2, <1>10
  <2>3. h[k].depth # h[Len(h)].depth
    BY <2>1, <2>2
  <2>. QED  BY <1>9, <2>3
<1>12. k + 1 \in 1..Len(h) /\ k \in 1..(Len(h) - 1)
  BY <1>2, <1>10
<1>13. h[k].depth < h[k + 1].depth /\ h[k + 1].depth <= h[k].depth + LeadMax
  BY <1>12 DEF Ascending, Gradual
<1>14. h[k].depth \in Nat /\ h[k + 1].depth \in Nat /\ 2 <= h[k].depth
  BY <1>2, <1>9, <1>10, <1>12 DEF InRange
<1>15. k + 1 \in InRange(h, p.terminal - Lookback)
  BY <1>5, <1>11, <1>12, <1>13, <1>14 DEF Persists, InRange
<1>16. SubsumedBy(p.profile, h[k + 1].sig)
  BY <1>1, <1>11, SameShapeSubsumes DEF Persists
<1>17. ShapeMatches(p, h[k + 1].sig, h[k + 1].depth)
  BY <1>1, <1>3, <1>13, <1>14, <1>16 DEF ShapeMatches
<1>. QED  BY <1>15, <1>17

LEMMA ShapesStart == ShapesInit => ShapesInv
<1> SUFFICES ASSUME ShapesInit PROVE ShapesInv
  OBVIOUS
<1>1. line \in Seq([gen : Nat, obs : Observations])
  <2>1. PICK v \in Observations : line = <<[gen |-> 0, obs |-> v]>>
    BY DEF ShapesInit
  <2>2. [gen |-> 0, obs |-> v] \in [gen : Nat, obs : Observations]
    OBVIOUS
  <2>. QED  BY <2>1, <2>2
<1>2. Dated(history)
  <2>1. history \in Seq({})
    BY DEF ShapesInit
  <2>. QED  BY <2>1 DEF Dated
<1>. QED  BY <1>1, <1>2 DEF ShapesInit, ShapesInv

LEMMA NextGeneration ==
  ASSUME ShapesInv, NEW n \in 1..Len(line)
  PROVE  line[n].gen + 1 \in Nat
<1> DEFINE Entry == [gen : Nat, obs : Observations]
<1>1. line \in Seq(Entry)
  BY DEF ShapesInv
<1> HIDE DEF Entry
<1>2. line[n] \in Entry
  BY <1>1
<1>. QED  BY <1>2 DEF Entry

LEMMA LineGrows ==
  ASSUME ShapesInv, NEW n \in 1..Len(line), NEW v \in Observations,
         line' = Append(line, Child(n, v))
  PROVE  line' \in Seq([gen : Nat, obs : Observations])
<1>1. line[n].gen + 1 \in Nat
  BY NextGeneration
<1>2. Child(n, v) \in [gen : Nat, obs : Observations]
  BY <1>1 DEF Child
<1>. QED  BY <1>2 DEF ShapesInv

LEMMA ShapesStep == ShapesInv /\ [ShapesNext]_shapeVars => ShapesInv'
<1> SUFFICES ASSUME ShapesInv, [ShapesNext]_shapeVars PROVE ShapesInv'
  OBVIOUS
<1>1. ASSUME NEW n \in 1..Len(line), NEW v \in Observations, Grow(n, v) PROVE ShapesInv'
  <2> DEFINE sig == SignatureOf(Folded(acc, Residual(v, line[n].obs)), Residual(v, line[n].obs))
             depth == line[n].gen + 1
  <2>1. line' = Append(line, Child(n, v)) /\ bank' = bank
    BY <1>1 DEF Grow
  <2>2. depth \in Nat
    BY NextGeneration
  <2>3. history' = Remembered(history, depth, sig)
    BY <1>1 DEF Grow
  <2> HIDE DEF sig, depth
  <2>4. Dated(Remembered(history, depth, sig))
    BY <2>2, RememberedIsDated DEF ShapesInv
  <2>. QED  BY <2>1, <2>3, <2>4, LineGrows DEF ShapesInv
<1>2. ASSUME NEW n \in 1..Len(line), NEW v \in Observations, GrowForeign(n, v)
      PROVE  ShapesInv'
  BY <1>2, LineGrows DEF GrowForeign, ShapesInv
<1>3. ASSUME NEW n \in 1..Len(line), CrashOf(n) PROVE ShapesInv'
  <2> DEFINE terminal == line[n].gen + 1
  <2>1. terminal \in Nat
    BY NextGeneration
  <2>2. UNCHANGED <<line, history>>
    BY <1>3 DEF CrashOf
  <2>3. PICK k \in ChoosePrecursor(history, terminal) :
          \E p \in CreateFromTerminal(history[k].sig, history[k].depth, terminal) :
            bank' = bank \cup {p}
    BY <1>3 DEF CrashOf
  <2>4. PICK p \in CreateFromTerminal(history[k].sig, history[k].depth, terminal) :
          bank' = bank \cup {p}
    BY <2>3
  <2> HIDE DEF terminal
  <2>5. /\ p = [depth |-> history[k].depth, profile |-> ProfileOf(history[k].sig),
                terminal |-> terminal, seen |-> history]
        /\ ~(terminal < history[k].depth + Lookback)
    BY <2>4 DEF CreateFromTerminal
  <2>6. Remembers(p)
    BY <2>1, <2>3, <2>5 DEF Remembers, ShapesInv
  <2>7. \A q \in bank' : Remembers(q)
    BY <2>4, <2>6 DEF ShapesInv
  <2>. QED  BY <2>2, <2>7 DEF ShapesInv
<1>4. CASE ShapesRest \/ UNCHANGED shapeVars
  BY <1>4 DEF ShapesRest, shapeVars, ShapesInv
<1>. QED  BY <1>1, <1>2, <1>3, <1>4 DEF ShapesNext

THEOREM ShapesInvariant == ShapesSpec => []ShapesInv
BY ShapesStart, ShapesStep, PTL DEF ShapesSpec

(* A crash is remembered by a shape that recognises a repetition in time.  *)
THEOREM ShapesAreRecognised == ShapesSpec => []PersistedShapeIsRecognised
<1>1. ShapesInv => PersistedShapeIsRecognised
  <2> SUFFICES ASSUME ShapesInv, NEW p \in bank,
                      Ascending(p.seen), Gradual(p.seen),
                      NEW n \in InRange(p.seen, p.terminal - Lookback),
                      n + 1 \in InRange(p.seen, p.terminal - Lookback),
                      ProfileOf(p.seen[n + 1].sig) = ProfileOf(p.seen[n].sig)
               PROVE  \E m \in InRange(p.seen, p.terminal - Lookback) :
                        ShapeMatches(p, p.seen[m].sig, p.seen[m].depth)
    BY DEF PersistedShapeIsRecognised
  <2>. QED  BY RememberedIsRecognised DEF ShapesInv
<1>. QED  BY <1>1, ShapesInvariant, PTL
=============================================================================
