-------------------------- MODULE ExecutionProofs --------------------------
(***************************************************************************)
(* Theorems about the campaign loop, for any number of lanes, any limits   *)
(* and any number of deaths; and about one lane's execution, for any set   *)
(* of inputs, any crashing and hanging ones, any batch size and any number *)
(* of orders and kills.                                                    *)
(***************************************************************************)
EXTENDS Campaign, WorkerLane, FiniteSetTheorems, TLAPS

(* Dispatch has served the lanes below its cursor, so the poll starts with *)
(* every lane served; a death therefore always finds a pending order, and  *)
(* is never counted as a startup death.                                    *)
Served == phase = "dispatch" => \A l \in Lanes : l < at => pending[l]

NeverCounted == startup = [l \in Lanes |-> 0]

IInv == TypeOK /\ Served /\ EveryLaneHasWork /\ NeverCounted

-----------------------------------------------------------------------------
(* The cursor stays on a lane, and the lane after the last one is lane 0.  *)
LEMMA NextLaneIsLane == at \in Lanes => 0 \in Lanes /\ NextLane \in Lanes
BY WorkersAssumption DEF NextLane, LastLane, Lanes

LEMMA InitIInv == Init => IInv
<1> SUFFICES ASSUME Init PROVE IInv
  OBVIOUS
<1>1. 0 \in Lanes
  BY WorkersAssumption DEF Lanes
<1>2. TypeOK
  BY <1>1, BoundsAssumption DEF Init, TypeOK
<1>3. Served
  BY DEF Init, Served, Lanes
<1>4. EveryLaneHasWork /\ NeverCounted
  BY DEF Init, EveryLaneHasWork, NeverCounted
<1>5. QED BY <1>2, <1>3, <1>4 DEF IInv

-----------------------------------------------------------------------------
(* Dispatch keeps the invariant: the lane it leaves behind is pending.     *)
LEMMA DispatchKeepsIInv ==
  ASSUME IInv, SkipLane \/ SendOrder \/ SendFails
  PROVE  IInv'
<1>1. TypeOK /\ at \in Lanes /\ pending \in [Lanes -> BOOLEAN]
  BY DEF IInv, TypeOK
<1>2. phase = "dispatch" /\ \A l \in Lanes : l < at => pending[l]
  BY DEF IInv, Served, SkipLane, SendOrder, SendFails
<1>3. NeverCounted'
  BY DEF IInv, NeverCounted, SkipLane, SendOrder, SendFails, books
<1>4. CASE SendFails
  <2>1. TypeOK'
    BY <1>1, <1>4 DEF TypeOK, SendFails, Abort, books, procs
  <2>2. Served' /\ EveryLaneHasWork'
    BY <1>4 DEF SendFails, Abort, Served, EveryLaneHasWork
  <2>3. QED BY <1>3, <2>1, <2>2 DEF IInv
<1>5. CASE SkipLane \/ SendOrder
  <2>1. Advance /\ pending' \in [Lanes -> BOOLEAN] /\ pending'[at]
        /\ \A l \in Lanes : pending[l] => pending'[l]
    BY <1>1, <1>5 DEF SkipLane, SendOrder, books
  <2>2. at' \in Lanes /\ phase' \in {"dispatch", "poll"}
    BY <1>1, <1>2, <2>1, WorkersAssumption
       DEF Advance, LastLane, FirstPoll, Lanes
  <2>3. Served'
    BY <1>1, <1>2, <2>1, WorkersAssumption DEF Served, Advance, LastLane, Lanes
  <2>4. EveryLaneHasWork'
    BY <1>1, <1>2, <2>1, WorkersAssumption
       DEF EveryLaneHasWork, Advance, LastLane, Lanes
  <2>5. inbox' \in [Lanes -> Seq({"order", "beat"})]
    <3>1. inbox \in [Lanes -> Seq({"order", "beat"})]
      BY <1>1 DEF TypeOK
    <3>2. CASE SkipLane
      BY <3>1, <3>2 DEF SkipLane, procs
    <3>3. CASE SendOrder
      <4>1. Append(inbox[at], "order") \in Seq({"order", "beat"})
        BY <1>1, <3>1
      <4>2. QED BY <3>1, <3>3, <4>1 DEF SendOrder
    <3>4. QED BY <1>5, <3>2, <3>3
  <2>6. TypeOK'
    BY <1>1, <1>5, <2>1, <2>2, <2>5
       DEF TypeOK, SkipLane, SendOrder, books, procs
  <2>7. QED BY <1>3, <2>3, <2>4, <2>6 DEF IInv
<1>6. QED BY <1>4, <1>5

(* The frame taken was a lane's own; the lane is idle and the poll over.   *)
LEMMA FrameKeepsIInv == IInv /\ TakeFrame => IInv'
<1> SUFFICES ASSUME IInv, TakeFrame PROVE IInv'
  OBVIOUS
<1>1. TypeOK /\ at \in Lanes
  BY DEF IInv, TypeOK
<1>2. Tail(outbox[at]) \in Seq({"result", "beat"})
  BY <1>1 DEF TypeOK, TakeFrame
<1>3. phase' \in {"check", "aborted"} /\ at' = at /\ saved' = saved
  BY DEF TakeFrame, Abort
<1>4. executions' \in Nat
  <2>1. executions \in Nat
    BY <1>1 DEF TypeOK
  <2>2. Counted(executions) \in Nat
    BY <2>1 DEF Counted
  <2>3. executions' \in {executions, Counted(executions)}
    BY DEF TakeFrame
  <2>4. QED BY <2>1, <2>2, <2>3
<1>5. pending' \in [Lanes -> BOOLEAN] /\ outbox' \in [Lanes -> Seq({"result", "beat"})]
  BY <1>1, <1>2 DEF TypeOK, TakeFrame
<1>6. TypeOK'
  BY <1>1, <1>3, <1>4, <1>5 DEF TypeOK, TakeFrame
<1>7. Served' /\ EveryLaneHasWork'
  BY <1>3 DEF Served, EveryLaneHasWork
<1>8. NeverCounted'
  BY DEF IInv, NeverCounted, TakeFrame
<1>9. QED BY <1>6, <1>7, <1>8 DEF IInv

(* A death is handled in the poll, where every lane has a pending order:   *)
(* the startup count of the lane is reset, never raised.                   *)
LEMMA DeathKeepsIInv ==
  ASSUME IInv, NEW attributed \in BOOLEAN, HandleDeath(attributed)
  PROVE  IInv'
<1>1. TypeOK /\ at \in Lanes /\ phase = "poll"
  BY DEF IInv, TypeOK, HandleDeath, SeesEof
<1>2. pending[at]
  BY <1>1 DEF IInv, EveryLaneHasWork
<1>3. startup' = [l \in Lanes |-> 0]
  BY <1>1, <1>2 DEF IInv, NeverCounted, HandleDeath, StartupAfter
<1>4. ~(startup'[at] >= MaxStartupDeaths)
  BY <1>1, <1>3, BoundsAssumption
<1>5. /\ phase' = "check" /\ at' = at /\ saved' = saved
      /\ worker' = [worker EXCEPT ![at] = "idle"]
      /\ inbox' = [inbox EXCEPT ![at] = <<>>]
      /\ outbox' = [outbox EXCEPT ![at] = <<>>]
  BY <1>4 DEF HandleDeath
<1>6. pending' \in [Lanes -> BOOLEAN]
  BY <1>1 DEF TypeOK, HandleDeath
<1>7. startup' \in [Lanes -> 0..MaxStartupDeaths]
  BY <1>3, BoundsAssumption
<1>8. TypeOK'
  BY <1>1, <1>5, <1>6, <1>7 DEF TypeOK, HandleDeath
<1>9. Served' /\ EveryLaneHasWork'
  BY <1>5 DEF Served, EveryLaneHasWork
<1>10. QED BY <1>3, <1>8, <1>9 DEF IInv, NeverCounted

(* The rest of the poll and the termination checks. *)
LEMMA PollAndCheckKeepIInv ==
  ASSUME IInv, RecoveryFails \/ PollTimesOut \/ Heartbeat \/ Finish \/ GoOn
  PROVE  IInv'
<1>1. TypeOK /\ at \in Lanes
  BY DEF IInv, TypeOK
<1>2. 0 \in Lanes /\ NextLane \in Lanes
  BY <1>1, NextLaneIsLane
<1>3. pending' = pending /\ NeverCounted'
  BY DEF IInv, NeverCounted, RecoveryFails, PollTimesOut, Heartbeat, Finish, GoOn, books
<1>4. CASE RecoveryFails
  <2>1. TypeOK'
    BY <1>1, <1>4, BoundsAssumption DEF TypeOK, RecoveryFails, Abort, books, procs
  <2>2. QED
    BY <1>3, <1>4, <2>1
       DEF IInv, RecoveryFails, Abort, Served, EveryLaneHasWork
<1>5. CASE PollTimesOut
  <2>1. TypeOK'
    BY <1>1, <1>2, <1>5 DEF TypeOK, PollTimesOut, books, procs
  <2>2. QED
    BY <1>3, <1>5, <2>1 DEF IInv, PollTimesOut, Served, EveryLaneHasWork
<1>6. CASE Heartbeat
  <2>1. \A l \in Lanes : inbox[l] \in Seq({"order", "beat"})
    BY <1>1 DEF TypeOK
  <2>2. inbox' \in [Lanes -> Seq({"order", "beat"})]
    BY <1>6, <2>1 DEF Heartbeat
  <2>3. TypeOK'
    <3>1. /\ phase' = phase /\ at' = NextLane /\ saved' = saved
          /\ pending' = pending /\ startup' = startup
          /\ executions' = executions /\ interrupted' = interrupted
          /\ worker' = worker /\ outbox' = outbox /\ limit' = limit
      BY <1>6 DEF Heartbeat, books
    <3>. QED  BY <1>1, <1>2, <2>2, <3>1 DEF TypeOK
  <2>4. QED
    BY <1>3, <1>6, <2>3 DEF IInv, Heartbeat, Served, EveryLaneHasWork
<1>7. CASE Finish
  <2>1. TypeOK'
    BY <1>1, <1>7 DEF TypeOK, Finish, books
  <2>2. QED
    BY <1>3, <1>7, <2>1 DEF IInv, Finish, Served, EveryLaneHasWork
<1>8. CASE GoOn
  <2>1. TypeOK'
    BY <1>1, <1>2, <1>8 DEF TypeOK, GoOn, books, procs
  <2>2. Served'
    BY <1>8 DEF GoOn, Served, Lanes
  <2>3. QED BY <1>3, <1>8, <2>1, <2>2 DEF IInv, GoOn, EveryLaneHasWork
<1>9. QED BY <1>4, <1>5, <1>6, <1>7, <1>8

-----------------------------------------------------------------------------
(* The processes and pipes have their types. *)
ProcsTyped ==
  /\ worker \in [Lanes -> {"idle", "busy", "gone"}]
  /\ inbox \in [Lanes -> Seq({"order", "beat"})]
  /\ outbox \in [Lanes -> Seq({"result", "beat"})]
  /\ interrupted \in BOOLEAN

(* Workers and the environment leave the coordinator's variables alone.    *)
LEMMA ProcessesKeepIInv ==
  ASSUME IInv, (\E l \in Lanes : Worker(l)) \/ Environment
  PROVE  IInv'
<1>1. TypeOK
  BY DEF IInv
<1>2. control' = control /\ books' = books /\ limit' = limit
  BY DEF Worker, StartOrder, FinishOrder, AnswerBeat, Environment, Die, Interrupt
<1>3. Served' /\ EveryLaneHasWork' /\ NeverCounted'
  BY <1>2 DEF IInv, Served, EveryLaneHasWork, NeverCounted, control, books
<1>4. ProcsTyped'
  <2>1. ProcsTyped
    BY <1>1 DEF TypeOK, ProcsTyped
  <2>2. ASSUME NEW l \in Lanes, StartOrder(l) PROVE ProcsTyped'
    <3>1. Tail(inbox[l]) \in Seq({"order", "beat"})
      BY <2>1, <2>2 DEF ProcsTyped, StartOrder
    <3>2. QED BY <2>1, <2>2, <3>1 DEF ProcsTyped, StartOrder
  <2>3. ASSUME NEW l \in Lanes, FinishOrder(l) PROVE ProcsTyped'
    <3>1. Append(outbox[l], "result") \in Seq({"result", "beat"})
      BY <2>1 DEF ProcsTyped
    <3>2. QED BY <2>1, <2>3, <3>1 DEF ProcsTyped, FinishOrder
  <2>4. ASSUME NEW l \in Lanes, AnswerBeat(l) PROVE ProcsTyped'
    <3>1. Append(outbox[l], "beat") \in Seq({"result", "beat"})
      BY <2>1 DEF ProcsTyped
    <3>2. Tail(inbox[l]) \in Seq({"order", "beat"})
      BY <2>1, <2>4 DEF ProcsTyped, AnswerBeat
    <3>3. QED BY <2>1, <2>4, <3>1, <3>2 DEF ProcsTyped, AnswerBeat
  <2>5. ASSUME NEW S, Killed(S) PROVE /\ worker' \in [Lanes -> {"idle", "busy", "gone"}]
                                     /\ inbox' \in [Lanes -> Seq({"order", "beat"})]
                                     /\ outbox' = outbox
    BY <2>1, <2>5 DEF ProcsTyped, Killed
  <2>6. ASSUME NEW l \in Lanes, Die(l) PROVE ProcsTyped'
    BY <2>1, <2>5, <2>6 DEF ProcsTyped, Die
  <2>7. ASSUME NEW S, Interrupt(S) PROVE ProcsTyped'
    BY <2>1, <2>5, <2>7 DEF ProcsTyped, Interrupt
  <2>8. QED BY <2>2, <2>3, <2>4, <2>6, <2>7 DEF Worker, Environment
<1>5. TypeOK'
  BY <1>1, <1>2, <1>4 DEF TypeOK, ProcsTyped, control, books
<1>6. QED BY <1>3, <1>5 DEF IInv

LEMMA NextKeepsIInv == IInv /\ [Next]_vars => IInv'
<1> SUFFICES ASSUME IInv, [Next]_vars PROVE IInv'
  OBVIOUS
<1>1. CASE Coordinator
  BY <1>1, DispatchKeepsIInv, FrameKeepsIInv, DeathKeepsIInv, PollAndCheckKeepIInv
     DEF Coordinator
<1>2. CASE (\E l \in Lanes : Worker(l)) \/ Environment
  BY <1>2, ProcessesKeepIInv
<1>3. CASE UNCHANGED vars
  BY <1>3 DEF IInv, TypeOK, Served, EveryLaneHasWork, NeverCounted, vars,
              control, books, procs
<1>4. QED BY <1>1, <1>2, <1>3 DEF Next, Rest

-----------------------------------------------------------------------------
(* IInv holds in every reachable state. *)
THEOREM CampaignInvariant == Spec => []IInv
BY InitIInv, NextKeepsIInv, PTL DEF Spec

(* Type correctness of the campaign loop. *)
THEOREM CampaignTypeOK == Spec => []TypeOK
<1>1. IInv => TypeOK
  BY DEF IInv
<1>2. QED BY <1>1, CampaignInvariant, PTL

(* The coordinator waits for events only when every lane has a pending     *)
(* order: no worker idles through a poll.                                  *)
THEOREM NoIdleLaneInPoll == Spec => []EveryLaneHasWork
<1>1. IInv => EveryLaneHasWork
  BY DEF IInv
<1>2. QED BY <1>1, CampaignInvariant, PTL

(* startup_deaths never leaves 0, whatever the workers do: the check for a *)
(* broken binary cannot fire.                                              *)
THEOREM StartupDeathsNeverCounted == Spec => []NeverCounted
<1>1. IInv => NeverCounted
  BY DEF IInv
<1>2. QED BY <1>1, CampaignInvariant, PTL

(* No frame is ever ignored: the branch for a frame of a lane without a    *)
(* pending order, which was to absorb heartbeat replies, is unreachable,   *)
(* and every heartbeat reply the coordinator reads ends the campaign.      *)
THEOREM HeartbeatReplyAborts ==
  Spec => [][TakeFrame /\ Head(outbox[at]) = "beat" => phase' = "aborted"]_vars
<1>1. ASSUME IInv, TakeFrame, Head(outbox[at]) = "beat" PROVE phase' = "aborted"
  <2>1. pending[at]
    BY <1>1 DEF IInv, TypeOK, EveryLaneHasWork, TakeFrame
  <2>2. QED BY <1>1, <2>1 DEF TakeFrame, Abort
<1>2. IInv => [TakeFrame /\ Head(outbox[at]) = "beat" => phase' = "aborted"]_vars
  BY <1>1
<1>3. QED BY <1>2, CampaignInvariant, PTL

-----------------------------------------------------------------------------
(* Counting the frames of one kind in a pipe. *)

Places(f, s) == {k \in DOMAIN s : s[k] = f}

(* A pipe is finite, so a count is a number.                               *)
LEMMA CountsAreNumbers ==
  ASSUME NEW S, NEW s \in Seq(S), NEW f
  PROVE  /\ IsFiniteSet(Places(f, s)) /\ Occurrences(f, s) = Cardinality(Places(f, s))
         /\ Occurrences(f, s) \in Nat
<1>1. DOMAIN s = 1..Len(s) /\ Len(s) \in Nat
  OBVIOUS
<1>2. IsFiniteSet(1..Len(s))
  BY <1>1, FS_Interval
<1>3. Places(f, s) \in SUBSET (1..Len(s))
  BY <1>1 DEF Places
<1>4. IsFiniteSet(Places(f, s))
  BY <1>2, <1>3, FS_Subset
<1>5. Occurrences(f, s) = Cardinality(Places(f, s))
  BY DEF Occurrences, Places
<1>. QED  BY <1>4, <1>5, FS_CardinalityType

LEMMA NoneInEmptyPipe == \A f : Occurrences(f, <<>>) = 0
<1>1. \A f : {k \in DOMAIN <<>> : <<>>[k] = f} = {}
  OBVIOUS
<1>. QED  BY <1>1, FS_EmptySet DEF Occurrences

(* A frame written adds one of its kind. *)
LEMMA WrittenFrameCounts ==
  ASSUME NEW S, NEW s \in Seq(S), NEW x \in S, NEW f
  PROVE  Occurrences(f, Append(s, x)) = Occurrences(f, s) + (IF x = f THEN 1 ELSE 0)
<1> DEFINE n == Len(s) + 1
           t == Append(s, x)
<1>1. /\ t \in Seq(S) /\ Len(s) \in Nat /\ DOMAIN s = 1..Len(s) /\ DOMAIN t = 1..n
      /\ t[n] = x /\ \A k \in 1..Len(s) : t[k] = s[k]
  OBVIOUS
<1>2. n \notin Places(f, s)
  BY <1>1 DEF Places
<1>3. Places(f, t) = IF x = f THEN Places(f, s) \cup {n} ELSE Places(f, s)
  BY <1>1 DEF Places
<1>4. Cardinality(Places(f, s) \cup {n}) = Cardinality(Places(f, s)) + 1
  BY <1>2, CountsAreNumbers, FS_AddElement
<1>5. /\ Occurrences(f, t) = Cardinality(Places(f, t))
      /\ Occurrences(f, s) = Cardinality(Places(f, s)) /\ Occurrences(f, s) \in Nat
  BY <1>1, CountsAreNumbers
<1>. QED  BY <1>3, <1>4, <1>5

(* A frame read takes away one of its kind. *)
LEMMA ReadFrameCounts ==
  ASSUME NEW S, NEW s \in Seq(S), s # <<>>, NEW f
  PROVE  Occurrences(f, s) = Occurrences(f, Tail(s)) + (IF Head(s) = f THEN 1 ELSE 0)
<1> DEFINE t == Tail(s)
           Rest1 == Places(f, s) \ {1}
           shift == [k \in Places(f, t) |-> k + 1]
<1>1. /\ t \in Seq(S) /\ Len(s) \in Nat \ {0} /\ DOMAIN s = 1..Len(s)
      /\ Len(t) = Len(s) - 1 /\ DOMAIN t = 1..(Len(s) - 1)
      /\ Head(s) = s[1] /\ \A k \in 1..(Len(s) - 1) : t[k] = s[k + 1]
  OBVIOUS
<1>2. Places(f, t) \subseteq 1..(Len(s) - 1) /\ Rest1 \subseteq 2..Len(s)
  BY <1>1 DEF Places
<1>3. \A k \in Places(f, t) : k + 1 \in Rest1
  BY <1>1, <1>2 DEF Places
<1>4. \A k \in Rest1 : k - 1 \in Places(f, t)
  <2>. SUFFICES ASSUME NEW k \in Rest1 PROVE k - 1 \in Places(f, t)
    OBVIOUS
  <2>1. k \in 2..Len(s) /\ s[k] = f
    BY <1>2 DEF Places
  <2>2. k - 1 \in 1..(Len(s) - 1) /\ (k - 1) + 1 = k
    BY <1>1, <2>1
  <2>. QED  BY <1>1, <2>1, <2>2 DEF Places
<1>5. shift \in Bijection(Places(f, t), Rest1)
  <2>1. shift \in [Places(f, t) -> Rest1]
    BY <1>3
  <2>2. \A a, b \in Places(f, t) : shift[a] = shift[b] => a = b
    BY <1>2
  <2>3. \A k \in Rest1 : \E a \in Places(f, t) : shift[a] = k
    BY <1>2, <1>4
  <2>. QED  BY <2>1, <2>2, <2>3 DEF Bijection, Injection, Surjection, IsInjective
<1>6. Cardinality(Rest1) = Cardinality(Places(f, t))
  BY <1>1, <1>5, CountsAreNumbers, FS_Bijection DEF ExistsBijection
<1>7. Cardinality(Rest1) = IF 1 \in Places(f, s) THEN Cardinality(Places(f, s)) - 1
                                                 ELSE Cardinality(Places(f, s))
  BY CountsAreNumbers, FS_RemoveElement
<1>8. 1 \in Places(f, s) <=> Head(s) = f
  BY <1>1 DEF Places
<1>9. /\ Occurrences(f, t) = Cardinality(Places(f, t)) /\ Occurrences(f, t) \in Nat
      /\ Occurrences(f, s) = Cardinality(Places(f, s)) /\ Occurrences(f, s) \in Nat
  BY <1>1, CountsAreNumbers
<1>. QED  BY <1>6, <1>7, <1>8, <1>9

-----------------------------------------------------------------------------
(* The pending map against the pipes, for one lane. *)

Balanced(l) ==
  /\ InFlight(l) <= 1
  /\ InFlight(l) = 1 => pending[l]
  /\ pending[l] /\ InFlight(l) = 0 => worker[l] = "gone"

BalanceInv == IInv /\ (~Stopped => \A l \in Lanes : Balanced(l))

LEMMA FlightIsNumber ==
  ASSUME TypeOK, NEW l \in Lanes
  PROVE  /\ Occurrences("order", inbox[l]) \in Nat
         /\ Occurrences("result", outbox[l]) \in Nat
         /\ InFlight(l) \in Nat
<1>1. inbox[l] \in Seq({"order", "beat"}) /\ outbox[l] \in Seq({"result", "beat"})
  BY DEF TypeOK
<1>2. Occurrences("order", inbox[l]) \in Nat /\ Occurrences("result", outbox[l]) \in Nat
  BY <1>1, CountsAreNumbers
<1>. QED  BY <1>2 DEF InFlight

LEMMA FlightAfterStep ==
  ASSUME NEW l
  PROVE  InFlight(l)' = Occurrences("order", inbox'[l]) + Occurrences("result", outbox'[l])
                          + (IF worker'[l] = "busy" THEN 1 ELSE 0)
BY DEF InFlight, Occurrences

(* A lane no step touches stays balanced. *)
LEMMA UntouchedLaneBalanced ==
  ASSUME NEW l \in Lanes, Balanced(l), pending'[l] = pending[l], worker'[l] = worker[l],
         inbox'[l] = inbox[l], outbox'[l] = outbox[l]
  PROVE  Balanced(l)'
BY DEF Balanced, InFlight, Occurrences

LEMMA DispatchKeepsBalance ==
  ASSUME BalanceInv, SkipLane \/ SendOrder, NEW l \in Lanes
  PROVE  Balanced(l)'
<1>1. TypeOK /\ at \in Lanes /\ Balanced(l)
  BY DEF BalanceInv, IInv, TypeOK, Stopped, SkipLane, SendOrder
<1>2. CASE SkipLane
  BY <1>1, <1>2, UntouchedLaneBalanced DEF SkipLane, books, procs
<1>3. CASE SendOrder /\ l # at
  BY <1>1, <1>3, UntouchedLaneBalanced DEF SendOrder, TypeOK
<1>4. CASE SendOrder /\ l = at
  <2>1. /\ inbox'[l] = Append(inbox[l], "order") /\ outbox' = outbox /\ worker' = worker
        /\ pending'[l] /\ ~pending[l]
    BY <1>1, <1>4 DEF SendOrder, TypeOK
  <2>2. inbox[l] \in Seq({"order", "beat"})
    BY <1>1 DEF TypeOK
  <2>3. Occurrences("order", inbox'[l]) = Occurrences("order", inbox[l]) + 1
    BY <2>1, <2>2, WrittenFrameCounts
  <2>4. InFlight(l) = 0
    BY <1>1, <2>1, FlightIsNumber DEF Balanced
  <2>5. Occurrences("result", outbox'[l]) = Occurrences("result", outbox[l])
    BY <2>1
  <2>6. InFlight(l)' = InFlight(l) + 1
    BY <1>1, <2>1, <2>3, <2>5, FlightIsNumber, FlightAfterStep DEF InFlight
  <2>. QED  BY <2>1, <2>4, <2>6 DEF Balanced
<1>. QED  BY <1>2, <1>3, <1>4

(* The result read was the one in flight. *)
LEMMA FrameKeepsBalance ==
  ASSUME BalanceInv, TakeFrame, phase' # "aborted", NEW l \in Lanes
  PROVE  Balanced(l)'
<1>1. TypeOK /\ at \in Lanes /\ Balanced(l) /\ pending[at]
  BY DEF BalanceInv, IInv, TypeOK, EveryLaneHasWork, Stopped, TakeFrame
<1>2. CASE l # at
  BY <1>1, <1>2, UntouchedLaneBalanced DEF TakeFrame, TypeOK
<1>3. CASE l = at
  <2>1. /\ outbox[l] # <<>> /\ outbox'[l] = Tail(outbox[l]) /\ Head(outbox[l]) = "result"
        /\ inbox' = inbox /\ worker' = worker /\ ~pending'[l]
    BY <1>1, <1>3 DEF TakeFrame, TypeOK, Abort
  <2>2. outbox[l] \in Seq({"result", "beat"})
    BY <1>1 DEF TypeOK
  <2>3. Occurrences("result", outbox[l]) = Occurrences("result", outbox'[l]) + 1
    BY <2>1, <2>2, ReadFrameCounts
  <2>4. outbox'[l] \in Seq({"result", "beat"})
    BY <2>1, <2>2
  <2>5. Occurrences("result", outbox'[l]) \in Nat
    BY <2>4, CountsAreNumbers
  <2>6. InFlight(l) = InFlight(l)' + 1 /\ InFlight(l)' \in Nat
    BY <1>1, <2>1, <2>3, <2>5, FlightIsNumber, FlightAfterStep DEF InFlight
  <2>. QED  BY <1>1, <2>1, <2>6, FlightIsNumber DEF Balanced
<1>. QED  BY <1>2, <1>3

(* The lane of a dead worker starts over with empty pipes. *)
LEMMA DeathKeepsBalance ==
  ASSUME BalanceInv, NEW attributed \in BOOLEAN, HandleDeath(attributed),
         phase' # "aborted", NEW l \in Lanes
  PROVE  Balanced(l)'
<1>1. TypeOK /\ at \in Lanes /\ Balanced(l)
  BY DEF BalanceInv, IInv, TypeOK, Stopped, HandleDeath, SeesEof
<1>2. /\ worker' = [worker EXCEPT ![at] = "idle"]
      /\ inbox' = [inbox EXCEPT ![at] = <<>>]
      /\ outbox' = [outbox EXCEPT ![at] = <<>>]
      /\ pending' = [pending EXCEPT ![at] = FALSE]
  BY DEF HandleDeath, Abort
<1>3. CASE l # at
  BY <1>1, <1>2, <1>3, UntouchedLaneBalanced DEF TypeOK
<1>4. CASE l = at
  <2>1. worker'[l] = "idle" /\ inbox'[l] = <<>> /\ outbox'[l] = <<>> /\ ~pending'[l]
    BY <1>1, <1>2, <1>4 DEF TypeOK
  <2>2. Occurrences("order", inbox'[l]) = 0 /\ Occurrences("result", outbox'[l]) = 0
    BY <2>1, NoneInEmptyPipe
  <2>3. InFlight(l)' = 0
    BY <2>1, <2>2, FlightAfterStep DEF InFlight
  <2>. QED  BY <2>1, <2>3 DEF Balanced
<1>. QED  BY <1>3, <1>4

(* A heartbeat is no order. *)
LEMMA HeartbeatKeepsBalance ==
  ASSUME BalanceInv, Heartbeat, NEW l \in Lanes
  PROVE  Balanced(l)'
<1>1. TypeOK /\ Balanced(l)
  BY DEF BalanceInv, IInv, Stopped, Heartbeat
<1>2. /\ outbox' = outbox /\ worker' = worker /\ pending' = pending
      /\ inbox'[l] = IF worker[l] = "gone" THEN inbox[l] ELSE Append(inbox[l], "beat")
  BY DEF Heartbeat, books
<1>3. inbox[l] \in Seq({"order", "beat"})
  BY <1>1 DEF TypeOK
<1>4. Occurrences("order", Append(inbox[l], "beat")) = Occurrences("order", inbox[l])
  BY <1>1, <1>3, WrittenFrameCounts, FlightIsNumber
<1>5. Occurrences("order", inbox'[l]) = Occurrences("order", inbox[l])
  BY <1>2, <1>4
<1>6. InFlight(l)' = InFlight(l)
  BY <1>2, <1>5 DEF InFlight, Occurrences
<1>. QED  BY <1>1, <1>2, <1>6 DEF Balanced

(* An order moves from the pipe to the worker, and from there to the other *)
(* pipe; what a worker has not read or written is lost with it.            *)
LEMMA WorkersKeepBalance ==
  ASSUME BalanceInv, NEW w \in Lanes, Worker(w), NEW l \in Lanes
  PROVE  Balanced(l)'
<1>1. TypeOK /\ Balanced(l)
  BY DEF BalanceInv, IInv, Worker, StartOrder, FinishOrder, AnswerBeat
<1>2. pending' = pending
  BY DEF Worker, StartOrder, FinishOrder, AnswerBeat, books
<1>3. inbox[l] \in Seq({"order", "beat"}) /\ outbox[l] \in Seq({"result", "beat"})
  BY <1>1 DEF TypeOK
<1>4. CASE l # w
  <2>1. worker'[l] = worker[l] /\ inbox'[l] = inbox[l] /\ outbox'[l] = outbox[l]
    BY <1>1, <1>4 DEF TypeOK, Worker, StartOrder, FinishOrder, AnswerBeat
  <2>. QED  BY <1>1, <1>2, <2>1, UntouchedLaneBalanced
<1>5. CASE l = w /\ StartOrder(w)
  <2>1. /\ worker[l] = "idle" /\ worker'[l] = "busy" /\ outbox' = outbox
        /\ inbox[l] # <<>> /\ Head(inbox[l]) = "order" /\ inbox'[l] = Tail(inbox[l])
    BY <1>1, <1>5 DEF TypeOK, StartOrder
  <2>2. Occurrences("order", inbox[l]) = Occurrences("order", inbox'[l]) + 1
    BY <1>3, <2>1, ReadFrameCounts
  <2>3. inbox'[l] \in Seq({"order", "beat"})
    BY <1>3, <2>1
  <2>4. Occurrences("order", inbox'[l]) \in Nat
    BY <2>3, CountsAreNumbers
  <2>5. InFlight(l)' = InFlight(l)
    BY <1>1, <2>1, <2>2, <2>4, FlightIsNumber, FlightAfterStep DEF InFlight
  <2>. QED  BY <1>1, <1>2, <2>1, <2>5 DEF Balanced
<1>6. CASE l = w /\ FinishOrder(w)
  <2>1. /\ worker[l] = "busy" /\ worker'[l] = "idle" /\ inbox' = inbox
        /\ outbox'[l] = Append(outbox[l], "result")
    BY <1>1, <1>6 DEF TypeOK, FinishOrder
  <2>2. Occurrences("result", outbox'[l]) = Occurrences("result", outbox[l]) + 1
    BY <1>3, <2>1, WrittenFrameCounts
  <2>3. InFlight(l)' = InFlight(l)
    BY <1>1, <2>1, <2>2, FlightIsNumber, FlightAfterStep DEF InFlight
  <2>. QED  BY <1>1, <1>2, <2>1, <2>3 DEF Balanced
<1>7. CASE l = w /\ AnswerBeat(w)
  <2>1. /\ worker' = worker /\ inbox[l] # <<>> /\ Head(inbox[l]) = "beat"
        /\ inbox'[l] = Tail(inbox[l]) /\ outbox'[l] = Append(outbox[l], "beat")
    BY <1>1, <1>7 DEF TypeOK, AnswerBeat
  <2>2. inbox'[l] \in Seq({"order", "beat"})
    BY <1>3, <2>1
  <2>3. /\ Occurrences("order", inbox[l]) = Occurrences("order", inbox'[l]) + 0
        /\ Occurrences("order", inbox'[l]) \in Nat
    BY <1>3, <2>1, <2>2, ReadFrameCounts, CountsAreNumbers
  <2>4. Occurrences("result", outbox'[l]) = Occurrences("result", outbox[l]) + 0
    BY <1>3, <2>1, WrittenFrameCounts
  <2>5. InFlight(l)' = InFlight(l)
    BY <1>1, <2>1, <2>3, <2>4, FlightIsNumber, FlightAfterStep DEF InFlight
  <2>. QED  BY <1>1, <1>2, <2>1, <2>5 DEF Balanced
<1>. QED  BY <1>4, <1>5, <1>6, <1>7 DEF Worker

(* Workers killed together: the results they wrote stay, the orders they   *)
(* had are gone, and so are they.                                          *)
LEMMA KillsKeepBalance ==
  ASSUME BalanceInv, ~Stopped, NEW S, Killed(S), pending' = pending, NEW l \in Lanes
  PROVE  Balanced(l)'
<1>1. TypeOK /\ Balanced(l)
  BY DEF BalanceInv, IInv
<1>2. outbox' = outbox
  BY DEF Killed
<1>3. CASE l \notin S
  BY <1>1, <1>2, <1>3, UntouchedLaneBalanced DEF Killed
<1>4. CASE l \in S
  <2>1. worker'[l] = "gone" /\ inbox'[l] = <<>>
    BY <1>4 DEF Killed
  <2>2. Occurrences("order", inbox'[l]) = 0
    BY <2>1, NoneInEmptyPipe
  <2>3. InFlight(l)' <= InFlight(l) /\ InFlight(l)' \in Nat
    BY <1>1, <1>2, <2>1, <2>2, FlightIsNumber, FlightAfterStep DEF InFlight
  <2>. QED  BY <1>1, <2>1, <2>3, FlightIsNumber DEF Balanced
<1>. QED  BY <1>3, <1>4

LEMMA InitBalanced == Init => BalanceInv
<1> SUFFICES ASSUME Init PROVE BalanceInv
  OBVIOUS
<1>1. ASSUME NEW l \in Lanes PROVE Balanced(l)
  <2>1. inbox[l] = <<>> /\ outbox[l] = <<>> /\ worker[l] = "idle" /\ ~pending[l]
    BY DEF Init
  <2>2. InFlight(l) = 0
    BY <2>1, NoneInEmptyPipe DEF InFlight
  <2>. QED  BY <2>1, <2>2 DEF Balanced
<1>. QED  BY <1>1, InitIInv DEF BalanceInv

LEMMA NextKeepsBalance == BalanceInv /\ [Next]_vars => BalanceInv'
<1> SUFFICES ASSUME BalanceInv, [Next]_vars PROVE BalanceInv'
  OBVIOUS
<1>1. IInv'
  BY NextKeepsIInv DEF BalanceInv
<1>2. ASSUME ~Stopped', NEW l \in Lanes PROVE Balanced(l)'
  <2>1. phase' # "aborted" /\ phase' # "exited"
    BY <1>2 DEF Stopped
  <2>2. CASE SkipLane \/ SendOrder
    BY <2>2, DispatchKeepsBalance
  <2>3. CASE TakeFrame
    BY <2>1, <2>3, FrameKeepsBalance
  <2>4. CASE \E attributed \in BOOLEAN : HandleDeath(attributed)
    BY <2>1, <2>4, DeathKeepsBalance
  <2>5. CASE PollTimesOut \/ GoOn
    <3>1. ~Stopped /\ UNCHANGED <<pending, worker, inbox, outbox>>
      BY <2>5 DEF PollTimesOut, GoOn, Stopped, books, procs
    <3>. QED  BY <3>1, UntouchedLaneBalanced DEF BalanceInv
  <2>6. CASE Heartbeat
    BY <2>6, HeartbeatKeepsBalance
  <2>7. CASE SendFails \/ RecoveryFails \/ Finish
    BY <2>1, <2>7 DEF SendFails, RecoveryFails, Finish, Abort
  <2>8. CASE \E w \in Lanes : Worker(w)
    BY <2>8, WorkersKeepBalance
  <2>9. CASE Environment
    BY <2>9, KillsKeepBalance DEF Environment, Die, Interrupt, books
  <2>10. CASE UNCHANGED vars
    <3>1. phase' = phase /\ UNCHANGED <<pending, worker, inbox, outbox>>
      BY <2>10 DEF vars, control, books, procs
    <3>2. ~Stopped
      BY <2>1, <3>1 DEF Stopped
    <3>. QED  BY <3>1, <3>2, UntouchedLaneBalanced DEF BalanceInv
  <2>. QED  BY <2>2, <2>3, <2>4, <2>5, <2>6, <2>7, <2>8, <2>9, <2>10 DEF Next, Coordinator, Rest
<1>. QED  BY <1>1, <1>2 DEF BalanceInv

THEOREM CampaignBalance == Spec => []BalanceInv
BY InitBalanced, NextKeepsBalance, PTL DEF Spec

(* A lane never has two orders in flight, and none without a pending entry *)
(* to match its result against; a pending order disappears only with the   *)
(* worker that held it (coordinator.rs, the pending map and the pipes).    *)
THEOREM OrdersAreAccountedFor == Spec => []PendingIsInFlight
<1>1. BalanceInv => PendingIsInFlight
  BY DEF BalanceInv, PendingIsInFlight, Balanced
<1>. QED  BY <1>1, CampaignBalance, PTL

(* A result leaves its pipe only by being processed, also when its worker  *)
(* died right after writing it: the death is handled after the frames.     *)
THEOREM ResultsAreProcessed == Spec => NoResultDropped
<1> DEFINE Taken ==
      \A l \in Lanes :
        Occurrences("result", outbox'[l]) < Occurrences("result", outbox[l])
          => pending[l] /\ ~pending'[l] /\ executions' = Counted(executions)
<1>1. ASSUME IInv, [Next]_vars PROVE [Taken]_vars
  <2>. SUFFICES ASSUME NEW l \in Lanes, Next,
                       Occurrences("result", outbox'[l]) < Occurrences("result", outbox[l])
                PROVE  pending[l] /\ ~pending'[l] /\ executions' = Counted(executions)
    BY <1>1
  <2>1. TypeOK /\ at \in Lanes /\ outbox[l] \in Seq({"result", "beat"})
    BY <1>1 DEF IInv, TypeOK
  <2>2. outbox'[l] # outbox[l]
    BY <2>1, FlightIsNumber
  <2>3. CASE TakeFrame
    <3>1. l = at /\ outbox[l] # <<>> /\ outbox'[l] = Tail(outbox[l]) /\ phase = "poll"
      BY <2>1, <2>2, <2>3 DEF TakeFrame, TypeOK
    <3>2. pending[l] /\ ~pending'[l]
      BY <1>1, <2>1, <2>3, <3>1 DEF IInv, EveryLaneHasWork, TakeFrame, TypeOK
    <3>3. Head(outbox[l]) = "result"
      <4>1. /\ Occurrences("result", outbox[l]) = Occurrences("result", outbox'[l])
                 + (IF Head(outbox[l]) = "result" THEN 1 ELSE 0)
            /\ Occurrences("result", outbox[l]) \in Nat
        BY <2>1, <3>1, ReadFrameCounts, CountsAreNumbers
      <4>2. outbox'[l] \in Seq({"result", "beat"})
        BY <2>1, <3>1
      <4>3. Occurrences("result", outbox'[l]) \in Nat
        BY <4>2, CountsAreNumbers
      <4>. QED  BY <4>1, <4>3
    <3>. QED  BY <2>3, <3>1, <3>2, <3>3 DEF TakeFrame
  <2>4. CASE \E attributed \in BOOLEAN : HandleDeath(attributed)
    <3>1. outbox'[l] = <<>> \/ outbox'[l] = outbox[l]
      BY <2>1, <2>4 DEF HandleDeath, TypeOK, procs
    <3>2. outbox[at] = <<>> /\ \A k \in Lanes : k # at => outbox'[k] = outbox[k]
      BY <2>1, <2>4 DEF HandleDeath, SeesEof, TypeOK, procs
    <3>. QED  BY <2>2, <3>1, <3>2
  <2>5. CASE \E w \in Lanes : Worker(w)
    <3>1. PICK w \in Lanes : Worker(w)
      BY <2>5
    <3>2. FinishOrder(w) \/ AnswerBeat(w)
      BY <2>2, <3>1 DEF Worker, StartOrder
    <3>3. PICK x \in {"result", "beat"} : outbox' = [outbox EXCEPT ![w] = Append(@, x)]
      BY <3>2 DEF FinishOrder, AnswerBeat
    <3>4. outbox'[l] = Append(outbox[l], x)
      BY <2>1, <2>2, <3>3 DEF TypeOK
    <3>5. /\ Occurrences("result", outbox'[l]) = Occurrences("result", outbox[l])
               + (IF x = "result" THEN 1 ELSE 0)
          /\ Occurrences("result", outbox[l]) \in Nat
      BY <2>1, <3>4, WrittenFrameCounts, CountsAreNumbers
    <3>. QED  BY <3>5
  <2>. QED
    BY <2>2, <2>3, <2>4, <2>5
       DEF Next, Coordinator, SkipLane, SendOrder, SendFails, RecoveryFails, PollTimesOut,
           Heartbeat, Finish, GoOn, Environment, Die, Interrupt, Killed, Rest, vars, procs
<1>2. Spec => [][Taken]_vars
  BY <1>1, CampaignInvariant, PTL DEF Spec
<1>. QED  BY <1>2 DEF NoResultDropped

-----------------------------------------------------------------------------
(* The fuel of a campaign that is to stop, because it has a limit or was   *)
(* interrupted: what is left to do, compared part by part.  A round ends   *)
(* with an event that is read: a result of those still wanted, or the end  *)
(* of a lane that is gone; no round begins after the one an interrupt falls*)
(* into.                                                                   *)
Ends == limit # NoLimit \/ interrupted
Gone == {l \in Lanes : worker[l] = "gone"}

Rounds ==
  IF interrupted THEN 0 ELSE 1 + (limit - executions) + Cardinality(Gone)

(* Where the coordinator is in its round. *)
AtCheck == IF interrupted THEN 1 ELSE 4 + Workers
Leg == IF phase = "dispatch" THEN 3 + (Workers - at)
       ELSE IF phase = "poll" THEN 2
       ELSE IF phase = "check" THEN AtCheck ELSE 0

(* The workers that live, and what a worker has to do.                     *)
Living    == Workers - Cardinality(Gone)
Chores(l) == 2 * Len(inbox[l]) + (IF worker[l] = "busy" THEN 1 ELSE 0)

Burns ==
  \/ Stopped'
  \/ Rounds' < Rounds
  \/ Rounds' = Rounds /\ Leg' < Leg
  \/ Rounds' = Rounds /\ Leg' = Leg /\ Living' < Living
  \/ /\ Rounds' = Rounds /\ Leg' = Leg /\ Living' = Living
     /\ \A l \in Lanes : Chores(l)' <= Chores(l)
     /\ \E l \in Lanes : Chores(l)' < Chores(l)

(* The guards of the worker's steps.                                       *)
CanWork(l) == worker[l] = "busy" \/ (worker[l] = "idle" /\ inbox[l] # <<>>)

(* A campaign with a limit goes on only while results are missing.         *)
Wanting ==
  limit # NoLimit => /\ executions <= limit
                     /\ phase \in {"dispatch", "poll"} => executions < limit

FuelInv == IInv /\ Wanting

-----------------------------------------------------------------------------
LEMMA LimitIsNat == TypeOK /\ limit # NoLimit => limit \in Nat \ {0}
BY BoundsAssumption DEF TypeOK

LEMMA GoneIsFinite ==
  /\ IsFiniteSet(Gone) /\ Cardinality(Gone) \in Nat
  /\ Living \in Nat
<1>1. IsFiniteSet(Lanes) /\ Cardinality(Lanes) = Workers
  <2>1. 0 \in Int /\ (Workers - 1) \in Int
    BY WorkersAssumption
  <2>2. Cardinality(0..(Workers - 1)) = IF 0 > Workers - 1 THEN 0 ELSE (Workers - 1) - 0 + 1
    BY <2>1, FS_Interval
  <2>. QED  BY <2>1, <2>2, WorkersAssumption, FS_Interval DEF Lanes
<1>2. Gone \subseteq Lanes
  BY DEF Gone
<1>3. /\ IsFiniteSet(Gone) /\ Cardinality(Gone) \in Nat
      /\ Cardinality(Gone) <= Cardinality(Lanes)
  BY <1>1, <1>2, FS_Subset, FS_CardinalityType
<1>. QED  BY <1>1, <1>3, WorkersAssumption DEF Living

(* The fuel is made of numbers, so it cannot go down for ever.             *)
LEMMA FuelIsNumbers ==
  ASSUME FuelInv
  PROVE  /\ Ends => Rounds \in Nat
         /\ Leg \in Nat /\ Living \in Nat /\ \A l \in Lanes : Chores(l) \in Nat
<1>1. TypeOK /\ Wanting
  BY DEF FuelInv, IInv
<1>2. Ends => Rounds \in Nat
  <2>1. CASE interrupted
    BY <2>1 DEF Rounds
  <2>2. CASE ~interrupted /\ limit # NoLimit
    <3>1. limit \in Nat /\ executions \in Nat /\ executions <= limit
      BY <1>1, <2>2, LimitIsNat DEF TypeOK, Wanting
    <3>. QED  BY <2>2, <3>1, GoneIsFinite DEF Rounds
  <2>. QED  BY <1>1, <2>1, <2>2 DEF Ends, TypeOK
<1>3. Leg \in Nat
  <2>1. at \in Nat /\ at < Workers /\ Workers \in Nat
    BY <1>1, WorkersAssumption DEF TypeOK, Lanes
  <2>. QED  BY <1>1, <2>1 DEF TypeOK, Leg, AtCheck
<1>4. Living \in Nat
  BY GoneIsFinite
<1>5. ASSUME NEW l \in Lanes PROVE Chores(l) \in Nat
  <2>1. Len(inbox[l]) \in Nat
    <3>1. inbox[l] \in Seq({"order", "beat"})
      BY <1>1 DEF TypeOK
    <3>. QED  BY <3>1
  <2>2. Chores(l) = 2 * Len(inbox[l]) + 1 \/ Chores(l) = 2 * Len(inbox[l]) + 0
    BY DEF Chores
  <2>. QED  BY <2>1, <2>2
<1>. QED  BY <1>2, <1>3, <1>4, <1>5

-----------------------------------------------------------------------------
LEMMA InitWanting == Init => Wanting
<1> SUFFICES ASSUME Init, limit # NoLimit PROVE executions <= limit /\ executions < limit
  BY DEF Wanting
<1>1. limit \in Nat \ {0} /\ executions = 0
  BY BoundsAssumption DEF Init
<1>. QED  BY <1>1

LEMMA NextKeepsWanting == FuelInv /\ [Next]_vars => Wanting'
<1> SUFFICES ASSUME FuelInv, [Next]_vars, limit' # NoLimit
             PROVE  /\ executions' <= limit'
                    /\ phase' \in {"dispatch", "poll"} => executions' < limit'
  BY DEF Wanting
<1>1. TypeOK /\ Wanting
  BY DEF FuelInv, IInv
<1>2. limit' = limit
  BY DEF Next, Coordinator, SkipLane, SendOrder, SendFails, TakeFrame, HandleDeath,
         RecoveryFails, PollTimesOut, Heartbeat, Finish, GoOn, Worker, StartOrder,
         FinishOrder, AnswerBeat, Environment, Die, Interrupt, Rest, vars
<1>3. /\ limit \in Nat \ {0} /\ executions \in Nat /\ executions <= limit
      /\ phase \in {"dispatch", "poll"} => executions < limit
  BY <1>1, <1>2, LimitIsNat DEF TypeOK, Wanting
<1>4. CASE executions' = executions /\ (phase' \in {"dispatch", "poll"} => phase \in {"dispatch", "poll"})
  BY <1>2, <1>3, <1>4
<1>5. CASE TakeFrame
  <2>1. phase = "poll" /\ phase' \in {"check", "aborted"}
    BY <1>5 DEF TakeFrame, Abort
  <2>2. executions' \in {executions, executions + 1}
    BY <1>5 DEF TakeFrame, Counted
  <2>. QED  BY <1>2, <1>3, <2>1, <2>2
<1>6. CASE GoOn
  <2>1. executions' = executions /\ ~(executions >= limit)
    BY <1>2, <1>6 DEF GoOn, MustStop, books
  <2>. QED  BY <1>2, <1>3, <2>1
<1>7. CASE SkipLane \/ SendOrder \/ SendFails
  BY <1>4, <1>7 DEF SkipLane, SendOrder, SendFails, books
<1>8. CASE \E a \in BOOLEAN : HandleDeath(a)
  BY <1>4, <1>8 DEF HandleDeath, SeesEof, Abort
<1>9. CASE RecoveryFails \/ PollTimesOut \/ Heartbeat \/ Finish
  BY <1>4, <1>9 DEF RecoveryFails, PollTimesOut, Heartbeat, Finish, Abort, books
<1>10. CASE (\E l \in Lanes : Worker(l)) \/ Environment
  BY <1>4, <1>10 DEF Worker, StartOrder, FinishOrder, AnswerBeat, Environment, Die,
                     Interrupt, control, books
<1>11. CASE UNCHANGED vars
  BY <1>4, <1>11 DEF vars, control, books
<1>. QED  BY <1>5, <1>6, <1>7, <1>8, <1>9, <1>10, <1>11 DEF Next, Coordinator, Rest

LEMMA CampaignFuel == Spec => []FuelInv
<1>1. Init => FuelInv
  BY InitIInv, InitWanting DEF FuelInv
<1>2. FuelInv /\ [Next]_vars => FuelInv'
  BY NextKeepsIInv, NextKeepsWanting DEF FuelInv
<1>. QED  BY <1>1, <1>2, PTL DEF Spec

-----------------------------------------------------------------------------
(* The coordinator's own steps use up its round, and an event the rounds.  *)
LEMMA DispatchBurns ==
  ASSUME FuelInv, Ends, SkipLane \/ SendOrder \/ SendFails
  PROVE  Burns
<1>1. TypeOK
  BY DEF FuelInv, IInv
<1>2. CASE SendFails
  BY <1>2 DEF SendFails, Abort, Burns, Stopped
<1>3. CASE SkipLane \/ SendOrder
  <2>1. /\ phase = "dispatch" /\ Advance
        /\ limit' = limit /\ executions' = executions
        /\ interrupted' = interrupted /\ worker' = worker
    BY <1>3 DEF SkipLane, SendOrder, books, procs
  <2>2. Rounds' = Rounds
    BY <2>1 DEF Rounds, Gone
  <2>3. Leg' < Leg
    <3>1. at \in 0..(Workers - 1) /\ Workers \in Nat \ {0}
      BY <1>1, WorkersAssumption DEF TypeOK, Lanes
    <3>2. Leg = 3 + (Workers - at)
      BY <2>1 DEF Leg, AtCheck
    <3>3. CASE LastLane
      <4>1. phase' = "poll"
        BY <2>1, <3>3 DEF Advance
      <4>2. Leg' = 2
        BY <4>1 DEF Leg
      <4>. QED  BY <3>1, <3>2, <4>2
    <3>4. CASE ~LastLane
      <4>1. phase' = "dispatch" /\ at' = at + 1
        BY <2>1, <3>4 DEF Advance
      <4>2. Leg' = 3 + (Workers - (at + 1))
        BY <4>1 DEF Leg
      <4>. QED  BY <3>1, <3>2, <4>2
    <3>. QED  BY <3>3, <3>4
  <2>. QED  BY <2>2, <2>3 DEF Burns
<1>. QED  BY <1>2, <1>3

(* An event read brings the check; without an interrupt it is one of the   *)
(* events the rounds count.                                                *)
LEMMA EventBurns ==
  ASSUME FuelInv, phase = "poll", phase' = "check", interrupted' = interrupted,
         ~interrupted => Rounds' < Rounds
  PROVE  Burns
<1>1. CASE interrupted
  <2>1. Rounds' = Rounds
    BY <1>1 DEF Rounds
  <2>2. Leg' = 1 /\ Leg = 2
    BY <1>1 DEF Leg, AtCheck
  <2>. QED  BY <2>1, <2>2 DEF Burns
<1>2. CASE ~interrupted
  BY <1>2 DEF Burns
<1>. QED  BY <1>1, <1>2

LEMMA FrameBurns ==
  ASSUME FuelInv, Ends, TakeFrame
  PROVE  Burns
<1>1. TypeOK /\ Wanting /\ EveryLaneHasWork /\ at \in Lanes
  BY DEF FuelInv, IInv, TypeOK
<1>2. pending[at] /\ phase = "poll"
  BY <1>1 DEF EveryLaneHasWork, TakeFrame
<1>3. CASE Head(outbox[at]) # "result"
  BY <1>2, <1>3 DEF TakeFrame, Abort, Burns, Stopped
<1>4. CASE Head(outbox[at]) = "result"
  <2>1. /\ phase' = "check" /\ executions' = Counted(executions)
        /\ limit' = limit /\ worker' = worker
        /\ interrupted' = interrupted
    BY <1>2, <1>4 DEF TakeFrame
  <2>2. ASSUME ~interrupted PROVE Rounds' < Rounds
    <3>1. limit # NoLimit
      BY <2>2 DEF Ends
    <3>2. limit \in Nat /\ executions \in Nat /\ executions' = executions + 1
      BY <1>1, <2>1, <3>1, LimitIsNat DEF TypeOK, Counted
    <3>3. Cardinality(Gone) \in Nat /\ Gone' = Gone
      BY <2>1, GoneIsFinite DEF Gone
    <3>4. Rounds = 1 + (limit - executions) + Cardinality(Gone)
      BY <2>2 DEF Rounds
    <3>5. Rounds' = 1 + (limit - (executions + 1)) + Cardinality(Gone)
      BY <2>1, <2>2, <3>2, <3>3 DEF Rounds
    <3>. QED  BY <3>2, <3>3, <3>4, <3>5
  <2>. QED  BY <1>2, <2>1, <2>2, EventBurns
<1>. QED  BY <1>3, <1>4

LEMMA DeathBurns ==
  ASSUME FuelInv, Ends, NEW a \in BOOLEAN, HandleDeath(a)
  PROVE  Burns
<1>1. TypeOK /\ at \in Lanes
  BY DEF FuelInv, IInv, TypeOK
<1>2. phase = "poll" /\ worker[at] = "gone"
  BY DEF HandleDeath, SeesEof
<1>3. CASE startup'[at] >= MaxStartupDeaths
  BY <1>3 DEF HandleDeath, Abort, Burns, Stopped
<1>4. CASE ~(startup'[at] >= MaxStartupDeaths)
  <2>1. /\ phase' = "check" /\ executions' = executions
        /\ limit' = limit /\ interrupted' = interrupted
        /\ worker' = [worker EXCEPT ![at] = "idle"]
    BY <1>4 DEF HandleDeath
  <2>2. Cardinality(Gone') = Cardinality(Gone) - 1
    <3>1. Gone' = Gone \ {at} /\ at \in Gone
      BY <1>1, <1>2, <2>1 DEF Gone, TypeOK
    <3>. QED  BY <3>1, GoneIsFinite, FS_RemoveElement
  <2>3. ASSUME ~interrupted PROVE Rounds' < Rounds
    <3>1. limit # NoLimit
      BY <2>3 DEF Ends
    <3>2. limit \in Nat /\ executions \in Nat
      BY <1>1, <3>1, LimitIsNat DEF TypeOK
    <3>3. Rounds = 1 + (limit - executions) + Cardinality(Gone)
      BY <2>3 DEF Rounds
    <3>4. Rounds' = 1 + (limit - executions) + Cardinality(Gone')
      BY <2>1, <2>3 DEF Rounds
    <3>. QED  BY <2>2, <3>2, <3>3, <3>4, GoneIsFinite
  <2>. QED  BY <1>2, <2>1, <2>3, EventBurns
<1>. QED  BY <1>3, <1>4

(* The check lets a campaign go on only when it is not interrupted.        *)
LEMMA CheckBurns ==
  ASSUME FuelInv, Ends, GoOn
  PROVE  Burns
<1>1. /\ phase = "check" /\ phase' = "dispatch" /\ at' = 0 /\ ~interrupted
      /\ limit' = limit /\ executions' = executions
      /\ interrupted' = interrupted /\ worker' = worker
  BY DEF GoOn, MustStop, books, procs
<1>2. Rounds' = Rounds
  BY <1>1 DEF Rounds, Gone
<1>3. Leg = 4 + Workers /\ Leg' = 3 + (Workers - 0)
  BY <1>1 DEF Leg, AtCheck
<1>4. Leg' < Leg
  BY <1>3, WorkersAssumption
<1>. QED  BY <1>2, <1>4 DEF Burns

(* A heartbeat round gives the workers more to do, and nothing else.       *)
LEMMA HeartbeatCosts == Heartbeat => Rounds' = Rounds /\ Leg' = Leg
BY DEF Heartbeat, books, Rounds, Gone, Leg, AtCheck

(* A death is paid for with one more round; with none when the campaign is *)
(* interrupted.                                                            *)
LEMMA DeathCosts ==
  ASSUME FuelInv, Ends, NEW l \in Lanes, Die(l)
  PROVE  /\ Leg' = Leg
         /\ interrupted => Burns
         /\ ~interrupted => Rounds' = Rounds + 1
<1>1. TypeOK
  BY DEF FuelInv, IInv
<1>2. /\ phase' = phase /\ at' = at /\ limit' = limit /\ executions' = executions
      /\ interrupted' = interrupted /\ worker[l] # "gone"
  BY DEF Die, control, books
<1>3. Cardinality(Gone') = Cardinality(Gone) + 1
  <2>1. Gone' = Gone \cup {l} /\ l \notin Gone
    BY <1>2 DEF Gone, Die, Killed
  <2>. QED  BY <2>1, GoneIsFinite, FS_AddElement
<1>4. Leg' = Leg
  BY <1>2 DEF Leg, AtCheck
<1>5. CASE interrupted
  <2>1. Rounds' = Rounds
    BY <1>2, <1>5 DEF Rounds
  <2>2. Living' = Workers - Cardinality(Gone')
    BY DEF Living
  <2>3. Living' < Living
    BY <1>3, <2>2, GoneIsFinite, WorkersAssumption DEF Living
  <2>. QED  BY <1>4, <1>5, <2>1, <2>3 DEF Burns
<1>6. CASE ~interrupted
  <2>1. limit \in Nat /\ executions \in Nat
    BY <1>1, <1>6, LimitIsNat DEF TypeOK, Ends
  <2>2. Rounds = 1 + (limit - executions) + Cardinality(Gone)
    BY <1>6 DEF Rounds
  <2>3. Rounds' = 1 + (limit - executions) + Cardinality(Gone')
    BY <1>2, <1>6 DEF Rounds
  <2>. QED  BY <1>3, <1>4, <1>6, <2>1, <2>2, <2>3, GoneIsFinite
<1>. QED  BY <1>5, <1>6

(* An interrupt leaves no round but the one it falls into.                 *)
LEMMA InterruptBurns ==
  ASSUME FuelInv, Ends, NEW S, Interrupt(S)
  PROVE  Burns
<1>1. TypeOK /\ Wanting
  BY DEF FuelInv, IInv
<1>2. ~interrupted /\ interrupted'
  BY DEF Interrupt
<1>3. Rounds' = 0
  BY <1>2 DEF Rounds
<1>4. limit \in Nat /\ executions \in Nat /\ executions <= limit
  BY <1>1, <1>2, LimitIsNat DEF TypeOK, Wanting, Ends
<1>5. Rounds = 1 + (limit - executions) + Cardinality(Gone)
  BY <1>2 DEF Rounds
<1>6. Rounds > 0
  BY <1>4, <1>5, GoneIsFinite
<1>. QED  BY <1>3, <1>6 DEF Burns

(* A worker's step leaves it less to do, and the others what they had.     *)
LEMMA WorkBurns ==
  ASSUME FuelInv, NEW l \in Lanes, Worker(l)
  PROVE  Burns
<1>1. TypeOK
  BY DEF FuelInv, IInv
<1>2. /\ phase' = phase /\ at' = at /\ limit' = limit /\ executions' = executions
      /\ interrupted' = interrupted
  BY DEF Worker, StartOrder, FinishOrder, AnswerBeat, control, books
<1>3. Gone' = Gone
  BY <1>1 DEF Worker, StartOrder, FinishOrder, AnswerBeat, Gone, TypeOK
<1>4. Rounds' = Rounds /\ Leg' = Leg /\ Living' = Living
  BY <1>2, <1>3 DEF Rounds, Leg, AtCheck, Living
<1>5. \A k \in Lanes : inbox[k] \in Seq({"order", "beat"}) /\ Len(inbox[k]) \in Nat
  <2>1. \A k \in Lanes : inbox[k] \in Seq({"order", "beat"})
    BY <1>1 DEF TypeOK
  <2>. QED  BY <2>1
<1>6. inbox[l] # <<>> => Len(Tail(inbox[l])) = Len(inbox[l]) - 1
  BY <1>5
<1>7. \A k \in Lanes : k # l => worker'[k] = worker[k] /\ inbox'[k] = inbox[k]
  BY <1>1 DEF Worker, StartOrder, FinishOrder, AnswerBeat, TypeOK
<1>8. \A k \in Lanes : k # l => Chores(k)' = Chores(k)
  BY <1>7 DEF Chores
<1>9. Chores(l)' < Chores(l)
  <2>1. CASE StartOrder(l)
    <3>1. worker[l] = "idle" /\ worker'[l] = "busy" /\ inbox'[l] = Tail(inbox[l]) /\ inbox[l] # <<>>
      BY <1>1, <2>1 DEF StartOrder, TypeOK
    <3>2. Chores(l) = 2 * Len(inbox[l]) + 0 /\ Chores(l)' = 2 * Len(Tail(inbox[l])) + 1
      BY <3>1 DEF Chores
    <3>. QED  BY <1>5, <1>6, <3>1, <3>2
  <2>2. CASE FinishOrder(l)
    <3>1. worker[l] = "busy" /\ worker'[l] = "idle" /\ inbox'[l] = inbox[l]
      BY <1>1, <2>2 DEF FinishOrder, TypeOK
    <3>2. Chores(l) = 2 * Len(inbox[l]) + 1 /\ Chores(l)' = 2 * Len(inbox[l]) + 0
      BY <3>1 DEF Chores
    <3>. QED  BY <1>5, <3>2
  <2>3. CASE AnswerBeat(l)
    <3>1. worker[l] = "idle" /\ worker'[l] = "idle" /\ inbox'[l] = Tail(inbox[l]) /\ inbox[l] # <<>>
      BY <1>1, <2>3 DEF AnswerBeat, TypeOK
    <3>2. Chores(l) = 2 * Len(inbox[l]) + 0 /\ Chores(l)' = 2 * Len(Tail(inbox[l])) + 0
      BY <3>1 DEF Chores
    <3>. QED  BY <1>5, <1>6, <3>1, <3>2
  <2>. QED  BY <2>1, <2>2, <2>3 DEF Worker
<1>10. \A k \in Lanes : Chores(k) \in Nat
  BY FuelIsNumbers
<1>11. \A k \in Lanes : Chores(k)' <= Chores(k)
  <2> SUFFICES ASSUME NEW k \in Lanes PROVE Chores(k)' <= Chores(k)
    OBVIOUS
  <2>1. CASE k = l
    <3>1. Chores(l)' \in Int
      BY <1>1, <1>5, <1>6 DEF Worker, StartOrder, FinishOrder, AnswerBeat, TypeOK, Chores
    <3>. QED  BY <1>9, <1>10, <2>1, <3>1
  <2>2. CASE k # l
    BY <1>8, <1>10, <2>2
  <2>. QED  BY <2>1, <2>2
<1>. QED  BY <1>4, <1>9, <1>11 DEF Burns

-----------------------------------------------------------------------------
(* A campaign that is to stop, at its limit or because it was interrupted, *)
(* uses up its fuel with every step, but for three: a fruitless look at a  *)
(* silent lane, a heartbeat round, which costs no round, and, until it is  *)
(* interrupted, the death of a worker, which costs one.  So it handles at  *)
(* most one event more than there are results wanting and deaths, and one  *)
(* whose workers die for ever need not end: a death counts no execution    *)
(* (coordinator.rs, handle_worker_death).                                  *)
THEOREM CampaignBurnsFuel ==
  Spec => [][Ends /\ ~Stopped =>
               \/ PollTimesOut
               \/ Heartbeat /\ Rounds' = Rounds /\ Leg' = Leg
               \/ /\ ~interrupted /\ \E l \in Lanes : Die(l)
                  /\ Rounds' = Rounds + 1 /\ Leg' = Leg
               \/ Burns]_vars
<1> DEFINE Fed == \/ PollTimesOut
                  \/ Heartbeat /\ Rounds' = Rounds /\ Leg' = Leg
                  \/ /\ ~interrupted /\ \E l \in Lanes : Die(l)
                     /\ Rounds' = Rounds + 1 /\ Leg' = Leg
                  \/ Burns
<1>1. ASSUME FuelInv, Next, Ends, ~Stopped PROVE Fed
  <2>1. CASE RecoveryFails \/ Finish
    BY <2>1 DEF RecoveryFails, Finish, Abort, Burns, Stopped
  <2>2. CASE Heartbeat
    BY <2>2, HeartbeatCosts
  <2>3. CASE Coordinator
    BY <1>1, <2>1, <2>2, <2>3, DispatchBurns, FrameBurns, DeathBurns, CheckBurns
       DEF Coordinator
  <2>4. CASE \E l \in Lanes : Worker(l)
    BY <1>1, <2>4, WorkBurns
  <2>5. ASSUME NEW l \in Lanes, Die(l) PROVE Fed
    BY <1>1, <2>5, DeathCosts
  <2>6. CASE Environment
    BY <1>1, <2>5, <2>6, InterruptBurns DEF Environment
  <2>. QED  BY <1>1, <2>3, <2>4, <2>6 DEF Next, Rest
<1>2. FuelInv /\ [Next]_vars => [Ends /\ ~Stopped => Fed]_vars
  BY <1>1
<1>. QED  BY <1>2, CampaignFuel, PTL DEF Spec

(* The fuel is made of natural numbers: a campaign cannot burn it for ever.*)
THEOREM FuelIsFinite ==
  Spec => [](/\ Ends => Rounds \in Nat
             /\ Leg \in Nat /\ Living \in Nat /\ \A l \in Lanes : Chores(l) \in Nat)
<1>1. FuelInv => /\ Ends => Rounds \in Nat
                 /\ Leg \in Nat /\ Living \in Nat /\ \A l \in Lanes : Chores(l) \in Nat
  BY FuelIsNumbers
<1>. QED  BY <1>1, CampaignFuel, PTL

(* The coordinator never waits for a lane that waits for it: whatever lane *)
(* it finds alive and silent has an order, or a heartbeat, to work on.     *)
THEOREM NobodyWaitsInVain ==
  Spec => [](phase = "poll" =>
               \A l \in Lanes : outbox[l] # <<>> \/ worker[l] = "gone" \/ CanWork(l))
<1>1. ASSUME BalanceInv, phase = "poll", NEW l \in Lanes, outbox[l] = <<>>, worker[l] # "gone"
      PROVE  CanWork(l)
  <2>1. TypeOK /\ EveryLaneHasWork /\ Balanced(l)
    BY <1>1 DEF BalanceInv, IInv, Stopped
  <2>2. pending[l] /\ InFlight(l) # 0
    BY <1>1, <2>1 DEF EveryLaneHasWork, Balanced
  <2>3. CASE inbox[l] = <<>>
    <3>1. Occurrences("order", inbox[l]) = 0 /\ Occurrences("result", outbox[l]) = 0
      BY <1>1, <2>3, NoneInEmptyPipe
    <3>2. worker[l] = "busy"
      BY <2>2, <3>1 DEF InFlight
    <3>. QED  BY <3>2 DEF CanWork
  <2>. QED  BY <1>1, <2>1, <2>3 DEF CanWork, TypeOK
<1>2. BalanceInv => (phase = "poll" =>
        \A l \in Lanes : outbox[l] # <<>> \/ worker[l] = "gone" \/ CanWork(l))
  BY <1>1
<1>. QED  BY <1>2, CampaignBalance, PTL

-----------------------------------------------------------------------------
(* One lane. *)

(* What the stages between two executions guarantee, one after the other.  *)
Ran(c) == [coord |-> <<order, i>>, input |-> c.input, guided |-> c.guided]

StageInv ==
  /\ pc # "idle" => order # None
  /\ op # None => pc = "commit" /\ Ledger!SeqOf(reg) < MaxCommits
  /\ pc = "commit" => op = <<order, i>>
  /\ pc \in {"echo", "copy", "window"} =>
       /\ reg # None /\ reg.coord = <<order, i>>
       /\ made = Ran(cand)
  /\ pc = "window" => echo = cand.input

(* The history of commits follows the ledger.                              *)
MadeInv == IF reg = None THEN made.coord = None ELSE made.coord = reg.coord

(* A worker that dies of its candidate dies inside the window.             *)
CauseInv ==
  cause \in {"crash", "timeout"} =>
    pc = "window" /\ cand.input \in Crashing \cup Hanging

LaneInv == LaneTypeOK /\ StageInv /\ MadeInv /\ CauseInv

-----------------------------------------------------------------------------
LEMMA BoundIsNat == MaxCommits \in Nat
BY LaneBounds DEF MaxCommits

LEMMA InitLaneInv == LaneInit => LaneInv
<1> SUFFICES ASSUME LaneInit PROVE LaneInv
  OBVIOUS
<1>1. LaneTypeOK
  <2>1. LedgerTyped /\ DeathTyped
    BY LaneBounds DEF LaneInit, LedgerTyped, DeathTyped, Ledger!Init
  <2>2. CoordTyped
    <3>1. sent \in 0..MaxOrders /\ pend \in {None} \cup 1..MaxOrders
      BY LaneBounds DEF LaneInit
    <3>2. findings = {} /\ aborted \in BOOLEAN
      BY DEF LaneInit
    <3>3. QED BY <3>1, <3>2 DEF CoordTyped
  <2>3. LaneTyped
    <3>1. cand \in Candidates
      BY DEF LaneInit, NoCandidate, Candidates, Bytes
    <3>2. made \in [coord : {None} \cup Coords, input : Bytes, guided : BOOLEAN]
      BY DEF LaneInit, NothingMade, Bytes
    <3>3. hits \in BOOLEAN /\ answered \in BOOLEAN
      BY DEF LaneInit
    <3>4. echo \in Bytes \cup {Torn} /\ order \in {None} \cup 1..MaxOrders
          /\ pc = "idle" /\ i \in 1..Batch
      BY LaneBounds DEF LaneInit, Bytes
    <3>5. QED BY <3>1, <3>2, <3>3, <3>4 DEF LaneTyped
  <2>4. QED BY <2>1, <2>2, <2>3 DEF LaneTypeOK
<1>2. StageInv /\ MadeInv /\ CauseInv
  BY NoneAssumption DEF LaneInit, StageInv, MadeInv, CauseInv, Ledger!Init, NothingMade
<1>3. QED BY <1>1, <1>2 DEF LaneInv

(* The stages of one execution. *)
LEMMA StagesKeepLaneInv ==
  ASSUME LaneInv,
         TakeOrder \/ BeginCommit \/ CommitLands \/ EchoLength \/ EchoBytes \/ Execute
  PROVE  LaneInv'
<1>1. LaneTypeOK /\ StageInv /\ MadeInv /\ CauseInv
  BY DEF LaneInv
<1>2. CASE TakeOrder
  <2>1. LaneTypeOK'
    BY <1>1, <1>2, LaneBounds DEF LaneTypeOK, LedgerTyped, LaneTyped, CoordTyped, DeathTyped,
          TakeOrder, ledger, coord, death
  <2>2. StageInv'
    BY <1>1, <1>2 DEF StageInv, TakeOrder, ledger, coord, death
  <2>3. MadeInv' /\ CauseInv'
    BY <1>1, <1>2 DEF MadeInv, CauseInv, TakeOrder, ledger, coord, death
  <2>4. QED BY <2>1, <2>2, <2>3 DEF LaneInv
<1>3. CASE BeginCommit
  <2>1. <<order, i>> \in Coords
    BY <1>1, <1>3 DEF LaneTypeOK, LedgerTyped, LaneTyped, CoordTyped, DeathTyped,
          StageInv, BeginCommit, Coords
  <2>2. /\ op' = <<order, i>> /\ reg' = reg /\ up' = up
        /\ Ledger!SeqOf(reg) < MaxCommits
    BY <1>3 DEF BeginCommit, Ledger!Call
  <2>3. LaneTypeOK'
    BY <1>1, <1>3, <2>1, <2>2 DEF LaneTypeOK, LedgerTyped, LaneTyped, CoordTyped, DeathTyped,
          BeginCommit, coord, death
  <2>4. StageInv'
    BY <1>1, <1>3, <2>2 DEF StageInv, BeginCommit, Ledger!SeqOf
  <2>5. MadeInv' /\ CauseInv'
    BY <1>1, <1>3, <2>2 DEF MadeInv, CauseInv, BeginCommit, death
  <2>6. QED BY <2>3, <2>4, <2>5 DEF LaneInv
<1>4. CASE CommitLands
  <2>1. op = <<order, i>> /\ op \in Coords /\ Ledger!SeqOf(reg) < MaxCommits
    BY <1>1, <1>4 DEF LaneTypeOK, LedgerTyped, LaneTyped, CoordTyped, DeathTyped,
          StageInv, CommitLands, Ledger!Apply
  <2>2. /\ reg' = [seq |-> Ledger!SeqOf(reg) + 1, coord |-> op]
        /\ op' = None /\ up' = up
    BY <1>4 DEF CommitLands, Ledger!Apply
  <2>3. Ledger!SeqOf(reg) + 1 \in 1..MaxCommits
    BY <1>1, <2>1, BoundIsNat DEF LaneTypeOK, LedgerTyped, LaneTyped, CoordTyped, DeathTyped,
          Ledger!SeqOf
  <2>4. reg' \in [seq : 1..MaxCommits, coord : Coords] /\ reg' # None
    BY <2>1, <2>2, <2>3, NoneAssumption
  <2>5. made' \in [coord : {None} \cup Coords, input : Bytes, guided : BOOLEAN]
    BY <1>1, <1>4, <2>1 DEF LaneTypeOK, LedgerTyped, LaneTyped, CoordTyped, DeathTyped,
          CommitLands, Candidates
  <2>6. LaneTypeOK'
    BY <1>1, <1>4, <2>2, <2>4, <2>5 DEF LaneTypeOK, LedgerTyped, LaneTyped, CoordTyped, DeathTyped,
          CommitLands, coord, death
  <2>7. StageInv' /\ MadeInv' /\ CauseInv'
    BY <1>1, <1>4, <2>1, <2>2, <2>4
       DEF StageInv, MadeInv, CauseInv, CommitLands, Ran, death
  <2>8. QED BY <2>6, <2>7 DEF LaneInv
<1>5. CASE EchoLength \/ EchoBytes
  <2>1. LaneTypeOK'
    BY <1>1, <1>5 DEF LaneTypeOK, LedgerTyped, LaneTyped, CoordTyped, DeathTyped,
          EchoLength, EchoBytes, ledger, coord, death, Candidates, Bytes
  <2>2. StageInv'
    BY <1>1, <1>5 DEF StageInv, EchoLength, EchoBytes, ledger, Ran
  <2>3. MadeInv' /\ CauseInv'
    BY <1>1, <1>5 DEF MadeInv, CauseInv, EchoLength, EchoBytes, ledger, death
  <2>4. QED BY <2>1, <2>2, <2>3 DEF LaneInv
<1>6. CASE Execute
  <2>1. LaneTypeOK'
    <3>1. LaneTyped'
      <4>1. hits' \in BOOLEAN /\ answered' \in BOOLEAN
        BY <1>1, <1>6 DEF LaneTypeOK, LaneTyped, Execute
      <4>2. i' \in 1..Batch /\ pc' \in {"idle", "mutate"}
        BY <1>1, <1>6, LaneBounds DEF LaneTypeOK, LaneTyped, Execute
      <4>3. UNCHANGED <<echo, order, cand, made>>
        BY <1>6 DEF Execute
      <4>4. QED BY <1>1, <4>1, <4>2, <4>3 DEF LaneTypeOK, LaneTyped
    <3>2. LedgerTyped' /\ CoordTyped' /\ DeathTyped'
      BY <1>1, <1>6
         DEF LaneTypeOK, LedgerTyped, CoordTyped, DeathTyped, Execute, ledger, coord, death
    <3>3. QED BY <3>1, <3>2 DEF LaneTypeOK
  <2>2. StageInv'
    BY <1>1, <1>6 DEF StageInv, Execute, ledger
  <2>3. MadeInv' /\ CauseInv'
    BY <1>1, <1>6 DEF MadeInv, CauseInv, Execute, ledger, death
  <2>4. QED BY <2>1, <2>2, <2>3 DEF LaneInv
<1>7. QED BY <1>2, <1>3, <1>4, <1>5, <1>6

(* Deaths change nothing but the fact of them. *)
LEMMA DeathsKeepLaneInv == LaneInv /\ (DieInWindow \/ Kill) => LaneInv'
<1> SUFFICES ASSUME LaneInv, DieInWindow \/ Kill PROVE LaneInv'
  OBVIOUS
<1>1. LaneTypeOK /\ StageInv /\ MadeInv /\ CauseInv
  BY DEF LaneInv
<1>2. reg' = reg /\ op' = op /\ up' = FALSE /\ UNCHANGED <<lane, coord>>
  BY DEF DieInWindow, Kill, Ledger!Die
<1>3. cause' \in {"crash", "timeout", "killed"} /\ kills' \in 0..MaxKills
  BY <1>1, LaneBounds DEF LaneTypeOK, LedgerTyped, LaneTyped, CoordTyped, DeathTyped,
          DieInWindow, Kill
<1>4. LaneTypeOK'
  <2>1. LedgerTyped' /\ DeathTyped'
    BY <1>1, <1>2, <1>3 DEF LaneTypeOK, LedgerTyped, DeathTyped
  <2>2. LaneTyped' /\ CoordTyped'
    BY <1>1, <1>2 DEF LaneTypeOK, LaneTyped, CoordTyped, lane, coord
  <2>3. QED BY <2>1, <2>2 DEF LaneTypeOK
<1>5. StageInv' /\ MadeInv'
  BY <1>1, <1>2 DEF StageInv, MadeInv, lane, coord, Ran
<1>6. CauseInv'
  BY <1>1, <1>2 DEF CauseInv, DieInWindow, Kill, lane
<1>7. QED BY <1>4, <1>5, <1>6 DEF LaneInv

(* What the coordinator blames has a type, and a coordinate when it is not *)
(* empty.                                                                  *)
LEMMA BlamedTyped ==
  ASSUME LaneTypeOK, MadeInv, NEW input \in Blamed
  PROVE  /\ input \in Bytes \cup {Torn}
         /\ input # Empty => reg # None /\ reg.coord \in Coords
<1>1. CASE reg = None
  BY <1>1 DEF Blamed, Bytes
<1>2. CASE reg # None
  <2>1. reg.coord \in Coords
    BY <1>2 DEF LaneTypeOK, LedgerTyped, LaneTyped, CoordTyped, DeathTyped
  <2>2. Reconstructed \subseteq Bytes
    BY DEF LaneTypeOK, LedgerTyped, LaneTyped, CoordTyped, DeathTyped,
          Reconstructed, Bytes
  <2>3. QED BY <1>2, <2>1, <2>2 DEF Blamed, LaneTypeOK, LedgerTyped, LaneTyped, CoordTyped, DeathTyped
<1>3. QED BY <1>1, <1>2

LEMMA CoordinatorKeepsLaneInv ==
  ASSUME LaneInv, Send \/ DispatchFails \/ ProcessResult \/ LedgerDamaged \/ HandleWorkerDeath
  PROVE  LaneInv'
<1>1. LaneTypeOK /\ StageInv /\ MadeInv /\ CauseInv
  BY DEF LaneInv
<1>2. CASE Send \/ DispatchFails \/ ProcessResult \/ LedgerDamaged
  <2>1. LaneTypeOK'
    <3>1. LedgerTyped' /\ DeathTyped'
      BY <1>1, <1>2
         DEF LaneTypeOK, LedgerTyped, DeathTyped, Send, DispatchFails, ProcessResult,
             LedgerDamaged, Aborts, ledger, death
    <3>2. LaneTyped'
      BY <1>1, <1>2
         DEF LaneTypeOK, LaneTyped, Send, DispatchFails, ProcessResult, LedgerDamaged,
             Aborts, lane
    <3>3. sent' \in 0..MaxOrders /\ pend' \in {None} \cup 1..MaxOrders
      BY <1>1, <1>2, LaneBounds
         DEF LaneTypeOK, CoordTyped, Send, DispatchFails, ProcessResult, LedgerDamaged, Aborts
    <3>4. findings' = findings /\ aborted' \in BOOLEAN
      BY <1>1, <1>2
         DEF LaneTypeOK, CoordTyped, Send, DispatchFails, ProcessResult, LedgerDamaged, Aborts
    <3>5. QED BY <1>1, <3>1, <3>2, <3>3, <3>4 DEF LaneTypeOK, CoordTyped
  <2>2. StageInv'
    BY <1>1, <1>2
       DEF StageInv, Send, DispatchFails, ProcessResult, LedgerDamaged, Aborts, ledger,
           lane, Ran
  <2>3. MadeInv' /\ CauseInv'
    BY <1>1, <1>2
       DEF MadeInv, CauseInv, Send, DispatchFails, ProcessResult, LedgerDamaged, Aborts,
           ledger, lane, death
  <2>4. QED BY <2>1, <2>2, <2>3 DEF LaneInv
<1>3. CASE HandleWorkerDeath
  <2>1. PICK input \in Blamed : \E replay \in Replay(input) :
          findings' = Recorded(input, replay)
    BY <1>3 DEF HandleWorkerDeath
  <2>2. PICK replay \in Replay(input) : findings' = Recorded(input, replay)
    BY <2>1
  <2>3. replay \in {"reproduced", "not-reproduced"}
    BY <2>2 DEF Replay
  <2>4. findings' \subseteq
          [coord : Coords, input : Inputs \cup {Torn},
           kind : {"crash"}, replay : {"reproduced", "not-reproduced"}]
    BY <1>1, <2>1, <2>2, <2>3, BlamedTyped DEF LaneTypeOK, LedgerTyped, LaneTyped, CoordTyped, DeathTyped,
          Recorded, Bytes
  <2>5. /\ reg' = None /\ op' = None /\ up' = TRUE
        /\ echo' = Empty /\ pc' = "idle" /\ order' = None /\ i' = 1
        /\ cand' = NoCandidate /\ hits' = FALSE /\ made' = NothingMade
        /\ cause' = None /\ pend' = None
        /\ UNCHANGED <<answered, sent, aborted, kills>>
    BY <1>3 DEF HandleWorkerDeath, Respawn, Ledger!Reopen
  <2>6. NoCandidate \in Candidates
        /\ NothingMade \in [coord : {None} \cup Coords, input : Bytes, guided : BOOLEAN]
        /\ NothingMade.coord = None
    BY DEF NoCandidate, NothingMade, Candidates, Bytes
  <2>7. LaneTypeOK'
    <3>1. LedgerTyped' /\ DeathTyped' /\ CoordTyped'
      BY <1>1, <2>4, <2>5 DEF LaneTypeOK, LedgerTyped, DeathTyped, CoordTyped
    <3>2. 1 \in 1..Batch /\ Empty \in Bytes
      BY LaneBounds DEF Bytes
    <3>3. LaneTyped'
      BY <1>1, <2>5, <2>6, <3>2 DEF LaneTypeOK, LaneTyped
    <3>4. QED BY <3>1, <3>3 DEF LaneTypeOK
  <2>8. StageInv' /\ MadeInv' /\ CauseInv'
    BY <2>5, <2>6, NoneAssumption DEF StageInv, MadeInv, CauseInv
  <2>9. QED BY <2>7, <2>8 DEF LaneInv
<1>4. QED BY <1>2, <1>3

LEMMA NextKeepsLaneInv == LaneInv /\ [LaneNext]_laneVars => LaneInv'
<1> SUFFICES ASSUME LaneInv, [LaneNext]_laneVars PROVE LaneInv'
  OBVIOUS
<1>1. CASE UNCHANGED laneVars
  BY <1>1 DEF LaneInv, LaneTypeOK, LedgerTyped, LaneTyped, CoordTyped, DeathTyped, StageInv, MadeInv, CauseInv, laneVars, ledger, lane,
              coord, death, Ran
<1>2. CASE ~UNCHANGED laneVars
  BY <1>2, StagesKeepLaneInv, DeathsKeepLaneInv, CoordinatorKeepsLaneInv DEF LaneNext, LaneRest
<1>3. QED BY <1>1, <1>2

-----------------------------------------------------------------------------
(* LaneInv holds in every reachable state. *)
THEOREM LaneInvariant == LaneSpec => []LaneInv
BY InitLaneInv, NextKeepsLaneInv, PTL DEF LaneSpec

(* Type correctness of the lane. *)
THEOREM LaneTypes == LaneSpec => []LaneTypeOK
<1>1. LaneInv => LaneTypeOK
  BY DEF LaneInv
<1>2. QED BY <1>1, LaneInvariant, PTL

(* Whenever the target runs, the ledger file holds the coordinate and the  *)
(* bytes of exactly this execution, wherever the worker died before.       *)
THEOREM CommittedBeforeTarget == LaneSpec => []CommittedBeforeWindow
<1>1. LaneInv => CommittedBeforeWindow
  BY DEF LaneInv, StageInv, CommittedBeforeWindow
<1>2. QED BY <1>1, LaneInvariant, PTL

(* A death the candidate caused is attributed to it, bytes and coordinate, *)
(* and the replay confirms it, for every non-empty candidate.              *)
THEOREM WindowDeathsAttributed == LaneSpec => DeathInWindowAttributed
<1>1. ASSUME LaneInv, HandleWorkerDeath, cause \in {"crash", "timeout"}, cand.input # Empty
      PROVE  \E f \in findings' : /\ f.coord = <<order, i>>
                                  /\ f.input = cand.input
                                  /\ f.replay = "reproduced"
  <2>1. pc = "window" /\ cand.input \in Crashing \cup Hanging
    BY <1>1 DEF LaneInv, CauseInv
  <2>2. reg # None /\ reg.coord = <<order, i>> /\ echo = cand.input
    BY <1>1, <2>1 DEF LaneInv, StageInv
  <2>3. Blamed = {cand.input}
    BY <1>1, <2>2 DEF Blamed
  <2>4. Replay(cand.input) = {"reproduced"}
    BY <2>1 DEF Replay
  <2>5. findings' = Recorded(cand.input, "reproduced")
    BY <1>1, <2>3, <2>4 DEF HandleWorkerDeath
  <2>6. [coord |-> reg.coord, input |-> cand.input, kind |-> "crash",
         replay |-> "reproduced"] \in findings'
    BY <1>1, <2>5 DEF Recorded
  <2>7. QED BY <2>2, <2>6
<1>2. LaneInv => [HandleWorkerDeath /\ cause \in {"crash", "timeout"} /\ cand.input # Empty
                 => \E f \in findings' : /\ f.coord = <<order, i>>
                                         /\ f.input = cand.input
                                         /\ f.replay = "reproduced"]_laneVars
  BY <1>1
<1>3. QED BY <1>2, LaneInvariant, PTL DEF DeathInWindowAttributed

(* A new finding names the last commit of the very process that died.      *)
THEOREM BlameIsFresh == LaneSpec => NoStaleBlame
<1>1. ASSUME LaneInv, [LaneNext]_laneVars, NEW f \in findings' \ findings
      PROVE  f.coord = made.coord
  <2>1. CASE HandleWorkerDeath
    <3>1. PICK input \in Blamed : \E replay \in Replay(input) :
            findings' = Recorded(input, replay)
      BY <2>1 DEF HandleWorkerDeath
    <3>2. input # Empty /\ f.coord = reg.coord
      BY <1>1, <3>1 DEF Recorded
    <3>3. reg # None
      BY <1>1, <3>1, <3>2, BlamedTyped DEF LaneInv
    <3>4. QED BY <1>1, <3>2, <3>3 DEF LaneInv, MadeInv
  <2>2. CASE ~HandleWorkerDeath
    <3>1. findings' = findings
      BY <1>1, <2>2
         DEF LaneNext, TakeOrder, BeginCommit, CommitLands, EchoLength, EchoBytes,
             Execute, DieInWindow, Kill, Send, DispatchFails, ProcessResult,
             LedgerDamaged, Aborts, LaneRest, laneVars, coord
    <3>2. QED BY <1>1, <3>1
  <2>3. QED BY <2>1, <2>2
<1>2. LaneInv /\ [LaneNext]_laneVars => [\A f \in findings' \ findings : f.coord = made.coord]_laneVars
  BY <1>1
<1>3. QED BY <1>2, LaneInvariant, PTL DEF LaneSpec, NoStaleBlame
=============================================================================
