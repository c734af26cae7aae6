------------------------------- MODULE Codecs -------------------------------
(***************************************************************************)
(* One payload on its way: an encoder is given a value, the units it makes *)
(* are delivered whole, cut short, with something after them, or with one  *)
(* unit changed, and the decoder of the same payload reads them.           *)
(***************************************************************************)
EXTENDS Payloads

CONSTANT Formats   \* the layouts to try

VARIABLE msg   \* [fmt, value, sent, wire, how, got], or Idle

Blank == [fmt |-> "none"]

-----------------------------------------------------------------------------
(* Values: for each layout two samples and each of them with one field     *)
(* changed, to values within every bound and one past it.                  *)
Longest == 4
Units(n) == [i \in 1..n |-> i]
Smallest(S) == CHOOSE x \in S : \A y \in S : x <= y
Largest(S)  == CHOOSE x \in S : \A y \in S : x >= y

Codes(S) == {Smallest(S), Smallest(S) - 1, Largest(S)} \cup (IF Largest(S) = Most THEN {} ELSE {Largest(S) + 1})
Lengths(f) == {0, 1, 2, f.max, f.max + 1} \cap 0..Longest

RECURSIVE Sample(_, _), Altered(_, _)

(* `full`: nothing is absent, empty or zero.                               *)
SampleField(f, full) ==
  CASE f.k = "num"    -> IF full THEN Smallest(f.in) + 1 ELSE Smallest(f.in)
    [] f.k = "bool"   -> full
    [] f.k = "orzero" -> IF full THEN 3 ELSE Absent
    [] f.k = "bytes"  -> Units(IF full THEN 1 ELSE f.min)
    [] f.k = "len"    -> Units(IF full THEN 1 ELSE 0)
    [] f.k = "list"   -> IF full THEN <<Sample(f.of, full)>> ELSE <<>>
    [] f.k = "opt"    -> IF full THEN Sample(f.of, full) ELSE Absent
    [] f.k = "axes"   -> [a \in Axes |-> IF full /\ a = 2 THEN Sample(f.of, full) ELSE Absent]
    [] OTHER          -> Sample(f.of, full)

Sample(fs, full) ==
  FoldLeft(LAMBDA v, f : IF f.k \in {"const", "pad", "crc", "body"} THEN v
                         ELSE (f.n :> SampleField(f, full)) @@ v, <<>>, fs)

Others(f, x) ==
  CASE f.k = "num"    -> {n \in Codes(f.in) \cup {x + 1} : n >= 0}
    [] f.k = "bool"   -> {~x}
    [] f.k = "orzero" -> {Absent, 5}
    [] f.k \in {"bytes", "len"} -> {Units(n) : n \in Lengths(f)}
    [] f.k = "list"   -> {[i \in 1..n |-> Sample(f.of, TRUE)] : n \in Lengths(f)}
                         \cup {<<y>> : y \in Altered(f.of, Sample(f.of, TRUE))}
    [] f.k = "opt"    -> {Absent} \cup Altered(f.of, Sample(f.of, TRUE))
    [] f.k = "axes"   -> [Axes -> {Absent, Sample(f.of, TRUE), Sample(f.of, FALSE)}
                                    \cup (IF f.all THEN {} ELSE {Untouched(1)})]
    [] OTHER          -> Altered(f.of, x)

Altered(fs, v) ==
  UNION {{[v EXCEPT ![fs[i].n] = y] : y \in Others(fs[i], v[fs[i].n])} :
           i \in {j \in DOMAIN fs : fs[j].k \notin {"const", "pad", "crc", "body"}}}

Samples(fmt) ==
  LET of(full) == Sample(Writes(fmt), full)
  IN  UNION {{of(full)} \cup Altered(Writes(fmt), of(full))
                        \cup Altered(Reads(fmt), of(full)) : full \in BOOLEAN}

-----------------------------------------------------------------------------
Fresh(fmt, v) == [fmt |-> fmt, value |-> v, sent |-> Sends(fmt, v),
                  wire |-> Lay(Writes(fmt), v), how |-> "encoded", got |-> Absent]

Arrive(how, w) ==
  msg' = [msg EXCEPT !.how = how, !.wire = w, !.got = Receives(msg.fmt, w)]

CodecsInit == msg = Blank

(* An encoder lays a value out; `sent` is whether it returns the units or  *)
(* an error.                                                               *)
Encode(fmt) == msg = Blank /\ \E v \in Samples(fmt) : msg' = Fresh(fmt, v)

OnItsWay == msg # Blank /\ msg.how = "encoded"

Deliver       == OnItsWay /\ Arrive("whole", msg.wire)
DeliverCut    == /\ OnItsWay /\ msg.sent
                 /\ \E n \in 0..(Len(msg.wire) - 1) : Arrive("cut", SubSeq(msg.wire, 1, n))
DeliverLonger == OnItsWay /\ msg.sent /\ Arrive("longer", Append(msg.wire, 0))
DeliverFlipped ==
  /\ OnItsWay /\ msg.sent
  /\ \E i \in DOMAIN msg.wire :
       Arrive("flipped", [msg.wire EXCEPT ![i] = IF @ = 0 THEN 1 ELSE @ - 1])

(* Another payload.                                                        *)
Done == msg # Blank /\ msg.how # "encoded" /\ msg' = Blank

CodecsNext == \/ \E fmt \in Formats : Encode(fmt)
              \/ Deliver \/ DeliverCut \/ DeliverLonger \/ DeliverFlipped
              \/ Done

-----------------------------------------------------------------------------
Arrived(how) == msg # Blank /\ msg.how = how

(* What the decoders of the orders, of the results, of the precedents and  *)
(* of the episodes refuse although the encoder sends it.                   *)
OneSided(fmt, v) ==
  \/ fmt = "order"     /\ v.count = 0
  \/ fmt = "result"    /\ Len(v.override) > MaxFeatures
  \/ fmt = "precedent" /\ v.class > 13
  \/ fmt = "episode"   /\ v.policy > 3

(* What is told of a value: a checkpoint is read for its indices only, and *)
(* a result's summary says nothing of an axis no execution touched,        *)
(* although the worker summed its distance from the parent's.              *)
Told(axes) == [a \in Axes |-> IF IsTouched(axes[a]) THEN axes[a] ELSE Absent]
Part(fmt, v) ==
  CASE fmt = "checkpoint" -> [next |-> v.next]
    [] fmt = "result"     -> [v EXCEPT !.summary.axes = Told(@)]
    [] OTHER              -> v
SameValue(fmt, v, r) ==
  LET part == Part(fmt, v) IN \A n \in DOMAIN part : n \in DOMAIN r /\ r[n] = part[n]

(* What an encoder of the protocol or of the store sends, the decoder on   *)
(* the other side refuses in four cases: an order of no execution, more    *)
(* override features than its bound, a precedent's class and an episode's  *)
(* policy it has no name for.  Anything else it accepts, and it reads what *)
(* the payload tells of the value that was sent: all of it, but for the    *)
(* sums of untouched signals and for what a checkpoint is not read for.    *)
(* What the encoder refuses, the decoder refuses too, except that a frame  *)
(* whose payload alone fits the frame bound is refused by the writer only. *)
RoundTrip ==
  /\ Arrived("whole") /\ msg.sent =>
       /\ msg.got.ok <=> ~OneSided(msg.fmt, msg.value)
       /\ msg.got.ok => SameValue(msg.fmt, msg.value, msg.got.v)
  /\ Arrived("whole") /\ ~msg.sent =>
       ~msg.got.ok \/ (msg.fmt = "frame" /\ Len(msg.value.payload) <= MaxFrame)

(* Nothing but the whole payload is taken for it: no decoder accepts a     *)
(* payload cut short or followed by something, save the two that read from *)
(* a stream; and no changed unit of a frame goes unnoticed.                *)
Exact ==
  /\ Arrived("cut") => ~msg.got.ok \/ (msg.fmt = "checkpoint" /\ msg.wire = <<>>)
  /\ Arrived("longer") => msg.got.ok <=> msg.fmt \in Streams
  /\ Arrived("flipped") /\ msg.fmt = "frame" => ~msg.got.ok
=============================================================================
