------------------------------ MODULE Kernels ------------------------------
(***************************************************************************)
(* The vector operations (simd/): for each the scalar one, which is        *)
(* normative, and the AVX2 one, which walks whole chunks and does the tail *)
(* byte by byte; and the coverage counters (target_runtime/sancov.rs) that *)
(* every execution window clears and scans with them.                      *)
(*                                                                         *)
(* A byte is the set of its set bits; offsets are counted from 0.          *)
(***************************************************************************)
EXTENDS Integers, FiniteSets, SequencesExt, FiniteSetsExt

CONSTANTS
  Width,      (* Bytes in a vector: 32.                                    *)
  Group,      (* Bytes a bit of the presence mask stands for: 8.           *)
  SlotGroups, (* Bits of one slot of the mask: 64.                         *)
  Cells,      (* The values of a byte.                                     *)
  LowBits,    (* The bits of its low nibble.                               *)
  MaxData,    (* Bound: bytes of a buffer.                                 *)
  MaxOut,     (* Bound: entries of an output buffer.                       *)
  MaxRanges,  (* Counter arrays the registry has room for: 64.             *)
  MaxLen,     (* The longest it accepts: 2^30.                             *)
  MaxModules  (* Bound: counter arrays the target registers.               *)

ASSUME WidthAssumption ==
  /\ Width \in Nat \ {0} /\ Group \in Nat \ {0} /\ Width % Group = 0
  /\ SlotGroups \in Nat \ {0}
  /\ {MaxData, MaxOut, MaxLen} \subseteq Nat
  /\ {} \in Cells /\ \A x \in Cells : IsFiniteSet(x)

VARIABLES
  call,       (* The last call of a kernel: [op, a, b, cap, fast].         *)
  ranges,     (* RANGES: the counter arrays registered, in order.          *)
  latch,      (* REGISTRATION_ERROR.                                       *)
  modules,    (* How many constructors have run.                           *)
  on,         (* The worker's loop has begun.                              *)
  report      (* The last scan: [out, n, before], or NoReport.             *)

covVars    == <<ranges, latch, modules, on, report>>
kernelVars == <<call, covVars>>

At(d, i)    == d[i + 1]
Offsets(d)  == 0..(Len(d) - 1)
Ascending(S) == [k \in 1..Cardinality(S) |-> CHOOSE x \in S : Cardinality({y \in S : y < x}) = k - 1]
FirstN(s, n) == SubSeq(s, 1, Min({n, Len(s)}))
SumOf(ns)   ==
  LET upto[i \in 0..Len(ns)] == IF i = 0 THEN 0 ELSE upto[i - 1] + ns[i]
  IN  upto[Len(ns)]
Weight(d, of(_)) == SumOf([i \in DOMAIN d |-> of(d[i])])
Pairs(a, b) == [i \in DOMAIN a |-> <<a[i], b[i]>>]
Xor(x, y)   == (x \ y) \cup (y \ x)
Zeros(d)    == [i \in DOMAIN d |-> {}]

-----------------------------------------------------------------------------
(* Scalar.                                                                 *)

Nonzero(d) == {i \in Offsets(d) : At(d, i) # {}}
Differ(a, b) == {i \in Offsets(a) : At(a, i) # At(b, i)}

CountNonzero(d)        == Cardinality(Nonzero(d))
NonzeroIndices(d, cap) == FirstN(Ascending(Nonzero(d)), cap)
ClearNonzero(d)        == [data |-> Zeros(d), n |-> CountNonzero(d)]
CountNewlySet(a, b)    == Weight(Pairs(a, b), LAMBDA p : Cardinality(p[2] \ p[1]))
MergeInto(a, b)        == [i \in DOMAIN a |-> a[i] \cup b[i]]
XorInto(a, b)          == [i \in DOMAIN a |-> Xor(a[i], b[i])]
Popcount(d)            == Weight(d, Cardinality)
FirstMismatch(a, b)    == IF Differ(a, b) = {} THEN <<>> ELSE <<Min(Differ(a, b))>>
LastMismatch(a, b)     == IF Differ(a, b) = {} THEN <<>> ELSE <<Max(Differ(a, b))>>
MismatchCount(a, b)    == Cardinality(Differ(a, b))

(* The buffer is consumed even when there is no room to report all of it.  *)
ScanNonzeroClear(d, cap) ==
  [out |-> NonzeroIndices(d, cap), saturated |-> CountNonzero(d) > cap, data |-> Zeros(d)]

SlotOf(i) == i \div (SlotGroups * Group)
BitOf(i)  == (i % (SlotGroups * Group)) \div Group

ChunkPresentMask(d, slots) ==
  [s \in 1..slots |-> {BitOf(i) : i \in {j \in Nonzero(d) : SlotOf(j) = s - 1}}]

-----------------------------------------------------------------------------
(* AVX2.                                                                   *)

(* The whole chunks, where each begins, and where the tail does.           *)
Chunks(n)    == 1..(n \div Width)
StartOf(c)   == (c - 1) * Width
TailStart(n) == n - (n % Width)
Tail32(d)    == SubSeq(d, TailStart(Len(d)) + 1, Len(d))
Load(d, i)   == SubSeq(d, i + 1, i + Width)

(* movemask(cmpeq(v, 0)), inverted: the lanes that are not zero.           *)
Lanes32(v) == {k \in 0..(Width - 1) : At(v, k) # {}}

(* A chunk at a time, then the tail.                                       *)
Summing(per(_), d) == SumOf([c \in Chunks(Len(d)) |-> per(Load(d, StartOf(c)))])

FastCountNonzero(d) ==
  Summing(LAMBDA v : Width - Cardinality(0..(Width - 1) \ Lanes32(v)), d)
  + CountNonzero(Tail32(d))

(* byte_popcount_sum: both nibbles looked up and added lane by lane.       *)
BytePopcountSum(v) ==
  Weight(v, LAMBDA x : Cardinality(x \cap LowBits) + Cardinality(x \ LowBits))

FastPopcount(d) == Summing(BytePopcountSum, d) + Popcount(Tail32(d))

AndNot(a, b) == [i \in DOMAIN a |-> b[i] \ a[i]]

FastCountNewlySet(a, b) ==
  SumOf([c \in Chunks(Len(b)) |-> BytePopcountSum(AndNot(Load(a, StartOf(c)), Load(b, StartOf(c))))])
  + CountNewlySet(Tail32(a), Tail32(b))

Lanewise(op(_, _), a, b) ==
  FlattenSeq([c \in Chunks(Len(a)) |-> op(Load(a, StartOf(c)), Load(b, StartOf(c)))])
    \o op(Tail32(a), Tail32(b))

FastMerge(a, b) == Lanewise(MergeInto, a, b)
FastXor(a, b)   == Lanewise(XorInto, a, b)
FastClear(d)    == Lanewise(LAMBDA v, w : Zeros(v), d, d)

(* cmpeq(xor(x, y), 0): the lanes of a chunk that differ.                  *)
LanesApart(a, b, c)  == Lanes32(XorInto(Load(a, StartOf(c)), Load(b, StartOf(c))))
ChunksApart(a, b)    == {c \in Chunks(Len(a)) : LanesApart(a, b, c) # {}}

FastMismatchCount(a, b) ==
  SumOf([c \in Chunks(Len(a)) |-> Cardinality(LanesApart(a, b, c))])
  + MismatchCount(Tail32(a), Tail32(b))

Shift(found, by) == [k \in DOMAIN found |-> found[k] + by]
InTail(found, n) == Shift(found, TailStart(n))

FirstIn(a, b, c) == <<StartOf(c) + Min(LanesApart(a, b, c))>>
LastIn(a, b, c)  == <<StartOf(c) + Max(LanesApart(a, b, c))>>

(* The loop returns at the first chunk with a difference.                  *)
FastFirstMismatch(a, b) ==
  IF ChunksApart(a, b) # {} THEN FirstIn(a, b, Min(ChunksApart(a, b)))
  ELSE InTail(FirstMismatch(Tail32(a), Tail32(b)), Len(a))

(* Slip: the chunks are searched before the tail.                          *)
FastLastChunksFirst(a, b) ==
  IF ChunksApart(a, b) # {} THEN LastIn(a, b, Max(ChunksApart(a, b)))
  ELSE InTail(LastMismatch(Tail32(a), Tail32(b)), Len(a))

(* The tail first, then the chunks from the end.                           *)
FastLastMismatch(a, b) ==
  LET tail == LastMismatch(Tail32(a), Tail32(b))
  IN  IF tail # <<>> \/ ChunksApart(a, b) = {} THEN InTail(tail, Len(a))
      ELSE LastIn(a, b, Max(ChunksApart(a, b)))

(* A chunk's offsets are recorded while there is room, and the search ends *)
(* where there is none.                                                    *)
InChunk(d, c)  == Shift(Ascending(Lanes32(Load(d, StartOf(c)))), StartOf(c))
FoundInTail(d) == InTail(Ascending(Nonzero(Tail32(d))), Len(d))

FastNonzeroIndices(d, cap) ==
  FirstN(FlattenSeq([c \in Chunks(Len(d)) |-> InChunk(d, c)]) \o FoundInTail(d), cap)

FastClearNonzero(d) == [data |-> FastClear(d), n |-> FastCountNonzero(d)]

NothingFound == [out |-> <<>>, saturated |-> FALSE, data |-> <<>>]

(* Record the offsets `more` and zero the bytes read; what there is no     *)
(* room for sets `saturated`.                                              *)
Record(r, more, read, cap) ==
  [out |-> FirstN(r.out \o more, cap),
   saturated |-> r.saturated \/ Len(r.out) + Len(more) > cap,
   data |-> r.data \o Zeros(read)]

FastScanNonzeroClear(d, cap) ==
  LET after[c \in 0..(Len(d) \div Width)] ==
        IF c = 0 THEN NothingFound
        ELSE Record(after[c - 1], InChunk(d, c), Load(d, StartOf(c)), cap)
  IN  Record(after[Len(d) \div Width], FoundInTail(d), Tail32(d), cap)

(* One bit per group of lanes of a chunk, one at a time in the tail.       *)
FastChunkPresentMask(d, slots) ==
  LET groups(i) == {i + (k \div Group) * Group : k \in Lanes32(Load(d, i))}
      tail == {TailStart(Len(d)) + j : j \in Nonzero(Tail32(d))}
      marked == (UNION {groups(StartOf(c)) : c \in Chunks(Len(d))}) \cup tail
  IN  [s \in 1..slots |-> {BitOf(i) : i \in {j \in marked : SlotOf(j) = s - 1}}]

-----------------------------------------------------------------------------
(* The public operations: the fast path where there is one, and an error   *)
(* for two buffers of different lengths.                                   *)
Unary == {"count_nonzero", "clear", "clear_nonzero", "popcount"}
Capped == {"nonzero_indices", "scan_nonzero_clear", "chunk_present_mask"}
Binary == {"count_newly_set", "merge_into", "xor_into", "first_mismatch",
           "last_mismatch", "mismatch_count"}

Mismatched == "error"   \* check_same_len

Fast(op, a, b, cap) ==
  IF op \in Binary /\ Len(a) # Len(b) THEN Mismatched ELSE
  CASE op = "count_nonzero"      -> FastCountNonzero(a)
    [] op = "clear"              -> FastClear(a)
    [] op = "clear_nonzero"      -> FastClearNonzero(a)
    [] op = "popcount"           -> FastPopcount(a)
    [] op = "nonzero_indices"    -> FastNonzeroIndices(a, cap)
    [] op = "scan_nonzero_clear" -> FastScanNonzeroClear(a, cap)
    [] op = "chunk_present_mask" -> FastChunkPresentMask(a, cap)
    [] op = "count_newly_set"    -> FastCountNewlySet(a, b)
    [] op = "merge_into"         -> FastMerge(a, b)
    [] op = "xor_into"           -> FastXor(a, b)
    [] op = "first_mismatch"     -> FastFirstMismatch(a, b)
    [] op = "last_mismatch"      -> FastLastMismatch(a, b)
    [] op = "mismatch_count"     -> FastMismatchCount(a, b)

Scalar(op, a, b, cap) ==
  IF op \in Binary /\ Len(a) # Len(b) THEN Mismatched ELSE
  CASE op = "count_nonzero"      -> CountNonzero(a)
    [] op = "clear"              -> Zeros(a)
    [] op = "clear_nonzero"      -> ClearNonzero(a)
    [] op = "popcount"           -> Popcount(a)
    [] op = "nonzero_indices"    -> NonzeroIndices(a, cap)
    [] op = "scan_nonzero_clear" -> ScanNonzeroClear(a, cap)
    [] op = "chunk_present_mask" -> ChunkPresentMask(a, cap)
    [] op = "count_newly_set"    -> CountNewlySet(a, b)
    [] op = "merge_into"         -> MergeInto(a, b)
    [] op = "xor_into"           -> XorInto(a, b)
    [] op = "first_mismatch"     -> FirstMismatch(a, b)
    [] op = "last_mismatch"      -> LastMismatch(a, b)
    [] op = "mismatch_count"     -> MismatchCount(a, b)

Buffers(n) == [1..n -> Cells]
Data == UNION {Buffers(n) : n \in 0..MaxData}

Called(op, a, b, cap) ==
  /\ call' = [op |-> op, a |-> a, b |-> b, cap |-> cap, fast |-> Fast(op, a, b, cap)]
  /\ UNCHANGED covVars

NoCall == [op |-> "none"]

(* No counter is in use, and no other call is.                             *)
Quiet == modules = 0 /\ ~on /\ call = NoCall

CallUnary(op)  == Quiet /\ \E a \in Data : Called(op, a, a, 0)
CallCapped(op) == Quiet /\ \E a \in Data, cap \in 0..MaxOut : Called(op, a, a, cap)
CallBinary(op) ==
  /\ Quiet
  /\ \/ \E n \in 0..MaxData : \E a, b \in Buffers(n) : Called(op, a, b, 0)
     \/ \E a \in Buffers(1) : Called(op, a, <<>>, 0)

-----------------------------------------------------------------------------
(* The coverage counters.                                                  *)

(* The features a scan packs: (range, offset), ranges counted from 1.      *)
HitIn(rs) == UNION {{<<i, j>> : j \in Nonzero(rs[i])} : i \in DOMAIN rs}
Before(x, y) == x[1] < y[1] \/ (x[1] = y[1] /\ x[2] < y[2])

NoReport == [n |-> 0, out |-> <<>>, before |-> <<>>]
TooSmall == -1   \* u32::MAX

(* A module constructor, before main: __sanitizer_cov_8bit_counters_init.  *)
Register(len) ==
  /\ ~on /\ modules < MaxModules /\ modules' = modules + 1
  /\ IF len = 0 \/ len > MaxLen \/ Len(ranges) >= MaxRanges
       THEN /\ latch' = IF len = 0 THEN "ImpossibleLength"
                        ELSE IF len > MaxLen THEN "RangeTooLong" ELSE "TooManyRanges"
            /\ UNCHANGED ranges
       ELSE ranges' = Append(ranges, [j \in 1..len |-> {}]) /\ UNCHANGED latch
  /\ UNCHANGED <<call, on, report>>

(* run_inner: without a counter the worker refuses to start.               *)
StartLoop == /\ ~on /\ ranges # <<>> /\ on' = TRUE
             /\ UNCHANGED <<call, ranges, latch, modules, report>>

(* run_inner: otherwise the process ends; another starts over.             *)
NoCounters == /\ ~on /\ ranges = <<>> /\ modules > 0
              /\ modules' = 0 /\ latch' = "None"
              /\ UNCHANGED <<call, ranges, on, report>>

(* The instrumented target counts in a counter; it may wrap to zero.       *)
Count ==
  /\ on
  /\ \E i \in DOMAIN ranges : \E j \in DOMAIN ranges[i], x \in Cells :
       x # ranges[i][j] /\ ranges' = [ranges EXCEPT ![i][j] = x]
  /\ report' = NoReport
  /\ UNCHANGED <<call, latch, modules, on>>

ClearAll ==
  /\ on
  /\ ranges' = [i \in DOMAIN ranges |-> FastClear(ranges[i])]
  /\ report' = NoReport
  /\ UNCHANGED <<call, latch, modules, on>>

(* One range of a scan: its offsets go where the ranges before it ended.   *)
ScanRange(r, i, d, cap) ==
  LET got == FastScanNonzeroClear(d, cap - Len(r.out))
  IN  [out |-> r.out \o [k \in DOMAIN got.out |-> <<i, got.out[k]>>],
       saturated |-> r.saturated \/ got.saturated,
       data |-> Append(r.data, got.data)]

Fold(rs, range(_, _)) ==
  LET upto[i \in 0..Len(rs)] == IF i = 0 THEN NothingFound ELSE range(upto[i - 1], i)
  IN  upto[Len(rs)]

(* Slip: a range that finds no room left is not looked at.                 *)
ScanWhileRoom(rs, cap) ==
  Fold(rs, LAMBDA r, i : IF Len(r.out) = cap THEN [r EXCEPT !.data = Append(@, rs[i])]
                         ELSE ScanRange(r, i, rs[i], cap))
Scan(rs, cap) == Fold(rs, LAMBDA r, i : ScanRange(r, i, rs[i], cap))

(* The worker's buffer has an entry per counter; others may have fewer.    *)
ScanAndClear(cap) ==
  /\ on
  /\ LET r == Scan(ranges, cap)
     IN  /\ ranges' = r.data
         /\ report' = [n |-> IF r.saturated THEN TooSmall ELSE Len(r.out),
                       out |-> r.out, before |-> ranges]
  /\ UNCHANGED <<call, latch, modules, on>>

-----------------------------------------------------------------------------
Return == call # NoCall /\ call' = NoCall /\ UNCHANGED covVars

KernelsInit ==
  /\ call = NoCall
  /\ ranges = <<>> /\ latch = "None" /\ modules = 0 /\ on = FALSE /\ report = NoReport

KernelsNext ==
  \/ \E op \in Unary : CallUnary(op)
  \/ \E op \in Capped : CallCapped(op)
  \/ \E op \in Binary : CallBinary(op)
  \/ Return
  \/ call = NoCall /\ \E len \in 0..(MaxLen + 1) : Register(len)
  \/ StartLoop
  \/ NoCounters
  \/ Count
  \/ ClearAll
  \/ \E cap \in 0..MaxOut : ScanAndClear(cap)

KernelsSpec == KernelsInit /\ [][KernelsNext]_kernelVars

-----------------------------------------------------------------------------
(* I3: whatever the buffer's length and contents, the fast path of every   *)
(* operation returns and leaves exactly what the scalar one does.          *)
SameAsScalar ==
  call # NoCall => call.fast = Scalar(call.op, call.a, call.b, call.cap)

(* A scan consumes: it reports every counter that had counted, in the      *)
(* order of their packed indices and once, or says that there was no room  *)
(* for all; and in either case the next window starts from zero.           *)
ScanConsumes ==
  report # NoReport =>
    /\ HitIn(ranges) = {}
    /\ \A i, j \in DOMAIN report.out : i < j => Before(report.out[i], report.out[j])
    /\ ToSet(report.out) \subseteq HitIn(report.before)
    /\ report.n # TooSmall => ToSet(report.out) = HitIn(report.before)
    /\ report.n = TooSmall => Len(report.out) < Cardinality(HitIn(report.before))

(* The latch's doc: "the worker treats any nonzero value as fatal at       *)
(* startup" (sancov.rs:72): no loop runs with a registration refused.      *)
RefusalIsFatal == on => latch = "None"
=============================================================================
