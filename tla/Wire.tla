-------------------------------- MODULE Wire --------------------------------
(***************************************************************************)
(* The byte writers and readers of frf-fuzz: work_order.rs's WireWriter    *)
(* and WireReader, and the cursor (`take`) every object decoder carries a  *)
(* copy of.  A payload is a sequence of units, one per number; a number's  *)
(* width is left out.  A layout is a sequence of fields; what one function *)
(* of the code writes, or reads, is one layout, so the encoder and the     *)
(* decoder of a payload are two layouts that only should agree.            *)
(***************************************************************************)
EXTENDS Integers, FiniteSets, SequencesExt, TLC

CONSTANT Absent   \* Rust's None

Axes == {1, 2}    \* the signal axes

(* What is known of an axis that no execution touched: a batch summary     *)
(* sums its distance from the parent's all the same (push_deltas).         *)
Untouched(sum) == [untouched |-> sum]
IsTouched(y) == y # Absent /\ "untouched" \notin DOMAIN y

(* Fields.  A bound or set of codes is what that side itself enforces.     *)
Most == 120
Ver(c)                == [k |-> "const", is |-> c]
Num(n)                == [k |-> "num", n |-> n, in |-> 0..Most]
Code(n, codes)        == [k |-> "num", n |-> n, in |-> codes]
Flag(n)               == [k |-> "bool", n |-> n]
OrZero(n)             == [k |-> "orzero", n |-> n]
Bytes(n, max)         == [k |-> "bytes", n |-> n, min |-> 0, max |-> max]
Name(n, max)          == [k |-> "bytes", n |-> n, min |-> 1, max |-> max]
List(n, max, of)      == [k |-> "list", n |-> n, max |-> max, of |-> of]
Opt(n, of)            == [k |-> "opt", n |-> n, of |-> of]
Rec(n, of)            == [k |-> "rec", n |-> n, of |-> of]
Blob(n, max, of)      == [k |-> "blob", n |-> n, max |-> max, of |-> of]
Signals(n)            == [k |-> "axes", n |-> n, all |-> TRUE, of |-> <<Num("v")>>]
Touched(n, of)        == [k |-> "axes", n |-> n, all |-> FALSE, of |-> of]
Len4(n, max)          == [k |-> "len", n |-> n, max |-> max]
Body(n)               == [k |-> "body", n |-> n]
Pad                   == [k |-> "pad"]
Crc                   == [k |-> "crc"]

(* crc32, as far as one changed unit goes: it always changes the sum.      *)
Sum(w) == FoldLeftDomain(LAMBDA s, i : (s + i * w[i]) % 101, 1, w)

RECURSIVE Lay(_, _), FitsIn(_, _), PutAll(_, _, _)

(* The touched mask of x, and the axes of a mask.                          *)
Mask(x) == FoldFunctionOnSet(+, 0, [a \in Axes |-> 2 ^ (a - 1)], {a \in Axes : IsTouched(x[a])})
Bits(u) == {a \in Axes : (u \div 2 ^ (a - 1)) % 2 = 1}

(* The axes a record is written for, in the order of their ids.            *)
Written(f, mask) == SetToSortSeq(IF f.all THEN Axes ELSE mask, <)

PutAxis(f, x) == IF x = Absent THEN <<0>> ELSE Lay(f.of, x)

(* The units of one field with value x; `w` is what stands before it.      *)
PutField(f, v, w) ==
  CASE f.k = "const"  -> <<f.is>>
    [] f.k = "pad"    -> <<0>>
    [] f.k = "crc"    -> <<Sum(w)>>
    [] f.k = "len"    -> <<Len(v[f.n])>>
    [] f.k = "body"   -> v[f.n]
    [] f.k = "num"    -> <<v[f.n]>>
    [] f.k = "bool"   -> <<IF v[f.n] THEN 1 ELSE 0>>
    [] f.k = "orzero" -> <<IF v[f.n] = Absent THEN 0 ELSE v[f.n]>>
    [] f.k = "bytes"  -> <<Len(v[f.n])>> \o v[f.n]
    [] f.k = "list"   -> <<Len(v[f.n])>> \o
                         FlattenSeq([i \in DOMAIN v[f.n] |-> Lay(f.of, v[f.n][i])])
    [] f.k = "opt"    -> IF v[f.n] = Absent THEN <<0>> ELSE <<1>> \o Lay(f.of, v[f.n])
    [] f.k = "rec"    -> Lay(f.of, v[f.n])
    [] f.k = "blob"   -> LET b == Lay(f.of, v[f.n]) IN <<Len(b)>> \o b
    [] f.k = "axes"   -> LET on == Written(f, Bits(Mask(v[f.n])))
                         IN  <<Mask(v[f.n])>> \o
                             FlattenSeq([i \in DOMAIN on |-> PutAxis(f, v[f.n][on[i]])])

PutAll(fs, v, w) ==
  IF fs = <<>> THEN w ELSE PutAll(Tail(fs), v, w \o PutField(Head(fs), v, w))

Lay(fs, v) == PutAll(fs, v, <<>>)

(* Does the writer accept v?  Its length and code checks.                  *)
FitsField(f, v) ==
  CASE f.k = "num"   -> v[f.n] \in f.in
    [] f.k = "bytes" -> Len(v[f.n]) \in f.min..f.max
    [] f.k = "len"   -> Len(v[f.n]) <= f.max
    [] f.k = "list"  -> /\ Len(v[f.n]) <= f.max
                        /\ \A i \in DOMAIN v[f.n] : FitsIn(f.of, v[f.n][i])
    [] f.k = "opt"   -> v[f.n] = Absent \/ FitsIn(f.of, v[f.n])
    [] f.k = "rec"   -> FitsIn(f.of, v[f.n])
    [] f.k = "blob"  -> FitsIn(f.of, v[f.n]) /\ Len(Lay(f.of, v[f.n])) <= f.max
    [] OTHER         -> TRUE

FitsIn(fs, v) == \A i \in DOMAIN fs : FitsField(fs[i], v)

-----------------------------------------------------------------------------
(* Reading.  A cursor is [ok, w, at, v]: whether nothing was refused, the  *)
(* payload, how far it is read, and the fields read.                       *)
Cursor(w)     == [ok |-> TRUE, w |-> w, at |-> 0, v |-> <<>>]
Refuse(c)     == [c EXCEPT !.ok = FALSE]
Has(c, n)     == c.at + n <= Len(c.w)
Slice(c, n)   == SubSeq(c.w, c.at + 1, c.at + n)
Skip(c, n)    == [c EXCEPT !.at = @ + n]
Set(c, n, x)  == [c EXCEPT !.v = (n :> x) @@ @]

(* A wire value is read whole: `take` refuses when too little is left.     *)
Next1(c) == c.w[c.at + 1]

RECURSIVE GetAll(_, _), Times(_, _, _, _)

(* Reads `fs` n times, appending the records to acc.                       *)
Times(fs, c, n, acc) ==
  IF n = 0 \/ ~c.ok THEN Set(c, "list", acc)
  ELSE LET r == GetAll(fs, [c EXCEPT !.v = <<>>])
       IN  Times(fs, r, n - 1, Append(acc, r.v))

GetSub(f, c) == GetAll(f.of, [c EXCEPT !.v = <<>>])
Back(c, r, n, x) == [Set(c, n, x) EXCEPT !.at = r.at, !.ok = r.ok]

GetBytes(f, c, n) ==
  IF Has(c, n) THEN Set(Skip(c, n), f.n, Slice(c, n)) ELSE Refuse(c)

GetBlob(f, c, n) ==
  IF ~Has(c, n) THEN Refuse(c)
  ELSE LET r == GetAll(f.of, Cursor(Slice(c, n)))
       IN  [Set(c, f.n, r.v) EXCEPT !.at = @ + n, !.ok = r.ok /\ r.at = n]

(* The mask, then a record for each axis (or each touched one); what       *)
(* stands for an untouched axis is read and dropped.                       *)
GetAxes(f, c, u) ==
  LET on == Written(f, Bits(u))
      r  == Times(f.of, c, Len(on), <<>>)
      got(a) == r.v["list"][CHOOSE i \in DOMAIN on : on[i] = a]
  IN  IF ~r.ok THEN Refuse(c)
      ELSE Back(c, r, f.n, [a \in Axes |-> IF a \in Bits(u) THEN got(a) ELSE Absent])

(* One unit that needs no more than itself.                                *)
GetUnit(f, c, u) ==
  CASE f.k = "const"  -> IF u = f.is THEN c ELSE Refuse(c)
    [] f.k = "pad"    -> c
    [] f.k = "crc"    -> IF u = Sum(SubSeq(c.w, 1, c.at - 1)) THEN c ELSE Refuse(c)
    [] f.k = "len"    -> IF u <= f.max THEN Set(c, f.n, u) ELSE Refuse(c)
    [] f.k = "num"    -> IF u \in f.in THEN Set(c, f.n, u) ELSE Refuse(c)
    [] f.k = "bool"   -> Set(c, f.n, u # 0)
    [] f.k = "orzero" -> Set(c, f.n, IF u = 0 THEN Absent ELSE u)
    [] f.k = "bytes"  -> IF u \in f.min..f.max THEN GetBytes(f, c, u) ELSE Refuse(c)
    [] f.k = "blob"   -> IF u <= f.max THEN GetBlob(f, c, u) ELSE Refuse(c)
    [] f.k = "list"   -> IF u > f.max THEN Refuse(c)
                         ELSE LET r == Times(f.of, c, u, <<>>)
                              IN  IF r.ok THEN Back(c, r, f.n, r.v["list"]) ELSE Refuse(c)
    [] f.k = "axes"   -> GetAxes(f, c, u)
    [] f.k = "opt"    -> IF u = 0 THEN Set(c, f.n, Absent)
                         ELSE IF u # 1 THEN Refuse(c)
                         ELSE LET r == GetSub(f, c) IN Back(c, r, f.n, r.v)

GetField(f, c) ==
  CASE f.k = "body" -> GetBytes(f, c, c.v[f.n])
    [] f.k = "rec"  -> LET r == GetSub(f, c) IN Back(c, r, f.n, r.v)
    [] OTHER        -> IF Has(c, 1) THEN GetUnit(f, Skip(c, 1), Next1(c)) ELSE Refuse(c)

GetAll(fs, c) ==
  IF fs = <<>> \/ ~c.ok THEN c ELSE GetAll(Tail(fs), GetField(Head(fs), c))

(* Slip: what is left over is not looked at.                               *)
GetSome(fs, w) == LET c == GetAll(fs, Cursor(w)) IN [ok |-> c.ok, v |-> c.v]

(* A whole payload: nothing may be left over.                              *)
Get(fs, w) == LET c == GetAll(fs, Cursor(w))
              IN  [ok |-> c.ok /\ c.at = Len(w), v |-> c.v]
=============================================================================
