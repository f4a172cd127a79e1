------------------------------ MODULE LuaTableLib ------------------------------
(***************************************************************************)
(* The table library: ltablib.c.  A list is a sequence; lt is what the     *)
(* comparison of a sort answers, which may be no order at all.  An index   *)
(* outside the list is an error of evaluation, so a sort is also seen to   *)
(* read and write nothing but its list.                                    *)
(***************************************************************************)
EXTENDS Integers, Sequences, SequencesExt, FiniteSets, FiniteSetsExt

CONSTANTS MAXINTEGER,
          RANLIMIT,      \* intervals as long have a random pivot
          IMBALANCE      \* the part of an interval from which a partition is too imbalanced

Swapped(a, i, j) == [a EXCEPT ![i] = a[j], ![j] = a[i]]

\* Where ++i stops at an element not less than P, 0 where it would get to P's own place; and
\* where --j stops at one not greater, 0 when it passes i.
RECURSIVE ScanUp(_, _, _, _, _), ScanDown(_, _, _, _, _)
ScanUp(lt, a, i, up, P) ==
    IF ~ lt[<<a[i], P>>] THEN i ELSE IF i = up - 1 THEN 0 ELSE ScanUp(lt, a, i + 1, up, P)
ScanDown(lt, a, i, j, P) ==
    IF ~ lt[<<P, a[j]>>] THEN j ELSE IF j < i THEN 0 ELSE ScanDown(lt, a, i, j - 1, P)

\* partition around P = a[up - 1], from the last stops i and j.
RECURSIVE Partition(_, _, _, _, _, _)
Partition(lt, a, i, j, up, P) ==
    LET i2 == ScanUp(lt, a, i + 1, up, P)
        j2 == ScanDown(lt, a, i2, j - 1, P)
    IN  IF i2 = 0 \/ j2 = 0 THEN [ok |-> FALSE, a |-> a]
        ELSE IF j2 < i2 THEN [ok |-> TRUE, a |-> Swapped(a, up - 1, i2), p |-> i2]
        ELSE Partition(lt, Swapped(a, i2, j2), i2, j2, up, P)

\* The elements at lo, p and up are put in order, as far as there are three.
MedianOfThree(lt, a, lo, p, up) ==
    LET b == IF lt[<<a[up], a[lo]>>] THEN Swapped(a, lo, up) ELSE a
    IN  IF up - lo = 1 THEN b
        ELSE IF lt[<<b[p], b[lo]>>] THEN Swapped(b, p, lo)
        ELSE IF lt[<<b[up], b[p]>>] THEN Swapped(b, p, up)
        ELSE b

ChoosePivot(lo, up, rnd) ==
    LET r4 == (up - lo) \div 4 IN (rnd % (r4 * 2)) + lo + r4

\* auxsort: the smaller part first; "invalid order function" ends it.  q has the order, and what
\* l_randomizePivot would answer.
RECURSIVE AuxSort(_, _, _, _, _)
AuxSort(q, a, lo, up, rnd) ==
    IF lo >= up THEN [ok |-> TRUE, a |-> a]
    ELSE LET p == IF up - lo < RANLIMIT \/ rnd = 0 THEN (lo + up) \div 2 ELSE ChoosePivot(lo, up, rnd)
             m == MedianOfThree(q.lt, a, lo, p, up)
             r == Partition(q.lt, Swapped(m, p, up - 1), lo, up - 1, up, m[p])
             lower == <<lo, r.p - 1>>
             upper == <<r.p + 1, up>>
             first == IF r.p - lo < up - r.p THEN lower ELSE upper
             then == IF first = lower THEN upper ELSE lower
             n == IF first = lower THEN r.p - lo ELSE up - r.p
             s == AuxSort(q, r.a, first[1], first[2], rnd)
         IN  IF up - lo <= 2 THEN [ok |-> TRUE, a |-> m]
             ELSE IF ~ r.ok THEN r
             ELSE IF ~ s.ok THEN s
             ELSE AuxSort(q, s.a, then[1], then[2],
                          IF (then[2] - then[1]) \div IMBALANCE > n THEN q.rnd ELSE rnd)

Sort(q) == AuxSort(q, q.a, 1, Len(q.a), 0)
-------------------------------------------------------------------------------
(* Moving elements one by one, in a table that is a function on integers.  *)

NilValue == "nil"
Upwards(n) == [i \in 1..n |-> i - 1]
Downwards(n) == Reverse(Upwards(n))
Move1(from, tab, f, t) == [tab EXCEPT ![t] = IF from = <<>> THEN tab[f] ELSE from[f]]

\* tinsert with a position in 1..e, where e is behind the list.
Insert(tab, e, pos, v) ==
    [FoldLeft(LAMBDA acc, i : Move1(<<>>, acc, pos + i, pos + i + 1), tab, Downwards(e - pos)) EXCEPT ![pos] = v]

\* tremove: the position may be one behind the list, or the size of an empty list.
Removable(size, pos) == pos = size \/ pos \in 1..(size + 1)
RemoveAtPos(tab, size, pos) ==
    [FoldLeft(LAMBDA acc, i : Move1(<<>>, acc, pos + i + 1, pos + i), tab, Upwards(IF pos < size THEN size - pos ELSE 0))
        EXCEPT ![IF pos < size THEN size ELSE pos] = NilValue]

\* tmove of f..e to t, in the same table (from is empty) or from another; downwards where the
\* destination overlaps what is still to be read.
TMove(from, tab, f, e, t) ==
    FoldLeft(LAMBDA acc, i : Move1(from, acc, f + i, t + i), tab,
             IF t > e \/ t <= f \/ from # <<>> THEN Upwards(e - f + 1) ELSE Downwards(e - f + 1))

\* Its checks: the number of elements and the last target are integers.
MoveFits(f, e, t) == e >= f => (f > 0 \/ e < MAXINTEGER + f) /\ t <= MAXINTEGER - (e - f + 1) + 1

\* The loops of concat and unpack, whose index stops short of overflow.
Inc(i) == IF i = MAXINTEGER THEN -MAXINTEGER - 1 ELSE i + 1
RECURSIVE Until(_, _)
Until(i, last) == IF i < last THEN <<i>> \o Until(Inc(i), last) ELSE <<i>>
Concat(i, last) == SelectSeq(Until(i, last), LAMBDA x : x < last \/ x = last)
Unpack(i, e) == IF i > e THEN <<>> ELSE Until(i, e)
-------------------------------------------------------------------------------
Ints == (-MAXINTEGER - 1)..MAXINTEGER
Count(a, v) == Cardinality({i \in DOMAIN a : a[i] = v})

IsOrder(lt, S) ==
    \A x, y \in S : /\ lt[<<x, y>>] => ~ lt[<<y, x>>]
                    /\ lt[<<x, y>>] => \A z \in S : lt[<<x, z>>] \/ lt[<<z, y>>]

\* A sort permutes its list whatever the comparison answers, and sorts it when that is an order.
SortRight(q) ==
    LET r == Sort(q) IN
    /\ \A v \in Range(q.a) : Count(r.a, v) = Count(q.a, v)
    /\ Len(r.a) = Len(q.a)
    /\ IsOrder(q.lt, {p[1] : p \in DOMAIN q.lt}) =>
           r.ok /\ \A i \in 2..Len(r.a) : ~ q.lt[<<r.a[i], r.a[i - 1]>>]

\* A list grows and shrinks at any place.
ListRight(q) ==
    LET n == Len(q.a)
        tab == [i \in 0..(n + 2) |-> IF i \in 1..n THEN q.a[i] ELSE NilValue]
        List(t, k) == [i \in 1..k |-> t[i]]
    IN  /\ q.pos \in 1..(n + 1) => List(Insert(tab, n + 1, q.pos, "new"), n + 1) = InsertAt(q.a, q.pos, "new")
        /\ Removable(n, q.pos) => LET t == RemoveAtPos(tab, n, q.pos)
                                  IN  q.pos \in 1..n => List(t, n - 1) = RemoveAt(q.a, q.pos) /\ t[n] = NilValue

\* A move copies what was there before it, overlapping or not, and is refused where an index
\* would overflow.
MoveRight(q) ==
    LET from == IF q.other THEN [i \in Ints |-> -i] ELSE <<>>
        before == IF q.other THEN from ELSE [i \in Ints |-> i]
        after == TMove(from, [i \in Ints |-> i], q.f, q.e, q.t)
    IN  IF q.e - q.f + 1 > MAXINTEGER \/ (q.f <= q.e /\ q.t + q.e - q.f > MAXINTEGER)
        THEN ~ MoveFits(q.f, q.e, q.t)
        ELSE /\ MoveFits(q.f, q.e, q.t)
             /\ \A i \in Ints : after[i] = IF i \in q.t..(q.t + q.e - q.f) THEN before[q.f + i - q.t] ELSE i

RangeRight(q) ==
    LET range == [k \in 1..(q.e - q.f + 1) |-> q.f + k - 1]
    IN  Concat(q.f, q.e) = range /\ Unpack(q.f, q.e) = range

TableLibRight(q) ==
    CASE q.fn = "sort" -> SortRight(q)
      [] q.fn = "list" -> ListRight(q)
      [] q.fn = "move" -> MoveRight(q)
      [] q.fn = "range" -> RangeRight(q)
===============================================================================
