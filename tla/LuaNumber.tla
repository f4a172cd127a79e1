-------------------------------- MODULE LuaNumber --------------------------------
(***************************************************************************)
(* Numbers of the Lua interpreter: lvm.c, lobject.c and lbitlib.c.         *)
(* Integers have few bits here, and floats a mantissa of two, so that not  *)
(* every integer is a float.  A number is [t, n]: an integer n, a float    *)
(* with n halves, or no number.                                            *)
(***************************************************************************)
EXTENDS Integers, Sequences, SequencesExt, FiniteSets, FiniteSetsExt

CONSTANTS MAXINTEGER, LUA_NBITS

MININTEGER == -MAXINTEGER - 1
Size == 2 * (MAXINTEGER + 1)
Wrap(x) == ((x - MININTEGER) % Size) + MININTEGER
Unsigned(x) == x % Size
NBITS == CHOOSE b \in 1..MAXINTEGER : 2 ^ b = Size

Inf == 8 * Size
Mantissas == {m * 2 ^ e : m \in {2, 3}, e \in 0..(NBITS + 1)}
Halves == {0, 1} \cup {m \in Mantissas : m < Inf}
Floats == {Inf, -Inf} \cup Halves \cup {-h : h \in Halves}
Integer(i) == [t |-> "int", n |-> i]
Flt(h) == [t |-> "flt", n |-> h]
NaN == [t |-> "nan", n |-> 0]
NBM == 2
IntFitsF(i) == -(2 ^ NBM) <= i /\ i <= 2 ^ NBM

\* Rounding to nearest, ties to the even mantissa.
Even(f) == f \notin {s * 3 * 2 ^ e : s \in {1, -1}, e \in 0..(NBITS + 1)}
Round(x) == LET off(f) == IF f > x THEN f - x ELSE x - f
                near == {f \in Floats : \A h \in Floats : off(f) <= off(h)}
            IN  IF \E f \in near : Even(f) THEN CHOOSE f \in near : Even(f) ELSE CHOOSE f \in near : TRUE
CastNum(i) == Round(2 * i)
Floor(h) == h \div 2                                       \* of h halves
Trunc(h) == IF h >= 0 THEN h \div 2 ELSE -((-h) \div 2)

\* lua_numbertointeger of a float without fraction: none out of range.
NumberToInteger(i) == IF MININTEGER <= i /\ i < -MININTEGER THEN {i} ELSE {}

\* luaV_tointeger of a number: mode 0 takes integral floats, 1 the floor, 2 the ceiling.
ToInteger(x, mode) ==
    CASE x.t = "int" -> {x.n}
      [] x.t = "nan" -> {}
      [] x.t = "flt" -> IF x.n = 2 * Floor(x.n) THEN NumberToInteger(Floor(x.n))
                        ELSE IF mode = 0 THEN {}
                        ELSE NumberToInteger(IF mode = 2 THEN Floor(x.n) + 1 ELSE Floor(x.n))
-------------------------------------------------------------------------------
(* Comparison.                                                             *)

\* LTintfloat and LEintfloat, of a float that may be no number.
LTIntFloat(i, x) ==
    IF x.t = "nan" THEN FALSE
    ELSE IF IntFitsF(i) THEN CastNum(i) < x.n
    ELSE IF x.n >= -2 * MININTEGER THEN TRUE
    ELSE x.n > 2 * MININTEGER /\ i < Trunc(x.n)

LEIntFloat(i, x) ==
    IF x.t = "nan" THEN FALSE
    ELSE IF IntFitsF(i) THEN CastNum(i) <= x.n
    ELSE IF x.n >= -2 * MININTEGER THEN TRUE
    ELSE x.n >= 2 * MININTEGER /\ i <= Trunc(x.n)

LTNum(l, r) ==
    IF l.t = "int" THEN IF r.t = "int" THEN l.n < r.n ELSE LTIntFloat(l.n, r)
    ELSE IF l.t = "nan" \/ r.t = "nan" THEN FALSE
    ELSE IF r.t = "flt" THEN l.n < r.n ELSE ~ LEIntFloat(r.n, l)

LENum(l, r) ==
    IF l.t = "int" THEN IF r.t = "int" THEN l.n <= r.n ELSE LEIntFloat(l.n, r)
    ELSE IF l.t = "nan" \/ r.t = "nan" THEN FALSE
    ELSE IF r.t = "flt" THEN l.n <= r.n ELSE ~ LTIntFloat(r.n, l)

\* luaV_equalobj of numbers: of different variants they are equal as integers.
EqualObj(l, r) ==
    IF l.t = r.t THEN l.t # "nan" /\ l.n = r.n
    ELSE ToInteger(l, 0) # {} /\ ToInteger(l, 0) = ToInteger(r, 0)
-------------------------------------------------------------------------------
(* Integer arithmetic.                                                     *)

CDiv(m, n) == LET q == (IF m < 0 THEN -m ELSE m) \div (IF n < 0 THEN -n ELSE n)
              IN  IF (m < 0) = (n < 0) THEN q ELSE -q
CRem(m, n) == m - CDiv(m, n) * n

\* luaV_div and luaV_mod, of n # 0.
Div(m, n) == IF n = -1 THEN Wrap(-m)
             ELSE IF (m < 0) # (n < 0) /\ CRem(m, n) # 0 THEN CDiv(m, n) - 1 ELSE CDiv(m, n)
Mod(m, n) == IF n = -1 THEN 0
             ELSE IF CRem(m, n) # 0 /\ (m < 0) # (n < 0) THEN CRem(m, n) + n ELSE CRem(m, n)

ShiftL(x, y) ==
    IF y <= -NBITS \/ y >= NBITS THEN 0
    ELSE IF y < 0 THEN Wrap(Unsigned(x) \div (2 ^ (-y)))
    ELSE Wrap(Unsigned(x) * 2 ^ y)
ShiftR(x, y) == ShiftL(x, Wrap(-y))     \* LUA_OPSHR of intarith

\* forlimit: the limit as an integer, and whether the loop must not run.
ForLimit(limit, step) ==
    LET p == ToInteger(limit, IF step < 0 THEN 2 ELSE 1)
    IN  IF p # {} THEN [p |-> CHOOSE i \in p : TRUE, stopnow |-> FALSE]
        ELSE IF limit.t = "flt" /\ limit.n > 0 THEN [p |-> MAXINTEGER, stopnow |-> step < 0]
        ELSE [p |-> MININTEGER, stopnow |-> step >= 0]

\* OP_FORPREP, and what OP_FORLOOP then gives the control variable, at most so many times.
RECURSIVE ForLoop(_, _, _, _)
ForLoop(index, limit, step, times) ==
    LET idx == Wrap(index + step)
    IN  IF times > 0 /\ (IF 0 < step THEN idx <= limit ELSE limit <= idx)
        THEN <<idx>> \o ForLoop(idx, limit, step, times - 1) ELSE <<>>
For(init, limit, step, times) ==
    LET l == ForLimit(limit, step)
    IN  ForLoop(Wrap((IF l.stopnow THEN 0 ELSE init) - step), l.p, step, times)
-------------------------------------------------------------------------------
(* Numerals, sizes and bits.                                               *)

\* l_str2int of a sign and digits: decimal numerals must fit, hexadecimal ones wrap around.
RECURSIVE Decimal(_, _, _)
Decimal(a, digits, neg) ==
    IF digits = <<>> THEN {a}
    ELSE LET d == Head(digits)
         IN  IF a >= MAXINTEGER \div 10
                /\ (a > MAXINTEGER \div 10 \/ d > (MAXINTEGER % 10) + (IF neg THEN 1 ELSE 0))
             THEN {} ELSE Decimal(a * 10 + d, Tail(digits), neg)
Str2Int(digits, neg, hex) ==
    LET a == IF digits = <<>> THEN {}
             ELSE IF hex THEN {FoldLeft(LAMBDA x, d : ((x * 16) + d) % Size, 0, digits)}
             ELSE Decimal(0, digits, neg)
    IN  {Wrap(IF neg THEN -x ELSE x) : x \in a}

\* luaO_int2fb and luaO_fb2int.
RECURSIVE Fb(_, _)
Fb(x, e) == IF x >= 128 THEN Fb((x + 15) \div 16, e + 4)
            ELSE IF x >= 16 THEN Fb((x + 1) \div 2, e + 1) ELSE (e + 1) * 8 + x - 8
Int2Fb(x) == IF x < 8 THEN x ELSE Fb(x, 0)
Fb2Int(x) == IF x < 8 THEN x ELSE ((x % 8) + 8) * 2 ^ ((x \div 8) - 1)

\* Of numbers of LUA_NBITS bits, within an unsigned integer.
Bit(x, i) == (x \div (2 ^ i)) % 2
OfBits(B(_), n) == FoldLeft(LAMBDA acc, i : acc + B(i) * 2 ^ i, 0, [i \in 1..n |-> i - 1])
Trim(x) == x % (2 ^ LUA_NBITS)
Shr(x, i) == Trim(x) \div (2 ^ i)

\* b_shift, of a displacement whose negation is an integer; b_arshift, b_rot, b_extract, b_replace.
Shift(r, i) ==
    IF i < 0 THEN IF -i >= LUA_NBITS THEN 0 ELSE Shr(r, -i)
    ELSE IF i >= LUA_NBITS THEN 0 ELSE Trim(r * 2 ^ i)
ArShift(r, i) ==
    IF i < 0 \/ Bit(r, LUA_NBITS - 1) = 0 THEN Shift(r, -i)
    ELSE IF i >= LUA_NBITS THEN Trim(-1)
    ELSE OfBits(LAMBDA k : IF k >= LUA_NBITS - i \/ Bit(r \div (2 ^ i), k) = 1 THEN 1 ELSE 0, LUA_NBITS)
Rot(r, d) == LET i == d % LUA_NBITS
             IN  IF i = 0 THEN Trim(r) ELSE Trim(Trim(r) * 2 ^ i + Shr(r, LUA_NBITS - i))
FieldArgs(f, w) == 0 <= f /\ 0 < w /\ f + w <= LUA_NBITS
Extract(r, f, w) == Shr(r, f) % (2 ^ w)
Replace(r, v, f, w) ==
    OfBits(LAMBDA k : IF k \in f..(f + w - 1) THEN Bit(v, k - f) ELSE Bit(r, k), LUA_NBITS)
-------------------------------------------------------------------------------
\* What a number is in halves, where it is one.
Exact(x) == IF x.t = "int" THEN 2 * x.n ELSE x.n

\* Integers and floats compare as the numbers they are, though neither contains the other, and
\* an integral float is the integer it equals (lvm.c:264).
CompareRight(q) ==
    LET real == q.a.t # "nan" /\ q.b.t # "nan"
    IN  /\ LTNum(q.a, q.b) = (real /\ Exact(q.a) < Exact(q.b))
        /\ LENum(q.a, q.b) = (real /\ Exact(q.a) <= Exact(q.b))
        /\ EqualObj(q.a, q.b) = (real /\ Exact(q.a) = Exact(q.b))

\* Division rounds down, the remainder has the divisor's sign, and shifts move all bits, at the
\* least integer too.
ArithRight(q) ==
    LET bits(x) == [i \in 0..(NBITS - 1) |-> Bit(Unsigned(x), i)]
        moved(by) == [i \in 0..(NBITS - 1) |-> IF i - by \in 0..(NBITS - 1) THEN bits(q.a)[i - by] ELSE 0]
    IN  /\ q.b # 0 => /\ Wrap(q.b * Div(q.a, q.b) + Mod(q.a, q.b)) = q.a
                      /\ IF q.b > 0 THEN Mod(q.a, q.b) \in 0..(q.b - 1) ELSE Mod(q.a, q.b) \in (q.b + 1)..0
        /\ bits(ShiftL(q.a, q.b)) = moved(q.b)
        /\ bits(ShiftR(q.a, q.b)) = moved(-q.b)

\* A loop runs through the integers that a limit, integer or not, in range or not, allows.  The
\* step is not 0 and the limit a number; where an index overflows, it wraps around as it does in
\* any sum.
RECURSIVE Manual(_, _, _, _)
Manual(var, limit, step, times) ==
    IF times = 0 \/ (step > 0 /\ 2 * var > limit) \/ (step < 0 /\ 2 * var < limit) THEN <<>>
    ELSE <<var>> \o Manual(Wrap(var + step), limit, step, times - 1)
ForRight(q) == For(q.init, q.limit, q.step, 2 * Size) = Manual(q.init, Exact(q.limit), q.step, 2 * Size)

\* A decimal numeral is an integer exactly when an integer has its value.
NumeralRight(q) ==
    LET value == FoldLeft(LAMBDA x, d : 10 * x + d, 0, q.digits)
        signed == IF q.neg THEN -value ELSE value
    IN  Str2Int(q.digits, q.neg, FALSE) =
            IF q.digits # <<>> /\ signed \in MININTEGER..MAXINTEGER THEN {signed} ELSE {}

\* A size is coded by the least code of one that is no less.
SizeRight(q) ==
    /\ Fb2Int(Int2Fb(q.x)) >= q.x
    /\ Int2Fb(q.x) > 0 => Fb2Int(Int2Fb(q.x) - 1) < q.x

\* Shifts, rotations and fields of bit32 are those of the bits.
BitRight(q) ==
    LET n == LUA_NBITS
        r == Unsigned(q.r)
        in(i) == i \in 0..(n - 1)
        sign == Bit(r, n - 1)
    IN  /\ Shift(r, q.i) = OfBits(LAMBDA k : IF in(k - q.i) THEN Bit(r, k - q.i) ELSE 0, n)
        /\ ArShift(r, q.i) = OfBits(LAMBDA k : IF in(k + q.i) THEN Bit(r, k + q.i)
                                               ELSE IF q.i > 0 THEN sign ELSE 0, n)
        /\ Rot(r, q.i) = OfBits(LAMBDA k : Bit(r, (k - q.i) % n), n)
        /\ \A f \in MININTEGER..MAXINTEGER, w \in 1..2 :
               FieldArgs(f, w) => /\ Extract(r, f, w) = OfBits(LAMBDA k : Bit(r, k + f), w)
                                  /\ Extract(Replace(r, q.i % Size, f, w), f, w) = q.i % (2 ^ w)

NumberRight(q) ==
    CASE q.fn = "compare" -> CompareRight(q)
      [] q.fn = "arith" -> ArithRight(q)
      [] q.fn = "for" -> ForRight(q)
      [] q.fn = "numeral" -> NumeralRight(q)
      [] q.fn = "size" -> SizeRight(q)
      [] q.fn = "bits" -> BitRight(q)
===============================================================================
