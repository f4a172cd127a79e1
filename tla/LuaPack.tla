--------------------------------- MODULE LuaPack ---------------------------------
(***************************************************************************)
(* string.pack and string.unpack: lstrlib.c.  A format is a sequence of    *)
(* options, each a letter with its numeral, -1 if it has none; a string is *)
(* a sequence of bytes of NB bits.  A float is its native bytes.           *)
(***************************************************************************)
EXTENDS Integers, Sequences, SequencesExt, FiniteSets, FiniteSetsExt

CONSTANTS NB, SZINT,      \* bits of a byte, bytes of an integer and of a size_t
          MAXINTSIZE, MAXALIGN, FloatSize,
          NativeLittle

Base == 2 ^ NB
Ints == (-((Base ^ SZINT) \div 2))..((Base ^ SZINT) \div 2 - 1)
Unsigned(n) == n % (Base ^ SZINT)
Signed(u) == IF u >= (Base ^ SZINT) \div 2 THEN u - Base ^ SZINT ELSE u
-------------------------------------------------------------------------------
(* Options.  The header h has the byte order and the maximal alignment.    *)

Header == [islittle |-> NativeLittle, maxalign |-> 1]
NoNumeral == -1
GetNum(o, df) == IF o.n = NoNumeral THEN df ELSE o.n
InLimit(n) == n \in 1..MAXINTSIZE

\* getoption: an invalid one has no kind.
GetOption(o) ==
    CASE o.c \in {"b", "B"} -> [kind |-> IF o.c = "b" THEN "int" ELSE "uint", size |-> 1]
      [] o.c \in {"j", "J"} -> [kind |-> IF o.c = "j" THEN "int" ELSE "uint", size |-> SZINT]
      [] o.c = "d" -> [kind |-> "float", size |-> FloatSize]
      [] o.c \in {"i", "I", "s"} ->
            [kind |-> IF ~ InLimit(GetNum(o, SZINT)) THEN "invalid"
                      ELSE IF o.c = "i" THEN "int" ELSE IF o.c = "I" THEN "uint" ELSE "string",
             size |-> GetNum(o, SZINT)]
      [] o.c = "c" -> [kind |-> IF o.n = NoNumeral THEN "invalid" ELSE "char", size |-> o.n]
      [] o.c = "z" -> [kind |-> "zstr", size |-> 0]
      [] o.c = "x" -> [kind |-> "padding", size |-> 1]
      [] o.c = "X" -> [kind |-> "paddalign", size |-> 0]
      [] o.c \in {" ", "<", ">", "="} -> [kind |-> "nop", size |-> 0]
      [] o.c = "!" -> [kind |-> IF InLimit(GetNum(o, MAXALIGN)) THEN "nop" ELSE "invalid", size |-> 0]

Configured(h, o) ==
    CASE o.c = "<" -> [h EXCEPT !.islittle = TRUE]
      [] o.c = ">" -> [h EXCEPT !.islittle = FALSE]
      [] o.c = "=" -> [h EXCEPT !.islittle = NativeLittle]
      [] o.c = "!" -> [h EXCEPT !.maxalign = GetNum(o, MAXALIGN)]
      [] OTHER -> h

PowerOf2(n) == n \in {2 ^ i : i \in 0..MAXINTSIZE}

\* getdetails of the first option: what it is, how much to skip before it, and the rest.  'X'
\* takes its alignment from the option behind it, and that with it.
GetDetails(h, totalsize, fmt) ==
    LET opt == GetOption(fmt[1])
        X == opt.kind = "paddalign"
        next == IF X /\ Len(fmt) > 1 THEN GetOption(fmt[2]) ELSE opt
        h1 == IF X /\ Len(fmt) > 1 THEN Configured(h, fmt[2]) ELSE Configured(h, fmt[1])
        invalid == \/ opt.kind = "invalid" \/ next.kind = "invalid"
                   \/ X /\ (Len(fmt) = 1 \/ next.kind = "char" \/ next.size = 0)
        aligned == next.size > 1 /\ opt.kind # "char"
        align == Min({next.size, h1.maxalign})
    IN  [kind |-> IF invalid \/ (aligned /\ ~ PowerOf2(align)) THEN "invalid" ELSE opt.kind,
         size |-> opt.size, h |-> h1,
         ntoalign |-> IF aligned /\ PowerOf2(align) THEN (align - (totalsize % align)) % align ELSE 0,
         rest |-> IF X THEN SubSeq(fmt, 3, Len(fmt)) ELSE Tail(fmt)]
-------------------------------------------------------------------------------
(* Packing.                                                                *)

Ordered(bytes, islittle) == IF islittle THEN bytes ELSE Reverse(bytes)
Zeros(n) == [i \in 1..n |-> 0]

\* packint: an integer's bytes, and sign extension beyond them.
PackInt(n, islittle, size) ==
    Ordered([i \in 1..size |-> IF i > SZINT /\ n < 0 THEN Base - 1
                               ELSE (Unsigned(n) \div (Base ^ (i - 1))) % Base], islittle)

CopyWithEndian(bytes, islittle) == IF islittle = NativeLittle THEN bytes ELSE Reverse(bytes)

Fits(d, v) ==
    CASE d.kind = "int" -> d.size >= SZINT \/ v \in (-((Base ^ d.size) \div 2))..((Base ^ d.size) \div 2 - 1)
      [] d.kind = "uint" -> d.size >= SZINT \/ Unsigned(v) < Base ^ d.size
      [] d.kind = "float" -> TRUE
      [] d.kind = "char" -> Len(v) <= d.size
      [] d.kind = "string" -> d.size >= SZINT \/ Len(v) < Base ^ d.size
      [] d.kind = "zstr" -> ~ Contains(v, 0)

Packed(d, v) ==
    CASE d.kind = "int" -> PackInt(v, d.h.islittle, d.size)
      [] d.kind = "uint" -> PackInt(IF d.size > SZINT /\ v < 0 THEN Unsigned(v) ELSE v, d.h.islittle, d.size)
      [] d.kind = "float" -> CopyWithEndian(v, d.h.islittle)
      [] d.kind = "char" -> v \o Zeros(d.size - Len(v))
      [] d.kind = "string" -> PackInt(Len(v), d.h.islittle, d.size) \o v
      [] d.kind = "zstr" -> Append(v, 0)

NoValue == {"padding", "paddalign", "nop"}
Growth(d, v) == IF d.kind = "string" THEN Len(v) ELSE IF d.kind = "zstr" THEN Len(v) + 1 ELSE 0

\* str_pack from what is in the buffer, whose length totalsize counts.
RECURSIVE Pack(_, _, _, _, _)
Pack(h, fmt, args, b, totalsize) ==
    IF fmt = <<>> THEN [ok |-> TRUE, b |-> b, totalsize |-> totalsize]
    ELSE LET d == GetDetails(h, totalsize, fmt)
             filled == b \o Zeros(d.ntoalign)
             size == totalsize + d.ntoalign + d.size
         IN  IF d.kind = "invalid" THEN [ok |-> FALSE]
             ELSE IF d.kind \in NoValue
             THEN Pack(d.h, d.rest, args, IF d.kind = "padding" THEN Append(filled, 0) ELSE filled, size)
             ELSE IF ~ Fits(d, args[1]) THEN [ok |-> FALSE]
             ELSE Pack(d.h, d.rest, Tail(args), filled \o Packed(d, args[1]), size + Growth(d, args[1]))

\* str_packsize; 0 stands for an error, unless nothing is packed.
RECURSIVE PackSize(_, _, _)
PackSize(h, fmt, totalsize) ==
    IF fmt = <<>> THEN totalsize
    ELSE LET d == GetDetails(h, totalsize, fmt)
         IN  IF d.kind \in {"invalid", "string", "zstr"} THEN 0
             ELSE PackSize(d.h, d.rest, totalsize + d.size + d.ntoalign)
-------------------------------------------------------------------------------
(* Unpacking.                                                              *)

Value(bytes) == FoldRight(LAMBDA x, acc : acc * Base + x, bytes, 0)

\* unpackint: what was not read must be what packing would have put there.
UnpackInt(bytes, islittle, size, issigned) ==
    LET little == Ordered(bytes, islittle)
        res == Value(SubSeq(little, 1, Min({size, SZINT})))
        mask == IF ~ issigned \/ Signed(res) >= 0 THEN 0 ELSE Base - 1
    IN  IF size < SZINT
        THEN [ok |-> TRUE, n |-> IF issigned /\ res >= (Base ^ size) \div 2 THEN res - Base ^ size ELSE res]
        ELSE [ok |-> \A i \in (SZINT + 1)..size : little[i] = mask, n |-> Signed(res)]

StrLen(data, pos) == LET zeros == {i \in (pos + 1)..Len(data) : data[i] = 0}
                     IN  IF zeros = {} THEN Len(data) - pos ELSE Min(zeros) - pos - 1

\* str_unpack from offset pos, which has got values.  A string's pos + len + size is a size_t
\* and may wrap around; such a len is too big for luaS_newlstr, so it is an error all the same.
RECURSIVE Unpack(_, _, _, _, _)
Unpack(h, fmt, data, pos, values) ==
    IF fmt = <<>> THEN [ok |-> TRUE, values |-> values, pos |-> pos + 1]
    ELSE LET d == GetDetails(h, pos, fmt)
             at == pos + d.ntoalign
             item == SubSeq(data, at + 1, at + d.size)
             i == UnpackInt(item, d.h.islittle, d.size, d.kind = "int")
             len == IF d.kind = "zstr" THEN StrLen(data, at) ELSE Unsigned(i.n)
             text == SubSeq(data, at + d.size + 1, at + d.size + len)
             GoOn(v, more) == Unpack(d.h, d.rest, data, at + d.size + more, values \o v)
         IN  IF d.kind = "invalid" \/ at + d.size > Len(data) THEN [ok |-> FALSE]
             ELSE CASE d.kind \in {"int", "uint"} -> IF i.ok THEN GoOn(<<i.n>>, 0) ELSE [ok |-> FALSE]
                    [] d.kind = "float" -> GoOn(<<CopyWithEndian(item, d.h.islittle)>>, 0)
                    [] d.kind = "char" -> GoOn(<<item>>, 0)
                    [] d.kind = "string" -> IF i.ok /\ at + d.size + len <= Len(data) THEN GoOn(<<text>>, len)
                                            ELSE [ok |-> FALSE]
                    [] d.kind = "zstr" -> GoOn(<<text>>, len + 1)
                    [] d.kind \in NoValue -> GoOn(<<>>, 0)
-------------------------------------------------------------------------------
\* The bytes of n, lowest first, in two's complement of any size.
Complement(n, size) == [i \in 1..size |-> (n \div (Base ^ (i - 1))) % Base]

\* What is packed is unpacked, from the same format, to the same values, and ends where the
\* string does; the sizes that are counted for alignment are those of the string (lstrlib.c:1323).
RoundTrip(q) ==
    LET p == Pack(Header, q.fmt, q.args, <<>>, 0)
        u == Unpack(Header, q.fmt, p.b, 0, <<>>)
        fixed == PackSize(Header, q.fmt, 0)
        padded(i) == IF q.char[i] > 0 THEN q.args[i] \o Zeros(q.char[i] - Len(q.args[i])) ELSE q.args[i]
    IN  p.ok => /\ u.ok
                /\ u.values = [i \in DOMAIN q.args |-> padded(i)]
                /\ u.pos = Len(p.b) + 1
                /\ p.totalsize = Len(p.b)
                /\ fixed \in {0, Len(p.b)}

\* An integer of a size beyond an integer's own is read exactly when it is one.
AnyBytes(q) ==
    LET u == Unpack(Header, <<q.option>>, q.data, 0, <<>>)
        size == GetOption(q.option).size
    IN  size = Len(q.data) =>
            LET fit == {n \in Ints : LET m == IF q.option.c = "I" THEN Unsigned(n) ELSE n
                                     IN  Complement(m, size) = q.data}
            IN  IF fit = {} THEN ~ u.ok ELSE u.ok /\ u.values[1] \in fit

PackRight(q) == IF q.fn = "pack" THEN RoundTrip(q) ELSE AnyBytes(q)
===============================================================================
