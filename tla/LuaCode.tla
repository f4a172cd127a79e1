-------------------------------- MODULE LuaCode --------------------------------
(***************************************************************************)
(* The code generator (lcode.c).  `s` is the state of the function being   *)
(* compiled, the fields of FuncState that decide what code is generated;   *)
(* an expression `e` is an expdesc; x is a pair of the two, [s, e].        *)
(* Positions in the code count from 0, as the jumps do.                    *)
(***************************************************************************)
EXTENDS Integers, Sequences, SequencesExt, FiniteSets, TLC

CONSTANT LFIELDS_PER_FLUSH   \* list items stored by one SETLIST

NO_JUMP == -1
NO_REG == 255
BITRK == 256                 \* marks an operand that is a constant
-------------------------------------------------------------------------------
(* Lua values, the same for the compiler, the machine and the language:    *)
(* tuples that begin with their type.  A string is the sequence of the     *)
(* pieces it was put together from.  There are two C functions: p records  *)
(* its arguments and returns them, upto is a generator that counts.        *)

NilV == <<"nil">>
True == <<"true">>
False == <<"false">>
IntV(i) == <<"int", i>>
Str(pieces) == <<"str", pieces>>
Ref(kind, i) == <<kind, i>>
Bool(b) == IF b THEN True ELSE False
IsFalse(v) == v[1] \in {"nil", "false"}
Pieces(v) == IF v[1] = "int" THEN <<ToString(v[2])>> ELSE v[2]

Arith(op, a, b) ==
    IF op = "+" THEN a + b ELSE IF op = "-" THEN a - b ELSE IF b < 0 THEN (- a) \div (- b) ELSE a \div b
ArithOps == {"+", "-", "//"}

\* A border of a table (manual 3.4.7).
Border(t) == CHOOSE n \in 0..Cardinality(DOMAIN t) :
                 /\ \A i \in 1..n : IntV(i) \in DOMAIN t /\ t[IntV(i)] # NilV
                 /\ IntV(n + 1) \in DOMAIN t => t[IntV(n + 1)] = NilV

\* What is seen of a value from outside the program, the globals, and what upto returns.
Seen(v) == IF v[1] \in {"table", "function"} THEN <<v[1]>> ELSE v
Globals == (Str(<<"p">>) :> Ref("C", "p")) @@ (Str(<<"upto">>) :> Ref("C", "upto"))
Next1(args) == IF args[2][2] < args[1][2] THEN IntV(args[2][2] + 1) ELSE NilV
-------------------------------------------------------------------------------
(* Instructions, expressions and jump lists.                               *)

Ins(op, a, b, c) == [op |-> op, a |-> a, b |-> b, c |-> c]
Pc(s) == Len(s.code)
At(s, pc) == s.code[pc + 1]
Exp(k, info) == [k |-> k, info |-> info, idx |-> 0, vt |-> "", t |-> NO_JUMP, f |-> NO_JUMP]
HasJumps(e) == e.t # e.f
Numeral(e) == e.k = "VKINT" /\ ~ HasJumps(e)

\* The first error stands; an assertion of the source that fails is one too.
Error(s, msg) == IF s.err = "" THEN [s EXCEPT !.err = msg] ELSE s
Asserted(s, ok) == IF ok THEN s ELSE Error(s, "assertion")

\* A list of jumps is linked through their offsets; -1 ends it.
GetJump(s, pc) == IF At(s, pc).b = NO_JUMP THEN NO_JUMP ELSE pc + 1 + At(s, pc).b
RECURSIVE JumpList(_, _)
JumpList(s, list) == IF list = NO_JUMP THEN <<>> ELSE <<list>> \o JumpList(s, GetJump(s, list))
FixJump(s, pc, dest) == [s EXCEPT !.code[pc + 1].b = dest - (pc + 1)]

\* luaK_concat: the code after l2 is linked behind l1, and the list that l1 becomes.
Linked(s, l1, l2) == IF l1 = NO_JUMP \/ l2 = NO_JUMP THEN s ELSE FixJump(s, Last(JumpList(s, l1)), l2)
Joined(l1, l2) == IF l1 = NO_JUMP THEN l2 ELSE l1

TestModes == {"EQ", "LT", "LE", "TEST", "TESTSET"}
JumpControl(s, pc) == IF pc >= 1 /\ At(s, pc - 1).op \in TestModes THEN pc - 1 ELSE pc
IsTestSet(s, node) == At(s, JumpControl(s, node)).op = "TESTSET"
PatchTestReg(s, node, reg) ==
    LET c == JumpControl(s, node) i == At(s, c) IN
    IF i.op # "TESTSET" THEN s
    ELSE IF reg # NO_REG /\ reg # i.b THEN [s EXCEPT !.code[c + 1].a = reg]
    ELSE [s EXCEPT !.code[c + 1] = Ins("TEST", i.b, 0, i.c)]
RemoveValues(s, list) == FoldLeft(LAMBDA t, pc : PatchTestReg(t, pc, NO_REG), s, JumpList(s, list))
NeedValue(s, list) == \E i \in DOMAIN JumpList(s, list) : ~ IsTestSet(s, JumpList(s, list)[i])

PatchListAux(s, list, vtarget, reg, dtarget) ==
    FoldLeft(LAMBDA t, pc : FixJump(PatchTestReg(t, pc, reg), pc, IF IsTestSet(t, pc) THEN vtarget ELSE dtarget),
             s, JumpList(s, list))
DischargeJpc(s) == [PatchListAux(s, s.jpc, Pc(s), NO_REG, Pc(s)) EXCEPT !.jpc = NO_JUMP]
Code(s, i) == [DischargeJpc(s) EXCEPT !.code = Append(@, i)]
CodeABC(s, op, a, b, c) == Code(s, Ins(op, a, b, c))
GetLabel(s) == [s EXCEPT !.lasttarget = Pc(s)]
PatchToHere(s, list) ==
    [Linked(GetLabel(s), s.jpc, list) EXCEPT !.jpc = Joined(s.jpc, list)]
PatchList(s, list, target) ==
    IF target = Pc(s) THEN PatchToHere(s, list) ELSE PatchListAux(s, list, target, NO_REG, target)
PatchClose(s, list, level) ==
    FoldLeft(LAMBDA t, pc : [Asserted(t, At(t, pc).op = "JMP" /\ (At(t, pc).a = 0 \/ At(t, pc).a >= level + 1))
                               EXCEPT !.code[pc + 1].a = level + 1], s, JumpList(s, list))
\* The jump stays at the position that was next; those that led here now lead where it does.
Jump(s) == Linked(CodeABC([s EXCEPT !.jpc = NO_JUMP], "JMP", 0, NO_JUMP, 0), Pc(s), s.jpc)
CondJump(s, op, a, b, c) == Jump(CodeABC(s, op, a, b, c))
Ret(s, first, nret) == CodeABC(s, "RETURN", first, nret + 1, 0)

CodeNil(s, from, n) ==
    LET l == from + n - 1
        previous == IF Pc(s) > s.lasttarget THEN At(s, Pc(s) - 1) ELSE Ins("", 0, 0, 0)
        pl == previous.a + previous.b
        low == IF previous.a < from THEN previous.a ELSE from
        high == IF pl > l THEN pl ELSE l
    IN IF /\ previous.op = "LOADNIL"
          /\ \/ previous.a <= from /\ from <= pl + 1
             \/ from <= previous.a /\ previous.a <= l + 1
       THEN [s EXCEPT !.code[Pc(s)] = Ins("LOADNIL", low, high - low, 0)]
       ELSE CodeABC(s, "LOADNIL", from, n - 1, 0)
-------------------------------------------------------------------------------
(* Registers and constants.                                                *)

CheckStack(s, n) == [s EXCEPT !.maxstacksize = IF s.freereg + n > @ THEN s.freereg + n ELSE @]
ReserveRegs(s, n) == [CheckStack(s, n) EXCEPT !.freereg = @ + n]
FreeReg(s, reg) ==
    IF reg >= BITRK \/ reg < s.nactvar THEN s
    ELSE Asserted([s EXCEPT !.freereg = @ - 1], reg = s.freereg - 1)
FreeExp(x) == [x EXCEPT !.s = IF x.e.k = "VNONRELOC" THEN FreeReg(@, x.e.info) ELSE @]
FreeExps(s, e1, e2) ==
    LET regs == {e.info : e \in {d \in {e1, e2} : d.k = "VNONRELOC"}}
    IN FoldLeft(FreeReg, s, SortSeq(SetToSeq(regs), LAMBDA r, q : r > q))

\* Where each constant went last, in any function; it is looked at again before it is used.
AddK(s, v) ==
    IF v \in DOMAIN s.h /\ s.h[v] < Len(s.k) /\ s.k[s.h[v] + 1] = v THEN s
    ELSE [s EXCEPT !.k = Append(@, v), !.h = (v :> Len(s.k)) @@ @]
KIndex(s, v) == AddK(s, v).h[v]
Constant(e) ==
    CASE e.k = "VTRUE" -> True
      [] e.k = "VFALSE" -> False
      [] e.k = "VNIL" -> NilV
      [] e.k = "VKINT" -> IntV(e.info)
CodeK(s, reg, k) == CodeABC(s, "LOADK", reg, k, 0)
CodeString(s, name) == [s |-> AddK(s, Str(<<name>>)), e |-> Exp("VK", KIndex(s, Str(<<name>>)))]
-------------------------------------------------------------------------------
(* From expressions to values in registers.                                *)

GetIns(x) == At(x.s, x.e.info)
HasMultRet(e) == e.k \in {"VCALL", "VVARARG"}
SetReturns(x, nresults) ==
    CASE x.e.k = "VCALL" -> [x EXCEPT !.s.code[x.e.info + 1].c = nresults + 1]
      [] x.e.k = "VVARARG" -> [x EXCEPT !.s = ReserveRegs([@ EXCEPT !.code[x.e.info + 1].b = nresults + 1,
                                                                    !.code[x.e.info + 1].a = x.s.freereg], 1)]
      [] OTHER -> x
SetMultRet(x) == SetReturns(x, -1)
SetOneRet(x) ==
    CASE x.e.k = "VCALL" -> [s |-> Asserted(x.s, GetIns(x).c = 2),
                             e |-> [x.e EXCEPT !.k = "VNONRELOC", !.info = GetIns(x).a]]
      [] x.e.k = "VVARARG" -> [x EXCEPT !.s.code[x.e.info + 1].b = 2, !.e.k = "VRELOCABLE"]
      [] OTHER -> x

Relocable(s, e) == [s |-> s, e |-> [e EXCEPT !.k = "VRELOCABLE", !.info = Pc(s) - 1]]
DischargeVars(x) ==
    LET e == x.e IN
    CASE e.k = "VLOCAL" -> [x EXCEPT !.e.k = "VNONRELOC"]
      [] e.k = "VUPVAL" -> Relocable(CodeABC(x.s, "GETUPVAL", 0, e.info, 0), e)
      [] e.k = "VINDEXED" ->
             LET freed == FreeReg(x.s, e.idx) IN
             Relocable(CodeABC(IF e.vt = "VLOCAL" THEN FreeReg(freed, e.info) ELSE freed,
                               IF e.vt = "VLOCAL" THEN "GETTABLE" ELSE "GETTABUP", 0, e.info, e.idx), e)
      [] HasMultRet(e) -> SetOneRet(x)
      [] OTHER -> x

Discharge2Reg(x, reg) ==
    LET d == DischargeVars(x)
        e == d.e
        s == CASE e.k = "VNIL" -> CodeNil(d.s, reg, 1)
               [] e.k \in {"VTRUE", "VFALSE"} -> CodeABC(d.s, "LOADBOOL", reg, IF e.k = "VTRUE" THEN 1 ELSE 0, 0)
               [] e.k = "VK" -> CodeK(d.s, reg, e.info)
               [] e.k = "VKINT" -> CodeK(AddK(d.s, IntV(e.info)), reg, KIndex(d.s, IntV(e.info)))
               [] e.k = "VRELOCABLE" -> [d.s EXCEPT !.code[e.info + 1].a = reg]
               [] e.k = "VNONRELOC" /\ reg # e.info -> CodeABC(d.s, "MOVE", reg, e.info, 0)
               [] OTHER -> d.s
    IN IF e.k = "VJMP" THEN d ELSE [s |-> s, e |-> [e EXCEPT !.k = "VNONRELOC", !.info = reg]]
Discharge2AnyReg(x) ==
    IF x.e.k = "VNONRELOC" THEN x ELSE Discharge2Reg([x EXCEPT !.s = ReserveRegs(@, 1)], x.s.freereg)

LoadBool(s, a, b, jump) == CodeABC(GetLabel(s), "LOADBOOL", a, b, jump)
Exp2Reg(x, reg) ==
    LET d == Discharge2Reg(x, reg)
        test == d.e.k = "VJMP"
        t == IF test THEN Joined(d.e.t, d.e.info) ELSE d.e.t
        f == d.e.f
        s == IF test THEN Linked(d.s, d.e.t, d.e.info) ELSE d.s
        need == NeedValue(s, t) \/ NeedValue(s, f)
        over == IF test THEN s ELSE Jump(s)
        loads == LoadBool(LoadBool(over, reg, 0, 1), reg, 1, 0)
        final == GetLabel(IF need THEN PatchToHere(loads, IF test THEN NO_JUMP ELSE Pc(s)) ELSE s)
        load(b) == IF need THEN Pc(over) + b ELSE NO_JUMP
    IN [s |-> IF t = f THEN s
              ELSE PatchListAux(PatchListAux(final, f, Pc(final), reg, load(0)), t, Pc(final), reg, load(1)),
        e |-> Exp("VNONRELOC", reg)]
Exp2NextReg(x) ==
    LET d == FreeExp(DischargeVars(x)) IN Exp2Reg([d EXCEPT !.s = ReserveRegs(@, 1)], d.s.freereg)
Exp2AnyReg(x) ==
    LET d == DischargeVars(x) IN
    IF d.e.k = "VNONRELOC" /\ ~ HasJumps(d.e) THEN d
    ELSE IF d.e.k = "VNONRELOC" /\ d.e.info >= d.s.nactvar THEN Exp2Reg(d, d.e.info)
    ELSE Exp2NextReg(d)
Exp2AnyRegUp(x) == IF x.e.k # "VUPVAL" \/ HasJumps(x.e) THEN Exp2AnyReg(x) ELSE x
Exp2Val(x) == IF HasJumps(x.e) THEN Exp2AnyReg(x) ELSE DischargeVars(x)

\* A register or a constant: the operand is RK(e) of what it returns.
Exp2RK(x) ==
    LET v == Exp2Val(x) IN
    CASE v.e.k \in {"VTRUE", "VFALSE", "VNIL", "VKINT"} ->
             [s |-> AddK(v.s, Constant(v.e)), e |-> [v.e EXCEPT !.k = "VK", !.info = KIndex(v.s, Constant(v.e))]]
      [] v.e.k = "VK" -> v
      [] OTHER -> Exp2AnyReg(v)
RK(e) == IF e.k = "VK" THEN BITRK + e.info ELSE e.info

StoreVar(x, var) ==
    CASE var.k = "VLOCAL" -> Exp2Reg(FreeExp(x), var.info).s
      [] var.k = "VUPVAL" -> LET v == Exp2AnyReg(x)
                             IN FreeExp([v EXCEPT !.s = CodeABC(@, "SETUPVAL", v.e.info, var.info, 0)]).s
      [] var.k = "VINDEXED" ->
             LET v == Exp2RK(x)
             IN FreeExp([v EXCEPT !.s = CodeABC(@, IF var.vt = "VLOCAL" THEN "SETTABLE" ELSE "SETTABUP",
                                                var.info, var.idx, RK(v.e))]).s
Indexed(s, t, k) ==
    LET v == Exp2RK([s |-> s, e |-> k])
    IN [s |-> Asserted(v.s, ~ HasJumps(t) /\ t.k \in {"VNONRELOC", "VLOCAL", "VUPVAL"}),
        e |-> [t EXCEPT !.k = "VINDEXED", !.idx = RK(v.e), !.vt = IF t.k = "VUPVAL" THEN "VUPVAL" ELSE "VLOCAL"]]
Self(x, key) ==
    LET v == Exp2AnyReg(x)
        f == FreeExp(v)
        base == f.s.freereg
        k == Exp2RK([s |-> ReserveRegs(f.s, 2), e |-> key])
    IN [s |-> FreeExp([k EXCEPT !.s = CodeABC(@, "SELF", base, v.e.info, RK(k.e))]).s,
        e |-> [v.e EXCEPT !.info = base]]
-------------------------------------------------------------------------------
(* Conditions and operators.                                               *)

NegateCondition(x) ==
    LET c == JumpControl(x.s, x.e.info)
    IN [x EXCEPT !.s = Asserted([@ EXCEPT !.code[c + 1].a = 1 - @],
                                At(x.s, c).op \in TestModes \ {"TEST", "TESTSET"})]
\* The jump is the last instruction of what these return.
JumpOnCond(x, cond) ==
    IF x.e.k = "VRELOCABLE" /\ GetIns(x).op = "NOT"
    THEN CondJump([x.s EXCEPT !.code = Front(@)], "TEST", GetIns(x).b, 0, 1 - cond)
    ELSE LET d == Discharge2AnyReg(x) IN CondJump(FreeExp(d).s, "TESTSET", NO_REG, d.e.info, cond)

Always == {"VK", "VKINT", "VTRUE"}
GoIfTrue(x) ==
    LET d == DischargeVars(x)
        s == CASE d.e.k = "VJMP" -> NegateCondition(d).s
               [] d.e.k \in Always -> d.s
               [] OTHER -> JumpOnCond(d, 0)
        pc == CASE d.e.k = "VJMP" -> d.e.info
                [] d.e.k \in Always -> NO_JUMP
                [] OTHER -> Pc(s) - 1
    IN [s |-> PatchToHere(Linked(s, d.e.f, pc), d.e.t),
        e |-> [d.e EXCEPT !.f = Joined(@, pc), !.t = NO_JUMP]]
GoIfFalse(x) ==
    LET d == DischargeVars(x)
        s == IF d.e.k \in {"VJMP", "VNIL", "VFALSE"} THEN d.s ELSE JumpOnCond(d, 1)
        pc == CASE d.e.k = "VJMP" -> d.e.info
                [] d.e.k \in {"VNIL", "VFALSE"} -> NO_JUMP
                [] OTHER -> Pc(s) - 1
    IN [s |-> PatchToHere(Linked(s, d.e.t, pc), d.e.f),
        e |-> [d.e EXCEPT !.t = Joined(@, pc), !.f = NO_JUMP]]

CodeNot(x) ==
    LET d == DischargeVars(x)
        r == Discharge2AnyReg(d)
        v == CASE d.e.k \in {"VNIL", "VFALSE"} -> [d EXCEPT !.e.k = "VTRUE"]
               [] d.e.k \in Always -> [d EXCEPT !.e.k = "VFALSE"]
               [] d.e.k = "VJMP" -> NegateCondition(d)
               [] OTHER -> Relocable(CodeABC(FreeExp(r).s, "NOT", 0, r.e.info, 0), r.e)
    IN [s |-> RemoveValues(RemoveValues(v.s, v.e.t), v.e.f), e |-> [v.e EXCEPT !.t = v.e.f, !.f = v.e.t]]

\* Folded unless an operand is not a numeral or the operation would fail.
Folds(op, e1, e2) == Numeral(e1) /\ Numeral(e2) /\ ~ (op = "//" /\ e2.info = 0)
CodeUnExpVal(x, op) == LET r == Exp2AnyReg(x) IN Relocable(CodeABC(FreeExp(r).s, op, 0, r.e.info, 0), r.e)
CodeBinExpVal(s, op, e1, e2) ==
    LET r2 == Exp2RK([s |-> s, e |-> e2])
        r1 == Exp2RK([s |-> r2.s, e |-> e1])
    IN Relocable(CodeABC(FreeExps(r1.s, r1.e, r2.e), op, 0, RK(r1.e), RK(r2.e)), r1.e)
CompOps == "==" :> "EQ" @@ "~=" :> "EQ" @@ "<" :> "LT" @@ ">" :> "LT" @@ "<=" :> "LE" @@ ">=" :> "LE"
CodeComp(s, op, e1, e2) ==
    LET r2 == Exp2RK([s |-> s, e |-> e2])
        freed == FreeExps(r2.s, e1, r2.e)
        swap == op \in {">", ">="}
        t == CondJump(freed, CompOps[op], IF op = "~=" THEN 0 ELSE 1,
                      IF swap THEN RK(r2.e) ELSE RK(e1), IF swap THEN RK(e1) ELSE RK(r2.e))
    IN [s |-> t, e |-> [e1 EXCEPT !.k = "VJMP", !.info = Pc(t) - 1]]

Prefix(x, op) ==
    CASE op = "not" -> CodeNot(x)
      [] op = "-" /\ Numeral(x.e) -> [x EXCEPT !.e.info = - x.e.info]
      [] op = "-" -> CodeUnExpVal(x, "UNM")
      [] op = "#" -> CodeUnExpVal(x, "LEN")
Infix(x, op) ==
    CASE op = "and" -> GoIfTrue(x)
      [] op = "or" -> GoIfFalse(x)
      [] op = ".." -> Exp2NextReg(x)
      [] op \in ArithOps /\ Numeral(x.e) -> x
      [] OTHER -> Exp2RK(x)
Posfix(s, op, e1, e2) ==
    LET x2 == [s |-> s, e |-> e2]
        d2 == DischargeVars(x2)
        v2 == Exp2Val(x2)
        n2 == Exp2NextReg(v2)
    IN CASE op = "and" -> [s |-> Linked(d2.s, d2.e.f, e1.f), e |-> [d2.e EXCEPT !.f = Joined(@, e1.f)]]
         [] op = "or" -> [s |-> Linked(d2.s, d2.e.t, e1.t), e |-> [d2.e EXCEPT !.t = Joined(@, e1.t)]]
         [] op = ".." /\ v2.e.k = "VRELOCABLE" /\ GetIns(v2).op = "CONCAT" ->
                LET freed == FreeExp([s |-> Asserted(v2.s, e1.info = GetIns(v2).b - 1), e |-> e1]).s
                IN [s |-> [freed EXCEPT !.code[v2.e.info + 1].b = e1.info],
                    e |-> [e1 EXCEPT !.k = "VRELOCABLE", !.info = v2.e.info]]
         [] op = ".." -> CodeBinExpVal(n2.s, "CONCAT", e1, n2.e)
         [] op \in ArithOps -> IF Folds(op, e1, e2) THEN [s |-> s, e |-> Exp("VKINT", Arith(op, e1.info, e2.info))]
                               ELSE CodeBinExpVal(s, op, e1, e2)
         [] op \in DOMAIN CompOps -> CodeComp(s, op, e1, e2)
SetList(s, base, nelems, tostore) ==
    [CodeABC(s, "SETLIST", base, IF tostore = -1 THEN 0 ELSE tostore, ((nelems - 1) \div LFIELDS_PER_FLUSH) + 1)
       EXCEPT !.freereg = base + 1]
===============================================================================
