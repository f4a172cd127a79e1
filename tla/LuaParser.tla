-------------------------------- MODULE LuaParser --------------------------------
(***************************************************************************)
(* The parser (lparser.c), which generates code as it reads: each operator *)
(* takes the state `s` with the tokens still to be read, and returns it    *)
(* after the construct it is named for.  What a function is compiled in    *)
(* besides code: its block list, its variables, and the pending gotos and  *)
(* labels all functions share.                                             *)
(***************************************************************************)
EXTENDS LuaCode

CONSTANTS Names, Numerals, Literals   \* tokens: names, integers and strings with their values

Tok(s) == s.toks[s.pos]
Ahead(s) == s.toks[s.pos + 1]
Skip(s) == [s EXCEPT !.pos = @ + 1]
CheckNext(s, t) == IF Tok(s) = t THEN Skip(s) ELSE Error(s, "syntax")
TestNext(s, t) == IF Tok(s) = t THEN Skip(s) ELSE s
-------------------------------------------------------------------------------
(* Variables, blocks, gotos and labels.                                    *)

Block(s) == Last(s.bl)
AdjustLocalVars(s, n) == [s EXCEPT !.nactvar = @ + n]
NewLocalVar(s, name) == [s EXCEPT !.vars = Append(@, name)]
RemoveVars(s, level) == [s EXCEPT !.vars = SubSeq(@, 1, Len(@) - (s.nactvar - level)), !.nactvar = level]

Position(found) == IF found = {} THEN -1 ELSE (CHOOSE i \in found : \A j \in found : j <= i) - 1
SearchVar(s, name) == Position({i \in 1..s.nactvar : s.vars[i] = name})
SearchUpvalue(s, name) == Position({i \in DOMAIN s.ups : s.ups[i].name = name})
NewUpvalue(s, name, e) ==
    [s EXCEPT !.ups = Append(@, [name |-> name, instack |-> e.k = "VLOCAL", idx |-> e.info])]
MarkUpval(s, level) ==
    LET inner == {i \in DOMAIN s.bl : s.bl[i].nactvar <= level}
    IN [s EXCEPT !.bl[CHOOSE i \in inner : \A j \in inner : j <= i].upval = TRUE]

RECURSIVE SingleVarAux(_, _, _)
SingleVarAux(s, name, base) ==
    LET v == SearchVar(s, name)
        known == SearchUpvalue(s, name)
        outer == SingleVarAux(s.prev, name, FALSE)
        up == NewUpvalue([s EXCEPT !.prev = outer.s], name, outer.e)
    IN CASE s.depth = 0 -> [s |-> s, e |-> Exp("VVOID", 0)]
         [] s.depth # 0 /\ v >= 0 -> [s |-> IF base THEN s ELSE MarkUpval(s, v), e |-> Exp("VLOCAL", v)]
         [] s.depth # 0 /\ v < 0 /\ known >= 0 -> [s |-> s, e |-> Exp("VUPVAL", known)]
         [] OTHER -> IF outer.e.k = "VVOID" THEN [s |-> [s EXCEPT !.prev = outer.s], e |-> outer.e]
                     ELSE [s |-> up, e |-> Exp("VUPVAL", Len(up.ups) - 1)]
SingleVar(s) ==
    LET name == Tok(s)
        var == SingleVarAux(Skip(s), name, TRUE)
        env == SingleVarAux(var.s, "_ENV", TRUE)
        key == CodeString(env.s, name)
    IN IF var.e.k = "VVOID" THEN Indexed(key.s, env.e, key.e) ELSE var

EnterBlock(s, isloop) ==
    [Asserted(s, s.freereg = s.nactvar) EXCEPT
       !.bl = Append(@, [firstlabel |-> Len(s.label) + 1, firstgoto |-> Len(s.gt) + 1, nactvar |-> s.nactvar,
                         upval |-> FALSE, isloop |-> isloop])]
Entry(s, name, pc) == [name |-> name, pc |-> pc, nactvar |-> s.nactvar]

CloseGoto(s, g, label) ==
    LET gt == s.gt[g]
        c == IF gt.nactvar < label.nactvar THEN Error(s, "jumps into the scope of a local") ELSE s
    IN [PatchList(c, gt.pc, label.pc) EXCEPT !.gt = RemoveAt(@, g)]
\* The labels of the current block that goto g may go to: it goes to the first.
LabelsFor(s, g) ==
    SelectSeq(SubSeq(s.label, Block(s).firstlabel, Len(s.label)), LAMBDA l : l.name = s.gt[g].name)
\* Mutant of Leaves: variables captured behind the goto are forgotten.
LeavesCaptured(s, g, label) == s.gt[g].nactvar > label.nactvar /\ Block(s).upval

\* Going back to the label, goto g leaves variables that may be captured, if only further on.
Leaves(s, g, label) ==
    s.gt[g].nactvar > label.nactvar /\ (Block(s).upval \/ Len(s.label) >= Block(s).firstlabel)
FindLabel(s, g) ==
    IF LabelsFor(s, g) = <<>> THEN s
    ELSE LET lb == LabelsFor(s, g)[1]
         IN CloseGoto(IF Leaves(s, g, lb) THEN PatchClose(s, s.gt[g].pc, lb.nactvar) ELSE s, g, lb)
RECURSIVE FindGotos(_, _, _)
FindGotos(s, label, i) ==
    IF i > Len(s.gt) THEN s
    ELSE IF s.gt[i].name = label.name THEN FindGotos(CloseGoto(s, i, label), label, i)
    ELSE FindGotos(s, label, i + 1)
RECURSIVE MoveGotosOut(_, _, _)
MoveGotosOut(s, bl, i) ==
    LET leaves == s.gt[i].nactvar > bl.nactvar
        t == IF leaves /\ bl.upval THEN PatchClose(s, s.gt[i].pc, bl.nactvar) ELSE s
        u == IF leaves THEN [t EXCEPT !.gt[i].nactvar = bl.nactvar] ELSE t
        found == LabelsFor(u, i) # <<>>
    IN IF i > Len(s.gt) THEN s
       ELSE MoveGotosOut(FindLabel(u, i), bl, IF found THEN i ELSE i + 1)

BreakLabel(s) ==
    LET lb == Entry(s, "break", Pc(s))
    IN FindGotos([s EXCEPT !.label = Append(@, lb)], lb, Block(s).firstgoto)
LeaveBlock(s) ==
    LET bl == Block(s)
        inner == Len(s.bl) > 1
        j == Jump(s)
        closed == IF inner /\ bl.upval
                  THEN PatchToHere(PatchClose(j, Pc(j) - 1, bl.nactvar), Pc(j) - 1) ELSE s
        broken == IF bl.isloop THEN BreakLabel(closed) ELSE closed
        left == [RemoveVars([broken EXCEPT !.bl = Front(@)], bl.nactvar) EXCEPT
                   !.freereg = bl.nactvar, !.label = SubSeq(@, 1, bl.firstlabel - 1)]
    IN IF inner THEN MoveGotosOut(left, bl, bl.firstgoto)
       ELSE IF bl.firstgoto <= Len(left.gt)
       THEN Error(left, IF left.gt[bl.firstgoto].name = "break" THEN "break outside a loop" ELSE "no visible label")
       ELSE left

BlockFollow(s, withuntil) == Tok(s) \in {"else", "elseif", "end", "EOS"} \/ (withuntil /\ Tok(s) = "until")
-------------------------------------------------------------------------------
(* Functions.                                                              *)

NoFunction == [depth |-> 0]
Function(prev, depth, shared) ==
    [prev |-> prev, depth |-> depth, toks |-> shared.toks, pos |-> shared.pos, err |-> shared.err,
     label |-> shared.label, gt |-> shared.gt, h |-> shared.h,
     code |-> <<>>, lasttarget |-> 0, jpc |-> NO_JUMP, freereg |-> 0, nactvar |-> 0, vars |-> <<>>,
     k |-> <<>>, p |-> <<>>, ups |-> <<>>, bl |-> <<>>, numparams |-> 0, vararg |-> FALSE,
     maxstacksize |-> 2]
OpenFunc(s) == EnterBlock(Function(s, s.depth + 1, s), FALSE)
Proto(s) ==
    [code |-> s.code, k |-> s.k, p |-> s.p, ups |-> s.ups, numparams |-> s.numparams, vararg |-> s.vararg,
     maxstacksize |-> s.maxstacksize]
CloseFunc(s) == LeaveBlock(Ret(s, 0, 0))
\* Back in the function around, with what all functions share.
Enclosing(s) ==
    [s.prev EXCEPT !.pos = s.pos, !.err = s.err, !.label = s.label, !.gt = s.gt, !.h = s.h, !.p = Append(@, Proto(s))]
CodeClosure(s) ==
    Exp2NextReg(Relocable(CodeABC(s, "CLOSURE", 0, Len(s.p) - 1, 0), Exp("", 0)))

RECURSIVE ParList(_, _)
ParList(s, n) ==
    IF Tok(s) = "..." THEN [s |-> [Skip(s) EXCEPT !.vararg = TRUE], n |-> n]
    ELSE IF Tok(s) \notin Names THEN [s |-> s, n |-> n]
    ELSE LET t == NewLocalVar(Skip(s), Tok(s)) IN
         IF Tok(t) = "," THEN ParList(Skip(t), n + 1) ELSE [s |-> t, n |-> n + 1]
Parameters(s) ==
    LET l == ParList(s, 0)
        t == AdjustLocalVars(l.s, l.n)
    IN ReserveRegs([t EXCEPT !.numparams = t.nactvar], t.nactvar)

RECURSIVE Expr(_), SubExpr(_, _), BinOps(_, _), SimpleExp(_), SuffixedExp(_), Selectors(_), ExpList(_), Fields(_, _),
          Statement(_), StatList(_), SkipNoOp(_), Targets(_, _), ElseIfs(_, _)

Body(s, ismethod) ==
    LET f == CheckNext(OpenFunc(s), "(")
        self == IF ismethod THEN AdjustLocalVars(NewLocalVar(f, "self"), 1) ELSE f
        b == StatList(CheckNext(Parameters(self), ")"))
    IN CodeClosure(Enclosing(CloseFunc(CheckNext(b, "end"))))
-------------------------------------------------------------------------------
(* Expressions.                                                            *)

\* n expressions; all but the last are in registers.
ExpList(s) ==
    LET x == Expr(s)
        rest == ExpList(Skip(Exp2NextReg(x).s))
    IN IF Tok(x.s) = "," THEN [rest EXCEPT !.n = @ + 1] ELSE [s |-> x.s, e |-> x.e, n |-> 1]
Pair(l) == [s |-> l.s, e |-> l.e]

FieldSel(x) ==
    LET v == Exp2AnyRegUp(x)
        key == CodeString(Skip(Skip(v.s)), Ahead(v.s))
    IN Indexed(key.s, v.e, key.e)
YIndex(s) == LET x == Exp2Val(Expr(Skip(s))) IN [x EXCEPT !.s = CheckNext(@, "]")]

\* cc: the table's register t, the last list item v, the items counted na and those not stored yet.
CloseListField(s, cc) ==
    LET t == Exp2NextReg([s |-> s, e |-> cc.v]).s
        full == cc.tostore = LFIELDS_PER_FLUSH
    IN IF cc.v.k = "VVOID" THEN [s |-> s, cc |-> cc]
       ELSE [s |-> IF full THEN SetList(t, cc.t, cc.na, cc.tostore) ELSE t,
             cc |-> [cc EXCEPT !.v = Exp("VVOID", 0), !.tostore = IF full THEN 0 ELSE @]]
LastListField(s, cc) ==
    CASE cc.tostore = 0 -> s
      [] cc.tostore # 0 /\ HasMultRet(cc.v) -> SetList(SetMultRet([s |-> s, e |-> cc.v]).s, cc.t, cc.na, -1)
      [] OTHER -> SetList(IF cc.v.k = "VVOID" THEN s ELSE Exp2NextReg([s |-> s, e |-> cc.v]).s,
                          cc.t, cc.na, cc.tostore)
RecField(s, cc) ==
    LET key == IF Tok(s) = "[" THEN YIndex(s) ELSE CodeString(Skip(s), Tok(s))
        rk == Exp2RK([key EXCEPT !.s = CheckNext(@, "=")])
        val == Exp2RK(Expr(rk.s))
    IN [CodeABC(val.s, "SETTABLE", cc.t, RK(rk.e), RK(val.e)) EXCEPT !.freereg = s.freereg]
ListField(s, cc) == LET x == Expr(s) IN [s |-> x.s, cc |-> [cc EXCEPT !.v = x.e, !.na = @ + 1, !.tostore = @ + 1]]
Fields(s, cc) ==
    LET c == CloseListField(s, cc)
        f == IF Tok(c.s) = "[" \/ (Tok(c.s) \in Names /\ Ahead(c.s) = "=")
             THEN [s |-> RecField(c.s, c.cc), cc |-> c.cc] ELSE ListField(c.s, c.cc)
    IN IF Tok(s) = "}" THEN [s |-> s, cc |-> cc]
       ELSE IF Tok(f.s) = "," THEN Fields(Skip(f.s), f.cc) ELSE f
Constructor(s) ==
    LET t == Exp2NextReg(Relocable(CodeABC(s, "NEWTABLE", 0, 0, 0), Exp("", 0)))
        f == Fields(CheckNext(t.s, "{"), [v |-> Exp("VVOID", 0), t |-> t.e.info, na |-> 0, tostore |-> 0])
    IN [s |-> LastListField(CheckNext(f.s, "}"), f.cc), e |-> t.e]

\* x: the function, in a register; the arguments follow it there.
FuncArgs(x) ==
    LET l == ExpList(Skip(x.s))
        args == IF Tok(x.s) = "{" THEN Constructor(x.s)
                ELSE IF Ahead(x.s) = ")" THEN [s |-> Skip(Skip(x.s)), e |-> Exp("VVOID", 0)]
                ELSE [SetMultRet(Pair(l)) EXCEPT !.s = CheckNext(@, ")")]
        base == x.e.info
        s == IF args.e.k = "VVOID" \/ HasMultRet(args.e) THEN args.s ELSE Exp2NextReg(args).s
        nparams == IF HasMultRet(args.e) THEN -1 ELSE s.freereg - (base + 1)
        call == CodeABC(Asserted(s, x.e.k = "VNONRELOC"), "CALL", base, nparams + 1, 2)
    IN [s |-> [call EXCEPT !.freereg = base + 1], e |-> Exp("VCALL", Pc(call) - 1)]

PrimaryExp(s) ==
    IF Tok(s) = "(" THEN LET x == Expr(Skip(s)) IN DischargeVars([x EXCEPT !.s = CheckNext(@, ")")])
    ELSE IF Tok(s) \in Names THEN SingleVar(s) ELSE [s |-> Error(s, "syntax"), e |-> Exp("VVOID", 0)]
Selectors(x) ==
    LET v == Exp2AnyRegUp(x)
        key == YIndex(v.s)
        name == CodeString(Skip(Skip(x.s)), Ahead(x.s))
    IN CASE Tok(x.s) = "." -> Selectors(FieldSel(x))
         [] Tok(x.s) = "[" -> Selectors(Indexed(key.s, v.e, key.e))
         [] Tok(x.s) = ":" -> Selectors(FuncArgs(Self([s |-> name.s, e |-> x.e], name.e)))
         [] Tok(x.s) \in {"(", "{"} -> Selectors(FuncArgs(Exp2NextReg(x)))
         [] OTHER -> x
SuffixedExp(s) == Selectors(PrimaryExp(s))

SimpleExp(s) ==
    LET t == Tok(s) IN
    CASE t \in DOMAIN Numerals -> [s |-> Skip(s), e |-> Exp("VKINT", Numerals[t])]
      [] t \in DOMAIN Literals -> CodeString(Skip(s), Literals[t])
      [] t = "nil" -> [s |-> Skip(s), e |-> Exp("VNIL", 0)]
      [] t = "true" -> [s |-> Skip(s), e |-> Exp("VTRUE", 0)]
      [] t = "false" -> [s |-> Skip(s), e |-> Exp("VFALSE", 0)]
      [] t = "..." -> LET c == CodeABC(IF s.vararg THEN s ELSE Error(s, "cannot use ..."), "VARARG", 0, 1, 0)
                      IN [s |-> Skip(c), e |-> Exp("VVARARG", Pc(c) - 1)]
      [] t = "{" -> Constructor(s)
      [] t = "function" -> Body(Skip(s), FALSE)
      [] OTHER -> SuffixedExp(s)

UnOps == {"not", "-", "#"}
UNARY_PRIORITY == 12
Priority == [op \in {"+", "-"} |-> <<10, 10>>] @@ ("//" :> <<11, 11>>) @@ (".." :> <<9, 8>>)
            @@ [op \in DOMAIN CompOps |-> <<3, 3>>] @@ ("and" :> <<2, 2>>) @@ ("or" :> <<1, 1>>)
BinOps(x, limit) ==
    LET op == Tok(x.s)
        e1 == Infix([x EXCEPT !.s = Skip(@)], op)
        e2 == SubExpr(e1.s, Priority[op][2])
    IN IF op \in DOMAIN Priority /\ Priority[op][1] > limit
       THEN BinOps(Posfix(e2.s, op, e1.e, e2.e), limit) ELSE x
SubExpr(s, limit) ==
    BinOps(IF Tok(s) \in UnOps THEN Prefix(SubExpr(Skip(s), UNARY_PRIORITY), Tok(s)) ELSE SimpleExp(s), limit)
Expr(s) == SubExpr(s, 0)
-------------------------------------------------------------------------------
(* Statements.                                                             *)

\* l: the values read, as many as l.n; after this there are nvars.
AdjustAssign(l, nvars) ==
    LET extra == nvars - l.n
        calls == IF extra + 1 < 0 THEN 0 ELSE extra + 1
        open == SetReturns(Pair(l), calls).s
        last == IF l.e.k = "VVOID" THEN l.s ELSE Exp2NextReg(Pair(l)).s
        s == IF HasMultRet(l.e) THEN IF calls > 1 THEN ReserveRegs(open, calls - 1) ELSE open
             ELSE IF extra > 0 THEN CodeNil(ReserveRegs(last, extra), last.freereg, extra)
             ELSE last
    IN IF l.n > nvars THEN [s EXCEPT !.freereg = @ - (l.n - nvars)] ELSE s

\* v is assigned after the targets before it: those that use it use a copy.
CheckConflict(s, lhs, v) ==
    LET table(l) == l.k = "VINDEXED" /\ l.vt = v.k /\ l.info = v.info
        index(l) == l.k = "VINDEXED" /\ v.k = "VLOCAL" /\ l.idx = v.info
        safe == [i \in DOMAIN lhs |->
                   LET l == lhs[i] IN
                   [l EXCEPT !.vt = IF table(l) THEN "VLOCAL" ELSE @, !.info = IF table(l) THEN s.freereg ELSE @,
                             !.idx = IF index(l) THEN s.freereg ELSE @]]
    IN IF safe = lhs THEN [s |-> s, lhs |-> lhs]
       ELSE [s |-> ReserveRegs(CodeABC(s, IF v.k = "VLOCAL" THEN "MOVE" ELSE "GETUPVAL", s.freereg, v.info, 0), 1),
             lhs |-> safe]
Targets(s, lhs) ==
    LET v == SuffixedExp(Skip(s))
        c == IF v.e.k = "VINDEXED" THEN [s |-> v.s, lhs |-> lhs] ELSE CheckConflict(v.s, lhs, v.e)
    IN IF Tok(s) = "," THEN Targets(c.s, Append(c.lhs, v.e)) ELSE [s |-> s, lhs |-> lhs]
RECURSIVE StoreAll(_, _)
StoreAll(s, lhs) ==
    IF lhs = <<>> THEN s
    ELSE StoreAll(StoreVar([s |-> s, e |-> Exp("VNONRELOC", s.freereg - 1)], Last(lhs)), Front(lhs))
Assignment(x) ==
    LET t == Targets(x.s, <<x.e>>)
        l == ExpList(CheckNext(t.s, "="))
    IN IF l.n # Len(t.lhs) THEN StoreAll(AdjustAssign(l, Len(t.lhs)), t.lhs)
       ELSE StoreAll(StoreVar(SetOneRet(Pair(l)), Last(t.lhs)), Front(t.lhs))
ExprStat(s) ==
    LET x == SuffixedExp(s) IN
    IF Tok(x.s) \in {"=", ","} THEN Assignment(x)
    ELSE IF x.e.k = "VCALL" THEN [x.s EXCEPT !.code[x.e.info + 1].c = 1] ELSE Error(x.s, "syntax")

RECURSIVE LocalNames(_, _)
LocalNames(s, n) ==
    LET t == NewLocalVar(Skip(s), Tok(s)) IN
    IF Tok(t) = "," THEN LocalNames(Skip(t), n + 1) ELSE [s |-> t, n |-> n + 1]
LocalStat(s) ==
    LET names == LocalNames(s, 0)
        l == IF Tok(names.s) = "=" THEN ExpList(Skip(names.s)) ELSE [s |-> names.s, e |-> Exp("VVOID", 0), n |-> 0]
    IN AdjustLocalVars(AdjustAssign(l, names.n), names.n)
LocalFunc(s) == Body(AdjustLocalVars(NewLocalVar(Skip(s), Tok(s)), 1), FALSE).s

RECURSIVE FuncName(_)
FuncName(x) ==
    CASE Tok(x.s) = "." -> FuncName(FieldSel(x))
      [] Tok(x.s) = ":" -> [x |-> FieldSel(x), ismethod |-> TRUE]
      [] OTHER -> [x |-> x, ismethod |-> FALSE]
FuncStat(s) ==
    LET name == FuncName(SingleVar(Skip(s)))
    IN StoreVar(Body(name.x.s, name.ismethod), name.x.e)

Cond(s) ==
    LET x == Expr(s) IN GoIfTrue(IF x.e.k = "VNIL" THEN [x EXCEPT !.e.k = "VFALSE"] ELSE x)
DoBlock(s) == LeaveBlock(StatList(EnterBlock(s, FALSE)))

\* pc: the list of jumps that are to go where the label is.
GotoStat(s, pc) ==
    LET jump == IF Tok(s) = "goto" THEN Ahead(s) ELSE "break"
        t == IF Tok(s) = "goto" THEN Skip(Skip(s)) ELSE Skip(s)
    IN FindLabel([t EXCEPT !.gt = Append(@, Entry(t, jump, pc))], Len(t.gt) + 1)
SkipNoOp(s) == IF Tok(s) \in {";", "::"} THEN SkipNoOp(Statement(s)) ELSE s
LabelStat(s) ==
    LET name == Ahead(s)
        again == \E i \in Block(s).firstlabel..Len(s.label) : s.label[i].name = name
        t == GetLabel(CheckNext(Skip(Skip(IF again THEN Error(s, "label already defined") ELSE s)), "::"))
        l == Len(t.label) + 1
        u == SkipNoOp([t EXCEPT !.label = Append(@, Entry(t, name, Pc(t)))])
        v == IF BlockFollow(u, FALSE) THEN [u EXCEPT !.label[l].nactvar = Block(u).nactvar] ELSE u
    IN FindGotos(v, v.label[l], Block(v).firstgoto)

WhileStat(s) ==
    LET start == GetLabel(Skip(s))
        c == Cond(start)
        b == Jump(DoBlock(CheckNext(EnterBlock(c.s, TRUE), "do")))
        closed == LeaveBlock(CheckNext(PatchList(b, Pc(b) - 1, Pc(start)), "end"))
    IN PatchToHere(closed, c.e.f)
RepeatStat(s) ==
    LET start == GetLabel(s)
        body == StatList(Skip(EnterBlock(EnterBlock(start, TRUE), FALSE)))
        c == Cond(CheckNext(body, "until"))
        u == IF Block(c.s).upval THEN PatchClose(c.s, c.e.f, Block(c.s).nactvar) ELSE c.s
    IN LeaveBlock(PatchList(LeaveBlock(u), c.e.f, Pc(start)))

ForBody(s, base, nvars, isnum) ==
    LET control == CheckNext(AdjustLocalVars(s, 3), "do")
        prep == IF isnum THEN CodeABC(control, "FORPREP", base, NO_JUMP, 0) ELSE Jump(control)
        inner == ReserveRegs(AdjustLocalVars(EnterBlock(prep, FALSE), nvars), nvars)
        body == PatchToHere(LeaveBlock(DoBlock(inner)), Pc(prep) - 1)
        loop == IF isnum THEN CodeABC(body, "FORLOOP", base, NO_JUMP, 0)
                ELSE CodeABC(CodeABC(body, "TFORCALL", base, 0, nvars), "TFORLOOP", base + 2, NO_JUMP, 0)
    IN PatchList(loop, Pc(loop) - 1, Pc(prep))
ForVars(s) == FoldLeft(NewLocalVar, s, <<"(for index)", "(for limit)", "(for step)">>)
Exp1(s) == Exp2NextReg(Expr(s)).s
ForNum(s, name) ==
    LET init == Exp1(CheckNext(NewLocalVar(ForVars(s), name), "="))
        limit == Exp1(CheckNext(init, ","))
        one == ReserveRegs(CodeK(AddK(limit, IntV(1)), limit.freereg, KIndex(limit, IntV(1))), 1)
    IN ForBody(IF Tok(limit) = "," THEN Exp1(Skip(limit)) ELSE one, s.freereg, 1, TRUE)
ForList(s, name) ==
    LET first == NewLocalVar(ForVars(s), name)
        names == IF Tok(first) = "," THEN LocalNames(Skip(first), 1) ELSE [s |-> first, n |-> 1]
    IN ForBody(CheckStack(AdjustAssign(ExpList(CheckNext(names.s, "in")), 3), 3), s.freereg, names.n, FALSE)
ForStat(s) ==
    LET loop == EnterBlock(s, TRUE)
        name == Ahead(s)
        t == Skip(Skip(loop))
    IN LeaveBlock(CheckNext(IF Tok(t) = "=" THEN ForNum(t, name) ELSE ForList(t, name), "end"))

TestThenBlock(s, escape) ==
    LET c == Expr(Skip(s))
        x == [c EXCEPT !.s = CheckNext(@, "then")]
        jumps == Tok(x.s) \in {"goto", "break"}
        gf == GoIfFalse(x)
        g == SkipNoOp(GotoStat(EnterBlock(gf.s, FALSE), gf.e.t))
        alone == jumps /\ BlockFollow(g, FALSE)
        gt == GoIfTrue(x)
        then == IF jumps THEN [s |-> Jump(g), jf |-> Pc(Jump(g)) - 1] ELSE [s |-> EnterBlock(gt.s, FALSE), jf |-> gt.e.f]
        left == LeaveBlock(StatList(then.s))
        over == Jump(left)
        more == Tok(left) \in {"else", "elseif"}
    IN IF alone THEN [s |-> LeaveBlock(g), escape |-> escape]
       ELSE [s |-> PatchToHere(IF more THEN Linked(over, escape, Pc(over) - 1) ELSE left, then.jf),
             escape |-> IF more THEN Joined(escape, Pc(over) - 1) ELSE escape]
ElseIfs(s, escape) ==
    LET b == TestThenBlock(s, escape) IN IF Tok(b.s) = "elseif" THEN ElseIfs(b.s, b.escape) ELSE b
IfStat(s) ==
    LET b == ElseIfs(s, NO_JUMP)
    IN PatchToHere(CheckNext(IF Tok(b.s) = "else" THEN DoBlock(Skip(b.s)) ELSE b.s, "end"), b.escape)

RetStat(s) ==
    LET l == ExpList(s)
        none == BlockFollow(s, TRUE) \/ Tok(s) = ";"
        multi == HasMultRet(l.e)
        tail == l.e.k = "VCALL" /\ l.n = 1
        open == SetMultRet(Pair(l)).s
        called == IF tail THEN Asserted([open EXCEPT !.code[l.e.info + 1].op = "TAILCALL"], GetIns(Pair(l)).a = s.nactvar)
                  ELSE open
        one == Exp2AnyReg(Pair(l))
        many == Exp2NextReg(Pair(l)).s
    IN TestNext(CASE none -> Ret(s, 0, 0)
                  [] ~ none /\ multi -> Ret(called, called.nactvar, -1)
                  [] ~ none /\ ~ multi /\ l.n = 1 -> Ret(one.s, one.e.info, 1)
                  [] OTHER -> Ret(Asserted(many, l.n = many.freereg - many.nactvar), many.nactvar, l.n), ";")

Statement(s) ==
    LET t == CASE Tok(s) = ";" -> Skip(s)
               [] Tok(s) = "if" -> IfStat(s)
               [] Tok(s) = "while" -> WhileStat(s)
               [] Tok(s) = "do" -> CheckNext(DoBlock(Skip(s)), "end")
               [] Tok(s) = "for" -> ForStat(s)
               [] Tok(s) = "repeat" -> RepeatStat(s)
               [] Tok(s) = "function" -> FuncStat(s)
               [] Tok(s) = "local" -> IF Ahead(s) = "function" THEN LocalFunc(Skip(Skip(s))) ELSE LocalStat(Skip(s))
               [] Tok(s) = "::" -> LabelStat(s)
               [] Tok(s) = "return" -> RetStat(Skip(s))
               [] Tok(s) \in {"break", "goto"} -> LET j == Jump(s) IN GotoStat(j, Pc(j) - 1)
               [] OTHER -> ExprStat(s)
    IN [Asserted(t, t.freereg >= t.nactvar) EXCEPT !.freereg = t.nactvar]
StatList(s) ==
    IF BlockFollow(s, TRUE) \/ s.err # "" THEN s
    ELSE IF Tok(s) = "return" THEN Statement(s) ELSE StatList(Statement(s))

\* The main function: a vararg function whose one upvalue is the environment.
Compile(toks) ==
    LET shared == [toks |-> toks, pos |-> 1, err |-> "", label |-> <<>>, gt |-> <<>>, h |-> <<>>]
        main == NewUpvalue([EnterBlock(Function(NoFunction, 1, shared), FALSE) EXCEPT !.vararg = TRUE],
                           "_ENV", Exp("VLOCAL", 0))
        s == CloseFunc(StatList(main))
    IN [err |-> Asserted(s, s.label = <<>> /\ s.gt = <<>> /\ s.vars = <<>>).err, proto |-> Proto(s)]
===============================================================================
