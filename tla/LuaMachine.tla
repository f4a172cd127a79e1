------------------------------- MODULE LuaMachine -------------------------------
(***************************************************************************)
(* The virtual machine (luaV_execute of lvm.c, with the calls and returns  *)
(* of ldo.c and the upvalues of lfunc.c).  `m` is the state of a thread:   *)
(* its stack, its frames (the last one runs), its open and closed          *)
(* upvalues, the closures and tables there are.  Metatables are left out:  *)
(* an operation on a value that has none of its own is an error.           *)
(***************************************************************************)
EXTENDS LuaCode

CONSTANT STACKSIZE

Frame(m) == Last(m.ci)
Fail(m) == [m EXCEPT !.out = "error"]
-------------------------------------------------------------------------------
(* Registers, constants, upvalues and tables.                              *)

\* Stack slots count from 1; the function of a frame is below its registers.
Reg(m, r) == m.stack[Frame(m).base + r]
SetReg(m, r, v) == [m EXCEPT !.stack[Frame(m).base + r] = v]
K(m, i) == Frame(m).p.k[i + 1]
RKValue(m, x) == IF x >= BITRK THEN K(m, x - BITRK) ELSE Reg(m, x)

Upval(m, i) == Frame(m).upvals[i + 1]
UpvalValue(m, i) == LET u == m.uv[Upval(m, i)] IN IF u.open THEN m.stack[u.at] ELSE u.value
SetUpval(m, i, v) ==
    LET n == Upval(m, i)
    IN IF m.uv[n].open THEN [m EXCEPT !.stack[m.uv[n].at] = v] ELSE [m EXCEPT !.uv[n].value = v]
OpenAt(m, slot) == {n \in DOMAIN m.uv : m.uv[n].open /\ m.uv[n].at = slot}
FindUpval(m, slot) ==
    IF OpenAt(m, slot) # {} THEN [m |-> m, n |-> CHOOSE n \in OpenAt(m, slot) : TRUE]
    ELSE [m |-> [m EXCEPT !.uv = Append(@, [open |-> TRUE, at |-> slot, value |-> NilV])], n |-> Len(m.uv) + 1]
CloseUpvals(m, level) ==
    [m EXCEPT !.uv = [n \in DOMAIN @ |-> IF @[n].open /\ @[n].at >= level
                                         THEN [open |-> FALSE, at |-> 0, value |-> m.stack[@[n].at]] ELSE @[n]]]

GetTable(m, t, key) == IF key \in DOMAIN m.tables[t[2]] THEN m.tables[t[2]][key] ELSE NilV
Get(m, t, key, ra) == IF t[1] # "table" THEN Fail(m) ELSE SetReg(m, ra, GetTable(m, t, key))
Set(m, t, key, v) ==
    IF t[1] # "table" \/ key = NilV THEN Fail(m) ELSE [m EXCEPT !.tables[t[2]] = (key :> v) @@ @]
-------------------------------------------------------------------------------
(* Calls.                                                                  *)

\* The values vs from slot on, and the slots after them up to n nil.
Put(m, slot, vs, n) ==
    [m EXCEPT !.stack = [i \in DOMAIN @ |-> IF i \notin slot..(slot + n - 1) THEN @[i]
                                            ELSE IF i - slot < Len(vs) THEN vs[i - slot + 1] ELSE NilV]]
Values(m, first, n) == SubSeq(m.stack, first, first + n - 1)

\* luaD_poscall without the frame: the results go where the function was.
MoveResults(m, results, res, wanted) ==
    IF wanted = -1 THEN [Put(m, res, results, Len(results)) EXCEPT !.top = res + Len(results)]
    ELSE [Put(m, res, results, wanted) EXCEPT !.top = res + wanted]

\* The variable arguments stay below the frame, whose fixed parameters are copied above them.
PrecallLua(m, func, nresults, c) ==
    LET p == c.p
        n == m.top - func - 1
        base == IF p.vararg THEN m.top ELSE func + 1
        fixed == Values(m, func + 1, IF n < p.numparams THEN n ELSE p.numparams)
        cleared == IF p.vararg THEN Put(m, func + 1, <<>>, Len(fixed)) ELSE m
    IN IF base + p.maxstacksize - 1 > STACKSIZE THEN Fail(m)
       ELSE [Put(cleared, base, fixed, p.numparams) EXCEPT
               !.ci = Append(@, [func |-> func, base |-> base, pc |-> 0, p |-> p, upvals |-> c.upvals, wanted |-> nresults])]
Call(m, func, nresults) ==
    LET f == m.stack[func]
        args == Values(m, func + 1, m.top - func - 1)
    IN CASE f[1] = "function" -> PrecallLua(m, func, nresults, m.closures[f[2]])
         [] f = Ref("C", "p") -> MoveResults([m EXCEPT !.trace = Append(@, [i \in DOMAIN args |-> Seen(args[i])])],
                                             args, func, nresults)
         [] f = Ref("C", "upto") -> MoveResults(m, <<Next1(args)>>, func, nresults)
         [] OTHER -> Fail(m)
IsLua(m, func) == m.stack[func][1] = "function"

\* The called frame, in the place of its caller's.
TailCall(m, func) ==
    LET called == Call(m, func, -1)
        nci == Frame(called)
        oci == Frame(m)
        closed == IF oci.p.p # <<>> THEN CloseUpvals(called, oci.base) ELSE called
        lim == nci.base + nci.p.numparams
        moved == Put(closed, oci.func, Values(closed, func, lim - func), lim - func)
        down == oci.func - func
    IN IF ~ IsLua(m, func) THEN called
       ELSE [moved EXCEPT !.ci = Append(Front(m.ci), [nci EXCEPT !.func = oci.func, !.base = @ + down,
                                                                 !.wanted = oci.wanted])]
Return(m, ra, b) ==
    LET f == Frame(m)
        first == f.base + ra
        closed == IF f.p.p # <<>> THEN CloseUpvals(m, f.base) ELSE m
        results == Values(m, first, IF b # 0 THEN b - 1 ELSE m.top - first)
        done == MoveResults(closed, results, f.func, f.wanted)
    IN IF Len(m.ci) = 1 THEN [done EXCEPT !.out = "done", !.ret = [i \in DOMAIN results |-> Seen(results[i])]]
       ELSE [done EXCEPT !.ci = Front(@)]
-------------------------------------------------------------------------------
(* One instruction.                                                        *)

SkipIns(m) == [m EXCEPT !.ci[Len(m.ci)].pc = @ + 1]
Offset(m, by) == [m EXCEPT !.ci[Len(m.ci)].pc = @ + by]
DoJump(m, i) == Offset(IF i.a # 0 THEN CloseUpvals(m, Frame(m).base + i.a - 1) ELSE m, i.b)
\* A test that succeeds does the jump after it.
Test(m, holds) == IF holds THEN DoJump(SkipIns(m), At(Frame(m).p, Frame(m).pc)) ELSE SkipIns(m)

Compare(m, i) ==
    LET b == RKValue(m, i.b) c == RKValue(m, i.c)
        holds == IF i.op = "LT" THEN b[2] < c[2] ELSE b[2] <= c[2]
    IN IF b[1] = "int" /\ c[1] = "int" THEN Test(m, holds = (i.a = 1)) ELSE Fail(m)
ArithIns(m, i, op) ==
    LET b == RKValue(m, i.b) c == RKValue(m, i.c) IN
    IF b[1] = "int" /\ c[1] = "int" /\ ~ (op = "//" /\ c[2] = 0) THEN SetReg(m, i.a, IntV(Arith(op, b[2], c[2])))
    ELSE Fail(m)
ConcatIns(m, i) ==
    LET vs == Values(m, Frame(m).base + i.b, i.c - i.b + 1) IN
    IF \A j \in DOMAIN vs : vs[j][1] \in {"int", "str"}
    THEN SetReg(m, i.a, Str(FlattenSeq([j \in DOMAIN vs |-> Pieces(vs[j])]))) ELSE Fail(m)

RECURSIVE Closure(_, _, _)
\* The upvalues of a new closure: variables of this frame, or this function's own.
Closure(m, p, ups) ==
    LET u == p.ups[Len(ups) + 1]
        f == FindUpval(m, Frame(m).base + u.idx)
    IN IF Len(ups) = Len(p.ups) THEN [m EXCEPT !.closures = Append(@, [p |-> p, upvals |-> ups])]
       ELSE IF u.instack THEN Closure(f.m, p, Append(ups, f.n))
       ELSE Closure(m, p, Append(ups, Upval(m, u.idx)))

ForPrep(m, i) ==
    LET v(j) == Reg(m, i.a + j) IN
    IF \A j \in 0..2 : v(j)[1] = "int" THEN Offset(SetReg(m, i.a, IntV(v(0)[2] - v(2)[2])), i.b) ELSE Fail(m)
ForLoop(m, i) ==
    LET step == Reg(m, i.a + 2)[2]
        limit == Reg(m, i.a + 1)[2]
        index == Reg(m, i.a)[2] + step
    IN IF (0 < step /\ index <= limit) \/ (0 >= step /\ limit <= index)
       THEN Offset(SetReg(SetReg(m, i.a, IntV(index)), i.a + 3, IntV(index)), i.b) ELSE m
\* The generator is called with copies; what it returns is tested by the next instruction.
TForCall(m, i) ==
    LET base == Frame(m).base + i.a
        copied == [Put(m, base + 3, Values(m, base, 3), 3) EXCEPT !.top = base + 6]
    IN Call(copied, base + 3, i.c)
TForLoop(m, i) ==
    IF Reg(m, i.a + 1) = NilV THEN m ELSE Offset(SetReg(m, i.a, Reg(m, i.a + 1)), i.b)

RECURSIVE StoreItems(_, _, _, _)
StoreItems(m, t, last, vs) ==
    IF vs = <<>> THEN m ELSE StoreItems(Set(m, t, IntV(last), Last(vs)), t, last - 1, Front(vs))
SetListIns(m, i) ==
    LET base == Frame(m).base + i.a
        n == IF i.b = 0 THEN m.top - base - 1 ELSE i.b
    IN StoreItems(m, m.stack[base], (i.c - 1) * LFIELDS_PER_FLUSH + n, Values(m, base + 1, n))
VarArg(m, i) ==
    LET f == Frame(m)
        n == IF f.base - f.func - f.p.numparams - 1 < 0 THEN 0 ELSE f.base - f.func - f.p.numparams - 1
        wanted == IF i.b = 0 THEN n ELSE i.b - 1
        vs == Values(m, f.base - n, IF wanted < n THEN wanted ELSE n)
    IN [Put(m, f.base + i.a, vs, wanted) EXCEPT !.top = IF i.b = 0 THEN f.base + i.a + n ELSE @]

Execute(m, i) ==
    LET ra == Frame(m).base + i.a
        rb == Reg(m, i.b)
        open == IF i.b # 0 THEN [m EXCEPT !.top = ra + i.b] ELSE m
        self == RKValue(m, i.c)
    IN CASE i.op = "MOVE" -> SetReg(m, i.a, rb)
         [] i.op = "LOADK" -> SetReg(m, i.a, K(m, i.b))
         [] i.op = "LOADBOOL" -> LET l == SetReg(m, i.a, Bool(i.b = 1)) IN IF i.c = 1 THEN SkipIns(l) ELSE l
         [] i.op = "LOADNIL" -> Put(m, ra, <<>>, i.b + 1)
         [] i.op = "GETUPVAL" -> SetReg(m, i.a, UpvalValue(m, i.b))
         [] i.op = "GETTABUP" -> Get(m, UpvalValue(m, i.b), RKValue(m, i.c), i.a)
         [] i.op = "GETTABLE" -> Get(m, rb, RKValue(m, i.c), i.a)
         [] i.op = "SETTABUP" -> Set(m, UpvalValue(m, i.a), RKValue(m, i.b), RKValue(m, i.c))
         [] i.op = "SETUPVAL" -> SetUpval(m, i.b, Reg(m, i.a))
         [] i.op = "SETTABLE" -> Set(m, Reg(m, i.a), RKValue(m, i.b), RKValue(m, i.c))
         [] i.op = "NEWTABLE" -> SetReg([m EXCEPT !.tables = Append(@, [x \in {} |-> NilV])], i.a,
                                        Ref("table", Len(m.tables) + 1))
         [] i.op = "SELF" -> Get(SetReg(m, i.a + 1, rb), rb, self, i.a)
         [] i.op \in ArithOps -> ArithIns(m, i, i.op)
         [] i.op = "UNM" -> IF rb[1] = "int" THEN SetReg(m, i.a, IntV(- rb[2])) ELSE Fail(m)
         [] i.op = "NOT" -> SetReg(m, i.a, Bool(IsFalse(rb)))
         [] i.op = "LEN" -> IF rb[1] = "table" THEN SetReg(m, i.a, IntV(Border(m.tables[rb[2]]))) ELSE Fail(m)
         [] i.op = "CONCAT" -> ConcatIns(m, i)
         [] i.op = "JMP" -> DoJump(m, i)
         [] i.op = "EQ" -> Test(m, (RKValue(m, i.b) = RKValue(m, i.c)) = (i.a = 1))
         [] i.op \in {"LT", "LE"} -> Compare(m, i)
         [] i.op = "TEST" -> Test(m, IsFalse(Reg(m, i.a)) # (i.c = 1))
         [] i.op = "TESTSET" -> IF IsFalse(rb) = (i.c = 1) THEN SkipIns(m) ELSE Test(SetReg(m, i.a, rb), TRUE)
         [] i.op = "CALL" -> Call(open, ra, i.c - 1)
         [] i.op = "TAILCALL" -> TailCall(open, ra)
         [] i.op = "RETURN" -> Return(m, i.a, i.b)
         [] i.op = "FORLOOP" -> ForLoop(m, i)
         [] i.op = "FORPREP" -> ForPrep(m, i)
         [] i.op = "TFORCALL" -> TForCall(m, i)
         [] i.op = "TFORLOOP" -> TForLoop(m, i)
         [] i.op = "SETLIST" -> SetListIns(m, i)
         [] i.op = "CLOSURE" -> LET c == Closure(m, Frame(m).p.p[i.b + 1], <<>>)
                                IN SetReg(c, i.a, Ref("function", Len(c.closures)))
         [] i.op = "VARARG" -> VarArg(m, i)

RECURSIVE Run(_)
Run(m) ==
    IF m.out # "" THEN m ELSE Run(Execute(SkipIns(m), At(Frame(m).p, Frame(m).pc)))

\* The main function, called with args; its upvalue holds the table of globals.
Start(proto, args) ==
    LET m == [stack |-> [i \in 1..STACKSIZE |-> IF i = 1 THEN Ref("function", 1)
                                                ELSE IF i <= Len(args) + 1 THEN args[i - 1] ELSE NilV],
              top |-> Len(args) + 2, ci |-> <<>>, uv |-> <<[open |-> FALSE, at |-> 0, value |-> Ref("table", 1)]>>,
              closures |-> <<[p |-> proto, upvals |-> <<1>>]>>, tables |-> <<Globals>>,
              trace |-> <<>>, out |-> "", ret |-> <<>>]
    IN Call(m, 1, -1)
===============================================================================
