------------------------------ MODULE LuaPrograms ------------------------------
(***************************************************************************)
(* Programs that are compiled and run, and what they mean by the reference *)
(* manual (sections 3.3 and 3.4), without code, registers or jumps.  A     *)
(* program is a tree, whose nodes are records with a kind k; a variable is *)
(* a cell, an environment maps names to cells.  Tokens writes a tree with  *)
(* the parentheses that the manual's precedences require and no others.    *)
(***************************************************************************)
EXTENDS LuaParser, LuaMachine

Precedence ==
    [op \in {"or"} |-> 1] @@ [op \in {"and"} |-> 2] @@ [op \in {"==", "~=", "<", ">", "<=", ">="} |-> 3]
    @@ [op \in {".."} |-> 4] @@ [op \in {"+", "-"} |-> 5] @@ [op \in {"//"} |-> 6]
UnaryPrecedence == 7
RightAssociative == {".."}

Level(e) == CASE e.k = "bin" -> Precedence[e.op] [] e.k = "un" -> UnaryPrecedence [] OTHER -> 8
RECURSIVE TokensOf(_), TokenList(_), BlockTokens(_), StatTokens(_)
Parens(needed, toks) == IF needed THEN <<"(">> \o toks \o <<")">> ELSE toks
PrefixTokens(e) == Parens(e.k \notin {"var", "index", "field", "call", "method", "paren"}, TokensOf(e))
NameList(names) == FlattenSeq([i \in DOMAIN names |-> IF i = 1 THEN <<names[i]>> ELSE <<",", names[i]>>])
TokenList(es) ==
    FlattenSeq([i \in DOMAIN es |-> IF i = 1 THEN TokensOf(es[i]) ELSE <<",">> \o TokensOf(es[i])])
FieldTokens(f) ==
    (CASE f.kind = "name" -> <<f.name, "=">>
       [] f.kind = "key" -> <<"[">> \o TokensOf(f.key) \o <<"]", "=">>
       [] f.kind = "item" -> <<>>) \o TokensOf(f.val) \o <<",">>
BodyTokens(f) ==
    <<"(">> \o NameList(f.params \o (IF f.vararg THEN <<"...">> ELSE <<>>)) \o <<")">> \o BlockTokens(f.body) \o <<"end">>
TokensOf(e) ==
    CASE e.k = "const" -> <<e.tok>>
      [] e.k = "var" -> <<e.name>>
      [] e.k = "vararg" -> <<"...">>
      [] e.k = "paren" -> Parens(TRUE, TokensOf(e.a))
      [] e.k = "bin" ->
             LET p == Precedence[e.op] right == e.op \in RightAssociative
             IN Parens(Level(e.a) < p \/ (Level(e.a) = p /\ right), TokensOf(e.a)) \o <<e.op>>
                \o Parens(Level(e.b) < p \/ (Level(e.b) = p /\ ~ right), TokensOf(e.b))
      [] e.k = "un" -> <<e.op>> \o Parens(Level(e.a) < UnaryPrecedence, TokensOf(e.a))
      [] e.k = "index" -> PrefixTokens(e.a) \o <<"[">> \o TokensOf(e.key) \o <<"]">>
      [] e.k = "field" -> PrefixTokens(e.a) \o <<".", e.name>>
      [] e.k = "call" -> PrefixTokens(e.f) \o <<"(">> \o TokenList(e.args) \o <<")">>
      [] e.k = "method" -> PrefixTokens(e.a) \o <<":", e.name, "(">> \o TokenList(e.args) \o <<")">>
      [] e.k = "function" -> <<"function">> \o BodyTokens(e)
      [] e.k = "table" -> <<"{">> \o FlattenSeq([i \in DOMAIN e.fields |-> FieldTokens(e.fields[i])]) \o <<"}">>

ArmTokens(arm, word) == <<word>> \o TokensOf(arm.cond) \o <<"then">> \o BlockTokens(arm.body)
StatTokens(st) ==
    CASE st.k = "local" -> <<"local">> \o NameList(st.names)
                           \o (IF st.exps = <<>> THEN <<>> ELSE <<"=">> \o TokenList(st.exps))
      [] st.k = "assign" -> TokenList(st.targets) \o <<"=">> \o TokenList(st.exps)
      [] st.k = "callstat" -> TokensOf(st.e)
      [] st.k = "do" -> <<"do">> \o BlockTokens(st.body) \o <<"end">>
      [] st.k = "while" -> <<"while">> \o TokensOf(st.cond) \o <<"do">> \o BlockTokens(st.body) \o <<"end">>
      [] st.k = "repeat" -> <<"repeat">> \o BlockTokens(st.body) \o <<"until">> \o TokensOf(st.cond)
      [] st.k = "if" ->
             FlattenSeq([i \in DOMAIN st.arms |-> ArmTokens(st.arms[i], IF i = 1 THEN "if" ELSE "elseif")])
             \o (IF st.else = <<>> THEN <<>> ELSE <<"else">> \o BlockTokens(st.else)) \o <<"end">>
      [] st.k = "fornum" -> <<"for", st.name, "=">> \o TokenList(st.exps) \o <<"do">> \o BlockTokens(st.body) \o <<"end">>
      [] st.k = "forin" -> <<"for">> \o NameList(st.names) \o <<"in">> \o TokenList(st.exps)
                           \o <<"do">> \o BlockTokens(st.body) \o <<"end">>
      [] st.k = "return" -> <<"return">> \o TokenList(st.exps)
      [] st.k = "break" -> <<"break">>
      [] st.k = "goto" -> <<"goto", st.name>>
      [] st.k = "label" -> <<"::", st.name, "::">>
      [] st.k = "localfunction" -> <<"local", "function", st.name>> \o BodyTokens(st.f)
      [] st.k = "function" -> <<"function">> \o TokensOf(st.target) \o BodyTokens(st.f)
      [] st.k = "methodfunction" -> <<"function">> \o TokensOf(st.target) \o <<":", st.name>> \o BodyTokens(st.f)
      [] st.k = "empty" -> <<";">>
BlockTokens(body) == FlattenSeq([i \in DOMAIN body |-> StatTokens(body[i])])
-------------------------------------------------------------------------------
(* Programs that are refused.                                              *)

Declares(st) == IF st.k = "local" THEN Len(st.names) ELSE IF st.k = "localfunction" THEN 1 ELSE 0
Declared(body, n) == FoldLeft(LAMBDA sum, st : sum + Declares(st), 0, SubSeq(body, 1, n))
Bodies(st) ==
    CASE st.k \in {"do", "while", "fornum", "forin", "repeat"} -> {st.body}
      [] st.k = "if" -> {st.arms[i].body : i \in DOMAIN st.arms} \cup {st.else}
      [] OTHER -> {}
LabelsAt(body, name) == {j \in DOMAIN body : body[j].k = "label" /\ body[j].name = name}
LabelIn(body, name) == CHOOSE j \in LabelsAt(body, name) : TRUE

\* A goto at i enters the scope of no local; the void statements at the end of a block are in none.
EndOfBlock(body, j, until) == ~ until /\ \A l \in j..Len(body) : body[l].k \in {"label", "empty"}
MayGo(body, i, j, until) ==
    j < i \/ EndOfBlock(body, j, until) \/ Declared(body, j) = Declared(body, i)

\* around: the bodies the block is in, from the inside out, each with the place of the statement
\* it is part of and whether it is the body of a repeat.
RECURSIVE Valid(_, _, _, _), Resolved(_, _)
Resolved(name, around) ==
    /\ around # <<>>
    /\ IF LabelsAt(around[1].body, name) = {} THEN Resolved(name, Tail(around))
       ELSE MayGo(around[1].body, around[1].i, LabelIn(around[1].body, name), around[1].until)
Valid(body, around, inloop, until) ==
    /\ \A i \in DOMAIN body : body[i].k = "label" => Cardinality(LabelsAt(body, body[i].name)) = 1
    /\ \A i \in DOMAIN body :
          LET here == <<[body |-> body, i |-> i, until |-> until]>> \o around IN
          /\ body[i].k = "break" => inloop
          /\ body[i].k = "goto" => Resolved(body[i].name, here)
          /\ body[i].k = "localfunction" =>
                /\ body[i].f.vararg \/ "..." \notin ToSet(BlockTokens(body[i].f.body))
                /\ Valid(body[i].f.body, <<>>, FALSE, FALSE)
          /\ \A b \in Bodies(body[i]) :
                Valid(b, here, inloop \/ body[i].k \in {"while", "fornum", "forin", "repeat"}, body[i].k = "repeat")
-------------------------------------------------------------------------------
(* Evaluation: of an expression to values, of a statement to how it ends.  *)

\* A state: cells, tables, closures, what p was given, whether there was an error.
\* An environment: its variables and, in a vararg function, the extra arguments.
VarsNamed(env, name) == {i \in DOMAIN env.vars : env.vars[i].name = name}
CellOf(env, name) == env.vars[CHOOSE i \in VarsNamed(env, name) : \A j \in VarsNamed(env, name) : j <= i].cell
Declare(s, env, names, vs) ==
    [s |-> [s EXCEPT !.cells = @ \o [i \in DOMAIN names |-> IF i <= Len(vs) THEN vs[i] ELSE NilV]],
     env |-> [env EXCEPT !.vars = @ \o [i \in DOMAIN names |-> [name |-> names[i], cell |-> Len(s.cells) + i]]]]
Wrong(s) == [s EXCEPT !.err = TRUE]
Only(s, v) == [s |-> s, vs |-> <<v>>]
GlobalTable == Ref("table", 1)
IndexValue(s, t, key) ==
    IF t[1] # "table" THEN Only(Wrong(s), NilV)
    ELSE Only(s, IF key \in DOMAIN s.tables[t[2]] THEN s.tables[t[2]][key] ELSE NilV)
SetIndex(s, t, key, v) ==
    IF s.err \/ t[1] # "table" \/ key = NilV THEN Wrong(s) ELSE [s EXCEPT !.tables[t[2]] = (key :> v) @@ @]

Operation(op, a, b) ==
    LET ints == a[1] = "int" /\ b[1] = "int"
        joins == {a[1], b[1]} \subseteq {"int", "str"}
    IN CASE op = "==" -> [ok |-> TRUE, v |-> Bool(a = b)]
         [] op = "~=" -> [ok |-> TRUE, v |-> Bool(a # b)]
         [] op = ".." /\ joins -> [ok |-> TRUE, v |-> Str(Pieces(a) \o Pieces(b))]
         [] op \in ArithOps /\ ints /\ ~ (op = "//" /\ b[2] = 0) -> [ok |-> TRUE, v |-> IntV(Arith(op, a[2], b[2]))]
         [] op = "<" /\ ints -> [ok |-> TRUE, v |-> Bool(a[2] < b[2])]
         [] op = ">" /\ ints -> [ok |-> TRUE, v |-> Bool(a[2] > b[2])]
         [] op = "<=" /\ ints -> [ok |-> TRUE, v |-> Bool(a[2] <= b[2])]
         [] op = ">=" /\ ints -> [ok |-> TRUE, v |-> Bool(a[2] >= b[2])]
         [] OTHER -> [ok |-> FALSE, v |-> NilV]

RECURSIVE Eval(_, _, _), EvalList(_, _, _), EvalTable(_, _, _, _, _), Apply(_, _, _), Exec(_, _, _), ExecFrom(_, _, _, _),
          While(_, _, _), Repeat(_, _, _), ForEach(_, _, _, _), ForIn(_, _, _, _, _), If(_, _, _), Places(_, _, _)
First(r) == IF r.vs = <<>> THEN NilV ELSE r.vs[1]
\* Two expressions, one after the other.
Both(s, env, a, b) ==
    LET x == Eval(s, env, a) y == Eval(x.s, env, b) IN [s |-> y.s, a |-> First(x), b |-> First(y)]
EvalList(s, env, es) ==
    LET x == Eval(s, env, es[1])
        rest == EvalList(x.s, env, Tail(es))
    IN IF es = <<>> THEN [s |-> s, vs |-> <<>>]
       ELSE IF Len(es) = 1 THEN x ELSE [s |-> rest.s, vs |-> <<First(x)>> \o rest.vs]
CallWith(x, args) == IF args.s.err THEN Only(args.s, NilV) ELSE Apply(args.s, x, args.vs)

\* The fields from i on; items count from n.
RECURSIVE SetItems(_, _, _, _)
SetItems(s, t, n, vs) ==
    IF vs = <<>> THEN s ELSE SetItems(SetIndex(s, t, IntV(n), vs[1]), t, n + 1, Tail(vs))
EvalTable(s, env, fields, t, n) ==
    LET f == fields[1]
        last == Len(fields) = 1
        v == Eval(s, env, f.val)
        kv == Both(s, env, f.key, f.val)
    IN IF fields = <<>> THEN Only(s, t)
       ELSE IF f.kind = "item" THEN EvalTable(SetItems(v.s, t, n, IF last THEN v.vs ELSE <<First(v)>>), env, Tail(fields), t, n + 1)
       ELSE IF f.kind = "name" THEN EvalTable(SetIndex(v.s, t, Str(<<f.name>>), First(v)), env, Tail(fields), t, n)
       ELSE EvalTable(SetIndex(kv.s, t, kv.a, kv.b), env, Tail(fields), t, n)

Eval(s, env, e) ==
    IF s.err THEN Only(s, NilV)
    ELSE CASE e.k = "const" -> Only(s, e.v)
           [] e.k = "var" -> IF VarsNamed(env, e.name) # {} THEN Only(s, s.cells[CellOf(env, e.name)])
                             ELSE IndexValue(s, GlobalTable, Str(<<e.name>>))
           [] e.k = "vararg" -> [s |-> s, vs |-> env.dots]
           [] e.k = "paren" -> LET x == Eval(s, env, e.a) IN Only(x.s, First(x))
           [] e.k = "bin" /\ e.op \in {"and", "or"} ->
                  LET x == Eval(s, env, e.a)
                      y == Eval(x.s, env, e.b)
                  IN IF x.s.err \/ IsFalse(First(x)) = (e.op = "and") THEN Only(x.s, First(x)) ELSE Only(y.s, First(y))
           [] e.k = "bin" /\ e.op \notin {"and", "or"} ->
                  LET x == Both(s, env, e.a, e.b) r == Operation(e.op, x.a, x.b)
                  IN Only(IF r.ok THEN x.s ELSE Wrong(x.s), r.v)
           [] e.k = "un" ->
                  LET x == Eval(s, env, e.a) v == First(x)
                  IN CASE e.op = "not" -> Only(x.s, Bool(IsFalse(v)))
                       [] e.op = "-" /\ v[1] = "int" -> Only(x.s, IntV(- v[2]))
                       [] e.op = "#" /\ v[1] = "table" -> Only(x.s, IntV(Border(x.s.tables[v[2]])))
                       [] OTHER -> Only(Wrong(x.s), NilV)
           [] e.k = "index" -> LET x == Both(s, env, e.a, e.key) IN IndexValue(x.s, x.a, x.b)
           [] e.k = "field" -> LET x == Eval(s, env, e.a) IN IndexValue(x.s, First(x), Str(<<e.name>>))
           [] e.k = "call" -> LET x == Eval(s, env, e.f) IN CallWith(First(x), EvalList(x.s, env, e.args))
           [] e.k = "method" ->
                  LET x == Eval(s, env, e.a)
                      f == IndexValue(x.s, First(x), Str(<<e.name>>))
                      args == EvalList(f.s, env, e.args)
                  IN CallWith(First(f), [args EXCEPT !.vs = <<First(x)>> \o @])
           [] e.k = "function" -> Only([s EXCEPT !.closures = Append(@, [f |-> e, env |-> env])],
                                       Ref("function", Len(s.closures) + 1))
           [] e.k = "table" -> EvalTable([s EXCEPT !.tables = Append(@, [x \in {} |-> NilV])], env, e.fields,
                                         Ref("table", Len(s.tables) + 1), 1)

Apply(s, f, args) ==
    LET c == s.closures[f[2]]
        n == Len(c.f.params)
        d == Declare(s, c.env, c.f.params, args)
        r == ExecFrom(d.s, [d.env EXCEPT !.dots = SubSeq(args, n + 1, Len(args))], c.f.body, 1)
    IN CASE f[1] = "function" -> [s |-> r.s, vs |-> IF r.end[1] = "return" THEN r.end[2] ELSE <<>>]
         [] f = Ref("C", "p") -> [s |-> [s EXCEPT !.trace = Append(@, [i \in DOMAIN args |-> Seen(args[i])])], vs |-> args]
         [] f = Ref("C", "upto") -> Only(s, Next1(args))
         [] OTHER -> Only(Wrong(s), NilV)
-------------------------------------------------------------------------------
Ends(s, env, end) == [s |-> s, env |-> env, end |-> end]
Goes(s, env) == Ends(s, env, <<"next">>)
InBlock(r, env) == [r EXCEPT !.env = env]
AfterLoop(r, env) == Ends(r.s, env, IF r.end[1] = "break" THEN <<"next">> ELSE r.end)
Continues(r) == ~ r.s.err /\ r.end[1] = "next"

\* Where the values of an assignment go.
Places(s, env, targets) ==
    LET e == targets[1]
        x == IF e.k = "index" THEN Both(s, env, e.a, e.key)
             ELSE IF e.k = "field" THEN LET t == Eval(s, env, e.a) IN [s |-> t.s, a |-> First(t), b |-> Str(<<e.name>>)]
             ELSE [s |-> s, a |-> GlobalTable, b |-> Str(<<e.name>>)]
        cell == IF e.k = "var" /\ VarsNamed(env, e.name) # {} THEN CellOf(env, e.name) ELSE 0
        rest == Places(x.s, env, Tail(targets))
    IN IF targets = <<>> THEN [s |-> s, at |-> <<>>]
       ELSE [s |-> rest.s, at |-> <<[cell |-> cell, t |-> x.a, key |-> x.b]>> \o rest.at]
RECURSIVE Store(_, _, _)
Store(s, at, vs) ==
    LET v == IF Len(at) <= Len(vs) THEN vs[Len(at)] ELSE NilV
        place == Last(at)
    IN IF at = <<>> \/ s.err THEN s
       ELSE Store(IF place.cell # 0 THEN [s EXCEPT !.cells[place.cell] = v] ELSE SetIndex(s, place.t, place.key, v),
                  Front(at), vs)
Assign(s, env, targets, exps) ==
    LET places == Places(s, env, targets)
        x == EvalList(places.s, env, exps)
    IN Goes(Store(x.s, places.at, x.vs), env)

While(s, env, st) ==
    LET c == Eval(s, env, st.cond)
        b == ExecFrom(c.s, env, st.body, 1)
    IN IF c.s.err \/ IsFalse(First(c)) THEN Goes(c.s, env)
       ELSE IF Continues(b) THEN While(b.s, env, st) ELSE AfterLoop(b, env)
Repeat(s, env, st) ==
    LET b == ExecFrom(s, env, st.body, 1)
        c == Eval(b.s, b.env, st.cond)
    IN IF ~ Continues(b) THEN AfterLoop(b, env)
       ELSE IF ~ c.s.err /\ IsFalse(First(c)) THEN Repeat(c.s, env, st) ELSE Goes(c.s, env)
\* The loop variable is a new one each time round.
ForEach(s, env, st, range) ==
    LET d == Declare(s, env, <<st.name>>, <<IntV(range[1])>>)
        b == ExecFrom(d.s, d.env, st.body, 1)
        more == IF range[3] >= 0 THEN range[1] <= range[2] ELSE range[1] >= range[2]
    IN IF ~ more THEN Goes(s, env)
       ELSE IF Continues(b) THEN ForEach(b.s, env, st, <<range[1] + range[3], range[2], range[3]>>) ELSE AfterLoop(b, env)
ForIn(s, env, st, gen, var) ==
    LET r == Apply(s, gen[1], <<gen[2], var>>)
        d == Declare(r.s, env, st.names, r.vs)
        b == ExecFrom(d.s, d.env, st.body, 1)
    IN IF r.s.err \/ First(r) = NilV THEN Goes(r.s, env)
       ELSE IF Continues(b) THEN ForIn(b.s, env, st, gen, First(r)) ELSE AfterLoop(b, env)
If(s, env, st) ==
    LET c == Eval(s, env, st.arms[1].cond)
    IN IF st.arms = <<>> THEN ExecFrom(s, env, st.else, 1)
       ELSE IF c.s.err THEN Goes(c.s, env)
       ELSE IF IsFalse(First(c)) THEN If(c.s, env, [st EXCEPT !.arms = Tail(@)])
       ELSE ExecFrom(c.s, env, st.arms[1].body, 1)

AtLeast(vs, n) == vs \o [i \in 1..n |-> NilV]
Exec(s, env, st) ==
    LET x == EvalList(s, env, st.exps)
        loc == Declare(x.s, env, st.names, x.vs)
        f == Eval(loc.s, loc.env, st.f)
    IN CASE st.k = "local" -> Goes(loc.s, loc.env)
         [] st.k = "localfunction" ->
                LET d == Declare(s, env, <<st.name>>, <<>>) g == Eval(d.s, d.env, st.f)
                IN Goes([g.s EXCEPT !.cells[Len(s.cells) + 1] = g.vs[1]], d.env)
         [] st.k = "assign" -> Assign(s, env, st.targets, st.exps)
         [] st.k = "function" -> Assign(s, env, <<st.target>>, <<st.f>>)
         [] st.k = "methodfunction" -> Assign(s, env, <<[k |-> "field", a |-> st.target, name |-> st.name]>>,
                                              <<[st.f EXCEPT !.params = <<"self">> \o @]>>)
         [] st.k = "callstat" -> Goes(Eval(s, env, st.e).s, env)
         [] st.k = "do" -> InBlock(ExecFrom(s, env, st.body, 1), env)
         [] st.k = "while" -> While(s, env, st)
         [] st.k = "repeat" -> Repeat(s, env, st)
         [] st.k = "if" -> InBlock(If(s, env, st), env)
         [] st.k = "fornum" ->
                LET n == IF Len(x.vs) = 2 THEN Append(x.vs, IntV(1)) ELSE x.vs
                IN IF x.s.err \/ \E i \in DOMAIN n : n[i][1] # "int" THEN Goes(Wrong(x.s), env)
                   ELSE ForEach(x.s, env, st, [i \in DOMAIN n |-> n[i][2]])
         [] st.k = "forin" -> IF x.s.err THEN Goes(x.s, env)
                              ELSE LET gen == AtLeast(x.vs, 3) IN ForIn(x.s, env, st, gen, gen[3])
         [] st.k = "return" -> Ends(x.s, env, <<"return", x.vs>>)
         [] st.k = "break" -> Ends(s, env, <<"break">>)
         [] st.k = "goto" -> Ends(s, env, <<"goto", st.name>>)
         [] OTHER -> Goes(s, env)

\* A goto that ends a statement goes on behind the label, if the block has it; a jump back leaves
\* the scopes of the locals declared since.
ExecFrom(s, env, body, i) ==
    LET r == Exec(s, env, body[i])
        here == r.end[1] = "goto" /\ LabelsAt(body, r.end[2]) # {}
        j == LabelIn(body, r.end[2])
        vars == Len(env.vars) - (Declared(body, i - 1) - Declared(body, j))
    IN IF s.err \/ i > Len(body) THEN Goes(s, env)
       ELSE IF r.s.err THEN r
       ELSE IF r.end[1] = "next" THEN ExecFrom(r.s, r.env, body, i + 1)
       ELSE IF ~ here THEN r
       ELSE ExecFrom(r.s, IF j < i THEN [env EXCEPT !.vars = SubSeq(@, 1, vars)] ELSE env, body, j + 1)

\* What a program does: what p is given, in order, how it ends and what it returns.
Meaning(body, args) ==
    LET r == ExecFrom([cells |-> <<>>, tables |-> <<Globals>>, closures |-> <<>>, trace |-> <<>>, err |-> FALSE],
                      [vars |-> <<>>, dots |-> args], body, 1)
    IN [trace |-> r.s.trace, out |-> IF r.s.err THEN "error" ELSE "done",
        ret |-> IF ~ r.s.err /\ r.end[1] = "return" THEN [i \in DOMAIN r.end[2] |-> Seen(r.end[2][i])] ELSE <<>>]
-------------------------------------------------------------------------------
(* The programs.                                                           *)

Const(tok, v) == [k |-> "const", tok |-> tok, v |-> v]
Num(n) == Const(ToString(n), IntV(n))
Var(name) == [k |-> "var", name |-> name]
Dots == [k |-> "vararg"]
Bin(op, a, b) == [k |-> "bin", op |-> op, a |-> a, b |-> b]
Un(op, a) == [k |-> "un", op |-> op, a |-> a]
FieldOf(a, name) == [k |-> "field", a |-> a, name |-> name]
IndexOf(a, key) == [k |-> "index", a |-> a, key |-> key]
CallOf(f, args) == [k |-> "call", f |-> f, args |-> args]
FunctionOf(params, vararg, body) == [k |-> "function", params |-> params, vararg |-> vararg, body |-> body]
TableOf(fields) == [k |-> "table", fields |-> fields]
Item(e) == [kind |-> "item", val |-> e]

LocalOf(names, exps) == [k |-> "local", names |-> names, exps |-> exps]
AssignOf(targets, exps) == [k |-> "assign", targets |-> targets, exps |-> exps]
P(args) == [k |-> "callstat", e |-> CallOf(Var("p"), args)]
ReturnOf(exps) == [k |-> "return", exps |-> exps]
BreakOf == [k |-> "break"]
GotoOf(name) == [k |-> "goto", name |-> name]
LabelOf(name) == [k |-> "label", name |-> name]
DoOf(body) == [k |-> "do", body |-> body]
WhileOf(cond, body) == [k |-> "while", cond |-> cond, body |-> body]
RepeatOf(body, cond) == [k |-> "repeat", body |-> body, cond |-> cond]
ForOf(name, exps, body) == [k |-> "fornum", name |-> name, exps |-> exps, body |-> body]
ForInOf(names, exps, body) == [k |-> "forin", names |-> names, exps |-> exps, body |-> body]
IfOf(cond, body, else) == [k |-> "if", arms |-> <<[cond |-> cond, body |-> body]>>, else |-> else]
LocalFunctionOf(name, f) == [k |-> "localfunction", name |-> name, f |-> f]
Add1(name) == AssignOf(<<Var(name)>>, <<Bin("+", Var(name), Num(1))>>)
Dotted == LocalOf(<<"a", "b">>, <<Dots>>)
-------------------------------------------------------------------------------
(* Expressions, in every place that wants something else of them.          *)

Leaf(l) ==
    CASE l = "nil" -> Const("nil", NilV)
      [] l = "true" -> Const("true", True)
      [] l = "s" -> Const("'s'", Str(<<"s">>))
      [] l \in {"a", "b", "g"} -> Var(l)
      [] l = "p" -> CallOf(Var("p"), <<Var("a")>>)
      [] l = "pb" -> CallOf(Var("p"), <<Var("b"), Var("a")>>)
      [] l = "..." -> Dots
      [] l = "(p)" -> [k |-> "paren", a |-> CallOf(Var("p"), <<Var("b"), Var("a")>>)]
      [] OTHER -> Const(l, IntV(Numerals[l]))
LeafList(ls) == [i \in DOMAIN ls |-> Leaf(ls[i])]
Under(c, i, e) == IF i \in c.under THEN Un(c.un, e) ELSE e
Tree(c) ==
    LET l(i) == Under(c, i, Leaf(c.leaves[i]))
    IN IF c.shape = "left" THEN Under(c, 5, Bin(c.ops[2], Under(c, 4, Bin(c.ops[1], l(1), l(2))), l(3)))
       ELSE Under(c, 5, Bin(c.ops[1], l(1), Under(c, 4, Bin(c.ops[2], l(2), l(3)))))
InPlace(place, e) ==
    CASE place = "return" -> <<ReturnOf(<<e, e>>)>>
      [] place = "local" -> <<LocalOf(<<"c", "d">>, <<e>>), P(<<Var("c"), Var("d")>>)>>
      [] place = "assign" -> <<AssignOf(<<Var("b")>>, <<e>>), P(<<Var("b")>>)>>
      [] place = "global" -> <<AssignOf(<<Var("g")>>, <<e>>), P(<<Var("g"), e>>)>>
      [] place = "if" -> <<IfOf(e, <<P(<<Num(1)>>)>>, <<P(<<Num(2)>>)>>), P(<<Num(3)>>)>>
      [] place = "while" -> <<WhileOf(e, <<P(<<Var("b")>>), BreakOf>>), P(<<Var("a")>>)>>
      [] place = "until" -> <<RepeatOf(<<P(<<Var("b")>>), IfOf(Var("g"), <<BreakOf>>, <<>>),
                                         AssignOf(<<Var("g")>>, <<Num(1)>>)>>, e)>>
      [] place = "ifs" -> <<[k |-> "if", arms |-> <<[cond |-> Var("b"), body |-> <<P(<<Num(1)>>)>>],
                                                    [cond |-> e, body |-> <<P(<<Num(2)>>)>>]>>,
                             else |-> <<P(<<Num(3)>>)>>]>>
      [] place = "item" -> <<LocalOf(<<"c">>, <<TableOf(<<Item(e), [kind |-> "key", key |-> e, val |-> e]>>)>>),
                             P(<<IndexOf(Var("c"), Num(1)), IndexOf(Var("c"), e)>>)>>
ExpProgram(c) == <<Dotted>> \o InPlace(c.place, Tree(c))
Leaves3(S) == [1..3 -> S]
OneNil == {<<IntV(1), NilV>>}
ExpCalls ==
    [fn : {"exp"}, place : {"return", "if", "until"}, shape : {"left", "right"}, ops : [1..2 -> {"and", "or", "=="}],
     un : {"not"}, under : {{}, {4}}, leaves : Leaves3({"a", "p", "nil"}), args : OneNil]
    \cup [fn : {"exp"}, place : {"local", "global", "ifs"}, shape : {"left", "right"}, ops : [1..2 -> {"and", "or"}],
          un : {"not"}, under : {{}, {1}, {3}, {5}}, leaves : Leaves3({"a", "pb", "1"}), args : OneNil]
    \cup [fn : {"exp"}, place : {"assign", "while", "item"}, shape : {"left", "right"}, ops : [1..2 -> {"and", "or", "<"}],
          un : {"not"}, under : {{}, {1}, {3}, {5}}, leaves : Leaves3({"a", "pb"}), args : OneNil]
    \cup [fn : {"exp"}, place : {"return"}, shape : {"left", "right"}, ops : [1..2 -> {"+", "-", "//", "..", "<=", "~="}],
          un : {"-"}, under : {{}, {1}, {4}}, leaves : Leaves3({"2", "a"}), args : {<<IntV(3)>>}]
-------------------------------------------------------------------------------
(* Loops: what is done each time round, and how the loop is left.          *)

Stored(f) == AssignOf(<<IndexOf(Var("t"), Bin("+", Un("#", Var("t")), Num(1)))>>, <<f>>)
Counter(x) == Stored(FunctionOf(<<>>, FALSE, <<Add1(x), ReturnOf(<<Var(x)>>)>>))
AtTwo(then) == IfOf(Bin("==", Var("i"), Num(2)), <<then>>, <<>>)
LoopItem(item) ==
    CASE item = "p" -> <<P(<<Var("i")>>)>>
      [] item = "capture" -> <<LocalOf(<<"x">>, <<Var("i")>>), Counter("x")>>
      [] item = "captureloop" -> <<Counter("i")>>
      [] item = "break" -> <<AtTwo(BreakOf)>>
      [] item = "continue" -> <<AtTwo(GotoOf("continue"))>>
      [] item = "return" -> <<AtTwo(ReturnOf(<<Var("i"), Var("x")>>))>>
      [] item = "nested" -> <<ForOf("j", <<Num(1), Num(2)>>,
                                    <<Counter("j"), IfOf(Bin("==", Var("j"), Var("i")), <<GotoOf("continue")>>, <<>>),
                                      P(<<Var("j")>>)>>)>>
      [] item = "block" -> <<DoOf(<<LocalOf(<<"y">>, <<Var("i")>>), Counter("y"), AtTwo(BreakOf)>>)>>
      [] item = "choose" -> <<[k |-> "if", arms |-> <<[cond |-> Bin("==", Var("i"), Num(1)), body |-> <<GotoOf("continue")>>],
                                                      [cond |-> Bin("==", Var("i"), Num(2)), body |-> <<P(<<Num(2)>>)>>]>>,
                                else |-> <<P(<<Num(3)>>), BreakOf>>]>>
      [] item = "again" -> <<IfOf(Un("not", Var("g")), <<AssignOf(<<Var("g")>>, <<Num(1)>>), GotoOf("again")>>, <<>>)>>
Round(c) == <<LabelOf("again")>> \o FlattenSeq([n \in DOMAIN c.items |-> LoopItem(c.items[n])]) \o <<LabelOf("continue")>>
LoopOf(c) ==
    LET body == Round(c) counted == <<Add1("i")>> \o body more == Bin("<", Var("i"), Num(3)) IN
    CASE c.loop = "while" -> <<WhileOf(more, counted)>>
      [] c.loop = "repeat" -> <<RepeatOf(counted, Un("not", more))>>
      [] c.loop = "until local" -> <<RepeatOf(<<Add1("i"), LocalOf(<<"x">>, <<Var("i")>>)>> \o SubSeq(body, 1, Len(body) - 1),
                                              Bin("==", Var("x"), Num(3)))>>
      [] c.loop = "up" -> <<ForOf("i", <<Num(1), Num(3)>>, body)>>
      [] c.loop = "down" -> <<ForOf("i", <<Num(3), Num(1), Un("-", Num(1))>>, body)>>
      [] c.loop = "in" -> <<ForInOf(<<"i">>, <<Var("upto"), Num(3), Num(0)>>, body)>>
      [] c.loop = "goto" -> <<LabelOf("top"), DoOf(counted), IfOf(more, <<GotoOf("top")>>, <<>>)>>
CallStored(n) == LET f == IndexOf(Var("t"), Num(n)) IN IfOf(f, <<P(<<CallOf(f, <<>>)>>), P(<<CallOf(f, <<>>)>>)>>, <<>>)
LoopProgram(c) == <<LocalOf(<<"t", "i">>, <<TableOf(<<>>), Num(0)>>)>> \o LoopOf(c)
                  \o <<CallStored(1), CallStored(2), CallStored(3), P(<<Var("i")>>)>>
LoopItems == {"p", "capture", "captureloop", "break", "continue", "return", "nested", "block", "choose", "again"}
LoopCalls == [fn : {"loop"}, loop : {"while", "until local", "up", "goto"},
              items : UNION {[1..n -> LoopItems] : n \in 1..2}, args : {<<>>}]
             \cup [fn : {"loop"}, loop : {"repeat", "down", "in"}, items : [1..1 -> LoopItems], args : {<<>>}]
             \cup [fn : {"loop"}, loop : {"repeat"}, items : {"again"} \X {"capture", "nested"} \X LoopItems, args : {<<>>}]
-------------------------------------------------------------------------------
(* Assignments to variables that are locals or upvalues.                   *)

Target(l) == CASE l \in {"a", "b", "g"} -> Var(l) [] l = "t" -> Var("t") [] l = "t.x" -> FieldOf(Var("t"), "x")
               [] l = "t[a]" -> IndexOf(Var("t"), Var("a"))
TargetKinds == {"a", "b", "t", "t.x", "t[a]"}
Show == <<P(<<Var("a"), Var("b"), Var("t")>>), P(<<FieldOf(Var("u"), "x"), IndexOf(Var("u"), Num(1)), IndexOf(Var("u"), Num(2))>>)>>
AssignProgram(c) ==
    LET assign == <<AssignOf([i \in DOMAIN c.targets |-> Target(c.targets[i])], LeafList(c.exps))>> IN
    <<Dotted, LocalOf(<<"t">>, <<TableOf(<<>>)>>), LocalOf(<<"u">>, <<Var("t")>>)>>
    \o (IF c.inner THEN <<LocalFunctionOf("f", FunctionOf(<<>>, TRUE, assign)), [k |-> "callstat", e |-> CallOf(Var("f"), <<Num(1)>>)]>>
        ELSE assign)
    \o Show
Sources == {"b", "2", "pb", "...", "(p)"}
AssignCalls ==
    [fn : {"assign"}, targets : {s \in [1..2 -> TargetKinds] : s[1] # s[2]} \cup {s \in [1..3 -> TargetKinds] : IsInjective(s)},
     exps : UNION {[1..n -> Sources] : n \in 1..2}, inner : BOOLEAN, args : {<<IntV(1), IntV(3)>>}]
-------------------------------------------------------------------------------
(* Constructors, with more items than are stored at once.                  *)

FieldItem(item) ==
    CASE item = "name" -> [kind |-> "name", name |-> "x", val |-> Var("a")]
      [] item = "key" -> [kind |-> "key", key |-> Bin("..", Var("a"), Var("b")), val |-> CallOf(Var("p"), <<Var("b")>>)]
      [] OTHER -> Item(Leaf(item))
ConstructorProgram(c) ==
    <<Dotted, LocalOf(<<"c">>, <<TableOf([i \in DOMAIN c.items |-> FieldItem(c.items[i])])>>),
      P([i \in 1..5 |-> IndexOf(Var("c"), Num(i))] \o <<FieldOf(Var("c"), "x"), IndexOf(Var("c"), Bin("..", Var("a"), Var("b")))>>)>>
ConstructorCalls == [fn : {"constructor"}, items : UNION {[1..n -> {"a", "pb", "...", "name", "key"}] : n \in 0..4},
                     args : {<<IntV(1), IntV(2)>>}]
-------------------------------------------------------------------------------
(* Functions: parameters, variable arguments, calls in every position.     *)

BodyOf(kind) ==
    CASE kind = "params" -> <<ReturnOf(<<Var("a"), Var("b")>>)>>
      [] kind = "dots" -> <<ReturnOf(<<Dots>>)>>
      [] kind = "both" -> <<ReturnOf(<<Dots, Var("a"), Dots>>)>>
      [] kind = "tail" -> <<AssignOf(<<Var("a")>>, <<Num(1)>>), ReturnOf(<<CallOf(Var("p"), <<Var("a"), Dots>>)>>)>>
      [] kind = "tail local" -> <<LocalOf(<<"f">>, <<FunctionOf(<<"x">>, TRUE, <<P(<<Var("a"), Var("x")>>), ReturnOf(<<Dots, Var("a")>>)>>)>>),
                                  ReturnOf(<<CallOf(Var("f"), <<Dots>>)>>)>>
      [] kind = "nothing" -> <<P(<<Dots>>)>>
      [] kind = "closure" -> <<ReturnOf(<<FunctionOf(<<>>, FALSE, <<Add1("a"), ReturnOf(<<Var("a")>>)>>), Dots>>)>>
      [] kind = "deep" -> <<IfOf(Bin("<", Num(0), Var("a")), <<ReturnOf(<<CallOf(Var("f"), <<Bin("-", Var("a"), Num(1)), Dots>>)>>)>>, <<>>)>>
      [] kind = "recursive" -> <<IfOf(Var("a"), <<ReturnOf(<<CallOf(Var("f"), <<Var("b"), Dots>>)>>)>>, <<>>), ReturnOf(<<Num(2), Dots>>)>>
Used(use, e) ==
    CASE use = "args" -> <<P(<<e, e>>)>>
      [] use = "return" -> <<ReturnOf(<<e>>)>>
      [] use = "returns" -> <<ReturnOf(<<Num(1), e>>)>>
      [] use = "called" -> <<LocalOf(<<"x">>, <<e>>), LocalOf(<<"y">>, <<e>>),
                             P(<<CallOf(Var("x"), <<>>), CallOf(Var("y"), <<>>), CallOf(Var("x"), <<>>)>>)>>
      [] use = "local" -> <<LocalOf(<<"x", "y", "z">>, <<Num(1), e>>), P(<<Var("x"), Var("y"), Var("z")>>)>>
      [] use = "items" -> <<LocalOf(<<"c">>, <<TableOf(<<Item(e), Item(e)>>)>>),
                            P(<<IndexOf(Var("c"), Num(1)), IndexOf(Var("c"), Num(2)), IndexOf(Var("c"), Num(3))>>)>>
      [] use = "paren" -> <<ReturnOf(<<[k |-> "paren", a |-> e]>>)>>
      [] use = "operand" -> <<P(<<Bin("..", e, Num(1)), Un("not", e)>>)>>
      [] use = "method" -> <<LocalOf(<<"c">>, <<TableOf(<<[kind |-> "name", name |-> "x", val |-> Num(2)]>>)>>),
                             [k |-> "methodfunction", target |-> Var("c"), name |-> "f",
                              f |-> FunctionOf(<<"a">>, TRUE, <<ReturnOf(<<FieldOf(Var("self"), "x"), Var("a"), Dots>>)>>)],
                             P(<<[k |-> "method", a |-> Var("c"), name |-> "f", args |-> <<Num(1), e>>]>>)>>
FunctionProgram(c) ==
    <<LocalFunctionOf("f", FunctionOf(SubSeq(<<"a", "b">>, 1, c.params), c.vararg, BodyOf(c.body))), Dotted>>
    \o Used(c.use, CallOf(Var("f"), LeafList(c.exps)))
FunctionCalls ==
    [fn : {"function"}, params : 0..2, vararg : BOOLEAN, body : {"params", "dots", "both", "tail", "tail local", "nothing", "closure", "recursive"},
     use : {"args", "return", "returns", "called", "local", "items", "paren", "operand", "method"},
     exps : {<<>>, <<"1">>, <<"...">>, <<"pb">>, <<"1", "pb">>, <<"1", "2", "a">>}, args : {<<IntV(1), IntV(3)>>}]
    \cup [fn : {"function"}, params : {1}, vararg : BOOLEAN, body : {"deep"}, use : {"args", "return"}, exps : {<<"a">>},
          args : {<<IntV(30)>>}]
-------------------------------------------------------------------------------
(* Blocks with labels, gotos and locals in every order.                    *)

Guarded(st) == <<Add1("n"), IfOf(Bin("<", Num(3), Var("n")), <<ReturnOf(<<Var("n")>>)>>, <<>>), st>>
ScopeItem(item) ==
    CASE item = "label" -> <<LabelOf("x")>>
      [] item = "goto" -> Guarded(GotoOf("x"))
      [] item = "inner goto" -> <<DoOf(Guarded(GotoOf("x")))>>
      [] item = "inner label" -> <<DoOf(<<LabelOf("x"), P(<<Num(1)>>)>>)>>
      [] item = "local" -> <<LocalOf(<<"y">>, <<Var("n")>>), AssignOf(<<Var("t")>>, <<FunctionOf(<<>>, FALSE, <<Add1("y"), ReturnOf(<<Var("y")>>)>>)>>)>>
      [] item = "function" -> <<LocalFunctionOf("f", FunctionOf(<<>>, FALSE, <<GotoOf("x")>>))>>
      [] item = "call" -> <<IfOf(Var("t"), <<P(<<CallOf(Var("t"), <<>>)>>)>>, <<>>)>>
      [] item = "unset" -> <<DoOf(<<LocalOf(<<"y">>, <<Num(1)>>)>>), IfOf(Var("t"), <<LocalOf(<<"y">>, <<>>)>>, <<>>),
                             LocalOf(<<"z">>, <<>>), P(<<Var("z")>>)>>
      [] item = "variable" -> <<LocalOf(<<"y">>, <<Var("n")>>)>>
      [] item = "capture" -> <<AssignOf(<<Var("t")>>, <<FunctionOf(<<>>, FALSE, <<Add1("y"), ReturnOf(<<Var("y")>>)>>)>>)>>
      [] item = "other label" -> <<LabelOf("z")>>
      [] item = "other goto" -> Guarded(GotoOf("z"))
      [] item = "if goto" -> <<IfOf(Var("t"), Guarded(GotoOf("x")), <<>>)>>
      [] item = "empty" -> <<[k |-> "empty"]>>
      [] item = "break" -> <<IfOf(Var("t"), <<BreakOf>>, <<>>)>>
ScopeProgram(c) ==
    LET body == FlattenSeq([i \in DOMAIN c.items |-> ScopeItem(c.items[i])])
        block == CASE c.block = "main" -> body
                   [] c.block = "while" -> <<WhileOf(Bin("<", Var("n"), Num(2)), <<Add1("n")>> \o body)>>
                   [] c.block = "repeat" -> <<RepeatOf(body, Const("true", True))>>
    IN <<LocalOf(<<"n", "t">>, <<Num(0)>>)>> \o block
       \o (IF c.block = "main" THEN <<>> ELSE <<IfOf(Var("t"), <<P(<<CallOf(Var("t"), <<>>)>>)>>, <<>>)>>)
ScopeItems == {"label", "goto", "inner goto", "inner label", "local", "function", "call", "empty", "unset", "break"}
Rescoped == <<"label", "variable">>
ScopeCalls == [fn : {"scope"}, block : {"main", "repeat"}, items : UNION {[1..n -> ScopeItems] : n \in 1..3}, args : {<<>>}]
              \cup [fn : {"scope"}, block : {"while"}, items : [1..2 -> ScopeItems], args : {<<>>}]
              \cup [fn : {"scope"}, block : {"main"},
                    items : [1..4 -> {"label", "goto", "inner goto", "local"}], args : {<<>>}]
              \cup [fn : {"scope"}, block : {"main"}, args : {<<>>},
                    items : {Rescoped \o s : s \in SetToSeqs({"other label", "other goto", "if goto", "capture", "call"})}]
-------------------------------------------------------------------------------
ProgramCalls == ExpCalls \cup LoopCalls \cup AssignCalls \cup ConstructorCalls \cup FunctionCalls \cup ScopeCalls
Program(c) ==
    CASE c.fn = "exp" -> ExpProgram(c)
      [] c.fn = "loop" -> LoopProgram(c)
      [] c.fn = "assign" -> AssignProgram(c)
      [] c.fn = "constructor" -> ConstructorProgram(c)
      [] c.fn = "function" -> FunctionProgram(c)
      [] c.fn = "scope" -> ScopeProgram(c)

\* A program is refused exactly if it is wrong; otherwise the machine does what it means.
Behaviour(proto, args) == LET m == Run(Start(proto, args)) IN [trace |-> m.trace, out |-> m.out, ret |-> m.ret]
SameBehaviour(r, c, body) ==
    IF Valid(body, <<>>, FALSE, FALSE) THEN r.err = "" /\ Behaviour(r.proto, c.args) = Meaning(body, c.args)
    ELSE r.err \notin {"", "assertion", "syntax"}
CompiledRight(c) == LET body == Program(c) IN SameBehaviour(Compile(BlockTokens(body) \o <<"EOS">>), c, body)
===============================================================================
