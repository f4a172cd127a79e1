--------------------------------- MODULE MCLua ---------------------------------
(***************************************************************************)
(* The parts of the Lua interpreter: a run is a run of one of them, chosen *)
(* by `part`, while the others stay as they begin, or is one call of a     *)
(* library function.  Each part's own module says what it promises.        *)
(***************************************************************************)
EXTENDS LuaString, Integers, Sequences, SequencesExt, FiniteSets, FiniteSetsExt, TLC

CONSTANTS o1, o2, o3, uv1, uv2, Main, Nil, mainthread, c1, c2

VARIABLES part, called, call,
    g, kind, stack, pc, ops, fulls, lost, overtaken,
    table, content, walk, sets,
    thread, cstack, current, handler

gcVars == <<g, kind, stack, pc, ops, fulls, lost, overtaken>>
tabVars == <<table, content, walk, sets>>
doVars == <<thread, cstack, current, handler>>
-------------------------------------------------------------------------------
(* What the libraries are asked: the inputs on which each is compared with *)
(* its reference, on both sides of every boundary.                         *)

Lists(S, n) == UNION {[1..k -> S] : k \in 0..n}
-------------------------------------------------------------------------------
Tables == INSTANCE LuaTableLib WITH MAXINTEGER <- 3, RANLIMIT <- 4, IMBALANCE <- 1

\* Orders that are none, and an order with long intervals, for which pivots are random.
Relations(S) == [S \X S -> BOOLEAN]
Less(S) == [p \in S \X S |-> p[1] < p[2]]
TableCalls ==
    [fn : {"sort"}, lt : Relations({1, 2}), a : Lists({1, 2}, 5), rnd : {1}]
    \cup [fn : {"sort"}, lt : {Less(1..3)}, a : Lists(1..3, 6), rnd : {1, 2}]
    \cup [fn : {"sort"}, lt : Relations(1..3), a : Lists(1..3, 3), rnd : {0}]
    \cup [fn : {"list"}, a : Lists({"a", "b"}, 3), pos : 0..5]
    \cup [fn : {"move"}, f : Tables!Ints, e : Tables!Ints, t : Tables!Ints, other : BOOLEAN]
    \cup [fn : {"range"}, f : Tables!Ints, e : Tables!Ints]
-------------------------------------------------------------------------------
Patterns == INSTANCE LuaPattern WITH Classes <- [c \in {"a"} |-> {"a", "b"}],
                                     Upper <- [c \in {"A"} |-> "a"],
                                     MAXCCALLS <- 20, LUA_MAXCAPTURES <- 4

\* The items a pattern is put together from: the text of each and the characters it stands for.
AB == {"a", "b"}
Single(t, S) == [text |-> t, set |-> S]
Plain == {Single(<<"a">>, {"a"}), Single(<<".">>, AB \cup {"]"})}
Sets == {Single(<<"[", "^", "a", "]">>, {"b", "]"}), Single(<<"[", "a", "-", "b", "]">>, AB),
         Single(<<"[", "]", "a", "]">>, {"]", "a"}), Single(<<"%", "A">>, {"]"}),
         Single(<<"[", "%", "]", "b", "]">>, {"]", "b"})}
Repeated(S, ks) == {[kind |-> k, set |-> s.set, text |-> s.text \o (IF k = "" THEN <<>> ELSE <<k>>)] :
                       s \in S, k \in ks}
Items(S) == Repeated(S, {"", "*", "+", "-", "?"})
Other(k, t) == [kind |-> k, set |-> {}, text |-> t]
Open == Other("(", <<"(">>)
Marks == {Open, Other("()", <<"(", ")">>), Other(")", <<")">>), Other("%1", <<"%", "1">>)}
Balance == Other("balance", <<"%", "b", "a", "b">>)
Frontiers == {[kind |-> "frontier", set |-> {"a"}, text |-> <<"%", "f", "[", "a", "]">>],
              [kind |-> "frontier", set |-> {"NUL", "b", "]"}, text |-> <<"%", "f", "[", "^", "a", "]">>]}
Dollar == Other("$", <<"$">>)

NoSplitMark(p) == \A i \in DOMAIN p : p[i].kind = "(" => i = Len(p) \/ p[i + 1].kind # ")"
WithCaptures == {p \in {<<Open, x, y, z>> : x \in Items(Plain),
                                            y, z \in Repeated(Plain, {"*", "-"}) \cup Marks} : NoSplitMark(p)}
Simple == {<<x>> : x \in Items(Plain \cup Sets)}
          \cup {<<x, y>> : x, y \in Items(Plain) \cup {Balance} \cup Frontiers}
PatternCalls ==
    [fn : {"match"}, items : WithCaptures, src : Lists(AB, 3)]
    \cup [fn : {"match"}, items : Simple, src : Lists({"a", "b", "]"}, 3)]
    \cup [fn : {"match"}, items : {Append(p, Dollar) : p \in Simple}, src : Lists(AB, 2)]
    \cup [fn : {"find"}, src : Lists(AB, 3), pat : Lists(AB, 2), init : -4..5]
    \cup [fn : {"sub"}, src : Lists(AB, 3), i : -4..4, j : -4..4]
-------------------------------------------------------------------------------
Pack == INSTANCE LuaPack WITH NB <- 2, SZINT <- 2, MAXINTSIZE <- 4, MAXALIGN <- 2, FloatSize <- 2,
                              NativeLittle <- TRUE

\* Options with their values, and what sets the byte order and the alignment around them.
Opt(c, n) == [c |-> c, n |-> n]
Packed ==
    {<<Opt("b", -1), n, 0>> : n \in {-2, -1, 2}} \cup {<<Opt("B", -1), n, 0>> : n \in {-1, 3, 4}}
    \cup {<<Opt(c, s), n, 0>> : c \in {"i", "I"}, s \in {1, 2, 3}, n \in {-8, -1, 5}}
    \cup {<<Opt("d", -1), <<1, 2>>, 0>>}
    \cup {<<Opt("c", 0), v, 0>> : v \in {<<>>, <<1>>}} \cup {<<Opt("i", 0), 1, 0>>}
    \cup {<<Opt("c", 3), v, 3>> : v \in {<<0>>, <<1, 2, 3>>, <<1, 2, 3, 3>>}}
    \cup {<<Opt("s", s), v, 0>> : s \in {1, 3}, v \in {<<>>, <<1, 2, 3, 1, 1>>}}
    \cup {<<Opt("z", -1), v, 0>> : v \in {<<1>>, <<1, 0>>}}
Layouts == {<<>>, <<Opt("!", 4)>>, <<Opt("!", 2), Opt(">", -1)>>,
            <<Opt("x", -1), Opt("!", -1), Opt("X", -1), Opt("I", 2)>>, <<Opt("x", -1), Opt("!", 3)>>}
PackCalls ==
    {[fn |-> "pack", fmt |-> a \o <<x[1]>> \o b \o <<y[1]>> \o c,
      args |-> <<x[2], y[2]>>, char |-> <<x[3], y[3]>>] :
        x, y \in Packed, a \in Layouts, b \in {<<>>, <<Opt("X", -1), Opt("i", 4)>>, <<Opt("=", -1)>>},
        c \in {<<>>, <<Opt("X", -1), Opt("j", -1)>>}}
    \cup [fn : {"any"}, option : {Opt(c, n) : c \in {"i", "I"}, n \in 1..4}, data : Lists(0..3, 4)]
-------------------------------------------------------------------------------
Numbers == INSTANCE LuaNumber WITH MAXINTEGER <- 15, LUA_NBITS <- 4

Integral == Numbers!MININTEGER..15
AnyNumber == {Numbers!Integer(i) : i \in Integral} \cup {Numbers!Flt(h) : h \in Numbers!Floats}
NumberCalls ==
    [fn : {"compare"}, a : AnyNumber \cup {Numbers!NaN}, b : AnyNumber \cup {Numbers!NaN}]
    \cup [fn : {"arith"}, a : Integral, b : Integral]
    \cup [fn : {"for"}, init : {-16, -15, -1, 0, 2, 15}, limit : AnyNumber, step : {-16, -3, -1, 1, 2, 15}]
    \cup [fn : {"numeral"}, digits : Lists({0, 1, 4, 5, 6, 9}, 3), neg : BOOLEAN]
    \cup [fn : {"size"}, x : 0..2000]
    \cup [fn : {"bits"}, r : Integral, i : -15..15]
-------------------------------------------------------------------------------
\* Names, numerals and literals of the programs; a table is stored two items at a time.
ProgramNames == {"a", "b", "c", "d", "f", "g", "t", "p", "upto", "self", "x", "y", "z", "i", "j", "n", "u"}
ProgramNumerals == [i \in {ToString(n) : n \in 0..5} |-> CHOOSE n \in 0..5 : ToString(n) = i]
ProgramLiterals == [l \in {"'s'"} |-> "s"]
Compiler == INSTANCE LuaPrograms WITH Names <- ProgramNames, Numerals <- ProgramNumerals, Literals <- ProgramLiterals,
                                      LFIELDS_PER_FLUSH <- 2, STACKSIZE <- 60
-------------------------------------------------------------------------------
Libraries == {"tables", "patterns", "pack", "numbers", "programs"}

Asked(lib, q) ==
    \/ lib = "tables" /\ q \in TableCalls
    \/ lib = "patterns" /\ q \in PatternCalls
    \/ lib = "pack" /\ q \in PackCalls
    \/ lib = "numbers" /\ q \in NumberCalls
    \/ lib = "programs" /\ q \in Compiler!ProgramCalls

\* Each library's answer is its reference's.
Right(lib, q) ==
    /\ lib = "tables" => Tables!TableLibRight(q)
    /\ lib = "patterns" => Patterns!PatternRight(q)
    /\ lib = "pack" => Pack!PackRight(q)
    /\ lib = "numbers" => Numbers!NumberRight(q)
-------------------------------------------------------------------------------
(* Heaps a program has before its first collection.                        *)

H(kinds, refs, all, fin, hp) ==
    [kind |-> kinds @@ (Main :> "thread"), stack |-> refs, allgc |-> all, finobj |-> fin,
     heap |-> hp @@ [o \in {o1, o2, o3, Main} |-> [entries |-> << >>, mode |-> "", value |-> Nil, uv |-> Nil]],
     twups |-> <<>>,
     upv |-> [u \in {uv1, uv2} |-> [thread |-> Nil, value |-> Nil, touched |-> FALSE, refcount |-> 0, used |-> FALSE]]]
Tab(mode, entries) == [entries |-> entries, mode |-> mode, value |-> Nil, uv |-> Nil]
Holding(v) == [Tab("", << >>) EXCEPT !.value = v]
LostThread == H(o1 :> "table" @@ o2 :> "lcl" @@ o3 :> "thread", {o2}, <<o2, o3, o1>>, <<>>,
                o2 :> [Tab("", << >>) EXCEPT !.uv = uv1] @@ o3 :> Holding(o1))

Heaps == {
    \* nothing yet
    H(o1 :> "table" @@ o2 :> "udata" @@ o3 :> "string", {}, <<>>, <<>>, << >>),
    \* weak values, one of them with a finalizer and the only way to another
    H(o1 :> "table" @@ o2 :> "udata" @@ o3 :> "table", {o1}, <<o1, o3>>, <<o2>>, o1 :> Tab("v", Nil :> o2) @@ o2 :> Holding(o3)),
    \* two ephemeron tables, one the only way to the key of the other
    H(o1 :> "table" @@ o2 :> "table" @@ o3 :> "udata", {o1, o3}, <<o2, o1>>, <<o3>>,
      o1 :> Tab("k", o2 :> o2) @@ o2 :> Tab("k", o3 :> o3)),
    \* userdata in a table
    H(o1 :> "table" @@ o2 :> "udata" @@ o3 :> "string", {o1, o2}, <<o2, o1>>, <<>>, o1 :> Tab("", Nil :> o2)),
    \* a closure over a variable of a thread that nothing refers to
    [LostThread EXCEPT !.twups = <<o3>>,
                       !.upv[uv1] = [thread |-> o3, value |-> Nil, touched |-> TRUE, refcount |-> 1, used |-> TRUE]],
    \* a thread, and what it may make
    H(o1 :> "table" @@ o2 :> "lcl" @@ o3 :> "thread", {o3}, <<o3>>, <<>>, << >>),
    \* a table with weak keys and values and an empty node
    H(o1 :> "table" @@ o2 :> "udata" @@ o3 :> "string", {o1, o2}, <<o2, o1>>, <<>>, o1 :> Tab("kv", o2 :> Nil)),
    \* two to finalize, which the program has lost, and one of them holds a third
    H([o \in {o1, o2, o3} |-> "udata"], {}, <<o3>>, <<o1, o2>>, o2 :> Holding(o3))}

Objects == {o1, o2, o3}
Upvals == {uv1, uv2}
Gc == INSTANCE LuaGC WITH Object <- Objects, Upval <- Upvals, Starts <- Heaps,
                          SweepMax <- 1, MaxEntries <- 1, MaxOps <- 2, MaxFull <- 1

\* Keys that share main positions, integers in and out of the array part, an integral float.
IK(i) == [t |-> "int", n |-> i]
MCKeys == {IK(i) : i \in {-1, 1, 2, 3, 4}}
          \cup {[t |-> "flt", n |-> 2], [t |-> "obj", n |-> 2],
                [t |-> "str", n |-> 1, id |-> "x"], [t |-> "str", n |-> 5, id |-> "y"]}
TValues == {"nil", "v"}
Sizes == {0, 1, 3}
Tbl == INSTANCE LuaTable WITH TableKeys <- MCKeys, TableValues <- TValues, ArraySizes <- Sizes, MaxSets <- 4

Coroutines == {c1, c2}
Do == INSTANCE LuaDo WITH MainThread <- mainthread, Coroutine <- Coroutines, LUAI_MAXCCALLS <- 4, MaxFrames <- 6

Hashes == "x" :> 0 @@ "y" :> 4 @@ "z" :> 1
Contents == DOMAIN Hashes
-------------------------------------------------------------------------------
luaVars == <<gcVars, tabVars, doVars, svars, part, called, call>>

NoCall == [fn |-> "none"]
LuaInit ==
    /\ part \in {"gc", "table", "do", "string"} \cup Libraries
    /\ Tbl!TableInit /\ (part # "table" => Len(table.array) = 0 /\ Tbl!IsDummy(table))
    /\ IF part = "gc" THEN Gc!Init
       ELSE g = [gcstate |-> "idle"] /\ kind = Nil /\ stack = Nil /\ pc = Nil /\ ops = Nil /\ fulls = Nil
            /\ lost = {} /\ overtaken = FALSE
    /\ Do!DoInit /\ StringInit
    /\ called = FALSE
    /\ IF part \in Libraries THEN Asked(part, call) ELSE call = NoCall

Is(p) == part = p /\ UNCHANGED <<part, called, call>>
Call == /\ part \in Libraries /\ ~ called
        /\ called' = TRUE
        /\ UNCHANGED <<part, call, gcVars, tabVars, doVars, svars>>

LuaNext ==
    \/ Is("gc") /\ Gc!Next /\ UNCHANGED <<tabVars, doVars, svars>>
    \/ Is("table") /\ Tbl!TableNext /\ UNCHANGED <<gcVars, doVars, svars>>
    \/ Is("do") /\ Do!DoNext /\ UNCHANGED <<gcVars, tabVars, svars>>
    \/ Is("string") /\ StringNext /\ UNCHANGED <<gcVars, tabVars, doVars>>
    \/ Call

LuaSpec == LuaInit /\ [][LuaNext]_luaVars
-------------------------------------------------------------------------------
(* The collector with more objects to finalize than one sweep step visits: *)
(* two userdata with finalizers; the second refers to the third, which the *)
(* program has lost too.                                                   *)

TwoFinalizers == {[st EXCEPT !.upv = [u \in {uv1} |-> @[u]]] : st \in {x \in Heaps : Len(x.finobj) = 2}}
Overtaken == INSTANCE LuaGC WITH Object <- Objects, Upval <- {uv1}, Starts <- TwoFinalizers,
                                 SweepMax <- 1, MaxEntries <- 1, MaxOps <- 0, MaxFull <- 0
OvertakenInit ==
    /\ Overtaken!Init
    /\ part = "gc" /\ Tbl!TableInit /\ Len(table.array) = 0 /\ Tbl!IsDummy(table)
    /\ Do!DoInit /\ StringInit /\ called = FALSE /\ call = NoCall
OvertakenSpec ==
    OvertakenInit /\ [][Is("gc") /\ Overtaken!Next /\ UNCHANGED <<tabVars, doVars, svars>>]_luaVars

\* LuaGC's invariant that finalization breaks: what lgc.h:57 says holds when a sweep ends.
AllWhiteAgain == Overtaken!AllWhiteAgain
-------------------------------------------------------------------------------
\* The collector frees what is lost and nothing else, and marks without a black object that
\* refers to a white one: LuaGC's three invariants.
HeapSafe == part = "gc" => Gc!NothingLiveFreed /\ Gc!FreedKeysDead /\ Gc!TriColour /\ Gc!GarbageFreed

\* LuaGC's action property.
FinalizedNotWeak == Gc!FinalizedNotWeak

\* LuaTable's two invariants.
TableIsMap == part = "table" => Tbl!TableIsMap /\ Tbl!TraversalComplete

\* LuaDo implements LuaThreads: LuaDo's CallsAsPromised, asked only of steps of that part.
CallsAsPromised == Do!Promise!Init /\ [][part = "do" => Do!Promise!Next]_(Do!Promise!promised)

\* LuaDo's invariant.
CountersExact == part = "do" => Do!CountersExact

\* Every call of a library function is answered as its reference says.
LibrariesRight == [][called' => Right(part, call)]_luaVars

\* A program is refused by the parser exactly if it is wrong; otherwise the code the parser generates does in
\* the machine what the program means: LuaPrograms' CompiledRight.
CompiledRight == [][called' /\ part = "programs" => Compiler!CompiledRight(call)]_luaVars
===============================================================================
