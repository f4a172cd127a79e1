----------------------------- MODULE MCLibrary -----------------------------
(***************************************************************************)
(* The parts of the program that are small and share nothing: a run is a   *)
(* run of one of them, chosen by `part`, while the others stay as they     *)
(* begin.  Each part's own module says what it promises.                   *)
(***************************************************************************)
EXTENDS EventProc, RWLock, SchedPromise, HttpSSE, NetTime, CircularBuf, ConnAttempt, Integers, TLC

CONSTANTS t1, t2, t3, d1, d2, e1, e2, c1, c2, none, CR, LF

VARIABLES part,
    ssSend, indexStream, indexWrite, writing, closed, delivered, flushed, nPutMsg,
    body, wire, ssRecv, strChunked, state,
    status, listInstalled, fActived, fShutdown, modThread, stop, lostStop, calls, goal,
    vWorkQueue, docker, pos, order, main, stopped, waiting,
    input, text

schedVars == <<mapPeer, listDataIdent, fAssigned, mapData, setKnownPeer, nAssigned, it, vAssigned>>
streamVars == <<ssSend, indexStream, indexWrite, writing, closed, delivered, flushed, nPutMsg>>
chunkedVars == <<body, wire, ssRecv, strChunked, state>>
shellVars == <<status, listInstalled, fActived, fShutdown, modThread, stop, lostStop, calls, goal,
               vWorkQueue, docker, pos, order, main, stopped, waiting>>
entryVars == <<order, main, stopped, waiting>>

Sched == INSTANCE DataSched

Stream == INSTANCE PeerStream WITH MaxMsgs <- 4, nPut <- nPutMsg

Digits == [n \in 0..6 |-> <<"0", "1", "2", "3", "4", "5", "6">>[n + 1]]
Chunks == {<<"a">>, <<LF>>, <<CR, LF>>, <<"a", CR>>, <<"0", CR, LF>>, <<"0", CR, LF, CR, LF>>}
Inside == <<<<"0", CR, LF, CR, LF>>>>

Differences == {-5, 0, 1}

Kinds == [httpget |-> "io", rpcclient |-> "event", console |-> "console", script |-> "command"]
Shell == INSTANCE LuaShell WITH
    Module <- DOMAIN Kinds, Kind <- Kinds, MaxCalls <- 1,
    Uses <- [httpget |-> {}, rpcclient |-> {"httpget"},
             console |-> {"rpcclient"}, script |-> {"rpcclient"}],
    Orders <- {<<"httpget", "rpcclient", k>> : k \in {"console", "script"}},
    thread <- modThread, pc <- docker

Coding == INSTANCE Codec
Text == INSTANCE HttpText WITH
    Digit <- Digits,
    Bodies <- {<<>>} \cup {<<x>> : x \in Chunks} \cup {<<x, y>> : x, y \in Chunks}
----------------------------------------------------------------------------
(* What is coded: lengths on both sides of every limit, and every delimiter. *)

Limits == {0, 1, 252, 253, 255}
Ints == {<<i, j>> \o k \o l : i, j \in Limits, k \in {<<0, 0>>, <<1, 0>>, <<0, 255>>},
                              l \in {<<0, 0, 0, 0>>, <<0, 0, 0, 1>>, <<255, 255, 255, 255>>}}
ByteStrings == {<<>>, <<0>>, <<7, 253>>} \cup {[i \in 1..n |-> i % 7] : n \in 252..256}
Str == Coding!Str
Values ==
    [type : {Str}, value : ByteStrings]
    \cup [type : {Coding!Vec(Str)}, value : {<<>>} \cup {<<x>> : x \in ByteStrings}
                                     \cup {<<x, <<7, 253>>>> : x \in ByteStrings}]
    \cup [type : {Coding!Vec(Coding!Pair(Coding!Fund(2), Coding!Vec(Coding!Fund(1))))},
          value : {<<>>, <<<<<<1, 2>>, <<>>>>>>, <<<<<<1, 2>>, <<<<3>>, <<4>>>>>>, <<<<5, 6>>, <<>>>>>>}]
MapValues ==
    [type : {Coding!Map(Coding!Fund(1), Str)},
     value : {<<>>, <<<<<<1>>, <<2, 3>>>>>>, <<<<<<1>>, <<>>>>, <<<<2>>, <<9>>>>>>}]
Entries ==
    [type : {"true", "false"}, bytes : {[i \in 1..8 |-> 0]}]
    \cup [type : {"int8", "int16", "int32", "int64"},
          bytes : {[i \in 1..8 |-> 0], [i \in 1..8 |-> 247 + i]}]
    \cup [type : {"int256"}, bytes : {[i \in 1..32 |-> i]}]
    \cup [type : {"binary"}, bytes : {<<>>, <<0>>, [i \in 1..255 |-> 1], [i \in 1..256 |-> 1]}]
Compact == {m \in UNION {[T -> Entries] : T \in {{}, {0}, {31}, {32}, {3, 4}, {0, 31}}} :
               \A t \in DOMAIN m : Coding!MayPush(<<>>, t, m[t].type, m[t].bytes)}

\* Values of every type, and tables of two entries and of two levels; keys that agree, that do
\* not, that leave a hole, and that are the same behind a NUL.
Scalars ==
    {Coding!Lua("boolean", b) : b \in BOOLEAN} \cup {Coding!Lua("float", "1.5"), Coding!Lua("function", <<>>)}
    \cup {Coding!Lua("integer", <<i, 0, 0, j, k, 0, 0, 0>>) : i \in {0, 7}, j \in {0, 128}, k \in {0, 1}}
    \cup {Coding!Lua("string", s) : s \in {<<>>, <<"a">>, <<"a", "NUL", "b">>}}
Keys == {Coding!Lua("integer", Coding!LowBytes(i, 8)) : i \in {1, 3}}
        \cup {Coding!Lua("string", s) : s \in {<<"a">>, <<"b">>, <<"a", "NUL", "b">>}}
Tables(values) ==
    {Coding!Lua("table", t) : t \in {<<>>} \cup {<<<<k, v>>>> : k \in Keys, v \in values}
        \cup {<<<<p[1], p[2]>>, <<p[3], p[4]>>>> :
                  p \in {q \in Keys \X values \X Keys \X values : q[1] # q[3]}}}
Few == {Coding!Lua("function", <<>>), Coding!Lua("string", <<"a", "NUL", "b">>)}
JsonValues ==
    Tables(Scalars) \cup Tables({Coding!Lua("table", <<>>)} \cup Few)
    \cup {Coding!Lua("table", <<<<k[1], t>>, <<k[2], v>>>>) :
             k \in {q \in Keys \X Keys : q[1] # q[2]}, t \in Tables(Few), v \in Few}

\* The calls of every method with arguments it takes, but for any two that may be anything.
Given == {Coding!Nil, Coding!Lua("string", <<"fork">>), Coding!Lua("string", <<"c", "NUL">>)}
         \cup {Coding!Lua("boolean", b) : b \in BOOLEAN} \cup {Coding!Lua("integer", Coding!LowBytes(9, 8))}
Good(type) == CASE type = "string" -> Coding!Lua("string", <<"a">>)
                [] type = "number" -> Coding!Lua("integer", Coding!LowBytes(1, 8))
                [] type = "boolean" -> Coding!Lua("boolean", TRUE)
Calls ==
    UNION {LET params == Coding!Methods[m]
               good == [i \in DOMAIN params |-> Good(params[i].type)]
           IN  {[coding |-> "call", method |-> m, args |-> good]} \cup
               {[coding |-> "call", method |-> m, args |-> [good EXCEPT ![p[1]] = p[3], ![p[2]] = p[4]]] :
                    p \in (DOMAIN params) \X (DOMAIN params) \X Given \X Given} : m \in DOMAIN Coding!Methods}
    \cup [coding : {"call"}, method : Coding!TemplateMethods,
           args : {<<>>} \cup {<<Coding!Lua("string", <<t>>), a, b>> :
                       t \in DOMAIN Coding!TemplateParams, a \in Given,
                       b \in Given \cup Tables({Coding!Lua("function", <<>>), Good("string"), Good("number")})}
                  \cup {<<a>> : a \in Given}]

Inputs ==
    {[v EXCEPT !.type = v.type] @@ [coding |-> k] : v \in Values, k \in {"stream", "data"}}
    \cup {v @@ [coding |-> "data"] : v \in MapValues}
    \cup [coding : {"varint"}, value : Ints]
    \cup [coding : {"compact"}, value : Compact]
    \cup [coding : {"json"}, value : JsonValues]
    \cup Calls

Strings == {<<x>> : x \in 0..255} \cup {<<43, x>> : x \in {61, 65, 32, 0, 255}}
           \cup {<<x, 37, 61, 38>> : x \in {47, 59, 63, 255}} \cup {<<>>}
Safe == {<<>>, <<65, 61, 66>>, <<59, 32>>, <<47, 63, 43>>}
Requests ==
    [method : {"GET", "POST"}, url : {<<>>, <<47, 63>>, <<47, 32, 61>>}, host : {"h"},
     accept : {"a"}, connection : {"c"}]
    \cup [method : {"GET"}, url : {<<47>>}, host : {"h"}, accept : {"a"}, connection : {"c"},
          authorization : {"b"}] 
Pairs == {{}} \cup {{<<x, y>>} : x, y \in Safe}
         \cup {{<<x, y>>, <<z, w>>} : x, z \in {<<65>>, <<61>>}, y, w \in {<<>>, <<59>>}}
Fields == {q \in Pairs : (\A p, r \in q : p[1] = r[1] => p = r) /\ <<<<>>, <<>>>> \notin q}
SetCookies ==
    [name : {<<>>, <<65>>, <<61, 59>>}, value : {<<>>, <<61>>}, domain : {"", "d"},
     path : {<<>>, <<47, 59>>}, expires : {Text!NoTime, "t"}, secure : BOOLEAN, httponly : {TRUE},
     ok : {TRUE}]
Texts ==
    [kind : {"string"}, s : Strings]
    \cup [kind : {"request"}, map : Requests, query : {{}, {<<<<65, 61, 66>>, <<59, 32>>>>}}, cookie : Fields, length : {0, 3}]
    \cup [kind : {"request"}, map : Requests, query : Fields, cookie : {{}}, length : {3}]
    \cup [kind : {"response"}, status : {200, 401}, map : {<<>>, [server |-> "s"]},
          cookies : {{}} \cup {{k} : k \in SetCookies} \cup {{[k EXCEPT !.name = <<66>>], k} : k \in SetCookies},
          length : {0}]
----------------------------------------------------------------------------
libVars == <<vars, lockVars, sseVars, schedVars, streamVars, ringVars, chunkedVars,
             timeVars, countVars, shellVars, input, text, part>>

LibInit ==
    /\ part \in {"events", "lock", "sse", "sched", "stream", "ring", "chunked", "time", "count",
                 "shell", "coding", "text"}
    /\ Init /\ LockInit /\ SSEInit /\ Sched!Init /\ Stream!Init /\ RingInit /\ TimeInit
    /\ Text!Init /\ (part # "chunked" => body = Inside)
    /\ AttemptInit /\ (part # "count" => arrayAttempt = [i \in 0..1 |-> 0])
    /\ Shell!MainInit /\ (part # "shell" => order[3] = "console")
    /\ input \in IF part = "coding" THEN Inputs ELSE {[coding |-> "none"]}
    /\ text \in IF part = "text" THEN Texts ELSE {[kind |-> "none"]}

Is(p) == part = p /\ UNCHANGED <<input, text, part>>
NotEvents == UNCHANGED vars
NotLock == UNCHANGED lockVars
NotSse == UNCHANGED sseVars
NotSched == UNCHANGED schedVars
NotStream == UNCHANGED streamVars
NotRing == UNCHANGED ringVars
NotChunked == UNCHANGED chunkedVars
NotTime == UNCHANGED timeVars
NotCount == UNCHANGED countVars
NotShell == UNCHANGED shellVars
Others1 == NotEvents /\ NotLock /\ NotSse /\ NotSched
Others2 == NotStream /\ NotRing /\ NotChunked
Others3 == NotTime /\ NotCount /\ NotShell

LibNext ==
    \/ Is("events") /\ Next /\ NotLock /\ NotSse /\ NotSched /\ Others2 /\ Others3
    \/ Is("lock") /\ LockNext /\ NotEvents /\ NotSse /\ NotSched /\ Others2 /\ Others3
    \/ Is("sse") /\ SSENext /\ NotEvents /\ NotLock /\ NotSched /\ Others2 /\ Others3
    \/ Is("sched") /\ Sched!Next /\ NotEvents /\ NotLock /\ NotSse /\ Others2 /\ Others3
    \/ Is("stream") /\ Stream!Next /\ Others1 /\ NotRing /\ NotChunked /\ Others3
    \/ Is("ring") /\ RingNext /\ Others1 /\ NotStream /\ NotChunked /\ Others3
    \/ Is("chunked") /\ Text!Next /\ Others1 /\ NotStream /\ NotRing /\ Others3
    \/ Is("time") /\ TimeNext /\ Others1 /\ Others2 /\ NotCount /\ NotShell
    \/ Is("count") /\ AttemptNext /\ Others1 /\ Others2 /\ NotTime /\ NotShell
    \/ Is("shell") /\ Shell!MainNext /\ Others1 /\ Others2 /\ NotTime /\ NotCount

\* Each part's own fairness.
LibFairness ==
    /\ WF_vars(part = "events" /\ EventThread)
    /\ WF_vars(part = "events" /\ InvokeStart)
    /\ WF_vars(part = "events" /\ HaltJoin)
    /\ \A t \in Thread : WF_lockVars(part = "lock" /\ Proceed(t))
    /\ WF_streamVars(part = "stream" /\ (Stream!HandleWriten \/ Stream!HandleWritenNone))
    /\ WF_chunkedVars(part = "chunked" /\ Text!Receive)
    /\ WF_chunkedVars(part = "chunked" /\ Text!HandleReadChunked)
    /\ WF_shellVars(part = "shell" /\ Shell!Main)
    /\ \A k \in DOMAIN Kinds :
          /\ WF_shellVars(part = "shell" /\ Shell!ThreadStep(k) /\ UNCHANGED entryVars)
          /\ SF_shellVars(part = "shell" /\ stop[k] /\
                 (Shell!ScriptEnd(k) \/ (Shell!ThreadEnd(k) /\ Shell!OtherThread(k))))

LibFairSpec == LibInit /\ [][LibNext]_libVars /\ LibFairness
----------------------------------------------------------------------------
MessagesInOrder == Stream!MessagesInOrder
ChunkedBodyRead == Text!ChunkedBodyRead

\* Both ways to end the program end it, and no call is stranded on the way (docker.cpp:254, 395,
\* luashell.cpp:16).
ProgramAlwaysEnds ==
    []Shell!NoStrandedCall /\ Shell!ProgramEnds /\ Shell!ScriptEndsProgram

\* Codec and HttpText: what is coded is decoded to itself.
ConversionsInvert == Coding!CodingInverts /\ Text!TextInverts
============================================================================
