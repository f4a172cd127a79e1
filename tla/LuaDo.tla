-------------------------------- MODULE LuaDo --------------------------------
(***************************************************************************)
(* How the interpreter keeps what LuaThreads promises: ldo.c, with         *)
(* lua_callk and lua_pcallk of lapi.c and the coroutine library.  Every    *)
(* thread has a list of call infos; C has one stack for all of them, which *)
(* an error or a yield unwinds to the innermost setjmp of its thread.  A   *)
(* protected call in a coroutine makes none: it leaves a mark in its call  *)
(* info, and lua_resume goes on from there.                                *)
(***************************************************************************)
EXTENDS Integers, Sequences, SequencesExt, FiniteSets, FiniteSetsExt

CONSTANTS MainThread, Coroutine,
          LUAI_MAXCCALLS,
          MaxFrames        \* bound: call infos of all threads

VARIABLES thread,   \* of every thread: status, ci, nny, nCcalls, errfunc, and whether its stack has a function
          cstack,   \* the C functions in progress: lua_resume, luaD_pcall, luaD_call
          current,  \* the thread that runs
          handler   \* the last message handler that was called, a place in the list of call infos
dvars == <<thread, cstack, current, handler>>

Threads == Coroutine \cup {MainThread}

\* A call info; fresh marks the Lua function whose return ends its luaV_execute.
Frame(fn) == [fn |-> fn, fresh |-> FALSE, k |-> FALSE, ypcall |-> FALSE, old_errfunc |-> 0]
LuaFrame(fresh) == [Frame("lua") EXCEPT !.fresh = fresh]

Protected == {"pcall", "xpcall"}
Callers == Protected \cup {"sort", "dofile"}

\* preinit_thread; lua.c has called the main thread's function.
DoInit ==
    /\ thread = [th \in Threads |->
          [status |-> "OK", ci |-> IF th = MainThread THEN <<LuaFrame(TRUE)>> ELSE <<>>,
           nny |-> 1, nCcalls |-> IF th = MainThread THEN 1 ELSE 0, errfunc |-> 0, top |-> TRUE]]
    /\ cstack = <<>> /\ current = MainThread /\ handler = 0
-------------------------------------------------------------------------------
\* A state of the interpreter, for the operators that take it through several C functions.
State == [t |-> thread, c |-> cstack, cur |-> current, h |-> handler]
Becomes(s) == thread' = s.t /\ cstack' = s.c /\ current' = s.cur /\ handler' = s.h

Push(s, f) == [s EXCEPT !.t[s.cur].ci = Append(@, f)]
Pop(s) == [s EXCEPT !.t[s.cur].ci = Front(@)]     \* luaD_poscall
Top(s) == Last(s.t[s.cur].ci)

\* lua_resume, when the coroutine has stopped: its C function returns in the thread behind.
EndResume(s) ==
    LET r == Last(s.c)
    IN  [s EXCEPT !.t[s.cur].nny = r.oldnny, !.t[s.cur].nCcalls = @ - 1,
                  !.c = Front(@), !.cur = r.from]

\* unroll: C functions are completed by their continuations, a Lua function is executed anew.
RECURSIVE Unroll(_)
Unroll(s) ==
    IF s.t[s.cur].ci = <<>> THEN Pop(EndResume([s EXCEPT !.t[s.cur].top = FALSE]))
    ELSE IF Top(s).fn = "lua" THEN [s EXCEPT !.t[s.cur].ci = Append(Front(@), LuaFrame(TRUE))]
    ELSE Unroll(Pop(IF Top(s).ypcall THEN [s EXCEPT !.t[s.cur].errfunc = Top(s).old_errfunc] ELSE s))

\* The place of the pcall that takes an error of the running coroutine, with no setjmp of its own.
YPCalls(s) == {i \in DOMAIN s.t[s.cur].ci : s.t[s.cur].ci[i].ypcall}

\* The setjmp the running thread jumps to; none is lua.c's own.
Jump(s) == LET marks == {i \in DOMAIN s.c : s.c[i].th = s.cur /\ s.c[i].f # "luaD_call"}
           IN  IF marks = {} THEN 0 ELSE Max(marks)
Unwound(s) == [s EXCEPT !.c = SubSeq(@, 1, Jump(s))]

\* Mutant of EndPcall: calls that were jumped over still count.
EndPcallKeepsCalls(s) ==
    LET p == Last(s.c)
    IN  Pop([s EXCEPT !.t[s.cur] = [@ EXCEPT !.ci = SubSeq(@, 1, p.old_ci), !.nny = p.old_nny,
                                             !.errfunc = p.old_errfunc],
                      !.c = Front(@)])

\* luaD_pcall behind its setjmp, and the return of pcall.
EndPcall(s) ==
    LET p == Last(s.c)
    IN  Pop([s EXCEPT !.t[s.cur] = [@ EXCEPT !.ci = SubSeq(@, 1, p.old_ci), !.nny = p.old_nny,
                                             !.errfunc = p.old_errfunc, !.nCcalls = p.oldnCcalls],
                      !.c = Front(@)])

\* Mutant of Recover: the error function of the failed call stays.
RecoverKeepsErrfunc(s, i) ==
    Unroll(Pop([s EXCEPT !.t[s.cur].ci = SubSeq(@, 1, i), !.t[s.cur].nny = 0]))

\* recover, and the continuation of the pcall whose call info is i.
Recover(s, i) ==
    Unroll(Pop([s EXCEPT !.t[s.cur].ci = SubSeq(@, 1, i), !.t[s.cur].nny = 0,
                         !.t[s.cur].errfunc = s.t[s.cur].ci[i].old_errfunc]))

\* luaG_errormsg and luaD_throw; the resumer of a dead coroutine gets the error, or raises it.
\* Of the message handler's call only that it was called is kept: it returns at once, without
\* an error of its own (LUA_ERRERR) and without a call or a yield.
RECURSIVE Throw(_)
Throw(s) ==
    LET u == [Unwound(s) EXCEPT !.h = s.t[s.cur].errfunc]
        j == Last(u.c)
    IN  IF u.c = <<>> THEN [u EXCEPT !.t[s.cur].status = "ERR", !.t[s.cur].ci = <<>>]
        ELSE IF j.f = "luaD_pcall" THEN EndPcall(u)
        ELSE LET r == [u EXCEPT !.t[s.cur].nCcalls = j.nCcalls]
             IN  IF YPCalls(r) # {} THEN Recover(r, Max(YPCalls(r)))
                 ELSE LET e == EndResume([r EXCEPT !.t[s.cur].status = "ERR"])
                      IN  IF Top(e).fn = "wrap" THEN Throw(e) ELSE Pop(e)

\* luaD_call of a Lua function, out of a C function or of luaV_execute; the C stack has a limit.
LuaDCall(s, noyield) ==
    LET n == [s EXCEPT !.t[s.cur].nCcalls = @ + 1, !.t[s.cur].nny = @ + (IF noyield THEN 1 ELSE 0),
                       !.c = Append(@, [f |-> "luaD_call", th |-> s.cur, noyield |-> noyield])]
    IN  IF n.t[s.cur].nCcalls = LUAI_MAXCCALLS THEN Throw(n) ELSE Push(n, LuaFrame(TRUE))

\* lua_pcallk: conventional where nothing may yield, or else marked for recovery.
LuaPcallk(s, handlerAt) ==
    LET t == s.t[s.cur]
    IN  IF t.nny > 0
        THEN LuaDCall([s EXCEPT !.t[s.cur].errfunc = handlerAt,
                                !.c = Append(@, [f |-> "luaD_pcall", th |-> s.cur, old_ci |-> Len(t.ci),
                                                 old_nny |-> t.nny, old_errfunc |-> t.errfunc,
                                                 oldnCcalls |-> t.nCcalls])], TRUE)
        ELSE LuaDCall([s EXCEPT !.t[s.cur].ci = Append(Front(@), [Last(@) EXCEPT !.k = TRUE, !.ypcall = TRUE,
                                                                       !.old_errfunc = t.errfunc]),
                                !.t[s.cur].errfunc = handlerAt], FALSE)

\* lua_callk.
LuaCallk(s) == IF s.t[s.cur].nny > 0 THEN LuaDCall(s, TRUE)
               ELSE LuaDCall([s EXCEPT !.t[s.cur].ci = Append(Front(@), [Last(@) EXCEPT !.k = TRUE])], FALSE)
-------------------------------------------------------------------------------
Alive == thread[MainThread].ci # <<>>
Room(n) == Alive /\ FoldSet(LAMBDA th, sum : sum + Len(thread[th].ci), 0, Threads) + n <= MaxFrames

\* OP_CALL of a Lua function: the same luaV_execute goes on with it.
CallLua == Room(1) /\ Becomes(Push(State, LuaFrame(FALSE)))

\* A metamethod is called through C.
CallMeta == Room(1) /\ Becomes(LuaDCall(State, FALSE))

\* pcall, xpcall, table.sort with a comparison, dofile.
CallC(fn) == /\ Room(2)
             /\ LET s == Push(State, Frame(fn))
                IN  Becomes(CASE fn = "pcall" -> LuaPcallk(s, 0)
                              [] fn = "xpcall" -> LuaPcallk(s, Len(thread[current].ci) + 1)
                              [] fn = "sort" -> LuaDCall(s, TRUE)
                              [] fn = "dofile" -> LuaCallk(s))

\* OP_RETURN: an execute that began with the function is over, and so are the C functions it
\* was called from.
Return ==
    /\ Alive
    /\ LET f == Top(State)
           s == Pop(State)
           c == Last(cstack)
           over == [s EXCEPT !.c = Front(@), !.t[current].nCcalls = @ - 1,
                             !.t[current].nny = @ - (IF c.noyield THEN 1 ELSE 0)]
       IN  Becomes(IF ~ f.fresh THEN s
                   ELSE IF cstack = <<>> THEN s
                   ELSE IF c.f = "resume" THEN Unroll(s)
                   ELSE IF Top(over).fn = "lua" THEN over
                   ELSE IF over.c # <<>> /\ Last(over.c).f = "luaD_pcall" /\ Top(over).fn \in Protected
                   THEN EndPcall(over)
                   ELSE Pop(IF Top(over).ypcall
                            THEN [over EXCEPT !.t[current].errfunc = Top(over).old_errfunc] ELSE over))

\* error, or any run-time error.
Error == Alive /\ Becomes(Throw(State))

\* lua_yield.
Yield ==
    /\ Alive
    /\ LET s == Push(State, Frame("yield"))
       IN  Becomes(IF s.t[current].nny > 0 THEN Throw(s)
                   ELSE Pop(EndResume([Unwound(s) EXCEPT !.t[current].status = "YIELD",
                                                  !.t[current].nCcalls = Last(Unwound(s).c).nCcalls])))

\* auxresume and lua_resume: what cannot be resumed, and what is.
Resumable(co) == \/ thread[co].status = "OK" /\ thread[co].ci = <<>> /\ thread[co].top
                 \/ thread[co].status = "YIELD"
Resume(co, fn) ==
    /\ Room(1)
    /\ LET s == Push(State, Frame(fn))
           nCcalls == thread[current].nCcalls + 1
           r == [s EXCEPT !.t[co].nCcalls = nCcalls, !.t[co].nny = 0, !.t[co].status = "OK",
                          !.c = Append(@, [f |-> "resume", th |-> co, from |-> current,
                                           oldnny |-> thread[co].nny, nCcalls |-> nCcalls]),
                          !.cur = co]
       IN  Becomes(IF ~ Resumable(co) \/ nCcalls >= LUAI_MAXCCALLS
                   THEN IF fn = "wrap" THEN Throw(s) ELSE Pop(s)
                   ELSE IF thread[co].status = "OK" THEN Push(r, LuaFrame(TRUE))
                   ELSE Unroll(Pop(r)))

DoNext == \/ CallLua \/ CallMeta \/ Return \/ Error \/ Yield
          \/ \E fn \in Callers : CallC(fn)
          \/ \E co \in Coroutine, fn \in {"resume", "wrap"} : Resume(co, fn)

DoSpec == DoInit /\ [][DoNext]_dvars
-------------------------------------------------------------------------------
\* luaB_costatus.
CoStatus(th) ==
    IF th = current /\ Alive THEN "running"
    ELSE IF thread[th].status = "YIELD" THEN "suspended"
    ELSE IF thread[th].status # "OK" THEN "dead"
    ELSE IF thread[th].ci # <<>> THEN "normal"
    ELSE IF th = MainThread \/ ~ thread[th].top THEN "dead" ELSE "suspended"

\* What the promise sees: no yield in progress, and nothing of a dead coroutine.
FramesOf(th) == LET kinds == [i \in DOMAIN thread[th].ci |-> thread[th].ci[i].fn]
                IN  IF thread[th].status = "ERR" THEN <<>>
                    ELSE IF thread[th].status = "YIELD" THEN Front(kinds) ELSE kinds

ChainOf == LET rs == SelectSeq(cstack, LAMBDA c : c.f = "resume")
           IN  IF Alive THEN <<MainThread>> \o [i \in DOMAIN rs |-> rs[i].th] ELSE <<>>

Promise == INSTANCE LuaThreads WITH frames <- [th \in Threads |-> FramesOf(th)],
                                    standing <- [th \in Threads |-> CoStatus(th)],
                                    chain <- ChainOf

\* Errors, protected calls and coroutines behave as LuaThreads says, though errors jump over C
\* functions, and protected calls that a yield has torn from the C stack are recovered from
\* their call infos: the threads' standings, what they are in the middle of, and the message
\* handler that an error goes to (ldo.c:581, 721).
CallsAsPromised == Promise!Spec

\* A function may yield exactly where no C function that cannot be continued is in between, and
\* the counters agree with the C stack whatever jumped over their decrements (ldo.c:136, 507).
CountersExact == Alive =>
    /\ (thread[current].nny = 0) = (current # MainThread /\ \A i \in DOMAIN thread[current].ci :
                                          thread[current].ci[i].fn # "sort")
    /\ thread[current].nCcalls = 1 + Cardinality({i \in DOMAIN cstack : cstack[i].f # "luaD_pcall"})
===============================================================================
