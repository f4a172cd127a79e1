------------------------------- MODULE Docker -------------------------------
(***************************************************************************)
(* The life of CWalleveDocker's modules: one thread calls the docker, which*)
(* initializes, invokes, halts and deinitializes modules one after another,*)
(* while the modules' own threads start, run and end.  The timers a halt   *)
(* cancels are in DockerTimers.                                            *)
(***************************************************************************)
EXTENDS Naturals, Sequences, SequencesExt

CONSTANTS Module,
          Kind,      \* the thread of a module: "io", "event", "console" or "command"
          Uses,      \* the modules a module looks up when it is initialized
          MaxCalls   \* bound: the calls of the docker

ASSUME DockerAssumption == MaxCalls \in Nat

VARIABLES
    status, listInstalled,      \* of the modules
    fActived, fShutdown,
    thread,                     \* what each module's thread does
    stop,                       \* whether it has been told to stop
    lostStop,                   \* history: the modules whose thread undid that
    calls,
    pc, goal, vWorkQueue, pos   \* the docker's call: where it is and what it is for

modVars == <<status, listInstalled>>
flagVars == <<fActived, fShutdown>>
threadVars == <<thread, stop, lostStop>>
callVars == <<calls, goal, vWorkQueue>>
vars == <<modVars, flagVars, threadVars, callVars, pc, pos>>

Installed == ToSet(listInstalled)
Current == vWorkQueue[pos]
Delayed(k) == Kind[k] \in {"console", "command"}
Having(s) == {k \in Module : status[k] = s}

\* The installed modules of a set, in the order in which they have been installed.
InOrder(modules) ==
    {queue \in SetToSeqs(Installed \cap modules) :
        \A i, j \in DOMAIN queue : i < j =>
            \E m, n \in DOMAIN listInstalled :
                m < n /\ listInstalled[m] = queue[i] /\ listInstalled[n] = queue[j]}

\* A call of a module is served by the modules it uses and by those they use.
Reach(k) == Uses[k] \cup UNION {Uses[d] : d \in Uses[k]}

Init ==
    /\ status = [k \in Module |-> "outdocker"]
    /\ listInstalled = <<>>
    /\ fActived = FALSE /\ fShutdown = FALSE
    /\ thread = [k \in Module |-> "none"]
    /\ stop = [k \in Module |-> FALSE]
    /\ lostStop = {}
    /\ calls = 0
    /\ pc = "idle" /\ goal = "none" /\ vWorkQueue = <<>> /\ pos = 0
----------------------------------------------------------------------------
(* The calls. *)

Attach(k) ==
    /\ pc = "idle" /\ status[k] = "outdocker"
    /\ status' = [status EXCEPT ![k] = "attached"]
    /\ listInstalled' = Append(listInstalled, k)
    /\ UNCHANGED <<flagVars, threadVars, callVars, pc, pos>>

Call(what, queues) ==
    /\ pc = "idle" /\ calls < MaxCalls /\ calls' = calls + 1
    /\ goal' = what
    /\ vWorkQueue' \in queues

CallRun ==
    /\ Call("run", InOrder(Having("attached")))
    /\ pc' = "initialize" /\ pos' = 1
    /\ UNCHANGED <<modVars, flagVars, threadVars>>

\* Run(key): nothing is done for a module that is invoked.
CallRunKey(k) ==
    /\ k \in Installed /\ status[k] # "invoked"
    /\ Call("runkey", {<<k>>})
    /\ pc' = (IF status[k] = "attached" THEN "initialize" ELSE "invoke") /\ pos' = 1
    /\ UNCHANGED <<modVars, flagVars, threadVars>>

CallHalt ==
    /\ Call("halt", {listInstalled})
    /\ fActived' = FALSE
    /\ pc' = "halt" /\ pos' = Len(listInstalled)
    /\ UNCHANGED <<modVars, fShutdown, threadVars>>

CallHaltKey(k) ==
    /\ k \in Installed
    /\ Call("haltkey", {<<k>>})
    /\ pc' = "halt" /\ pos' = 1
    /\ UNCHANGED <<modVars, flagVars, threadVars>>

CallDetach(k) ==
    /\ Call("detach", {<<k>>})
    /\ \E i \in DOMAIN listInstalled :
           listInstalled[i] = k /\ listInstalled' = RemoveAt(listInstalled, i)
    /\ pc' = "halt" /\ pos' = 1
    /\ UNCHANGED <<status, flagVars, threadVars>>

\* Exit is never bounded: the entry always ends with it.
CallExit ==
    /\ pc = "idle" /\ ~fShutdown
    /\ goal' = "exit" /\ vWorkQueue' = listInstalled
    /\ fShutdown' = TRUE /\ fActived' = FALSE
    /\ pc' = "halt" /\ pos' = Len(listInstalled)
    /\ UNCHANGED <<modVars, threadVars, calls>>
----------------------------------------------------------------------------
(* Run. *)

\* The first module that fails ends Run: the whole work queue is halted.
RunFails ==
    /\ pc \in {"initialize", "invoke"} /\ pos <= Len(vWorkQueue)
    /\ pc' = "halt" /\ pos' = Len(vWorkQueue)
    /\ UNCHANGED <<modVars, flagVars, threadVars, callVars>>

Initialize ==
    /\ pc = "initialize" /\ pos <= Len(vWorkQueue)
    /\ Uses[Current] \subseteq Installed
    /\ status' = [status EXCEPT ![Current] = "initialized"]
    /\ pos' = pos + 1
    /\ UNCHANGED <<listInstalled, flagVars, threadVars, callVars, pc>>

\* Mutant of InitializeDone: the docker is active before its modules are invoked.
InitializeDoneActive ==
    /\ pc = "initialize" /\ pos > Len(vWorkQueue)
    /\ pc' = "invoke" /\ pos' = 1
    /\ fActived' = (goal = "run")
    /\ UNCHANGED <<modVars, fShutdown, threadVars, callVars>>

\* Then every module to invoke is: those of the queue, and others initialized before.
InitializeDone ==
    /\ pc = "initialize" /\ pos > Len(vWorkQueue)
    /\ pc' = "invoke" /\ pos' = 1
    /\ IF goal = "run"
       THEN \E others \in InOrder(Having("initialized") \ ToSet(vWorkQueue)) :
                vWorkQueue' = vWorkQueue \o others
       ELSE UNCHANGED vWorkQueue
    /\ UNCHANGED <<modVars, flagVars, threadVars, calls, goal>>

\* Invoking a module starts its thread; an event queue is reset before that.
Invoke ==
    /\ pc = "invoke" /\ pos <= Len(vWorkQueue)
    /\ status' = [status EXCEPT ![Current] = "invoked"]
    /\ thread' = [thread EXCEPT ![Current] = IF Delayed(Current) THEN "delayed" ELSE "starting"]
    /\ stop' = IF Kind[Current] = "event" THEN [stop EXCEPT ![Current] = FALSE] ELSE stop
    /\ pos' = pos + 1
    /\ UNCHANGED <<listInstalled, flagVars, lostStop, callVars, pc>>

InvokeDone ==
    /\ pc = "invoke" /\ pos > Len(vWorkQueue)
    /\ pc' = "idle"
    /\ fActived' = (fActived \/ goal = "run")
    /\ UNCHANGED <<modVars, fShutdown, threadVars, callVars, pos>>
----------------------------------------------------------------------------
(* Halt: the work queue backwards, first every halt, then every deinitialization. *)

HaltStop ==
    /\ pc = "halt" /\ pos > 0 /\ status[Current] = "invoked"
    /\ stop' = [stop EXCEPT ![Current] = TRUE]
    /\ pc' = "join"
    /\ UNCHANGED <<modVars, flagVars, thread, lostStop, callVars, pos>>

\* Mutant of HaltJoin: the thread is not waited for.
HaltNoJoin ==
    /\ pc = "join"
    /\ status' = [status EXCEPT ![Current] = "initialized"]
    /\ pc' = "halt" /\ pos' = pos - 1
    /\ UNCHANGED <<listInstalled, flagVars, threadVars, callVars>>

HaltJoin ==
    /\ pc = "join" /\ thread[Current] = "ended"
    /\ thread' = [thread EXCEPT ![Current] = "none"]
    /\ status' = [status EXCEPT ![Current] = "initialized"]
    /\ pc' = "halt" /\ pos' = pos - 1
    /\ UNCHANGED <<listInstalled, flagVars, stop, lostStop, callVars>>

HaltSkip ==
    /\ pc = "halt" /\ pos > 0 /\ status[Current] # "invoked"
    /\ pos' = pos - 1
    /\ UNCHANGED <<modVars, flagVars, threadVars, callVars, pc>>

\* Then each of them that is initialized is deinitialized, and the call ends: Detach and
\* Exit delete the modules.
Deinitialize ==
    LET gone == IF goal \in {"detach", "exit"} THEN ToSet(vWorkQueue) ELSE {} IN
    /\ pc = "halt" /\ pos = 0
    /\ status' = [k \in Module |->
                     IF k \in gone THEN "deleted"
                     ELSE IF k \in ToSet(vWorkQueue) /\ status[k] = "initialized" THEN "attached"
                     ELSE status[k]]
    /\ listInstalled' = IF goal = "exit" THEN <<>> ELSE listInstalled
    /\ pc' = IF goal = "exit" THEN "exited" ELSE "idle"
    /\ UNCHANGED <<flagVars, threadVars, callVars, pos>>

Step ==
    \/ RunFails \/ Initialize \/ InitializeDone \/ Invoke \/ InvokeDone
    \/ HaltStop \/ HaltJoin \/ HaltSkip \/ Deinitialize
----------------------------------------------------------------------------
(* The modules' threads. *)

MoveThread(k, from, to) ==
    /\ thread[k] = from
    /\ thread' = [thread EXCEPT ![k] = to]
    /\ UNCHANGED <<modVars, flagVars, callVars, pc, pos>>

\* Mutant of ThreadWake: the shutdown does not end the wait.
ThreadWakeActive(k) ==
    /\ fActived
    /\ MoveThread(k, "delayed", "woken")
    /\ UNCHANGED <<stop, lostStop>>

\* ThreadDelayRun: wait until the docker is active or shuts down ...
ThreadWake(k) ==
    /\ fActived \/ fShutdown
    /\ MoveThread(k, "delayed", "woken")
    /\ UNCHANGED <<stop, lostStop>>

\* ... and look again, without the mutex, which it was.
ThreadDelayRun(k) ==
    /\ MoveThread(k, "woken", IF fShutdown THEN "ended" ELSE "starting")
    /\ UNCHANGED <<stop, lostStop>>

\* A stop that the thread has undone while the docker waits for its end is lost for good.
Undone(k) == IF pc = "join" /\ Current = k /\ ~stop'[k] THEN lostStop \cup {k} ELSE lostStop

\* The first thing a thread does is to reset its io_service, or to set the script's flag
\* running: what a concurrent halt has done to it is lost.  The queue of an event thread
\* has been reset by Invoke, before the thread was started.
ThreadReset(k) ==
    /\ MoveThread(k, "starting", "running")
    /\ stop' = IF Kind[k] = "event" THEN stop ELSE [stop EXCEPT ![k] = FALSE]
    /\ lostStop' = Undone(k)

\* An event thread resets its queue after a handler that failed, which undoes the interrupt
\* of a halt as well: the thread waits for events again.
HandlerReset(k) ==
    /\ Kind[k] = "event"
    /\ MoveThread(k, "running", "running")
    /\ stop' = [stop EXCEPT ![k] = FALSE]
    /\ lostStop' = Undone(k)

\* A line or a script makes a synchronous call; a stopped console takes no more lines ...
ThreadCall(k) ==
    /\ Delayed(k) /\ Uses[k] # {}
    /\ Kind[k] = "console" => ~stop[k]
    /\ MoveThread(k, "running", "calling")
    /\ UNCHANGED <<stop, lostStop>>

\* ... which returns when the modules it goes through have served it.
ThreadAnswered(k) ==
    /\ \A d \in Reach(k) : thread[d] = "running"
    /\ MoveThread(k, "calling", "running")
    /\ UNCHANGED <<stop, lostStop>>

\* A thread ends when it is told to; a script, when it is done; the console, at the end
\* of its input (the exception of a null line ends the thread).
ThreadEnd(k) ==
    /\ stop[k] \/ Delayed(k)
    /\ MoveThread(k, "running", "ended")
    /\ UNCHANGED <<stop, lostStop>>

ThreadStep(k) == ThreadWake(k) \/ ThreadDelayRun(k) \/ ThreadReset(k)
ThreadRuns(k) ==
    ThreadStep(k) \/ HandlerReset(k) \/ ThreadCall(k) \/ ThreadAnswered(k) \/ ThreadEnd(k)

CallKey(k) == CallRunKey(k) \/ CallHaltKey(k) \/ CallDetach(k)

Next ==
    \/ CallRun \/ CallHalt \/ CallExit \/ Step
    \/ \E k \in Module : Attach(k) \/ CallKey(k) \/ ThreadRuns(k)

Spec == Init /\ [][Next]_vars

\* The docker's thread and the modules' threads are scheduled, and a thread that is still
\* told to stop stops (a script looks at its flag between two calls).  Whether a call is
\* answered is up to the server; whether a handler fails, up to what it is given: nothing
\* hastens or forbids HandlerReset, and a thread whose stop it has undone owes no end.
Fairness ==
    /\ WF_vars(Step)
    /\ \A k \in Module : WF_vars(ThreadStep(k)) /\ SF_vars(stop[k] /\ ThreadEnd(k))

FairSpec == Spec /\ Fairness
----------------------------------------------------------------------------
Statuses == {"outdocker", "attached", "initialized", "invoked", "deleted"}
ThreadStates == {"none", "delayed", "woken", "starting", "running", "calling", "ended"}

TypeOK ==
    /\ status \in [Module -> Statuses]
    /\ listInstalled \in Seq(Module) /\ vWorkQueue \in Seq(Module)
    /\ fActived \in BOOLEAN /\ fShutdown \in BOOLEAN
    /\ thread \in [Module -> ThreadStates]
    /\ stop \in [Module -> BOOLEAN] /\ lostStop \subseteq Module
    /\ calls \in 0..MaxCalls
    /\ pc \in {"idle", "initialize", "invoke", "halt", "join", "exited"}
    /\ goal \in {"none", "run", "runkey", "halt", "haltkey", "detach", "exit"}
    /\ pos \in 0..(Len(vWorkQueue) + 1)

\* No thread of a module exists while the module is deinitialized or deleted: a module's
\* members are never used by its own thread after Halt, Detach or Exit has freed them.
ThreadOnlyWhileInvoked == \A k \in Module : thread[k] # "none" => status[k] = "invoked"

\* The first Run starts no delayed thread before it has invoked all of its modules: the
\* console takes no line while a module it may use is missing.
DelayedAfterAll ==
    calls = 1 /\ pc = "invoke" /\ goal = "run" =>
        \A k \in Module : Delayed(k) => thread[k] \in {"none", "delayed"}

\* The thread to join never ends: it waits for an answer, or it has undone its own stop,
\* when it started (ioproc.cpp:306, interactive.cpp:206) or after a handler that failed
\* (eventproc.cpp:47).
Blocked == pc = "join" /\ (thread[Current] = "calling" \/ Current \in lostStop)

\* Every halt returns, unless the thread to join is blocked or waits for a docker that was
\* never activated, as after a failed Run.
HaltReturns ==
    \/ pc = "join" ~> pc # "join"
    \/ <>[]Blocked
    \/ <>[](pc = "join" /\ thread[Current] = "delayed" /\ ~fActived /\ ~fShutdown)

\* A module's thread runs neither too early nor too late (docker.cpp:155).
ThreadsBounded == ThreadOnlyWhileInvoked /\ DelayedAfterAll
----------------------------------------------------------------------------
(* The instance for TLC: a module of each kind, attached in any order and run, halted and *)
(* detached in any way.                                                                   *)
AnyModule == {"io", "event", "console"}
AnyKind == [k \in AnyModule |-> k]
AnyUses == [k \in AnyModule |-> CASE k = "console" -> {"event"}
                                 [] k = "event" -> {"io"}
                                 [] k = "io" -> {}]
=============================================================================
