------------------------------ MODULE LuaShell ------------------------------
(***************************************************************************)
(* The program: main attaches its modules, runs the docker, waits in the   *)
(* io_service of the entry for a signal or for the end of the script, and  *)
(* exits.                                                                  *)
(***************************************************************************)
EXTENDS Docker

CONSTANT Orders      \* the modules in the order InitializeService attaches them, for a
                     \* console and for a script

VARIABLES
    order,       \* the modules of this run of the program
    main,        \* where main is
    stopped,     \* the entry's io_service has been stopped
    waiting      \* its handler waits for a signal

entryVars == <<order, main, stopped, waiting>>
allVars == <<vars, entryVars>>

MainInit ==
    /\ Init
    /\ order \in Orders
    /\ main = "attach"
    /\ stopped = FALSE
    /\ waiting = TRUE

Go(to) == main' = to /\ UNCHANGED <<order, stopped, waiting>>

MainAttach ==
    /\ main = "attach" /\ Len(listInstalled) < Len(order)
    /\ Attach(order[Len(listInstalled) + 1])
    /\ UNCHANGED entryVars

MainRun ==
    /\ main = "attach" /\ Len(listInstalled) = Len(order)
    /\ CallRun
    /\ Go("run")

\* Run has returned: true if the docker is active.
MainRan ==
    /\ main = "run" /\ pc = "idle"
    /\ Go(IF fActived THEN "entry" ELSE "leave")
    /\ UNCHANGED vars

\* Mutant of MainEntered: only the io_service's stop ends the wait.
MainEnteredStopped ==
    /\ main = "entry" /\ stopped
    /\ Go("leave")
    /\ UNCHANGED vars

\* The entry's io_service runs until it is stopped or has nothing left to wait for.
MainEntered ==
    /\ main = "entry" /\ (stopped \/ ~waiting)
    /\ Go("leave")
    /\ UNCHANGED vars

MainExit ==
    /\ main = "leave"
    /\ CallExit
    /\ Go("exit")

MainDone ==
    /\ main = "exit" /\ pc = "exited"
    /\ Go("done")
    /\ UNCHANGED vars

\* The handler runs once and is not armed again: SIGINT and SIGTERM stop the io_service,
\* after SIGQUIT and SIGHUP it is out of work.
HandleSignal(stops) ==
    /\ main = "entry" /\ waiting /\ ~stopped
    /\ waiting' = FALSE
    /\ stopped' = stops
    /\ UNCHANGED <<vars, order, main>>

\* Mutant of ScriptEnd: the script ends and main is not told.
ScriptEndSilent(k) ==
    /\ Kind[k] = "command"
    /\ ThreadEnd(k)
    /\ UNCHANGED entryVars

\* A script's thread stops the entry before it ends.
ScriptEnd(k) ==
    /\ Kind[k] = "command"
    /\ ThreadEnd(k)
    /\ stopped' = TRUE
    /\ UNCHANGED <<order, main, waiting>>

OtherThread(k) ==
    /\ \/ ThreadStep(k) \/ HandlerReset(k) \/ ThreadCall(k) \/ ThreadAnswered(k)
       \/ Kind[k] # "command" /\ ThreadEnd(k)
    /\ UNCHANGED entryVars

Main ==
    \/ MainAttach \/ MainRun \/ MainRan \/ MainEntered \/ MainExit \/ MainDone
    \/ Step /\ UNCHANGED entryVars

MainNext ==
    \/ Main
    \/ \E stops \in BOOLEAN : HandleSignal(stops)
    \/ \E k \in Module : ScriptEnd(k) \/ OtherThread(k)

MainSpec == MainInit /\ [][MainNext]_allVars

\* main and every thread are scheduled, and a thread that is still told to stop stops, as in
\* Docker!Fairness: one whose handler has undone that (HandlerReset) owes no end.
MainFairSpec ==
    /\ MainSpec
    /\ WF_allVars(Main)
    /\ \A k \in Module :
          /\ WF_allVars(ThreadStep(k) /\ UNCHANGED entryVars)
          /\ SF_allVars(stop[k] /\ (ScriptEnd(k) \/ (ThreadEnd(k) /\ OtherThread(k))))
----------------------------------------------------------------------------
MainTypeOK ==
    /\ TypeOK
    /\ order \in Orders
    /\ main \in {"attach", "run", "entry", "leave", "exit", "done"}
    /\ stopped \in BOOLEAN /\ waiting \in BOOLEAN

\* A synchronous call is never stranded by a halt: as long as it is not answered, the
\* modules it goes through are invoked and have not been told to stop.
NoStrandedCall ==
    \A k \in DOMAIN thread : thread[k] = "calling" =>
        \A d \in Reach(k) : status[d] = "invoked" /\ ~stop[d]

\* A program that has been told to end ends, unless a thread to join is blocked: it has
\* undone its stop, or its synchronous call is never answered.
ProgramEnds == (stopped \/ ~waiting ~> main = "done") \/ <>[]Blocked

\* The script's end is the program's, once its thread has run.
ScriptEndsProgram ==
    \/ (\E k \in DOMAIN thread : Kind[k] = "command" /\ thread[k] = "ended") ~> main = "done"
    \/ <>[]Blocked
=============================================================================
