---------------------------- MODULE DockerTimers ----------------------------
(***************************************************************************)
(* The timers of CWalleveDocker: the two indexes, the timer thread, and    *)
(* the end of the modules whose callbacks the timers hold.                 *)
(*                                                                         *)
(* Timers are numbered as nTimerIdAlloc numbers them; its wrap-around at   *)
(* 2^32 is left out.  Sections under mtxTimer are one step each.  The      *)
(* notifications come after the mutex is released, in steps of their own.  *)
(***************************************************************************)
EXTENDS Naturals, FiniteSets, Sequences, SequencesExt

CONSTANTS Module,      \* the modules that set timers
          MaxTimers,   \* bound: timers set in a behaviour
          MaxTime,     \* bound: the last tick of the clock
          Delay,       \* the delays timers are set with
          MayDetach    \* whether the docker may detach a module

ASSUME DockerTimersAssumption ==
    /\ MaxTimers \in Nat
    /\ MaxTime \in Nat
    /\ Delay \subseteq Nat
    /\ MayDetach \in BOOLEAN

VARIABLES
    timers,         \* every timer ever set: its module and its expiry
    mapTimerById,   \* the ids of the timers in the first index ...
    mapTimerByExpiry,  \* ... and in the second, which is ordered by expiry
    now,
    thread,         \* what the timer thread is doing
    vWorkQueue,     \* the ids it has taken out of the second index
    running,        \* the timer whose callback it runs
    deadline,       \* until when it waits
    notices,        \* notifications on their way to condTimer
    exit,           \* how far Exit has got
    module,         \* the life of each module
    inFlight,       \* history: the modules cancelled with a timer in flight
    fired           \* history: the callbacks run, in order

vars == <<timers, mapTimerById, mapTimerByExpiry, now, thread, vWorkQueue, running,
          deadline, notices, exit, module, inFlight, fired>>

Never == MaxTime + 1
fShutdown == exit # "no"
Ids == DOMAIN timers
Expiry(id) == timers[id].tExpiryAt
Owner(id) == timers[id].walleveKey

\* The order of the multimap: by expiry, then by insertion.
Before(i, j) == Expiry(i) < Expiry(j) \/ (Expiry(i) = Expiry(j) /\ i < j)
IsFirst(id, index) == \A other \in index \ {id} : Before(id, other)

Init ==
    /\ timers = <<>>
    /\ mapTimerById = {} /\ mapTimerByExpiry = {}
    /\ now = 0
    /\ thread = "loop"
    /\ vWorkQueue = <<>>
    /\ running = 0
    /\ deadline = Never
    /\ notices = 0
    /\ exit = "no"
    /\ module = [k \in Module |-> "up"]
    /\ inFlight = {}
    /\ fired = <<>>

threadVars == <<thread, vWorkQueue, running, deadline, fired>>
dockerVars == <<exit, module, inFlight>>
----------------------------------------------------------------------------
(* Modules: their own threads, and the callbacks, set and cancel timers. *)

Acts(k) == module[k] = "up" \/ (thread = "call" /\ Owner(running) = k)

Notify(update) == notices' = notices + (IF update THEN 1 ELSE 0)

\* Mutant of SetTimer: the thread is notified when the timer is the last to expire.
SetTimerNotifyLast(k, nMilliSeconds) ==
    /\ Acts(k) /\ Len(timers) < MaxTimers /\ now + nMilliSeconds <= MaxTime
    /\ timers' = Append(timers, [walleveKey |-> k, tExpiryAt |-> now + nMilliSeconds])
    /\ mapTimerById' = mapTimerById \cup {Len(timers')}
    /\ mapTimerByExpiry' = mapTimerByExpiry \cup {Len(timers')}
    /\ Notify(mapTimerByExpiry # {}
              /\ \A id \in mapTimerByExpiry : Expiry(id) <= now + nMilliSeconds)
    /\ UNCHANGED <<now, threadVars, dockerVars>>

SetTimer(k, nMilliSeconds) ==
    /\ Acts(k) /\ Len(timers) < MaxTimers /\ now + nMilliSeconds <= MaxTime
    /\ timers' = Append(timers, [walleveKey |-> k, tExpiryAt |-> now + nMilliSeconds])
    /\ mapTimerById' = mapTimerById \cup {Len(timers')}
    /\ mapTimerByExpiry' = mapTimerByExpiry \cup {Len(timers')}
    /\ Notify(\A id \in mapTimerByExpiry : now + nMilliSeconds < Expiry(id))
    /\ UNCHANGED <<now, threadVars, dockerVars>>

\* Mutant of Erase: only the index by expiry is cleared.
EraseHalf(ids) ==
    /\ mapTimerByExpiry' = mapTimerByExpiry \ ids
    /\ UNCHANGED mapTimerById
    /\ Notify(\E id \in ids \cap mapTimerByExpiry : IsFirst(id, mapTimerByExpiry))

Erase(ids) ==
    /\ mapTimerByExpiry' = mapTimerByExpiry \ ids
    /\ mapTimerById' = mapTimerById \ ids
    /\ Notify(\E id \in ids \cap mapTimerByExpiry : IsFirst(id, mapTimerByExpiry))

\* A timer is cancelled by its id, whether or not it has expired.
CancelTimer(id) ==
    /\ Acts(Owner(id))
    /\ Erase({id} \cap mapTimerById)
    /\ UNCHANGED <<timers, now, threadVars, dockerVars>>
----------------------------------------------------------------------------
(* The docker ends its modules. *)

\* The module's threads are joined: from here on only callbacks act for it.
HaltModule(k) ==
    /\ module[k] = "up"
    /\ module' = [module EXCEPT ![k] = "halted"]
    /\ UNCHANGED <<timers, mapTimerById, mapTimerByExpiry, now, threadVars, notices,
                   exit, inFlight>>

\* The timers on their way to their callback, or in it.
InFlight == ToSet(vWorkQueue) \cup (IF thread = "call" THEN {running} ELSE {})

\* Mutant of CancelTimers: only the first timer of the module is cancelled.
CancelTimersFirst(k) ==
    LET own == {id \in mapTimerByExpiry \cap mapTimerById : Owner(id) = k} IN
    /\ module[k] = "halted"
    /\ module' = [module EXCEPT ![k] = "cancelled"]
    /\ Erase({id \in own : IsFirst(id, own)})
    /\ inFlight' = inFlight \cup ({k} \cap {Owner(id) : id \in InFlight})
    /\ UNCHANGED <<timers, now, threadVars, exit>>

\* CancelTimers goes through the index by expiry: a timer that the timer thread has
\* taken out of it keeps its entry in the other index, and will fire.
CancelTimers(k) ==
    /\ module[k] = "halted"
    /\ module' = [module EXCEPT ![k] = "cancelled"]
    /\ Erase({id \in mapTimerByExpiry \cap mapTimerById : Owner(id) = k})
    /\ inFlight' = inFlight \cup ({k} \cap {Owner(id) : id \in InFlight})
    /\ UNCHANGED <<timers, now, threadVars, exit>>

\* Run(key) after Halt(key).
RestartModule(k) ==
    /\ module[k] = "cancelled" /\ ~fShutdown
    /\ module' = [module EXCEPT ![k] = "up"]
    /\ inFlight' = inFlight \ {k}
    /\ UNCHANGED <<timers, mapTimerById, mapTimerByExpiry, now, threadVars, notices, exit>>

\* Detach deletes a module without cancelling its timers.
Detach(k) ==
    /\ MayDetach /\ ~fShutdown
    /\ module[k] \in {"halted", "cancelled"}
    /\ module' = [module EXCEPT ![k] = "detached"]
    /\ UNCHANGED <<timers, mapTimerById, mapTimerByExpiry, now, threadVars, notices,
                   exit, inFlight>>

\* Exit sets the flag before it halts the modules ...
ExitBegin ==
    /\ exit = "no"
    /\ exit' = "begun"
    /\ UNCHANGED <<timers, mapTimerById, mapTimerByExpiry, now, threadVars, notices,
                   module, inFlight>>

\* Mutant of ExitDelete: the timer thread is not woken.
ExitDeleteSilent ==
    /\ exit = "begun"
    /\ \A k \in Module : module[k] \in {"cancelled", "detached"}
    /\ exit' = "join"
    /\ module' = [k \in Module |-> IF module[k] = "cancelled" THEN "deleted" ELSE module[k]]
    /\ UNCHANGED <<timers, mapTimerById, mapTimerByExpiry, now, threadVars, notices,
                   inFlight>>

\* ... deletes them when all are halted and cancelled, and then wakes the timer thread,
\* with mtxTimer held, to join it.
ExitDelete ==
    /\ exit = "begun"
    /\ \A k \in Module : module[k] \in {"cancelled", "detached"}
    /\ exit' = "join"
    /\ module' = [k \in Module |-> IF module[k] = "cancelled" THEN "deleted" ELSE module[k]]
    /\ Notify(TRUE)
    /\ UNCHANGED <<timers, mapTimerById, mapTimerByExpiry, now, threadVars, inFlight>>
----------------------------------------------------------------------------
(* TimerProc. *)

Expired == {id \in mapTimerByExpiry : Expiry(id) <= now}
Earliest == CHOOSE id \in mapTimerByExpiry : IsFirst(id, mapTimerByExpiry)

TimerExit ==
    /\ thread = "loop" /\ fShutdown
    /\ thread' = "exited"
    /\ UNCHANGED <<timers, mapTimerById, mapTimerByExpiry, now, vWorkQueue, running,
                   deadline, fired, notices, dockerVars>>

\* Nothing has expired: wait for a notice, or for the first timer to expire.
TimerWait ==
    /\ thread = "loop" /\ ~fShutdown
    /\ Expired = {}
    /\ thread' = "wait"
    /\ deadline' = IF mapTimerByExpiry = {} THEN Never ELSE Expiry(Earliest)
    /\ UNCHANGED <<timers, mapTimerById, mapTimerByExpiry, now, vWorkQueue, running,
                   fired, notices, dockerVars>>

\* The ids in the order of the multimap.
InOrder(ids) ==
    {queue \in SetToSeqs(ids) : \A i, j \in DOMAIN queue : i < j => Before(queue[i], queue[j])}

TimerTake ==
    /\ thread = "loop" /\ ~fShutdown
    /\ Expired # {}
    /\ vWorkQueue' \in InOrder(Expired)
    /\ mapTimerByExpiry' = mapTimerByExpiry \ Expired
    /\ thread' = "work"
    /\ UNCHANGED <<timers, mapTimerById, now, running, deadline, fired, notices,
                   dockerVars>>

\* The next timer of the work queue: fetch its callback, unless it has been cancelled.
TimerNext ==
    /\ thread = "work" /\ vWorkQueue # <<>> /\ ~fShutdown
    /\ LET id == Head(vWorkQueue) IN
       IF id \in mapTimerById
       THEN /\ mapTimerById' = mapTimerById \ {id}
            /\ running' = id
            /\ fired' = Append(fired, id)
            /\ thread' = "call"
       ELSE UNCHANGED <<mapTimerById, running, fired, thread>>
    /\ vWorkQueue' = Tail(vWorkQueue)
    /\ UNCHANGED <<timers, mapTimerByExpiry, now, deadline, notices, dockerVars>>

\* The callback returns.
TimerReturn ==
    /\ thread = "call"
    /\ thread' = "work"
    /\ running' = 0
    /\ UNCHANGED <<timers, mapTimerById, mapTimerByExpiry, now, vWorkQueue, deadline,
                   fired, notices, dockerVars>>

TimerAgain ==
    /\ thread = "work" /\ (vWorkQueue = <<>> \/ fShutdown)
    /\ thread' = "loop"
    /\ vWorkQueue' = <<>>
    /\ UNCHANGED <<timers, mapTimerById, mapTimerByExpiry, now, running, deadline, fired,
                   notices, dockerVars>>

TimerThread ==
    TimerExit \/ TimerWait \/ TimerTake \/ TimerNext \/ TimerReturn \/ TimerAgain

\* The waiting thread wakes: the wait has ended, or condTimer is notified.
DeadlinePasses ==
    /\ thread = "wait" /\ deadline <= now
    /\ thread' = "loop"
    /\ deadline' = Never
    /\ UNCHANGED <<timers, mapTimerById, mapTimerByExpiry, now, vWorkQueue, running,
                   fired, notices, dockerVars>>

NoticeArrives ==
    /\ notices > 0
    /\ notices' = notices - 1
    /\ IF thread = "wait"
       THEN thread' = "loop" /\ deadline' = Never
       ELSE UNCHANGED <<thread, deadline>>
    /\ UNCHANGED <<timers, mapTimerById, mapTimerByExpiry, now, vWorkQueue, running,
                   fired, dockerVars>>

Tick ==
    /\ now < MaxTime
    /\ now' = now + 1
    /\ UNCHANGED <<timers, mapTimerById, mapTimerByExpiry, threadVars, notices,
                   dockerVars>>

Docker ==
    \/ \E k \in Module : HaltModule(k) \/ CancelTimers(k) \/ RestartModule(k) \/ Detach(k)
    \/ ExitBegin \/ ExitDelete

Next ==
    \/ \E k \in Module, d \in Delay : SetTimer(k, d)
    \/ \E id \in Ids : CancelTimer(id)
    \/ Docker \/ TimerThread \/ DeadlinePasses \/ NoticeArrives \/ Tick

Spec == Init /\ [][Next]_vars

\* Threads are scheduled, callbacks return, notifications arrive and time passes.
FairSpec ==
    /\ Spec
    /\ WF_vars(TimerThread) /\ WF_vars(DeadlinePasses) /\ WF_vars(NoticeArrives)
    /\ WF_vars(Tick)
----------------------------------------------------------------------------
TypeOK ==
    /\ timers \in Seq([walleveKey : Module, tExpiryAt : 0..MaxTime])
    /\ mapTimerById \subseteq Ids
    /\ mapTimerByExpiry \subseteq Ids
    /\ now \in 0..MaxTime
    /\ thread \in {"loop", "wait", "work", "call", "exited"}
    /\ vWorkQueue \in Seq(Ids)
    /\ running \in Ids \cup {0}
    /\ deadline \in 0..Never
    /\ notices \in Nat
    /\ exit \in {"no", "begun", "join"}
    /\ module \in [Module -> {"up", "halted", "cancelled", "detached", "deleted"}]
    /\ inFlight \subseteq Module
    /\ fired \in Seq(Ids)

\* The two indexes hold the same timers, except those that have expired and wait in the
\* work queue for their callback; those of a loop that ends are abandoned at shutdown.
IndexesAgree ==
    /\ mapTimerByExpiry \subseteq mapTimerById
    /\ ~fShutdown => mapTimerById \subseteq mapTimerByExpiry \cup ToSet(vWorkQueue)

\* A waiting timer thread never oversleeps: it wakes before the first timer expires, or a
\* notice is on its way to it.
NeverOversleeps ==
    thread = "wait" =>
        notices > 0 \/ \A id \in mapTimerByExpiry : deadline <= Expiry(id)

\* A module that is gone is called back only if it was detached, or if a timer of its was
\* in flight when its timers were cancelled (and the callback may set more of them).
NoLateCallback ==
    thread = "call" /\ module[Owner(running)] \in {"cancelled", "detached", "deleted"} =>
        module[Owner(running)] = "detached" \/ Owner(running) \in inFlight

\* Cancelling the timers of a module leaves none behind, unless one was in flight (it may
\* set more) or the docker exits (the work queue is abandoned and nothing fires).
NoTimerLeft ==
    \A id \in mapTimerById : module[Owner(id)] = "cancelled" =>
        fShutdown \/ Owner(id) \in inFlight

\* Every timer fires or is cancelled, unless the docker exits.
EveryTimerFires ==
    \A id \in 1..MaxTimers : id \in mapTimerById ~> (id \notin mapTimerById \/ fShutdown)

\* The timer thread ends, so that Exit can join it.
ExitJoins == exit = "join" ~> thread = "exited"

\* No timer is lost between the indexes, and none is left of a module that has gone
\* (docker.cpp:471).
TimersKept == IndexesAgree /\ NoTimerLeft

\* Callbacks come in time, and not to modules that have gone.
CallbacksTimely == NeverOversleeps /\ NoLateCallback

\* Timers end, and so does their thread.
TimersEnd == EveryTimerFires /\ ExitJoins
=============================================================================
