----------------------------- MODULE EventProc -----------------------------
(***************************************************************************)
(* CWalleveEventProc: one module's event queue, the thread that serves it, *)
(* and the docker thread that invokes and halts it, possibly repeatedly    *)
(* (CWalleveDocker::Run(key) and Halt(key)).  Posters are the IO threads   *)
(* of other modules: they post whether or not the thread runs.             *)
(*                                                                         *)
(* Events are numbered in the order they are posted.                       *)
(***************************************************************************)
EXTENDS Naturals, Sequences

CONSTANTS MaxPosts,        \* bound: events posted in a behaviour
          MaxInvokes,      \* bound: times the module is invoked
          HandlerMayFail   \* whether a handler may return false

ASSUME EventProcAssumption ==
    /\ MaxPosts \in Nat
    /\ MaxInvokes \in Nat
    /\ HandlerMayFail \in BOOLEAN

VARIABLES que, fAbort,
          thread,     \* program counter of EventThreadFunc
          pEvent,     \* the event the thread holds, 0 if none
          module,     \* where the docker is in Invoke and Halt
          nPosted,    \* events posted so far
          nInvoked,   \* times invoked so far
          mark,       \* nPosted at the Reset of the last Invoke
          handled     \* history: the events handled, in order

vars == <<que, fAbort, thread, pEvent, module, nPosted, nInvoked, mark, handled>>

Q == INSTANCE EventQueue

Init ==
    /\ que = <<>>
    /\ fAbort = FALSE
    /\ thread = "none"
    /\ pEvent = 0
    /\ module = "down"
    /\ nPosted = 0
    /\ nInvoked = 0
    /\ mark = 0
    /\ handled = <<>>
----------------------------------------------------------------------------
\* Mutant of PostEvent: the number is taken before it is incremented.
PostEventFromZero ==
    /\ nPosted < MaxPosts
    /\ nPosted' = nPosted + 1
    /\ Q!AddNew(nPosted)
    /\ UNCHANGED <<thread, pEvent, module, nInvoked, mark, handled>>

\* PostEvent, by any thread.
PostEvent ==
    /\ nPosted < MaxPosts
    /\ nPosted' = nPosted + 1
    /\ Q!AddNew(nPosted + 1)
    /\ UNCHANGED <<thread, pEvent, module, nInvoked, mark, handled>>

\* WalleveHandleInvoke: Reset, then start the thread.
InvokeReset ==
    /\ module = "down"
    /\ nInvoked < MaxInvokes
    /\ nInvoked' = nInvoked + 1
    /\ Q!Reset
    /\ mark' = nPosted
    /\ module' = "starting"
    /\ UNCHANGED <<thread, pEvent, nPosted, handled>>

InvokeStart ==
    /\ module = "starting"
    /\ module' = "up"
    /\ thread' = "fetch"
    /\ UNCHANGED <<que, fAbort, pEvent, nPosted, nInvoked, mark, handled>>

\* WalleveHandleHalt: Interrupt, then join the thread.
HaltInterrupt ==
    /\ module = "up"
    /\ Q!Interrupt
    /\ module' = "joining"
    /\ UNCHANGED <<thread, pEvent, nPosted, nInvoked, mark, handled>>

HaltJoin ==
    /\ module = "joining"
    /\ thread = "exited"
    /\ thread' = "none"
    /\ module' = "down"
    /\ UNCHANGED <<que, fAbort, pEvent, nPosted, nInvoked, mark, handled>>
----------------------------------------------------------------------------
\* EventThreadFunc: Fetch, Handle, Reset the queue if the handler failed, Free.
FetchEvent ==
    /\ thread = "fetch"
    /\ Q!Fetch(pEvent')
    /\ thread' = "handle"
    /\ UNCHANGED <<module, nPosted, nInvoked, mark, handled>>

FetchExit ==
    /\ thread = "fetch"
    /\ Q!FetchNull
    /\ thread' = "exited"
    /\ UNCHANGED <<pEvent, module, nPosted, nInvoked, mark, handled>>

HandleEvent(fResult) ==
    /\ thread = "handle"
    /\ handled' = Append(handled, pEvent)
    /\ thread' = IF fResult THEN "free" ELSE "reset"
    /\ UNCHANGED <<que, fAbort, pEvent, module, nPosted, nInvoked, mark>>

ResetAfterFailure ==
    /\ thread = "reset"
    /\ Q!Reset
    /\ thread' = "free"
    /\ UNCHANGED <<pEvent, module, nPosted, nInvoked, mark, handled>>

FreeEvent ==
    /\ thread = "free"
    /\ pEvent' = 0
    /\ thread' = "fetch"
    /\ UNCHANGED <<que, fAbort, module, nPosted, nInvoked, mark, handled>>

EventThread ==
    \/ FetchEvent
    \/ FetchExit
    \/ \E fResult \in {TRUE, ~HandlerMayFail} : HandleEvent(fResult)
    \/ ResetAfterFailure
    \/ FreeEvent

Docker == InvokeReset \/ InvokeStart \/ HaltInterrupt \/ HaltJoin

Next == PostEvent \/ Docker \/ EventThread

Spec == Init /\ [][Next]_vars

\* The two threads are scheduled; nothing obliges the docker to halt a module.
FairSpec == Spec /\ WF_vars(EventThread) /\ WF_vars(InvokeStart) /\ WF_vars(HaltJoin)
----------------------------------------------------------------------------
TypeOK ==
    /\ que \in Seq(1..MaxPosts)
    /\ fAbort \in BOOLEAN
    /\ thread \in {"none", "fetch", "handle", "reset", "free", "exited"}
    /\ pEvent \in 0..MaxPosts
    /\ module \in {"down", "starting", "up", "joining"}
    /\ nPosted \in 0..MaxPosts
    /\ nInvoked \in 0..MaxInvokes
    /\ mark \in 0..nPosted
    /\ handled \in Seq(1..MaxPosts)

\* Events are handled in the order in which they were posted, each at most once,
\* whatever resets, halts and restarts come in between.
HandledInOrder ==
    \A i \in 1..Len(handled) - 1 : handled[i] < handled[i + 1]

\* A restarted module never handles an event posted before its last Invoke: what
\* the previous run left in the queue (events posted after its Interrupt, while
\* the docker joined the thread or the module was down) is freed by the Reset.
NoStaleEvent ==
    thread = "handle" => pEvent > mark

\* Events reach their handlers in order, once, and never from an earlier run
\* (eventproc.cpp:23, 47).
EventsInOrder == HandledInOrder /\ NoStaleEvent

\* When handlers fail, a Halt returns unless the Reset that follows a failed
\* event has cleared the abort flag that the Interrupt had just set.
HaltReturnsUnlessReset ==
    module = "joining" ~> (module = "down" \/ (module = "joining" /\ ~fAbort))
============================================================================
