----------------------------- MODULE RpcClient -----------------------------
(***************************************************************************)
(* The remote calls of LuaShell, end to end inside the process: the        *)
(* console thread that runs the Lua script (rpc.lua and CInteractive), the *)
(* event thread of CRPCClient that handles the replies, and the HTTP       *)
(* client behind them, of which only the contract is kept: a request it    *)
(* accepted is answered by one event posted to CRPCClient's queue, or      *)
(* never (the module HttpGet says which ones are answered).                *)
(*                                                                         *)
(* A script is a main chunk and a set of tasks.  The main chunk starts     *)
(* each task as a coroutine with rpc.asyncstart, calls rpcasyncwait to let *)
(* replies resume the coroutines, makes synchronous calls and returns.  A  *)
(* call made inside a coroutine is asynchronous: it carries the            *)
(* coroutine's nonce and yields.  A call of the main chunk carries nonce 0 *)
(* and blocks the console thread.                                          *)
(*                                                                         *)
(* std::map and the counters of the response ring are read and written by  *)
(* the two threads without a lock.  Each access is one atomic step here,   *)
(* so the model shows every interleaving of the accesses and leaves out    *)
(* what the C++ data race itself may do to the containers.                 *)
(***************************************************************************)
EXTENDS Naturals, Sequences, FiniteSets, TLC

CONSTANTS Task,         \* the coroutines a script starts
          TaskCalls,    \* bound: calls each task makes
          SyncCalls,    \* bound: synchronous calls of the main chunk
          RingSize,     \* nMaxRespSize
          Outcome       \* what a reply may be: see Outcomes

\* "object": status 200, a JSON object; "value": status 200, anything else;
\* "error": any other status, the HTTP client's own error codes included.
Outcomes == {"object", "value", "error"}

ASSUME RpcClientAssumption ==
    /\ IsFiniteSet(Task)
    /\ TaskCalls \in Nat
    /\ SyncCalls \in Nat
    /\ RingSize \in Nat \ {0}
    /\ Cardinality(Task) <= RingSize
    /\ Outcome \subseteq Outcomes
    /\ {"main", "none"} \cap Task = {}

Main == "main"
None == "none"
Caller == Task \cup {Main}

VARIABLES
    \* rpc.lua and the Lua coroutines
    nonce, idlenonce,    \* the next fresh nonce, the stack of released ones
    cononce,             \* nonce of each task, 0 if it has none
    started,             \* the tasks that asyncstart has been called for
    failed,              \* the tasks whose coroutine has ended with an error
    ncalls,              \* calls each caller has made
    \* console thread
    con,                 \* its program counter
    cur,                 \* the coroutine that runs, if any
    resumer,             \* what runs again when it yields or ends
    reply,               \* the call whose reply the console has just received
    mapAsyncLuaState,    \* nonce -> the coroutine to resume
    \* shared by the console thread and the event thread
    mapAsyncCallback,    \* the nonces with a registered callback
    vecAsyncResp, nRead, nWrite,
    ioComplt,            \* the completion a synchronous call waits for
    jsonRsp,             \* the call whose reply object is stored
    \* event thread and HTTP client
    que, fAbort,
    evt,                 \* program counter of the event thread
    pEvent,              \* the reply it handles
    http,                \* the requests accepted and not answered
    freed,               \* history: calls whose queued reply was freed unhandled
    raced                \* history: calls without a callback when their reply came, as
                         \* it was stored too late or erased with the one before it

luaVars == <<nonce, idlenonce, cononce, started, failed>>
conVars == <<con, cur, resumer, reply, mapAsyncLuaState>>
ringVars == <<vecAsyncResp, nRead, nWrite>>
syncVars == <<ioComplt, jsonRsp>>
queVars == <<que, fAbort>>
evtVars == <<evt, pEvent>>
lostVars == <<freed, raced>>
vars == <<luaVars, ncalls, conVars, mapAsyncCallback, ringVars, syncVars,
          queVars, evtVars, http, lostVars>>

Q == INSTANCE EventQueue

\* A call is named by its caller and its number, for the properties to tell which
\* call a reply answers; the code has only the nonce to go by.
NoCall == [caller |-> None, number |-> 0]
Call == [caller : Caller, number : Nat]
CallOf(c) == [caller |-> c, number |-> ncalls[c]]
NextCall(c) == [caller |-> c, number |-> ncalls[c] + 1]

Nonces == 0..Cardinality(Task)

Init ==
    /\ nonce = 1
    /\ idlenonce = <<>>
    /\ cononce = [t \in Task |-> 0]
    /\ started = {}
    /\ failed = {}
    /\ ncalls = [c \in Caller |-> 0]
    /\ con = "main"
    /\ cur = None
    /\ resumer = None
    /\ reply = NoCall
    /\ mapAsyncLuaState = [n \in Nonces |-> None]
    /\ mapAsyncCallback = {}
    /\ vecAsyncResp = [i \in 0..RingSize - 1 |-> [nonce |-> 0, call |-> NoCall]]
    /\ nRead = 0
    /\ nWrite = 0
    /\ ioComplt = [fResult |-> FALSE, fCompleted |-> FALSE]
    /\ jsonRsp = NoCall
    /\ que = <<>>
    /\ fAbort = FALSE
    /\ evt = "fetch"
    /\ pEvent = [nonce |-> 0, call |-> NoCall, outcome |-> "error"]
    /\ http = {}
    /\ freed = {}
    /\ raced = {}
----------------------------------------------------------------------------
(***************************************************************************)
(* The console thread: rpc.lua and CInteractive's Lua functions.           *)
(***************************************************************************)

\* rpc.asyncstart: take a released nonce or a fresh one, create the coroutine and
\* run it up to its first yield.
AsyncStart(t) ==
    /\ con = "main"
    /\ t \notin started
    /\ started' = started \cup {t}
    /\ IF idlenonce # <<>>
       THEN /\ cononce' = [cononce EXCEPT ![t] = idlenonce[Len(idlenonce)]]
            /\ idlenonce' = SubSeq(idlenonce, 1, Len(idlenonce) - 1)
            /\ UNCHANGED nonce
       ELSE /\ cononce' = [cononce EXCEPT ![t] = nonce]
            /\ nonce' = nonce + 1
            /\ UNCHANGED idlenonce
    /\ cur' = t
    /\ resumer' = "main"
    /\ con' = "lua"
    /\ UNCHANGED <<failed, ncalls, reply, mapAsyncLuaState, mapAsyncCallback,
                   ringVars, syncVars, queVars, evtVars, http, lostVars>>

\* The coroutine's function returns: its nonce is released.  Control goes back to
\* asyncstart, or to the rpcasyncwait that resumed the coroutine.
TaskReturn ==
    /\ con = "lua"
    /\ ncalls[cur] = TaskCalls
    /\ idlenonce' = Append(idlenonce, cononce[cur])
    /\ cononce' = [cononce EXCEPT ![cur] = 0]
    /\ cur' = None
    /\ con' = IF resumer = "wait" THEN "advance" ELSE "main"
    /\ resumer' = None
    /\ reply' = NoCall
    /\ UNCHANGED <<nonce, started, failed, ncalls, mapAsyncLuaState,
                   mapAsyncCallback, ringVars, syncVars, queVars, evtVars, http,
                   lostVars>>

\* The coroutine's function raises a Lua error.  Neither asyncstart nor rpcasyncwait
\* looks at the status of the resume, and the nonce is never released.
TaskFail ==
    /\ con = "lua"
    /\ failed' = failed \cup {cur}
    /\ cur' = None
    /\ con' = IF resumer = "wait" THEN "advance" ELSE "main"
    /\ resumer' = None
    /\ reply' = NoCall
    /\ UNCHANGED <<nonce, idlenonce, cononce, started, ncalls, mapAsyncLuaState,
                   mapAsyncCallback, ringVars, syncVars, queVars, evtVars, http,
                   lostVars>>

\* L_RPCAsyncCall up to the hand-over of the request: GetResponse resets the
\* completion and DispatchEvent returns once the HTTP client has accepted the event.
AsyncDispatch ==
    /\ con = "lua"
    /\ ncalls[cur] < TaskCalls
    /\ ncalls' = [ncalls EXCEPT ![cur] = @ + 1]
    /\ ioComplt' = [fResult |-> FALSE, fCompleted |-> FALSE]
    /\ http' = http \cup {[nonce |-> cononce[cur], call |-> NextCall(cur)]}
    /\ con' = "register"
    /\ reply' = NoCall
    /\ UNCHANGED <<luaVars, cur, resumer, mapAsyncLuaState, mapAsyncCallback,
                   ringVars, jsonRsp, queVars, evtVars, lostVars>>

\* GetResponse has reset the completion when its DispatchEvent fails; parameters that
\* are refused do not get there.
ResetOrNot == ioComplt' \in {ioComplt, [fResult |-> FALSE, fCompleted |-> FALSE]}

\* L_RPCAsyncCall with parameters it rejects, or a DispatchEvent that fails: the
\* call returns an error to the coroutine, which goes on running.
AsyncReject ==
    /\ con = "lua"
    /\ ncalls[cur] < TaskCalls
    /\ ncalls' = [ncalls EXCEPT ![cur] = @ + 1]
    /\ reply' = NoCall
    /\ ResetOrNot
    /\ UNCHANGED <<luaVars, con, cur, resumer, mapAsyncLuaState, mapAsyncCallback,
                   ringVars, jsonRsp, queVars, evtVars, http, lostVars>>

\* Mutant of AsyncRegister: the call does not yield.
AsyncRegisterNoYield ==
    /\ con = "register"
    /\ mapAsyncCallback' = mapAsyncCallback \cup {cononce[cur]}
    /\ mapAsyncLuaState' = [mapAsyncLuaState EXCEPT ![cononce[cur]] = cur]
    /\ con' = "lua"
    /\ UNCHANGED <<luaVars, ncalls, cur, resumer, reply, ringVars, syncVars, queVars,
                   evtVars, http, lostVars>>

\* Only now does CallAsyncRPC store the callback; L_RPCAsyncCall then records the
\* coroutine and yields.
AsyncRegister ==
    /\ con = "register"
    /\ mapAsyncCallback' = mapAsyncCallback \cup {cononce[cur]}
    /\ mapAsyncLuaState' = [mapAsyncLuaState EXCEPT ![cononce[cur]] = cur]
    /\ cur' = None
    /\ con' = IF resumer = "wait" THEN "advance" ELSE "main"
    /\ resumer' = None
    /\ UNCHANGED <<luaVars, ncalls, reply, ringVars, syncVars, queVars, evtVars,
                   http, lostVars>>

\* L_RPCAsyncWait: lock the mutex and drain the ring.
WaitEnter ==
    /\ con = "main"
    /\ con' = "drain"
    /\ UNCHANGED <<luaVars, ncalls, cur, resumer, reply, mapAsyncLuaState,
                   mapAsyncCallback, ringVars, syncVars, queVars, evtVars, http,
                   lostVars>>

Slot(i) == i % RingSize

\* Take the oldest response and resume the coroutine recorded for its nonce; a
\* response without a recorded coroutine is passed over.
WaitRespond ==
    /\ con = "drain"
    /\ nRead # nWrite
    /\ LET resp == vecAsyncResp[Slot(nRead)]
           L == mapAsyncLuaState[resp.nonce]
       IN IF L # None
          THEN /\ cur' = L
               /\ reply' = resp.call
               /\ resumer' = "wait"
               /\ con' = "lua"
          ELSE /\ con' = "advance"
               /\ UNCHANGED <<cur, reply, resumer>>
    /\ UNCHANGED <<luaVars, ncalls, mapAsyncLuaState, mapAsyncCallback, ringVars,
                   syncVars, queVars, evtVars, http, lostVars>>

\* ++nRead, only after the coroutine has yielded again or ended.
WaitAdvance ==
    /\ con = "advance"
    /\ nRead' = nRead + 1
    /\ con' = "drain"
    /\ UNCHANGED <<luaVars, ncalls, cur, resumer, reply, mapAsyncLuaState,
                   mapAsyncCallback, vecAsyncResp, nWrite, syncVars, queVars,
                   evtVars, http, lostVars>>

\* wait_until evaluates its predicate, finds the ring empty and is about to block.
\* The mutex it holds does not protect nWrite: a reply pushed and notified between
\* this step and the next is not noticed before the deadline.
WaitPark ==
    /\ con = "drain"
    /\ nRead = nWrite
    /\ con' = "park"
    /\ UNCHANGED <<luaVars, ncalls, cur, resumer, reply, mapAsyncLuaState,
                   mapAsyncCallback, ringVars, syncVars, queVars, evtVars, http,
                   lostVars>>

WaitBlock ==
    /\ con = "park"
    /\ con' = "blocked"
    /\ UNCHANGED <<luaVars, ncalls, cur, resumer, reply, mapAsyncLuaState,
                   mapAsyncCallback, ringVars, syncVars, queVars, evtVars, http,
                   lostVars>>

\* Mutant of WaitTimeout: the wait has no deadline.
WaitForNotice == FALSE

\* The deadline passes: wait_until evaluates the predicate once more and returns it.
WaitTimeout ==
    /\ con \in {"park", "blocked"}
    /\ con' = IF nRead # nWrite THEN "drain" ELSE "main"
    /\ UNCHANGED <<luaVars, ncalls, cur, resumer, reply, mapAsyncLuaState,
                   mapAsyncCallback, ringVars, syncVars, queVars, evtVars, http,
                   lostVars>>

\* Mutant of SyncDispatch: the completion is not reset.
SyncDispatchNoReset ==
    /\ con = "main"
    /\ ncalls[Main] < SyncCalls
    /\ ncalls' = [ncalls EXCEPT ![Main] = @ + 1]
    /\ http' = http \cup {[nonce |-> 0, call |-> NextCall(Main)]}
    /\ con' = "syncwait"
    /\ UNCHANGED <<luaVars, cur, resumer, reply, mapAsyncLuaState,
                   mapAsyncCallback, ringVars, syncVars, queVars, evtVars, lostVars>>

\* L_RPCCall and L_RPCJson in the main chunk: CallRPC dispatches the request ...
SyncDispatch ==
    /\ con = "main"
    /\ ncalls[Main] < SyncCalls
    /\ ncalls' = [ncalls EXCEPT ![Main] = @ + 1]
    /\ ioComplt' = [fResult |-> FALSE, fCompleted |-> FALSE]
    /\ http' = http \cup {[nonce |-> 0, call |-> NextCall(Main)]}
    /\ con' = "syncwait"
    /\ UNCHANGED <<luaVars, cur, resumer, reply, mapAsyncLuaState,
                   mapAsyncCallback, ringVars, jsonRsp, queVars, evtVars, lostVars>>

\* The same calls refused, or not dispatched: they return an error at once.
SyncReject ==
    /\ con = "main"
    /\ ncalls[Main] < SyncCalls
    /\ ncalls' = [ncalls EXCEPT ![Main] = @ + 1]
    /\ ResetOrNot
    /\ UNCHANGED <<luaVars, conVars, mapAsyncCallback, ringVars, jsonRsp, queVars, evtVars,
                   http, lostVars>>

\* CallRPC waits for its completion; on success it returns the stored object.
SyncReturn ==
    /\ con = "syncwait"
    /\ ioComplt.fCompleted
    /\ reply' = IF ioComplt.fResult THEN jsonRsp ELSE NoCall
    /\ con' = "syncdone"
    /\ UNCHANGED <<luaVars, ncalls, cur, resumer, mapAsyncLuaState,
                   mapAsyncCallback, ringVars, syncVars, queVars, evtVars, http,
                   lostVars>>

SyncDone ==
    /\ con = "syncdone"
    /\ con' = "main"
    /\ reply' = NoCall
    /\ UNCHANGED <<luaVars, ncalls, cur, resumer, mapAsyncLuaState,
                   mapAsyncCallback, ringVars, syncVars, queVars, evtVars, http,
                   lostVars>>

\* The script ends; ExecuteCommand shuts the program down.  The docker joins the
\* console thread before it halts CRPCClient, whose Interrupt is modelled here.
ScriptReturn ==
    /\ con = "main"
    /\ con' = "returned"
    /\ UNCHANGED <<luaVars, ncalls, cur, resumer, reply, mapAsyncLuaState,
                   mapAsyncCallback, ringVars, syncVars, queVars, evtVars, http,
                   lostVars>>

Halt ==
    /\ con = "returned"
    /\ con' = "halted"
    /\ Q!Interrupt
    /\ freed' = freed \cup {que[i].call : i \in DOMAIN que}
    /\ UNCHANGED <<luaVars, ncalls, cur, resumer, reply, mapAsyncLuaState,
                   mapAsyncCallback, ringVars, syncVars, evtVars, http, raced>>
----------------------------------------------------------------------------
(***************************************************************************)
(* The HTTP client answers a request: one event in CRPCClient's queue.     *)
(***************************************************************************)
Answer(request, outcome) ==
    /\ request \in http
    /\ http' = http \ {request}
    /\ Q!AddNew([nonce |-> request.nonce, call |-> request.call, outcome |-> outcome])
    /\ UNCHANGED <<luaVars, ncalls, conVars, mapAsyncCallback, ringVars, syncVars,
                   evtVars, lostVars>>
----------------------------------------------------------------------------
(***************************************************************************)
(* The event thread: EventThreadFunc and CRPCClient::HandleEvent.          *)
(***************************************************************************)
fRet == pEvent.outcome # "error"        \* what HandleEvent returns

Handled == IF fRet THEN "fetch" ELSE "reset"

FetchReply ==
    /\ evt = "fetch"
    /\ Q!Fetch(pEvent')
    /\ evt' = "handle"
    /\ UNCHANGED <<luaVars, ncalls, conVars, mapAsyncCallback, ringVars, syncVars,
                   http, lostVars>>

FetchNull ==
    /\ evt = "fetch"
    /\ Q!FetchNull
    /\ evt' = "exited"
    /\ UNCHANGED <<luaVars, ncalls, conVars, mapAsyncCallback, ringVars, syncVars,
                   pEvent, http, lostVars>>

\* The reply of a synchronous call: store an object, complete the call.
HandleSyncReply ==
    /\ evt = "handle"
    /\ pEvent.nonce = 0
    /\ jsonRsp' = IF pEvent.outcome = "object" THEN pEvent.call ELSE jsonRsp
    /\ ioComplt' = [fResult |-> fRet, fCompleted |-> TRUE]
    /\ evt' = Handled
    /\ UNCHANGED <<luaVars, ncalls, conVars, mapAsyncCallback, ringVars, queVars,
                   pEvent, http, lostVars>>

\* The reply of an asynchronous call: nobody takes it when its nonce has no
\* callback, else the callback pushes it to the console's ring.
HandleAsyncReply ==
    /\ evt = "handle"
    /\ pEvent.nonce # 0
    /\ IF pEvent.nonce \in mapAsyncCallback
       THEN evt' = "push" /\ UNCHANGED raced
       ELSE /\ evt' = Handled
            /\ raced' = IF con = "register" /\ pEvent.call.caller = cur
                        THEN raced \cup {pEvent.call} ELSE raced
    /\ UNCHANGED <<luaVars, ncalls, conVars, mapAsyncCallback, ringVars, syncVars,
                   queVars, pEvent, http, freed>>

\* RPCAsyncCallback: write the slot, then ++nWrite, then notify; no lock is held.
PushWrite ==
    /\ evt = "push"
    /\ vecAsyncResp' = [vecAsyncResp EXCEPT
           ![Slot(nWrite)] = [nonce |-> pEvent.nonce, call |-> pEvent.call]]
    /\ evt' = "count"
    /\ UNCHANGED <<luaVars, ncalls, conVars, mapAsyncCallback, nRead, nWrite,
                   syncVars, queVars, pEvent, http, lostVars>>

PushCount ==
    /\ evt = "count"
    /\ nWrite' = nWrite + 1
    /\ evt' = "notify"
    /\ UNCHANGED <<luaVars, ncalls, conVars, mapAsyncCallback, vecAsyncResp, nRead,
                   syncVars, queVars, pEvent, http, lostVars>>

PushNotify ==
    /\ evt = "notify"
    /\ con' = IF con = "blocked" THEN "drain" ELSE con
    /\ evt' = "erase"
    /\ UNCHANGED <<luaVars, ncalls, cur, resumer, reply, mapAsyncLuaState,
                   mapAsyncCallback, ringVars, syncVars, queVars, pEvent, http,
                   lostVars>>

\* The calls under the nonce of the reply at hand whose callback is stored already, though
\* they were made after the callback of that reply had run.
Later == {CallOf(t) : t \in {u \in Task : /\ cononce[u] = pEvent.nonce
                                         /\ CallOf(u) # pEvent.call
                                         /\ ~(con = "register" /\ cur = u)}}

\* mapAsyncCallback.erase, after the callback has returned.
EraseCallback ==
    /\ evt = "erase"
    /\ mapAsyncCallback' = mapAsyncCallback \ {pEvent.nonce}
    /\ raced' = raced \cup Later
    /\ evt' = Handled
    /\ UNCHANGED <<luaVars, ncalls, conVars, ringVars, syncVars, queVars, pEvent,
                   http, freed>>

\* HandleEvent returned false: every other queued reply is freed.
ResetQueue ==
    /\ evt = "reset"
    /\ Q!Reset
    /\ freed' = freed \cup {que[i].call : i \in DOMAIN que}
    /\ evt' = "fetch"
    /\ UNCHANGED <<luaVars, ncalls, conVars, mapAsyncCallback, ringVars, syncVars,
                   pEvent, http, raced>>
----------------------------------------------------------------------------
Script ==
    \/ \E t \in Task : AsyncStart(t)
    \/ WaitEnter
    \/ SyncDispatch
    \/ SyncReject
    \/ ScriptReturn

Console ==
    \/ TaskReturn \/ TaskFail \/ AsyncDispatch \/ AsyncReject \/ AsyncRegister
    \/ WaitRespond \/ WaitAdvance \/ WaitPark \/ WaitBlock \/ WaitTimeout
    \/ SyncReturn \/ SyncDone \/ Halt

EventThread ==
    \/ FetchReply \/ FetchNull
    \/ HandleSyncReply \/ HandleAsyncReply
    \/ PushWrite \/ PushCount \/ PushNotify \/ EraseCallback
    \/ ResetQueue

HttpClient == \E request \in http, outcome \in Outcome : Answer(request, outcome)

\* Both threads are gone: the program stops here.
Finished ==
    /\ con = "halted"
    /\ evt = "exited"
    /\ UNCHANGED vars

Next == Script \/ Console \/ EventThread \/ HttpClient \/ Finished

Spec == Init /\ [][Next]_vars

\* The operating system schedules both threads, and the script does not stop in the
\* middle.  Nothing obliges the HTTP client to answer: the timer of a synchronous request
\* has no effect (ioproc.cpp:359), and a request whose connection is reset before its
\* connect handler runs stays behind in mapRequest (httpget.cpp:299).
FairSpec ==
    /\ Spec
    /\ WF_vars(Script \/ Console)
    /\ WF_vars(EventThread)
----------------------------------------------------------------------------
Request == [nonce : Nonces, call : Call]
Response == [nonce : Nonces, call : Call \cup {NoCall}]

TypeOK ==
    /\ nonce \in 1..Cardinality(Task) + 1
    /\ idlenonce \in Seq(Nonces \ {0})
    /\ cononce \in [Task -> Nonces]
    /\ started \subseteq Task
    /\ failed \subseteq started
    /\ ncalls \in [Caller -> Nat]
    /\ con \in {"main", "lua", "register", "drain", "advance", "park", "blocked",
                "syncwait", "syncdone", "returned", "halted"}
    /\ cur \in Task \cup {None}
    /\ resumer \in {None, "main", "wait"}
    /\ reply \in Call \cup {NoCall}
    /\ mapAsyncLuaState \in [Nonces -> Task \cup {None}]
    /\ mapAsyncCallback \subseteq Nonces
    /\ vecAsyncResp \in [0..RingSize - 1 -> Response]
    /\ nRead \in Nat
    /\ nWrite \in Nat
    /\ ioComplt \in [fResult : BOOLEAN, fCompleted : BOOLEAN]
    /\ jsonRsp \in Call \cup {NoCall}
    /\ que \in Seq([nonce : Nonces, call : Call, outcome : Outcomes])
    /\ fAbort \in BOOLEAN
    /\ evt \in {"fetch", "handle", "push", "count", "notify", "erase", "reset", "exited"}
    /\ pEvent \in [nonce : Nonces, call : Call \cup {NoCall}, outcome : Outcomes]
    /\ http \subseteq Request
    /\ freed \subseteq Call
    /\ raced \subseteq Call

\* The first response of the ring that the console has not taken yet: nRead still
\* points at the one it has taken while the coroutine it resumed runs.
FirstUnread == IF con = "advance" \/ resumer = "wait" THEN nRead + 1 ELSE nRead

InHttp(c) == {r \in http : r.call.caller = c}
InQueue(c) == {i \in DOMAIN que : que[i].call.caller = c}
InHand(c) == {e \in {pEvent} : evt \in {"handle", "push", "count"} /\ e.call.caller = c}
InRing(c) == {i \in FirstUnread..nWrite - 1 : vecAsyncResp[Slot(i)].call.caller = c}

Outstanding(c) ==
    Cardinality(InHttp(c)) + Cardinality(InQueue(c)) + Cardinality(InHand(c))
        + Cardinality(InRing(c))

\* A caller has at most one reply on its way at any time: in the HTTP client, in
\* the event queue, in the hands of the event thread or unread in the ring.  The
\* nonce can stand for the call only because of this.
OneReplyPerCaller == \A c \in Caller : Outstanding(c) <= 1

\* A coroutine that rpcasyncwait resumes has not ended, and is given the reply of the
\* call it made last: never the reply of an earlier call, nor that of another coroutine that
\* had the same nonce before (rpc.lua hands released nonces out again, and
\* mapAsyncLuaState is never cleaned).
AsyncReplyIsOwn ==
    con = "lua" /\ reply # NoCall =>
        reply = CallOf(cur) /\ cononce[cur] # 0 /\ cur \notin failed

\* A synchronous call that succeeds returns the object of its own reply, not the
\* object an earlier call has left in jsonRsp.
SyncReplyIsOwn ==
    con = "syncdone" /\ reply # NoCall => reply = CallOf(Main)

\* The event thread never overwrites a response the console has not taken, though
\* RPCAsyncCallback does not compare nWrite with nRead: there are no more
\* coroutines than slots and none has two replies on its way.
RingNotOverrun == nWrite - FirstUnread <= RingSize

\* The HTTP client has posted the reply of the last call of c.
Answered(c) == InHttp(c) = {}

\* A synchronous call returns once its reply has been posted, whatever it says: test.lua:24
\* prints what every call of a loop returns, errors included.
SyncCallReturns == con = "syncwait" /\ Answered(Main) ~> con = "syncdone"

SyncReturns ==
    con = "syncwait" /\ Answered(Main) ~> con = "syncdone" \/ CallOf(Main) \in freed

\* A suspended coroutine whose reply was posted is resumed, failed replies included, unless
\* the reply was freed with those queued behind a failed one, or found no callback in one
\* of the two races for it, or the console waits for a synchronous call that does not
\* return, or the script has ended.  A notification lost between the predicate of
\* wait_until and its block only delays it to the deadline.
Suspended(t) == t \in started \ failed /\ cononce[t] # 0 /\ cur # t

AsyncReturns ==
    \A t \in Task :
        Suspended(t) /\ Answered(t) ~> \/ cur = t
                                      \/ CallOf(t) \in freed \cup raced
                                      \/ /\ con = "syncwait"
                                         /\ ~Answered(Main) \/ CallOf(Main) \in freed
                                      \/ con \in {"returned", "halted"}

\* Every call that is answered returns, of either kind (rpcclient.cpp:64, interactive.cpp:446).
CallsReturn == SyncReturns /\ AsyncReturns

\* Whatever replies fail, come late or are dropped, each caller is given the reply of its own
\* call, one at a time, and none is overwritten (rpc.lua:450, interactive.cpp:500).
RepliesMatched == OneReplyPerCaller /\ AsyncReplyIsOwn /\ RingNotOverrun

\* Tasks are interchangeable: a run that checks safety may use that.
TaskSymmetry == Permutations(Task)
============================================================================
