-------------------------- MODULE RpcClientProofs --------------------------
(***************************************************************************)
(* Proofs about RpcClient for every finite set of tasks, any number of     *)
(* calls and any ring with a slot for each task: every reply reaches the   *)
(* call it answers, one at a time, and none is overwritten.                *)
(*                                                                         *)
(* The code tells replies apart by their nonce alone, and hands a nonce out*)
(* again when its coroutine has returned.  What makes that right is the    *)
(* invariant below: a reply on its way belongs to a caller that waits for  *)
(* it, holds the nonce, and has no other reply on its way.                 *)
(***************************************************************************)
EXTENDS RpcClient, FiniteSetTheorems, SequenceTheorems, TLAPS

\* The console's program counter, the coroutine that runs and what resumed it agree; the
\* reply it has received is that of its last call.
ControlInv ==
    /\ con \in {"lua", "register"} => /\ cur \in started \ failed
                                      /\ cononce[cur] # 0
                                      /\ resumer \in {"main", "wait"}
    /\ con \notin {"lua", "register"} => cur = None /\ resumer = None
    /\ reply # NoCall => \/ con = "lua" /\ reply = CallOf(cur)
                         \/ con = "syncdone"

\* A nonce is held by one task or released once, and there are no more of them than tasks
\* started.
NonceInv ==
    /\ nonce - 1 <= Cardinality(started)
    /\ \A t \in Task : cononce[t] < nonce
    /\ \A t, u \in Task : cononce[t] = cononce[u] /\ cononce[t] # 0 => t = u
    /\ \A i \in DOMAIN idlenonce : idlenonce[i] < nonce
    /\ \A i, j \in DOMAIN idlenonce : idlenonce[i] = idlenonce[j] => i = j
    /\ \A i \in DOMAIN idlenonce, t \in Task : idlenonce[i] # cononce[t]

\* A suspended coroutine is found by its nonce.
StateInv ==
    \A t \in started \ failed :
        cononce[t] # 0 /\ cur # t => mapAsyncLuaState[cononce[t]] = t

\* The places a reply on its way may be in.
InEvent == evt \in {"handle", "push", "count"}
Unread == FirstUnread..nWrite - 1
Resp(i) == vecAsyncResp[Slot(i)]

\* The caller waits for the reply of this call, and holds this nonce.
Waits(n, call) ==
    IF call.caller = Main
    THEN n = 0 /\ call = CallOf(Main) /\ con = "syncwait" /\ ~ioComplt.fCompleted
    ELSE /\ call.caller \in started \ failed
         /\ n = cononce[call.caller] /\ n # 0
         /\ call = CallOf(call.caller)
         /\ cur = call.caller => con = "register"

WaitInv ==
    /\ \A r \in http : Waits(r.nonce, r.call)
    /\ \A i \in DOMAIN que : Waits(que[i].nonce, que[i].call) /\ que[i].outcome \in Outcome
    /\ InEvent => Waits(pEvent.nonce, pEvent.call) /\ pEvent.outcome \in Outcome
    /\ \A i \in Unread : Waits(Resp(i).nonce, Resp(i).call) /\ Resp(i).nonce # 0

\* No two replies on their way have the same caller.
AloneInv ==
    /\ \A r \in http, i \in DOMAIN que : r.call.caller # que[i].call.caller
    /\ \A i, j \in DOMAIN que : que[i].call.caller = que[j].call.caller => i = j
    /\ InEvent => \A r \in http : r.call.caller # pEvent.call.caller
    /\ InEvent => \A i \in DOMAIN que : que[i].call.caller # pEvent.call.caller
    /\ InEvent => \A i \in Unread : Resp(i).call.caller # pEvent.call.caller
    /\ \A i \in Unread, r \in http : Resp(i).call.caller # r.call.caller
    /\ \A i \in Unread, j \in DOMAIN que : Resp(i).call.caller # que[j].call.caller
    /\ \A i, j \in Unread : Resp(i).call.caller = Resp(j).call.caller => i = j

\* The ring is read up to where it is written, and the response to count has been written.
RingInv ==
    /\ FirstUnread <= nWrite
    /\ evt \in {"push", "count"} => pEvent.nonce # 0
    /\ evt = "count" => Resp(nWrite) = [nonce |-> pEvent.nonce, call |-> pEvent.call]

\* If every reply of status 200 is an object, the object stored is that of the call.
SyncInv ==
    "value" \notin Outcome =>
        /\ con = "syncwait" /\ ioComplt.fCompleted /\ ioComplt.fResult => jsonRsp = CallOf(Main)
        /\ con = "syncdone" /\ reply # NoCall => reply = CallOf(Main)

IInv ==
    /\ TypeOK /\ ControlInv /\ NonceInv /\ StateInv
    /\ WaitInv /\ AloneInv /\ RingInv /\ SyncInv

(***************************************************************************)
(* The types, by who writes the variables.                                 *)
(***************************************************************************)
LuaType ==
    /\ nonce \in 1..Cardinality(Task) + 1
    /\ idlenonce \in Seq(Nonces \ {0})
    /\ cononce \in [Task -> Nonces]
    /\ started \subseteq Task /\ failed \subseteq started
    /\ ncalls \in [Caller -> Nat]

ConType ==
    /\ con \in {"main", "lua", "register", "drain", "advance", "park", "blocked",
                "syncwait", "syncdone", "returned", "halted"}
    /\ cur \in Task \cup {None}
    /\ resumer \in {None, "main", "wait"}
    /\ reply \in Call \cup {NoCall}
    /\ mapAsyncLuaState \in [Nonces -> Task \cup {None}]

RingType ==
    /\ mapAsyncCallback \subseteq Nonces
    /\ vecAsyncResp \in [0..RingSize - 1 -> Response]
    /\ nRead \in Nat /\ nWrite \in Nat
    /\ ioComplt \in [fResult : BOOLEAN, fCompleted : BOOLEAN]
    /\ jsonRsp \in Call \cup {NoCall}

EventType ==
    /\ que \in Seq([nonce : Nonces, call : Call, outcome : Outcomes])
    /\ fAbort \in BOOLEAN
    /\ evt \in {"fetch", "handle", "push", "count", "notify", "erase", "reset", "exited"}
    /\ pEvent \in [nonce : Nonces, call : Call \cup {NoCall}, outcome : Outcomes]
    /\ http \subseteq Request
    /\ freed \subseteq Call
    /\ raced \subseteq Call

LEMMA TypeParts == TypeOK <=> LuaType /\ ConType /\ RingType /\ EventType
BY DEF TypeOK, LuaType, ConType, RingType, EventType

\* What the assumptions on the constants say of their numbers and names.
LEMMA Numbers ==
    /\ IsFiniteSet(Task) /\ Cardinality(Task) \in Nat
    /\ Cardinality(Task) <= RingSize /\ RingSize \in Nat /\ RingSize > 0
    /\ Main \notin Task /\ None \notin Task /\ Main # None
    /\ NoCall \notin Call
    /\ Nonces = 0..Cardinality(Task)
<1>1. IsFiniteSet(Task) /\ Cardinality(Task) \in Nat
  BY RpcClientAssumption, FS_CardinalityType
<1>2. Main \notin Task /\ None \notin Task /\ Main # None
  BY RpcClientAssumption DEF Main, None
<1>3. NoCall \notin Call
  BY <1>2 DEF NoCall, Call, Caller
<1>4. QED
  BY <1>1, <1>2, <1>3, RpcClientAssumption DEF Nonces

\* A slot of the ring is one of its slots, and two responses less than a ring apart have
\* different ones.
LEMMA SlotIsSlot ==
    ASSUME NEW i \in Nat
    PROVE  Slot(i) \in 0..RingSize - 1
BY Numbers DEF Slot

LEMMA SlotsDiffer ==
    ASSUME NEW i \in Nat, NEW j \in Nat, i < j, j - i < RingSize
    PROVE  Slot(i) # Slot(j)
<1> DEFINE a == i \div RingSize
           b == j \div RingSize
<1>1. /\ a \in Int /\ i = RingSize * a + Slot(i)
      /\ b \in Int /\ j = RingSize * b + Slot(j)
  BY Numbers DEF Slot
<1> HIDE DEF a, b
<1>2. SUFFICES ASSUME Slot(i) = Slot(j) PROVE FALSE
  OBVIOUS
<1>3. j - i = RingSize * (b - a)
  BY <1>1, <1>2, Numbers, SlotIsSlot
<1>4. b - a >= 1
  BY <1>1, <1>3, Numbers
<1>5. RingSize * (b - a) >= RingSize
  BY <1>1, <1>4, Numbers
<1>6. QED
  BY <1>3, <1>5, Numbers

\* A set whose elements are all equal has at most one, and none only if it is empty.
LEMMA AtMostOne ==
    ASSUME NEW S, \A x, y \in S : x = y
    PROVE  IF S = {} THEN Cardinality(S) = 0 ELSE Cardinality(S) = 1
<1>1. CASE S = {}
  BY <1>1, FS_EmptySet
<1>2. CASE S # {}
  <2>1. PICK x : S = {x}
    BY <1>2
  <2>2. QED
    BY <1>2, <2>1, FS_Singleton
<1>3. QED
  BY <1>1, <1>2

(***************************************************************************)
(* The ring has room.                                                      *)
(***************************************************************************)

\* The response a console reads next.
LEMMA FirstIsNat ==
    ASSUME IInv
    PROVE  /\ FirstUnread \in Nat /\ nWrite \in Nat
           /\ FirstUnread <= nWrite
           /\ Unread \subseteq Nat
BY DEF IInv, RingInv, TypeOK, FirstUnread, Unread

\* A response that is unread, or in the event thread's hands, answers a call of a task.
LEMMA TasksAnswered ==
    ASSUME IInv
    PROVE  /\ \A i \in Unread : Resp(i).call.caller \in Task
           /\ evt \in {"push", "count"} => pEvent.call.caller \in Task
<1>1. ASSUME NEW n, NEW call, Waits(n, call), n # 0 PROVE call.caller \in Task
  BY <1>1 DEF Waits, IInv, TypeOK
<1>2. QED
  BY <1>1 DEF IInv, WaitInv, RingInv, InEvent

\* No more responses are unread than there are tasks, and one that is on its way to the
\* ring leaves one task less: its slot is free.
LEMMA Room ==
    ASSUME IInv
    PROVE  /\ nWrite - FirstUnread <= RingSize
           /\ evt \in {"push", "count"} => nWrite - FirstUnread < RingSize
<1>1. ASSUME NEW S \in SUBSET Task, NEW k \in Nat, NEW f \in [FirstUnread..FirstUnread + k - 1 -> S],
             \A i, j \in FirstUnread..FirstUnread + k - 1 : f[i] = f[j] => i = j
      PROVE  k <= RingSize
  <2> DEFINE P == FirstUnread..FirstUnread + k - 1
  <2>1. f \in Injection(P, S)
    BY <1>1 DEF Injection, IsInjective
  <2>2. IsFiniteSet(S) /\ Cardinality(S) <= Cardinality(Task)
    BY Numbers, FS_Subset
  <2>3. Cardinality(P) <= Cardinality(S) /\ Cardinality(S) \in Nat
    BY <2>1, <2>2, FS_Injection, FS_CardinalityType
  <2>4. Cardinality(P) = k
    <3>1. FirstUnread \in Int /\ FirstUnread + k - 1 \in Int
      BY <1>1, FirstIsNat
    <3>2. QED
      BY <1>1, <3>1, FirstIsNat, FS_Interval
  <2>5. QED
    BY <1>1, <2>2, <2>3, <2>4, Numbers
<1>2. nWrite - FirstUnread <= RingSize
  <2> DEFINE f == [i \in Unread |-> Resp(i).call.caller]
             k == nWrite - FirstUnread
  <2>1. k \in Nat /\ FirstUnread + k - 1 = nWrite - 1
    BY FirstIsNat
  <2>2. f \in [Unread -> Task] /\ \A i, j \in Unread : f[i] = f[j] => i = j
    BY TasksAnswered DEF IInv, AloneInv
  <2> HIDE DEF f, k
  <2>3. k <= RingSize
    BY <1>1, <2>1, <2>2 DEF Unread
  <2>4. QED
    BY <2>3 DEF k
<1>3. ASSUME evt \in {"push", "count"} PROVE nWrite - FirstUnread < RingSize
  <2> DEFINE f == [i \in FirstUnread..nWrite |->
                      IF i = nWrite THEN pEvent.call.caller ELSE Resp(i).call.caller]
             k == nWrite - FirstUnread + 1
  <2>1. k \in Nat /\ FirstUnread + k - 1 = nWrite
    BY FirstIsNat
  <2>2. \A i \in FirstUnread..nWrite : i # nWrite => i \in Unread
    BY FirstIsNat DEF Unread
  <2>3. f \in [FirstUnread..nWrite -> Task]
    BY <1>3, <2>2, TasksAnswered
  <2>4. \A i, j \in FirstUnread..nWrite : f[i] = f[j] => i = j
    BY <1>3, <2>2 DEF IInv, AloneInv, InEvent
  <2> HIDE DEF f, k
  <2>5. k <= RingSize
    BY <1>1, <2>1, <2>3, <2>4
  <2>6. QED
    BY <2>5, FirstIsNat, Numbers DEF k
<1>4. QED
  BY <1>2, <1>3

\* The slot that is written next is none of those that are unread.
LEMMA SlotIsFree ==
    ASSUME IInv, evt \in {"push", "count"}, NEW i \in Unread
    PROVE  Slot(i) # Slot(nWrite)
<1>1. i \in Nat /\ i < nWrite /\ nWrite - i <= nWrite - FirstUnread
  BY FirstIsNat DEF Unread
<1>2. nWrite - i < RingSize
  BY <1>1, Room, FirstIsNat, Numbers
<1>3. QED
  BY <1>1, <1>2, FirstIsNat, SlotsDiffer

(***************************************************************************)
(* What a step does to the replies on their way.                           *)
(***************************************************************************)

\* The response that rpcasyncwait takes resumes the coroutine whose call it answers.
LEMMA Responded ==
    ASSUME IInv, WaitRespond
    PROVE  LET t == Resp(nRead).call.caller
           IN  /\ nRead \in Unread /\ FirstUnread = nRead
               /\ t \in started \ failed /\ cononce[t] # 0
               /\ cur' = t /\ reply' = CallOf(t) /\ resumer' = "wait" /\ con' = "lua"
               /\ FirstUnread' = FirstUnread + 1
<1> DEFINE t == Resp(nRead).call.caller
<1>1. FirstUnread = nRead /\ cur = None
  BY DEF WaitRespond, FirstUnread, IInv, ControlInv, None
<1>2. nRead \in Unread
  BY <1>1, FirstIsNat DEF WaitRespond, Unread
<1>3. Waits(Resp(nRead).nonce, Resp(nRead).call) /\ t \in Task
  BY <1>2, TasksAnswered DEF IInv, WaitInv
<1>4. /\ t \in started \ failed /\ t # None /\ t # Main
      /\ cononce[t] # 0
      /\ Resp(nRead).nonce = cononce[t] /\ Resp(nRead).call = CallOf(t)
  BY <1>3, Numbers DEF Waits
<1>5. mapAsyncLuaState[Resp(nRead).nonce] = t
  BY <1>1, <1>4 DEF IInv, StateInv
<1>6. /\ cur' = t /\ reply' = CallOf(t) /\ resumer' = "wait" /\ con' = "lua"
      /\ UNCHANGED nRead
  BY <1>4, <1>5, Numbers DEF WaitRespond, Resp, ringVars
<1>7. QED
  BY <1>1, <1>2, <1>4, <1>6 DEF FirstUnread

\* The console takes the oldest unread response, the event thread adds one at the end.
LEMMA UnreadStep ==
    ASSUME IInv, [Next]_vars
    PROVE  /\ WaitRespond \/ FirstUnread' = FirstUnread
           /\ PushCount \/ nWrite' = nWrite
<1> USE DEF FirstUnread, IInv, ControlInv, None, luaVars, conVars, ringVars
<1>1. CASE WaitRespond
  BY <1>1 DEF WaitRespond
<1>2. CASE WaitAdvance
  BY <1>2 DEF WaitAdvance
<1>3. ASSUME NEW t \in Task, AsyncStart(t)
      PROVE  FirstUnread' = FirstUnread /\ nWrite' = nWrite
  BY <1>3 DEF AsyncStart
<1>4. CASE TaskReturn \/ TaskFail
  BY <1>4 DEF TaskReturn, TaskFail
<1>5. CASE AsyncDispatch \/ AsyncReject \/ AsyncRegister
  BY <1>5 DEF AsyncDispatch, AsyncReject, AsyncRegister
<1>6. CASE WaitEnter \/ WaitPark \/ WaitBlock \/ WaitTimeout \/ ScriptReturn \/ Halt
  BY <1>6 DEF WaitEnter, WaitPark, WaitBlock, WaitTimeout, ScriptReturn, Halt
<1>7. CASE SyncDispatch \/ SyncReject \/ SyncReturn \/ SyncDone
  BY <1>7 DEF SyncDispatch, SyncReject, SyncReturn, SyncDone
<1>8. CASE PushCount
  BY <1>8 DEF PushCount
<1>9. CASE PushNotify
  BY <1>9 DEF PushNotify
<1>10. CASE UNCHANGED <<con, resumer, nRead, nWrite>>
  BY <1>10
<1>11. QED
  BY <1>1, <1>2, <1>3, <1>4, <1>5, <1>6, <1>7, <1>8, <1>9, <1>10
     DEF Next, Script, Console, EventThread, HttpClient, Finished, vars,
         FetchReply, FetchNull, HandleSyncReply, HandleAsyncReply, PushWrite,
         EraseCallback, ResetQueue, Answer

\* A response stays in its slot as long as it is unread.
LEMMA RespStep ==
    ASSUME IInv, [Next]_vars, NEW i \in Unread
    PROVE  Resp(i)' = Resp(i)
<1>1. CASE PushWrite
  <2>1. i \in Nat /\ Slot(i) # Slot(nWrite)
    BY <1>1, FirstIsNat, SlotIsFree DEF PushWrite
  <2>2. Slot(i) \in 0..RingSize - 1
    BY <2>1, SlotIsSlot
  <2>3. QED
    BY <1>1, <2>1, <2>2 DEF PushWrite, Resp, IInv, TypeOK
<1>2. CASE UNCHANGED vecAsyncResp
  BY <1>2 DEF Resp
<1>3. QED
  BY <1>1, <1>2
     DEF Next, Script, Console, EventThread, HttpClient, Finished, vars, ringVars,
         AsyncStart, TaskReturn, TaskFail, AsyncDispatch, AsyncReject, AsyncRegister,
         WaitEnter, WaitRespond, WaitAdvance, WaitPark, WaitBlock, WaitTimeout,
         SyncDispatch, SyncReject, SyncReturn, SyncDone, ScriptReturn, Halt, Answer,
         FetchReply, FetchNull, HandleSyncReply, HandleAsyncReply,
         PushCount, PushNotify, EraseCallback, ResetQueue

\* A response that is unread was so before, or it is the one the event thread has counted.
LEMMA UnreadFrom ==
    ASSUME IInv, [Next]_vars, NEW i \in Unread'
    PROVE  \/ i \in Unread /\ (WaitRespond => i # nRead) /\ Resp(i)' = Resp(i)
           \/ /\ PushCount /\ i = nWrite
              /\ Resp(i)' = [nonce |-> pEvent.nonce, call |-> pEvent.call]
<1>1. CASE PushCount
  <2>1. FirstUnread' = FirstUnread /\ nWrite' = nWrite + 1 /\ UNCHANGED vecAsyncResp
    BY <1>1 DEF PushCount, FirstUnread, conVars
  <2>2. i \in Unread \/ i = nWrite
    BY <2>1, FirstIsNat DEF Unread
  <2>3. Resp(i)' = Resp(i) /\ ~ WaitRespond
    BY <1>1, <2>1 DEF Resp, PushCount, WaitRespond, evtVars
  <2>4. CASE i = nWrite
    BY <1>1, <2>3, <2>4 DEF IInv, RingInv, PushCount
  <2>5. QED
    BY <2>2, <2>3, <2>4
<1>2. CASE WaitRespond
  <2>1. FirstUnread = nRead /\ FirstUnread' = nRead + 1 /\ nWrite' = nWrite
    BY <1>2, Responded DEF WaitRespond, ringVars
  <2>2. i \in Unread /\ i # nRead
    BY <2>1, FirstIsNat DEF Unread
  <2>3. QED
    BY <2>2, RespStep
<1>3. CASE ~ PushCount /\ ~ WaitRespond
  <2>1. FirstUnread' = FirstUnread /\ nWrite' = nWrite
    BY <1>3, UnreadStep
  <2>2. i \in Unread
    BY <2>1 DEF Unread
  <2>3. QED
    BY <1>3, <2>2, RespStep
<1>4. QED
  BY <1>1, <1>2, <1>3

LEMMA RingStep ==
    ASSUME IInv, [Next]_vars
    PROVE  RingInv'
<1>1. FirstUnread' <= nWrite'
  <2>1. CASE PushCount
    BY <2>1, FirstIsNat DEF PushCount, FirstUnread, conVars
  <2>2. CASE WaitRespond
    BY <2>2, Responded, FirstIsNat DEF WaitRespond, ringVars, Unread
  <2>3. CASE ~ PushCount /\ ~ WaitRespond
    BY <2>3, UnreadStep, FirstIsNat
  <2>4. QED
    BY <2>1, <2>2, <2>3
<1>2. /\ evt' \in {"push", "count"} => pEvent'.nonce # 0
      /\ evt' = "count" => Resp(nWrite)' = [nonce |-> pEvent'.nonce, call |-> pEvent'.call]
  <2> USE DEF IInv, RingInv, Resp
  <2>1. CASE HandleAsyncReply
    BY <2>1 DEF HandleAsyncReply, Handled
  <2>2. CASE PushWrite
    <3>1. Slot(nWrite) \in 0..RingSize - 1
      BY FirstIsNat, SlotIsSlot
    <3>2. QED
      BY <2>2, <3>1 DEF PushWrite, TypeOK
  <2>3. CASE FetchReply \/ FetchNull \/ HandleSyncReply \/ PushCount \/ PushNotify
             \/ EraseCallback \/ ResetQueue
    BY <2>3 DEF FetchReply, FetchNull, HandleSyncReply, PushCount, PushNotify,
                EraseCallback, ResetQueue, Handled
  <2>4. CASE UNCHANGED <<evtVars, vecAsyncResp, nWrite>>
    BY <2>4 DEF evtVars
  <2>5. QED
    BY <2>1, <2>2, <2>3, <2>4
       DEF Next, Script, Console, EventThread, HttpClient, Finished, vars, ringVars,
           AsyncStart, TaskReturn, TaskFail, AsyncDispatch, AsyncReject, AsyncRegister,
           WaitEnter, WaitRespond, WaitAdvance, WaitPark, WaitBlock, WaitTimeout,
           SyncDispatch, SyncReject, SyncReturn, SyncDone, ScriptReturn, Halt, Answer
<1>3. QED
  BY <1>1, <1>2 DEF RingInv

\* A caller goes on waiting until its coroutine is resumed, or its synchronous call completed.
LEMMA WaitsKept ==
    ASSUME IInv, [Next]_vars, NEW n, NEW call, Waits(n, call),
           WaitRespond => call.caller # Resp(nRead).call.caller,
           HandleSyncReply => call.caller # Main
    PROVE  Waits(n, call)'
<1> USE Numbers DEF Waits, IInv, ControlInv, TypeOK, CallOf, Caller,
        luaVars, conVars, syncVars
<1>1. ASSUME NEW t \in Task, AsyncStart(t) PROVE Waits(n, call)'
  BY <1>1 DEF AsyncStart
<1>2. CASE TaskReturn
  BY <1>2 DEF TaskReturn
<1>3. CASE TaskFail
  BY <1>3 DEF TaskFail
<1>4. CASE AsyncDispatch
  BY <1>4 DEF AsyncDispatch
<1>5. CASE AsyncReject
  BY <1>5 DEF AsyncReject
<1>6. CASE AsyncRegister
  BY <1>6 DEF AsyncRegister
<1>7. CASE WaitRespond
  BY <1>7, Responded DEF WaitRespond
<1>8. CASE WaitEnter \/ WaitAdvance \/ WaitPark \/ WaitBlock \/ WaitTimeout
  BY <1>8 DEF WaitEnter, WaitAdvance, WaitPark, WaitBlock, WaitTimeout
<1>9. CASE SyncDispatch
  BY <1>9 DEF SyncDispatch
<1>10. CASE SyncReject \/ SyncReturn \/ SyncDone \/ ScriptReturn \/ Halt
  BY <1>10 DEF SyncReject, SyncReturn, SyncDone, ScriptReturn, Halt
<1>11. CASE HandleSyncReply
  BY <1>11 DEF HandleSyncReply
<1>12. CASE PushNotify
  BY <1>12 DEF PushNotify
<1>13. CASE UNCHANGED <<luaVars, ncalls, con, cur, ioComplt>>
  BY <1>13
<1>14. QED
  BY <1>1, <1>2, <1>3, <1>4, <1>5, <1>6, <1>7, <1>8, <1>9, <1>10, <1>11, <1>12, <1>13
     DEF Next, Script, Console, EventThread, HttpClient, Finished, vars,
         FetchReply, FetchNull, HandleAsyncReply, PushWrite, PushCount, EraseCallback,
         ResetQueue, Answer

(***************************************************************************)
(* Where the replies on their way come from.                               *)
(***************************************************************************)

\* A request the HTTP client holds was there before, or the console has just made it.
LEMMA HttpFrom ==
    ASSUME IInv, [Next]_vars, NEW r \in http'
    PROVE  \/ r \in http
           \/ AsyncDispatch /\ r = [nonce |-> cononce[cur], call |-> NextCall(cur)]
           \/ SyncDispatch /\ r = [nonce |-> 0, call |-> NextCall(Main)]
<1>1. CASE AsyncDispatch
  BY <1>1 DEF AsyncDispatch
<1>2. CASE SyncDispatch
  BY <1>2 DEF SyncDispatch
<1>3. CASE http' \subseteq http
  BY <1>3
<1>4. QED
  BY <1>1, <1>2, <1>3
     DEF Next, Script, Console, EventThread, HttpClient, Finished, vars,
         AsyncStart, TaskReturn, TaskFail, AsyncReject, AsyncRegister,
         WaitEnter, WaitRespond, WaitAdvance, WaitPark, WaitBlock, WaitTimeout,
         SyncReject, SyncReturn, SyncDone, ScriptReturn, Halt, Answer,
         FetchReply, FetchNull, HandleSyncReply, HandleAsyncReply,
         PushWrite, PushCount, PushNotify, EraseCallback, ResetQueue

\* The event that answers a request.
EventOf(request, outcome) ==
    [nonce |-> request.nonce, call |-> request.call, outcome |-> outcome]

\* An event of the queue was there before, or answers a request that has left the client.
LEMMA QueueFrom ==
    ASSUME IInv, [Next]_vars
    PROVE  \/ que' = que /\ ~ FetchReply
           \/ que' = <<>>
           \/ FetchReply /\ que # <<>> /\ que' = Tail(que) /\ UNCHANGED http
           \/ \E request \in http, outcome \in Outcome :
                  /\ http' = http \ {request}
                  /\ que' = Append(que, EventOf(request, outcome))
                  /\ UNCHANGED <<conVars, evtVars, ringVars>>
<1>1. CASE FetchReply
  BY <1>1 DEF FetchReply, Q!Fetch
<1>2. CASE HttpClient
  BY <1>2 DEF HttpClient, Answer, Q!AddNew, EventOf
<1>3. CASE Halt \/ ResetQueue
  BY <1>3 DEF Halt, Q!Interrupt, ResetQueue, Q!Reset
<1>4. CASE UNCHANGED que /\ ~ FetchReply
  BY <1>4
<1>5. UNCHANGED que => ~ FetchReply
  BY DEF FetchReply, Q!Fetch, IInv, TypeOK
<1>6. QED
  BY <1>1, <1>2, <1>3, <1>4, <1>5
     DEF Next, Script, Console, EventThread, Finished, vars, queVars,
         AsyncStart, TaskReturn, TaskFail, AsyncDispatch, AsyncReject, AsyncRegister,
         WaitEnter, WaitRespond, WaitAdvance, WaitPark, WaitBlock, WaitTimeout,
         SyncDispatch, SyncReject, SyncReturn, SyncDone, ScriptReturn,
         FetchNull, Q!FetchNull, HandleSyncReply, HandleAsyncReply,
         PushWrite, PushCount, PushNotify, EraseCallback

\* The event in the event thread's hands was there before, or was the first of the queue.
LEMMA EventFrom ==
    ASSUME IInv, [Next]_vars, InEvent'
    PROVE  \/ InEvent /\ pEvent' = pEvent /\ ~ HandleSyncReply /\ ~ PushCount
           \/ FetchReply /\ que # <<>> /\ pEvent' = que[1]
<1>1. CASE FetchReply
  BY <1>1 DEF FetchReply, Q!Fetch, IInv, TypeOK
<1>2. CASE HandleAsyncReply \/ PushWrite
  BY <1>2 DEF HandleAsyncReply, PushWrite, InEvent, Handled, HandleSyncReply, PushCount
<1>3. CASE FetchNull \/ HandleSyncReply \/ PushCount \/ PushNotify \/ EraseCallback \/ ResetQueue
  BY <1>3 DEF FetchNull, HandleSyncReply, PushCount, PushNotify, EraseCallback, ResetQueue,
              InEvent, Handled
<1>4. CASE UNCHANGED evtVars
  BY <1>4 DEF evtVars, InEvent, HandleSyncReply, PushCount, Handled
<1>5. QED
  BY <1>1, <1>2, <1>3, <1>4
     DEF Next, Script, Console, EventThread, HttpClient, Finished, vars,
         AsyncStart, TaskReturn, TaskFail, AsyncDispatch, AsyncReject, AsyncRegister,
         WaitEnter, WaitRespond, WaitAdvance, WaitPark, WaitBlock, WaitTimeout,
         SyncDispatch, SyncReject, SyncReturn, SyncDone, ScriptReturn, Halt, Answer

\* The callers of the replies on their way go on waiting, but for the one that is answered.
LEMMA StillWaits ==
    ASSUME IInv, [Next]_vars, NEW n, NEW call,
           \/ \E r \in http : n = r.nonce /\ call = r.call
           \/ \E i \in DOMAIN que : n = que[i].nonce /\ call = que[i].call
           \/ InEvent /\ ~ HandleSyncReply /\ n = pEvent.nonce /\ call = pEvent.call
           \/ \E i \in Unread : /\ WaitRespond => i # nRead
                                /\ n = Resp(i).nonce /\ call = Resp(i).call
    PROVE  Waits(n, call)'
<1>1. HandleSyncReply => InEvent /\ pEvent.call.caller = Main
  BY DEF HandleSyncReply, InEvent, IInv, WaitInv, Waits
<1>2. WaitRespond => nRead \in Unread /\ ~ HandleSyncReply
  BY Responded DEF WaitRespond, HandleSyncReply, evtVars, Handled, conVars, syncVars
<1>3. Waits(n, call)
  BY DEF IInv, WaitInv
<1>4. WaitRespond => call.caller # Resp(nRead).call.caller
  BY <1>2 DEF IInv, AloneInv
<1>5. HandleSyncReply => call.caller # Main
  BY <1>1, <1>2 DEF IInv, AloneInv
<1>6. QED
  BY <1>3, <1>4, <1>5, WaitsKept

LEMMA WaitStep ==
    ASSUME IInv, [Next]_vars
    PROVE  WaitInv'
<1> USE DEF IInv, WaitInv
<1>1. ASSUME NEW r \in http' PROVE Waits(r.nonce, r.call)'
  <2>1. CASE r \in http
    BY <2>1, StillWaits
  <2>2. CASE AsyncDispatch /\ r = [nonce |-> cononce[cur], call |-> NextCall(cur)]
    BY <2>2, Numbers DEF AsyncDispatch, Waits, CallOf, NextCall, ControlInv, TypeOK, Caller, luaVars
  <2>3. CASE SyncDispatch /\ r = [nonce |-> 0, call |-> NextCall(Main)]
    BY <2>3, Numbers DEF SyncDispatch, Waits, CallOf, NextCall, TypeOK, Caller
  <2>4. QED
    BY <2>1, <2>2, <2>3, HttpFrom
<1>2. ASSUME NEW i \in DOMAIN que', NEW e, e = que'[i]
      PROVE  Waits(e.nonce, e.call)' /\ e.outcome \in Outcome
  <2>1. CASE que' = que
    BY <1>2, <2>1, StillWaits
  <2>2. CASE que' = <<>>
    BY <2>2
  <2>3. CASE que # <<>> /\ que' = Tail(que)
    <3>1. i + 1 \in DOMAIN que /\ e = que[i + 1]
      BY <1>2, <2>3 DEF TypeOK
    <3>2. QED
      BY <3>1, StillWaits
  <2>4. ASSUME NEW request \in http, NEW outcome \in Outcome,
               que' = Append(que, EventOf(request, outcome))
        PROVE  Waits(e.nonce, e.call)' /\ e.outcome \in Outcome
    <3>1. \/ i \in DOMAIN que /\ e = que[i]
          \/ e = EventOf(request, outcome)
      BY <1>2, <2>4 DEF TypeOK
    <3>2. CASE i \in DOMAIN que /\ e = que[i]
      BY <3>2, StillWaits
    <3>3. CASE e = EventOf(request, outcome)
      BY <3>3, StillWaits DEF EventOf
    <3>4. QED
      BY <3>1, <3>2, <3>3
  <2>5. QED
    BY <2>1, <2>2, <2>3, <2>4, QueueFrom
<1>3. ASSUME InEvent', NEW e, e = pEvent'
      PROVE  Waits(e.nonce, e.call)' /\ e.outcome \in Outcome
  <2>1. CASE que # <<>> /\ pEvent' = que[1]
    <3>1. 1 \in DOMAIN que
      BY <2>1 DEF TypeOK
    <3>2. QED
      BY <1>3, <2>1, <3>1, StillWaits
  <2>2. CASE InEvent /\ pEvent' = pEvent /\ ~ HandleSyncReply
    BY <1>3, <2>2, StillWaits
  <2>3. QED
    BY <1>3, <2>1, <2>2, EventFrom
<1>4. ASSUME NEW i \in Unread', NEW r, r = Resp(i)'
      PROVE  Waits(r.nonce, r.call)' /\ r.nonce # 0
  <2>1. CASE i \in Unread /\ (WaitRespond => i # nRead) /\ Resp(i)' = Resp(i)
    BY <1>4, <2>1, StillWaits
  <2>2. CASE PushCount /\ Resp(i)' = [nonce |-> pEvent.nonce, call |-> pEvent.call]
    <3>1. InEvent /\ ~ HandleSyncReply /\ pEvent.nonce # 0
      BY <2>2 DEF PushCount, InEvent, HandleSyncReply, RingInv
    <3>2. QED
      BY <1>4, <2>2, <3>1, StillWaits
  <2>3. QED
    BY <2>1, <2>2, UnreadFrom
<1>5. QED
  BY <1>1, <1>2, <1>3, <1>4 DEF WaitInv

\* The HTTP client never holds two requests of one caller.
LEMMA AloneInHttp ==
    ASSUME WaitInv, NEW r \in http, NEW s \in http, r.call.caller = s.call.caller
    PROVE  r.nonce = s.nonce /\ r.call = s.call
BY DEF WaitInv, Waits

\* A call is made by a caller that no reply is on its way to.
LEMMA NewCaller ==
    ASSUME IInv, [Next]_vars, NEW r \in http', r \notin http
    PROVE  /\ ~ PushCount /\ ~ FetchReply /\ que' = que
           /\ \A i \in DOMAIN que : que[i].call.caller # r.call.caller
           /\ InEvent => pEvent.call.caller # r.call.caller
           /\ \A i \in Unread : Resp(i).call.caller # r.call.caller
<1>1. /\ AsyncDispatch \/ SyncDispatch
      /\ \A n, call : Waits(n, call) => call.caller # r.call.caller
  <2>1. CASE AsyncDispatch /\ r = [nonce |-> cononce[cur], call |-> NextCall(cur)]
    BY <2>1 DEF AsyncDispatch, NextCall, Waits
  <2>2. CASE SyncDispatch /\ r = [nonce |-> 0, call |-> NextCall(Main)]
    BY <2>2 DEF SyncDispatch, NextCall, Waits
  <2>3. QED
    BY <2>1, <2>2, HttpFrom
<1>2. ~ PushCount /\ ~ FetchReply /\ que' = que
  BY <1>1 DEF AsyncDispatch, SyncDispatch, PushCount, FetchReply, evtVars, queVars
<1>3. QED
  BY <1>1, <1>2 DEF IInv, WaitInv

LEMMA AloneStep ==
    ASSUME IInv, [Next]_vars
    PROVE  AloneInv'
<1> USE DEF IInv, AloneInv
<1>1. ASSUME NEW r \in http', NEW i \in DOMAIN que'
      PROVE  r.call.caller # que'[i].call.caller
  <2>1. CASE r \notin http
    BY <2>1, NewCaller
  <2>2. CASE r \in http /\ que' = que
    BY <2>2
  <2>3. CASE r \in http /\ que # <<>> /\ que' = Tail(que)
    BY <2>3 DEF TypeOK
  <2>4. ASSUME NEW request \in http, NEW outcome \in Outcome, http' = http \ {request},
               que' = Append(que, EventOf(request, outcome))
        PROVE  r.call.caller # que'[i].call.caller
    <3>1. r \in http /\ r # request
      BY <2>4
    <3>2. r.call.caller # request.call.caller
      BY <3>1, AloneInHttp, SMTT(30) DEF TypeOK, Request
    <3>3. \/ i \in DOMAIN que /\ que'[i] = que[i]
          \/ que'[i] = EventOf(request, outcome)
      BY <2>4 DEF TypeOK
    <3>4. QED
      BY <3>1, <3>2, <3>3 DEF EventOf
  <2>5. QED
    BY <2>1, <2>2, <2>3, <2>4, QueueFrom
<1>2. ASSUME NEW i \in DOMAIN que', NEW j \in DOMAIN que',
             que'[i].call.caller = que'[j].call.caller
      PROVE  i = j
  <2>1. CASE que # <<>> /\ que' = Tail(que)
    <3>1. /\ i \in Nat /\ i + 1 \in DOMAIN que /\ que'[i] = que[i + 1]
          /\ j \in Nat /\ j + 1 \in DOMAIN que /\ que'[j] = que[j + 1]
      BY <2>1 DEF TypeOK
    <3>2. i + 1 = j + 1
      BY <1>2, <3>1
    <3>3. QED
      BY <3>1, <3>2
  <2>2. ASSUME NEW request \in http, NEW outcome \in Outcome,
               que' = Append(que, EventOf(request, outcome))
        PROVE  i = j
    <3>1. /\ (i \in DOMAIN que /\ que'[i] = que[i]) \/ i = Len(que) + 1
          /\ (j \in DOMAIN que /\ que'[j] = que[j]) \/ j = Len(que) + 1
          /\ que'[Len(que) + 1] = EventOf(request, outcome)
      BY <2>2 DEF TypeOK
    <3>2. QED
      BY <1>2, <3>1 DEF EventOf
  <2>3. QED
    BY <1>2, <2>1, <2>2, QueueFrom
<1>3. ASSUME InEvent', NEW r \in http' PROVE r.call.caller # pEvent'.call.caller
  <2>1. CASE r \notin http
    BY <1>3, <2>1, NewCaller, EventFrom
  <2>2. CASE r \in http /\ que # <<>> /\ pEvent' = que[1]
    BY <2>2 DEF TypeOK
  <2>3. QED
    BY <1>3, <2>1, <2>2, EventFrom
<1>4. ASSUME InEvent', NEW i \in DOMAIN que' PROVE que'[i].call.caller # pEvent'.call.caller
  <2>1. CASE FetchReply /\ que # <<>> /\ pEvent' = que[1]
    <3>1. que' = Tail(que)
      BY <2>1 DEF FetchReply, Q!Fetch
    <3>2. i \in Nat \ {0} /\ i + 1 \in DOMAIN que /\ 1 \in DOMAIN que /\ que'[i] = que[i + 1]
      BY <2>1, <3>1 DEF TypeOK
    <3>3. QED
      BY <2>1, <3>2
  <2>2. CASE InEvent /\ pEvent' = pEvent
    <3>1. ~ FetchReply
      BY <2>2 DEF InEvent, FetchReply
    <3>2. ASSUME NEW request \in http, NEW outcome \in Outcome,
                 que' = Append(que, EventOf(request, outcome))
          PROVE  que'[i].call.caller # pEvent.call.caller
      <4>1. \/ i \in DOMAIN que /\ que'[i] = que[i]
            \/ que'[i] = EventOf(request, outcome)
        BY <3>2 DEF TypeOK
      <4>2. QED
        BY <2>2, <4>1 DEF EventOf
    <3>3. QED
      BY <2>2, <3>1, <3>2, QueueFrom
  <2>3. QED
    BY <1>4, <2>1, <2>2, EventFrom
<1>5. ASSUME InEvent', NEW i \in Unread' PROVE Resp(i)'.call.caller # pEvent'.call.caller
  <2>1. ~ PushCount
    BY <1>5 DEF PushCount, InEvent
  <2>2. i \in Unread /\ Resp(i)' = Resp(i)
    BY <2>1, UnreadFrom
  <2>3. CASE que # <<>> /\ pEvent' = que[1]
    BY <2>2, <2>3 DEF TypeOK
  <2>4. QED
    BY <1>5, <2>2, <2>3, EventFrom
<1>6. ASSUME NEW i \in Unread', NEW r \in http' PROVE Resp(i)'.call.caller # r.call.caller
  <2>1. CASE r \notin http
    BY <2>1, NewCaller, UnreadFrom
  <2>2. PushCount => InEvent
    BY DEF PushCount, InEvent
  <2>3. QED
    BY <2>1, <2>2, UnreadFrom
<1>7. ASSUME NEW i \in Unread', NEW j \in DOMAIN que'
      PROVE  Resp(i)'.call.caller # que'[j].call.caller
  <2>1. PushCount => InEvent /\ que' = que
    BY DEF PushCount, InEvent, queVars
  <2>2. CASE PushCount
    BY <2>1, <2>2, UnreadFrom
  <2>3. CASE ~ PushCount
    <3>1. i \in Unread /\ Resp(i)' = Resp(i)
      BY <2>3, UnreadFrom
    <3>2. \/ \E k \in DOMAIN que : que'[j] = que[k]
          \/ \E request \in http, outcome \in Outcome : que'[j] = EventOf(request, outcome)
      <4>1. CASE que # <<>> /\ que' = Tail(que)
        <5>1. j + 1 \in DOMAIN que /\ que'[j] = que[j + 1]
          BY <4>1 DEF TypeOK
        <5>2. QED
          BY <5>1
      <4>2. ASSUME NEW request \in http, NEW outcome \in Outcome,
                   que' = Append(que, EventOf(request, outcome))
            PROVE  \/ j \in DOMAIN que /\ que'[j] = que[j]
                   \/ que'[j] = EventOf(request, outcome)
        BY <4>2 DEF TypeOK
      <4>3. QED
        BY <4>1, <4>2, QueueFrom
    <3>3. QED
      BY <3>1, <3>2 DEF EventOf
  <2>4. QED
    BY <2>2, <2>3
<1>8. ASSUME NEW i \in Unread', NEW j \in Unread', Resp(i)'.call.caller = Resp(j)'.call.caller
      PROVE  i = j
  <2>1. PushCount => InEvent
    BY DEF PushCount, InEvent
  <2>2. QED
    BY <1>8, <2>1, UnreadFrom
<1>9. QED
  BY <1>1, <1>2, <1>3, <1>4, <1>5, <1>6, <1>7, <1>8

(***************************************************************************)
(* The nonces, the coroutines and the console.                             *)
(***************************************************************************)
LEMMA ControlStep ==
    ASSUME IInv, [Next]_vars
    PROVE  ControlInv'
<1> USE DEF IInv, ControlInv, CallOf, NoCall, None, luaVars, conVars
<1>1. ASSUME NEW t \in Task, AsyncStart(t) PROVE ControlInv'
  BY <1>1 DEF AsyncStart, NonceInv, TypeOK
<1>2. CASE TaskReturn \/ TaskFail
  BY <1>2 DEF TaskReturn, TaskFail
<1>3. CASE AsyncDispatch
  BY <1>3 DEF AsyncDispatch
<1>4. CASE AsyncReject
  BY <1>4 DEF AsyncReject
<1>5. CASE AsyncRegister
  BY <1>5 DEF AsyncRegister
<1>6. CASE WaitEnter \/ WaitAdvance \/ WaitPark \/ WaitBlock \/ WaitTimeout
  BY <1>6 DEF WaitEnter, WaitAdvance, WaitPark, WaitBlock, WaitTimeout
<1>7. CASE WaitRespond
  BY <1>7, Responded DEF WaitRespond
<1>8. CASE SyncDispatch \/ SyncReject \/ SyncReturn \/ SyncDone \/ ScriptReturn \/ Halt
  BY <1>8 DEF SyncDispatch, SyncReject, SyncReturn, SyncDone, ScriptReturn, Halt
<1>9. CASE PushNotify
  BY <1>9 DEF PushNotify
<1>10. CASE UNCHANGED <<luaVars, ncalls, conVars>>
  BY <1>10
<1>11. QED
  BY <1>1, <1>2, <1>3, <1>4, <1>5, <1>6, <1>7, <1>8, <1>9, <1>10
     DEF Next, Script, Console, EventThread, HttpClient, Finished, vars,
         FetchReply, FetchNull, HandleSyncReply, HandleAsyncReply, PushWrite, PushCount,
         EraseCallback, ResetQueue, Answer

LEMMA NonceStep ==
    ASSUME IInv, [Next]_vars
    PROVE  NonceInv'
<1> USE DEF NonceInv
<1>1. /\ nonce \in Nat \ {0} /\ cononce \in [Task -> Nat]
      /\ idlenonce \in Seq(Nat) /\ \A i \in DOMAIN idlenonce : idlenonce[i] # 0
  <2>1. Nonces \subseteq Nat
    BY Numbers
  <2>2. QED
    BY <2>1, Numbers DEF IInv, TypeOK
<1>2. NonceInv
  BY DEF IInv
<1>3. ASSUME NEW t \in Task, AsyncStart(t) PROVE NonceInv'
  <2>1. Cardinality(started') = Cardinality(started) + 1 /\ Cardinality(started) \in Nat
    <3>1. IsFiniteSet(started)
      BY Numbers, FS_Subset DEF IInv, TypeOK
    <3>2. QED
      BY <1>3, <3>1, FS_AddElement, FS_CardinalityType DEF AsyncStart
  <2>2. CASE idlenonce # <<>>
    <3>1. DOMAIN idlenonce' \subseteq DOMAIN idlenonce \ {Len(idlenonce)}
      BY <1>1, <1>3, <2>2 DEF AsyncStart
    <3>2. \A i \in DOMAIN idlenonce' : idlenonce'[i] = idlenonce[i]
      BY <1>1, <1>3, <2>2 DEF AsyncStart
    <3>3. Len(idlenonce) \in DOMAIN idlenonce
      BY <1>1, <2>2
    <3>4. /\ nonce' = nonce /\ cononce' \in [Task -> Nat]
          /\ cononce'[t] = idlenonce[Len(idlenonce)]
          /\ \A u \in Task : u # t => cononce'[u] = cononce[u]
      BY <1>1, <1>3, <2>2, <3>3 DEF AsyncStart
    <3>5. nonce' - 1 <= Cardinality(started')
      BY <1>1, <1>2, <2>1, <3>4
    <3>6. \A u, v \in Task : cononce'[u] = cononce'[v] /\ cononce'[u] # 0 => u = v
      BY <1>1, <1>2, <3>3, <3>4
    <3>7. \A i \in DOMAIN idlenonce', u \in Task : idlenonce'[i] # cononce'[u]
      BY <1>1, <1>2, <3>1, <3>2, <3>3, <3>4
    <3>8. QED
      BY <1>1, <1>2, <3>1, <3>2, <3>3, <3>4, <3>5, <3>6, <3>7
  <2>3. CASE idlenonce = <<>>
    <3>1. /\ nonce' = nonce + 1 /\ cononce' \in [Task -> Nat]
          /\ cononce'[t] = nonce
          /\ \A u \in Task : u # t => cononce'[u] = cononce[u]
          /\ idlenonce' = <<>> /\ DOMAIN idlenonce' = {}
      BY <1>1, <1>3, <2>3 DEF AsyncStart
    <3>2. nonce' - 1 <= Cardinality(started')
      BY <1>1, <1>2, <2>1, <3>1
    <3>3. \A u, v \in Task : cononce'[u] = cononce'[v] /\ cononce'[u] # 0 => u = v
      BY <1>1, <1>2, <3>1
    <3>4. QED
      BY <1>1, <1>2, <3>1, <3>2, <3>3, SMTT(30)
  <2>4. QED
    BY <2>2, <2>3
<1>4. CASE TaskReturn
  <2>1. cur \in Task /\ cononce[cur] # 0
    BY <1>4 DEF TaskReturn, IInv, TypeOK, ControlInv
  <2>2. /\ DOMAIN idlenonce' = DOMAIN idlenonce \cup {Len(idlenonce) + 1}
        /\ \A i \in DOMAIN idlenonce : idlenonce'[i] = idlenonce[i]
        /\ idlenonce'[Len(idlenonce) + 1] = cononce[cur]
    BY <1>1, <1>4, <2>1 DEF TaskReturn
  <2>3. /\ nonce' = nonce /\ started' = started
        /\ cononce' = [cononce EXCEPT ![cur] = 0]
    BY <1>4 DEF TaskReturn
  <2> DEFINE last == Len(idlenonce) + 1
  <2>4. /\ DOMAIN idlenonce' = DOMAIN idlenonce \cup {last}
        /\ idlenonce'[last] = cononce[cur]
    BY <2>2
  <2> HIDE DEF last
  <2>5. \A i \in DOMAIN idlenonce', t \in Task : idlenonce'[i] # cononce'[t]
    BY <1>1, <1>2, <2>1, <2>2, <2>3, <2>4
  <2>6. \A i, j \in DOMAIN idlenonce' : idlenonce'[i] = idlenonce'[j] => i = j
    BY <1>1, <1>2, <2>1, <2>2, <2>4
  <2>7. \A i \in DOMAIN idlenonce' : idlenonce'[i] < nonce
    BY <1>1, <1>2, <2>1, <2>2, <2>4
  <2>8. QED
    BY <1>1, <1>2, <2>1, <2>3, <2>5, <2>6, <2>7
<1>5. CASE UNCHANGED <<nonce, idlenonce, cononce, started>>
  BY <1>2, <1>5
<1>6. QED
  BY <1>3, <1>4, <1>5
     DEF Next, Script, Console, EventThread, HttpClient, Finished, vars, luaVars,
         TaskFail, AsyncDispatch, AsyncReject, AsyncRegister,
         WaitEnter, WaitRespond, WaitAdvance, WaitPark, WaitBlock, WaitTimeout,
         SyncDispatch, SyncReject, SyncReturn, SyncDone, ScriptReturn, Halt, Answer,
         FetchReply, FetchNull, HandleSyncReply, HandleAsyncReply,
         PushWrite, PushCount, PushNotify, EraseCallback, ResetQueue

LEMMA StateStep ==
    ASSUME IInv, [Next]_vars
    PROVE  StateInv'
<1> USE DEF IInv, StateInv, ControlInv, TypeOK, luaVars, conVars
<1>1. ASSUME NEW t \in Task, AsyncStart(t) PROVE StateInv'
  <2>1. \A u \in started : u # t /\ u # cur /\ cononce'[u] = cononce[u]
    BY <1>1, Numbers DEF AsyncStart
  <2>2. QED
    BY <1>1, <2>1 DEF AsyncStart
<1>2. CASE TaskReturn \/ TaskFail
  BY <1>2 DEF TaskReturn, TaskFail
<1>3. CASE AsyncRegister
  <2>1. cononce[cur] \in Nonces /\ \A t \in Task : cononce[t] = cononce[cur] => t = cur
    BY <1>3 DEF AsyncRegister, NonceInv
  <2>2. QED
    BY <1>3, <2>1 DEF AsyncRegister
<1>4. CASE WaitRespond
  BY <1>4, Responded, Numbers DEF WaitRespond
<1>5. CASE UNCHANGED <<cononce, started, failed, cur, mapAsyncLuaState>>
  BY <1>5
<1>6. QED
  BY <1>1, <1>2, <1>3, <1>4, <1>5
     DEF Next, Script, Console, EventThread, HttpClient, Finished, vars,
         AsyncDispatch, AsyncReject, WaitEnter, WaitAdvance, WaitPark, WaitBlock, WaitTimeout,
         SyncDispatch, SyncReject, SyncReturn, SyncDone, ScriptReturn, Halt, Answer,
         FetchReply, FetchNull, HandleSyncReply, HandleAsyncReply,
         PushWrite, PushCount, PushNotify, EraseCallback, ResetQueue

LEMMA SyncStep ==
    ASSUME IInv, [Next]_vars
    PROVE  SyncInv'
<1> USE DEF IInv, SyncInv, TypeOK, CallOf, luaVars, conVars, syncVars
<1>1. CASE AsyncDispatch \/ AsyncReject
  BY <1>1 DEF AsyncDispatch, AsyncReject
<1>2. CASE SyncDispatch \/ SyncReject \/ SyncReturn \/ SyncDone
  BY <1>2 DEF SyncDispatch, SyncReject, SyncReturn, SyncDone
<1>3. CASE HandleSyncReply
  <2>1. Waits(0, pEvent.call) /\ pEvent.outcome \in Outcome
    BY <1>3 DEF HandleSyncReply, WaitInv, InEvent
  <2>2. con = "syncwait" /\ pEvent.call = CallOf(Main)
    BY <2>1 DEF Waits
  <2>3. "value" \notin Outcome /\ fRet => pEvent.outcome = "object"
    BY <2>1, RpcClientAssumption DEF fRet, Outcomes
  <2>4. QED
    BY <1>3, <2>2, <2>3 DEF HandleSyncReply
<1>4. ASSUME con' \notin {"syncwait", "syncdone"} PROVE SyncInv'
  BY <1>4
<1>5. CASE PushNotify
  BY <1>5 DEF PushNotify
<1>6. CASE UNCHANGED <<con, reply, ncalls, ioComplt, jsonRsp>>
  BY <1>6
<1>7. QED
  BY <1>1, <1>2, <1>3, <1>4, <1>5, <1>6
     DEF Next, Script, Console, EventThread, HttpClient, Finished, vars,
         AsyncStart, TaskReturn, TaskFail, AsyncRegister,
         WaitEnter, WaitRespond, WaitAdvance, WaitPark, WaitBlock, WaitTimeout,
         ScriptReturn, Halt, Answer,
         FetchReply, FetchNull, HandleAsyncReply,
         PushWrite, PushCount, EraseCallback, ResetQueue

(***************************************************************************)
(* The types are kept.                                                     *)
(***************************************************************************)
LEMMA LuaTypeStep ==
    ASSUME IInv, [Next]_vars
    PROVE  LuaType'
<1> USE DEF LuaType, ControlInv, luaVars, conVars
<1>1. LuaType /\ cur \in Task \cup {None}
  BY DEF IInv, TypeOK
<1>2. ASSUME NEW t \in Task, AsyncStart(t) PROVE LuaType'
  <2>1. IsFiniteSet(started) /\ started' = started \cup {t} /\ t \notin started
    BY <1>1, <1>2, Numbers, FS_Subset DEF AsyncStart
  <2>2. Cardinality(started) \in Nat /\ Cardinality(started) < Cardinality(Task)
    <3>1. Cardinality(started') = Cardinality(started) + 1 /\ Cardinality(started) \in Nat
      BY <2>1, FS_AddElement, FS_CardinalityType
    <3>2. Cardinality(started') <= Cardinality(Task)
      BY <1>1, <2>1, Numbers, FS_Subset
    <3>3. QED
      BY <3>1, <3>2, Numbers
  <2>3. nonce \in Nonces \ {0} /\ nonce + 1 \in 1..Cardinality(Task) + 1
    BY <1>1, <2>2, Numbers DEF IInv, NonceInv
  <2>4. CASE idlenonce # <<>>
    <3>1. idlenonce[Len(idlenonce)] \in Nonces \ {0}
      BY <1>1, <2>4
    <3>2. SubSeq(idlenonce, 1, Len(idlenonce) - 1) \in Seq(Nonces \ {0})
      BY <1>1, <2>4
    <3>3. QED
      BY <1>1, <1>2, <2>4, <3>1, <3>2 DEF AsyncStart
  <2>5. CASE idlenonce = <<>>
    BY <1>1, <1>2, <2>3, <2>5 DEF AsyncStart
  <2>6. QED
    BY <2>4, <2>5
<1>3. CASE TaskReturn
  BY <1>1, <1>3, Numbers DEF TaskReturn, IInv
<1>4. CASE TaskFail
  BY <1>1, <1>4 DEF TaskFail, IInv
<1>5. CASE AsyncDispatch \/ AsyncReject
  BY <1>1, <1>5 DEF AsyncDispatch, AsyncReject, IInv, Caller
<1>6. CASE SyncDispatch \/ SyncReject
  BY <1>1, <1>6 DEF SyncDispatch, SyncReject, Caller
<1>7. CASE UNCHANGED <<luaVars, ncalls>>
  BY <1>1, <1>7
<1>8. QED
  BY <1>2, <1>3, <1>4, <1>5, <1>6, <1>7
     DEF Next, Script, Console, EventThread, HttpClient, Finished, vars,
         AsyncRegister, WaitEnter, WaitRespond, WaitAdvance, WaitPark, WaitBlock, WaitTimeout,
         SyncReject, SyncReturn, SyncDone, ScriptReturn, Halt, Answer,
         FetchReply, FetchNull, HandleSyncReply, HandleAsyncReply,
         PushWrite, PushCount, PushNotify, EraseCallback, ResetQueue

LEMMA ConTypeStep ==
    ASSUME IInv, [Next]_vars
    PROVE  ConType'
<1> USE DEF ConType, conVars
<1>1. /\ ConType
      /\ jsonRsp \in Call \cup {NoCall} /\ cononce \in [Task -> Nonces]
      /\ ncalls \in [Caller -> Nat]
  BY DEF IInv, TypeOK
<1>2. ASSUME NEW t \in Task, AsyncStart(t) PROVE ConType'
  BY <1>1, <1>2 DEF AsyncStart
<1>3. CASE TaskReturn \/ TaskFail \/ AsyncDispatch \/ AsyncReject
  BY <1>1, <1>3 DEF TaskReturn, TaskFail, AsyncDispatch, AsyncReject
<1>4. CASE AsyncRegister
  BY <1>1, <1>4 DEF AsyncRegister
<1>5. CASE WaitEnter \/ WaitAdvance \/ WaitPark \/ WaitBlock \/ WaitTimeout
  BY <1>1, <1>5 DEF WaitEnter, WaitAdvance, WaitPark, WaitBlock, WaitTimeout
<1>6. CASE WaitRespond
  <2>1. ASSUME NEW t \in Task PROVE CallOf(t) \in Call
    BY <1>1 DEF CallOf, Call, Caller
  <2>2. started \subseteq Task
    BY DEF IInv, TypeOK
  <2>3. QED
    BY <1>1, <1>6, <2>1, <2>2, Responded DEF WaitRespond
<1>7. CASE SyncDispatch \/ SyncReject \/ SyncDone \/ ScriptReturn \/ Halt
  BY <1>1, <1>7 DEF SyncDispatch, SyncReject, SyncDone, ScriptReturn, Halt
<1>8. CASE SyncReturn
  BY <1>1, <1>8 DEF SyncReturn
<1>9. CASE PushNotify
  BY <1>1, <1>9 DEF PushNotify
<1>10. CASE UNCHANGED conVars
  BY <1>1, <1>10
<1>11. QED
  BY <1>2, <1>3, <1>4, <1>5, <1>6, <1>7, <1>8, <1>9, <1>10
     DEF Next, Script, Console, EventThread, HttpClient, Finished, vars,
         Answer, FetchReply, FetchNull, HandleSyncReply, HandleAsyncReply, PushWrite,
         PushCount, EraseCallback, ResetQueue

LEMMA RingTypeStep ==
    ASSUME IInv, [Next]_vars
    PROVE  RingType'
<1> USE DEF RingType, ringVars, syncVars
<1>1. /\ RingType
      /\ cononce \in [Task -> Nonces] /\ cur \in Task \cup {None}
      /\ pEvent \in [nonce : Nonces, call : Call \cup {NoCall}, outcome : Outcomes]
  BY DEF IInv, TypeOK
<1>2. CASE AsyncDispatch \/ SyncDispatch
  <2>1. ioComplt' = [fResult |-> FALSE, fCompleted |-> FALSE]
    BY <1>2 DEF AsyncDispatch, SyncDispatch
  <2>2. UNCHANGED <<mapAsyncCallback, ringVars, jsonRsp>>
    BY <1>2 DEF AsyncDispatch, SyncDispatch
  <2>3. ioComplt' \in [fResult : BOOLEAN, fCompleted : BOOLEAN]
    BY <2>1
  <2>4. QED
    BY <1>1, <2>2, <2>3
<1>3. CASE AsyncRegister
  <2>1. cur \in Task
    BY <1>3 DEF AsyncRegister, IInv, ControlInv, TypeOK
  <2>2. QED
    BY <1>1, <1>3, <2>1 DEF AsyncRegister
<1>4. CASE WaitAdvance
  BY <1>1, <1>4 DEF WaitAdvance
<1>5. CASE HandleSyncReply
  BY <1>1, <1>5 DEF HandleSyncReply, fRet
<1>6. CASE PushWrite
  BY <1>1, <1>6 DEF PushWrite, Response
<1>7. CASE PushCount
  BY <1>1, <1>7 DEF PushCount
<1>8. CASE EraseCallback
  BY <1>1, <1>8 DEF EraseCallback
<1>9. CASE UNCHANGED <<mapAsyncCallback, ringVars, syncVars>>
  BY <1>1, <1>9
<1>11. CASE AsyncReject \/ SyncReject
  <2>1. ResetOrNot /\ UNCHANGED <<mapAsyncCallback, ringVars, jsonRsp>>
    BY <1>11 DEF AsyncReject, SyncReject
  <2>2. ioComplt' = ioComplt \/ ioComplt' = [fResult |-> FALSE, fCompleted |-> FALSE]
    BY <2>1 DEF ResetOrNot
  <2>3. ioComplt' \in [fResult : BOOLEAN, fCompleted : BOOLEAN]
    <3>1. [fResult |-> FALSE, fCompleted |-> FALSE] \in [fResult : BOOLEAN, fCompleted : BOOLEAN]
      OBVIOUS
    <3>2. ioComplt \in [fResult : BOOLEAN, fCompleted : BOOLEAN]
      BY <1>1
    <3> QED BY ONLY <2>2, <3>1, <3>2
  <2>4. QED
    BY <1>1, <2>1, <2>3
<1>10. QED
  BY <1>2, <1>3, <1>4, <1>5, <1>6, <1>7, <1>8, <1>9, <1>11
     DEF Next, Script, Console, EventThread, HttpClient, Finished, vars,
         AsyncStart, TaskReturn, TaskFail,
         WaitEnter, WaitRespond, WaitPark, WaitBlock, WaitTimeout,
         SyncReject, SyncReturn, SyncDone, ScriptReturn, Halt, Answer,
         FetchReply, FetchNull, HandleAsyncReply, PushNotify, ResetQueue

LEMMA EventTypeStep ==
    ASSUME IInv, [Next]_vars
    PROVE  EventType'
<1> DEFINE Event == [nonce : Nonces, call : Call, outcome : Outcomes]
<1> USE DEF EventType, queVars, evtVars, lostVars
<1>1. /\ EventType
      /\ ncalls \in [Caller -> Nat] /\ cononce \in [Task -> Nonces]
      /\ Main \in Caller /\ Task \subseteq Caller /\ 0 \in Nonces
      /\ http \subseteq [nonce : Nonces, call : Call]
  BY Numbers DEF IInv, TypeOK, Caller, Request
<1>2. \A c \in Caller : NextCall(c) \in Call
  BY <1>1 DEF NextCall, Call
<1>3. {que[i].call : i \in DOMAIN que} \subseteq Call
  <2>1. que \in Seq(Event)
    BY <1>1
  <2>2. ASSUME NEW i \in DOMAIN que PROVE que[i].call \in Call
    <3>1. i \in 1..Len(que)
      BY <2>1
    <3>2. que[i] \in Event
      BY <2>1, <3>1, ElementOfSeq
    <3>3. QED
      BY <3>2
  <2>3. QED
    BY <2>2
<1>4. CASE AsyncDispatch
  <2>1. cur \in Task
    BY <1>4 DEF AsyncDispatch, IInv, ControlInv, TypeOK
  <2>2. QED
    BY <1>1, <1>2, <1>4, <2>1 DEF AsyncDispatch, Request
<1>5. CASE SyncDispatch
  BY <1>1, <1>2, <1>5 DEF SyncDispatch, Request
<1>6. CASE WaitRespond
  BY <1>1, <1>6 DEF WaitRespond
<1>7. CASE Halt
  BY <1>1, <1>3, <1>7 DEF Halt, Q!Interrupt
<1>8. ASSUME NEW request \in http, NEW outcome \in Outcome, Answer(request, outcome)
      PROVE  EventType'
  <2>1. [nonce |-> request.nonce, call |-> request.call, outcome |-> outcome] \in Event
    BY <1>1, RpcClientAssumption
  <2>2. QED
    BY <1>1, <1>8, <2>1 DEF Answer, Q!AddNew
<1>9. CASE FetchReply
  <2>1. que \in Seq(Event) /\ que # <<>>
    BY <1>1, <1>9 DEF FetchReply, Q!Fetch
  <2>2. Head(que) \in Event /\ Tail(que) \in Seq(Event)
    BY <2>1, HeadTailProperties
  <2>3. Event \subseteq [nonce : Nonces, call : Call \cup {NoCall}, outcome : Outcomes]
    OBVIOUS
  <2> HIDE DEF Event
  <2>4. pEvent' = Head(que) /\ que' = Tail(que) /\ evt' = "handle"
        /\ UNCHANGED <<fAbort, http, freed, raced>>
    BY <1>9 DEF FetchReply, Q!Fetch
  <2>5. QED
    BY <1>1, <2>2, <2>3, <2>4 DEF Event
<1>10. CASE FetchNull \/ HandleSyncReply \/ PushWrite \/ PushCount \/ PushNotify
  BY <1>1, <1>10 DEF FetchNull, Q!FetchNull, HandleSyncReply, PushWrite, PushCount, PushNotify,
                     Handled
<1>15. CASE EraseCallback
  <2>1. Later \subseteq Call
    BY <1>1 DEF Later, CallOf, Call
  <2>2. QED
    BY <1>1, <1>15, <2>1 DEF EraseCallback, Handled
<1>11. CASE HandleAsyncReply
  <2>1. pEvent.call \in Call
    BY <1>11, Numbers, <1>1 DEF HandleAsyncReply, IInv, WaitInv, InEvent, Waits, CallOf, Call, TypeOK
  <2>2. QED
    BY <1>1, <1>11, <2>1 DEF HandleAsyncReply, Handled
<1>12. CASE ResetQueue
  <2>1. que' = <<>> /\ fAbort' = FALSE /\ evt' = "fetch" /\ UNCHANGED <<pEvent, http>>
    BY <1>12 DEF ResetQueue, Q!Reset
  <2>2. freed' \subseteq Call /\ raced' \subseteq Call
    BY <1>1, <1>3, <1>12 DEF ResetQueue
  <2>3. que' \in Seq(Event)
    BY <2>1
  <2>4. QED
    BY <1>1, <2>1, <2>2, <2>3
<1>13. CASE UNCHANGED <<queVars, evtVars, http, lostVars>>
  BY <1>1, <1>13
<1>14. QED
  BY <1>4, <1>5, <1>6, <1>7, <1>8, <1>9, <1>10, <1>11, <1>12, <1>13, <1>15
     DEF Next, Script, Console, EventThread, HttpClient, Finished, vars,
         AsyncStart, TaskReturn, TaskFail, AsyncReject, AsyncRegister,
         WaitEnter, WaitAdvance, WaitPark, WaitBlock, WaitTimeout,
         SyncReject, SyncReturn, SyncDone, ScriptReturn

(***************************************************************************)
(* The invariant, and what it says of the replies.                         *)
(***************************************************************************)
LEMMA Initially == Init => IInv
<1> SUFFICES ASSUME Init PROVE IInv
  OBVIOUS
<1> USE DEF Init
<1>1. TypeOK
  BY Numbers DEF TypeOK, Outcomes, Response, Request, Call, Caller, NoCall
<1>2. ControlInv /\ StateInv /\ SyncInv
  BY DEF ControlInv, StateInv, SyncInv, NoCall
<1>3. NonceInv
  BY FS_EmptySet DEF NonceInv
<1>4. WaitInv /\ AloneInv /\ RingInv
  BY DEF WaitInv, AloneInv, RingInv, Unread, FirstUnread, InEvent, None
<1>5. QED
  BY <1>1, <1>2, <1>3, <1>4 DEF IInv

\* The invariant holds in every state.
LEMMA Invariant == Spec => []IInv
<1>1. IInv /\ [Next]_vars => IInv'
  <2> SUFFICES ASSUME IInv, [Next]_vars PROVE IInv'
    OBVIOUS
  <2>1. (LuaType /\ ConType /\ RingType /\ EventType)'
    BY LuaTypeStep, ConTypeStep, RingTypeStep, EventTypeStep
  <2>2. TypeOK'
    BY <2>1, TypeParts DEF TypeOK, LuaType, ConType, RingType, EventType
  <2>3. QED
    BY <2>2, ControlStep, NonceStep, StateStep, WaitStep, AloneStep, RingStep, SyncStep DEF IInv
<1>2. QED
  BY <1>1, Initially, PTL DEF Spec

\* Each variable keeps its type: in particular no nonce exceeds the number of tasks
\* (rpc.lua:420-437), and the event thread only ever handles replies of calls that were made.
THEOREM Types == Spec => []TypeOK
<1>1. IInv => TypeOK
  BY DEF IInv
<1>2. QED
  BY <1>1, Invariant, PTL

\* A caller has at most one reply on its way.
LEMMA OneReply == IInv => OneReplyPerCaller
<1> SUFFICES ASSUME IInv, NEW c \in Caller PROVE Outstanding(c) <= 1
  BY DEF OneReplyPerCaller
<1> USE DEF IInv, AloneInv
<1>1. /\ \A x, y \in InHttp(c) : x = y
      /\ \A x, y \in InQueue(c) : x = y
      /\ \A x, y \in InHand(c) : x = y
      /\ \A x, y \in InRing(c) : x = y
  <2>1. ASSUME NEW x \in InHttp(c), NEW y \in InHttp(c) PROVE x = y
    BY AloneInHttp DEF InHttp, TypeOK, Request
  <2>2. QED
    BY <2>1 DEF InQueue, InHand, InRing, Resp, Unread
<1>2. /\ InHttp(c) # {} => InQueue(c) = {} /\ InHand(c) = {} /\ InRing(c) = {}
      /\ InQueue(c) # {} => InHand(c) = {} /\ InRing(c) = {}
      /\ InHand(c) # {} => InRing(c) = {}
  BY DEF InHttp, InQueue, InHand, InRing, Resp, Unread, InEvent
<1> DEFINE Size(S) == IF S = {} THEN Cardinality(S) = 0 ELSE Cardinality(S) = 1
<1>3. Size(InHttp(c)) /\ Size(InQueue(c)) /\ Size(InHand(c)) /\ Size(InRing(c))
  BY <1>1, AtMostOne
<1>4. QED
  BY <1>2, <1>3 DEF Outstanding

\* Whatever replies fail, come late or are dropped, each caller is given the reply of its
\* own call, one at a time, and none is overwritten, for every number of tasks and calls and
\* every ring with a slot for each task (rpc.lua:450, interactive.cpp:500).
THEOREM Matched == Spec => []RepliesMatched
<1>1. IInv => RepliesMatched
  <2> SUFFICES ASSUME IInv PROVE RepliesMatched
    OBVIOUS
  <2>1. AsyncReplyIsOwn
    BY DEF AsyncReplyIsOwn, IInv, ControlInv
  <2>2. RingNotOverrun
    BY Room DEF RingNotOverrun
  <2>3. QED
    BY <2>1, <2>2, OneReply DEF RepliesMatched
<1>2. QED
  BY <1>1, Invariant, PTL

\* If every reply of status 200 is a JSON object, a synchronous call that succeeds returns
\* the object of its own reply (rpcclient.cpp:64, interactive.cpp:248).
THEOREM SyncMatched ==
    ASSUME "value" \notin Outcome
    PROVE  Spec => []SyncReplyIsOwn
<1>1. IInv => SyncReplyIsOwn
  BY DEF IInv, SyncInv, SyncReplyIsOwn
<1>2. QED
  BY <1>1, Invariant, PTL
=============================================================================
