------------------------------ MODULE HttpGet ------------------------------
(***************************************************************************)
(* CHttpGet, the HTTP client module, with the layers it stands on: the     *)
(* outbound connections of CIOSSLOutBound, the sockets of CIOClient, the   *)
(* timers and the resolver of CIOProc.  All of it runs in the module's one *)
(* IO thread: every handler below is one step, and the concurrency is that *)
(* of the pending asynchronous operations, which complete in any order.    *)
(*                                                                         *)
(* A request opens at most one socket, so a socket is named by the request *)
(* that opened it; it may end up carrying another request.                 *)
(*                                                                         *)
(* Every request carries a timeout (rpctimeout is at least 1), and the     *)
(* module that asks is always found by PostResponse.                       *)
(***************************************************************************)
EXTENDS Naturals, Sequences, SequencesExt, FiniteSets, FiniteSetsExt, Functions

CONSTANTS Req,            \* the requests made in a behaviour
          NonceOf,        \* request -> nonce; 0 for a synchronous call
          HostOf,         \* request -> the host it names
          Address,        \* host name that must be resolved -> IP host
          NMaxConn,       \* GetMaxOutBoundCount
          Sequential,     \* requests come as RpcClient makes them: a nonce is used
                          \* again only after its answer, and nothing is asked while
                          \* a synchronous call waits
          ConnectMayTimeOut,  \* a connect timer may expire
          AllocMayFail,   \* ClientAlloc may return NULL (TLS context)
          PeerMayReset,   \* a connection may be reset as it is established
          AbortNonces     \* the nonces that may be aborted

Host == {HostOf[r] : r \in Req} \cup {Address[h] : h \in DOMAIN Address}

ASSUME HttpGetAssumption ==
    /\ IsFiniteSet(Req)
    /\ NonceOf \in [Req -> Nat]
    /\ HostOf \in [Req -> Host]
    /\ \A h \in DOMAIN Address : Address[h] \notin DOMAIN Address
    /\ NMaxConn \in Nat
    /\ {Sequential, ConnectMayTimeOut, AllocMayFail, PeerMayReset} \subseteq BOOLEAN
    /\ AbortNonces \subseteq Nat

VARIABLES
    accepted,      \* the requests dispatched to this module
    answers,       \* events posted for each request
    loop,          \* "running", "left" or, after a use of freed memory, "crashed"
    tm,            \* nTimerId and mapTimerById
    resolving,     \* the requests with a resolver operation under way
    sock,          \* state of each socket
    remote,        \* the endpoint each socket was to be connected to
    connTimer,     \* the timer id bound in each socket's connect handler
    mapPending,    \* timer id -> socket being connected
    mapRequest,    \* the requests waiting for a connection, oldest first
    mapGetClient   \* the connections in use or kept alive, oldest first

vars == <<accepted, answers, loop, tm, resolving, sock, remote, connTimer,
          mapPending, mapRequest, mapGetClient>>
----------------------------------------------------------------------------
(* The timers of a CIOProc, as operators on the record                     *)
(*     [nTimerId |-> the static counter of SetTimer,                       *)
(*      byId     |-> mapTimerById, timer id -> nonce and what it times,    *)
(*      robbed   |-> history: see below]                                   *)
(* The second index of the code, mapTimerByExpiry, holds the same timers   *)
(* in the order of their expiry.  Time is abstracted: any live timer may   *)
(* be the next to expire.  The counter is a uint32; its wrap-around needs  *)
(* 2^32 timers alive at the moment they are passed over and is left out.   *)
(* Timers are set, cancelled and expire by id, and an id is given out      *)
(* again at once, so that what has kept an old id may cancel or take the   *)
(* timer of another.  The code does not know what a timer was set for: the *)
(* history remembers it, and those that have lost their timer to another.  *)

NoTimers == [nTimerId |-> 0, byId |-> <<>>, robbed |-> {}]

Live(ts) == DOMAIN ts.byId

\* The counter stays where it is unless its value is 0 or a live timer: the id of
\* a timer that has just been cancelled or has expired is given out again.
NextId(ts) ==
    Min({n \in ts.nTimerId..ts.nTimerId + Cardinality(Live(ts)) + 1 :
            n # 0 /\ n \notin Live(ts)})

\* The id of the new timer is the counter of the record returned.
SetTimer(ts, nonce, s) ==
    [nTimerId |-> NextId(ts),
     byId |-> [n \in Live(ts) \cup {NextId(ts)} |->
                  IF n = NextId(ts) THEN [nonce |-> nonce, sock |-> s] ELSE ts.byId[n]],
     robbed |-> ts.robbed \ {s}]

\* CancelTimer on behalf of s; an id that is 0 or not live does nothing.
CancelTimer(ts, id, s) ==
    [ts EXCEPT !.byId = Restrict(ts.byId, Live(ts) \ {id}),
               !.robbed = @ \cup ({ts.byId[t].sock : t \in {id} \cap Live(ts)} \ {s})]
----------------------------------------------------------------------------

\* A socket is "connecting" until its connect handler runs and "open" while a client
\* owns it.  Closed with an operation pending it is "closing" until the operation's
\* handler has run.  An "orphan" was deleted by the connect timeout, which leaves its
\* connect handler to run on freed memory.  The final states keep the reason.
InUse == {s \in Req : sock[s] \in {"connecting", "open", "closing"}}

\* The position of the first element that satisfies the test, 0 if none does.
OldestRequest(host) == SelectInSeq(mapRequest, LAMBDA q : q.host = host)
ClientFor(nonce, host) ==
    SelectInSeq(mapGetClient, LAMBDA c : c.nonce = nonce /\ remote[c.sock] = host)
ClientTimedBy(nonce, id) ==
    SelectInSeq(mapGetClient, LAMBDA c : c.nonce = nonce /\ c.timer = id)
FirstClient(nonce) == SelectInSeq(mapGetClient, LAMBDA c : c.nonce = nonce)

IsIdle(c) == c.stage = "idle"

\* Requests waiting for the given hosts, and the requests of busy clients.
Waiting(hosts) == {mapRequest[i].req : i \in {j \in DOMAIN mapRequest : mapRequest[j].host \in hosts}}
Busy == {c.req : c \in {d \in ToSet(mapGetClient) : ~IsIdle(d)}}

\* The elements at the given positions, in their order: the others are erased.
Keep(s, I) ==
    [k \in 1..Cardinality(I) |-> s[CHOOSE i \in I : Cardinality({j \in I : j <= i}) = k]]

Init ==
    /\ accepted = {}
    /\ answers = [r \in Req |-> 0]
    /\ loop = "running"
    /\ tm = NoTimers
    /\ resolving = {}
    /\ sock = [s \in Req |-> "none"]
    /\ remote = HostOf
    /\ connTimer = [s \in Req |-> 0]
    /\ mapPending = <<>>
    /\ mapRequest = <<>>
    /\ mapGetClient = <<>>
----------------------------------------------------------------------------
\* PostError and PostResponse: one event for each of the requests.
Post(requests) ==
    answers' = [r \in Req |-> answers[r] + IF r \in requests THEN 1 ELSE 0]

\* CIOSSLOutBound::ConnectTo.  std::map::insert ignores a key that is present.
SSLConnect(s, host) ==
    /\ Cardinality(InUse) < NMaxConn
    /\ tm' = SetTimer(tm, 0, s)
    /\ sock' = [sock EXCEPT ![s] = "connecting"]
    /\ remote' = [remote EXCEPT ![s] = host]
    /\ connTimer' = [connTimer EXCEPT ![s] = tm'.nTimerId]
    /\ mapPending' = [t \in DOMAIN mapPending \cup {tm'.nTimerId} |->
                         IF t \in DOMAIN mapPending THEN mapPending[t] ELSE s]

SSLConnectRefused ==
    /\ AllocMayFail \/ Cardinality(InUse) >= NMaxConn
    /\ UNCHANGED <<tm, sock, remote, connTimer, mapPending>>

\* Mutant of Active: the id of the timer is not kept.
ActiveUntimed(s, r, timers) ==
    [sock |-> s, nonce |-> NonceOf[r], timer |-> 0, req |-> r, stage |-> "write"]

\* CHttpGetClient::Activate: the client starts to write the request.
Active(s, r, timers) ==
    [sock |-> s, nonce |-> NonceOf[r], timer |-> timers.nTimerId, req |-> r, stage |-> "write"]

\* Mutant of CloseConn: the timer is left running.
CloseConnTimerLeft(i, closed) ==
    LET c == mapGetClient[i] IN
    /\ Post(IF IsIdle(c) THEN {} ELSE {c.req})
    /\ mapGetClient' = RemoveAt(mapGetClient, i)
    /\ sock' = [sock EXCEPT ![c.sock] = closed]
    /\ UNCHANGED tm

\* CloseConn of the i-th client: its timer is cancelled, a busy client's request is
\* answered, and its socket ends in the state given.  An idle client has kept the id
\* of the timer of its last request, and that timer is cancelled too.
CloseConn(i, closed) ==
    LET c == mapGetClient[i] IN
    /\ tm' = CancelTimer(tm, c.timer, c.sock)
    /\ Post(IF IsIdle(c) THEN {} ELSE {c.req})
    /\ mapGetClient' = RemoveAt(mapGetClient, i)
    /\ sock' = [sock EXCEPT ![c.sock] = closed]

\* A client closed from outside its own handler leaves an operation pending, if busy.
CloseState(i) == IF IsIdle(mapGetClient[i]) THEN "closed" ELSE "closing"

\* CIOSSLOutBound::HandleConnect begins by cancelling its timer, by id.
Unpend(id) == mapPending' = Restrict(mapPending, DOMAIN mapPending \ {id})

\* Mutants of FailOldest: the request is answered and not erased; the failure of an
\* aborted connection attempt is ignored.
FailOldestKept(host) ==
    LET i == OldestRequest(host) IN
    /\ Post(IF i = 0 THEN {} ELSE {mapRequest[i].req})
    /\ UNCHANGED mapRequest

FailNobody(host) == UNCHANGED <<answers, mapRequest>>

\* ClientFailToConnect: the oldest request for that endpoint fails.
FailOldest(host) ==
    LET i == OldestRequest(host) IN
    IF i = 0
    THEN UNCHANGED <<answers, mapRequest>>
    ELSE /\ Post({mapRequest[i].req})
         /\ mapRequest' = RemoveAt(mapRequest, i)
----------------------------------------------------------------------------
(***************************************************************************)
(* HandleEvent(CWalleveEventHttpGet), one action per way through it.       *)
(***************************************************************************)
Request(r) ==
    /\ loop = "running"
    /\ r \notin accepted
    /\ Sequential => \A q \in accepted :
                         NonceOf[q] \in {0, NonceOf[r]} => answers[q] > 0
    /\ accepted' = accepted \cup {r}
    /\ UNCHANGED loop

\* A connection of this nonce to this host is idle: use it again.
RequestOnIdle(r) ==
    LET i == ClientFor(NonceOf[r], HostOf[r]) IN
    /\ Request(r)
    /\ i # 0 /\ IsIdle(mapGetClient[i])
    /\ tm' = SetTimer(tm, NonceOf[r], mapGetClient[i].sock)
    /\ mapGetClient' = [mapGetClient EXCEPT ![i] = Active(@.sock, r, tm')]
    /\ UNCHANGED <<answers, resolving, sock, remote, connTimer, mapPending, mapRequest>>

\* It is busy: HTTPGET_INVALID_NONCE.
RequestOnBusy(r) ==
    LET i == ClientFor(NonceOf[r], HostOf[r]) IN
    /\ Request(r)
    /\ i # 0 /\ ~IsIdle(mapGetClient[i])
    /\ Post({r})
    /\ UNCHANGED <<tm, resolving, sock, remote, connTimer, mapPending, mapRequest,
                   mapGetClient>>

\* There is none and the host is an address: connect, or HTTPGET_CONNECT_FAILED.
RequestConnects(r) ==
    /\ Request(r)
    /\ ClientFor(NonceOf[r], HostOf[r]) = 0
    /\ HostOf[r] \notin DOMAIN Address
    /\ SSLConnect(r, HostOf[r])
    /\ mapRequest' = Append(mapRequest, [host |-> HostOf[r], req |-> r])
    /\ UNCHANGED <<answers, resolving, mapGetClient>>

RequestRefused(r) ==
    /\ Request(r)
    /\ ClientFor(NonceOf[r], HostOf[r]) = 0
    /\ HostOf[r] \notin DOMAIN Address
    /\ SSLConnectRefused
    /\ Post({r})
    /\ UNCHANGED <<resolving, mapRequest, mapGetClient>>

\* There is none and the host is a name: resolve it.
RequestResolves(r) ==
    /\ Request(r)
    /\ ClientFor(NonceOf[r], HostOf[r]) = 0
    /\ HostOf[r] \in DOMAIN Address
    /\ resolving' = resolving \cup {r}
    /\ mapRequest' = Append(mapRequest, [host |-> HostOf[r], req |-> r])
    /\ UNCHANGED <<answers, tm, sock, remote, connTimer, mapPending, mapGetClient>>
----------------------------------------------------------------------------
(***************************************************************************)
(* IOProcHandleResolved.  The name's oldest request is served, whichever   *)
(* request started this resolver operation.                                *)
(***************************************************************************)
ResolverDone(r) ==
    /\ loop = "running"
    /\ r \in resolving
    /\ resolving' = resolving \ {r}
    /\ UNCHANGED <<accepted, loop, mapGetClient>>

HostResolved(r) ==
    LET host == HostOf[r]
        i == OldestRequest(host)
        q == mapRequest[i].req
    IN
    /\ ResolverDone(r)
    /\ IF i = 0
       THEN UNCHANGED <<answers, tm, sock, remote, connTimer, mapPending, mapRequest>>
       ELSE \/ /\ SSLConnect(q, Address[host])
               /\ mapRequest' = Append(RemoveAt(mapRequest, i),
                                       [host |-> Address[host], req |-> q])
               /\ UNCHANGED answers
            \/ /\ SSLConnectRefused
               /\ Post({q})
               /\ mapRequest' = RemoveAt(mapRequest, i)

HostFailToResolve(r) ==
    /\ ResolverDone(r)
    /\ Post(Waiting({HostOf[r]}))
    /\ mapRequest' = Keep(mapRequest, {i \in DOMAIN mapRequest :
                                          mapRequest[i].host # HostOf[r]})
    /\ UNCHANGED <<tm, sock, remote, connTimer, mapPending>>
----------------------------------------------------------------------------
(***************************************************************************)
(* The connect handler: CIOClient::HandleConnCompleted and                 *)
(* CIOSSLOutBound::HandleConnect.                                          *)
(***************************************************************************)
ConnectDone(s) ==
    /\ loop = "running"
    /\ sock[s] = "connecting"
    /\ Unpend(connTimer[s])
    /\ UNCHANGED <<accepted, loop, resolving, remote, connTimer>>

\* ClientConnected: the connection takes the oldest request for its endpoint and is
\* shut down if there is none.
ClientConnected(s) ==
    LET i == OldestRequest(remote[s])
        timers == CancelTimer(tm, connTimer[s], s)
    IN
    /\ ConnectDone(s)
    /\ IF i = 0
       THEN /\ tm' = timers
            /\ sock' = [sock EXCEPT ![s] = "closed"]
            /\ UNCHANGED <<mapRequest, mapGetClient>>
       ELSE LET r == mapRequest[i].req IN
            /\ tm' = SetTimer(timers, NonceOf[r], s)
            /\ sock' = [sock EXCEPT ![s] = "open"]
            /\ mapRequest' = RemoveAt(mapRequest, i)
            /\ mapGetClient' = Append(mapGetClient, Active(s, r, tm'))
    /\ UNCHANGED answers

\* GetRemote throws when the peer has reset the connection already; it yields no
\* endpoint, no request is found for it and the connection is shut down.
ClientReset(s) ==
    /\ PeerMayReset
    /\ ConnectDone(s)
    /\ tm' = CancelTimer(tm, connTimer[s], s)
    /\ sock' = [sock EXCEPT ![s] = "reset"]
    /\ UNCHANGED <<answers, mapRequest, mapGetClient>>

ClientFailToConnect(s) ==
    /\ ConnectDone(s)
    /\ tm' = CancelTimer(tm, connTimer[s], s)
    /\ sock' = [sock EXCEPT ![s] = "closed"]
    /\ FailOldest(remote[s])
    /\ UNCHANGED mapGetClient

\* The connect handler of a socket that the connect timeout has deleted: it reads
\* freed memory.  As long as the memory still holds the closed socket it reports
\* operation_aborted, cancelling by id a timer that may belong to another by now.
OrphanConnect(s) ==
    /\ loop = "running"
    /\ sock[s] = "orphan"
    /\ Unpend(connTimer[s])
    /\ tm' = CancelTimer(tm, connTimer[s], s)
    /\ sock' = [sock EXCEPT ![s] = "reported"]
    /\ FailOldest(remote[s])
    /\ UNCHANGED <<accepted, loop, resolving, remote, connTimer, mapGetClient>>

OrphanCrash(s) ==
    /\ loop = "running"
    /\ sock[s] = "orphan"
    /\ loop' = "crashed"
    /\ UNCHANGED <<accepted, answers, tm, resolving, sock, remote, connTimer,
                   mapPending, mapRequest, mapGetClient>>
----------------------------------------------------------------------------
(***************************************************************************)
(* The handlers of CHttpGetClient.                                         *)
(***************************************************************************)
\* A read or a write succeeds and the response is not complete: the next operation.
NextStage(stage) ==
    CASE stage = "write" -> {"header"}
      [] stage = "header" -> {"payload", "chunked"}
      [] stage = "chunked" -> {"chunked"}
      [] OTHER -> {}

ClientProceeds(i) ==
    /\ loop = "running"
    /\ \E stage \in NextStage(mapGetClient[i].stage) :
           mapGetClient' = [mapGetClient EXCEPT ![i].stage = stage]
    /\ UNCHANGED <<accepted, answers, loop, tm, resolving, sock, remote, connTimer,
                   mapPending, mapRequest>>

\* HandleClientCompleted: the response is posted and the connection kept alive ...
ClientCompleted(i) ==
    LET c == mapGetClient[i] IN
    /\ loop = "running"
    /\ c.stage \in {"header", "payload", "chunked"}
    /\ tm' = CancelTimer(tm, c.timer, c.sock)
    /\ Post({c.req})
    /\ mapGetClient' = [mapGetClient EXCEPT ![i].stage = "idle"]
    /\ UNCHANGED <<accepted, loop, resolving, sock, remote, connTimer, mapPending,
                   mapRequest>>

\* ... or closed, when the server asks for it.
ClientCompletedClose(i) ==
    /\ loop = "running"
    /\ mapGetClient[i].stage \in {"header", "payload", "chunked"}
    /\ CloseConn(i, "closed")
    /\ UNCHANGED <<accepted, loop, resolving, remote, connTimer, mapPending, mapRequest>>

\* HandleClientError, from any stage: HTTPGET_INTERRUPTED.
ClientError(i) ==
    /\ loop = "running"
    /\ ~IsIdle(mapGetClient[i])
    /\ CloseConn(i, "closed")
    /\ UNCHANGED <<accepted, loop, resolving, remote, connTimer, mapPending, mapRequest>>

\* The aborted operation of a closed socket: CIOClient::HandleCompleted only
\* releases the socket.
ClosedOperation(s) ==
    /\ loop = "running"
    /\ sock[s] = "closing"
    /\ sock' = [sock EXCEPT ![s] = "closed"]
    /\ UNCHANGED <<accepted, answers, loop, tm, resolving, remote, connTimer,
                   mapPending, mapRequest, mapGetClient>>
----------------------------------------------------------------------------
(***************************************************************************)
(* IOProcPollTimer finds timer t expired.  Timers of nonce 0 go to the     *)
(* outbound connections, the others to CHttpGet::Timeout.                  *)
(***************************************************************************)
ConnectTimeout(t) ==
    /\ loop = "running"
    /\ t \in Live(tm) /\ tm.byId[t].nonce = 0
    /\ IF t \in DOMAIN mapPending
       THEN /\ ConnectMayTimeOut
            /\ tm' = CancelTimer(tm, t, mapPending[t])
            /\ sock' = [sock EXCEPT ![mapPending[t]] = "orphan"]
       ELSE /\ tm' = CancelTimer(tm, t, tm.byId[t].sock)
            /\ UNCHANGED sock
    /\ Unpend(t)
    /\ UNCHANGED <<accepted, answers, loop, resolving, remote, connTimer, mapRequest,
                   mapGetClient>>

ResponseTimeout(t) ==
    /\ loop = "running"
    /\ t \in Live(tm) /\ tm.byId[t].nonce # 0
    /\ LET i == ClientTimedBy(tm.byId[t].nonce, t)
       IN IF i = 0
          THEN /\ tm' = CancelTimer(tm, t, tm.byId[t].sock)
               /\ UNCHANGED <<answers, sock, mapGetClient>>
          ELSE CloseConn(i, CloseState(i))
    /\ UNCHANGED <<accepted, loop, resolving, remote, connTimer, mapPending, mapRequest>>

\* HandleEvent(CWalleveEventHttpAbort) for one nonce: the first client of the nonce,
\* idle or busy, is closed, and the requests waiting with that nonce are removed.
Abort(nonce) ==
    LET i == FirstClient(nonce)
        gone == {q \in Waiting(Host) : NonceOf[q] = nonce}
        running == IF i = 0 \/ IsIdle(mapGetClient[i]) THEN {} ELSE {mapGetClient[i].req}
    IN
    /\ loop = "running"
    /\ Post(gone \cup running)
    /\ mapRequest' = Keep(mapRequest, {j \in DOMAIN mapRequest :
                                          NonceOf[mapRequest[j].req] # nonce})
    /\ IF i = 0
       THEN UNCHANGED <<tm, sock, mapGetClient>>
       ELSE /\ tm' = CancelTimer(tm, mapGetClient[i].timer, mapGetClient[i].sock)
            /\ mapGetClient' = RemoveAt(mapGetClient, i)
            /\ sock' = [sock EXCEPT ![mapGetClient[i].sock] = CloseState(i)]
    /\ UNCHANGED <<accepted, loop, resolving, remote, connTimer, mapPending>>

\* WalleveHandleHalt stops the io_service; LeaveLoop answers what is left, the timers
\* are cleared and CIOSSLOutBound::Halt closes every socket.  No handler runs again.
LeaveLoop ==
    /\ loop = "running"
    /\ loop' = "left"
    /\ Post(Waiting(Host) \cup Busy)
    /\ mapRequest' = <<>>
    /\ mapGetClient' = <<>>
    /\ tm' = [tm EXCEPT !.byId = <<>>]
    /\ mapPending' = <<>>
    /\ sock' = [s \in Req |-> IF s \in InUse THEN "closed" ELSE sock[s]]
    /\ resolving' = {}
    /\ UNCHANGED <<accepted, remote, connTimer>>
----------------------------------------------------------------------------
TimerIds == 1..2 * Cardinality(Req)

Requests(r) ==
    RequestOnIdle(r) \/ RequestOnBusy(r) \/ RequestConnects(r) \/ RequestRefused(r)
        \/ RequestResolves(r)

Resolver(r) == HostResolved(r) \/ HostFailToResolve(r)

ConnectEnds(s) == ClientConnected(s) \/ ClientReset(s) \/ ClientFailToConnect(s)

Orphan(s) == OrphanConnect(s) \/ OrphanCrash(s)

Transfer ==
    \E i \in DOMAIN mapGetClient :
        ClientProceeds(i) \/ ClientCompleted(i) \/ ClientCompletedClose(i) \/ ClientError(i)

PollTimer(t) == ConnectTimeout(t) \/ ResponseTimeout(t)

Next ==
    \/ \E r \in Req : Requests(r) \/ Resolver(r)
    \/ \E s \in Req : ConnectEnds(s) \/ Orphan(s) \/ ClosedOperation(s)
    \/ Transfer
    \/ \E t \in TimerIds : PollTimer(t)
    \/ \E nonce \in AbortNonces : Abort(nonce)
    \/ LeaveLoop

Spec == Init /\ [][Next]_vars

\* The IO thread polls its timers every second and runs the handlers that are ready;
\* the resolver ends by itself.  A server may stay silent for ever, while the connection
\* is set up (a TLS handshake) or afterwards, and nothing obliges the program to make a
\* request, abort one or stop.
FairSpec ==
    /\ Spec
    /\ \A r \in Req : WF_vars(Resolver(r))
    /\ \A s \in Req : WF_vars(Orphan(s))
    /\ \A t \in TimerIds : WF_vars(PollTimer(t))

\* Where connect timers do not expire, a connection attempt ends before they would.
PromptSpec == FairSpec /\ \A s \in Req : WF_vars(ConnectEnds(s))
----------------------------------------------------------------------------
Client == [sock : Req, nonce : Nat, timer : TimerIds, req : Req,
           stage : {"idle", "write", "header", "payload", "chunked"}]

TypeOK ==
    /\ accepted \subseteq Req
    /\ answers \in [Req -> Nat]
    /\ loop \in {"running", "left", "crashed"}
    /\ tm.nTimerId \in TimerIds \cup {0}
    /\ Live(tm) \subseteq TimerIds
    /\ \A t \in Live(tm) : tm.byId[t] \in [nonce : Nat, sock : Req]
    /\ tm.robbed \subseteq Req
    /\ resolving \subseteq Req
    /\ sock \in [Req -> {"none", "connecting", "open", "closing", "closed", "reset",
                         "orphan", "reported"}]
    /\ remote \in [Req -> Host]
    /\ connTimer \in [Req -> TimerIds \cup {0}]
    /\ DOMAIN mapPending \subseteq TimerIds
    /\ \A t \in DOMAIN mapPending : mapPending[t] \in Req
    /\ mapRequest \in Seq([host : Host, req : Req])
    /\ mapGetClient \in Seq(Client)

\* The module keeps the promise of HttpService in all that can go wrong here: it never
\* answers a request twice, nor one it has not been given.
Service == INSTANCE HttpService

HttpServiceKept == Service!Spec

\* While the loop runs, an unanswered request is in one place, so that one handler
\* will answer it: it waits in mapRequest or a busy client carries it.  An answered one
\* is in neither.
Places(r) ==
    Cardinality({i \in DOMAIN mapRequest : mapRequest[i].req = r})
        + Cardinality({i \in DOMAIN mapGetClient :
                          mapGetClient[i].req = r /\ ~IsIdle(mapGetClient[i])})

EveryRequestHeld ==
    loop = "running" =>
        \A r \in accepted : Places(r) = (IF answers[r] = 0 THEN 1 ELSE 0)

\* No request is stranded in mapRequest.  The resolver and the connect handlers serve
\* the oldest request of their host, not the one they were started for, so there must
\* be a handler to come for each waiting request; a connection that the peer resets at
\* once is the one case in which a handler serves nobody.
Handlers(host) ==
    IF host \in DOMAIN Address
    THEN {r \in resolving : HostOf[r] = host}
    ELSE {s \in Req : remote[s] = host /\ sock[s] \in {"connecting", "orphan", "reset"}}

NoRequestStranded ==
    loop = "running" =>
        \A host \in Host : Cardinality(Waiting({host})) <= Cardinality(Handlers(host))

\* A timer of nonce 0 is either a connect timer or the response timer of a synchronous
\* call, and both go to CIOSSLOutBound.  mapPending still holds only connections being
\* set up, each under its own timer's id, unless that timer was taken by another.
PendingIsTimed ==
    \A t \in DOMAIN mapPending :
        LET s == mapPending[t] IN
        /\ sock[s] = "connecting" /\ connTimer[s] = t
        /\ \/ t \in Live(tm) /\ tm.byId[t] = [nonce |-> 0, sock |-> s]
           \/ s \in tm.robbed

\* Every connection being set up will be timed out, unless its timer was taken, or its
\* place in mapPending is held by a connection whose timer was.
ConnectWatched ==
    \A s \in Req : sock[s] = "connecting" =>
        \/ s \in tm.robbed
        \/ /\ connTimer[s] \in DOMAIN mapPending
           /\ mapPending[connTimer[s]] \in {s} \cup tm.robbed

\* Where no connect times out, the timer of every asynchronous request in transfer is live
\* and finds its client, and nobody has cancelled or taken the timer of another.
ResponseWatched ==
    /\ tm.robbed = {}
    /\ \A i \in DOMAIN mapGetClient :
          LET c == mapGetClient[i] IN
          ~IsIdle(c) /\ c.nonce # 0 =>
              /\ c.timer \in Live(tm)
              /\ tm.byId[c.timer] = [nonce |-> c.nonce, sock |-> c.sock]
              /\ ClientTimedBy(c.nonce, c.timer) = i

\* No timer outlives what it times.
NoTimerLeak ==
    \A t \in Live(tm) :
        \/ t \in DOMAIN mapPending
        \/ \E c \in ToSet(mapGetClient) : ~IsIdle(c) /\ c.timer = t

\* Timers, the index of pending connections, sockets and clients agree: what is timed
\* exists, what exists is timed, and a connect timeout never hits a connection in use.
TimersAgree == PendingIsTimed /\ ConnectWatched /\ NoTimerLeak

\* Where no connect times out, an asynchronous request is answered even if the server
\* never does, because its timeout closes the connection.
AsyncAnswered ==
    \A r \in Req : NonceOf[r] # 0 => (r \in accepted ~> answers[r] > 0)

\* A request is in the hands of exactly one place, and one that will act on it
\* (httpget.cpp:299).
RequestsKept == EveryRequestHeld /\ NoRequestStranded
----------------------------------------------------------------------------
(* The instances for TLC: requests by their nonces (1, 2, and 0 for a synchronous call).  *)
Nonces == [a1 |-> 1, a2 |-> 1, a3 |-> 1, b1 |-> 2, s1 |-> 0]

\* Coroutines only, on one address.
AsyncReq == {"a1", "a2", "b1"}
AsyncNonceOf == [r \in AsyncReq |-> Nonces[r]]
AsyncHostOf == [r \in AsyncReq |-> "ip"]
NoNames == <<>>

\* A name and an address, coroutines and a synchronous call, by callers that do not wait.
MixedReq == {"a1", "a3", "s1"}
MixedNonceOf == [r \in MixedReq |-> Nonces[r]]
MixedHostOf == [a1 |-> "ip", a3 |-> "name", s1 |-> "ip"]
MixedNames == [name |-> "ip"]
============================================================================
