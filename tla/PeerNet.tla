------------------------------ MODULE PeerNet ------------------------------
(***************************************************************************)
(* The peer network: CPeerNet with its endpoint manager (a score, a ban    *)
(* and a connection count for each address), its node manager (the         *)
(* endpoints to connect to, with retries and idle times) and the outbound  *)
(* container that connects under a timeout.  Everything runs on the one IO *)
(* thread, one handler at a time; what interleaves are the handlers, among *)
(* them the completions that asio has queued before a timeout closes their *)
(* socket.                                                                 *)
(*                                                                         *)
(* Times are relative to now: ban is nBanTo - now, down to -1, and an idle *)
(* time is nIdleTo - now, down to 0.  Among due nodes any may be first.    *)
(***************************************************************************)
EXTENDS Integers, Sequences, FiniteSets, FiniteSetsExt, TLC

CONSTANTS Addr,              \* addresses
          NoAddr,            \* the address of an endpoint that is not known
          Node,              \* endpoints to connect to
          AddrOf,            \* the address of each
          Removable,         \* the nodes that may be removed
          NoNode,            \* an endpoint that is no node: an inbound peer's
          Clients,           \* the sockets of the outbound container
          Slots,             \* inbound peers, at most nMaxInBounds of them
          InAddr,            \* the addresses they come from, NoAddr if it is gone
          CONNECTION_LIMIT, MIN_SCORE, MAX_SCORE, BANTIME_BASE, BAN_SHIFT,
          ATTEMPT_PENALTY, MAX_ADDRESS_COUNT,
          MAX_RETRIES, RETRY_INTERVAL_BASE, MAX_IDLENODES, REMOVE_COUNT,
          MAX_IDLETIME,
          Reasons,           \* the close reasons that happen
          Lost,              \* the points each of them costs
          BanTimes,          \* the times SetBan is called with
          MaxBan,            \* bound: no ban lasts longer
          MaxAfter,          \* bound: steps after the first lost connection
          MaxEntries         \* bound: entries of one endpoint in mapIdle

Free == "free"

ASSUME PeerNetAssumption ==
    /\ AddrOf \in [Node -> Addr] /\ IsFiniteSet(Node)
    /\ NoAddr \notin Addr /\ NoNode \notin Node
    /\ Removable \subseteq Node /\ InAddr \subseteq Addr \cup {NoAddr}
    /\ IsFiniteSet(Clients) /\ IsFiniteSet(Slots) /\ Free \notin Addr \cup {NoAddr}
    /\ CONNECTION_LIMIT \in Nat \ {0} /\ ATTEMPT_PENALTY \in Nat
    /\ MIN_SCORE \in Int /\ MIN_SCORE < 0 /\ MAX_SCORE \in Nat
    /\ BANTIME_BASE \in Nat /\ BAN_SHIFT \in Nat
    /\ Lost \in [Reasons \cup {"CONNECT_FAILURE"} -> Nat] /\ BanTimes \subseteq Int
    /\ RETRY_INTERVAL_BASE \in Nat \ {0} /\ REMOVE_COUNT \in Nat \ {0}

VARIABLES running,   \* between EnterLoop and LeaveLoop
          epMngr,    \* both managers: [status, node, idle], and as history
                     \*   late: addresses banned past their idle nodes
                     \*   uncounted: addresses that lost track of a connection
          client,    \* the outbound sockets: [open, ep, sock]
          calls,     \* connect operations whose handler has not run
          pending,   \* mapPending: the timers of connect operations
          owners,    \* how many CPeers hold each outbound socket
          inbound,   \* the inbound peer of each slot: its address, or Free
          after,     \* how many steps after the first lost connection
          doubled    \* history: nodes added again while idle or in use

vars == <<running, epMngr, client, calls, pending, owners, inbound, after, doubled>>

NoEp == [addr |-> NoAddr, node |-> NoNode]
EpOf(n) == [addr |-> AddrOf[n], node |-> n]

Without(f, xs) == [y \in DOMAIN f \ xs |-> f[y]]
With(f, x, v) == [y \in DOMAIN f \cup {x} |-> IF y = x THEN v ELSE f[y]]

\* base << k
Shifted(base, k) == LET s[i \in 0..k] == IF i = 0 THEN base ELSE 2 * s[i - 1] IN s[k]
----------------------------------------------------------------------------
(***************************************************************************)
(* CAddressStatus                                                          *)
(***************************************************************************)
NewStatus == [score |-> 0, ban |-> -1, conn |-> 0]

BanTime(score) == Shifted(BANTIME_BASE, (BAN_SHIFT * (-score)) \div (-MIN_SCORE))

Penalize(s, points) ==
    LET score == Max({s.score - points, MIN_SCORE})
    IN  IF score < 0
        THEN [s EXCEPT !.score = score, !.ban = Max({@, 0}) + BanTime(score)]
        ELSE [s EXCEPT !.score = score]

\* fTooOften is what the counters of recent attempts say
InBoundAttempt(s, fTooOften) == IF fTooOften THEN Penalize(s, ATTEMPT_PENALTY) ELSE s
MayAttempt(s, fTooOften) == ~fTooOften /\ s.ban < 0

Reward(s, points) == [s EXCEPT !.score = Min({@ + points, MAX_SCORE})]

MayAddConnection(s, fInBound) ==
    s.conn < (IF fInBound THEN CONNECTION_LIMIT ELSE 1)

\* operator[] of mapAddressStatus
StatusOf(e, a) == IF a \in DOMAIN e.status THEN e.status[a] ELSE NewStatus
\* (NoAddr is only written to: its status is kept blank)
SetStatus(e, a, s) ==
    [e EXCEPT !.status = With(@, a, IF a = NoAddr THEN NewStatus ELSE s)]
----------------------------------------------------------------------------
\* the history's notes: a is banned and its idle nodes are not told; the
\* statuses of some addresses are erased
NoteBan(e, a) == IF StatusOf(e, a).ban > 0 THEN [e EXCEPT !.late = @ \cup {a}] ELSE e
Lose(e, as) == [e EXCEPT !.uncounted = @ \cup (as \ {NoAddr})]
Erase(e, as) ==
    [e EXCEPT !.status = Without(@, as),
              !.uncounted = @ \cup {a \in as : StatusOf(e, a).conn # 0}]

(***************************************************************************)
(* CNodeManager: node maps each endpoint of mapNode to its retries, idle   *)
(* gives each endpoint the sorted times of its entries in mapIdle.         *)
(***************************************************************************)
IdleCount(e) == Cardinality(UNION {{n} \X DOMAIN e.idle[n] : n \in Node})

InsertSorted(q, t) ==
    LET k == Cardinality({i \in DOMAIN q : q[i] <= t})
    IN  SubSeq(q, 1, k) \o <<t>> \o SubSeq(q, k + 1, Len(q))
SetIdle(e, n, t) == [e EXCEPT !.idle[n] = InsertSorted(@, t)]

LastIdle(e, n) == e.idle[n][Len(e.idle[n])]
Latest(e) == LET held == {n \in Node : e.idle[n] # <<>>}
             IN  {n \in held : \A m \in held : LastIdle(e, m) <= LastIdle(e, n)}
Evict(e, n) == [e EXCEPT !.node = Without(@, {n}),
                         !.idle[n] = SubSeq(@, 1, Len(@) - 1)]

\* After its first removal the loop goes on with an iterator whose entry is
\* gone: it may stop after any number of the removals it should make.
RemoveInactiveNodes(e) ==
    LET removed[k \in 0..(REMOVE_COUNT - 1)] ==
            IF k = 0
            THEN {Evict(e, n) : n \in Latest(e)}
            ELSE UNION {{Evict(f, n) : n \in {m \in Latest(f) :
                                        LastIdle(f, m) > MAX_IDLETIME}} :
                         f \in removed[k - 1]}
    IN  UNION {removed[k] : k \in 0..(REMOVE_COUNT - 1)}

Bounded(e) == IF IdleCount(e) > MAX_IDLENODES THEN RemoveInactiveNodes(e) ELSE {e}

\* Mutant of AddNew: whether the node is new is not looked at.
AddNewAlways(e, n) == Bounded(SetIdle([NoteBan(e, AddrOf[n]) EXCEPT
                                        !.node = With(@, n, 0)], n, 0))

AddNew(e, n) == IF n \in DOMAIN e.node
                THEN {e}
                ELSE Bounded(SetIdle([NoteBan(e, AddrOf[n]) EXCEPT
                                        !.node = With(@, n, 0)], n, 0))

Remove(e, n) == IF n \notin DOMAIN e.node
                THEN e
                ELSE [e EXCEPT !.node = Without(@, {n}),
                               !.idle[n] = IF @ = <<>> THEN @ ELSE Tail(@)]

Ban(e, a, t) ==
    [e EXCEPT !.late = @ \ {a},
              !.idle = [n \in Node |-> IF AddrOf[n] = a
                                       THEN [i \in DOMAIN @[n] |-> Max({@[n][i], t})]
                                       ELSE @[n]]]

Due(e) == {n \in Node : e.idle[n] # <<>> /\ Head(e.idle[n]) <= 0}
Employ(e, n) == [e EXCEPT !.idle[n] = Tail(@)]

Dismiss(e, n, fForceRetry) ==
    IF n \notin DOMAIN e.node
    THEN {e}
    ELSE LET retries == IF fForceRetry THEN 0 ELSE e.node[n] + 1
         IN  IF retries > MAX_RETRIES
             THEN {[e EXCEPT !.node = Without(@, {n})]}
             ELSE Bounded(SetIdle([e EXCEPT !.node[n] = retries], n,
                                  Shifted(RETRY_INTERVAL_BASE, retries)))
----------------------------------------------------------------------------
(***************************************************************************)
(* CEndpointManager.  Which addresses CleanInactiveAddress keeps depends   *)
(* on when they were last seen, which is left open.                        *)
(***************************************************************************)
CleanInactiveAddress(e) ==
    IF Cardinality(DOMAIN e.status) <= MAX_ADDRESS_COUNT
    THEN {e}
    ELSE {Erase(e, DOMAIN e.status \ kept) :
            kept \in {k \in SUBSET DOMAIN e.status :
                        Cardinality(k) <= MAX_ADDRESS_COUNT}}

\* a due node whose address has its outbound connection waits again
Skip(e) ==
    UNION {LET s == StatusOf(e, AddrOf[n])
           IN  IF MayAddConnection(s, FALSE)
               THEN {}
               ELSE Dismiss(SetStatus(Employ(e, n), AddrOf[n], s), n, FALSE) :
           n \in Due(e)}

\* what the loop ends with: a due node that may connect, or nothing due
Fetched(e) ==
    {[node |-> NoNode, e |-> f] : f \in {g \in {e} : Due(g) = {}}} \cup
    {LET s == StatusOf(e, AddrOf[n])
     IN  [node |-> n,
          e |-> SetStatus(Employ(e, n), AddrOf[n], [s EXCEPT !.conn = @ + 1])] :
     n \in {m \in Due(e) : MayAddConnection(StatusOf(e, AddrOf[m]), FALSE)}}

\* No entry is skipped twice: it is not due when it waits again.
FetchOutBound(e) ==
    LET skipped[k \in 0..IdleCount(e)] ==
            IF k = 0 THEN {e} ELSE UNION {Skip(f) : f \in skipped[k - 1]}
    IN  UNION {UNION {Fetched(f) : f \in skipped[k]} : k \in 0..IdleCount(e)}

\* The result and the managers after it.
AcceptInBound(e, a, fTooOften) ==
    LET s == InBoundAttempt(StatusOf(e, a), fTooOften)
        ok == MayAttempt(s, fTooOften) /\ MayAddConnection(s, TRUE)
        f == SetStatus(e, a, IF ok THEN [s EXCEPT !.conn = @ + 1] ELSE s)
    IN  [ok |-> ok, e |-> IF fTooOften THEN NoteBan(f, a) ELSE f]

RewardEndpoint(e, a, points) ==
    CleanInactiveAddress(SetStatus(e, a, Reward(StatusOf(e, a), points)))

\* Mutant of CloseEndpoint: the ban is told before the node is dismissed.
CloseEndpointBanFirst(e, ep, reason) ==
    LET s == Penalize(StatusOf(e, ep.addr), Lost[reason])
        g == SetStatus(e, ep.addr, [s EXCEPT !.conn = @ - 1])
    IN  UNION {CleanInactiveAddress(f) :
               f \in Dismiss(IF s.ban > 0 THEN Ban(g, ep.addr, s.ban) ELSE g,
                             ep.node, reason = "NETWORK_ERROR")}

CloseEndpoint(e, ep, reason) ==
    LET s == Penalize(StatusOf(e, ep.addr), Lost[reason])
    IN  UNION {LET g == SetStatus(f, ep.addr, [s EXCEPT !.conn = @ - 1])
               IN  CleanInactiveAddress(IF s.ban > 0 THEN Ban(g, ep.addr, s.ban)
                                                     ELSE g) :
               f \in Dismiss(e, ep.node, reason = "NETWORK_ERROR")}
----------------------------------------------------------------------------
(***************************************************************************)
(* The outbound sockets.  ep is what GetRemote has cached, sock the        *)
(* endpoint the socket is connected to while it can still be asked.  No    *)
(* operation but the connect is outstanding, so a closed socket is idle.   *)
(***************************************************************************)
Closed == [open |-> FALSE, ep |-> NoEp, sock |-> NoEp]
GetRemote(k) == IF k.ep # NoEp THEN k.ep ELSE k.sock

\* Closing a socket aborts the connect it is busy with; a completion that is
\* already queued keeps its result.
Abort(cs, c) == {IF k.c = c /\ k.res = "none" THEN [k EXCEPT !.res = "abort"] ELSE k :
                   k \in cs}

InUse(n) == \/ \E k \in calls : k.node = n
            \/ \E c \in Clients : owners[c] > 0 /\ GetRemote(client[c]).node = n

\* the address a CPeer's socket is connected to, lost when it is closed under it
HeldAddr(c) == IF owners[c] > 0 THEN {GetRemote(client[c]).addr} ELSE {}

Explored(e) == /\ \A a \in DOMAIN e.status : e.status[a].ban <= MaxBan
               /\ \A n \in Node : Len(e.idle[n]) <= MaxEntries

----------------------------------------------------------------------------
Init ==
    /\ running = TRUE
    /\ epMngr = [status |-> <<>>, node |-> <<>>, idle |-> [n \in Node |-> <<>>],
                 late |-> {}, uncounted |-> {}]
    /\ client = [c \in Clients |-> Closed]
    /\ calls = {} /\ pending = {}
    /\ owners = [c \in Clients |-> 0]
    /\ inbound = [i \in Slots |-> Free]
    /\ doubled = {} /\ after = 0

\* AddNewNode, by an event, a resolved host or the configuration
AddNewNode(n) ==
    /\ running
    /\ epMngr' \in AddNew(epMngr, n)
    /\ doubled' = IF n \notin DOMAIN epMngr.node /\ (epMngr.idle[n] # <<>> \/ InUse(n))
                  THEN doubled \cup {n} ELSE doubled
    /\ UNCHANGED <<running, client, calls, pending, owners, inbound>>

RemoveNode(n) ==
    /\ running
    /\ epMngr' = Remove(epMngr, n)
    /\ UNCHANGED <<running, client, calls, pending, owners, inbound, doubled>>

Sockets == [client |-> client, calls |-> calls, pending |-> pending]

\* The timer of a connect has run out: its socket is closed.
ConnectTimeout(w, p) ==
    [client |-> [w.client EXCEPT ![p.c] = Closed],
     calls |-> IF w.client[p.c].open THEN Abort(w.calls, p.c) ELSE w.calls,
     pending |-> w.pending \ {p}]

ConnectTo(w, c, n) ==
    [client |-> [w.client EXCEPT ![c].open = TRUE],
     calls |-> w.calls \cup {[c |-> c, node |-> n, res |-> "none"]},
     pending |-> w.pending \cup {[c |-> c, node |-> n]}]

\* One beat: at most one connect timer has run out, and then a node is
\* fetched and connected to if a socket is idle.
HeartBeat ==
    /\ running
    /\ \E out \in {{}} \cup {{p} : p \in pending} :
        LET w == IF out = {} THEN Sockets ELSE ConnectTimeout(Sockets, CHOOSE p \in out : TRUE)
            e == Lose(epMngr, UNION {HeldAddr(p.c) : p \in out})
            idle == {c \in Clients : ~w.client[c].open}
        IN  \E r \in IF idle = {} THEN {[node |-> NoNode, e |-> e]} ELSE FetchOutBound(e),
               c \in IF idle = {} THEN Clients ELSE idle :
                LET v == IF r.node = NoNode THEN w ELSE ConnectTo(w, c, r.node)
                IN  /\ \A k \in w.calls : <<k.c, k.node>> # <<c, r.node>>
                    /\ epMngr' = r.e
                    /\ client' = v.client /\ calls' = v.calls /\ pending' = v.pending
    /\ UNCHANGED <<running, owners, inbound, doubled>>

\* The network ends a connect; its handler runs later.
Finish(k, res) ==
    /\ running /\ k \in calls /\ k.res = "none"
    /\ calls' = (calls \ {k}) \cup {[k EXCEPT !.res = res]}
    /\ client' = IF res = "ok" THEN [client EXCEPT ![k.c].sock = EpOf(k.node)]
                 ELSE client
    /\ epMngr' = IF res = "ok" /\ owners[k.c] > 0
                 THEN Lose(epMngr, {AddrOf[k.node]})
                 ELSE epMngr
    /\ UNCHANGED <<running, pending, owners, inbound, doubled>>

\* The peer resets the connection: an endpoint nobody asked for is gone.
Reset(c) ==
    /\ running /\ client[c].sock # NoEp
    /\ client' = [client EXCEPT ![c].sock = NoEp]
    /\ UNCHANGED <<running, epMngr, calls, pending, owners, inbound, doubled>>

AddNewPeer(c) == owners' = [owners EXCEPT ![c] = @ + 1]

\* ClientConnected: a CPeer on this socket, whose endpoint is asked for
ClientConnected(k) ==
    LET ep == GetRemote(client[k.c])
    IN  /\ client' = [client EXCEPT ![k.c].ep = ep]
        /\ AddNewPeer(k.c)
        /\ epMngr' = IF ep # EpOf(k.node) \/ owners[k.c] > 0
                     THEN Lose(epMngr, {AddrOf[k.node], ep.addr})
                     ELSE epMngr

\* HandleConnCompleted looks at the socket, which may have been closed, and
\* opened again for another node, since the result was queued.
ConnResult(k) == IF client[k.c].open THEN k.res ELSE "abort"

\* Mutant of HandleConnect: a connect that the timeout aborted is not reported.
HandleConnectSilent(k) ==
    LET res == ConnResult(k)
    IN  /\ running /\ k \in calls /\ k.res # "none"
        /\ pending' = IF res = "abort" THEN pending
                      ELSE pending \ {[c |-> k.c, node |-> k.node]}
        /\ calls' = calls \ {k}
        /\ CASE res = "ok" -> ClientConnected(k)
             [] res = "abort" -> UNCHANGED <<epMngr, client, owners>>
             [] res = "err" ->
                  /\ epMngr' \in CloseEndpoint(epMngr, EpOf(k.node), "CONNECT_FAILURE")
                  /\ client' = [client EXCEPT ![k.c] = Closed]
                  /\ UNCHANGED owners
        /\ UNCHANGED <<running, inbound, doubled>>

HandleConnect(k) ==
    LET res == ConnResult(k)
    IN  /\ running /\ k \in calls /\ k.res # "none"
        /\ pending' = IF res = "abort" THEN pending
                      ELSE pending \ {[c |-> k.c, node |-> k.node]}
        /\ IF res = "ok"
           THEN ClientConnected(k) /\ calls' = calls \ {k}
           ELSE /\ epMngr' \in CloseEndpoint(IF res = "err" THEN Lose(epMngr, HeldAddr(k.c))
                                                          ELSE epMngr,
                                            EpOf(k.node), "CONNECT_FAILURE")
                /\ client' = IF res = "err" THEN [client EXCEPT ![k.c] = Closed]
                             ELSE client
                /\ calls' = IF res = "err" THEN Abort(calls \ {k}, k.c)
                            ELSE calls \ {k}
                /\ UNCHANGED owners
        /\ UNCHANGED <<running, inbound, doubled>>

\* HandleAccept with a free slot; the endpoint may already be gone.
ClientAccepted(i, a, fTooOften) ==
    LET r == AcceptInBound(epMngr, a, fTooOften)
    IN  /\ running /\ inbound[i] = Free
        /\ epMngr' = r.e
        /\ inbound' = IF r.ok THEN [inbound EXCEPT ![i] = a] ELSE inbound
        /\ UNCHANGED <<running, client, calls, pending, owners, doubled>>

\* RemovePeer: closed by a handler, a timer or an event
RemoveInbound(i, reason) ==
    /\ running /\ inbound[i] # Free
    /\ epMngr' \in CloseEndpoint(epMngr, [addr |-> inbound[i], node |-> NoNode], reason)
    /\ inbound' = [inbound EXCEPT ![i] = Free]
    /\ UNCHANGED <<running, client, calls, pending, owners, doubled>>

RemoveOutbound(c, reason) ==
    /\ running /\ owners[c] > 0
    /\ epMngr' \in CloseEndpoint(epMngr, GetRemote(client[c]), reason)
    /\ owners' = [owners EXCEPT ![c] = @ - 1]
    /\ client' = [client EXCEPT ![c] = Closed]
    /\ calls' = IF client[c].open THEN Abort(calls, c) ELSE calls
    /\ UNCHANGED <<running, pending, inbound, doubled>>

RewardPeer(a, points) ==
    /\ running
    /\ \/ \E i \in Slots : inbound[i] = a
       \/ \E c \in Clients : owners[c] > 0 /\ GetRemote(client[c]).addr = a
    /\ epMngr' \in RewardEndpoint(epMngr, a, points)
    /\ UNCHANGED <<running, client, calls, pending, owners, inbound, doubled>>

SetBan(a, t) ==
    /\ running
    /\ epMngr' = Ban(SetStatus(epMngr, a, [StatusOf(epMngr, a) EXCEPT !.ban = t]), a, t)
    /\ UNCHANGED <<running, client, calls, pending, owners, inbound, doubled>>

\* ClearBanned and ClearAllBanned
ClearBanned(as) ==
    LET banned == {a \in as \cap DOMAIN epMngr.status : epMngr.status[a].ban > 0}
    IN  /\ running /\ banned # {}
        /\ epMngr' = Erase(epMngr, banned)
        /\ UNCHANGED <<running, client, calls, pending, owners, inbound, doubled>>

OneTickOn(s) == [s EXCEPT !.ban = Max({@ - 1, -1})]

Tick ==
    /\ running
    /\ epMngr' = [epMngr EXCEPT
          !.status = [a \in DOMAIN @ |-> OneTickOn(@[a])],
          !.idle = [n \in Node |-> [i \in DOMAIN @[n] |-> Max({@[n][i] - 1, 0})]]]
    /\ UNCHANGED <<running, client, calls, pending, owners, inbound, doubled>>

\* Every peer is removed and the managers are cleared.
LeaveLoop ==
    /\ running
    /\ running' = FALSE
    /\ epMngr' = [status |-> <<>>, node |-> <<>>, idle |-> [n \in Node |-> <<>>],
                  late |-> {}, uncounted |-> {}]
    /\ client' = [c \in Clients |-> IF owners[c] > 0 THEN Closed ELSE client[c]]
    /\ calls' = {IF owners[k.c] > 0 /\ k.res = "none" THEN [k EXCEPT !.res = "abort"] ELSE k :
                    k \in calls}
    /\ owners' = [c \in Clients |-> 0]
    /\ inbound' = [i \in Slots |-> Free]
    /\ UNCHANGED <<pending, doubled>>

Next ==
    /\ epMngr.uncounted = {} \/ after < MaxAfter
    /\ \/ \E n \in Node : AddNewNode(n)
       \/ \E n \in Removable : RemoveNode(n)
       \/ HeartBeat
       \/ \E k \in calls : Finish(k, "ok") \/ Finish(k, "err") \/ HandleConnect(k)
       \/ \E c \in Clients : Reset(c) \/ \E r \in Reasons : RemoveOutbound(c, r)
       \/ \E i \in Slots : \/ \E r \in Reasons : RemoveInbound(i, r)
                           \/ \E a \in InAddr, f \in BOOLEAN :
                                   ClientAccepted(i, a, f)
       \/ \E a \in Addr : \/ RewardPeer(a, 1)
                          \/ \E t \in BanTimes : SetBan(a, t)
       \/ \E as \in {Addr} \cup {{a} : a \in Addr} : ClearBanned(as)
       \/ Tick
       \/ LeaveLoop
    /\ Explored(epMngr')
    /\ after' = IF epMngr.uncounted = {} THEN 0 ELSE after + 1

Spec == Init /\ [][Next]_vars
----------------------------------------------------------------------------
\* the connects under way, the CPeers and the inbound peers of an address
Connects(a) == {k \in calls : AddrOf[k.node] = a}
Peers(a) == UNION {{c} \X (1..owners[c]) : c \in {d \in Clients : GetRemote(client[d]).addr = a}}
OutConns(a) == Cardinality(Connects(a)) + Cardinality(Peers(a))
InConns(a) == Cardinality({i \in Slots : inbound[i] = a})

\* The count of an address is the number of its connections, connects under
\* way included, whatever timeouts, resets, refusals and closes cross each
\* other; only an address whose status was erased (ClearBanned, too many
\* addresses), or one of whose connections could not tell its endpoint, may
\* be wrong.  A counted address has at most one outbound connection, and no
\* more than CONNECTION_LIMIT connections when an inbound one was let in.
ConnectionsCounted ==
    running => \A a \in Addr \ epMngr.uncounted :
                  /\ StatusOf(epMngr, a).conn = OutConns(a) + InConns(a)
                  /\ OutConns(a) <= 1 /\ InConns(a) <= CONNECTION_LIMIT

\* A node that is to be connected to is either idle, exactly once, or busy
\* with exactly one connection: it is never forgotten and never connected to
\* twice, unless it was removed and added again meanwhile, or its connection
\* could not tell its endpoint.
NodeKept ==
    running => \A n \in DOMAIN epMngr.node :
        n \notin doubled /\ AddrOf[n] \notin epMngr.uncounted =>
            Len(epMngr.idle[n]) = IF InUse(n) THEN 0 ELSE 1

\* No node of a banned address is due before the ban ends, unless the ban
\* came from too many attempts or the node was added during the ban.
BanHolds ==
    \A n \in Node : AddrOf[n] \notin epMngr.late =>
        \A i \in DOMAIN epMngr.idle[n] :
            epMngr.idle[n][i] >= StatusOf(epMngr, AddrOf[n]).ban
----------------------------------------------------------------------------
(* The instance for TLC: two addresses with a node each, one of which also connects       *)
(* inbound; one outbound socket, used again as soon as it is closed, and two inbound      *)
(* slots: both limits, trimmed idle nodes and erased statuses are met.                    *)
AnyAddrOf == ("n1" :> "a1") @@ ("n2" :> "a2")
AnyLost == [CONNECT_FAILURE |-> 1, NETWORK_ERROR |-> 1, HOST_CLOSE |-> 0]
AnyMinScore == -1
AnyReasons == {"HOST_CLOSE", "NETWORK_ERROR"}
SlotSymmetry == Permutations(Slots)
=============================================================================
