----------------------------- MODULE HttpServer -----------------------------
(***************************************************************************)
(* CHttpServer on one service: the container of client objects that accepts*)
(* connections (CIOInBound), their reference counts (CIOClient), and the   *)
(* requests that go to the IO module and come back as responses.           *)
(*                                                                         *)
(* Everything runs on the io thread, one handler at a time.  The network   *)
(* chooses how each operation completes.  A nonce is drawn at random in    *)
(* the code; here connections are numbered.  Users, queries and payloads   *)
(* are left out: a request is accepted, refused, broken, or needs more.    *)
(***************************************************************************)
EXTENDS Integers, Sequences, FiniteSets, SequencesExt

CONSTANTS nMaxConnections,
          MaxClients,  \* bound: the connections accepted
          MaxPushes    \* bound: the responses the module sends unasked

ASSUME HttpServerAssumption ==
    /\ nMaxConnections \in Nat \ {0}
    /\ MaxClients \in Nat /\ MaxPushes \in Nat

\* The client objects of the container, and the operations they start.
Slot == 1..(nMaxConnections + 1)
Operation == {"accept", "handshake", "read", "write"}

VARIABLES
    ssl,        \* whether the service makes TLS handshakes, as it was set up
    io,         \* the container: idle queue, sockets, reference counts, operations
    acceptor,   \* whether the acceptor is open
    acceptFailed,  \* history: an accept has failed
    clients,    \* every CHttpClient ever made: its slot and whether it is kept alive
    mapClient,  \* the nonces of those that live
    events,     \* posted to the IO module
    owed,       \* the requests the module has taken and not answered
    broken,     \* history: the connections the module knows to be broken
    pushes,
    running     \* whether the io thread runs

vars == <<ssl, io, acceptor, acceptFailed, clients, mapClient, events, owed, broken,
          pushes, running>>

\* What no handler of a connection changes.
restVars == <<ssl, owed, broken, pushes>>

Req(n) == [type |-> "req", nonce |-> n]
Broken(n) == [type |-> "broken", nonce |-> n]
----------------------------------------------------------------------------
(* Client objects.  Each operator maps the container's state to the next. *)

ClientClose(c, s) == [c EXCEPT !.idle = Append(@, s)]

Release(c, s) ==
    LET d == [c EXCEPT !.ref[s] = @ - 1] IN
    IF d.ref[s] = 0 THEN ClientClose(d, s) ELSE d

Close(c, s) == IF c.open[s] THEN Release([c EXCEPT !.open[s] = FALSE], s) ELSE c

\* Mutant of Start: the operation holds no reference.
StartUncounted(c, s, op) == [c EXCEPT !.pending[s][op] = @ + 1]

Start(c, s, op) == [c EXCEPT !.ref[s] = @ + 1, !.pending[s][op] = @ + 1]
Finish(c, s, op) == [c EXCEPT !.pending[s][op] = @ - 1]

\* ClientAlloc, and accept on it.
AcceptNext(c) == Start([c EXCEPT !.idle = Tail(@)], Head(c.idle), "accept")

\* The end of HandleConnCompleted: an accept that has left no socket is released.
ConnCompleted(c, s) == IF ~c.open[s] /\ c.ref[s] # 0 THEN Release(c, s) ELSE c

Init ==
    /\ ssl \in BOOLEAN
    /\ io = AcceptNext([idle |-> [i \in Slot |-> i],
                        open |-> [s \in Slot |-> FALSE],
                        ref |-> [s \in Slot |-> 0],
                        pending |-> [s \in Slot |-> [op \in Operation |-> 0]]])
    /\ acceptor = "open" /\ acceptFailed = FALSE
    /\ clients = <<>>
    /\ mapClient = {}
    /\ events = <<>>
    /\ owed = {} /\ broken = {} /\ pushes = 0
    /\ running = TRUE
----------------------------------------------------------------------------
(* Accepting. *)

Completes(s, op) == running /\ io.pending[s][op] > 0

\* A connection is kept only if an idle client is left besides the one to accept next.
HasRoom(c) == Len(c.idle) > 1

\* Mutant of Accepted: no accept follows a connection that is turned away.
AcceptedOnce(c, s) ==
    IF HasRoom(c)
    THEN /\ io' = ConnCompleted(AcceptNext(Start(c, s, "read")), s)
         /\ clients' = Append(clients, [slot |-> s, keep |-> FALSE])
         /\ mapClient' = mapClient \cup {Len(clients) + 1}
    ELSE /\ io' = ConnCompleted(Close(c, s), s)
         /\ UNCHANGED <<clients, mapClient>>

\* HandleAccept without an error: add a CHttpClient and read its request, or close; then
\* accept the next connection.
Accepted(c, s) ==
    IF HasRoom(c)
    THEN /\ io' = ConnCompleted(AcceptNext(Start(c, s, "read")), s)
         /\ clients' = Append(clients, [slot |-> s, keep |-> FALSE])
         /\ mapClient' = mapClient \cup {Len(clients) + 1}
    ELSE /\ io' = ConnCompleted(AcceptNext(Close(c, s)), s)
         /\ UNCHANGED <<clients, mapClient>>

AcceptDone(s) ==
    /\ Completes(s, "accept")
    /\ Len(clients) < MaxClients
    /\ LET c == [Finish(io, s, "accept") EXCEPT !.open[s] = TRUE] IN
       IF ssl
       THEN /\ io' = [c EXCEPT !.pending[s]["handshake"] = @ + 1]
            /\ UNCHANGED <<clients, mapClient>>
       ELSE Accepted(c, s)
    /\ UNCHANGED <<acceptor, acceptFailed, events, restVars, running>>

HandshakeDone(s) ==
    /\ Completes(s, "handshake")
    /\ Accepted(Finish(io, s, "handshake"), s)
    /\ UNCHANGED <<acceptor, acceptFailed, events, restVars, running>>

\* A handshake that fails in TLS costs the connection; the next one is accepted.
HandshakeRefused(s) ==
    /\ Completes(s, "handshake")
    /\ io' = ConnCompleted(AcceptNext(Close(Finish(io, s, "handshake"), s)), s)
    /\ UNCHANGED <<acceptor, acceptFailed, clients, mapClient, events, restVars, running>>

\* Any other error of a handshake closes the acceptor for good.
HandshakeFails(s) ==
    /\ Completes(s, "handshake")
    /\ io' = ConnCompleted(Close(Finish(io, s, "handshake"), s), s)
    /\ acceptor' = "closed"
    /\ UNCHANGED <<clients, mapClient, events, restVars, acceptFailed, running>>

\* An accept that fails leaves no socket, and so looks as if it had been aborted: the
\* acceptor stays open, but no other accept is started.
AcceptFails(s) ==
    /\ Completes(s, "accept")
    /\ io' = ConnCompleted(Close(Finish(io, s, "accept"), s), s)
    /\ acceptFailed' = TRUE
    /\ UNCHANGED <<acceptor, clients, mapClient, events, restVars, running>>
----------------------------------------------------------------------------
(* Requests and responses. *)

ClientOf(s) == CHOOSE n \in mapClient : clients[n].slot = s

\* Mutant of RemoveClient: the client is not taken out of the map.
RemoveClientKept(c, n) ==
    /\ events' = Append(events, Broken(n))
    /\ io' = Release(Close(c, clients[n].slot), clients[n].slot)
    /\ UNCHANGED mapClient

\* RemoveClient: the module is told, and the CHttpClient closes its socket.
RemoveClient(c, n) ==
    /\ mapClient' = mapClient \ {n}
    /\ events' = Append(events, Broken(n))
    /\ io' = Release(Close(c, clients[n].slot), clients[n].slot)

\* Mutant of Aborted: the completion returns before it releases the client.
AbortedEarly(s, op) ==
    /\ Completes(s, op) /\ ~io.open[s]
    /\ io' = Finish(io, s, op)
    /\ UNCHANGED <<clients, mapClient, events>>

\* The operation of a closed socket completes as aborted and only drops its reference.
Aborted(s, op) ==
    /\ Completes(s, op) /\ ~io.open[s]
    /\ io' = Release(Finish(io, s, op), s)
    /\ UNCHANGED <<clients, mapClient, events>>

\* A request is complete, needs its payload first, or is refused with a response.
ReadOk(s) ==
    /\ Completes(s, "read") /\ io.open[s]
    /\ LET c == Finish(io, s, "read") IN
       \/ /\ events' = Append(events, Req(ClientOf(s)))
          /\ io' = Release(c, s)
       \/ \E op \in {"read", "write"} :
             /\ io' = Release(Start(c, s, op), s)
             /\ UNCHANGED events
    /\ UNCHANGED <<clients, mapClient>>

ReadError(s) ==
    /\ Completes(s, "read") /\ io.open[s]
    /\ RemoveClient(Finish(io, s, "read"), ClientOf(s))
    /\ UNCHANGED clients

ReadDone(s) ==
    /\ ReadOk(s) \/ ReadError(s) \/ Aborted(s, "read")
    /\ UNCHANGED <<acceptor, acceptFailed, restVars, running>>

\* HandleClientSent: a client kept alive is activated for its next request.
WriteKept(s) ==
    /\ Completes(s, "write") /\ io.open[s]
    /\ clients[ClientOf(s)].keep
    /\ clients' = [clients EXCEPT ![ClientOf(s)].keep = FALSE]
    /\ io' = Release(Start(Finish(io, s, "write"), s, "read"), s)
    /\ UNCHANGED <<mapClient, events>>

\* One that is not, or whose response could not be written, is removed.
WriteLast(s) ==
    /\ Completes(s, "write") /\ io.open[s]
    /\ RemoveClient(Finish(io, s, "write"), ClientOf(s))
    /\ UNCHANGED clients

WriteDone(s) ==
    /\ WriteKept(s) \/ WriteLast(s) \/ Aborted(s, "write")
    /\ UNCHANGED <<acceptor, acceptFailed, restVars, running>>

\* Mutant of Respond: the response starts a second read at once.
RespondAndRead(n, keep) ==
    IF n \in mapClient
    THEN /\ clients' = [clients EXCEPT ![n].keep = @ \/ keep]
         /\ io' = Start(Start(io, clients[n].slot, "write"), clients[n].slot, "read")
    ELSE UNCHANGED <<clients, io>>

\* HandleEvent(Rsp): the response to a connection that is gone is dropped.
Respond(n, keep) ==
    IF n \in mapClient
    THEN /\ clients' = [clients EXCEPT ![n].keep = @ \/ keep]
         /\ io' = Start(io, clients[n].slot, "write")
    ELSE UNCHANGED <<clients, io>>

\* The io thread has left its loop: all clients are removed, in the order of their random
\* nonces, and the container is destroyed.  Operations that have not completed never do.
Halt ==
    /\ running
    /\ running' = FALSE
    /\ acceptor' = "closed"
    /\ mapClient' = {}
    /\ \E q \in SetToSeqs(mapClient) : events' = events \o [i \in DOMAIN q |-> Broken(q[i])]
    /\ UNCHANGED <<io, acceptFailed, clients, restVars>>
----------------------------------------------------------------------------
(* The IO module: it takes its events in order and answers each request once. *)

ModuleTake ==
    /\ events # <<>>
    /\ LET n == Head(events).nonce IN
       IF Head(events).type = "req"
       THEN owed' = owed \cup {n} /\ UNCHANGED broken
       ELSE owed' = owed \ {n} /\ broken' = broken \cup {n}
    /\ events' = Tail(events)
    /\ UNCHANGED <<ssl, io, acceptor, acceptFailed, clients, mapClient, pushes, running>>

ModuleRespond(n) ==
    /\ running /\ n \in owed
    /\ owed' = owed \ {n}
    /\ \E keep \in BOOLEAN : Respond(n, keep)
    /\ UNCHANGED <<ssl, acceptor, acceptFailed, mapClient, events, broken, pushes, running>>

\* A module may also send responses unasked, as for a stream of events.
ModulePush(n) ==
    /\ running /\ n \notin broken /\ pushes < MaxPushes
    /\ pushes' = pushes + 1
    /\ Respond(n, TRUE)
    /\ UNCHANGED <<ssl, acceptor, acceptFailed, mapClient, events, owed, broken, running>>

Handler(s) ==
    \/ AcceptDone(s) \/ HandshakeDone(s) \/ HandshakeRefused(s)
    \/ HandshakeFails(s) \/ AcceptFails(s)
    \/ ReadDone(s) \/ WriteDone(s)

Next ==
    \/ \E s \in Slot : Handler(s)
    \/ Halt \/ ModuleTake
    \/ \E n \in DOMAIN clients : ModuleRespond(n) \/ ModulePush(n)

Spec == Init /\ [][Next]_vars

\* The io thread runs what is ready: an operation of a closed socket is always ready.
FairSpec ==
    /\ Spec
    /\ \A s \in Slot, op \in {"read", "write"} :
          WF_vars(Aborted(s, op) /\ UNCHANGED <<acceptor, acceptFailed, restVars, running>>)
----------------------------------------------------------------------------
Pending(s) == io.pending[s].accept + io.pending[s].handshake
              + io.pending[s].read + io.pending[s].write

TypeOK ==
    /\ ssl \in BOOLEAN
    /\ io \in [idle : Seq(Slot), open : [Slot -> BOOLEAN], ref : [Slot -> Nat],
              pending : [Slot -> [Operation -> Nat]]]
    /\ acceptor \in {"open", "closed"}
    /\ acceptFailed \in BOOLEAN
    /\ clients \in Seq([slot : Slot, keep : BOOLEAN])
    /\ mapClient \subseteq DOMAIN clients
    /\ events \in Seq({Req(n) : n \in DOMAIN clients} \cup {Broken(n) : n \in DOMAIN clients})
    /\ owed \subseteq DOMAIN clients /\ broken \subseteq DOMAIN clients
    /\ pushes \in 0..MaxPushes
    /\ running \in BOOLEAN

\* A client object is idle, once, exactly when nobody refers to it any more: its socket is
\* closed and all of its operations have completed.
IdleIffUnreferenced ==
    /\ IsInjective(io.idle)
    /\ \A s \in Slot : s \in ToSet(io.idle) <=> ~io.open[s] /\ Pending(s) = 0

\* The count of references is that of the open socket and of the operations; while a
\* connection is made, the operation and the socket share one.
RefCountExact ==
    \A s \in Slot :
        io.ref[s] = (IF io.open[s] THEN 1 ELSE io.pending[s].accept)
                    + io.pending[s].read + io.pending[s].write

\* References are exact: neither does an object become idle while an operation may still
\* complete on it, nor is one lost to the container.
ReferencesExact == RefCountExact /\ IdleIffUnreferenced

\* An open socket is that of one living CHttpClient, or of a connection being made: no
\* completion ever reaches a CHttpClient that has been deleted.
OpenIffClient ==
    running => \A s \in Slot :
        io.open[s] /\ io.pending[s].handshake = 0
            <=> Cardinality({n \in mapClient : clients[n].slot = s}) = 1

\* As long as the acceptor is open and no accept has failed, exactly one connection is
\* being made: the container never runs out of idle objects, whatever the limit.
AlwaysAccepting ==
    running /\ acceptor = "open" /\ ~acceptFailed =>
        Cardinality({s \in Slot : io.pending[s].accept + io.pending[s].handshake = 1}) = 1

\* Every connection that ends is reported to the module once, after all its requests.
BrokenOnceAndLast ==
    \A n \in DOMAIN clients :
        LET reports == {i \in DOMAIN events : events[i] = Broken(n)} IN
        /\ Cardinality(reports) = IF n \in mapClient \cup broken THEN 0 ELSE 1
        /\ \A i \in reports, j \in DOMAIN events : events[j] = Req(n) => j < i
        /\ n \in broken => n \notin mapClient /\ Req(n) \notin ToSet(events)

\* While the module answers each request once and sends nothing else, a connection has one
\* request, one response or one read under way at a time.
OneAtATime ==
    pushes = 0 => \A n \in mapClient :
        Cardinality({i \in DOMAIN events : events[i] = Req(n)})
          + Cardinality(owed \cap {n})
          + io.pending[clients[n].slot].read + io.pending[clients[n].slot].write = 1

\* A client object whose socket has been closed becomes idle again.
ClosedBecomesIdle ==
    \A s \in Slot : running /\ io.ref[s] > 0 /\ ~io.open[s] /\ io.pending[s].accept = 0
                        ~> s \in ToSet(io.idle) \/ ~running

\* Sockets, references and clients say the same of every connection (httpserver.cpp, ioclient.cpp:111).
ClientsExact == ReferencesExact /\ OpenIffClient

\* The server goes on accepting, and the module hears of each connection in order: its
\* requests, one at a time, and then its end.
ConnectionsServed == AlwaysAccepting /\ BrokenOnceAndLast /\ OneAtATime
=============================================================================
