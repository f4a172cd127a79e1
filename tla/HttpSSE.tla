------------------------------ MODULE HttpSSE -------------------------------
(***************************************************************************)
(* CHttpEventStream: the events a server sends to its subscribers.  Each   *)
(* event has a generator that keeps either its last status or a queue of   *)
(* what happened, stamped with the ids of one counter.  A subscriber asks  *)
(* for what is newer than the last id it has received.                     *)
(*                                                                         *)
(* Every operation holds mtxEvent, so each is one step.  A response may be *)
(* lost on its way; the subscriber then asks again with its old id.        *)
(***************************************************************************)
EXTENDS Integers, Sequences, SequencesExt

CONSTANTS Event,      \* the names of events
          Data,       \* their data
          NoData,     \* the default T() of a status
          Client,     \* the subscribers
          MaxEventId  \* bound: the updates that change something

ASSUME SSEAssumption == MaxEventId \in Nat

VARIABLES
    nEventId,      \* the id of the last update
    mapGenerator,  \* the generators of the events registered
    lastId,        \* the id each client has received last
    seen,          \* the status of each event as each client knows it
    got,           \* history: the ids of the queued events each client has received
    pushed,        \* history: the ids of the queued events, but those reset
    lost           \* history: whether a response has been lost

sseVars == <<nEventId, mapGenerator, lastId, seen, got, pushed, lost>>
clientVars == <<lastId, seen, got, lost>>

NewStatus == [kind |-> "status", status |-> NoData, nEventId |-> 0]
NewQueue == [kind |-> "queue", q |-> <<>>]

Queued(g) == IF g.kind = "queue" THEN {g.q[i].id : i \in DOMAIN g.q} ELSE {}
StillQueued == UNION {Queued(mapGenerator[e]) : e \in DOMAIN mapGenerator}

SSEInit ==
    /\ nEventId = 0
    /\ mapGenerator = <<>>
    /\ lastId = [c \in Client |-> 0]
    /\ seen = [c \in Client |-> [e \in Event |-> NoData]]
    /\ got = [c \in Client |-> {}]
    /\ pushed = {}
    /\ lost = FALSE

Discard(e) ==
    pushed' = IF e \in DOMAIN mapGenerator THEN pushed \ Queued(mapGenerator[e]) ELSE pushed

\* A generator registered under a name in use replaces the former one.
RegisterEvent(e) ==
    /\ Discard(e)
    /\ \E g \in {NewStatus, NewQueue} :
          mapGenerator' = [x \in DOMAIN mapGenerator \cup {e} |->
                              IF x = e THEN g ELSE mapGenerator[x]]
    /\ UNCHANGED <<nEventId, clientVars>>

UnregisterEvent(e) ==
    /\ e \in DOMAIN mapGenerator
    /\ Discard(e)
    /\ mapGenerator' = [x \in DOMAIN mapGenerator \ {e} |-> mapGenerator[x]]
    /\ UNCHANGED <<nEventId, clientVars>>

\* A status keeps the id of its last update, a queue is emptied.
ResetData(e) ==
    /\ e \in DOMAIN mapGenerator
    /\ Discard(e)
    /\ mapGenerator' =
          [mapGenerator EXCEPT ![e] = IF @.kind = "status" THEN [@ EXCEPT !.status = NoData]
                                                           ELSE NewQueue]
    /\ UNCHANGED <<nEventId, clientVars>>

\* Whether the data changes what the generator holds.
IsNews(g, d) ==
    IF g.kind = "status" THEN d # g.status ELSE g.q # <<>> => Last(g.q).data # d

\* Mutant of Stamp: the id of the last update is given out again.
StampOld == nEventId

Stamp == nEventId + 1

Updated(g, d) ==
    IF g.kind = "status" THEN [g EXCEPT !.status = d, !.nEventId = Stamp]
    ELSE [g EXCEPT !.q = Append(@, [id |-> Stamp, data |-> d])]

UpdateEventData(e, d) ==
    /\ e \in DOMAIN mapGenerator /\ IsNews(mapGenerator[e], d)
    /\ nEventId < MaxEventId
    /\ nEventId' = nEventId + 1
    /\ mapGenerator' = [mapGenerator EXCEPT ![e] = Updated(@, d)]
    /\ pushed' = IF mapGenerator[e].kind = "queue" THEN pushed \cup {Stamp} ELSE pushed
    /\ UNCHANGED clientVars

\* GenerateEventData: a status is sent if it is newer than the client's id, and set.
Generates(g, last) ==
    IF g.kind = "status" THEN last < g.nEventId /\ g.status # NoData ELSE g.q # <<>>

\* A queue gives up, from its front, what is not newer than an id.
FirstAfter(q, id) == Min({i \in DOMAIN q : q[i].id > id} \cup {Len(q) + 1})

\* It sends what is newer than the client's id, and forgets what it has sent.
Remaining(q) == SubSeq(q, FirstAfter(q, nEventId), Len(q))

\* Mutant of QueueSent: the first event after the client's id is taken for the last.
QueueSentLate(g, last) == SubSeq(g.q, FirstAfter(g.q, last + 1), FirstAfter(g.q, nEventId) - 1)

QueueSent(g, last) == SubSeq(g.q, FirstAfter(g.q, last), FirstAfter(g.q, nEventId) - 1)

\* ConstructResponse, and its way to the client.
ConstructResponse(c) ==
    /\ lastId[c] < nEventId
    /\ LET sent == {e \in DOMAIN mapGenerator : Generates(mapGenerator[e], lastId[c])}
           queues == {e \in sent : mapGenerator[e].kind = "queue"}
           ids == UNION {{x.id : x \in ToSet(QueueSent(mapGenerator[e], lastId[c]))} : e \in queues}
       IN
       /\ mapGenerator' = [e \in DOMAIN mapGenerator |->
                              IF e \in queues
                              THEN [mapGenerator[e] EXCEPT !.q = Remaining(@)]
                              ELSE mapGenerator[e]]
       /\ \/ /\ lastId' = [lastId EXCEPT ![c] = nEventId]
             /\ seen' = [seen EXCEPT ![c] = [e \in Event |->
                            IF e \in sent \ queues THEN mapGenerator[e].status ELSE @[e]]]
             /\ got' = [got EXCEPT ![c] = @ \cup ids]
             /\ UNCHANGED lost
          \/ lost' = TRUE /\ UNCHANGED <<lastId, seen, got>>
    /\ UNCHANGED <<nEventId, pushed>>

SSENext ==
    \/ \E e \in Event : RegisterEvent(e) \/ UnregisterEvent(e) \/ ResetData(e)
    \/ \E e \in Event, d \in Data : UpdateEventData(e, d)
    \/ \E c \in Client : ConstructResponse(c)

SSESpec == SSEInit /\ [][SSENext]_sseVars
----------------------------------------------------------------------------
SSETypeOK ==
    /\ nEventId \in 0..MaxEventId
    /\ DOMAIN mapGenerator \subseteq Event
    /\ lastId \in [Client -> 0..MaxEventId]
    /\ seen \in [Client -> [Event -> Data \cup {NoData}]]
    /\ got \in [Client -> SUBSET (1..MaxEventId)]
    /\ pushed \subseteq 1..MaxEventId
    /\ lost \in BOOLEAN

\* Whatever has been lost, reset or registered anew: a client knows every status that is
\* not newer than the id it holds, so one that is up to date has missed none.
StatusKnown ==
    \A c \in Client, e \in DOMAIN mapGenerator :
        LET g == mapGenerator[e] IN
        g.kind = "status" /\ g.status # NoData /\ g.nEventId <= lastId[c] =>
            seen[c][e] = g.status

\* The only subscriber, if it loses no response, misses no event: those up to its id it has
\* got, the others wait for it.  With two subscribers, or a lost response, events are
\* missed, because a queue forgets what it has sent once.
NothingMissed ==
    \A c \in Client : ~lost /\ (\A d \in Client \ {c} : lastId[d] = 0) =>
        \A id \in pushed : IF id <= lastId[c] THEN id \in got[c] ELSE id \in StillQueued

\* Both together: no subscriber is up to date and ignorant (httpsse.h:116).
SubscribersKnow == StatusKnown /\ NothingMissed
=============================================================================
