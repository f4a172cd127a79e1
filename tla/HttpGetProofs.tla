---------------------------- MODULE HttpGetProofs ----------------------------
(***************************************************************************)
(* What the HTTP client promises, for every set of requests, every choice  *)
(* of nonces, hosts and names, every limit of connections, and whatever    *)
(* the network, the timers and the callers do: nothing is restricted here, *)
(* connect timeouts, resets and callers that do not wait included, but in  *)
(* the last theorem.                                                       *)
(*                                                                         *)
(* The state has two sides that meet in the actions.  NetInv speaks of     *)
(* sockets, timers, pending connections and clients.  Its difficulty is    *)
(* that timers are known by ids that are given out again, so that a        *)
(* handler may cancel the timer of another: ConnTimed adds to TimersAgree  *)
(* what the timer of an attempt looks like until that happens.  RequestInv *)
(* says that what is accepted and unanswered is Owed, held by exactly one  *)
(* of mapRequest and the busy clients.                                     *)
(*                                                                         *)
(* Three parts connect the two.  SocketsFresh: a request that waits for a  *)
(* name has not used its socket.  NoRequestStranded is proved by what a    *)
(* step does to one host (HostKept): who stops waiting and which handler   *)
(* is spent.  IdsCounted pays for each new timer id with a socket used or  *)
(* a request settled for the first time, which bounds the ids.             *)
(*                                                                         *)
(* The first lemmas are about lists, timers and searches; then each kind   *)
(* of step of the network keeps NetInv; then the requests; then there is   *)
(* one lemma for each action.                                              *)
(*                                                                         *)
(* Last, WatchInv: what holds besides where nobody can lose a timer, for   *)
(* coroutines that each ask of one host by its address, wait for an answer *)
(* before they ask again, and meet no connect timeout (AsyncOnly).         *)
(***************************************************************************)
EXTENDS HttpGet, FiniteSetTheorems, WellFoundedInduction, SequenceTheorems, TLAPS

\* No element occurs twice.
Distinct(s) == \A i, j \in DOMAIN s : s[i] = s[j] => i = j

\* A record of timers, every id it holds given out before.
TimersOK(ts) ==
    /\ ts = [nTimerId |-> ts.nTimerId, byId |-> ts.byId, robbed |-> ts.robbed]
    /\ ts.nTimerId \in Nat
    /\ Live(ts) \subseteq 1..ts.nTimerId
    /\ \A t \in Live(ts) : ts.byId[t] \in [nonce : Nat, sock : Req]
    /\ ts.robbed \subseteq Req
-----------------------------------------------------------------------------
(* The parts of the inductive invariant.                                   *)

\* The requests that wait, the connections, and what is not answered yet.
Entries == ToSet(mapRequest)
Conns == ToSet(mapGetClient)
Waiters == {e.req : e \in Entries}
Owed == Waiters \cup Busy

Entry == [host : Host, req : Req]
Stages == {"idle", "write", "header", "payload", "chunked"}
Conn == [sock : Req, nonce : Nat, timer : Nat, req : Req, stage : Stages]
SockStates == {"none", "connecting", "open", "closing", "closed", "reset", "orphan",
               "reported"}

\* The types of the requests' side of the state and of the network's.
RequestTypes ==
    /\ accepted \subseteq Req
    /\ answers \in [Req -> Nat]
    /\ loop \in {"running", "left", "crashed"}
    /\ resolving \subseteq Req
    /\ mapRequest \in Seq(Entry)

NetTypes ==
    /\ TimersOK(tm)
    /\ sock \in [Req -> SockStates]
    /\ remote \in [Req -> Host]
    /\ connTimer \in [Req -> Nat]
    /\ \A t \in DOMAIN mapPending : mapPending[t] \in Req
    /\ mapGetClient \in Seq(Conn)

\* The ids that anybody keeps have been given out.
IdsGiven ==
    /\ \A s \in Req : connTimer[s] <= tm.nTimerId
    /\ DOMAIN mapPending \subseteq 1..tm.nTimerId
    /\ \A c \in Conns : c.timer \in 1..tm.nTimerId

\* What is owed an answer is what was accepted and has none; a request waits or is
\* carried, not both, and in one record.
OwedOnce ==
    /\ Owed \subseteq accepted
    /\ \A r \in Req : answers[r] = 0 <=> r \notin accepted \/ r \in Owed
    /\ Waiters \cap Busy = {}
    /\ \A e, f \in Entries : e.req = f.req => e = f
    /\ \A c, d \in Conns : ~IsIdle(c) /\ ~IsIdle(d) /\ c.req = d.req => c = d

\* The socket of a request is not used before the request is accepted and, if it names
\* a host, resolved.
SocketsFresh ==
    /\ \A r \in Req \ accepted : sock[r] = "none"
    /\ \A r \in resolving : r \in accepted /\ HostOf[r] \in DOMAIN Address
    /\ \A e \in Entries : e.host \in DOMAIN Address =>
           e.host = HostOf[e.req] /\ sock[e.req] = "none"

\* Each connection has a socket of its own, which is open.
ConnsOpen ==
    /\ \A c \in Conns : sock[c.sock] = "open"
    /\ \A c, d \in Conns : c.sock = d.sock => c = d

\* A connection being set up has its timer, unless another took it.
ConnTimed ==
    \A s \in Req : sock[s] = "connecting" =>
        \/ s \in tm.robbed
        \/ connTimer[s] \in Live(tm) /\ tm.byId[connTimer[s]] = [nonce |-> 0, sock |-> s]

\* A timer id is new only to a connection or to a request that stops waiting.
Connected == {s \in Req : sock[s] # "none"}
Settled == accepted \ Waiters
IdsCounted == tm.nTimerId <= Cardinality(Connected) + Cardinality(Settled)

\* What the variables of the network say; what the requests' variables say; and the rest.
NetInv ==
    /\ NetTypes /\ IdsGiven /\ Distinct(mapGetClient) /\ ConnsOpen
    /\ PendingIsTimed /\ ConnTimed /\ ConnectWatched /\ NoTimerLeak

RequestInv == RequestTypes /\ Distinct(mapRequest) /\ OwedOnce

Inv == NetInv /\ RequestInv /\ SocketsFresh /\ NoRequestStranded /\ IdsCounted
-----------------------------------------------------------------------------
\* A set of naturals that is not empty has a least element.
LEMMA MinIs ==
    ASSUME NEW I \in SUBSET Nat, I # {}
    PROVE  Min(I) \in I /\ \A i \in I : Min(I) <= i
<1> DEFINE R == OpToRel(<, Nat)
<1>1. \E x \in I : \A y \in I : ~ (<<y, x>> \in R)
  BY NatLessThanWellFounded, WFMin
<1>2. PICK x \in I : \A y \in I : ~ (<<y, x>> \in R)
  BY <1>1
<1>3. ASSUME NEW y \in I
      PROVE  x <= y
  <2>1. x \in Nat /\ y \in Nat
    OBVIOUS
  <2>2. y < x => <<y, x>> \in R
    BY <2>1 DEF OpToRel
  <2>3. ~ (y < x)
    BY <1>2, <2>2
  <2> QED BY <2>1, <2>3
<1> QED BY <1>3 DEF Min

\* What removing a position leaves.
LEMMA RemoveAtIs ==
    ASSUME NEW S, NEW s \in Seq(S), NEW i \in 1..Len(s), NEW t, t = RemoveAt(s, i)
    PROVE  /\ t \in Seq(S)
           /\ DOMAIN t = 1..Len(s) - 1
           /\ \A k \in 1..Len(s) - 1 : t[k] = IF k < i THEN s[k] ELSE s[k + 1]
<1> DEFINE a == SubSeq(s, 1, i - 1)
           b == SubSeq(s, i + 1, Len(s))
<1>1. Len(s) \in Nat /\ i \in Nat /\ 1 <= i /\ i <= Len(s)
  OBVIOUS
<1>2. a \in Seq(S) /\ Len(a) = i - 1 /\ \A k \in 1..i - 1 : a[k] = s[k]
  <2>1. \A k \in 1..i - 1 : s[k] \in S
    BY <1>1
  <2> QED BY <1>1, <2>1, SubSeqProperties
<1>3. b \in Seq(S) /\ Len(b) = Len(s) - i /\ \A k \in 1..Len(s) - i : b[k] = s[k + i]
  <2>1. \A k \in i + 1..Len(s) : s[k] \in S
    BY <1>1
  <2> QED BY <1>1, <2>1, SubSeqProperties
<1>4. t = a \o b
  BY DEF RemoveAt
<1> HIDE DEF a, b
<1>5. /\ t \in Seq(S) /\ Len(t) = Len(s) - 1
      /\ \A k \in 1..Len(s) - 1 : t[k] = IF k <= i - 1 THEN a[k] ELSE b[k - (i - 1)]
  <2>1. /\ a \o b \in Seq(S) /\ Len(a \o b) = Len(a) + Len(b)
        /\ \A k \in 1..Len(a) + Len(b) :
              (a \o b)[k] = IF k <= Len(a) THEN a[k] ELSE b[k - Len(a)]
    BY <1>2, <1>3, ConcatProperties
  <2>2. Len(a) + Len(b) = Len(s) - 1
    BY <1>1, <1>2, <1>3
  <2> QED BY <1>2, <1>4, <2>1, <2>2
<1>6. \A k \in 1..Len(s) - 1 : t[k] = IF k < i THEN s[k] ELSE s[k + 1]
  <2>1. TAKE k \in 1..Len(s) - 1
  <2>2. CASE k < i
    BY <1>1, <1>2, <1>5, <2>2
  <2>3. CASE ~ (k < i)
    <3>1. k - (i - 1) \in 1..Len(s) - i /\ k - (i - 1) + i = k + 1 /\ ~ (k <= i - 1)
      BY <1>1, <2>3
    <3> QED BY <1>3, <1>5, <2>3, <3>1
  <2> QED BY <2>2, <2>3
<1> QED BY <1>5, <1>6

\* The same, of a list without repetitions: what was at the position is gone.
LEMMA RemoveAtLeaves ==
    ASSUME NEW S, NEW s \in Seq(S), NEW i \in 1..Len(s), NEW t, t = RemoveAt(s, i),
           Distinct(s)
    PROVE  /\ t \in Seq(S)
           /\ Distinct(t)
           /\ ToSet(t) = ToSet(s) \ {s[i]}
           /\ s[i] \in ToSet(s) /\ s[i] \in S
<1>1. /\ t \in Seq(S)
      /\ DOMAIN t = 1..Len(s) - 1
      /\ \A k \in 1..Len(s) - 1 : t[k] = IF k < i THEN s[k] ELSE s[k + 1]
  BY RemoveAtIs
<1>2. DOMAIN s = 1..Len(s) /\ Len(s) \in Nat
  OBVIOUS
<1>3. Distinct(t)
  <2>1. ASSUME NEW k \in DOMAIN t, NEW l \in DOMAIN t, t[k] = t[l]
        PROVE  k = l
    <3> DEFINE from(n) == IF n < i THEN n ELSE n + 1
    <3>1. /\ from(k) \in DOMAIN s /\ t[k] = s[from(k)]
          /\ from(l) \in DOMAIN s /\ t[l] = s[from(l)]
      BY <1>1, <1>2
    <3>2. from(k) = from(l)
      BY <2>1, <3>1 DEF Distinct
    <3> QED BY <1>1, <1>2, <3>2
  <2> QED BY <2>1 DEF Distinct
<1>4. \A k \in DOMAIN t : t[k] \in ToSet(s) \ {s[i]}
  BY <1>1, <1>2 DEF Distinct, ToSet
<1>5. ASSUME NEW j \in DOMAIN s, s[j] # s[i]
      PROVE  \E k \in DOMAIN t : t[k] = s[j]
  <2>1. CASE j < i
    BY <1>1, <1>2, <2>1
  <2>2. CASE j > i
    <3>1. j - 1 \in 1..Len(s) - 1 /\ ~ (j - 1 < i) /\ (j - 1) + 1 = j
      BY <1>2, <2>2
    <3> QED BY <1>1, <3>1
  <2>3. j # i
    BY <1>5
  <2> QED BY <1>2, <2>1, <2>2, <2>3
<1> QED BY <1>1, <1>2, <1>3, <1>4, <1>5 DEF ToSet

\* What appending adds to a list without repetitions.
LEMMA AppendAdds ==
    ASSUME NEW S, NEW s \in Seq(S), NEW e \in S,
           Distinct(s), e \notin ToSet(s)
    PROVE  /\ Append(s, e) \in Seq(S)
           /\ Distinct(Append(s, e))
           /\ ToSet(Append(s, e)) = ToSet(s) \cup {e}
<1> DEFINE t == Append(s, e)
<1>1. /\ t \in Seq(S)
      /\ DOMAIN s = 1..Len(s) /\ Len(s) \in Nat
      /\ DOMAIN t = 1..Len(s) + 1
      /\ \A k \in 1..Len(s) : t[k] = s[k]
      /\ t[Len(s) + 1] = e
  OBVIOUS
<1> HIDE DEF t
<1>2. Distinct(t)
  BY <1>1 DEF Distinct, ToSet
<1>3. ToSet(t) = ToSet(s) \cup {e}
  BY <1>1 DEF ToSet
<1> QED BY <1>1, <1>2, <1>3 DEF t

\* The positions of a set, numbered in their order.
LEMMA KeepLeaves ==
    ASSUME NEW S, NEW s \in Seq(S), NEW I \in SUBSET (DOMAIN s), NEW t, t = Keep(s, I),
           Distinct(s)
    PROVE  /\ t \in Seq(S)
           /\ Distinct(t)
           /\ ToSet(t) = {s[i] : i \in I}
<1> DEFINE upTo(i) == {j \in I : j <= i}
           rank == [i \in I |-> Cardinality(upTo(i))]
           nth(k) == CHOOSE i \in I : Cardinality(upTo(i)) = k
<1>1. I \subseteq 1..Len(s) /\ Len(s) \in Nat /\ \A i \in I : i \in Nat
  OBVIOUS
<1>2. IsFiniteSet(I) /\ Cardinality(I) \in Nat
  <2>1. IsFiniteSet(1..Len(s))
    BY <1>1, FS_Interval
  <2> QED BY <1>1, <2>1, FS_Subset, FS_CardinalityType
<1>3. ASSUME NEW i \in I
      PROVE  IsFiniteSet(upTo(i)) /\ Cardinality(upTo(i)) \in 1..Cardinality(I)
  <2>1. IsFiniteSet(upTo(i)) /\ Cardinality(upTo(i)) <= Cardinality(I)
    <3>1. upTo(i) \in SUBSET I
      OBVIOUS
    <3> HIDE DEF upTo
    <3> QED BY <1>2, <3>1, FS_Subset
  <2>2. Cardinality(upTo(i)) \in Nat
    BY <2>1, FS_CardinalityType
  <2>3. i \in upTo(i)
    BY <1>1
  <2>4. Cardinality(upTo(i)) # 0
    BY <2>1, <2>3, FS_EmptySet
  <2> HIDE DEF upTo
  <2> QED BY <1>2, <2>1, <2>2, <2>4
<1>4. ASSUME NEW i \in I, NEW j \in I, Cardinality(upTo(i)) = Cardinality(upTo(j))
      PROVE  i = j
  <2>1. ASSUME NEW a \in I, NEW b \in I, a < b, Cardinality(upTo(b)) = Cardinality(upTo(a))
        PROVE  FALSE
    <3>1. upTo(a) \in SUBSET upTo(b)
      BY <1>1, <2>1
    <3>2. b \in upTo(b) /\ b \notin upTo(a)
      BY <1>1, <2>1
    <3>3. IsFiniteSet(upTo(b))
      BY <1>3
    <3> HIDE DEF upTo
    <3>4. upTo(b) = upTo(a)
      BY <2>1, <3>1, <3>3, FS_Subset
    <3> QED BY <3>2, <3>4
  <2>2. i < j \/ j < i \/ i = j
    BY <1>1
  <2> HIDE DEF upTo
  <2> QED BY <1>4, <2>1, <2>2
<1> HIDE DEF upTo
<1>5. rank \in Injection(I, 1..Cardinality(I))
  <2>1. rank \in [I -> 1..Cardinality(I)]
    BY <1>3
  <2>2. \A i, j \in I : rank[i] = rank[j] => i = j
    BY <1>4
  <2> QED BY <2>1, <2>2 DEF Injection, IsInjective
<1>6. rank \in Surjection(I, 1..Cardinality(I))
  <2>1. IsFiniteSet(1..Cardinality(I)) /\ Cardinality(1..Cardinality(I)) = Cardinality(I)
    BY <1>2, FS_Interval
  <2> HIDE DEF rank
  <2> QED BY <1>5, <2>1, FS_Injection
<1>7. \A k \in 1..Cardinality(I) : \E i \in I : Cardinality(upTo(i)) = k
  BY <1>6 DEF Surjection
<1>8. \A k \in 1..Cardinality(I) : nth(k) \in I /\ Cardinality(upTo(nth(k))) = k
  BY <1>7
<1>9. \A i \in I : Cardinality(upTo(i)) \in 1..Cardinality(I) /\ nth(Cardinality(upTo(i))) = i
  BY <1>3, <1>4
<1>10. t = [k \in 1..Cardinality(I) |-> s[nth(k)]]
  BY DEF Keep, upTo
<1> HIDE DEF nth
<1>11. t \in Seq(S)
  <2>1. \A k \in 1..Cardinality(I) : s[nth(k)] \in S
    BY <1>1, <1>8
  <2> QED BY <1>2, <1>10, <2>1
<1>12. DOMAIN t = 1..Cardinality(I) /\ \A k \in DOMAIN t : t[k] = s[nth(k)]
  BY <1>10
<1>13. Distinct(t)
  <2>1. ASSUME NEW k \in DOMAIN t, NEW l \in DOMAIN t, t[k] = t[l]
        PROVE  k = l
    <3>1. nth(k) = nth(l)
      BY <1>8, <1>12, <2>1 DEF Distinct
    <3> QED BY <1>8, <1>12, <3>1
  <2> QED BY <2>1 DEF Distinct
<1>14. ToSet(t) = {s[i] : i \in I}
  BY <1>8, <1>9, <1>12 DEF ToSet
<1> QED BY <1>11, <1>13, <1>14

\* The same, of the lists of the module.
LEMMA ConnAppended ==
    ASSUME Distinct(mapGetClient), mapGetClient \in Seq(Conn), NEW c \in Conn, c \notin Conns,
           mapGetClient' = Append(mapGetClient, c)
    PROVE  mapGetClient' \in Seq(Conn) /\ Distinct(mapGetClient') /\ Conns' = Conns \cup {c}
<1> DEFINE t == Append(mapGetClient, c)
<1>1. t \in Seq(Conn) /\ Distinct(t) /\ ToSet(t) = ToSet(mapGetClient) \cup {c}
  <2>1. c \notin ToSet(mapGetClient)
    BY DEF Conns
  <2> QED BY <2>1, AppendAdds
<1> QED BY <1>1 DEF Conns

\* A client is replaced where it stands.
LEMMA ConnReplaced ==
    ASSUME Distinct(mapGetClient), mapGetClient \in Seq(Conn),
           NEW i \in DOMAIN mapGetClient, NEW c \in Conn, c \notin Conns \ {mapGetClient[i]},
           mapGetClient' = [mapGetClient EXCEPT ![i] = c]
    PROVE  /\ mapGetClient' \in Seq(Conn) /\ Distinct(mapGetClient')
           /\ Conns' = (Conns \ {mapGetClient[i]}) \cup {c}
<1>1. /\ mapGetClient' \in Seq(Conn)
      /\ DOMAIN mapGetClient' = DOMAIN mapGetClient
      /\ mapGetClient'[i] = c
      /\ \A k \in DOMAIN mapGetClient : k # i => mapGetClient'[k] = mapGetClient[k]
  OBVIOUS
<1>2. Distinct(mapGetClient')
  BY <1>1 DEF Distinct, Conns, ToSet
<1>3. Conns' = (Conns \ {mapGetClient[i]}) \cup {c}
  BY <1>1 DEF Distinct, Conns, ToSet
<1> QED BY <1>1, <1>2, <1>3

\* A client is erased.
LEMMA ConnRemoved ==
    ASSUME Distinct(mapGetClient), mapGetClient \in Seq(Conn),
           NEW i \in DOMAIN mapGetClient, mapGetClient' = RemoveAt(mapGetClient, i)
    PROVE  /\ mapGetClient' \in Seq(Conn) /\ Distinct(mapGetClient')
           /\ Conns' = Conns \ {mapGetClient[i]} /\ mapGetClient[i] \in Conns
           /\ mapGetClient[i] \in Conn
<1>1. i \in 1..Len(mapGetClient)
  OBVIOUS
<1> QED BY <1>1, RemoveAtLeaves DEF Conns

-----------------------------------------------------------------------------
(* What the operators on timers do.                                        *)

\* The id of a new timer is not 0, nor live, and at most one more than the counter.
LEMMA NextIdIs ==
    ASSUME NEW ts, TimersOK(ts)
    PROVE  /\ NextId(ts) \in Nat \ {0} /\ NextId(ts) \notin Live(ts)
           /\ ts.nTimerId <= NextId(ts) /\ NextId(ts) <= ts.nTimerId + 1
<1> DEFINE k == Cardinality(Live(ts))
           I == {n \in ts.nTimerId..ts.nTimerId + k + 1 : n # 0 /\ n \notin Live(ts)}
<1>1. ts.nTimerId \in Nat /\ Live(ts) \subseteq 1..ts.nTimerId
  BY DEF TimersOK
<1>2. k \in Nat
  <2>1. IsFiniteSet(1..ts.nTimerId)
    BY <1>1, FS_Interval
  <2>2. IsFiniteSet(Live(ts))
    BY <1>1, <2>1, FS_Subset
  <2> QED BY <2>2, FS_CardinalityType
<1> HIDE DEF k
<1>3. I \in SUBSET Nat /\ ts.nTimerId + 1 \in I
  BY <1>1, <1>2
<1>4. Min(I) \in I /\ \A i \in I : Min(I) <= i
  <2> HIDE DEF I
  <2> QED BY <1>3, MinIs
<1>5. NextId(ts) = Min(I)
  BY DEF NextId, k
<1> QED BY <1>1, <1>2, <1>3, <1>4, <1>5

\* SetTimer adds one live timer, under the id it leaves in the counter.
LEMMA SetTimerIs ==
    ASSUME NEW ts, TimersOK(ts), NEW nonce \in Nat, NEW s \in Req,
           NEW n, n = SetTimer(ts, nonce, s)
    PROVE  /\ TimersOK(n)
           /\ n.nTimerId \in Nat \ {0} /\ n.nTimerId \notin Live(ts)
           /\ ts.nTimerId <= n.nTimerId /\ n.nTimerId <= ts.nTimerId + 1
           /\ Live(n) = Live(ts) \cup {n.nTimerId}
           /\ n.byId[n.nTimerId] = [nonce |-> nonce, sock |-> s]
           /\ \A t \in Live(ts) : n.byId[t] = ts.byId[t]
           /\ n.robbed = ts.robbed \ {s}
<1> DEFINE id == NextId(ts)
<1>1. /\ id \in Nat \ {0} /\ id \notin Live(ts)
      /\ ts.nTimerId <= id /\ id <= ts.nTimerId + 1
  BY NextIdIs
<1> HIDE DEF id
<1>2. n = [nTimerId |-> id,
           byId |-> [t \in Live(ts) \cup {id} |->
                        IF t = id THEN [nonce |-> nonce, sock |-> s] ELSE ts.byId[t]],
           robbed |-> ts.robbed \ {s}]
  BY DEF SetTimer, id
<1>3. /\ n.nTimerId = id
      /\ n.robbed = ts.robbed \ {s}
      /\ Live(n) = Live(ts) \cup {id}
      /\ n.byId[id] = [nonce |-> nonce, sock |-> s]
      /\ \A t \in Live(ts) : n.byId[t] = ts.byId[t]
  BY <1>1, <1>2 DEF Live
<1>4. n = [nTimerId |-> n.nTimerId, byId |-> n.byId, robbed |-> n.robbed]
  BY <1>2
<1>5. TimersOK(n)
  BY <1>1, <1>3, <1>4 DEF TimersOK
<1> QED BY <1>1, <1>3, <1>5

\* CancelTimer drops the timer of an id, and notes who owned it.
LEMMA CancelTimerIs ==
    ASSUME NEW ts, TimersOK(ts), NEW id, NEW s,
           NEW n, n = CancelTimer(ts, id, s)
    PROVE  /\ TimersOK(n)
           /\ n.nTimerId = ts.nTimerId
           /\ Live(n) = Live(ts) \ {id}
           /\ \A t \in Live(n) : n.byId[t] = ts.byId[t]
           /\ id \in Live(ts) =>
                 n.robbed = ts.robbed \cup ({ts.byId[id].sock} \ {s})
           /\ id \notin Live(ts) => n.robbed = ts.robbed
<1>1. n = [ts EXCEPT !.byId = [t \in Live(ts) \ {id} |-> ts.byId[t]],
                     !.robbed = ts.robbed \cup
                                ({ts.byId[t].sock : t \in {id} \cap Live(ts)} \ {s})]
  BY DEF CancelTimer, Restrict
<1>2. ts = [nTimerId |-> ts.nTimerId, byId |-> ts.byId, robbed |-> ts.robbed]
  BY DEF TimersOK
<1>3. n = [nTimerId |-> ts.nTimerId,
           byId |-> [t \in Live(ts) \ {id} |-> ts.byId[t]],
           robbed |-> ts.robbed \cup
                      ({ts.byId[t].sock : t \in {id} \cap Live(ts)} \ {s})]
  BY <1>1, <1>2
<1>4. /\ n = [nTimerId |-> n.nTimerId, byId |-> n.byId, robbed |-> n.robbed]
      /\ n.nTimerId = ts.nTimerId
      /\ Live(n) = Live(ts) \ {id}
      /\ \A t \in Live(n) : n.byId[t] = ts.byId[t]
      /\ n.robbed = ts.robbed \cup
                    ({ts.byId[t].sock : t \in {id} \cap Live(ts)} \ {s})
  BY <1>3 DEF Live
<1>5. \A t \in Live(ts) : ts.byId[t].sock \in Req
  BY DEF TimersOK
<1>6. /\ id \in Live(ts) => n.robbed = ts.robbed \cup ({ts.byId[id].sock} \ {s})
      /\ id \notin Live(ts) => n.robbed = ts.robbed
      /\ n.robbed \subseteq ts.robbed \cup Req
  BY <1>4, <1>5
<1>7. TimersOK(n)
  BY <1>4, <1>6 DEF TimersOK
<1> QED BY <1>4, <1>6, <1>7
-----------------------------------------------------------------------------
(* What the searches find.                                                 *)

\* A request found waits for the host; if none is found, none does.
LEMMA OldestRequestIs ==
    ASSUME mapRequest \in Seq(Entry), NEW h, NEW i, i = OldestRequest(h)
    PROVE  /\ i = 0 => \A e \in Entries : e.host # h
           /\ i # 0 => i \in 1..Len(mapRequest) /\ mapRequest[i].host = h
<1> DEFINE I == {k \in 1..Len(mapRequest) : mapRequest[k].host = h}
<1>1. i = IF I # {} THEN Min(I) ELSE 0
  BY DEF OldestRequest, SelectInSeq
<1>2. I \in SUBSET Nat /\ DOMAIN mapRequest = 1..Len(mapRequest)
  OBVIOUS
<1>3. I # {} => Min(I) \in I
  <2> HIDE DEF I
  <2> QED BY <1>2, MinIs
<1> QED BY <1>1, <1>2, <1>3 DEF Entries, ToSet

\* A client found is one of the nonce, on that host; if none is found, none is.
LEMMA ClientForIs ==
    ASSUME mapGetClient \in Seq(Conn), NEW nonce, NEW h, NEW i, i = ClientFor(nonce, h)
    PROVE  /\ i = 0 => \A c \in Conns : ~ (c.nonce = nonce /\ remote[c.sock] = h)
           /\ i # 0 => /\ i \in 1..Len(mapGetClient) /\ mapGetClient[i].nonce = nonce
                       /\ remote[mapGetClient[i].sock] = h
<1> DEFINE I == {k \in 1..Len(mapGetClient) :
                    mapGetClient[k].nonce = nonce /\ remote[mapGetClient[k].sock] = h}
<1>1. i = IF I # {} THEN Min(I) ELSE 0
  BY DEF ClientFor, SelectInSeq
<1>2. I \in SUBSET Nat /\ DOMAIN mapGetClient = 1..Len(mapGetClient)
  OBVIOUS
<1>3. I # {} => Min(I) \in I
  <2> HIDE DEF I
  <2> QED BY <1>2, MinIs
<1> QED BY <1>1, <1>2, <1>3 DEF Conns, ToSet

\* A client found has kept the timer id; if none is found, none of the nonce has.
LEMMA ClientTimedByIs ==
    ASSUME mapGetClient \in Seq(Conn), NEW nonce, NEW t, NEW i,
           i = ClientTimedBy(nonce, t)
    PROVE  /\ i = 0 => \A c \in Conns : ~ (c.nonce = nonce /\ c.timer = t)
           /\ i # 0 => /\ i \in 1..Len(mapGetClient) /\ mapGetClient[i].timer = t
                       /\ mapGetClient[i].nonce = nonce
<1> DEFINE I == {k \in 1..Len(mapGetClient) :
                    mapGetClient[k].nonce = nonce /\ mapGetClient[k].timer = t}
<1>1. i = IF I # {} THEN Min(I) ELSE 0
  BY DEF ClientTimedBy, SelectInSeq
<1>2. I \in SUBSET Nat /\ DOMAIN mapGetClient = 1..Len(mapGetClient)
  OBVIOUS
<1>3. I # {} => Min(I) \in I
  <2> HIDE DEF I
  <2> QED BY <1>2, MinIs
<1> QED BY <1>1, <1>2, <1>3 DEF Conns, ToSet

\* A client found is one of the list.
LEMMA FirstClientIs ==
    ASSUME mapGetClient \in Seq(Conn), NEW nonce, NEW i, i = FirstClient(nonce), i # 0
    PROVE  i \in 1..Len(mapGetClient)
<1> DEFINE I == {k \in 1..Len(mapGetClient) : mapGetClient[k].nonce = nonce}
<1>1. i = IF I # {} THEN Min(I) ELSE 0
  BY DEF FirstClient, SelectInSeq
<1>2. I \in SUBSET Nat
  OBVIOUS
<1>3. I # {} => Min(I) \in I
  <2> HIDE DEF I
  <2> QED BY <1>2, MinIs
<1> QED BY <1>1, <1>3
-----------------------------------------------------------------------------
(* The network's part of the invariant, one lemma for each kind of step.   *)

\* The clients have the type of clients.
LEMMA ConnsTyped == mapGetClient \in Seq(Conn) => \A c \in Conns : c \in Conn
  BY DEF Conns, ToSet

\* A step of the others.
LEMMA NetUnchanged ==
    ASSUME NetInv, UNCHANGED <<tm, sock, remote, connTimer, mapPending, mapGetClient>>
    PROVE  NetInv'
  BY DEF NetInv, NetTypes, IdsGiven, ConnsOpen, PendingIsTimed, ConnTimed, ConnectWatched,
         NoTimerLeak, Conns, Live, IsIdle

\* A connection is started on a socket that was not used.
LEMMA NetConnects ==
    ASSUME NetInv, NEW s \in Req, NEW h \in Host, sock[s] = "none",
           SSLConnect(s, h), UNCHANGED mapGetClient
    PROVE  NetInv' /\ tm'.nTimerId <= tm.nTimerId + 1
<1> DEFINE id == tm'.nTimerId
<1>1. /\ sock' = [sock EXCEPT ![s] = "connecting"]
      /\ remote' = [remote EXCEPT ![s] = h]
      /\ connTimer' = [connTimer EXCEPT ![s] = id]
      /\ mapPending' = [t \in DOMAIN mapPending \cup {id} |->
                           IF t \in DOMAIN mapPending THEN mapPending[t] ELSE s]
      /\ Conns' = Conns
  BY DEF SSLConnect, Conns
<1>2. /\ TimersOK(tm')
      /\ id \in Nat \ {0} /\ id \notin Live(tm)
      /\ tm.nTimerId <= id /\ id <= tm.nTimerId + 1
      /\ Live(tm') = Live(tm) \cup {id}
      /\ tm'.byId[id] = [nonce |-> 0, sock |-> s]
      /\ \A t \in Live(tm) : tm'.byId[t] = tm.byId[t]
      /\ tm'.robbed = tm.robbed \ {s}
  <2>1. tm' = SetTimer(tm, 0, s) /\ TimersOK(tm) /\ 0 \in Nat
    BY DEF SSLConnect, NetInv, NetTypes
  <2> QED BY <2>1, SetTimerIs
<1> HIDE DEF id
<1>3. NetTypes'
  BY <1>1, <1>2 DEF NetInv, NetTypes, SockStates
<1>4. IdsGiven'
  BY <1>1, <1>2 DEF NetInv, NetTypes, IdsGiven, TimersOK, Conns, id
<1>5. ConnsOpen' /\ Distinct(mapGetClient)'
  BY <1>1 DEF NetInv, NetTypes, ConnsOpen, Conns
<1>6. PendingIsTimed'
  <2>1. ASSUME NEW t \in DOMAIN mapPending'
        PROVE  /\ sock'[mapPending'[t]] = "connecting" /\ connTimer'[mapPending'[t]] = t
               /\ \/ t \in Live(tm') /\ tm'.byId[t] = [nonce |-> 0, sock |-> mapPending'[t]]
                  \/ mapPending'[t] \in tm'.robbed
    <3>1. CASE t \in DOMAIN mapPending
      <4> DEFINE p == mapPending[t]
      <4>1. /\ p \in Req /\ sock[p] = "connecting" /\ connTimer[p] = t
            /\ (t \in Live(tm) /\ tm.byId[t] = [nonce |-> 0, sock |-> p]) \/ p \in tm.robbed
        BY <3>1 DEF NetInv, NetTypes, PendingIsTimed
      <4>2. mapPending'[t] = p /\ p # s
        BY <1>1, <3>1, <4>1
      <4>3. sock'[p] = "connecting" /\ connTimer'[p] = t
        BY <1>1, <4>1, <4>2 DEF NetInv, NetTypes
      <4> QED BY <1>2, <4>1, <4>2, <4>3
    <3>2. CASE t \notin DOMAIN mapPending
      <4>1. t = id /\ mapPending'[t] = s
        BY <1>1, <2>1, <3>2
      <4>2. sock'[s] = "connecting" /\ connTimer'[s] = id
        BY <1>1 DEF NetInv, NetTypes
      <4> QED BY <1>2, <4>1, <4>2
    <3> QED BY <3>1, <3>2
  <2> QED BY <2>1 DEF PendingIsTimed
<1>7. ConnTimed'
  BY <1>1, <1>2 DEF NetInv, NetTypes, ConnTimed
<1>8. ConnectWatched'
  BY <1>1, <1>2 DEF NetInv, NetTypes, ConnectWatched, PendingIsTimed
<1>9. NoTimerLeak'
  BY <1>1, <1>2 DEF NetInv, NoTimerLeak, Conns, IsIdle
<1> QED BY <1>2, <1>3, <1>4, <1>5, <1>6, <1>7, <1>8, <1>9 DEF NetInv, id

\* A connect handler has run, of a socket being set up or of an orphan, and left no
\* connection: timer and entry are gone by the id that the handler kept.
LEMMA NetConnectFails ==
    ASSUME NetInv, NEW s \in Req, sock[s] \in {"connecting", "orphan"},
           NEW closed \in {"closed", "reset", "reported"},
           Unpend(connTimer[s]), tm' = CancelTimer(tm, connTimer[s], s),
           sock' = [sock EXCEPT ![s] = closed],
           UNCHANGED <<remote, connTimer, mapGetClient>>
    PROVE  NetInv' /\ tm'.nTimerId = tm.nTimerId
<1> DEFINE id == connTimer[s]
<1>1. /\ DOMAIN mapPending' = DOMAIN mapPending \ {id}
      /\ \A t \in DOMAIN mapPending' : mapPending'[t] = mapPending[t]
      /\ Conns' = Conns
  BY DEF Unpend, Restrict, Conns
<1>2. /\ TimersOK(tm')
      /\ tm'.nTimerId = tm.nTimerId
      /\ Live(tm') = Live(tm) \ {id}
      /\ \A t \in Live(tm') : tm'.byId[t] = tm.byId[t]
      /\ id \in Live(tm) => tm'.robbed = tm.robbed \cup ({tm.byId[id].sock} \ {s})
      /\ id \notin Live(tm) => tm'.robbed = tm.robbed
  <2>1. TimersOK(tm)
    BY DEF NetInv, NetTypes
  <2> HIDE DEF id
  <2>2. tm' = CancelTimer(tm, id, s)
    BY DEF id
  <2> QED BY <2>1, <2>2, CancelTimerIs
<1> HIDE DEF id
<1>3. NetTypes'
  BY <1>1, <1>2 DEF NetInv, NetTypes, SockStates
<1>4. IdsGiven'
  BY <1>1, <1>2 DEF NetInv, NetTypes, IdsGiven
<1>5. ConnsOpen' /\ Distinct(mapGetClient)'
  BY <1>1 DEF NetInv, NetTypes, ConnsOpen
<1>6. \A p \in Req : p # s => sock'[p] = sock[p]
  BY DEF NetInv, NetTypes
<1>7. sock'[s] = closed
  BY DEF NetInv, NetTypes
<1>8. PendingIsTimed'
  <2>1. ASSUME NEW t \in DOMAIN mapPending'
        PROVE  /\ sock'[mapPending'[t]] = "connecting" /\ connTimer'[mapPending'[t]] = t
               /\ \/ t \in Live(tm') /\ tm'.byId[t] = [nonce |-> 0, sock |-> mapPending'[t]]
                  \/ mapPending'[t] \in tm'.robbed
    <3> DEFINE p == mapPending[t]
    <3>1. /\ p \in Req /\ sock[p] = "connecting" /\ connTimer[p] = t
          /\ (t \in Live(tm) /\ tm.byId[t] = [nonce |-> 0, sock |-> p]) \/ p \in tm.robbed
          /\ mapPending'[t] = p /\ t # id
      BY <1>1, <2>1 DEF NetInv, NetTypes, PendingIsTimed
    <3>2. p # s
      BY <3>1 DEF id
    <3>3. p \in tm.robbed => p \in tm'.robbed
      BY <1>2
    <3> HIDE DEF p
    <3> QED BY <1>2, <1>6, <3>1, <3>2, <3>3
  <2> QED BY <2>1 DEF PendingIsTimed
<1>9. ConnTimed'
  <2>1. ASSUME NEW p \in Req, sock'[p] = "connecting"
        PROVE  \/ p \in tm'.robbed
               \/ connTimer[p] \in Live(tm') /\ tm'.byId[connTimer[p]] = [nonce |-> 0, sock |-> p]
    <3>1. p # s /\ sock[p] = "connecting"
      BY <1>6, <1>7, <2>1
    <3>2. \/ p \in tm.robbed
          \/ connTimer[p] \in Live(tm) /\ tm.byId[connTimer[p]] = [nonce |-> 0, sock |-> p]
      BY <3>1 DEF NetInv, ConnTimed
    <3>3. p \in tm.robbed => p \in tm'.robbed
      BY <1>2
    <3> QED BY <1>2, <3>1, <3>2, <3>3
  <2> QED BY <2>1 DEF ConnTimed
<1>10. ConnectWatched'
  <2>1. ASSUME NEW p \in Req, sock'[p] = "connecting", p \notin tm'.robbed
        PROVE  /\ connTimer[p] \in DOMAIN mapPending'
               /\ mapPending'[connTimer[p]] \in {p} \cup tm'.robbed
    <3>1. p # s /\ sock[p] = "connecting"
      BY <1>6, <1>7, <2>1
    <3>2. tm.robbed \subseteq tm'.robbed
      BY <1>2
    <3>3. connTimer[p] \in Live(tm) /\ tm.byId[connTimer[p]] = [nonce |-> 0, sock |-> p]
      BY <2>1, <3>1, <3>2 DEF NetInv, ConnTimed
    <3>4. connTimer[p] # id
      BY <1>2, <2>1, <3>1, <3>3
    <3>5. connTimer[p] \in DOMAIN mapPending /\ mapPending[connTimer[p]] \in {p} \cup tm.robbed
      BY <2>1, <3>1, <3>2 DEF NetInv, ConnectWatched
    <3> QED BY <1>1, <3>2, <3>4, <3>5
  <2> QED BY <2>1 DEF ConnectWatched
<1>11. NoTimerLeak'
  BY <1>1, <1>2 DEF NetInv, NoTimerLeak, Conns, IsIdle
<1> QED BY <1>2, <1>3, <1>4, <1>5, <1>8, <1>9, <1>10, <1>11 DEF NetInv

\* A connect handler has run and a connection carries a request.
LEMMA NetConnectSucceeds ==
    ASSUME NetInv, NEW s \in Req, sock[s] = "connecting",
           NEW nonce \in Nat, NEW r \in Req, NEW c,
           Unpend(connTimer[s]),
           tm' = SetTimer(CancelTimer(tm, connTimer[s], s), nonce, s),
           sock' = [sock EXCEPT ![s] = "open"],
           c = [sock |-> s, nonce |-> nonce, timer |-> tm'.nTimerId, req |-> r,
                stage |-> "write"],
           mapGetClient' = Append(mapGetClient, c),
           UNCHANGED <<remote, connTimer>>
    PROVE  NetInv' /\ Conns' = Conns \cup {c} /\ tm'.nTimerId <= tm.nTimerId + 1
<1> DEFINE id == connTimer[s]
           mid == CancelTimer(tm, id, s)
           new == tm'.nTimerId
<1>1. /\ DOMAIN mapPending' = DOMAIN mapPending \ {id}
      /\ \A t \in DOMAIN mapPending' : mapPending'[t] = mapPending[t]
  BY DEF Unpend, Restrict
<1>2. /\ TimersOK(mid)
      /\ mid.nTimerId = tm.nTimerId
      /\ Live(mid) = Live(tm) \ {id}
      /\ \A t \in Live(mid) : mid.byId[t] = tm.byId[t]
      /\ id \in Live(tm) => mid.robbed = tm.robbed \cup ({tm.byId[id].sock} \ {s})
      /\ id \notin Live(tm) => mid.robbed = tm.robbed
  <2>1. TimersOK(tm)
    BY DEF NetInv, NetTypes
  <2> HIDE DEF id
  <2> QED BY <2>1, CancelTimerIs
<1>3. tm' = SetTimer(mid, nonce, s)
  OBVIOUS
<1> HIDE DEF mid
<1>4. /\ TimersOK(tm')
      /\ new \in Nat \ {0} /\ new \notin Live(mid)
      /\ mid.nTimerId <= new /\ new <= mid.nTimerId + 1
      /\ Live(tm') = Live(mid) \cup {new}
      /\ tm'.byId[new] = [nonce |-> nonce, sock |-> s]
      /\ \A t \in Live(mid) : tm'.byId[t] = mid.byId[t]
      /\ tm'.robbed = mid.robbed \ {s}
  BY <1>2, <1>3, SetTimerIs
<1>5. /\ tm.nTimerId <= new /\ new <= tm.nTimerId + 1
      /\ Live(tm') = (Live(tm) \ {id}) \cup {new}
      /\ \A t \in Live(tm) \ {id} : t # new /\ tm'.byId[t] = tm.byId[t]
      /\ tm.robbed \ {s} \subseteq tm'.robbed
      /\ id \in Live(tm) => tm.byId[id].sock \in {s} \cup tm'.robbed
  BY <1>2, <1>4
<1> HIDE DEF id, new
<1>6. c \in Conn
  BY <1>4 DEF Conn, Stages, new
<1>7. /\ \A p \in Req : p # s => sock'[p] = sock[p]
      /\ sock'[s] = "open"
  BY DEF NetInv, NetTypes
<1>8. /\ mapGetClient' \in Seq(Conn)
      /\ Distinct(mapGetClient)'
      /\ Conns' = Conns \cup {c}
  <2>1. c.sock = s
    OBVIOUS
  <2>2. c \notin Conns
    BY <2>1 DEF NetInv, ConnsOpen
  <2>3. mapGetClient \in Seq(Conn) /\ Distinct(mapGetClient)
    BY DEF NetInv, NetTypes
  <2> QED BY <1>6, <2>2, <2>3, ConnAppended
<1>9. NetTypes'
  BY <1>1, <1>4, <1>8 DEF NetInv, NetTypes, SockStates
<1>10. IdsGiven'
  <2>1. c.timer = new
    BY DEF new
  <2>2. tm'.nTimerId = new /\ tm.nTimerId \in Nat
    BY DEF new, NetInv, NetTypes, TimersOK
  <2> QED BY <1>1, <1>4, <1>5, <1>8, <2>1, <2>2 DEF NetInv, NetTypes, IdsGiven
<1>11. ConnsOpen'
  <2>1. c.sock = s
    OBVIOUS
  <2>2. \A d \in Conns : d.sock \in Req
    BY ConnsTyped DEF NetInv, NetTypes, Conn
  <2>3. \A d \in Conns : sock[d.sock] = "open" /\ d.sock # s
    BY DEF NetInv, ConnsOpen
  <2>4. \A d \in Conns' : sock'[d.sock] = "open"
    BY <1>7, <1>8, <2>1, <2>2, <2>3
  <2>5. \A d, e \in Conns' : d.sock = e.sock => d = e
    BY <1>8, <2>1, <2>3 DEF NetInv, ConnsOpen
  <2> QED BY <2>4, <2>5 DEF ConnsOpen
<1>12. PendingIsTimed'
  <2>1. ASSUME NEW t \in DOMAIN mapPending'
        PROVE  /\ sock'[mapPending'[t]] = "connecting" /\ connTimer'[mapPending'[t]] = t
               /\ \/ t \in Live(tm') /\ tm'.byId[t] = [nonce |-> 0, sock |-> mapPending'[t]]
                  \/ mapPending'[t] \in tm'.robbed
    <3> DEFINE p == mapPending[t]
    <3>1. /\ p \in Req /\ sock[p] = "connecting" /\ connTimer[p] = t
          /\ (t \in Live(tm) /\ tm.byId[t] = [nonce |-> 0, sock |-> p]) \/ p \in tm.robbed
          /\ mapPending'[t] = p /\ t # id
      BY <1>1, <2>1 DEF NetInv, NetTypes, PendingIsTimed
    <3>2. p # s
      BY <3>1 DEF id
    <3> HIDE DEF p
    <3> QED BY <1>5, <1>7, <3>1, <3>2
  <2> QED BY <2>1 DEF PendingIsTimed
<1>13. ASSUME NEW p \in Req, sock'[p] = "connecting"
       PROVE  /\ p # s /\ sock[p] = "connecting"
              /\ p \in tm.robbed => p \in tm'.robbed
              /\ \/ p \in tm'.robbed
                 \/ /\ connTimer[p] \in Live(tm) \ {id}
                    /\ tm.byId[connTimer[p]] = [nonce |-> 0, sock |-> p]
  <2>1. p # s /\ sock[p] = "connecting"
    BY <1>7, <1>13
  <2>2. p \in tm.robbed => p \in tm'.robbed
    BY <1>5, <2>1
  <2>3. \/ p \in tm.robbed
        \/ connTimer[p] \in Live(tm) /\ tm.byId[connTimer[p]] = [nonce |-> 0, sock |-> p]
    BY <2>1 DEF NetInv, ConnTimed
  <2> QED BY <1>5, <2>1, <2>2, <2>3
<1>14. ConnTimed'
  BY <1>5, <1>13 DEF ConnTimed
<1>15. ConnectWatched'
  <2>1. ASSUME NEW p \in Req, sock'[p] = "connecting", p \notin tm'.robbed
        PROVE  /\ connTimer[p] \in DOMAIN mapPending'
               /\ mapPending'[connTimer[p]] \in {p} \cup tm'.robbed
    <3>1. /\ connTimer[p] # id /\ sock[p] = "connecting" /\ p \notin tm.robbed
      BY <1>13, <2>1
    <3>2. connTimer[p] \in DOMAIN mapPending /\ mapPending[connTimer[p]] \in {p} \cup tm.robbed
      BY <3>1 DEF NetInv, ConnectWatched
    <3>3. mapPending[connTimer[p]] # s
      BY <3>1, <3>2 DEF NetInv, PendingIsTimed, id
    <3> QED BY <1>1, <1>5, <3>1, <3>2, <3>3
  <2> QED BY <2>1 DEF ConnectWatched
<1>16. NoTimerLeak'
  <2>1. ~IsIdle(c) /\ c.timer = new
    BY DEF IsIdle, new
  <2>2. ASSUME NEW t \in Live(tm) \ {id}
        PROVE  t \in DOMAIN mapPending' \/ \E d \in Conns : ~IsIdle(d) /\ d.timer = t
    BY <1>1, <2>2 DEF NetInv, NoTimerLeak, Conns
  <2>3. \A t \in Live(tm') : \/ t \in DOMAIN mapPending'
                             \/ \E d \in Conns' : ~IsIdle(d) /\ d.timer = t
    BY <1>5, <1>8, <2>1, <2>2
  <2> QED BY <2>3 DEF NoTimerLeak, Conns, IsIdle
<1> QED
  BY <1>5, <1>8, <1>9, <1>10, <1>11, <1>12, <1>14, <1>15, <1>16 DEF NetInv, new

\* A connection whose record changes keeps its socket.
LEMMA OpenAsBefore ==
    ASSUME ConnsOpen, NEW b \in Conns, NEW c, c.sock = b.sock,
           Conns' = (Conns \ {b}) \cup {c}, UNCHANGED sock
    PROVE  ConnsOpen'
<1>1. \A d \in Conns' : d = c \/ (d \in Conns /\ d # b)
  OBVIOUS
<1>2. \A d \in Conns \ {b} : d.sock # c.sock
  BY DEF ConnsOpen
<1>3. \A d \in Conns' : sock[d.sock] = "open"
  BY <1>1 DEF ConnsOpen
<1>4. \A d, e \in Conns' : d.sock = e.sock => d = e
  BY <1>1, <1>2 DEF ConnsOpen
<1> QED BY <1>3, <1>4 DEF ConnsOpen

\* A transfer goes on.
LEMMA NetProceeds ==
    ASSUME NetInv, NEW i \in DOMAIN mapGetClient, ~IsIdle(mapGetClient[i]),
           NEW stage \in Stages \ {"idle"}, NEW c, c = [mapGetClient[i] EXCEPT !.stage = stage],
           mapGetClient' = [mapGetClient EXCEPT ![i].stage = stage],
           UNCHANGED <<tm, sock, remote, connTimer, mapPending>>
    PROVE  /\ NetInv' /\ Conns' = (Conns \ {mapGetClient[i]}) \cup {c}
           /\ mapGetClient[i] \in Conns /\ c.req = mapGetClient[i].req /\ ~IsIdle(c)
<1> DEFINE b == mapGetClient[i]
<1>1. /\ i \in 1..Len(mapGetClient) /\ b \in Conn /\ b \in Conns
      /\ mapGetClient \in Seq(Conn) /\ Distinct(mapGetClient)
  BY DEF NetInv, NetTypes, Conns, ToSet
<1>2. /\ c \in Conn /\ c.sock = b.sock /\ c.timer = b.timer /\ c.req = b.req /\ ~IsIdle(c)
  BY <1>1 DEF Conn, IsIdle
<1>3. mapGetClient' = [mapGetClient EXCEPT ![i] = c]
  OBVIOUS
<1>4. c \notin Conns \ {b}
  BY <1>1, <1>2 DEF NetInv, ConnsOpen
<1>5. /\ mapGetClient' \in Seq(Conn) /\ Distinct(mapGetClient')
      /\ Conns' = (Conns \ {mapGetClient[i]}) \cup {c}
  BY <1>1, <1>2, <1>3, <1>4, ConnReplaced
<1>6. Conns' = (Conns \ {b}) \cup {c}
  BY <1>5
<1> HIDE DEF b
<1>7. NetTypes' /\ Distinct(mapGetClient)'
  BY <1>5 DEF NetInv, NetTypes
<1>8. IdsGiven'
  BY <1>1, <1>2, <1>6 DEF NetInv, IdsGiven
<1>9. ConnsOpen'
  BY <1>1, <1>2, <1>6, OpenAsBefore DEF NetInv
<1>10. PendingIsTimed' /\ ConnTimed' /\ ConnectWatched'
  BY DEF NetInv, PendingIsTimed, ConnTimed, ConnectWatched, Live
<1>11. NoTimerLeak'
  <2>1. \A t \in Live(tm) : \/ t \in DOMAIN mapPending
                            \/ \E d \in Conns' : ~IsIdle(d) /\ d.timer = t
    BY <1>2, <1>6 DEF NetInv, NoTimerLeak, Conns
  <2> QED BY <2>1 DEF NoTimerLeak, Conns, Live, IsIdle
<1> QED BY <1>1, <1>2, <1>6, <1>7, <1>8, <1>9, <1>10, <1>11 DEF NetInv, b

\* A connection cancels a timer by the id it kept.  Who owned it is noted, so that what
\* is being set up stays watched.
LEMMA OpenCancels ==
    ASSUME NetInv, NEW s \in Req, sock[s] = "open", NEW id, tm' = CancelTimer(tm, id, s),
           \A p \in Req : sock'[p] = "connecting" <=> sock[p] = "connecting",
           UNCHANGED <<connTimer, mapPending>>
    PROVE  /\ PendingIsTimed' /\ ConnTimed' /\ ConnectWatched'
           /\ TimersOK(tm') /\ tm'.nTimerId = tm.nTimerId /\ Live(tm') = Live(tm) \ {id}
<1>1. /\ TimersOK(tm')
      /\ tm'.nTimerId = tm.nTimerId
      /\ Live(tm') = Live(tm) \ {id}
      /\ \A t \in Live(tm') : tm'.byId[t] = tm.byId[t]
      /\ id \in Live(tm) => tm'.robbed = tm.robbed \cup ({tm.byId[id].sock} \ {s})
      /\ id \notin Live(tm) => tm'.robbed = tm.robbed
  <2>1. TimersOK(tm)
    BY DEF NetInv, NetTypes
  <2> QED BY <2>1, CancelTimerIs
<1>2. /\ tm.robbed \subseteq tm'.robbed
      /\ id \in Live(tm) => tm.byId[id].sock \in {s} \cup tm'.robbed
  BY <1>1
<1>3. PendingIsTimed'
  <2>1. ASSUME NEW t \in DOMAIN mapPending
        PROVE  /\ sock'[mapPending[t]] = "connecting" /\ connTimer[mapPending[t]] = t
               /\ \/ t \in Live(tm') /\ tm'.byId[t] = [nonce |-> 0, sock |-> mapPending[t]]
                  \/ mapPending[t] \in tm'.robbed
    <3> DEFINE p == mapPending[t]
    <3>1. /\ p \in Req /\ sock[p] = "connecting" /\ connTimer[p] = t
          /\ (t \in Live(tm) /\ tm.byId[t] = [nonce |-> 0, sock |-> p]) \/ p \in tm.robbed
      BY <2>1 DEF NetInv, NetTypes, PendingIsTimed
    <3>2. p # s
      BY <3>1
    <3> HIDE DEF p
    <3>3. CASE t = id
      BY <1>1, <1>2, <3>1, <3>2, <3>3 DEF p
    <3>4. CASE t # id
      BY <1>1, <1>2, <3>1, <3>4 DEF p
    <3> QED BY <3>3, <3>4
  <2> QED BY <2>1 DEF PendingIsTimed
<1>4. ASSUME NEW p \in Req, sock'[p] = "connecting"
      PROVE  /\ p # s /\ sock[p] = "connecting"
             /\ \/ p \in tm'.robbed
                \/ /\ connTimer[p] \in Live(tm')
                   /\ tm'.byId[connTimer[p]] = [nonce |-> 0, sock |-> p]
  <2>1. p # s /\ sock[p] = "connecting"
    BY <1>4
  <2>2. \/ p \in tm.robbed
        \/ connTimer[p] \in Live(tm) /\ tm.byId[connTimer[p]] = [nonce |-> 0, sock |-> p]
    BY <2>1 DEF NetInv, ConnTimed
  <2> QED BY <1>1, <1>2, <2>1, <2>2
<1>5. ConnTimed'
  BY <1>4 DEF ConnTimed
<1>6. ConnectWatched'
  <2>1. ASSUME NEW p \in Req, sock'[p] = "connecting", p \notin tm'.robbed
        PROVE  /\ connTimer[p] \in DOMAIN mapPending
               /\ mapPending[connTimer[p]] \in {p} \cup tm'.robbed
    <3>1. sock[p] = "connecting" /\ p \notin tm.robbed
      BY <1>2, <1>4, <2>1
    <3> QED BY <1>2, <3>1 DEF NetInv, ConnectWatched
  <2> QED BY <2>1 DEF ConnectWatched
<1> QED BY <1>1, <1>3, <1>5, <1>6

\* A response is complete and the connection kept alive.
LEMMA NetCompletes ==
    ASSUME NetInv, NEW i \in DOMAIN mapGetClient, NEW b, b = mapGetClient[i],
           NEW c, c = [b EXCEPT !.stage = "idle"],
           tm' = CancelTimer(tm, b.timer, b.sock),
           mapGetClient' = [mapGetClient EXCEPT ![i].stage = "idle"],
           UNCHANGED <<sock, remote, connTimer, mapPending>>
    PROVE  /\ NetInv' /\ tm'.nTimerId = tm.nTimerId
           /\ Conns' = (Conns \ {b}) \cup {c} /\ b \in Conns /\ b \in Conn
<1>1. /\ i \in 1..Len(mapGetClient) /\ b \in Conn /\ b \in Conns
      /\ mapGetClient \in Seq(Conn) /\ Distinct(mapGetClient)
  BY DEF NetInv, NetTypes, Conns, ToSet
<1>2. /\ c \in Conn /\ c.sock = b.sock /\ c.timer = b.timer
  BY <1>1 DEF Conn, Stages
<1>3. mapGetClient' = [mapGetClient EXCEPT ![i] = c]
  OBVIOUS
<1>4. c \notin Conns \ {b}
  BY <1>1, <1>2 DEF NetInv, ConnsOpen
<1>5. /\ mapGetClient' \in Seq(Conn) /\ Distinct(mapGetClient')
      /\ Conns' = (Conns \ {b}) \cup {c}
  BY <1>1, <1>2, <1>3, <1>4, ConnReplaced
<1>6. b.sock \in Req /\ sock[b.sock] = "open"
  BY <1>1 DEF NetInv, ConnsOpen, Conn
<1>7. /\ PendingIsTimed' /\ ConnTimed' /\ ConnectWatched'
      /\ TimersOK(tm') /\ tm'.nTimerId = tm.nTimerId /\ Live(tm') = Live(tm) \ {b.timer}
  BY <1>6, OpenCancels
<1>8. NetTypes' /\ Distinct(mapGetClient)'
  BY <1>5, <1>7 DEF NetInv, NetTypes
<1>9. IdsGiven'
  BY <1>1, <1>2, <1>5, <1>7 DEF NetInv, IdsGiven
<1>10. ConnsOpen'
  BY <1>1, <1>2, <1>5, OpenAsBefore DEF NetInv
<1>11. NoTimerLeak'
  <2>1. \A t \in Live(tm') : \/ t \in DOMAIN mapPending
                             \/ \E d \in Conns' : ~IsIdle(d) /\ d.timer = t
    BY <1>5, <1>7 DEF NetInv, NoTimerLeak, Conns
  <2> QED BY <2>1 DEF NoTimerLeak, Conns, Live, IsIdle
<1> QED BY <1>1, <1>5, <1>7, <1>8, <1>9, <1>10, <1>11 DEF NetInv

\* A connection is closed and its timer cancelled.
LEMMA NetCloses ==
    ASSUME NetInv, NEW i \in DOMAIN mapGetClient, NEW b, b = mapGetClient[i],
           NEW closed \in {"closed", "closing"},
           tm' = CancelTimer(tm, b.timer, b.sock),
           mapGetClient' = RemoveAt(mapGetClient, i),
           sock' = [sock EXCEPT ![b.sock] = closed],
           UNCHANGED <<remote, connTimer, mapPending>>
    PROVE  /\ NetInv' /\ tm'.nTimerId = tm.nTimerId
           /\ Conns' = Conns \ {b} /\ b \in Conns /\ b \in Conn /\ sock[b.sock] = "open"
<1>1. mapGetClient \in Seq(Conn) /\ Distinct(mapGetClient)
  BY DEF NetInv, NetTypes
<1>2. /\ mapGetClient' \in Seq(Conn) /\ Distinct(mapGetClient')
      /\ Conns' = Conns \ {b} /\ b \in Conns /\ b \in Conn
  BY <1>1, ConnRemoved
<1>3. b.sock \in Req /\ sock[b.sock] = "open"
  BY <1>2 DEF NetInv, ConnsOpen, Conn
<1>4. /\ \A p \in Req : p # b.sock => sock'[p] = sock[p]
      /\ sock'[b.sock] = closed
      /\ sock' \in [Req -> SockStates]
  BY <1>3 DEF NetInv, NetTypes, SockStates
<1>5. /\ PendingIsTimed' /\ ConnTimed' /\ ConnectWatched'
      /\ TimersOK(tm') /\ tm'.nTimerId = tm.nTimerId /\ Live(tm') = Live(tm) \ {b.timer}
  <2>1. \A p \in Req : sock'[p] = "connecting" <=> sock[p] = "connecting"
    BY <1>3, <1>4
  <2> QED BY <1>3, <2>1, OpenCancels
<1>6. NetTypes' /\ Distinct(mapGetClient)'
  BY <1>2, <1>4, <1>5 DEF NetInv, NetTypes
<1>7. IdsGiven'
  BY <1>2, <1>5 DEF NetInv, IdsGiven
<1>8. ConnsOpen'
  <2>1. \A d \in Conns : d.sock \in Req
    BY <1>1, ConnsTyped DEF Conn
  <2>2. \A d \in Conns \ {b} : d.sock # b.sock
    BY <1>2 DEF NetInv, ConnsOpen
  <2> QED BY <1>2, <1>4, <2>1, <2>2 DEF NetInv, ConnsOpen
<1>9. NoTimerLeak'
  <2>1. \A t \in Live(tm') : \/ t \in DOMAIN mapPending
                             \/ \E d \in Conns' : ~IsIdle(d) /\ d.timer = t
    BY <1>2, <1>5 DEF NetInv, NoTimerLeak, Conns
  <2> QED BY <2>1 DEF NoTimerLeak, Conns, Live, IsIdle
<1> QED BY <1>2, <1>3, <1>5, <1>6, <1>7, <1>8, <1>9 DEF NetInv

\* A closed socket is released.
LEMMA NetReleases ==
    ASSUME NetInv, NEW s \in Req, sock[s] = "closing", sock' = [sock EXCEPT ![s] = "closed"],
           UNCHANGED <<tm, remote, connTimer, mapPending, mapGetClient>>
    PROVE  NetInv'
<1>1. /\ \A p \in Req : p # s => sock'[p] = sock[p]
      /\ sock'[s] = "closed"
      /\ sock' \in [Req -> SockStates]
      /\ Conns' = Conns /\ \A c \in Conns : c.sock \in Req
  BY ConnsTyped DEF NetInv, NetTypes, SockStates, Conns, Conn
<1>2. NetTypes' /\ IdsGiven' /\ Distinct(mapGetClient)'
  BY <1>1 DEF NetInv, NetTypes, IdsGiven
<1>3. ConnsOpen'
  BY <1>1 DEF NetInv, ConnsOpen
<1>4. PendingIsTimed'
  BY <1>1 DEF NetInv, NetTypes, PendingIsTimed, Live
<1>5. ConnTimed' /\ ConnectWatched'
  BY <1>1 DEF NetInv, ConnTimed, ConnectWatched, Live
<1>6. NoTimerLeak'
  BY DEF NetInv, NoTimerLeak, Live, IsIdle
<1> QED BY <1>2, <1>3, <1>4, <1>5, <1>6 DEF NetInv

\* The timer of a connection being set up expires: the connection is gone, its handler is
\* still to run.
LEMMA NetConnectTimesOut ==
    ASSUME NetInv, NEW t \in DOMAIN mapPending, t \in Live(tm),
           NEW s, s = mapPending[t],
           tm' = CancelTimer(tm, t, s), sock' = [sock EXCEPT ![s] = "orphan"],
           Unpend(t), UNCHANGED <<remote, connTimer, mapGetClient>>
    PROVE  NetInv' /\ tm'.nTimerId = tm.nTimerId /\ s \in Req /\ sock[s] = "connecting"
<1>1. /\ DOMAIN mapPending' = DOMAIN mapPending \ {t}
      /\ \A u \in DOMAIN mapPending' : mapPending'[u] = mapPending[u]
      /\ Conns' = Conns
  BY DEF Unpend, Restrict, Conns
<1>2. /\ TimersOK(tm')
      /\ tm'.nTimerId = tm.nTimerId
      /\ Live(tm') = Live(tm) \ {t}
      /\ \A u \in Live(tm') : tm'.byId[u] = tm.byId[u]
      /\ tm'.robbed = tm.robbed \cup ({tm.byId[t].sock} \ {s})
  <2>1. TimersOK(tm)
    BY DEF NetInv, NetTypes
  <2> QED BY <2>1, CancelTimerIs
<1>3. s \in Req /\ sock[s] = "connecting" /\ connTimer[s] = t
  BY DEF NetInv, NetTypes, PendingIsTimed
<1>4. /\ \A p \in Req : p # s => sock'[p] = sock[p]
      /\ sock'[s] = "orphan"
      /\ sock' \in [Req -> SockStates]
  BY <1>3 DEF NetInv, NetTypes, SockStates
<1>5. NetTypes' /\ IdsGiven' /\ Distinct(mapGetClient)'
  BY <1>1, <1>2, <1>4 DEF NetInv, NetTypes, IdsGiven
<1>6. ConnsOpen'
  <2>1. \A d \in Conns : d.sock \in Req
    BY ConnsTyped DEF NetInv, NetTypes, Conn
  <2> QED BY <1>1, <1>3, <1>4, <2>1 DEF NetInv, ConnsOpen
<1>7. PendingIsTimed'
  <2>1. ASSUME NEW u \in DOMAIN mapPending'
        PROVE  /\ sock'[mapPending'[u]] = "connecting" /\ connTimer'[mapPending'[u]] = u
               /\ \/ u \in Live(tm') /\ tm'.byId[u] = [nonce |-> 0, sock |-> mapPending'[u]]
                  \/ mapPending'[u] \in tm'.robbed
    <3> DEFINE p == mapPending[u]
    <3>1. /\ p \in Req /\ sock[p] = "connecting" /\ connTimer[p] = u
          /\ (u \in Live(tm) /\ tm.byId[u] = [nonce |-> 0, sock |-> p]) \/ p \in tm.robbed
          /\ mapPending'[u] = p /\ u # t
      BY <1>1, <2>1 DEF NetInv, NetTypes, PendingIsTimed
    <3>2. p # s
      BY <1>3, <3>1
    <3> HIDE DEF p
    <3> QED BY <1>2, <1>4, <3>1, <3>2
  <2> QED BY <2>1 DEF PendingIsTimed
<1>8. ASSUME NEW p \in Req, sock'[p] = "connecting"
      PROVE  /\ sock[p] = "connecting"
             /\ \/ p \in tm'.robbed
                \/ /\ connTimer[p] \in Live(tm')
                   /\ tm.byId[connTimer[p]] = [nonce |-> 0, sock |-> p]
  <2>1. p # s /\ sock[p] = "connecting"
    BY <1>4, <1>8
  <2>2. \/ p \in tm.robbed
        \/ connTimer[p] \in Live(tm) /\ tm.byId[connTimer[p]] = [nonce |-> 0, sock |-> p]
    BY <2>1 DEF NetInv, ConnTimed
  <2> QED BY <1>2, <2>1, <2>2
<1>9. ConnTimed'
  BY <1>2, <1>8 DEF ConnTimed
<1>10. ConnectWatched'
  <2>1. ASSUME NEW p \in Req, sock'[p] = "connecting", p \notin tm'.robbed
        PROVE  /\ connTimer[p] \in DOMAIN mapPending'
               /\ mapPending'[connTimer[p]] \in {p} \cup tm'.robbed
    <3>1. sock[p] = "connecting" /\ p \notin tm.robbed /\ connTimer[p] # t
      BY <1>2, <1>8, <2>1
    <3>2. connTimer[p] \in DOMAIN mapPending /\ mapPending[connTimer[p]] \in {p} \cup tm.robbed
      BY <3>1 DEF NetInv, ConnectWatched
    <3> QED BY <1>1, <1>2, <3>1, <3>2
  <2> QED BY <2>1 DEF ConnectWatched
<1>11. NoTimerLeak'
  BY <1>1, <1>2 DEF NetInv, NoTimerLeak, Conns, IsIdle
<1> QED BY <1>2, <1>3, <1>5, <1>6, <1>7, <1>9, <1>10, <1>11 DEF NetInv

\* A timer expires and finds nothing: a connect timer that is not pending, or the timer of
\* a response.
LEMMA NetTimerDropped ==
    ASSUME NetInv, NEW t \in Live(tm), t \notin DOMAIN mapPending \/ tm.byId[t].nonce # 0,
           tm' = CancelTimer(tm, t, tm.byId[t].sock),
           Unpend(t) \/ UNCHANGED mapPending,
           t \in DOMAIN mapPending => UNCHANGED mapPending,
           UNCHANGED <<sock, remote, connTimer, mapGetClient>>
    PROVE  NetInv' /\ tm'.nTimerId = tm.nTimerId
<1>1. /\ TimersOK(tm')
      /\ tm'.nTimerId = tm.nTimerId
      /\ Live(tm') = Live(tm) \ {t}
      /\ \A u \in Live(tm') : tm'.byId[u] = tm.byId[u]
      /\ tm'.robbed = tm.robbed
  <2>1. TimersOK(tm)
    BY DEF NetInv, NetTypes
  <2>2. tm'.robbed = tm.robbed \cup ({tm.byId[t].sock} \ {tm.byId[t].sock})
    BY <2>1, CancelTimerIs
  <2> QED BY <2>1, <2>2, CancelTimerIs
<1>2. /\ Conns' = Conns
      /\ DOMAIN mapPending' = DOMAIN mapPending
      /\ \A u \in DOMAIN mapPending : mapPending'[u] = mapPending[u]
  BY DEF Conns, Unpend, Restrict
<1>3. NetTypes' /\ IdsGiven' /\ Distinct(mapGetClient)' /\ ConnsOpen'
  BY <1>1, <1>2 DEF NetInv, NetTypes, IdsGiven, ConnsOpen
<1>4. PendingIsTimed'
  <2>1. ASSUME NEW u \in DOMAIN mapPending
        PROVE  \/ u \in Live(tm') /\ tm'.byId[u] = [nonce |-> 0, sock |-> mapPending[u]]
               \/ mapPending[u] \in tm.robbed
    BY <1>1 DEF NetInv, PendingIsTimed
  <2> QED BY <1>1, <1>2, <2>1 DEF NetInv, PendingIsTimed
<1>5. ConnTimed'
  <2>1. ASSUME NEW p \in Req, sock[p] = "connecting", p \notin tm.robbed
        PROVE  connTimer[p] \in Live(tm') /\ tm'.byId[connTimer[p]] = [nonce |-> 0, sock |-> p]
    <3>1. connTimer[p] \in Live(tm) /\ tm.byId[connTimer[p]] = [nonce |-> 0, sock |-> p]
      BY <2>1 DEF NetInv, ConnTimed
    <3>2. connTimer[p] \in DOMAIN mapPending
      BY <2>1 DEF NetInv, ConnectWatched
    <3>3. tm.byId[connTimer[p]].nonce = 0
      BY <3>1
    <3> QED BY <1>1, <3>1, <3>2, <3>3
  <2> QED BY <1>1, <2>1 DEF ConnTimed
<1>6. ConnectWatched'
  BY <1>1, <1>2 DEF NetInv, ConnectWatched
<1>7. NoTimerLeak'
  BY <1>1, <1>2 DEF NetInv, NoTimerLeak, Conns, IsIdle
<1> QED BY <1>1, <1>3, <1>4, <1>5, <1>6, <1>7 DEF NetInv

\* A connection that is kept alive is used again.
LEMMA NetReuses ==
    ASSUME NetInv, NEW i \in DOMAIN mapGetClient, IsIdle(mapGetClient[i]), NEW r \in Req,
           tm' = SetTimer(tm, NonceOf[r], mapGetClient[i].sock),
           mapGetClient' = [mapGetClient EXCEPT ![i] = Active(mapGetClient[i].sock, r, tm')],
           UNCHANGED <<sock, remote, connTimer, mapPending>>
    PROVE  /\ NetInv' /\ tm'.nTimerId <= tm.nTimerId + 1
           /\ Conns' = (Conns \ {mapGetClient[i]}) \cup {Active(mapGetClient[i].sock, r, tm')}
           /\ mapGetClient[i] \in Conns
<1> DEFINE new == tm'.nTimerId
           nonce == NonceOf[r]
           b == mapGetClient[i]
           c == Active(b.sock, r, tm')
<1>0. /\ nonce \in Nat /\ IsIdle(b) /\ tm' = SetTimer(tm, nonce, b.sock)
      /\ c = [sock |-> b.sock, nonce |-> nonce, timer |-> tm'.nTimerId, req |-> r,
              stage |-> "write"]
      /\ b = mapGetClient[i] /\ mapGetClient' = [mapGetClient EXCEPT ![i] = c]
  BY HttpGetAssumption DEF Active
<1>1. /\ i \in 1..Len(mapGetClient) /\ b \in Conn /\ b \in Conns
      /\ mapGetClient \in Seq(Conn) /\ Distinct(mapGetClient)
  BY DEF NetInv, NetTypes, Conns, ToSet
<1> HIDE DEF b, c, nonce
<1>2. b.sock \in Req /\ sock[b.sock] = "open"
  BY <1>1 DEF NetInv, ConnsOpen, Conn
<1>3. /\ TimersOK(tm')
      /\ new \in Nat \ {0} /\ new \notin Live(tm)
      /\ tm.nTimerId <= new /\ new <= tm.nTimerId + 1
      /\ Live(tm') = Live(tm) \cup {new}
      /\ tm'.byId[new] = [nonce |-> nonce, sock |-> b.sock]
      /\ \A t \in Live(tm) : tm'.byId[t] = tm.byId[t]
      /\ tm'.robbed = tm.robbed \ {b.sock}
  <2>1. TimersOK(tm)
    BY DEF NetInv, NetTypes
  <2> QED BY <1>0, <1>2, <2>1, SetTimerIs
<1>4. /\ c \in Conn /\ c.sock = b.sock /\ c.timer = new /\ ~IsIdle(c)
  BY <1>0, <1>2, <1>3 DEF Conn, Stages, IsIdle
<1> HIDE DEF new
<1>5. c \notin Conns \ {b}
  BY <1>1, <1>4 DEF NetInv, ConnsOpen
<1>6. /\ mapGetClient' \in Seq(Conn) /\ Distinct(mapGetClient')
      /\ Conns' = (Conns \ {b}) \cup {c}
  BY <1>0, <1>1, <1>4, <1>5, ConnReplaced
<1>7. NetTypes' /\ Distinct(mapGetClient)'
  BY <1>3, <1>6 DEF NetInv, NetTypes
<1>8. IdsGiven'
  <2>1. tm'.nTimerId = new /\ tm.nTimerId \in Nat
    BY DEF new, NetInv, NetTypes, TimersOK
  <2> QED BY <1>3, <1>4, <1>6, <2>1 DEF NetInv, NetTypes, IdsGiven
<1>9. ConnsOpen'
  BY <1>1, <1>4, <1>6, OpenAsBefore DEF NetInv
<1>10. \A p \in Req : sock[p] = "connecting" => p # b.sock
  BY <1>2
<1>11. PendingIsTimed'
  BY <1>3, <1>10, SMTT(30) DEF NetInv, NetTypes, PendingIsTimed
<1>12. ConnTimed'
  BY <1>3, <1>10 DEF NetInv, ConnTimed
<1>13. ConnectWatched'
  BY <1>3, <1>10, ZenonT(60) DEF NetInv, NetTypes, ConnectWatched, PendingIsTimed
<1>14. NoTimerLeak'
  <2>1. \A t \in Live(tm') : \/ t \in DOMAIN mapPending
                             \/ \E d \in Conns' : ~IsIdle(d) /\ d.timer = t
    BY <1>0, <1>3, <1>4, <1>6 DEF NetInv, NoTimerLeak, Conns
  <2> QED BY <2>1 DEF NoTimerLeak, Conns, Live, IsIdle
<1> QED
  BY <1>1, <1>3, <1>6, <1>7, <1>8, <1>9, <1>11, <1>12, <1>13, <1>14 DEF NetInv, new, b, c

\* The loop is left: nothing is connected, pending or timed any more.
LEMMA NetLeaves ==
    ASSUME NetInv, tm' = [tm EXCEPT !.byId = <<>>], mapPending' = <<>>, mapGetClient' = <<>>,
           sock' = [s \in Req |-> IF s \in InUse THEN "closed" ELSE sock[s]],
           UNCHANGED <<remote, connTimer>>
    PROVE  NetInv' /\ Conns' = {} /\ tm'.nTimerId = tm.nTimerId
<1>1. Conns' = {} /\ Distinct(mapGetClient)'
  BY DEF Conns, ToSet, Distinct
<1>2. TimersOK(tm') /\ tm'.nTimerId = tm.nTimerId /\ Live(tm') = {}
  <2>1. TimersOK(tm)
    BY DEF NetInv, NetTypes
  <2>2. tm' = [nTimerId |-> tm.nTimerId, byId |-> <<>>, robbed |-> tm.robbed]
    BY <2>1 DEF TimersOK
  <2>3. tm'.nTimerId = tm.nTimerId /\ tm'.robbed = tm.robbed /\ tm'.byId = <<>>
    BY <2>2
  <2>4. tm' = [nTimerId |-> tm'.nTimerId, byId |-> tm'.byId, robbed |-> tm'.robbed]
    BY <2>2, <2>3
  <2>5. Live(tm') = {}
    BY <2>3 DEF Live
  <2> QED BY <2>1, <2>3, <2>4, <2>5 DEF TimersOK
<1>3. /\ sock' \in [Req -> SockStates]
      /\ \A p \in Req : sock'[p] # "connecting"
  BY DEF NetInv, NetTypes, SockStates, InUse
<1>4. NetTypes' /\ IdsGiven'
  BY <1>1, <1>2, <1>3 DEF NetInv, NetTypes, IdsGiven
<1>5. ConnsOpen' /\ PendingIsTimed' /\ ConnTimed' /\ ConnectWatched' /\ NoTimerLeak'
  BY <1>1, <1>2, <1>3 DEF ConnsOpen, PendingIsTimed, ConnTimed, ConnectWatched, NoTimerLeak
<1> QED BY <1>1, <1>2, <1>4, <1>5 DEF NetInv
-----------------------------------------------------------------------------
(* The requests' part of the invariant, and the service.                   *)

ServiceStep == [Service!Next]_<<accepted, answers>>

\* Some requests are new, some of those owed an answer get it.
LEMMA OwedStep ==
    ASSUME RequestTypes, OwedOnce, NEW N \in SUBSET (Req \ accepted), NEW A \in SUBSET (Owed \cup N),
           accepted' = accepted \cup N, Post(A), Owed' = (Owed \cup N) \ A
    PROVE  /\ answers' \in [Req -> Nat] /\ accepted' \subseteq Req
           /\ Owed' \subseteq accepted'
           /\ \A r \in Req : answers'[r] = 0 <=> r \notin accepted' \/ r \in Owed'
<1>1. /\ answers \in [Req -> Nat] /\ accepted \subseteq Req /\ Owed \subseteq accepted
      /\ \A r \in Req : answers[r] = 0 <=> r \notin accepted \/ r \in Owed
  BY DEF RequestTypes, OwedOnce
<1>2. answers' \in [Req -> Nat] /\ \A r \in Req : answers'[r] = answers[r] + (IF r \in A THEN 1 ELSE 0)
  BY <1>1 DEF Post
<1> HIDE DEF Owed
<1>3. \A r \in Req : answers'[r] = 0 <=> answers[r] = 0 /\ r \notin A
  BY <1>1, <1>2
<1> QED BY <1>1, <1>2, <1>3

\* To answer what is owed is a step of the service; so is to accept one request.
LEMMA Responds ==
    ASSUME RequestTypes, OwedOnce, NEW A \in SUBSET Owed, Post(A), UNCHANGED accepted
    PROVE  ServiceStep
<1>1. /\ answers \in [Req -> Nat]
      /\ A \subseteq Service!Unanswered
  BY DEF RequestTypes, OwedOnce, Service!Unanswered
<1>2. answers' = [r \in Req |-> IF r \in A THEN answers[r] + 1 ELSE answers[r]]
  BY <1>1 DEF Post
<1>3. CASE A = {}
  <2>1. answers' = answers
    BY <1>1, <1>2, <1>3
  <2> QED BY <2>1 DEF ServiceStep
<1>4. CASE A # {}
  <2>1. Service!Respond
    BY <1>1, <1>2, <1>4 DEF Service!Respond, Service!Post
  <2> QED BY <2>1 DEF ServiceStep, Service!Next
<1> QED BY <1>3, <1>4

\* Accepting one request, and perhaps answering it at once, is a step of the service.
LEMMA Accepts ==
    ASSUME RequestTypes, NEW r \in Req \ accepted, NEW A \in SUBSET {r}, Post(A),
           accepted' = accepted \cup {r}
    PROVE  ServiceStep
<1>1. answers \in [Req -> Nat]
  BY DEF RequestTypes
<1>2. answers' = [q \in Req |-> IF q \in A THEN answers[q] + 1 ELSE answers[q]]
  BY <1>1 DEF Post
<1>3. Service!Accept(r)
  BY <1>2 DEF Service!Accept, Service!Post
<1> QED BY <1>3 DEF ServiceStep, Service!Next

\* A step that leaves the answers alone posts to nobody.
LEMMA PostNone == ASSUME RequestTypes, UNCHANGED answers PROVE Post({})
<1>1. answers \in [Req -> Nat]
  BY DEF RequestTypes
<1> QED BY <1>1 DEF Post

\* What the two lists hold, of the requests.
Carried(c) == IF IsIdle(c) THEN {} ELSE {c.req}

CarriedOnce == \A c, d \in Conns : ~IsIdle(c) /\ ~IsIdle(d) /\ c.req = d.req => c = d
WaitOnce == \A e, f \in Entries : e.req = f.req => e = f

\* A connection carries a new request.
LEMMA BusyAdds ==
    ASSUME CarriedOnce, NEW B \in SUBSET Conns, \A b \in B : IsIdle(b), NEW c, ~IsIdle(c),
           c.req \notin Busy, Conns' = (Conns \ B) \cup {c}
    PROVE  Busy' = Busy \cup {c.req} /\ CarriedOnce'
<1>1. \A d \in Conns : ~IsIdle(d) => d.req \in Busy
  BY DEF Busy, Conns
<1>2. \A r : r \in Busy <=> \E d \in Conns : ~IsIdle(d) /\ r = d.req
  BY DEF Busy, Conns
<1>3. \A r : r \in Busy' <=> \E d \in Conns' : ~IsIdle(d) /\ r = d.req
  BY DEF Busy, Conns, IsIdle
<1>4. \A d : d \in Conns' <=> (d \in Conns /\ d \notin B) \/ d = c
  OBVIOUS
<1> HIDE DEF Conns, Busy
<1>5. \A r : r \in Busy' <=> r \in Busy \/ r = c.req
  BY <1>2, <1>3, <1>4
<1>6. CarriedOnce'
  BY <1>1, <1>4 DEF CarriedOnce, IsIdle
<1> QED BY <1>5, <1>6

\* A connection goes on with its request.
LEMMA BusyStays ==
    ASSUME CarriedOnce, NEW b \in Conns, ~IsIdle(b), NEW c, ~IsIdle(c), c.req = b.req,
           Conns' = (Conns \ {b}) \cup {c}
    PROVE  Busy' = Busy /\ CarriedOnce'
<1>2. \A r : r \in Busy <=> \E d \in Conns : ~IsIdle(d) /\ r = d.req
  BY DEF Busy, Conns
<1>3. \A r : r \in Busy' <=> \E d \in Conns' : ~IsIdle(d) /\ r = d.req
  BY DEF Busy, Conns, IsIdle
<1>4. \A d : d \in Conns' <=> (d \in Conns /\ d # b) \/ d = c
  OBVIOUS
<1> HIDE DEF Conns, Busy
<1>5. \A r : r \in Busy' <=> r \in Busy
  BY <1>2, <1>3, <1>4
<1>6. CarriedOnce'
  BY <1>4 DEF CarriedOnce, IsIdle
<1> QED BY <1>5, <1>6

\* A connection ends its request: it is gone, or idle.
LEMMA BusyEnds ==
    ASSUME CarriedOnce, NEW b \in Conns, NEW C, \A c \in C : IsIdle(c),
           Conns' = (Conns \ {b}) \cup C
    PROVE  Busy' = Busy \ Carried(b) /\ CarriedOnce'
<1>2. \A r : r \in Busy <=> \E d \in Conns : ~IsIdle(d) /\ r = d.req
  BY DEF Busy, Conns
<1>3. \A r : r \in Busy' <=> \E d \in Conns' : ~IsIdle(d) /\ r = d.req
  BY DEF Busy, Conns, IsIdle
<1>4. \A d : d \in Conns' <=> (d \in Conns /\ d # b) \/ d \in C
  OBVIOUS
<1> HIDE DEF Conns, Busy
<1>5. \A r : r \in Busy' <=> r \in Busy /\ r \notin Carried(b)
  <2>1. \A r : r \in Carried(b) <=> ~IsIdle(b) /\ r = b.req
    BY DEF Carried
  <2>2. \A r : r \in Busy' <=> \E d \in Conns : d # b /\ ~IsIdle(d) /\ r = d.req
    BY <1>3, <1>4
  <2> QED BY <1>2, <2>1, <2>2 DEF CarriedOnce
<1>6. CarriedOnce'
  BY <1>4 DEF CarriedOnce, IsIdle
<1> QED BY <1>5, <1>6

\* The clients are left alone.
LEMMA BusySame == ASSUME UNCHANGED mapGetClient PROVE Busy' = Busy /\ Conns' = Conns
  BY DEF Busy, Conns, IsIdle
-----------------------------------------------------------------------------
\* Lists of requests: one joins, one leaves, some leave, one moves to another host.
LEMMA WaitersAdd ==
    ASSUME mapRequest \in Seq(Entry), Distinct(mapRequest), WaitOnce, NEW e \in Entry,
           e.req \notin Waiters, mapRequest' = Append(mapRequest, e)
    PROVE  /\ mapRequest' \in Seq(Entry) /\ Distinct(mapRequest)' /\ WaitOnce'
           /\ Entries' = Entries \cup {e} /\ Waiters' = Waiters \cup {e.req}
<1>1. e \notin Entries
  BY DEF Waiters
<1>2. Append(mapRequest, e) \in Seq(Entry) /\ Distinct(Append(mapRequest, e))
      /\ ToSet(Append(mapRequest, e)) = ToSet(mapRequest) \cup {e}
  BY <1>1, AppendAdds DEF Entries
<1>3. Entries' = Entries \cup {e}
  BY <1>2 DEF Entries
<1> HIDE DEF Entries
<1>4. WaitOnce' /\ Waiters' = Waiters \cup {e.req}
  BY <1>3 DEF WaitOnce, Waiters
<1> QED BY <1>2, <1>3, <1>4

\* The request at a position leaves.
LEMMA WaitersRemove ==
    ASSUME mapRequest \in Seq(Entry), Distinct(mapRequest), WaitOnce,
           NEW i \in 1..Len(mapRequest), mapRequest' = RemoveAt(mapRequest, i)
    PROVE  /\ mapRequest' \in Seq(Entry) /\ Distinct(mapRequest)' /\ WaitOnce'
           /\ mapRequest[i] \in Entries /\ mapRequest[i] \in Entry
           /\ Entries' = Entries \ {mapRequest[i]} /\ Waiters' = Waiters \ {mapRequest[i].req}
<1>1. /\ mapRequest' \in Seq(Entry) /\ Distinct(mapRequest')
      /\ Entries' = Entries \ {mapRequest[i]}
      /\ mapRequest[i] \in Entries /\ mapRequest[i] \in Entry
  BY RemoveAtLeaves DEF Entries
<1>2. WaitOnce'
  BY <1>1 DEF WaitOnce
<1>3. Waiters' = Waiters \ {mapRequest[i].req}
  <2> DEFINE f == mapRequest[i]
  <2>1. f \in Entries /\ Entries' = Entries \ {f}
    BY <1>1
  <2> HIDE DEF f, Entries
  <2>2. Waiters' = Waiters \ {f.req}
    BY <2>1 DEF Waiters, WaitOnce
  <2> QED BY <2>2 DEF f
<1> QED BY <1>1, <1>2, <1>3

\* It moves to the end, to wait for another host: the address of its name.
LEMMA WaitersMove ==
    ASSUME mapRequest \in Seq(Entry), Distinct(mapRequest), WaitOnce,
           NEW i \in 1..Len(mapRequest), NEW h \in Host,
           mapRequest' = Append(RemoveAt(mapRequest, i), [host |-> h, req |-> mapRequest[i].req])
    PROVE  /\ mapRequest' \in Seq(Entry) /\ Distinct(mapRequest)' /\ WaitOnce'
           /\ mapRequest[i] \in Entries /\ mapRequest[i] \in Entry
           /\ Entries' = (Entries \ {mapRequest[i]}) \cup {[host |-> h, req |-> mapRequest[i].req]}
           /\ Waiters' = Waiters
<1> DEFINE f == mapRequest[i]
           e == [host |-> h, req |-> f.req]
           t == RemoveAt(mapRequest, i)
<1>1. /\ t \in Seq(Entry) /\ Distinct(t) /\ ToSet(t) = Entries \ {f}
      /\ f \in Entries /\ f \in Entry
  BY RemoveAtLeaves DEF Entries
<1>2. e \in Entry /\ e.req = f.req
  BY <1>1 DEF Entry
<1>3. mapRequest' = Append(t, e)
  OBVIOUS
<1> HIDE DEF t, e, f
<1>4. e \notin Entries \ {f}
  BY <1>1, <1>2 DEF WaitOnce
<1>5. Append(t, e) \in Seq(Entry) /\ Distinct(Append(t, e)) /\ ToSet(Append(t, e)) = ToSet(t) \cup {e}
  BY <1>1, <1>2, <1>4, AppendAdds
<1>6. Entries' = (Entries \ {f}) \cup {e}
  BY <1>1, <1>3, <1>5 DEF Entries
<1> HIDE DEF Entries
<1>7. WaitOnce' /\ Waiters' = Waiters
  BY <1>1, <1>2, <1>6 DEF WaitOnce, Waiters
<1> QED BY <1>1, <1>3, <1>5, <1>6, <1>7 DEF e, f

\* Those at some positions stay.
LEMMA WaitersKeep ==
    ASSUME mapRequest \in Seq(Entry), Distinct(mapRequest), WaitOnce,
           NEW I \in SUBSET DOMAIN mapRequest, mapRequest' = Keep(mapRequest, I)
    PROVE  /\ mapRequest' \in Seq(Entry) /\ Distinct(mapRequest)' /\ WaitOnce'
           /\ Entries' = {mapRequest[i] : i \in I} /\ Entries' \subseteq Entries
<1>1. /\ mapRequest' \in Seq(Entry) /\ Distinct(mapRequest')
      /\ Entries' = {mapRequest[i] : i \in I}
  BY KeepLeaves DEF Entries
<1>2. Entries' \subseteq Entries
  BY <1>1 DEF Entries, ToSet
<1> QED BY <1>1, <1>2 DEF WaitOnce

\* The waiting requests are left alone.
LEMMA WaitersSame ==
    ASSUME UNCHANGED mapRequest PROVE Entries' = Entries /\ Waiters' = Waiters
  BY DEF Entries, Waiters

\* The waiting requests have the type of waiting requests.
LEMMA EntriesTyped ==
    /\ mapRequest \in Seq(Entry) =>
          \A e \in Entries : e \in Entry /\ e.host \in Host /\ e.req \in Req
    /\ mapRequest' \in Seq(Entry) =>
          \A e \in Entries' : e \in Entry /\ e.host \in Host /\ e.req \in Req
<1>1. mapRequest \in Seq(Entry) => \A e \in Entries : e \in Entry
  BY DEF Entries, ToSet
<1>2. mapRequest' \in Seq(Entry) => \A e \in Entries' : e \in Entry
  BY DEF Entries, ToSet
<1> QED BY <1>1, <1>2 DEF Entry

\* The requests waiting for a host, by their entries.
LEMMA WaitingIs ==
    ASSUME NEW hosts
    PROVE  /\ Waiting(hosts) = {e.req : e \in {f \in Entries : f.host \in hosts}}
           /\ Waiting(hosts)' = {e.req : e \in {f \in Entries' : f.host \in hosts}}
<1>1. Waiting(hosts) = {e.req : e \in {f \in Entries : f.host \in hosts}}
  BY DEF Waiting, Entries, ToSet
<1>2. Waiting(hosts)' = {e.req : e \in {f \in Entries' : f.host \in hosts}}
  BY DEF Waiting, Entries, ToSet
<1> QED BY <1>1, <1>2

\* To wait for any host is to wait.
LEMMA WaitingAnywhere ==
    ASSUME mapRequest \in Seq(Entry) PROVE Waiting(Host) = Waiters
<1> QED BY EntriesTyped, WaitingIs DEF Waiters
-----------------------------------------------------------------------------
(* Nobody is stranded: one handler to come at least for each who waits.    *)

\* Four ways in which a step keeps it for one host: W waits and H is to come before the
\* step, V and G after it.  Nobody joins and no handler is lost; one leaves with one
\* handler; nobody waits any more; one joins with a handler.
LEMMA HandlersSuffice ==
    ASSUME NEW W \in SUBSET Req, NEW V \in SUBSET Req, NEW H \in SUBSET Req, NEW G \in SUBSET Req,
           Cardinality(W) <= Cardinality(H),
           \/ V \subseteq W /\ H \subseteq G
           \/ \E y \in W, x \in Req : V \subseteq W \ {y} /\ H \ {x} \subseteq G
           \/ V = {}
           \/ \E y \in Req, x \in Req \ H : V \subseteq W \cup {y} /\ H \cup {x} \subseteq G
    PROVE  Cardinality(V) <= Cardinality(G)
<1>1. IsFiniteSet(Req)
  BY HttpGetAssumption
<1>2. /\ IsFiniteSet(W) /\ IsFiniteSet(V) /\ IsFiniteSet(H) /\ IsFiniteSet(G)
  BY <1>1, FS_Subset
<1>3. /\ Cardinality(W) \in Nat /\ Cardinality(V) \in Nat
      /\ Cardinality(H) \in Nat /\ Cardinality(G) \in Nat
  BY <1>2, FS_CardinalityType
<1>4. CASE V \subseteq W /\ H \subseteq G
  <2>1. Cardinality(V) <= Cardinality(W) /\ Cardinality(H) <= Cardinality(G)
    BY <1>2, <1>4, FS_Subset
  <2> QED BY <1>3, <2>1
<1>5. ASSUME NEW y \in W, NEW x \in Req, V \subseteq W \ {y}, H \ {x} \subseteq G
      PROVE  Cardinality(V) <= Cardinality(G)
  <2>1. IsFiniteSet(W \ {y}) /\ Cardinality(W \ {y}) = Cardinality(W) - 1
    BY <1>2, FS_RemoveElement
  <2>2. IsFiniteSet(H \ {x}) /\ Cardinality(H \ {x}) \in Nat
        /\ Cardinality(H \ {x}) >= Cardinality(H) - 1
    <3>1. CASE x \in H
      <4>1. IsFiniteSet(H \ {x}) /\ Cardinality(H \ {x}) = Cardinality(H) - 1
        BY <1>2, <3>1, FS_RemoveElement
      <4> QED BY <1>3, <4>1, FS_CardinalityType
    <3>2. CASE x \notin H
      <4>1. H \ {x} = H
        BY <3>2
      <4> QED BY <1>2, <1>3, <4>1
    <3> QED BY <3>1, <3>2
  <2>3. Cardinality(V) <= Cardinality(W \ {y})
    BY <1>5, <2>1, FS_Subset
  <2>4. Cardinality(H \ {x}) <= Cardinality(G)
    BY <1>2, <1>5, FS_Subset
  <2> QED BY <1>3, <2>1, <2>2, <2>3, <2>4
<1>6. CASE V = {}
  BY <1>3, <1>6, FS_EmptySet
<1>7. ASSUME NEW y \in Req, NEW x \in Req \ H, V \subseteq W \cup {y}, H \cup {x} \subseteq G
      PROVE  Cardinality(V) <= Cardinality(G)
  <2>1. IsFiniteSet(H \cup {x}) /\ Cardinality(H \cup {x}) = Cardinality(H) + 1
    BY <1>2, FS_AddElement
  <2>2. /\ IsFiniteSet(W \cup {y}) /\ Cardinality(W \cup {y}) \in Nat
        /\ Cardinality(W \cup {y}) <= Cardinality(W) + 1
    <3>1. CASE y \in W
      <4>1. W \cup {y} = W
        BY <3>1
      <4>2. Cardinality(W) <= Cardinality(W) + 1
        BY <1>3
      <4> QED BY <1>2, <1>3, <4>1, <4>2
    <3>2. CASE y \notin W
      <4>1. IsFiniteSet(W \cup {y}) /\ Cardinality(W \cup {y}) = Cardinality(W) + 1
        BY <1>2, <3>2, FS_AddElement
      <4> QED BY <1>3, <4>1
    <3> QED BY <3>1, <3>2
  <2>3. Cardinality(V) <= Cardinality(W \cup {y})
    BY <1>7, <2>2, FS_Subset
  <2>4. Cardinality(H \cup {x}) <= Cardinality(G)
    BY <1>2, <1>7, FS_Subset
  <2> QED BY <1>3, <2>1, <2>2, <2>3, <2>4
<1> QED BY <1>4, <1>5, <1>6, <1>7

\* A host's handlers and waiters change in one of these ways.
HostKept(h) ==
    \/ Waiting({h})' \subseteq Waiting({h}) /\ Handlers(h) \subseteq Handlers(h)'
    \/ \E y \in Waiting({h}), x \in Req :
          Waiting({h})' \subseteq Waiting({h}) \ {y} /\ Handlers(h) \ {x} \subseteq Handlers(h)'
    \/ Waiting({h})' = {}
    \/ \E y \in Req, x \in Req \ Handlers(h) :
          Waiting({h})' \subseteq Waiting({h}) \cup {y} /\ Handlers(h) \cup {x} \subseteq Handlers(h)'

\* If that is what happens to each host, nobody is stranded.
LEMMA StrandedStep ==
    ASSUME RequestTypes, RequestTypes', loop = "running", NoRequestStranded,
           \A h \in Host : HostKept(h)
    PROVE  NoRequestStranded'
<1>1. ASSUME NEW h \in Host
      PROVE  Cardinality(Waiting({h})') <= Cardinality(Handlers(h)')
  <2>1. /\ Waiting({h}) \subseteq Req /\ Handlers(h) \subseteq Req
    <3>1. Waiting({h}) \subseteq Req
      BY EntriesTyped, WaitingIs, SMTT(30) DEF RequestTypes
    <3> QED BY <3>1 DEF RequestTypes, Handlers
  <2>2. Waiting({h})' \subseteq Req
    <3>1. Waiting({h})' = {e.req : e \in {f \in Entries' : f.host \in {h}}}
      BY WaitingIs
    <3>2. \A e \in Entries' : e.req \in Req
      BY EntriesTyped DEF RequestTypes
    <3> QED BY <3>1, <3>2
  <2>3. Handlers(h)' \subseteq Req
    BY DEF RequestTypes, Handlers
  <2>4. Cardinality(Waiting({h})) <= Cardinality(Handlers(h))
    BY DEF NoRequestStranded
  <2>5. HostKept(h)
    BY <1>1
  <2> DEFINE W == Waiting({h})
             V == Waiting({h})'
             H == Handlers(h)
             G == Handlers(h)'
  <2>6. \/ V \subseteq W /\ H \subseteq G
        \/ \E y \in W, x \in Req : V \subseteq W \ {y} /\ H \ {x} \subseteq G
        \/ V = {}
        \/ \E y \in Req, x \in Req \ H : V \subseteq W \cup {y} /\ H \cup {x} \subseteq G
    BY <2>5 DEF HostKept
  <2> HIDE DEF V, W, G, H
  <2>7. W \in SUBSET Req /\ V \in SUBSET Req /\ H \in SUBSET Req /\ G \in SUBSET Req
        /\ Cardinality(W) <= Cardinality(H)
    BY <2>1, <2>2, <2>3, <2>4 DEF V, W, G, H
  <2>8. Cardinality(V) <= Cardinality(G)
    BY <2>6, <2>7, HandlersSuffice
  <2> QED BY <2>8 DEF V, G
<1> QED BY <1>1 DEF NoRequestStranded

\* Nobody joins and every handler to come stays so.
LEMMA NobodyJoins ==
    ASSUME RequestTypes, RequestTypes', loop = "running", NoRequestStranded,
           UNCHANGED <<resolving, remote>>, Entries' \subseteq Entries,
           \A s \in Req : sock[s] \in {"connecting", "orphan", "reset"} =>
                          sock'[s] \in {"connecting", "orphan", "reset"}
    PROVE  NoRequestStranded'
<1>1. ASSUME NEW h \in Host
      PROVE  HostKept(h)
  <2>1. Waiting({h})' \subseteq Waiting({h})
    <3>1. Waiting({h})' = {e.req : e \in {f \in Entries' : f.host \in {h}}}
      BY WaitingIs
    <3> QED BY <3>1, WaitingIs
  <2>2. Handlers(h) \subseteq Handlers(h)'
    BY DEF Handlers
  <2> QED BY <2>1, <2>2 DEF HostKept
<1> QED BY <1>1, StrandedStep
-----------------------------------------------------------------------------
(* A timer id for each connection and each request that waits no more.     *)
LEMMA IdsStep ==
    ASSUME RequestTypes, RequestTypes', TimersOK(tm), TimersOK(tm'), IdsCounted,
           Connected \subseteq Connected', Settled \subseteq Settled',
           \/ tm'.nTimerId = tm.nTimerId
           \/ /\ tm'.nTimerId <= tm.nTimerId + 1
              /\ \E x \in Req : \/ x \in Connected' /\ x \notin Connected
                                \/ x \in Settled' /\ x \notin Settled
    PROVE  IdsCounted'
<1>1. IsFiniteSet(Req)
  BY HttpGetAssumption
<1>2. /\ Connected' \subseteq Req /\ Settled' \subseteq Req
      /\ IsFiniteSet(Connected') /\ IsFiniteSet(Settled')
      /\ IsFiniteSet(Connected) /\ IsFiniteSet(Settled)
  <2>1. Connected' \in SUBSET Req /\ Settled' \in SUBSET Req
    BY DEF Connected, Settled, RequestTypes
  <2> QED BY <1>1, <2>1, FS_Subset
<1>3. /\ Cardinality(Connected') \in Nat /\ Cardinality(Settled') \in Nat
      /\ Cardinality(Connected) \in Nat /\ Cardinality(Settled) \in Nat
  BY <1>2, FS_CardinalityType
<1>4. /\ Cardinality(Connected) <= Cardinality(Connected')
      /\ Cardinality(Settled) <= Cardinality(Settled')
      /\ Connected # Connected' => Cardinality(Connected) < Cardinality(Connected')
      /\ Settled # Settled' => Cardinality(Settled) < Cardinality(Settled')
  <2>1. /\ Cardinality(Connected) <= Cardinality(Connected')
        /\ Cardinality(Connected') = Cardinality(Connected) => Connected' = Connected
    BY <1>2, FS_Subset
  <2>2. /\ Cardinality(Settled) <= Cardinality(Settled')
        /\ Cardinality(Settled') = Cardinality(Settled) => Settled' = Settled
    BY <1>2, FS_Subset
  <2> QED BY <1>3, <2>1, <2>2
<1>5. /\ tm.nTimerId \in Nat /\ tm'.nTimerId \in Nat
      /\ tm.nTimerId <= Cardinality(Connected) + Cardinality(Settled)
  BY DEF TimersOK, IdsCounted
<1> HIDE DEF Connected, Settled
<1>6. CASE tm'.nTimerId = tm.nTimerId
  BY <1>3, <1>4, <1>5, <1>6 DEF IdsCounted
<1>7. CASE tm'.nTimerId <= tm.nTimerId + 1 /\ (Connected # Connected' \/ Settled # Settled')
  BY <1>3, <1>4, <1>5, <1>7 DEF IdsCounted
<1> QED BY <1>6, <1>7
-----------------------------------------------------------------------------
(* The parts of the invariant put together, for the steps that have much in common. *)
LEMMA RequestInvStep ==
    ASSUME RequestInv, NEW N \in SUBSET (Req \ accepted), NEW A \in SUBSET (Owed \cup N),
           accepted' = accepted \cup N, Post(A),
           Waiters' \cup Busy' = (Waiters \cup Busy \cup N) \ A, Waiters' \cap Busy' = {},
           WaitOnce', CarriedOnce', mapRequest' \in Seq(Entry), Distinct(mapRequest)',
           loop' \in {"running", "left", "crashed"}, resolving' \subseteq Req
    PROVE  RequestInv' /\ RequestTypes'
<1>1. RequestTypes /\ OwedOnce
  BY DEF RequestInv
<1>2. Owed' = (Owed \cup N) \ A
  BY DEF Owed
<1>3. /\ answers' \in [Req -> Nat] /\ accepted' \subseteq Req
      /\ Owed' \subseteq accepted'
      /\ \A r \in Req : answers'[r] = 0 <=> r \notin accepted' \/ r \in Owed'
  BY <1>1, <1>2, OwedStep
<1>4. RequestTypes'
  BY <1>3 DEF RequestTypes
<1>5. OwedOnce'
  BY <1>3 DEF OwedOnce, WaitOnce, CarriedOnce, IsIdle
<1> QED BY <1>4, <1>5 DEF RequestInv

\* The parts of the requests' invariant, for the steps that follow.
LEMMA OwedFacts ==
    ASSUME RequestInv
    PROVE  /\ RequestTypes /\ OwedOnce /\ WaitOnce /\ CarriedOnce
           /\ Waiters \subseteq accepted /\ Busy \subseteq accepted /\ Waiters \cap Busy = {}
           /\ accepted \subseteq Req /\ mapRequest \in Seq(Entry) /\ Distinct(mapRequest)
           /\ resolving \subseteq Req /\ loop \in {"running", "left", "crashed"}
  BY DEF RequestInv, RequestTypes, OwedOnce, WaitOnce, CarriedOnce, Owed

\* Nobody joins the waiting, and the sockets that are neither new nor to answer change.
LEMMA QuietStep ==
    ASSUME Inv, NetInv', RequestInv', loop = "running", UNCHANGED <<resolving, remote>>,
           accepted \subseteq accepted', Entries' \subseteq Entries,
           \A s \in Req : sock[s] = "none" <=> sock'[s] = "none",
           \A s \in Req : sock[s] \in {"connecting", "orphan", "reset"} =>
                          sock'[s] \in {"connecting", "orphan", "reset"},
           \/ tm'.nTimerId = tm.nTimerId
           \/ /\ tm'.nTimerId <= tm.nTimerId + 1
              /\ \E x \in Req : x \in accepted' /\ x \notin accepted /\ x \notin Waiters'
    PROVE  Inv'
<1>1. RequestTypes /\ RequestTypes' /\ TimersOK(tm) /\ TimersOK(tm')
  BY DEF Inv, RequestInv, NetInv, NetTypes
<1>2. SocketsFresh'
  <2>1. \A r \in Req \ accepted' : sock'[r] = "none"
    BY DEF Inv, SocketsFresh
  <2>2. \A e \in Entries : e.req \in Req
    BY <1>1, EntriesTyped DEF RequestTypes
  <2>3. \A e \in Entries' : e.host \in DOMAIN Address => e.host = HostOf[e.req] /\ sock'[e.req] = "none"
    BY <2>2 DEF Inv, SocketsFresh
  <2> QED BY <2>1, <2>3 DEF Inv, SocketsFresh
<1>3. NoRequestStranded'
  BY <1>1, NobodyJoins DEF Inv
<1>4. Waiters' \subseteq Waiters
  BY DEF Waiters
<1>5. Settled \subseteq Settled' /\ Connected \subseteq Connected'
  BY <1>4 DEF Settled, Connected
<1>6. \/ tm'.nTimerId = tm.nTimerId
      \/ /\ tm'.nTimerId <= tm.nTimerId + 1
         /\ \E x \in Req : x \in Settled' /\ x \notin Settled
  BY DEF Settled
<1>7. IdsCounted'
  <2> HIDE DEF Settled, Connected
  <2>1. \/ tm'.nTimerId = tm.nTimerId
        \/ /\ tm'.nTimerId <= tm.nTimerId + 1
           /\ \E x \in Req : \/ x \in Connected' /\ x \notin Connected
                             \/ x \in Settled' /\ x \notin Settled
    BY <1>6
  <2> QED BY <1>1, <1>5, <2>1, IdsStep DEF Inv
<1> QED BY <1>2, <1>3, <1>7 DEF Inv

\* A connect handler has run: it serves the oldest request for its endpoint, if any waits.
LEMMA HandlerServes ==
    ASSUME RequestTypes, RequestTypes', loop = "running", NoRequestStranded, WaitOnce,
           UNCHANGED <<resolving, remote>>, NEW s \in Req,
           \A p \in Req : p # s => sock'[p] = sock[p],
           \/ Entries' = Entries /\ \A e \in Entries : e.host # remote[s]
           \/ \E f \in Entries : f.host = remote[s] /\ Entries' = Entries \ {f}
    PROVE  NoRequestStranded'
<1>1. ASSUME NEW h \in Host
      PROVE  HostKept(h)
  <2>1. /\ Waiting({h})' = {e.req : e \in {f \in Entries' : f.host = h}}
        /\ Waiting({h}) = {e.req : e \in {f \in Entries : f.host = h}}
    BY WaitingIs
  <2>2. Handlers(h) \ {s} \subseteq Handlers(h)'
    BY DEF Handlers
  <2>3. CASE h # remote[s]
    <3>1. Handlers(h) \subseteq Handlers(h)'
      BY <2>3 DEF Handlers
    <3>2. Waiting({h})' \subseteq Waiting({h})
      BY <2>1
    <3> QED BY <3>1, <3>2 DEF HostKept
  <2>4. CASE h = remote[s]
    <3>1. CASE Entries' = Entries /\ \A e \in Entries : e.host # remote[s]
      <4>1. Waiting({h})' = {}
        BY <2>1, <2>4, <3>1
      <4> QED BY <4>1 DEF HostKept
    <3>2. ASSUME NEW f \in Entries, f.host = remote[s], Entries' = Entries \ {f}
          PROVE  HostKept(h)
      <4>1. f.req \in Waiting({h})
        BY <2>1, <2>4, <3>2
      <4>2. Waiting({h})' \subseteq Waiting({h}) \ {f.req}
        BY <2>1, <3>2 DEF WaitOnce
      <4> QED BY <2>2, <4>1, <4>2 DEF HostKept
    <3> QED BY <3>1, <3>2
  <2> QED BY <2>3, <2>4
<1> QED BY <1>1, StrandedStep
-----------------------------------------------------------------------------
(* One lemma for each action: it keeps the invariant and the service's promise. *)
LEMMA RequestOnIdleKeeps ==
    ASSUME Inv, NEW r \in Req, RequestOnIdle(r) PROVE Inv' /\ ServiceStep
<1> DEFINE i == ClientFor(NonceOf[r], HostOf[r])
           b == mapGetClient[i]
           c == [sock |-> b.sock, nonce |-> NonceOf[r], timer |-> tm'.nTimerId, req |-> r,
                 stage |-> "write"]
<1>1. /\ loop = "running" /\ r \notin accepted /\ accepted' = accepted \cup {r}
      /\ UNCHANGED <<loop, answers, resolving, sock, remote, connTimer, mapPending, mapRequest>>
      /\ i # 0 /\ IsIdle(b)
      /\ tm' = SetTimer(tm, NonceOf[r], b.sock)
      /\ mapGetClient' = [mapGetClient EXCEPT ![i] = c]
  BY DEF RequestOnIdle, Request, Active
<1>2. /\ RequestTypes /\ OwedOnce /\ WaitOnce /\ CarriedOnce
      /\ Waiters \subseteq accepted /\ Busy \subseteq accepted /\ Waiters \cap Busy = {}
      /\ accepted \subseteq Req /\ mapRequest \in Seq(Entry) /\ Distinct(mapRequest)
      /\ resolving \subseteq Req
  BY OwedFacts DEF Inv
<1>3. NetInv /\ mapGetClient \in Seq(Conn) /\ NonceOf[r] \in Nat
  BY HttpGetAssumption DEF Inv, NetInv, NetTypes
<1>4. i \in DOMAIN mapGetClient
  <2>1. i \in 1..Len(mapGetClient)
    BY <1>1, <1>3, ClientForIs
  <2> QED BY <1>3, <2>1
<1> HIDE DEF i
<1>5. /\ NetInv' /\ tm'.nTimerId <= tm.nTimerId + 1
      /\ Conns' = (Conns \ {b}) \cup {c} /\ b \in Conns
  <2>1. NetInv /\ IsIdle(mapGetClient[i]) /\ tm' = SetTimer(tm, NonceOf[r], mapGetClient[i].sock)
    BY <1>1, <1>3
  <2>2. mapGetClient' = [mapGetClient EXCEPT ![i] = Active(mapGetClient[i].sock, r, tm')]
    BY <1>1 DEF Active
  <2>3. UNCHANGED <<sock, remote, connTimer, mapPending>>
    BY <1>1
  <2>4. c = Active(mapGetClient[i].sock, r, tm')
    BY DEF Active
  <2> HIDE DEF c
  <2> QED BY <1>4, <2>1, <2>2, <2>3, <2>4, NetReuses
<1>6. c.req = r /\ ~IsIdle(c)
  BY DEF IsIdle
<1> HIDE DEF b, c
<1>7. Busy' = Busy \cup {r} /\ CarriedOnce'
  <2>1. Conns' = (Conns \ {b}) \cup {c} /\ {b} \in SUBSET Conns /\ \A d \in {b} : IsIdle(d)
    BY <1>1, <1>5
  <2>2. c.req \notin Busy
    BY <1>1, <1>2, <1>6
  <2>3. Busy' = Busy \cup {c.req} /\ CarriedOnce'
    BY <1>2, <1>6, <2>1, <2>2, BusyAdds
  <2> QED BY <1>6, <2>3
<1>8. Waiters' = Waiters /\ Entries' = Entries /\ WaitOnce'
  BY <1>1, <1>2, WaitersSame DEF WaitOnce
<1>9. Post({})
  BY <1>1, <1>2, PostNone
<1>10. RequestInv'
  <2>1. {r} \in SUBSET (Req \ accepted) /\ {} \in SUBSET (Owed \cup {r})
    BY <1>1
  <2>2. /\ Waiters' \cup Busy' = (Waiters \cup Busy \cup {r}) \ {}
        /\ Waiters' \cap Busy' = {}
    BY <1>1, <1>2, <1>7, <1>8
  <2>3. /\ mapRequest' \in Seq(Entry) /\ Distinct(mapRequest)'
        /\ loop' \in {"running", "left", "crashed"} /\ resolving' \subseteq Req
    BY <1>1, <1>2 DEF Distinct
  <2> QED BY <1>1, <1>2, <1>7, <1>8, <1>9, <2>1, <2>2, <2>3, RequestInvStep DEF Inv
<1>11. Inv'
  BY <1>1, <1>2, <1>5, <1>8, <1>10, QuietStep
<1>12. ServiceStep
  <2>1. {} \in SUBSET {r}
    OBVIOUS
  <2> QED BY <1>1, <1>2, <1>9, <2>1, Accepts
<1> QED BY <1>11, <1>12

\* A request that is refused at once.
LEMMA RequestDenied ==
    ASSUME Inv, NEW r \in Req, Request(r), Post({r}),
           UNCHANGED <<tm, resolving, sock, remote, connTimer, mapPending, mapRequest,
                       mapGetClient>>
    PROVE  Inv' /\ ServiceStep
<1>1. /\ loop = "running" /\ loop' = loop /\ r \notin accepted /\ accepted' = accepted \cup {r}
  BY DEF Request
<1>2. /\ RequestTypes /\ OwedOnce /\ WaitOnce /\ CarriedOnce
      /\ Waiters \subseteq accepted /\ Busy \subseteq accepted /\ Waiters \cap Busy = {}
      /\ accepted \subseteq Req /\ mapRequest \in Seq(Entry) /\ Distinct(mapRequest)
      /\ resolving \subseteq Req
  BY OwedFacts DEF Inv
<1>3. NetInv'
  BY NetUnchanged DEF Inv
<1>4. Busy' = Busy /\ Conns' = Conns /\ CarriedOnce'
  BY <1>2, BusySame DEF CarriedOnce, IsIdle
<1>5. Waiters' = Waiters /\ Entries' = Entries /\ WaitOnce'
  BY <1>2, WaitersSame DEF WaitOnce
<1>6. RequestInv'
  <2>1. {r} \in SUBSET (Req \ accepted) /\ {r} \in SUBSET (Owed \cup {r})
    BY <1>1
  <2>2. /\ Waiters' \cup Busy' = (Waiters \cup Busy \cup {r}) \ {r}
        /\ Waiters' \cap Busy' = {}
    BY <1>1, <1>2, <1>4, <1>5
  <2>3. /\ mapRequest' \in Seq(Entry) /\ Distinct(mapRequest)'
        /\ loop' \in {"running", "left", "crashed"} /\ resolving' \subseteq Req
    BY <1>1, <1>2 DEF Distinct
  <2> QED BY <1>1, <1>2, <1>4, <1>5, <2>1, <2>2, <2>3, RequestInvStep DEF Inv
<1>7. Inv'
  BY <1>1, <1>2, <1>3, <1>5, <1>6, QuietStep
<1>8. ServiceStep
  <2>1. {r} \in SUBSET {r}
    OBVIOUS
  <2> QED BY <1>1, <1>2, <2>1, Accepts
<1> QED BY <1>7, <1>8

\* RequestOnBusy: the nonce is busy on that host, the request is denied.
LEMMA RequestOnBusyKeeps ==
    ASSUME Inv, NEW r \in Req, RequestOnBusy(r) PROVE Inv' /\ ServiceStep
  BY RequestDenied DEF RequestOnBusy

\* RequestRefused: no connection can be had, the request is denied.
LEMMA RequestRefusedKeeps ==
    ASSUME Inv, NEW r \in Req, RequestRefused(r) PROVE Inv' /\ ServiceStep
  BY RequestDenied DEF RequestRefused, SSLConnectRefused
-----------------------------------------------------------------------------
(* What has become of the sockets and the requests, when a request begins to wait. *)
LEMMA RequestConnectsKeeps ==
    ASSUME Inv, NEW r \in Req, RequestConnects(r) PROVE Inv' /\ ServiceStep
<1> DEFINE h == HostOf[r]
           e == [host |-> h, req |-> r]
<1>1. /\ loop = "running" /\ loop' = loop /\ r \notin accepted /\ accepted' = accepted \cup {r}
      /\ UNCHANGED <<answers, resolving, mapGetClient>>
      /\ h \notin DOMAIN Address /\ SSLConnect(r, h)
      /\ sock' = [sock EXCEPT ![r] = "connecting"] /\ remote' = [remote EXCEPT ![r] = h]
      /\ mapRequest' = Append(mapRequest, e)
  BY DEF RequestConnects, Request, SSLConnect
<1>2. /\ RequestTypes /\ OwedOnce /\ WaitOnce /\ CarriedOnce
      /\ Waiters \subseteq accepted /\ Busy \subseteq accepted /\ Waiters \cap Busy = {}
      /\ accepted \subseteq Req /\ mapRequest \in Seq(Entry) /\ Distinct(mapRequest)
      /\ resolving \subseteq Req
  BY OwedFacts DEF Inv
<1>3. h \in Host /\ e \in Entry /\ e.req = r /\ e.host = h
  BY HttpGetAssumption DEF Entry
<1>4. sock[r] = "none" /\ NetInv
  BY <1>1 DEF Inv, SocketsFresh
<1>5. NetInv' /\ tm'.nTimerId <= tm.nTimerId + 1
  BY <1>1, <1>3, <1>4, NetConnects
<1>6. /\ \A p \in Req : p # r => sock'[p] = sock[p] /\ remote'[p] = remote[p]
      /\ sock'[r] = "connecting" /\ remote'[r] = h
  BY <1>1 DEF Inv, NetInv, NetTypes
<1> HIDE DEF h, e
<1>7. /\ mapRequest' \in Seq(Entry) /\ Distinct(mapRequest)' /\ WaitOnce'
      /\ Entries' = Entries \cup {e} /\ Waiters' = Waiters \cup {r}
  <2>1. e.req \notin Waiters
    BY <1>1, <1>2, <1>3
  <2> QED BY <1>1, <1>2, <1>3, <2>1, WaitersAdd
<1>8. Busy' = Busy /\ Conns' = Conns /\ CarriedOnce'
  BY <1>1, <1>2, BusySame DEF CarriedOnce, IsIdle
<1>9. Post({})
  BY <1>1, <1>2, PostNone
<1>10. RequestInv' /\ RequestTypes'
  <2>1. {r} \in SUBSET (Req \ accepted) /\ {} \in SUBSET (Owed \cup {r})
    BY <1>1
  <2>2. /\ Waiters' \cup Busy' = (Waiters \cup Busy \cup {r}) \ {}
        /\ Waiters' \cap Busy' = {}
    BY <1>1, <1>2, <1>7, <1>8
  <2>3. loop' \in {"running", "left", "crashed"} /\ resolving' \subseteq Req
    BY <1>1, <1>2
  <2> QED BY <1>1, <1>2, <1>7, <1>8, <1>9, <2>1, <2>2, <2>3, RequestInvStep DEF Inv
<1>11. SocketsFresh'
  <2>1. \A q \in Req \ accepted' : sock'[q] = "none"
    BY <1>1, <1>6 DEF Inv, SocketsFresh
  <2>2. \A q \in resolving' : q \in accepted' /\ HostOf[q] \in DOMAIN Address
    BY <1>1 DEF Inv, SocketsFresh
  <2>3. ASSUME NEW f \in Entries', f.host \in DOMAIN Address
        PROVE  f.host = HostOf[f.req] /\ sock'[f.req] = "none"
    <3>1. f \in Entries
      BY <1>1, <1>3, <1>7, <2>3
    <3>2. f.host = HostOf[f.req] /\ sock[f.req] = "none"
      BY <2>3, <3>1 DEF Inv, SocketsFresh
    <3>3. f.req \in Waiters
      BY <3>1 DEF Waiters
    <3>4. f.req \in Req /\ f.req # r
      BY <1>1, <1>2, <3>3
    <3> QED BY <1>6, <3>2, <3>4
  <2> QED BY <2>1, <2>2, <2>3 DEF SocketsFresh
<1>12. NoRequestStranded'
  <2>1. ASSUME NEW k \in Host
        PROVE  HostKept(k)
    <3>1. /\ Waiting({k})' = {f.req : f \in {g \in Entries' : g.host = k}}
          /\ Waiting({k}) = {f.req : f \in {g \in Entries : g.host = k}}
      BY WaitingIs
    <3>2. r \notin Handlers(k) /\ Handlers(k) \subseteq Handlers(k)'
      <4>1. r \notin resolving
        BY <1>1 DEF Inv, SocketsFresh
      <4> QED BY <1>1, <1>4, <1>6, <4>1 DEF Handlers
    <3>3. CASE k = h
      <4>1. Waiting({k})' \subseteq Waiting({k}) \cup {r}
        BY <1>3, <1>7, <3>1
      <4>2. r \in Handlers(k)'
        BY <1>1, <1>6, <3>3 DEF Handlers
      <4>3. Handlers(k) \cup {r} \subseteq Handlers(k)'
        BY <3>2, <4>2
      <4>4. r \in Req \ Handlers(k)
        BY <3>2
      <4> QED BY <4>1, <4>3, <4>4 DEF HostKept
    <3>4. CASE k # h
      <4>1. Waiting({k})' \subseteq Waiting({k})
        BY <1>3, <1>7, <3>1, <3>4
      <4> QED BY <3>2, <4>1 DEF HostKept
    <3> QED BY <3>3, <3>4
  <2> QED BY <1>1, <1>2, <1>10, <2>1, StrandedStep DEF Inv
<1>13. IdsCounted'
  <2>1. Settled \subseteq Settled'
    BY <1>1, <1>2, <1>7 DEF Settled
  <2>2. Connected \subseteq Connected' /\ r \in Connected' /\ r \notin Connected
    BY <1>4, <1>6 DEF Connected
  <2>3. TimersOK(tm) /\ TimersOK(tm')
    BY <1>4, <1>5 DEF NetInv, NetTypes
  <2> HIDE DEF Settled, Connected
  <2> QED BY <1>2, <1>5, <1>10, <2>1, <2>2, <2>3, IdsStep DEF Inv
<1>14. ServiceStep
  <2>1. {} \in SUBSET {r}
    OBVIOUS
  <2> QED BY <1>1, <1>2, <1>9, <2>1, Accepts
<1> QED BY <1>5, <1>10, <1>11, <1>12, <1>13, <1>14 DEF Inv

\* RequestResolves: the request waits for a name, with a resolver operation of its own.
LEMMA RequestResolvesKeeps ==
    ASSUME Inv, NEW r \in Req, RequestResolves(r) PROVE Inv' /\ ServiceStep
<1> DEFINE h == HostOf[r]
           e == [host |-> h, req |-> r]
<1>1. /\ loop = "running" /\ loop' = loop /\ r \notin accepted /\ accepted' = accepted \cup {r}
      /\ UNCHANGED <<answers, tm, sock, remote, connTimer, mapPending, mapGetClient>>
      /\ h \in DOMAIN Address /\ resolving' = resolving \cup {r}
      /\ mapRequest' = Append(mapRequest, e)
  BY DEF RequestResolves, Request
<1>2. /\ RequestTypes /\ OwedOnce /\ WaitOnce /\ CarriedOnce
      /\ Waiters \subseteq accepted /\ Busy \subseteq accepted /\ Waiters \cap Busy = {}
      /\ accepted \subseteq Req /\ mapRequest \in Seq(Entry) /\ Distinct(mapRequest)
      /\ resolving \subseteq Req
  BY OwedFacts DEF Inv
<1>3. h \in Host /\ e \in Entry /\ e.req = r /\ e.host = h /\ h = HostOf[r]
  BY HttpGetAssumption DEF Entry
<1>4. sock[r] = "none" /\ NetInv /\ r \notin resolving
  BY <1>1 DEF Inv, SocketsFresh
<1>5. NetInv'
  BY <1>1, <1>4, NetUnchanged
<1> HIDE DEF h, e
<1>7. /\ mapRequest' \in Seq(Entry) /\ Distinct(mapRequest)' /\ WaitOnce'
      /\ Entries' = Entries \cup {e} /\ Waiters' = Waiters \cup {r}
  <2>1. e.req \notin Waiters
    BY <1>1, <1>2, <1>3
  <2> QED BY <1>1, <1>2, <1>3, <2>1, WaitersAdd
<1>8. Busy' = Busy /\ Conns' = Conns /\ CarriedOnce'
  BY <1>1, <1>2, BusySame DEF CarriedOnce, IsIdle
<1>9. Post({})
  BY <1>1, <1>2, PostNone
<1>10. RequestInv' /\ RequestTypes'
  <2>1. {r} \in SUBSET (Req \ accepted) /\ {} \in SUBSET (Owed \cup {r})
    BY <1>1
  <2>2. /\ Waiters' \cup Busy' = (Waiters \cup Busy \cup {r}) \ {}
        /\ Waiters' \cap Busy' = {}
    BY <1>1, <1>2, <1>7, <1>8
  <2>3. loop' \in {"running", "left", "crashed"} /\ resolving' \subseteq Req
    BY <1>1, <1>2
  <2> QED BY <1>1, <1>2, <1>7, <1>8, <1>9, <2>1, <2>2, <2>3, RequestInvStep DEF Inv
<1>11. SocketsFresh'
  <2>1. \A q \in Req \ accepted' : sock'[q] = "none"
    BY <1>1 DEF Inv, SocketsFresh
  <2>2. \A q \in resolving' : q \in accepted' /\ HostOf[q] \in DOMAIN Address
    BY <1>1, <1>3 DEF Inv, SocketsFresh
  <2>3. ASSUME NEW f \in Entries', f.host \in DOMAIN Address
        PROVE  f.host = HostOf[f.req] /\ sock'[f.req] = "none"
    <3>1. CASE f \in Entries
      BY <1>1, <2>3, <3>1 DEF Inv, SocketsFresh
    <3>2. CASE f = e
      BY <1>1, <1>3, <1>4, <3>2
    <3> QED BY <1>7, <3>1, <3>2
  <2> QED BY <2>1, <2>2, <2>3 DEF SocketsFresh
<1>12. NoRequestStranded'
  <2>1. ASSUME NEW k \in Host
        PROVE  HostKept(k)
    <3>1. /\ Waiting({k})' = {f.req : f \in {g \in Entries' : g.host = k}}
          /\ Waiting({k}) = {f.req : f \in {g \in Entries : g.host = k}}
      BY WaitingIs
    <3>2. Handlers(k) \subseteq Handlers(k)'
      BY <1>1 DEF Handlers
    <3>3. CASE k = h
      <4>1. Waiting({k})' \subseteq Waiting({k}) \cup {r}
        BY <1>3, <1>7, <3>1
      <4>2. r \in Handlers(k)' /\ r \notin Handlers(k)
        BY <1>1, <1>3, <1>4, <3>3 DEF Handlers
      <4>3. Handlers(k) \cup {r} \subseteq Handlers(k)'
        BY <3>2, <4>2
      <4>4. r \in Req \ Handlers(k)
        BY <4>2
      <4> QED BY <4>1, <4>3, <4>4 DEF HostKept
    <3>4. CASE k # h
      <4>1. Waiting({k})' \subseteq Waiting({k})
        BY <1>3, <1>7, <3>1, <3>4
      <4> QED BY <3>2, <4>1 DEF HostKept
    <3> QED BY <3>3, <3>4
  <2> QED BY <1>1, <1>2, <1>10, <2>1, StrandedStep DEF Inv
<1>13. IdsCounted'
  <2>1. Settled \subseteq Settled'
    BY <1>1, <1>2, <1>7 DEF Settled
  <2>2. Connected \subseteq Connected'
    BY <1>1 DEF Connected
  <2>3. TimersOK(tm) /\ TimersOK(tm') /\ tm'.nTimerId = tm.nTimerId
    BY <1>1, <1>4, <1>5 DEF NetInv, NetTypes
  <2> HIDE DEF Settled, Connected
  <2> QED BY <1>2, <1>10, <2>1, <2>2, <2>3, IdsStep DEF Inv
<1>14. ServiceStep
  <2>1. {} \in SUBSET {r}
    OBVIOUS
  <2> QED BY <1>1, <1>2, <1>9, <2>1, Accepts
<1> QED BY <1>5, <1>10, <1>11, <1>12, <1>13, <1>14 DEF Inv
-----------------------------------------------------------------------------
(* The resolver has ended: for nobody, and the name's oldest request is connected; or it
   cannot be connected; or all who wait for the name fail. *)
LEMMA ResolvedForNobody ==
    ASSUME Inv, NEW r \in Req, ResolverDone(r), OldestRequest(HostOf[r]) = 0,
           UNCHANGED <<answers, tm, sock, remote, connTimer, mapPending, mapRequest>>
    PROVE  Inv' /\ ServiceStep
<1>1. /\ loop = "running" /\ loop' = loop /\ accepted' = accepted /\ mapGetClient' = mapGetClient
      /\ r \in resolving /\ resolving' = resolving \ {r}
  BY DEF ResolverDone
<1>2. /\ RequestTypes /\ OwedOnce /\ WaitOnce /\ CarriedOnce
      /\ Waiters \subseteq accepted /\ Busy \subseteq accepted /\ Waiters \cap Busy = {}
      /\ accepted \subseteq Req /\ mapRequest \in Seq(Entry) /\ Distinct(mapRequest)
      /\ resolving \subseteq Req
  BY OwedFacts DEF Inv
<1>3. \A e \in Entries : e.host # HostOf[r]
  BY <1>2, OldestRequestIs
<1>4. NetInv'
  BY <1>1, NetUnchanged DEF Inv
<1>5. Busy' = Busy /\ CarriedOnce'
  BY <1>1, <1>2, BusySame DEF CarriedOnce, IsIdle
<1>6. Waiters' = Waiters /\ Entries' = Entries /\ WaitOnce'
  BY <1>2, WaitersSame DEF WaitOnce
<1>7. Post({})
  BY <1>2, PostNone
<1>8. RequestInv' /\ RequestTypes'
  <2>1. {} \in SUBSET (Req \ accepted) /\ {} \in SUBSET (Owed \cup {}) /\ accepted' = accepted \cup {}
    BY <1>1
  <2>2. /\ Waiters' \cup Busy' = (Waiters \cup Busy \cup {}) \ {}
        /\ Waiters' \cap Busy' = {}
    BY <1>2, <1>5, <1>6
  <2>3. /\ mapRequest' \in Seq(Entry) /\ Distinct(mapRequest)'
        /\ loop' \in {"running", "left", "crashed"} /\ resolving' \subseteq Req
    BY <1>1, <1>2 DEF Distinct
  <2> QED BY <1>2, <1>5, <1>6, <1>7, <2>1, <2>2, <2>3, RequestInvStep DEF Inv
<1>9. SocketsFresh'
  BY <1>1, <1>6 DEF Inv, SocketsFresh
<1>10. NoRequestStranded'
  <2>1. ASSUME NEW k \in Host
        PROVE  HostKept(k)
    <3>1. /\ Waiting({k})' = {f.req : f \in {g \in Entries' : g.host = k}}
          /\ Waiting({k}) = {f.req : f \in {g \in Entries : g.host = k}}
      BY WaitingIs
    <3>2. CASE k = HostOf[r]
      <4>1. Waiting({k})' = {}
        BY <1>3, <1>6, <3>1, <3>2
      <4> QED BY <4>1 DEF HostKept
    <3>3. CASE k # HostOf[r]
      <4>1. Waiting({k})' \subseteq Waiting({k})
        BY <1>6, <3>1
      <4>2. Handlers(k) \subseteq Handlers(k)'
        BY <1>1, <3>3 DEF Handlers
      <4> QED BY <4>1, <4>2 DEF HostKept
    <3> QED BY <3>2, <3>3
  <2> QED BY <1>1, <1>2, <1>8, <2>1, StrandedStep DEF Inv
<1>11. IdsCounted'
  BY <1>1, <1>6 DEF Inv, IdsCounted, Connected, Settled
<1>12. ServiceStep
  BY <1>1 DEF ServiceStep
<1> QED BY <1>4, <1>8, <1>9, <1>10, <1>11, <1>12 DEF Inv

\* The oldest request of the name is connected and waits for its address.
LEMMA ResolvedAndConnects ==
    ASSUME Inv, NEW r \in Req, ResolverDone(r), NEW i, i = OldestRequest(HostOf[r]), i # 0,
           SSLConnect(mapRequest[i].req, Address[HostOf[r]]),
           mapRequest' = Append(RemoveAt(mapRequest, i),
                                [host |-> Address[HostOf[r]], req |-> mapRequest[i].req]),
           UNCHANGED answers
    PROVE  Inv' /\ ServiceStep
<1> DEFINE f == mapRequest[i]
           q == f.req
           a == Address[HostOf[r]]
           e == [host |-> a, req |-> q]
<1>1. /\ loop = "running" /\ loop' = loop /\ accepted' = accepted /\ mapGetClient' = mapGetClient
      /\ r \in resolving /\ resolving' = resolving \ {r}
      /\ SSLConnect(q, a)
      /\ sock' = [sock EXCEPT ![q] = "connecting"] /\ remote' = [remote EXCEPT ![q] = a]
  BY DEF ResolverDone, SSLConnect
<1>2. /\ RequestTypes /\ OwedOnce /\ WaitOnce /\ CarriedOnce
      /\ Waiters \subseteq accepted /\ Busy \subseteq accepted /\ Waiters \cap Busy = {}
      /\ accepted \subseteq Req /\ mapRequest \in Seq(Entry) /\ Distinct(mapRequest)
      /\ resolving \subseteq Req
  BY OwedFacts DEF Inv
<1>3. i \in 1..Len(mapRequest) /\ f.host = HostOf[r]
  BY <1>2, OldestRequestIs
<1>4. HostOf[r] \in DOMAIN Address /\ a \in Host /\ a \notin DOMAIN Address
  BY <1>1, HttpGetAssumption DEF Inv, SocketsFresh, Host
<1>5. /\ mapRequest' \in Seq(Entry) /\ Distinct(mapRequest)' /\ WaitOnce'
      /\ f \in Entries /\ f \in Entry
      /\ Entries' = (Entries \ {f}) \cup {e}
      /\ Waiters' = Waiters
  BY <1>2, <1>3, <1>4, WaitersMove
<1>6. e.host = a /\ e.req = q /\ q \in Req /\ q \in Waiters
  BY <1>5 DEF Entry, Waiters
<1> HIDE DEF f, a, e, q
<1>7. sock[q] = "none" /\ NetInv
  BY <1>3, <1>4, <1>5 DEF Inv, SocketsFresh, q
<1>8. NetInv' /\ tm'.nTimerId <= tm.nTimerId + 1
  BY <1>1, <1>4, <1>6, <1>7, NetConnects
<1>9. /\ \A p \in Req : p # q => sock'[p] = sock[p] /\ remote'[p] = remote[p]
      /\ sock'[q] = "connecting" /\ remote'[q] = a
  BY <1>1, <1>6 DEF Inv, NetInv, NetTypes
<1>10. Busy' = Busy /\ Conns' = Conns /\ CarriedOnce'
  BY <1>1, <1>2, BusySame DEF CarriedOnce, IsIdle
<1>11. Post({})
  BY <1>2, PostNone
<1>12. RequestInv' /\ RequestTypes'
  <2>1. {} \in SUBSET (Req \ accepted) /\ {} \in SUBSET (Owed \cup {}) /\ accepted' = accepted \cup {}
    BY <1>1
  <2>2. /\ Waiters' \cup Busy' = (Waiters \cup Busy \cup {}) \ {}
        /\ Waiters' \cap Busy' = {}
    BY <1>2, <1>5, <1>10
  <2>3. loop' \in {"running", "left", "crashed"} /\ resolving' \subseteq Req
    BY <1>1, <1>2
  <2> QED BY <1>2, <1>5, <1>10, <1>11, <2>1, <2>2, <2>3, RequestInvStep DEF Inv
<1>13. SocketsFresh'
  <2>1. \A p \in Req \ accepted' : sock'[p] = "none"
    BY <1>1, <1>2, <1>6, <1>9 DEF Inv, SocketsFresh
  <2>2. \A p \in resolving' : p \in accepted' /\ HostOf[p] \in DOMAIN Address
    BY <1>1 DEF Inv, SocketsFresh
  <2>3. ASSUME NEW g \in Entries', g.host \in DOMAIN Address
        PROVE  g.host = HostOf[g.req] /\ sock'[g.req] = "none"
    <3>1. g \in Entries /\ g # f
      BY <1>4, <1>5, <1>6, <2>3
    <3>2. g.host = HostOf[g.req] /\ sock[g.req] = "none"
      BY <2>3, <3>1 DEF Inv, SocketsFresh
    <3>3. g.req # q
      BY <1>2, <1>5, <3>1 DEF WaitOnce, q
    <3>4. g.req \in Req
      BY <1>2, <3>1, EntriesTyped
    <3> QED BY <1>9, <3>2, <3>3, <3>4
  <2> QED BY <2>1, <2>2, <2>3 DEF SocketsFresh
<1>14. NoRequestStranded'
  <2>1. ASSUME NEW k \in Host
        PROVE  HostKept(k)
    <3>1. /\ Waiting({k})' = {g.req : g \in {d \in Entries' : d.host = k}}
          /\ Waiting({k}) = {g.req : g \in {d \in Entries : d.host = k}}
      BY WaitingIs
    <3>2. CASE k = HostOf[r]
      <4>1. q \in Waiting({k})
        BY <1>3, <1>5, <3>1, <3>2 DEF q
      <4>2. Waiting({k})' \subseteq Waiting({k}) \ {q}
        BY <1>2, <1>4, <1>5, <1>6, <3>1, <3>2 DEF WaitOnce, q
      <4>3. Handlers(k) \ {r} \subseteq Handlers(k)'
        BY <1>1, <1>4, <3>2 DEF Handlers
      <4> QED BY <4>1, <4>2, <4>3 DEF HostKept
    <3>3. CASE k = a
      <4>1. Waiting({k})' \subseteq Waiting({k}) \cup {q}
        BY <1>5, <1>6, <3>1
      <4>2. q \notin Handlers(k) /\ q \in Handlers(k)'
        BY <1>4, <1>6, <1>7, <1>9, <3>3 DEF Handlers
      <4>3. Handlers(k) \cup {q} \subseteq Handlers(k)'
        BY <1>4, <1>7, <1>9, <3>3, <4>2 DEF Handlers
      <4>4. q \in Req \ Handlers(k)
        BY <1>6, <4>2
      <4> QED BY <1>6, <4>1, <4>3, <4>4 DEF HostKept
    <3>4. CASE k # a /\ k # HostOf[r]
      <4>1. Waiting({k})' \subseteq Waiting({k})
        BY <1>5, <1>6, <3>1, <3>4
      <4>2. Handlers(k) \subseteq Handlers(k)'
        BY <1>1, <1>7, <1>9, <3>4 DEF Handlers
      <4> QED BY <4>1, <4>2 DEF HostKept
    <3> QED BY <3>2, <3>3, <3>4
  <2> QED BY <1>1, <1>2, <1>12, <2>1, StrandedStep DEF Inv
<1>15. IdsCounted'
  <2>1. Settled \subseteq Settled'
    BY <1>1, <1>5 DEF Settled
  <2>2. Connected \subseteq Connected' /\ q \in Connected' /\ q \notin Connected
    BY <1>6, <1>7, <1>9 DEF Connected
  <2>3. TimersOK(tm) /\ TimersOK(tm')
    BY <1>7, <1>8 DEF NetInv, NetTypes
  <2> HIDE DEF Settled, Connected
  <2> QED BY <1>2, <1>6, <1>8, <1>12, <2>1, <2>2, <2>3, IdsStep DEF Inv
<1>16. ServiceStep
  BY <1>1 DEF ServiceStep
<1> QED BY <1>8, <1>12, <1>13, <1>14, <1>15, <1>16 DEF Inv

\* The oldest request for a host fails; and nobody does.
LEMMA OldestFails ==
    ASSUME RequestInv, NEW h, NEW i, i = OldestRequest(h), i # 0,
           mapRequest' = RemoveAt(mapRequest, i),
           Post({mapRequest[i].req}), UNCHANGED <<loop, accepted, mapGetClient>>,
           resolving' \subseteq resolving
    PROVE  /\ RequestInv' /\ RequestTypes' /\ ServiceStep
           /\ Entries' = Entries \ {mapRequest[i]} /\ mapRequest[i] \in Entries
           /\ mapRequest[i].host = h /\ Waiters' \subseteq Waiters
<1> DEFINE q == mapRequest[i].req
<1>1. /\ RequestTypes /\ OwedOnce /\ WaitOnce /\ CarriedOnce
      /\ Waiters \subseteq accepted /\ Busy \subseteq accepted /\ Waiters \cap Busy = {}
      /\ accepted \subseteq Req /\ mapRequest \in Seq(Entry) /\ Distinct(mapRequest)
      /\ resolving \subseteq Req /\ loop \in {"running", "left", "crashed"}
  BY OwedFacts
<1>2. i \in 1..Len(mapRequest) /\ mapRequest[i].host = h
  BY <1>1, OldestRequestIs
<1>3. /\ mapRequest' \in Seq(Entry) /\ Distinct(mapRequest)' /\ WaitOnce'
      /\ mapRequest[i] \in Entries
      /\ Entries' = Entries \ {mapRequest[i]} /\ Waiters' = Waiters \ {q}
  BY <1>1, <1>2, WaitersRemove
<1>4. q \in Waiters /\ q \in Owed
  BY <1>3 DEF Waiters, Owed
<1>5. Post({q}) /\ Waiters' = Waiters \ {q}
  BY <1>3
<1> HIDE DEF q
<1>6. Busy' = Busy /\ CarriedOnce'
  BY <1>1, BusySame DEF CarriedOnce, IsIdle
<1>7. RequestInv' /\ RequestTypes'
  <2>1. /\ {} \in SUBSET (Req \ accepted) /\ {q} \in SUBSET (Owed \cup {})
        /\ accepted' = accepted \cup {}
    BY <1>4
  <2>2. /\ Waiters' \cup Busy' = (Waiters \cup Busy \cup {}) \ {q}
        /\ Waiters' \cap Busy' = {}
    BY <1>1, <1>4, <1>5, <1>6
  <2>3. loop' \in {"running", "left", "crashed"} /\ resolving' \subseteq Req
    BY <1>1
  <2> QED BY <1>3, <1>5, <1>6, <2>1, <2>2, <2>3, RequestInvStep
<1>8. ServiceStep
  <2>1. {q} \in SUBSET Owed
    BY <1>4
  <2> QED BY <1>1, <1>5, <2>1, Responds
<1> QED BY <1>2, <1>3, <1>5, <1>7, <1>8

\* No list of requests changes.
LEMMA NobodyFails ==
    ASSUME RequestInv, UNCHANGED <<loop, accepted, answers, mapRequest, mapGetClient>>,
           resolving' \subseteq resolving
    PROVE  /\ RequestInv' /\ RequestTypes' /\ ServiceStep
           /\ Entries' = Entries /\ Waiters' = Waiters
<1>1. /\ RequestTypes /\ OwedOnce /\ WaitOnce /\ CarriedOnce
      /\ Waiters \subseteq accepted /\ Busy \subseteq accepted /\ Waiters \cap Busy = {}
      /\ accepted \subseteq Req /\ mapRequest \in Seq(Entry) /\ Distinct(mapRequest)
      /\ resolving \subseteq Req /\ loop \in {"running", "left", "crashed"}
  BY OwedFacts
<1>2. Busy' = Busy /\ CarriedOnce'
  BY <1>1, BusySame DEF CarriedOnce, IsIdle
<1>3. Waiters' = Waiters /\ Entries' = Entries /\ WaitOnce'
  BY <1>1, WaitersSame DEF WaitOnce
<1>4. Post({})
  BY <1>1, PostNone
<1>5. RequestInv' /\ RequestTypes'
  <2>1. {} \in SUBSET (Req \ accepted) /\ {} \in SUBSET (Owed \cup {}) /\ accepted' = accepted \cup {}
    OBVIOUS
  <2>2. /\ Waiters' \cup Busy' = (Waiters \cup Busy \cup {}) \ {}
        /\ Waiters' \cap Busy' = {}
    BY <1>1, <1>2, <1>3
  <2>3. /\ mapRequest' \in Seq(Entry) /\ Distinct(mapRequest)'
        /\ loop' \in {"running", "left", "crashed"} /\ resolving' \subseteq Req
    BY <1>1 DEF Distinct
  <2> QED BY <1>1, <1>2, <1>3, <1>4, <2>1, <2>2, <2>3, RequestInvStep
<1>6. ServiceStep
  BY DEF ServiceStep
<1> QED BY <1>3, <1>5, <1>6

\* The oldest request of the name cannot be connected and is answered.
LEMMA ResolvedAndRefused ==
    ASSUME Inv, NEW r \in Req, ResolverDone(r), NEW i, i = OldestRequest(HostOf[r]), i # 0,
           SSLConnectRefused, Post({mapRequest[i].req}), mapRequest' = RemoveAt(mapRequest, i)
    PROVE  Inv' /\ ServiceStep
<1>1. /\ loop = "running" /\ loop' = loop /\ accepted' = accepted /\ mapGetClient' = mapGetClient
      /\ r \in resolving /\ resolving' = resolving \ {r}
      /\ UNCHANGED <<tm, sock, remote, connTimer, mapPending>>
  BY DEF ResolverDone, SSLConnectRefused
<1>2. RequestTypes /\ WaitOnce /\ accepted \subseteq Req
  BY OwedFacts DEF Inv
<1>3. /\ RequestInv' /\ RequestTypes' /\ ServiceStep
      /\ Entries' = Entries \ {mapRequest[i]} /\ mapRequest[i] \in Entries
      /\ mapRequest[i].host = HostOf[r] /\ Waiters' \subseteq Waiters
  BY <1>1, OldestFails DEF Inv
<1>4. NetInv'
  BY <1>1, NetUnchanged DEF Inv
<1> DEFINE f == mapRequest[i]
<1>5. f \in Entries /\ f.host = HostOf[r] /\ Entries' = Entries \ {f}
  BY <1>3
<1> HIDE DEF f
<1>6. SocketsFresh'
  BY <1>1, <1>5 DEF Inv, SocketsFresh
<1>7. NoRequestStranded'
  <2>1. ASSUME NEW k \in Host
        PROVE  HostKept(k)
    <3>1. /\ Waiting({k})' = {g.req : g \in {d \in Entries' : d.host = k}}
          /\ Waiting({k}) = {g.req : g \in {d \in Entries : d.host = k}}
      BY WaitingIs
    <3>2. CASE k = HostOf[r]
      <4>1. f.req \in Waiting({k})
        BY <1>5, <3>1, <3>2
      <4>2. Waiting({k})' \subseteq Waiting({k}) \ {f.req}
        BY <1>2, <1>5, <3>1, <3>2 DEF WaitOnce
      <4>3. Handlers(k) \ {r} \subseteq Handlers(k)'
        BY <1>1 DEF Handlers
      <4> QED BY <4>1, <4>2, <4>3 DEF HostKept
    <3>3. CASE k # HostOf[r]
      <4>1. Waiting({k})' \subseteq Waiting({k})
        BY <1>5, <3>1
      <4>2. Handlers(k) \subseteq Handlers(k)'
        BY <1>1, <3>3 DEF Handlers
      <4> QED BY <4>1, <4>2 DEF HostKept
    <3> QED BY <3>2, <3>3
  <2> QED BY <1>1, <1>2, <1>3, <2>1, StrandedStep DEF Inv
<1>8. IdsCounted'
  <2>1. Settled \subseteq Settled' /\ Connected \subseteq Connected'
    BY <1>1, <1>3 DEF Settled, Connected
  <2>2. TimersOK(tm) /\ TimersOK(tm') /\ tm'.nTimerId = tm.nTimerId
    BY <1>1, <1>4 DEF Inv, NetInv, NetTypes
  <2> HIDE DEF Settled, Connected
  <2> QED BY <1>2, <1>3, <2>1, <2>2, IdsStep DEF Inv
<1> QED BY <1>3, <1>4, <1>6, <1>7, <1>8 DEF Inv

\* HostResolved, in all its ways.
LEMMA HostResolvedKeeps ==
    ASSUME Inv, NEW r \in Req, HostResolved(r) PROVE Inv' /\ ServiceStep
<1> DEFINE i == OldestRequest(HostOf[r])
<1>1. CASE i = 0
  BY <1>1, ResolvedForNobody DEF HostResolved
<1>2. ASSUME i # 0,
             SSLConnect(mapRequest[i].req, Address[HostOf[r]]),
             mapRequest' = Append(RemoveAt(mapRequest, i),
                                  [host |-> Address[HostOf[r]], req |-> mapRequest[i].req]),
             UNCHANGED answers
      PROVE  Inv' /\ ServiceStep
  <2>1. ResolverDone(r)
    BY DEF HostResolved
  <2>2. i = OldestRequest(HostOf[r])
    OBVIOUS
  <2> HIDE DEF i
  <2> QED BY <1>2, <2>1, <2>2, ResolvedAndConnects
<1>3. ASSUME i # 0, SSLConnectRefused, Post({mapRequest[i].req}),
             mapRequest' = RemoveAt(mapRequest, i)
      PROVE  Inv' /\ ServiceStep
  <2>1. ResolverDone(r)
    BY DEF HostResolved
  <2>2. i = OldestRequest(HostOf[r])
    OBVIOUS
  <2> HIDE DEF i
  <2> QED BY <1>3, <2>1, <2>2, ResolvedAndRefused
<1> QED BY <1>1, <1>2, <1>3 DEF HostResolved

\* HostFailToResolve: all who wait for the name are answered.
LEMMA HostFailToResolveKeeps ==
    ASSUME Inv, NEW r \in Req, HostFailToResolve(r) PROVE Inv' /\ ServiceStep
<1> DEFINE h == HostOf[r]
           I == {i \in DOMAIN mapRequest : mapRequest[i].host # h}
           A == Waiting({h})
<1>1. /\ loop = "running" /\ loop' = loop /\ accepted' = accepted /\ mapGetClient' = mapGetClient
      /\ r \in resolving /\ resolving' = resolving \ {r}
      /\ UNCHANGED <<tm, sock, remote, connTimer, mapPending>>
      /\ Post(A) /\ mapRequest' = Keep(mapRequest, I)
  BY DEF HostFailToResolve, ResolverDone
<1>2. /\ RequestTypes /\ OwedOnce /\ WaitOnce /\ CarriedOnce
      /\ Waiters \subseteq accepted /\ Busy \subseteq accepted /\ Waiters \cap Busy = {}
      /\ accepted \subseteq Req /\ mapRequest \in Seq(Entry) /\ Distinct(mapRequest)
      /\ resolving \subseteq Req
  BY OwedFacts DEF Inv
<1>3. /\ mapRequest' \in Seq(Entry) /\ Distinct(mapRequest)' /\ WaitOnce'
      /\ Entries' = {mapRequest[i] : i \in I} /\ Entries' \subseteq Entries
  BY <1>1, <1>2, WaitersKeep
<1>4. Entries' = {e \in Entries : e.host # h}
  BY <1>3 DEF Entries, ToSet
<1>5. A = {e.req : e \in {f \in Entries : f.host = h}}
  BY WaitingIs
<1>6. Waiters' = Waiters \ A /\ A \subseteq Waiters
  <2> HIDE DEF A, h
  <2> QED BY <1>2, <1>4, <1>5 DEF Waiters, WaitOnce
<1> HIDE DEF A, I
<1>7. NetInv'
  BY <1>1, NetUnchanged DEF Inv
<1>8. Busy' = Busy /\ CarriedOnce'
  BY <1>1, <1>2, BusySame DEF CarriedOnce, IsIdle
<1>9. RequestInv' /\ RequestTypes'
  <2>1. /\ {} \in SUBSET (Req \ accepted) /\ A \in SUBSET (Owed \cup {})
        /\ accepted' = accepted \cup {}
    BY <1>1, <1>6 DEF Owed
  <2>2. /\ Waiters' \cup Busy' = (Waiters \cup Busy \cup {}) \ A
        /\ Waiters' \cap Busy' = {}
    BY <1>2, <1>6, <1>8
  <2>3. loop' \in {"running", "left", "crashed"} /\ resolving' \subseteq Req
    BY <1>1, <1>2
  <2> QED BY <1>1, <1>3, <1>8, <2>1, <2>2, <2>3, RequestInvStep DEF Inv
<1>10. ServiceStep
  <2>1. A \in SUBSET Owed
    BY <1>6 DEF Owed
  <2> QED BY <1>1, <1>2, <2>1, Responds
<1>11. SocketsFresh'
  BY <1>1, <1>4 DEF Inv, SocketsFresh
<1>12. NoRequestStranded'
  <2>1. ASSUME NEW k \in Host
        PROVE  HostKept(k)
    <3>1. /\ Waiting({k})' = {g.req : g \in {d \in Entries' : d.host = k}}
          /\ Waiting({k}) = {g.req : g \in {d \in Entries : d.host = k}}
      BY WaitingIs
    <3>2. CASE k = h
      <4>1. Waiting({k})' = {}
        BY <1>4, <3>1, <3>2
      <4> QED BY <4>1 DEF HostKept
    <3>3. CASE k # h
      <4>1. Waiting({k})' \subseteq Waiting({k})
        BY <1>4, <3>1
      <4>2. Handlers(k) \subseteq Handlers(k)'
        BY <1>1, <3>3 DEF Handlers
      <4> QED BY <4>1, <4>2 DEF HostKept
    <3> QED BY <3>2, <3>3
  <2> QED BY <1>1, <1>2, <1>9, <2>1, StrandedStep DEF Inv
<1>13. IdsCounted'
  <2>1. Settled \subseteq Settled' /\ Connected \subseteq Connected'
    BY <1>1, <1>6 DEF Settled, Connected
  <2>2. TimersOK(tm) /\ TimersOK(tm') /\ tm'.nTimerId = tm.nTimerId
    BY <1>1, <1>7 DEF Inv, NetInv, NetTypes
  <2> HIDE DEF Settled, Connected
  <2> QED BY <1>2, <1>9, <2>1, <2>2, IdsStep DEF Inv
<1> QED BY <1>7, <1>9, <1>10, <1>11, <1>12, <1>13 DEF Inv
-----------------------------------------------------------------------------
(* The connect handler has run.                                            *)

\* What it leaves of the rest of the invariant, once the parts of the network and of the
\* requests are known to be kept.
LEMMA HandlerStep ==
    ASSUME Inv, NetInv', RequestInv', loop = "running", UNCHANGED <<accepted, resolving, remote>>,
           NEW s \in Req, sock[s] # "none", sock'[s] # "none",
           \A p \in Req : p # s => sock'[p] = sock[p],
           \/ Entries' = Entries /\ \A e \in Entries : e.host # remote[s]
           \/ \E f \in Entries : f.host = remote[s] /\ Entries' = Entries \ {f},
           \/ tm'.nTimerId = tm.nTimerId
           \/ /\ tm'.nTimerId <= tm.nTimerId + 1
              /\ \E f \in Entries : Entries' = Entries \ {f}
    PROVE  Inv'
<1>1. /\ RequestTypes /\ RequestTypes' /\ WaitOnce /\ TimersOK(tm) /\ TimersOK(tm')
      /\ Waiters \subseteq accepted /\ accepted \subseteq Req
  BY OwedFacts DEF Inv, RequestInv, NetInv, NetTypes
<1>2. Entries' \subseteq Entries /\ Waiters' \subseteq Waiters
  <2>1. Entries' \subseteq Entries
    OBVIOUS
  <2> QED BY <2>1 DEF Waiters
<1>3. NoRequestStranded'
  BY <1>1, HandlerServes DEF Inv
<1>4. SocketsFresh'
  <2>1. \A q \in Req \ accepted' : sock'[q] = "none"
    BY DEF Inv, SocketsFresh
  <2>2. \A e \in Entries : e.req \in Req
    BY <1>1, EntriesTyped DEF RequestTypes
  <2>3. \A e \in Entries' : e.host \in DOMAIN Address => e.host = HostOf[e.req] /\ sock'[e.req] = "none"
    BY <1>2, <2>2 DEF Inv, SocketsFresh
  <2> QED BY <2>1, <2>3 DEF Inv, SocketsFresh
<1>5. Settled \subseteq Settled' /\ Connected \subseteq Connected'
  BY <1>2 DEF Settled, Connected
<1>6. \/ tm'.nTimerId = tm.nTimerId
      \/ /\ tm'.nTimerId <= tm.nTimerId + 1
         /\ \E x \in Req : x \in Settled' /\ x \notin Settled
  <2>1. ASSUME NEW f \in Entries, Entries' = Entries \ {f}
        PROVE  \E x \in Req : x \in Settled' /\ x \notin Settled
    <3>1. f.req \in Waiters /\ f.req \notin Waiters'
      BY <1>1, <2>1 DEF Waiters, WaitOnce
    <3>2. f.req \in Req /\ f.req \in accepted'
      BY <1>1, <3>1
    <3> QED BY <3>1, <3>2 DEF Settled
  <2> QED BY <2>1
<1>7. IdsCounted'
  <2> HIDE DEF Settled, Connected
  <2>1. \/ tm'.nTimerId = tm.nTimerId
        \/ /\ tm'.nTimerId <= tm.nTimerId + 1
           /\ \E x \in Req : \/ x \in Connected' /\ x \notin Connected
                             \/ x \in Settled' /\ x \notin Settled
    BY <1>6
  <2> QED BY <1>1, <1>5, <2>1, IdsStep DEF Inv
<1> QED BY <1>3, <1>4, <1>7 DEF Inv

\* The handler answers the oldest request for its endpoint.
LEMMA ConnectFails ==
    ASSUME Inv, loop = "running", NEW s \in Req, sock[s] \in {"connecting", "orphan"},
           NEW closed \in {"closed", "reported"},
           Unpend(connTimer[s]), tm' = CancelTimer(tm, connTimer[s], s),
           sock' = [sock EXCEPT ![s] = closed], FailOldest(remote[s]),
           UNCHANGED <<accepted, loop, resolving, remote, connTimer, mapGetClient>>
    PROVE  Inv' /\ ServiceStep
<1> DEFINE i == OldestRequest(remote[s])
<1>1. NetInv /\ RequestInv /\ mapRequest \in Seq(Entry)
  BY DEF Inv, RequestInv, RequestTypes
<1>2. NetInv' /\ tm'.nTimerId = tm.nTimerId
  BY <1>1, NetConnectFails
<1>3. sock'[s] # "none" /\ \A p \in Req : p # s => sock'[p] = sock[p]
  BY <1>1 DEF NetInv, NetTypes
<1>4. CASE i = 0
  <2>1. UNCHANGED <<answers, mapRequest>>
    BY <1>4 DEF FailOldest
  <2>2. RequestInv' /\ ServiceStep /\ Entries' = Entries
    BY <1>1, <2>1, NobodyFails
  <2>3. \A e \in Entries : e.host # remote[s]
    BY <1>1, <1>4, OldestRequestIs
  <2> QED BY <1>2, <1>3, <2>2, <2>3, HandlerStep
<1>5. CASE i # 0
  <2>1. Post({mapRequest[i].req}) /\ mapRequest' = RemoveAt(mapRequest, i)
    BY <1>5 DEF FailOldest
  <2>2. /\ RequestInv' /\ ServiceStep /\ Entries' = Entries \ {mapRequest[i]}
        /\ mapRequest[i] \in Entries /\ mapRequest[i].host = remote[s]
    BY <1>1, <1>5, <2>1, OldestFails
  <2> QED BY <1>2, <1>3, <2>2, HandlerStep
<1> QED BY <1>4, <1>5

\* ClientFailToConnect.
LEMMA ClientFailToConnectKeeps ==
    ASSUME Inv, NEW s \in Req, ClientFailToConnect(s) PROVE Inv' /\ ServiceStep
  BY ConnectFails DEF ClientFailToConnect, ConnectDone

\* OrphanConnect.
LEMMA OrphanConnectKeeps ==
    ASSUME Inv, NEW s \in Req, OrphanConnect(s) PROVE Inv' /\ ServiceStep
  BY ConnectFails DEF OrphanConnect

\* ClientReset: the handler serves nobody, but goes on counting as one to come.
LEMMA ClientResetKeeps ==
    ASSUME Inv, NEW s \in Req, ClientReset(s) PROVE Inv' /\ ServiceStep
<1>1. /\ loop = "running" /\ sock[s] = "connecting" /\ Unpend(connTimer[s])
      /\ tm' = CancelTimer(tm, connTimer[s], s) /\ sock' = [sock EXCEPT ![s] = "reset"]
      /\ UNCHANGED <<accepted, answers, loop, resolving, remote, connTimer, mapRequest,
                     mapGetClient>>
  BY DEF ClientReset, ConnectDone
<1>2. NetInv /\ RequestInv
  BY DEF Inv
<1>3. NetInv' /\ tm'.nTimerId = tm.nTimerId
  BY <1>1, <1>2, NetConnectFails
<1>4. RequestInv' /\ ServiceStep /\ Entries' = Entries
  BY <1>1, <1>2, NobodyFails
<1>5. sock'[s] = "reset" /\ \A p \in Req : p # s => sock'[p] = sock[p]
  BY <1>1, <1>2 DEF NetInv, NetTypes
<1>6. Inv'
  BY <1>1, <1>3, <1>4, <1>5, QuietStep
<1> QED BY <1>4, <1>6

\* OrphanCrash: the state is frozen.
LEMMA OrphanCrashKeeps ==
    ASSUME Inv, NEW s \in Req, OrphanCrash(s) PROVE Inv' /\ ServiceStep
<1>1. /\ loop' = "crashed"
      /\ UNCHANGED <<accepted, answers, tm, resolving, sock, remote, connTimer, mapPending,
                     mapRequest, mapGetClient>>
  BY DEF OrphanCrash
<1>2. NetInv'
  BY <1>1, NetUnchanged DEF Inv
<1>3. Busy' = Busy /\ Conns' = Conns /\ Waiters' = Waiters /\ Entries' = Entries
  BY <1>1, BusySame, WaitersSame
<1>4. RequestTypes' /\ Distinct(mapRequest)'
  BY <1>1 DEF Inv, RequestInv, RequestTypes, Distinct
<1>5. OwedOnce'
  BY <1>1, <1>3 DEF Inv, RequestInv, OwedOnce, Owed, IsIdle
<1>6. SocketsFresh' /\ IdsCounted'
  BY <1>1, <1>3 DEF Inv, SocketsFresh, IdsCounted, Connected, Settled
<1>7. NoRequestStranded'
  BY <1>1 DEF NoRequestStranded
<1>8. ServiceStep
  BY <1>1 DEF ServiceStep
<1> QED BY <1>2, <1>4, <1>5, <1>6, <1>7, <1>8 DEF Inv, RequestInv

\* A connection is established and nobody waits for it.
LEMMA ConnectedForNobody ==
    ASSUME Inv, NEW s \in Req, ConnectDone(s), OldestRequest(remote[s]) = 0,
           tm' = CancelTimer(tm, connTimer[s], s), sock' = [sock EXCEPT ![s] = "closed"],
           UNCHANGED <<answers, mapRequest, mapGetClient>>
    PROVE  Inv' /\ ServiceStep
<1>1. /\ loop = "running" /\ sock[s] = "connecting" /\ Unpend(connTimer[s])
      /\ UNCHANGED <<accepted, loop, resolving, remote, connTimer>>
  BY DEF ConnectDone
<1>2. FailOldest(remote[s])
  BY DEF FailOldest
<1> QED BY <1>1, <1>2, ConnectFails

\* It takes the oldest request that waits for its endpoint.
LEMMA ConnectedAndTakes ==
    ASSUME Inv, NEW s \in Req, ConnectDone(s), NEW i, i = OldestRequest(remote[s]), i # 0,
           NEW r, r = mapRequest[i].req,
           tm' = SetTimer(CancelTimer(tm, connTimer[s], s), NonceOf[r], s),
           sock' = [sock EXCEPT ![s] = "open"],
           mapRequest' = RemoveAt(mapRequest, i),
           mapGetClient' = Append(mapGetClient, Active(s, r, tm')), UNCHANGED answers
    PROVE  Inv' /\ ServiceStep
<1> DEFINE c == [sock |-> s, nonce |-> NonceOf[r], timer |-> tm'.nTimerId, req |-> r,
                 stage |-> "write"]
<1>1. /\ loop = "running" /\ sock[s] = "connecting" /\ Unpend(connTimer[s])
      /\ UNCHANGED <<accepted, loop, resolving, remote, connTimer>>
      /\ mapGetClient' = Append(mapGetClient, c)
  BY DEF ConnectDone, Active
<1>2. /\ RequestTypes /\ OwedOnce /\ WaitOnce /\ CarriedOnce
      /\ Waiters \subseteq accepted /\ Busy \subseteq accepted /\ Waiters \cap Busy = {}
      /\ accepted \subseteq Req /\ mapRequest \in Seq(Entry) /\ Distinct(mapRequest)
      /\ resolving \subseteq Req
  BY OwedFacts DEF Inv
<1>3. i \in 1..Len(mapRequest) /\ mapRequest[i].host = remote[s]
  BY <1>2, OldestRequestIs
<1>4. /\ mapRequest' \in Seq(Entry) /\ Distinct(mapRequest)' /\ WaitOnce'
      /\ mapRequest[i] \in Entries
      /\ Entries' = Entries \ {mapRequest[i]} /\ Waiters' = Waiters \ {r}
  BY <1>2, <1>3, WaitersRemove
<1>5. r \in Waiters /\ r \in Req /\ NonceOf[r] \in Nat
  <2>1. r \in Waiters
    BY <1>4 DEF Waiters
  <2> QED BY <1>2, <2>1, HttpGetAssumption
<1>6. c.req = r /\ ~IsIdle(c)
  BY DEF IsIdle
<1>7. NetInv
  BY SMTT(30) DEF Inv
<1>8. NetInv' /\ Conns' = Conns \cup {c} /\ tm'.nTimerId <= tm.nTimerId + 1
  <2>1. c = [sock |-> s, nonce |-> NonceOf[r], timer |-> tm'.nTimerId, req |-> r,
             stage |-> "write"]
    OBVIOUS
  <2> HIDE DEF c
  <2> QED BY <1>1, <1>5, <1>7, <2>1, NetConnectSucceeds
<1> HIDE DEF c
<1>9. Busy' = Busy \cup {r} /\ CarriedOnce'
  <2>1. c.req \notin Busy
    BY <1>2, <1>5, <1>6
  <2>2. {} \in SUBSET Conns /\ Conns' = (Conns \ {}) \cup {c} /\ \A b \in {} : IsIdle(b)
    BY <1>8
  <2>3. Busy' = Busy \cup {c.req} /\ CarriedOnce'
    BY <1>2, <1>6, <2>1, <2>2, BusyAdds
  <2> QED BY <1>6, <2>3
<1>10. Post({})
  BY <1>2, PostNone
<1>11. RequestInv'
  <2>1. {} \in SUBSET (Req \ accepted) /\ {} \in SUBSET (Owed \cup {}) /\ accepted' = accepted \cup {}
    BY <1>1
  <2>2. /\ Waiters' \cup Busy' = (Waiters \cup Busy \cup {}) \ {}
        /\ Waiters' \cap Busy' = {}
    BY <1>2, <1>4, <1>5, <1>9
  <2>3. loop' \in {"running", "left", "crashed"} /\ resolving' \subseteq Req
    BY <1>1, <1>2
  <2> QED BY <1>2, <1>4, <1>9, <1>10, <2>1, <2>2, <2>3, RequestInvStep DEF Inv
<1>12. /\ sock'[s] = "open" /\ \A p \in Req : p # s => sock'[p] = sock[p]
  BY <1>7 DEF NetInv, NetTypes
<1>13. Inv'
  <2>1. sock[s] # "none" /\ sock'[s] # "none"
    BY <1>1, <1>12
  <2>2. \E f \in Entries : f.host = remote[s] /\ Entries' = Entries \ {f}
    BY <1>3, <1>4
  <2> QED BY <1>1, <1>8, <1>11, <1>12, <2>1, <2>2, HandlerStep
<1>14. ServiceStep
  BY <1>1 DEF ServiceStep
<1> QED BY <1>13, <1>14

\* ClientConnected, in both its ways.
LEMMA ClientConnectedKeeps ==
    ASSUME Inv, NEW s \in Req, ClientConnected(s) PROVE Inv' /\ ServiceStep
<1> DEFINE i == OldestRequest(remote[s])
           r == mapRequest[i].req
<1>1. CASE i = 0
  BY <1>1, ConnectedForNobody DEF ClientConnected
<1>2. CASE i # 0
  <2>1. /\ ConnectDone(s)
        /\ tm' = SetTimer(CancelTimer(tm, connTimer[s], s), NonceOf[r], s)
        /\ sock' = [sock EXCEPT ![s] = "open"]
        /\ mapRequest' = RemoveAt(mapRequest, i)
        /\ mapGetClient' = Append(mapGetClient, Active(s, r, tm')) /\ UNCHANGED answers
    BY <1>2 DEF ClientConnected
  <2>2. i = OldestRequest(remote[s]) /\ r = mapRequest[i].req
    OBVIOUS
  <2> HIDE DEF i, r
  <2> QED BY <1>2, <2>1, <2>2, ConnectedAndTakes
<1> QED BY <1>1, <1>2
-----------------------------------------------------------------------------
(* The connections: some of the requests they carry are answered.          *)
LEMMA TransferStep ==
    ASSUME Inv, loop = "running", NetInv', NEW A \in SUBSET Busy, Post(A), Busy' = Busy \ A,
           CarriedOnce', UNCHANGED <<accepted, loop, resolving, remote, mapRequest>>,
           \A s \in Req : sock[s] = "none" <=> sock'[s] = "none",
           \A s \in Req : sock[s] \in {"connecting", "orphan", "reset"} =>
                          sock'[s] \in {"connecting", "orphan", "reset"},
           tm'.nTimerId = tm.nTimerId
    PROVE  Inv' /\ ServiceStep
<1>1. /\ RequestTypes /\ OwedOnce /\ WaitOnce /\ CarriedOnce
      /\ Waiters \subseteq accepted /\ Busy \subseteq accepted /\ Waiters \cap Busy = {}
      /\ accepted \subseteq Req /\ mapRequest \in Seq(Entry) /\ Distinct(mapRequest)
      /\ resolving \subseteq Req
  BY OwedFacts DEF Inv
<1>2. Waiters' = Waiters /\ Entries' = Entries /\ WaitOnce'
  BY <1>1, WaitersSame DEF WaitOnce
<1>3. RequestInv'
  <2>1. /\ {} \in SUBSET (Req \ accepted) /\ A \in SUBSET (Owed \cup {})
        /\ accepted' = accepted \cup {}
    BY DEF Owed
  <2>2. /\ Waiters' \cup Busy' = (Waiters \cup Busy \cup {}) \ A
        /\ Waiters' \cap Busy' = {}
    BY <1>1, <1>2
  <2>3. /\ mapRequest' \in Seq(Entry) /\ Distinct(mapRequest)'
        /\ loop' \in {"running", "left", "crashed"} /\ resolving' \subseteq Req
    BY <1>1 DEF Distinct
  <2> QED BY <1>1, <1>2, <2>1, <2>2, <2>3, RequestInvStep DEF Inv
<1>4. Inv'
  BY <1>2, <1>3, QuietStep
<1>5. ServiceStep
  <2>1. A \in SUBSET Owed
    BY DEF Owed
  <2> QED BY <1>1, <2>1, Responds
<1> QED BY <1>4, <1>5

\* ClientProceeds.
LEMMA ClientProceedsKeeps ==
    ASSUME Inv, NEW i \in DOMAIN mapGetClient, ClientProceeds(i) PROVE Inv' /\ ServiceStep
<1>1. /\ loop = "running"
      /\ UNCHANGED <<accepted, answers, loop, tm, resolving, sock, remote, connTimer, mapPending,
                     mapRequest>>
  BY DEF ClientProceeds
<1>2. PICK stage \in NextStage(mapGetClient[i].stage) :
          mapGetClient' = [mapGetClient EXCEPT ![i].stage = stage]
  BY DEF ClientProceeds
<1>3. stage \in Stages \ {"idle"} /\ ~IsIdle(mapGetClient[i])
  BY <1>2 DEF NextStage, Stages, IsIdle
<1>4. NetInv /\ RequestTypes /\ CarriedOnce
  BY OwedFacts DEF Inv
<1> DEFINE b == mapGetClient[i]
           c == [b EXCEPT !.stage = stage]
<1>5. /\ NetInv' /\ Conns' = (Conns \ {b}) \cup {c}
      /\ b \in Conns /\ c.req = b.req /\ ~IsIdle(c) /\ ~IsIdle(b)
  <2>1. c = [mapGetClient[i] EXCEPT !.stage = stage]
    OBVIOUS
  <2> HIDE DEF c
  <2> QED BY <1>1, <1>2, <1>3, <1>4, <2>1, NetProceeds
<1> HIDE DEF b, c
<1>6. Busy' = Busy /\ CarriedOnce'
  BY <1>4, <1>5, BusyStays
<1>7. Post({}) /\ {} \in SUBSET Busy /\ Busy' = Busy \ {}
  BY <1>1, <1>4, <1>6, PostNone
<1> QED BY <1>1, <1>5, <1>6, <1>7, TransferStep

\* ClientCompleted: the request is answered and the connection idle.
LEMMA ClientCompletedKeeps ==
    ASSUME Inv, NEW i \in DOMAIN mapGetClient, ClientCompleted(i) PROVE Inv' /\ ServiceStep
<1> DEFINE b == mapGetClient[i]
           c == [b EXCEPT !.stage = "idle"]
<1>1. /\ loop = "running" /\ b.stage \in {"header", "payload", "chunked"}
      /\ tm' = CancelTimer(tm, b.timer, b.sock) /\ Post({b.req})
      /\ mapGetClient' = [mapGetClient EXCEPT ![i].stage = "idle"]
      /\ UNCHANGED <<accepted, loop, resolving, sock, remote, connTimer, mapPending, mapRequest>>
  BY DEF ClientCompleted
<1>2. NetInv /\ RequestTypes /\ CarriedOnce
  BY OwedFacts DEF Inv
<1>3. /\ NetInv' /\ tm'.nTimerId = tm.nTimerId
      /\ Conns' = (Conns \ {b}) \cup {c} /\ b \in Conns /\ b \in Conn
  <2>1. b = mapGetClient[i] /\ c = [b EXCEPT !.stage = "idle"]
    OBVIOUS
  <2> HIDE DEF b, c
  <2> QED BY <1>1, <1>2, <2>1, NetCompletes
<1>4. ~IsIdle(b) /\ IsIdle(c)
  BY <1>1, <1>3 DEF IsIdle, Conn
<1> HIDE DEF b, c
<1>5. Busy' = Busy \ {b.req} /\ CarriedOnce'
  <2>1. \A d \in {c} : IsIdle(d)
    BY <1>4
  <2>2. Carried(b) = {b.req}
    BY <1>4 DEF Carried
  <2>3. Busy' = Busy \ Carried(b) /\ CarriedOnce'
    BY <1>2, <1>3, <2>1, BusyEnds
  <2> QED BY <2>2, <2>3
<1>6. {b.req} \in SUBSET Busy
  BY <1>3, <1>4 DEF Busy, Conns
<1> QED BY <1>1, <1>3, <1>5, <1>6, TransferStep

\* CloseConn, whoever calls it.
LEMMA CloseConnKeeps ==
    ASSUME Inv, NEW i \in DOMAIN mapGetClient, NEW closed \in {"closed", "closing"},
           CloseConn(i, closed), loop = "running",
           UNCHANGED <<accepted, loop, resolving, remote, connTimer, mapPending, mapRequest>>
    PROVE  Inv' /\ ServiceStep
<1> DEFINE b == mapGetClient[i]
<1>1. /\ tm' = CancelTimer(tm, b.timer, b.sock) /\ Post(Carried(b))
      /\ mapGetClient' = RemoveAt(mapGetClient, i)
      /\ sock' = [sock EXCEPT ![b.sock] = closed]
  BY DEF CloseConn, Carried
<1>2. NetInv /\ RequestTypes /\ CarriedOnce
  BY OwedFacts DEF Inv
<1>3. /\ NetInv' /\ tm'.nTimerId = tm.nTimerId
      /\ Conns' = Conns \ {b} /\ b \in Conns /\ b \in Conn /\ sock[b.sock] = "open"
  <2>1. b = mapGetClient[i]
    OBVIOUS
  <2> HIDE DEF b
  <2> QED BY <1>1, <1>2, <2>1, NetCloses
<1> HIDE DEF b
<1>4. Busy' = Busy \ Carried(b) /\ CarriedOnce'
  <2> DEFINE C == {}
  <2>1. Conns' = (Conns \ {b}) \cup C /\ \A d \in C : IsIdle(d)
    BY <1>3
  <2> HIDE DEF C
  <2> QED BY <1>2, <1>3, <2>1, BusyEnds
<1>5. Carried(b) \in SUBSET Busy
  BY <1>3 DEF Busy, Conns, Carried
<1>6. \A p \in Req : p # b.sock => sock'[p] = sock[p]
  BY <1>1, <1>2 DEF NetInv, NetTypes
<1>7. b.sock \in Req /\ sock'[b.sock] = closed
  BY <1>1, <1>2, <1>3 DEF NetInv, NetTypes, Conn
<1>8. /\ \A s \in Req : sock[s] = "none" <=> sock'[s] = "none"
      /\ \A s \in Req : sock[s] \in {"connecting", "orphan", "reset"} =>
                        sock'[s] \in {"connecting", "orphan", "reset"}
  BY <1>3, <1>6, <1>7
<1> QED BY <1>1, <1>3, <1>4, <1>5, <1>8, TransferStep

\* ClientCompletedClose.
LEMMA ClientCompletedCloseKeeps ==
    ASSUME Inv, NEW i \in DOMAIN mapGetClient, ClientCompletedClose(i)
    PROVE  Inv' /\ ServiceStep
  BY CloseConnKeeps DEF ClientCompletedClose

\* ClientError.
LEMMA ClientErrorKeeps ==
    ASSUME Inv, NEW i \in DOMAIN mapGetClient, ClientError(i) PROVE Inv' /\ ServiceStep
  BY CloseConnKeeps DEF ClientError

\* Only the network changes.
LEMMA NetOnly ==
    ASSUME Inv, loop = "running", NetInv', tm'.nTimerId = tm.nTimerId,
           UNCHANGED <<accepted, answers, loop, resolving, remote, mapRequest, mapGetClient>>,
           \A s \in Req : sock[s] = "none" <=> sock'[s] = "none",
           \A s \in Req : sock[s] \in {"connecting", "orphan", "reset"} =>
                          sock'[s] \in {"connecting", "orphan", "reset"}
    PROVE  Inv' /\ ServiceStep
<1>1. RequestTypes /\ CarriedOnce
  BY OwedFacts DEF Inv
<1>2. Busy' = Busy /\ CarriedOnce'
  BY <1>1, BusySame DEF CarriedOnce, IsIdle
<1>3. Post({}) /\ {} \in SUBSET Busy /\ Busy' = Busy \ {}
  BY <1>1, <1>2, PostNone
<1> QED BY <1>2, <1>3, TransferStep

\* ClosedOperation.
LEMMA ClosedOperationKeeps ==
    ASSUME Inv, NEW s \in Req, ClosedOperation(s) PROVE Inv' /\ ServiceStep
<1>1. /\ loop = "running" /\ sock[s] = "closing" /\ sock' = [sock EXCEPT ![s] = "closed"]
      /\ UNCHANGED <<accepted, answers, loop, tm, resolving, remote, connTimer, mapPending,
                     mapRequest, mapGetClient>>
  BY DEF ClosedOperation
<1>2. NetInv' /\ NetInv
  BY <1>1, NetReleases DEF Inv
<1>3. /\ \A p \in Req : p # s => sock'[p] = sock[p]
      /\ sock'[s] = "closed"
  BY <1>1, <1>2 DEF NetInv, NetTypes
<1>4. /\ \A p \in Req : sock[p] = "none" <=> sock'[p] = "none"
      /\ \A p \in Req : sock[p] \in {"connecting", "orphan", "reset"} =>
                        sock'[p] \in {"connecting", "orphan", "reset"}
  BY <1>1, <1>3
<1> QED BY <1>1, <1>2, <1>4, NetOnly

\* ConnectTimeout: of a connection being set up, or of nothing.
LEMMA ConnectTimeoutKeeps ==
    ASSUME Inv, NEW t \in TimerIds, ConnectTimeout(t) PROVE Inv' /\ ServiceStep
<1>1. /\ loop = "running" /\ t \in Live(tm) /\ tm.byId[t].nonce = 0 /\ Unpend(t)
      /\ UNCHANGED <<accepted, answers, loop, resolving, remote, connTimer, mapRequest,
                     mapGetClient>>
  BY DEF ConnectTimeout
<1>2. NetInv
  BY DEF Inv
<1>3. CASE t \in DOMAIN mapPending
  <2> DEFINE s == mapPending[t]
  <2>1. tm' = CancelTimer(tm, t, s) /\ sock' = [sock EXCEPT ![s] = "orphan"]
    BY <1>3 DEF ConnectTimeout
  <2>2. NetInv' /\ tm'.nTimerId = tm.nTimerId /\ s \in Req /\ sock[s] = "connecting"
    <3>1. s = mapPending[t]
      OBVIOUS
    <3> HIDE DEF s
    <3> QED BY <1>1, <1>2, <1>3, <2>1, <3>1, NetConnectTimesOut
  <2> HIDE DEF s
  <2>3. /\ \A p \in Req : p # s => sock'[p] = sock[p]
        /\ sock'[s] = "orphan"
    BY <1>2, <2>1, <2>2 DEF NetInv, NetTypes
  <2>4. /\ \A p \in Req : sock[p] = "none" <=> sock'[p] = "none"
        /\ \A p \in Req : sock[p] \in {"connecting", "orphan", "reset"} =>
                          sock'[p] \in {"connecting", "orphan", "reset"}
    BY <2>2, <2>3
  <2> QED BY <1>1, <2>2, <2>4, NetOnly
<1>4. CASE t \notin DOMAIN mapPending
  <2>1. tm' = CancelTimer(tm, t, tm.byId[t].sock) /\ UNCHANGED sock
    BY <1>4 DEF ConnectTimeout
  <2>3. NetInv' /\ tm'.nTimerId = tm.nTimerId
    BY <1>1, <1>2, <1>4, <2>1, NetTimerDropped
  <2> QED BY <1>1, <2>1, <2>3, NetOnly
<1> QED BY <1>3, <1>4

\* ResponseTimeout: the client it finds is closed, or there is none.
LEMMA ResponseTimeoutKeeps ==
    ASSUME Inv, NEW t \in TimerIds, ResponseTimeout(t) PROVE Inv' /\ ServiceStep
<1> DEFINE i == ClientTimedBy(tm.byId[t].nonce, t)
<1>1. /\ loop = "running" /\ t \in Live(tm) /\ tm.byId[t].nonce # 0
      /\ UNCHANGED <<accepted, loop, resolving, remote, connTimer, mapPending, mapRequest>>
  BY DEF ResponseTimeout
<1>2. NetInv /\ mapGetClient \in Seq(Conn)
  BY DEF Inv, NetInv, NetTypes
<1>3. CASE i = 0
  <2>1. tm' = CancelTimer(tm, t, tm.byId[t].sock) /\ UNCHANGED <<answers, sock, mapGetClient>>
    BY <1>3 DEF ResponseTimeout
  <2>2. NetInv' /\ tm'.nTimerId = tm.nTimerId
    BY <1>1, <1>2, <2>1, NetTimerDropped
  <2> QED BY <1>1, <2>1, <2>2, NetOnly
<1>4. CASE i # 0
  <2>1. CloseConn(i, CloseState(i))
    BY <1>4 DEF ResponseTimeout
  <2>2. i \in 1..Len(mapGetClient)
    BY <1>2, <1>4, ClientTimedByIs
  <2>3. i \in DOMAIN mapGetClient
    BY <1>2, <2>2
  <2>4. CloseState(i) \in {"closed", "closing"}
    BY DEF CloseState
  <2> HIDE DEF i
  <2> QED BY <1>1, <2>1, <2>3, <2>4, CloseConnKeeps
<1> QED BY <1>3, <1>4
-----------------------------------------------------------------------------
(* The abort of a nonce and the end of the loop.                           *)
LEMMA AbortKeeps ==
    ASSUME Inv, NEW nonce \in AbortNonces, Abort(nonce) PROVE Inv' /\ ServiceStep
<1> DEFINE i == FirstClient(nonce)
           b == mapGetClient[i]
           gone == {q \in Waiting(Host) : NonceOf[q] = nonce}
           running == IF i = 0 \/ IsIdle(b) THEN {} ELSE {b.req}
           I == {j \in DOMAIN mapRequest : NonceOf[mapRequest[j].req] # nonce}
<1>1. /\ loop = "running"
      /\ Post(gone \cup running) /\ mapRequest' = Keep(mapRequest, I)
      /\ UNCHANGED <<accepted, loop, resolving, remote, connTimer, mapPending>>
  BY DEF Abort
<1>2. /\ RequestTypes /\ OwedOnce /\ WaitOnce /\ CarriedOnce
      /\ Waiters \subseteq accepted /\ Busy \subseteq accepted /\ Waiters \cap Busy = {}
      /\ accepted \subseteq Req /\ mapRequest \in Seq(Entry) /\ Distinct(mapRequest)
      /\ resolving \subseteq Req
  BY OwedFacts DEF Inv
<1>3. NetInv /\ mapGetClient \in Seq(Conn)
  BY DEF Inv, NetInv, NetTypes
<1>4. /\ mapRequest' \in Seq(Entry) /\ Distinct(mapRequest)' /\ WaitOnce'
      /\ Entries' = {mapRequest[j] : j \in I} /\ Entries' \subseteq Entries
  BY <1>1, <1>2, WaitersKeep
<1>5. Entries' = {e \in Entries : NonceOf[e.req] # nonce}
  BY <1>4 DEF Entries, ToSet
<1>6. gone = {q \in Waiters : NonceOf[q] = nonce}
  BY <1>2, WaitingAnywhere
<1>7. Waiters' = Waiters \ gone /\ gone \subseteq Waiters
  BY <1>5, <1>6 DEF Waiters
<1> HIDE DEF gone, I
<1>8. /\ NetInv' /\ tm'.nTimerId = tm.nTimerId
      /\ Busy' = Busy \ running /\ running \subseteq Busy /\ CarriedOnce'
      /\ \A s \in Req : sock[s] = "none" <=> sock'[s] = "none"
      /\ \A s \in Req : sock[s] \in {"connecting", "orphan", "reset"} =>
                        sock'[s] \in {"connecting", "orphan", "reset"}
  <2>1. CASE i = 0
    <3>1. UNCHANGED <<tm, sock, mapGetClient>> /\ running = {}
      BY <2>1 DEF Abort
    <3>2. NetInv'
      BY <1>1, <1>3, <3>1, NetUnchanged
    <3>3. Busy' = Busy /\ CarriedOnce'
      BY <1>2, <3>1, BusySame DEF CarriedOnce, IsIdle
    <3> QED BY <3>1, <3>2, <3>3
  <2>2. CASE i # 0
    <3>1. /\ tm' = CancelTimer(tm, b.timer, b.sock)
          /\ mapGetClient' = RemoveAt(mapGetClient, i)
          /\ sock' = [sock EXCEPT ![b.sock] = CloseState(i)]
      BY <2>2 DEF Abort
    <3>2. running = Carried(b)
      BY <2>2 DEF Carried
    <3>3. CloseState(i) \in {"closed", "closing"}
      BY DEF CloseState
    <3>4. i \in DOMAIN mapGetClient
      <4>1. i \in 1..Len(mapGetClient)
        BY <1>3, <2>2, FirstClientIs
      <4> QED BY <1>3, <4>1
    <3> HIDE DEF i, running
    <3>5. /\ NetInv' /\ tm'.nTimerId = tm.nTimerId
          /\ Conns' = Conns \ {b} /\ b \in Conns /\ b \in Conn /\ sock[b.sock] = "open"
      <4>1. b = mapGetClient[i]
        OBVIOUS
      <4> HIDE DEF b
      <4> QED BY <1>1, <1>3, <3>1, <3>3, <3>4, <4>1, NetCloses
    <3> HIDE DEF b
    <3>6. Busy' = Busy \ Carried(b) /\ CarriedOnce'
      <4> DEFINE C == {}
      <4>1. Conns' = (Conns \ {b}) \cup C /\ \A d \in C : IsIdle(d)
        BY <3>5
      <4> HIDE DEF C
      <4> QED BY <1>2, <3>5, <4>1, BusyEnds
    <3>7. Carried(b) \in SUBSET Busy
      BY <3>5 DEF Busy, Conns, Carried
    <3>8. \A p \in Req : p # b.sock => sock'[p] = sock[p]
      BY <1>3, <3>1 DEF NetInv, NetTypes
    <3>9. b.sock \in Req /\ sock'[b.sock] \in {"closed", "closing"}
      BY <1>3, <3>1, <3>3, <3>5 DEF NetInv, NetTypes, Conn
    <3> QED BY <3>2, <3>5, <3>6, <3>7, <3>8, <3>9
  <2> QED BY <2>1, <2>2
<1> HIDE DEF running
<1>9. RequestInv'
  <2> DEFINE A == gone \cup running
  <2>1. /\ {} \in SUBSET (Req \ accepted) /\ A \in SUBSET (Owed \cup {})
        /\ accepted' = accepted \cup {}
    BY <1>1, <1>7, <1>8 DEF Owed
  <2>2. /\ Waiters' \cup Busy' = (Waiters \cup Busy \cup {}) \ A
        /\ Waiters' \cap Busy' = {}
    BY <1>2, <1>7, <1>8
  <2>3. loop' \in {"running", "left", "crashed"} /\ resolving' \subseteq Req
    BY <1>1, <1>2
  <2>4. Post(A)
    BY <1>1
  <2> HIDE DEF A
  <2> QED BY <1>4, <1>8, <2>1, <2>2, <2>3, <2>4, RequestInvStep DEF Inv
<1>10. Inv'
  BY <1>1, <1>4, <1>8, <1>9, QuietStep
<1>11. ServiceStep
  <2>1. gone \cup running \in SUBSET Owed
    BY <1>7, <1>8 DEF Owed
  <2> QED BY <1>1, <1>2, <2>1, Responds
<1> QED BY <1>10, <1>11

\* LeaveLoop: all that is owed is answered.
LEMMA LeaveLoopKeeps ==
    ASSUME Inv, LeaveLoop PROVE Inv' /\ ServiceStep
<1>1. /\ loop' = "left" /\ resolving' = {} /\ mapRequest' = <<>> /\ mapGetClient' = <<>>
      /\ mapPending' = <<>> /\ tm' = [tm EXCEPT !.byId = <<>>]
      /\ sock' = [s \in Req |-> IF s \in InUse THEN "closed" ELSE sock[s]]
      /\ Post(Waiting(Host) \cup Busy) /\ UNCHANGED <<accepted, remote, connTimer>>
  BY DEF LeaveLoop
<1>2. /\ RequestTypes /\ OwedOnce /\ accepted \subseteq Req /\ mapRequest \in Seq(Entry)
  BY OwedFacts DEF Inv
<1>3. NetInv' /\ Conns' = {} /\ tm'.nTimerId = tm.nTimerId
  BY <1>1, NetLeaves DEF Inv
<1>4. Entries' = {} /\ Waiters' = {} /\ Busy' = {}
  BY <1>1 DEF Entries, Waiters, Busy, ToSet
<1>5. Waiting(Host) \cup Busy = Owed
  BY <1>2, WaitingAnywhere DEF Owed
<1>6. Post(Owed)
  BY <1>1, <1>5
<1>7. RequestInv' /\ RequestTypes'
  <2>1. {} \in SUBSET (Req \ accepted) /\ Owed \in SUBSET (Owed \cup {}) /\ accepted' = accepted \cup {}
    BY <1>1
  <2>2. /\ Waiters' \cup Busy' = (Waiters \cup Busy \cup {}) \ Owed
        /\ Waiters' \cap Busy' = {}
    BY <1>4 DEF Owed
  <2>3. WaitOnce' /\ CarriedOnce'
    BY <1>3, <1>4 DEF WaitOnce, CarriedOnce
  <2>4. /\ mapRequest' \in Seq(Entry) /\ Distinct(mapRequest)'
        /\ loop' \in {"running", "left", "crashed"} /\ resolving' \subseteq Req
    BY <1>1 DEF Distinct
  <2> QED BY <1>6, <2>1, <2>2, <2>3, <2>4, RequestInvStep DEF Inv
<1>8. ServiceStep
  <2>1. Owed \in SUBSET Owed
    OBVIOUS
  <2> QED BY <1>1, <1>2, <1>6, <2>1, Responds
<1>9. \A s \in Req : sock'[s] = "none" <=> sock[s] = "none"
  BY <1>1 DEF InUse
<1>10. SocketsFresh'
  BY <1>1, <1>4, <1>9 DEF Inv, SocketsFresh
<1>11. NoRequestStranded'
  BY <1>1 DEF NoRequestStranded
<1>12. IdsCounted'
  <2>1. Settled \subseteq Settled' /\ Connected \subseteq Connected'
    BY <1>1, <1>4, <1>9 DEF Settled, Connected
  <2>2. TimersOK(tm) /\ TimersOK(tm')
    BY <1>3 DEF Inv, NetInv, NetTypes
  <2> HIDE DEF Settled, Connected
  <2> QED BY <1>2, <1>3, <1>7, <2>1, <2>2, IdsStep DEF Inv
<1> QED BY <1>3, <1>7, <1>8, <1>10, <1>11, <1>12 DEF Inv
-----------------------------------------------------------------------------
(* The induction.                                                          *)
LEMMA InitInv == Init => Inv
<1> SUFFICES ASSUME Init PROVE Inv
  OBVIOUS
<1>1. /\ accepted = {} /\ answers = [r \in Req |-> 0] /\ loop = "running" /\ tm = NoTimers
      /\ resolving = {} /\ sock = [s \in Req |-> "none"] /\ remote = HostOf
      /\ connTimer = [s \in Req |-> 0] /\ mapPending = <<>> /\ mapRequest = <<>>
      /\ mapGetClient = <<>>
  BY DEF Init
<1>2. /\ tm.nTimerId = 0 /\ tm.byId = <<>> /\ tm.robbed = {} /\ Live(tm) = {}
      /\ tm = [nTimerId |-> tm.nTimerId, byId |-> tm.byId, robbed |-> tm.robbed]
  BY <1>1 DEF NoTimers, Live
<1>3. TimersOK(tm)
  BY <1>2 DEF TimersOK
<1>4. Conns = {} /\ Entries = {} /\ Busy = {} /\ Waiters = {}
  BY <1>1 DEF Conns, Entries, Busy, Waiters, ToSet
<1>5. NetTypes
  BY <1>1, <1>3, HttpGetAssumption DEF NetTypes, SockStates
<1>6. IdsGiven /\ Distinct(mapGetClient) /\ ConnsOpen
  BY <1>1, <1>2, <1>4 DEF IdsGiven, Distinct, ConnsOpen
<1>7. PendingIsTimed /\ ConnTimed /\ ConnectWatched /\ NoTimerLeak
  BY <1>1, <1>2 DEF PendingIsTimed, ConnTimed, ConnectWatched, NoTimerLeak
<1>8. RequestInv
  BY <1>1, <1>4 DEF RequestInv, RequestTypes, Distinct, OwedOnce, Owed
<1>9. SocketsFresh
  BY <1>1, <1>4 DEF SocketsFresh
<1>10. NoRequestStranded
  <2>1. ASSUME NEW h \in Host
        PROVE  Waiting({h}) = {} /\ Handlers(h) = {}
    BY <1>1, <1>4, WaitingIs DEF Handlers
  <2> QED BY <2>1, FS_EmptySet DEF NoRequestStranded
<1>11. IdsCounted
  <2>1. Connected = {} /\ Settled = {}
    BY <1>1 DEF Connected, Settled
  <2> QED BY <1>2, <2>1, FS_EmptySet DEF IdsCounted
<1> QED BY <1>5, <1>6, <1>7, <1>8, <1>9, <1>10, <1>11 DEF Inv, NetInv

\* Every step keeps the invariant and is a step of the service, or none.
LEMMA NextInv == Inv /\ [Next]_vars => Inv' /\ ServiceStep
<1> SUFFICES ASSUME Inv, [Next]_vars PROVE Inv' /\ ServiceStep
  OBVIOUS
<1>1. ASSUME NEW r \in Req, Requests(r)
      PROVE  Inv' /\ ServiceStep
  BY <1>1, RequestOnIdleKeeps, RequestOnBusyKeeps, RequestConnectsKeeps, RequestRefusedKeeps,
     RequestResolvesKeeps DEF Requests
<1>2. ASSUME NEW r \in Req, Resolver(r)
      PROVE  Inv' /\ ServiceStep
  BY <1>2, HostResolvedKeeps, HostFailToResolveKeeps DEF Resolver
<1>3. ASSUME NEW s \in Req, ConnectEnds(s)
      PROVE  Inv' /\ ServiceStep
  BY <1>3, ClientConnectedKeeps, ClientResetKeeps, ClientFailToConnectKeeps DEF ConnectEnds
<1>4. ASSUME NEW s \in Req, Orphan(s)
      PROVE  Inv' /\ ServiceStep
  BY <1>4, OrphanConnectKeeps, OrphanCrashKeeps DEF Orphan
<1>5. ASSUME NEW s \in Req, ClosedOperation(s)
      PROVE  Inv' /\ ServiceStep
  BY <1>5, ClosedOperationKeeps
<1>6. CASE Transfer
  BY <1>6, ClientProceedsKeeps, ClientCompletedKeeps, ClientCompletedCloseKeeps,
     ClientErrorKeeps DEF Transfer
<1>7. ASSUME NEW t \in TimerIds, PollTimer(t)
      PROVE  Inv' /\ ServiceStep
  BY <1>7, ConnectTimeoutKeeps, ResponseTimeoutKeeps DEF PollTimer
<1>8. ASSUME NEW nonce \in AbortNonces, Abort(nonce)
      PROVE  Inv' /\ ServiceStep
  BY <1>8, AbortKeeps
<1>9. CASE LeaveLoop
  BY <1>9, LeaveLoopKeeps
<1>10. CASE UNCHANGED vars
  <2>1. UNCHANGED <<accepted, answers, loop, tm, resolving, sock, remote, connTimer,
                    mapPending, mapRequest, mapGetClient>>
    BY <1>10 DEF vars
  <2>2. NetInv'
    BY <2>1, NetUnchanged DEF Inv
  <2>3. RequestInv' /\ ServiceStep /\ Entries' = Entries /\ Waiters' = Waiters
    <3>1. resolving' \subseteq resolving
      BY <2>1
    <3> QED BY <2>1, <3>1, NobodyFails DEF Inv
  <2>4. SocketsFresh' /\ IdsCounted'
    BY <2>1, <2>3 DEF Inv, SocketsFresh, IdsCounted, Connected, Settled
  <2>5. NoRequestStranded'
    BY <2>1 DEF Inv, NoRequestStranded, Waiting, Handlers
  <2> QED BY <2>2, <2>3, <2>4, <2>5 DEF Inv
<1> QED
  BY <1>1, <1>2, <1>3, <1>4, <1>5, <1>6, <1>7, <1>8, <1>9, <1>10 DEF Next

\* The invariant holds in every behaviour.
LEMMA Invariant == Spec => []Inv
<1>1. Init => Inv
  BY InitInv
<1>2. Inv /\ [Next]_vars => Inv'
  BY NextInv
<1> QED BY <1>1, <1>2, PTL DEF Spec
-----------------------------------------------------------------------------
(* What follows from the invariant.                                        *)

\* The bound of the timer ids: sockets used and requests settled are at most all the
\* requests.
LEMMA InvTypes == Inv => TypeOK
<1> SUFFICES ASSUME Inv PROVE TypeOK
  OBVIOUS
<1> DEFINE n == Cardinality(Req)
<1>1. IsFiniteSet(Req)
  BY HttpGetAssumption
<1>2. n \in Nat /\ TimerIds = 1..2 * n
  BY <1>1, FS_CardinalityType DEF TimerIds
<1>3. Cardinality(Connected) <= n /\ Cardinality(Settled) <= n
      /\ Cardinality(Connected) \in Nat /\ Cardinality(Settled) \in Nat
  <2>1. Connected \in SUBSET Req /\ Settled \in SUBSET Req
    BY DEF Inv, RequestInv, RequestTypes, Connected, Settled
  <2> HIDE DEF Connected, Settled
  <2> QED BY <1>1, <2>1, FS_Subset, FS_CardinalityType
<1>4. tm.nTimerId \in Nat /\ tm.nTimerId <= 2 * n
  <2>1. tm.nTimerId \in Nat /\ tm.nTimerId <= Cardinality(Connected) + Cardinality(Settled)
    BY DEF Inv, NetInv, NetTypes, TimersOK, IdsCounted
  <2> QED BY <1>2, <1>3, <2>1
<1> HIDE DEF n
<1>5. \A k \in Nat : k <= tm.nTimerId => k \in TimerIds \cup {0}
  BY <1>2, <1>4
<1>6. 1..tm.nTimerId \subseteq TimerIds
  BY <1>2, <1>4
<1>7. RequestTypes /\ NetTypes /\ IdsGiven
  BY DEF Inv, NetInv, RequestInv
<1>8. /\ tm.nTimerId \in TimerIds \cup {0}
      /\ Live(tm) \subseteq TimerIds
      /\ \A t \in Live(tm) : tm.byId[t] \in [nonce : Nat, sock : Req]
      /\ tm.robbed \subseteq Req
  BY <1>4, <1>5, <1>6, <1>7 DEF NetTypes, TimersOK
<1>9. connTimer \in [Req -> TimerIds \cup {0}]
  BY <1>5, <1>7 DEF NetTypes, IdsGiven
<1>10. DOMAIN mapPending \subseteq TimerIds
  BY <1>6, <1>7 DEF IdsGiven
<1>11. mapGetClient \in Seq(Client)
  <2>1. mapGetClient \in Seq(Conn)
    BY <1>7 DEF NetTypes
  <2>2. \A k \in 1..Len(mapGetClient) : mapGetClient[k] \in Conns /\ mapGetClient[k] \in Conn
    BY <2>1 DEF Conns, ToSet
  <2>3. \A c \in Conns : c.timer \in TimerIds
    BY <1>6, <1>7 DEF IdsGiven
  <2>4. \A k \in 1..Len(mapGetClient) : mapGetClient[k] \in Client
    BY <2>2, <2>3 DEF Conn, Client, Stages
  <2> QED BY <2>1, <2>4
<1> QED BY <1>7, <1>8, <1>9, <1>10, <1>11 DEF TypeOK, RequestTypes, NetTypes, SockStates, Entry

\* Held once: the one position at which a request owed is found.
LEMMA InvHeld == Inv => RequestsKept
<1> SUFFICES ASSUME Inv PROVE EveryRequestHeld /\ NoRequestStranded
  BY DEF RequestsKept
<1>1. /\ RequestTypes /\ OwedOnce /\ WaitOnce /\ CarriedOnce
      /\ Waiters \cap Busy = {} /\ accepted \subseteq Req
      /\ Distinct(mapRequest) /\ Distinct(mapGetClient)
  BY OwedFacts DEF Inv, NetInv
<1>2. ASSUME NEW r \in accepted
      PROVE  Places(r) = (IF answers[r] = 0 THEN 1 ELSE 0)
  <2> DEFINE W == {i \in DOMAIN mapRequest : mapRequest[i].req = r}
             C == {i \in DOMAIN mapGetClient : mapGetClient[i].req = r /\ ~IsIdle(mapGetClient[i])}
  <2>1. Places(r) = Cardinality(W) + Cardinality(C)
    BY DEF Places
  <2>2. answers[r] = 0 <=> r \in Waiters \/ r \in Busy
    BY <1>1 DEF OwedOnce, Owed
  <2>3. r \notin Waiters => W = {}
    BY DEF Waiters, Entries, ToSet
  <2>4. r \notin Busy => C = {}
    BY DEF Busy, ToSet
  <2>5. r \in Waiters => \E i : W = {i}
    <3>1. SUFFICES ASSUME r \in Waiters PROVE \E i : W = {i}
      OBVIOUS
    <3>2. PICK i \in DOMAIN mapRequest : mapRequest[i].req = r
      BY <3>1 DEF Waiters, Entries, ToSet
    <3>3. \A j \in DOMAIN mapRequest : mapRequest[j].req = r => j = i
      BY <1>1, <3>2 DEF WaitOnce, Entries, ToSet, Distinct
    <3> QED BY <3>2, <3>3
  <2>6. r \in Busy => \E i : C = {i}
    <3>1. SUFFICES ASSUME r \in Busy PROVE \E i : C = {i}
      OBVIOUS
    <3>2. PICK i \in DOMAIN mapGetClient : mapGetClient[i].req = r /\ ~IsIdle(mapGetClient[i])
      BY <3>1 DEF Busy, ToSet
    <3>3. \A j \in DOMAIN mapGetClient :
             mapGetClient[j].req = r /\ ~IsIdle(mapGetClient[j]) => j = i
      BY <1>1, <3>2 DEF CarriedOnce, Conns, ToSet, Distinct
    <3> QED BY <3>2, <3>3
  <2> HIDE DEF W, C
  <2>7. /\ W = {} => Cardinality(W) = 0
        /\ C = {} => Cardinality(C) = 0
        /\ (\E i : W = {i}) => Cardinality(W) = 1
        /\ (\E i : C = {i}) => Cardinality(C) = 1
    BY FS_EmptySet, FS_Singleton
  <2>8. ~ (r \in Waiters /\ r \in Busy)
    BY <1>1
  <2>9. CASE r \in Waiters
    <3>1. Cardinality(W) = 1 /\ Cardinality(C) = 0
      BY <2>4, <2>5, <2>7, <2>8, <2>9
    <3> QED BY <2>1, <2>2, <2>9, <3>1
  <2>10. CASE r \in Busy
    <3>1. Cardinality(W) = 0 /\ Cardinality(C) = 1
      BY <2>3, <2>6, <2>7, <2>8, <2>10
    <3> QED BY <2>1, <2>2, <2>10, <3>1
  <2>11. CASE r \notin Waiters /\ r \notin Busy
    <3>1. Cardinality(W) = 0 /\ Cardinality(C) = 0
      BY <2>3, <2>4, <2>7, <2>11
    <3> QED BY <2>1, <2>2, <2>11, <3>1
  <2> QED BY <2>9, <2>10, <2>11
<1> QED BY <1>2 DEF EveryRequestHeld, Inv

\* TimersAgree is part of the invariant.
LEMMA InvAgree == Inv => TimersAgree
  BY DEF Inv, NetInv, TimersAgree

\* The initial states are initial states of the service.
LEMMA InitService == Init => Service!Init
  BY DEF Init, Service!Init
-----------------------------------------------------------------------------
(* Whose timer a client has, where no connect timer expires.               *)

\* Coroutines only, each of which asks again when it was answered and of its own host, by its
\* address; no connect timer expires and nothing is aborted.
AsyncOnly ==
    /\ Sequential /\ ~ConnectMayTimeOut /\ AbortNonces = {} /\ DOMAIN Address = {}
    /\ \A r \in Req : NonceOf[r] # 0
    /\ \A q, r \in Req : NonceOf[q] = NonceOf[r] => HostOf[q] = HostOf[r]

\* Nobody has lost a timer, or his memory.
NobodyRobbed == tm.robbed = {} /\ \A s \in Req : sock[s] # "orphan"

\* A nonce waits once or has one connection, to the host it asks for.
OnePerNonce ==
    /\ \A e \in Entries : e.host = HostOf[e.req]
    /\ \A e, f \in Entries : NonceOf[e.req] = NonceOf[f.req] => e = f
    /\ \A c \in Conns : c.nonce = NonceOf[c.req] /\ remote[c.sock] = HostOf[c.req]
    /\ \A c, d \in Conns : c.nonce = d.nonce => c = d
    /\ \A c \in Conns, e \in Entries : c.nonce # NonceOf[e.req]

\* Whoever carries a request has its timer.
Timed(c, ts) == c.timer \in Live(ts) /\ ts.byId[c.timer] = [nonce |-> c.nonce, sock |-> c.sock]
BusyTimed == \A c \in Conns : IsIdle(c) \/ Timed(c, tm)

WatchInv == NobodyRobbed /\ OnePerNonce /\ BusyTimed

\* What a client cancels is its own: the other timers stay.
LEMMA OwnCancelled ==
    ASSUME NetInv, NobodyRobbed, BusyTimed, NEW id, NEW s \in Req,
           id \in Live(tm) => tm.byId[id].sock = s,
           NEW n, n = CancelTimer(tm, id, s)
    PROVE  /\ n.robbed = {} /\ TimersOK(n)
           /\ \A c \in Conns : c.sock # s => IsIdle(c) \/ Timed(c, n)
<1>1. TimersOK(tm) /\ tm.robbed = {}
  BY DEF NetInv, NetTypes, NobodyRobbed
<1>2. /\ TimersOK(n) /\ Live(n) = Live(tm) \ {id} /\ \A t \in Live(n) : n.byId[t] = tm.byId[t]
      /\ id \in Live(tm) => n.robbed = tm.robbed \cup ({tm.byId[id].sock} \ {s})
      /\ id \notin Live(tm) => n.robbed = tm.robbed
  BY <1>1, CancelTimerIs
<1>3. n.robbed = {}
  BY <1>1, <1>2
<1>4. ASSUME NEW c \in Conns, c.sock # s, ~IsIdle(c) PROVE Timed(c, n)
  <2>1. c.timer \in Live(tm) /\ tm.byId[c.timer] = [nonce |-> c.nonce, sock |-> c.sock]
    BY <1>4 DEF BusyTimed, Timed
  <2>2. c.timer # id
    BY <1>4, <2>1
  <2> QED BY <1>2, <2>1, <2>2 DEF Timed
<1> QED BY <1>2, <1>3, <1>4

\* The timer an attempt knows is its own.
LEMMA OwnTimer ==
    ASSUME Inv, WatchInv, NEW s \in Req, sock[s] = "connecting"
    PROVE  connTimer[s] \in Live(tm) => tm.byId[connTimer[s]].sock = s
<1>1. ConnTimed /\ tm.robbed = {}
  BY DEF Inv, NetInv, WatchInv, NobodyRobbed
<1>2. s \in tm.robbed \/ tm.byId[connTimer[s]] = [nonce |-> 0, sock |-> s]
  BY <1>1 DEF ConnTimed
<1> DEFINE r == tm.byId[connTimer[s]]
<1>3. r = [nonce |-> 0, sock |-> s]
  BY <1>1, <1>2
<1>4. r.sock = s
  BY <1>3
<1> QED BY <1>4

\* So is that of a busy client.
LEMMA BusyOwns ==
    ASSUME BusyTimed, NEW b \in Conns, b \in Conn, ~IsIdle(b)
    PROVE  /\ b.sock \in Req /\ b.timer \in Live(tm)
           /\ tm.byId[b.timer].sock = b.sock /\ tm.byId[b.timer].nonce = b.nonce
<1> DEFINE r == tm.byId[b.timer]
<1>1. b.timer \in Live(tm) /\ r = [nonce |-> b.nonce, sock |-> b.sock] /\ b.sock \in Req
  BY DEF BusyTimed, Timed, Conn
<1>2. r.sock = b.sock /\ r.nonce = b.nonce
  BY <1>1
<1> QED BY <1>1, <1>2

\* A new timer leaves the others.
LEMMA OneMoreTimer ==
    ASSUME NEW ts, TimersOK(ts), ts.robbed = {}, NEW nonce \in Nat, NEW s \in Req,
           NEW n, n = SetTimer(ts, nonce, s)
    PROVE  /\ n.robbed = {} /\ n.nTimerId \in Live(n)
           /\ n.byId[n.nTimerId] = [nonce |-> nonce, sock |-> s]
           /\ \A c : Timed(c, ts) => Timed(c, n)
  BY SetTimerIs DEF Timed

\* Requests leave and clients stay, go or change only their stage.
LEMMA NonceStays ==
    ASSUME OnePerNonce, Entries' \subseteq Entries,
           \/ Conns' \subseteq Conns
           \/ \E b \in Conns : \E c : /\ c.sock = b.sock /\ c.nonce = b.nonce /\ c.req = b.req
                                     /\ Conns' = (Conns \ {b}) \cup {c},
           \A c \in Conns : remote'[c.sock] = remote[c.sock]
    PROVE  OnePerNonce'
<1>1. CASE Conns' \subseteq Conns
  BY <1>1 DEF OnePerNonce
<1>2. ASSUME NEW b \in Conns, NEW c, c.sock = b.sock, c.nonce = b.nonce, c.req = b.req,
             Conns' = (Conns \ {b}) \cup {c}
      PROVE  OnePerNonce'
  <2>1. ASSUME NEW a \in Conns
        PROVE  /\ a.nonce = NonceOf[a.req] /\ remote'[a.sock] = HostOf[a.req]
               /\ \A e \in Entries' : a.nonce # NonceOf[e.req]
    BY DEF OnePerNonce
  <2>2. ASSUME NEW d \in Conns'
        PROVE  /\ d.nonce = NonceOf[d.req] /\ remote'[d.sock] = HostOf[d.req]
               /\ \A e \in Entries' : d.nonce # NonceOf[e.req]
    <3>1. CASE d = c
      BY <1>2, <2>1, <3>1
    <3>2. CASE d # c
      BY <1>2, <2>1, <3>2
    <3> QED BY <3>1, <3>2
  <2>3. \A d, f \in Conns' : d.nonce = f.nonce => d = f
    BY <1>2 DEF OnePerNonce
  <2>4. /\ \A e \in Entries' : e.host = HostOf[e.req]
        /\ \A e, f \in Entries' : NonceOf[e.req] = NonceOf[f.req] => e = f
    BY DEF OnePerNonce
  <2> QED BY <2>2, <2>3, <2>4 DEF OnePerNonce
<1> QED BY <1>1, <1>2

\* Nothing happens to timers, sockets, clients and requests.
LEMMA WatchUnchanged ==
    ASSUME WatchInv, UNCHANGED <<tm, sock, remote, mapRequest, mapGetClient>> PROVE WatchInv'
<1>1. Conns' = Conns /\ Entries' = Entries
  BY DEF Conns, Entries
<1>2. NobodyRobbed' /\ BusyTimed'
  BY <1>1 DEF WatchInv, NobodyRobbed, BusyTimed, Timed, IsIdle, Live
<1>3. OnePerNonce'
  BY <1>1 DEF WatchInv, OnePerNonce
<1> QED BY <1>2, <1>3 DEF WatchInv

\* RequestOnIdle: the connection of the nonce carries its request.
LEMMA WatchOnIdle ==
    ASSUME Inv, WatchInv, NEW r \in Req, RequestOnIdle(r) PROVE WatchInv'
<1> DEFINE i == ClientFor(NonceOf[r], HostOf[r])
           b == mapGetClient[i]
           c == [sock |-> b.sock, nonce |-> NonceOf[r], timer |-> tm'.nTimerId, req |-> r,
                 stage |-> "write"]
<1>1. /\ UNCHANGED <<sock, remote, connTimer, mapPending, mapRequest>>
      /\ i # 0 /\ IsIdle(b) /\ tm' = SetTimer(tm, NonceOf[r], b.sock)
      /\ mapGetClient' = [mapGetClient EXCEPT ![i] = c]
  BY DEF RequestOnIdle, Request, Active
<1>2. /\ NetInv /\ TimersOK(tm) /\ tm.robbed = {} /\ mapGetClient \in Seq(Conn)
      /\ NonceOf[r] \in Nat /\ ConnsOpen
  BY HttpGetAssumption DEF Inv, NetInv, NetTypes, WatchInv, NobodyRobbed
<1>3. i \in DOMAIN mapGetClient /\ b.nonce = NonceOf[r] /\ remote[b.sock] = HostOf[r]
  BY <1>1, <1>2, ClientForIs
<1> HIDE DEF i
<1>4. Conns' = (Conns \ {b}) \cup {c} /\ b \in Conns
  <2>1. c = Active(b.sock, r, tm')
    BY DEF Active
  <2> HIDE DEF c
  <2> QED BY <1>1, <1>2, <1>3, <2>1, NetReuses
<1>5. b.sock \in Req
  BY <1>2, <1>4, ConnsTyped DEF Conn
<1>6. /\ tm'.robbed = {} /\ Timed(c, tm') /\ \A d : Timed(d, tm) => Timed(d, tm')
  <2>1. /\ tm'.robbed = {} /\ tm'.nTimerId \in Live(tm')
        /\ tm'.byId[tm'.nTimerId] = [nonce |-> NonceOf[r], sock |-> b.sock]
        /\ \A d : Timed(d, tm) => Timed(d, tm')
    BY <1>1, <1>2, <1>5, OneMoreTimer
  <2> QED BY <2>1 DEF Timed
<1>7. c.req = r /\ c.nonce = NonceOf[r] /\ c.sock = b.sock
  OBVIOUS
<1> HIDE DEF b, c
<1>8. NobodyRobbed' /\ BusyTimed'
  BY <1>1, <1>4, <1>6 DEF WatchInv, NobodyRobbed, BusyTimed, IsIdle
<1>9. Entries' = Entries
  BY <1>1 DEF Entries
<1>10. OnePerNonce'
  <2>1. ASSUME NEW d \in Conns'
        PROVE  /\ d.nonce = NonceOf[d.req] /\ remote'[d.sock] = HostOf[d.req]
               /\ \A e \in Entries' : d.nonce # NonceOf[e.req]
    <3>1. CASE d = c
      BY <1>1, <1>3, <1>4, <1>7, <1>9, <3>1 DEF WatchInv, OnePerNonce
    <3>2. CASE d # c
      BY <1>1, <1>4, <1>9, <3>2 DEF WatchInv, OnePerNonce
    <3> QED BY <3>1, <3>2
  <2>2. \A d, f \in Conns' : d.nonce = f.nonce => d = f
    BY <1>3, <1>4, <1>7 DEF WatchInv, OnePerNonce
  <2> QED BY <1>9, <2>1, <2>2 DEF WatchInv, OnePerNonce
<1> QED BY <1>8, <1>10 DEF WatchInv

\* RequestConnects: who asks has been answered, and has no connection.
LEMMA WatchConnects ==
    ASSUME AsyncOnly, Inv, WatchInv, NEW r \in Req, RequestConnects(r) PROVE WatchInv'
<1> DEFINE h == HostOf[r]
           e == [host |-> h, req |-> r]
<1>1. /\ r \notin accepted /\ ClientFor(NonceOf[r], h) = 0 /\ UNCHANGED mapGetClient
      /\ \A q \in accepted : NonceOf[q] \in {0, NonceOf[r]} => answers[q] > 0
      /\ tm' = SetTimer(tm, 0, r) /\ sock' = [sock EXCEPT ![r] = "connecting"]
      /\ remote' = [remote EXCEPT ![r] = h] /\ mapRequest' = Append(mapRequest, e)
  BY DEF RequestConnects, Request, SSLConnect, AsyncOnly
<1>2. /\ RequestTypes /\ OwedOnce /\ WaitOnce
      /\ Waiters \subseteq accepted /\ accepted \subseteq Req /\ mapRequest \in Seq(Entry)
      /\ Distinct(mapRequest)
  BY OwedFacts DEF Inv
<1>3. /\ TimersOK(tm) /\ tm.robbed = {} /\ mapGetClient \in Seq(Conn) /\ ConnsOpen
      /\ sock \in [Req -> SockStates] /\ remote \in [Req -> Host]
  BY DEF Inv, NetInv, NetTypes, WatchInv, NobodyRobbed
<1>4. sock[r] = "none" /\ e \in Entry /\ e.req = r /\ e.host = h
  BY <1>1, HttpGetAssumption DEF Inv, SocketsFresh, Entry
<1> HIDE DEF e, h
<1>5. Entries' = Entries \cup {e} /\ Conns' = Conns
  <2>1. e.req \notin Waiters
    BY <1>1, <1>2, <1>4
  <2>2. Entries' = Entries \cup {e}
    BY <1>1, <1>2, <1>4, <2>1, WaitersAdd
  <2> QED BY <1>1, <2>2 DEF Conns
<1>6. ASSUME NEW f \in Entries
      PROVE  NonceOf[f.req] # NonceOf[r]
  <2>1. f.req \in Waiters
    BY DEF Waiters
  <2>2. f.req \in Owed /\ f.req \in accepted /\ f.req \in Req
    BY <1>2, <2>1 DEF Owed
  <2>3. answers[f.req] = 0
    BY <1>2, <2>2 DEF OwedOnce
  <2> QED BY <1>1, <2>2, <2>3
<1>7. ASSUME NEW c \in Conns
      PROVE  c.nonce # NonceOf[r] /\ remote'[c.sock] = remote[c.sock]
  <2>1. c.req \in Req /\ c.sock \in Req /\ sock[c.sock] = "open"
    BY <1>3, ConnsTyped DEF Conn, ConnsOpen
  <2>2. ~ (c.nonce = NonceOf[r] /\ remote[c.sock] = h)
    BY <1>1, <1>3, ClientForIs
  <2>3. c.nonce = NonceOf[c.req] /\ remote[c.sock] = HostOf[c.req]
    BY DEF WatchInv, OnePerNonce
  <2>4. c.nonce # NonceOf[r]
    BY <2>1, <2>2, <2>3 DEF AsyncOnly, h
  <2> QED BY <1>1, <1>3, <1>4, <2>1, <2>4
<1>8. OnePerNonce'
  <2>1. \A f \in Entries' : f.host = HostOf[f.req]
    BY <1>4, <1>5 DEF WatchInv, OnePerNonce, h
  <2>2. \A f, g \in Entries' : NonceOf[f.req] = NonceOf[g.req] => f = g
    BY <1>4, <1>5, <1>6 DEF WatchInv, OnePerNonce
  <2>3. \A c \in Conns' : c.nonce = NonceOf[c.req] /\ remote'[c.sock] = HostOf[c.req]
    BY <1>5, <1>7 DEF WatchInv, OnePerNonce
  <2>4. \A c \in Conns', f \in Entries' : c.nonce # NonceOf[f.req]
    BY <1>4, <1>5, <1>7 DEF WatchInv, OnePerNonce
  <2>5. \A c, d \in Conns' : c.nonce = d.nonce => c = d
    BY <1>5 DEF WatchInv, OnePerNonce
  <2> QED BY <2>1, <2>2, <2>3, <2>4, <2>5 DEF OnePerNonce
<1>9. tm'.robbed = {} /\ \A d : Timed(d, tm) => Timed(d, tm')
  <2>1. 0 \in Nat /\ tm' = SetTimer(tm, 0, r)
    BY <1>1
  <2> QED BY <1>3, <2>1, OneMoreTimer
<1>10. NobodyRobbed' /\ BusyTimed'
  BY <1>1, <1>3, <1>5, <1>9 DEF WatchInv, NobodyRobbed, BusyTimed, IsIdle
<1> QED BY <1>8, <1>10 DEF WatchInv

\* An attempt ends and gives up its own timer; no client is concerned.
LEMMA WatchAttemptEnds ==
    ASSUME Inv, WatchInv, NEW s \in Req, sock[s] = "connecting",
           NEW state \in {"closed", "reset"}, sock' = [sock EXCEPT ![s] = state],
           tm' = CancelTimer(tm, connTimer[s], s), Entries' \subseteq Entries,
           UNCHANGED <<remote, mapGetClient>>
    PROVE  WatchInv'
<1>1. NetInv /\ ConnsOpen /\ ConnTimed /\ sock \in [Req -> SockStates]
  BY DEF Inv, NetInv, NetTypes
<1>2. connTimer[s] \in Live(tm) => tm.byId[connTimer[s]].sock = s
  BY OwnTimer
<1>3. tm'.robbed = {} /\ \A c \in Conns : c.sock # s => IsIdle(c) \/ Timed(c, tm')
  BY <1>1, <1>2, OwnCancelled DEF WatchInv
<1>4. Conns' = Conns /\ \A c \in Conns : c.sock # s
  BY <1>1 DEF Conns, ConnsOpen
<1>5. NobodyRobbed' /\ BusyTimed'
  BY <1>1, <1>3, <1>4 DEF WatchInv, NobodyRobbed, BusyTimed, IsIdle
<1>6. OnePerNonce'
  BY <1>4, NonceStays DEF WatchInv
<1> QED BY <1>5, <1>6 DEF WatchInv

\* ClientConnected for a request that waits.
LEMMA WatchTakes ==
    ASSUME Inv, WatchInv, NEW s \in Req, sock[s] = "connecting", Unpend(connTimer[s]),
           NEW i, i = OldestRequest(remote[s]), i # 0, NEW r, r = mapRequest[i].req,
           tm' = SetTimer(CancelTimer(tm, connTimer[s], s), NonceOf[r], s),
           sock' = [sock EXCEPT ![s] = "open"],
           mapRequest' = RemoveAt(mapRequest, i),
           mapGetClient' = Append(mapGetClient, Active(s, r, tm')),
           UNCHANGED <<remote, connTimer>>
    PROVE  WatchInv'
<1> DEFINE c == [sock |-> s, nonce |-> NonceOf[r], timer |-> tm'.nTimerId, req |-> r,
                 stage |-> "write"]
           e == mapRequest[i]
           mid == CancelTimer(tm, connTimer[s], s)
<1>1. NetInv /\ ConnsOpen /\ ConnTimed /\ sock \in [Req -> SockStates]
  BY DEF Inv, NetInv, NetTypes
<1>2. /\ mapRequest \in Seq(Entry) /\ Distinct(mapRequest) /\ WaitOnce
  BY OwedFacts DEF Inv
<1>3. i \in 1..Len(mapRequest) /\ e.host = remote[s]
  BY <1>2, OldestRequestIs
<1>4. e \in Entries /\ e \in Entry /\ Entries' = Entries \ {e} /\ e.req = r
  BY <1>2, <1>3, WaitersRemove
<1>5. r \in Req /\ NonceOf[r] \in Nat
  BY <1>4, HttpGetAssumption DEF Entry
<1>6. Conns' = Conns \cup {c}
  <2>1. mapGetClient' = Append(mapGetClient, c)
    BY DEF Active
  <2> HIDE DEF c
  <2> DEFINE n == NonceOf[r]
  <2>2. /\ n \in Nat
        /\ c = [sock |-> s, nonce |-> n, timer |-> tm'.nTimerId, req |-> r, stage |-> "write"]
    BY <1>5 DEF c
  <2>3. tm' = SetTimer(CancelTimer(tm, connTimer[s], s), n, s)
    OBVIOUS
  <2> HIDE DEF n
  <2> QED BY <1>1, <1>5, <2>1, <2>2, <2>3, NetConnectSucceeds
<1>7. connTimer[s] \in Live(tm) => tm.byId[connTimer[s]].sock = s
  BY OwnTimer
<1>8. /\ mid.robbed = {} /\ TimersOK(mid)
      /\ \A d \in Conns : d.sock # s => IsIdle(d) \/ Timed(d, mid)
  BY <1>1, <1>7, OwnCancelled, SMTT(30) DEF WatchInv
<1> HIDE DEF mid
<1>9. /\ tm'.robbed = {} /\ tm'.nTimerId \in Live(tm')
      /\ tm'.byId[tm'.nTimerId] = [nonce |-> NonceOf[r], sock |-> s]
      /\ \A d : Timed(d, mid) => Timed(d, tm')
  <2>1. tm' = SetTimer(mid, NonceOf[r], s)
    BY Zenon DEF mid
  <2> QED BY <1>5, <1>8, <2>1, OneMoreTimer, SMTT(30)
<1>10. Timed(c, tm') /\ c.req = r /\ c.nonce = NonceOf[r] /\ c.sock = s
  BY <1>9, Zenon DEF Timed
<1> HIDE DEF c, e
<1>11. \A d \in Conns : d.sock # s
  BY <1>1 DEF ConnsOpen
<1>12. NobodyRobbed' /\ BusyTimed'
  <2>1. ASSUME NEW d \in Conns'
        PROVE  IsIdle(d) \/ Timed(d, tm')
    <3>1. CASE d = c
      BY <1>10, <3>1, Zenon
    <3>2. CASE d \in Conns
      <4>1. IsIdle(d) \/ Timed(d, mid)
        BY <1>8, <1>11, <3>2, Zenon
      <4> QED BY <1>9, <4>1
    <3> QED BY <1>6, <3>1, <3>2
  <2>2. NobodyRobbed'
    BY <1>1, <1>9 DEF WatchInv, NobodyRobbed
  <2> QED BY <2>1, <2>2, SMTT(30) DEF BusyTimed, IsIdle
<1>13. OnePerNonce'
  <2>1. /\ \A f \in Entries' : f.host = HostOf[f.req]
        /\ \A f, g \in Entries' : NonceOf[f.req] = NonceOf[g.req] => f = g
    BY <1>4 DEF WatchInv, OnePerNonce
  <2>2. c.nonce = NonceOf[c.req] /\ remote'[c.sock] = HostOf[c.req]
    BY <1>3, <1>4, <1>10 DEF WatchInv, OnePerNonce
  <2>3. \A d \in Conns : d.nonce # c.nonce
    BY <1>4, <1>10 DEF WatchInv, OnePerNonce
  <2>4. \A f \in Entries' : NonceOf[f.req] # c.nonce
    BY <1>4, <1>10 DEF WatchInv, OnePerNonce
  <2>5. \A d \in Conns' : /\ d.nonce = NonceOf[d.req] /\ remote'[d.sock] = HostOf[d.req]
                          /\ \A f \in Entries' : d.nonce # NonceOf[f.req]
    BY <1>4, <1>6, <2>2, <2>4 DEF WatchInv, OnePerNonce
  <2>6. \A d, f \in Conns' : d.nonce = f.nonce => d = f
    BY <1>6, <2>3 DEF WatchInv, OnePerNonce
  <2> QED BY <2>1, <2>5, <2>6 DEF OnePerNonce
<1> QED BY <1>12, <1>13 DEF WatchInv

\* ClientConnected.
LEMMA WatchConnected ==
    ASSUME Inv, WatchInv, NEW s \in Req, ClientConnected(s) PROVE WatchInv'
<1> DEFINE i == OldestRequest(remote[s])
<1>1. sock[s] = "connecting" /\ Unpend(connTimer[s]) /\ UNCHANGED <<remote, connTimer>>
  BY DEF ClientConnected, ConnectDone
<1>2. CASE i = 0
  <2>1. /\ tm' = CancelTimer(tm, connTimer[s], s) /\ sock' = [sock EXCEPT ![s] = "closed"]
        /\ UNCHANGED <<mapRequest, mapGetClient>>
    BY <1>2 DEF ClientConnected
  <2>2. Entries' \subseteq Entries
    BY <2>1 DEF Entries
  <2> QED BY <1>1, <2>1, <2>2, WatchAttemptEnds
<1>3. CASE i # 0
  <2> DEFINE r == mapRequest[i].req
  <2>1. /\ tm' = SetTimer(CancelTimer(tm, connTimer[s], s), NonceOf[r], s)
        /\ sock' = [sock EXCEPT ![s] = "open"]
        /\ mapRequest' = RemoveAt(mapRequest, i)
        /\ mapGetClient' = Append(mapGetClient, Active(s, r, tm'))
    BY <1>3 DEF ClientConnected
  <2> HIDE DEF r
  <2>2. r = mapRequest[i].req
    BY DEF r
  <2> QED BY <1>1, <1>3, <2>1, <2>2, WatchTakes
<1> QED BY <1>2, <1>3

\* ClientReset and ClientFailToConnect.
LEMMA WatchFails ==
    ASSUME Inv, WatchInv, NEW s \in Req, ClientReset(s) \/ ClientFailToConnect(s) PROVE WatchInv'
<1>1. /\ sock[s] = "connecting" /\ UNCHANGED <<remote, mapGetClient>>
      /\ tm' = CancelTimer(tm, connTimer[s], s)
      /\ \E state \in {"closed", "reset"} : sock' = [sock EXCEPT ![s] = state]
  BY DEF ClientReset, ClientFailToConnect, ConnectDone
<1>2. Entries' \subseteq Entries
  <2>1. CASE UNCHANGED mapRequest
    BY <2>1 DEF Entries
  <2>2. CASE ClientFailToConnect(s) /\ ~ UNCHANGED mapRequest
    <3> DEFINE i == OldestRequest(remote[s])
    <3>1. i # 0 /\ mapRequest' = RemoveAt(mapRequest, i)
      BY <2>2 DEF ClientFailToConnect, FailOldest
    <3>2. mapRequest \in Seq(Entry) /\ Distinct(mapRequest) /\ WaitOnce
      BY OwedFacts DEF Inv
    <3>3. i \in 1..Len(mapRequest)
      BY <3>1, <3>2, OldestRequestIs
    <3> HIDE DEF i
    <3> QED BY <3>1, <3>2, <3>3, WaitersRemove
  <2> QED BY <2>1, <2>2 DEF ClientReset
<1> QED BY <1>1, <1>2, WatchAttemptEnds

\* A transfer goes on.
LEMMA WatchProceeds ==
    ASSUME Inv, WatchInv, NEW i \in DOMAIN mapGetClient, ClientProceeds(i) PROVE WatchInv'
<1>1. UNCHANGED <<tm, sock, remote, connTimer, mapPending, mapRequest>>
  BY DEF ClientProceeds
<1>2. PICK stage \in NextStage(mapGetClient[i].stage) :
          mapGetClient' = [mapGetClient EXCEPT ![i].stage = stage]
  BY DEF ClientProceeds
<1>3. stage \in Stages \ {"idle"} /\ ~IsIdle(mapGetClient[i])
  BY <1>2 DEF NextStage, Stages, IsIdle
<1> DEFINE b == mapGetClient[i]
           c == [b EXCEPT !.stage = stage]
<1>4. NetInv /\ mapGetClient \in Seq(Conn)
  BY DEF Inv, NetInv, NetTypes
<1>5. Conns' = (Conns \ {b}) \cup {c} /\ b \in Conns
  <2>1. c = [mapGetClient[i] EXCEPT !.stage = stage]
    OBVIOUS
  <2> HIDE DEF c
  <2> QED BY <1>1, <1>2, <1>3, <1>4, <2>1, NetProceeds
<1>6. c.sock = b.sock /\ c.nonce = b.nonce /\ c.req = b.req /\ c.timer = b.timer
  BY <1>4, <1>5, ConnsTyped DEF Conn
<1>7. ~IsIdle(b)
  BY <1>3
<1> HIDE DEF b, c
<1>8. NobodyRobbed' /\ BusyTimed'
  BY <1>1, <1>5, <1>6, <1>7 DEF WatchInv, NobodyRobbed, BusyTimed, Timed, IsIdle, Live
<1>9. OnePerNonce'
  <2>1. Entries' = Entries /\ \A d \in Conns : remote'[d.sock] = remote[d.sock]
    BY <1>1 DEF Entries
  <2> QED BY <1>5, <1>6, <2>1, NonceStays DEF WatchInv
<1> QED BY <1>8, <1>9 DEF WatchInv

\* A response is complete and the connection kept.
LEMMA WatchCompleted ==
    ASSUME Inv, WatchInv, NEW i \in DOMAIN mapGetClient, ClientCompleted(i) PROVE WatchInv'
<1> DEFINE b == mapGetClient[i]
           c == [b EXCEPT !.stage = "idle"]
<1>1. /\ b.stage \in {"header", "payload", "chunked"} /\ tm' = CancelTimer(tm, b.timer, b.sock)
      /\ mapGetClient' = [mapGetClient EXCEPT ![i].stage = "idle"]
      /\ UNCHANGED <<sock, remote, connTimer, mapPending, mapRequest>>
  BY DEF ClientCompleted
<1>2. NetInv /\ ConnsOpen /\ mapGetClient \in Seq(Conn)
  BY DEF Inv, NetInv, NetTypes
<1>3. Conns' = (Conns \ {b}) \cup {c} /\ b \in Conns /\ b \in Conn
  <2>1. b = mapGetClient[i] /\ c = [b EXCEPT !.stage = "idle"]
    OBVIOUS
  <2> HIDE DEF b, c
  <2> QED BY <1>1, <1>2, <2>1, NetCompletes
<1>4. c.sock = b.sock /\ c.nonce = b.nonce /\ c.req = b.req /\ ~IsIdle(b) /\ IsIdle(c)
  BY <1>1, <1>3 DEF Conn, IsIdle
<1> HIDE DEF b, c
<1>5. tm'.robbed = {} /\ \A d \in Conns : d.sock # b.sock => IsIdle(d) \/ Timed(d, tm')
  <2>1. b.sock \in Req /\ tm.byId[b.timer].sock = b.sock
    BY <1>3, <1>4, BusyOwns DEF WatchInv
  <2> QED BY <1>1, <1>2, <2>1, OwnCancelled DEF WatchInv
<1>6. \A d \in Conns : d # b => d.sock # b.sock
  BY <1>2, <1>3 DEF ConnsOpen
<1>7. NobodyRobbed' /\ BusyTimed'
  <2>1. \A d \in Conns' : IsIdle(d) \/ Timed(d, tm')
    BY <1>3, <1>4, <1>5, <1>6
  <2> QED BY <1>1, <1>5, <2>1 DEF WatchInv, NobodyRobbed, BusyTimed, IsIdle
<1>8. OnePerNonce'
  <2>1. Entries' = Entries /\ \A d \in Conns : remote'[d.sock] = remote[d.sock]
    BY <1>1 DEF Entries
  <2> QED BY <1>3, <1>4, <2>1, NonceStays DEF WatchInv
<1> QED BY <1>7, <1>8 DEF WatchInv

\* A busy client is closed.
LEMMA WatchCloses ==
    ASSUME Inv, WatchInv, NEW i \in DOMAIN mapGetClient, ~IsIdle(mapGetClient[i]),
           NEW closed \in {"closed", "closing"}, CloseConn(i, closed),
           UNCHANGED <<remote, connTimer, mapPending, mapRequest>>
    PROVE  WatchInv'
<1> DEFINE b == mapGetClient[i]
<1>1. /\ tm' = CancelTimer(tm, b.timer, b.sock) /\ mapGetClient' = RemoveAt(mapGetClient, i)
      /\ sock' = [sock EXCEPT ![b.sock] = closed] /\ ~IsIdle(b)
  BY DEF CloseConn
<1>2. NetInv /\ ConnsOpen /\ sock \in [Req -> SockStates]
  BY DEF Inv, NetInv, NetTypes
<1>3. Conns' = Conns \ {b} /\ b \in Conns /\ b \in Conn
  <2>1. b = mapGetClient[i]
    OBVIOUS
  <2> HIDE DEF b
  <2> QED BY <1>1, <1>2, <2>1, NetCloses
<1> HIDE DEF b
<1>4. tm'.robbed = {} /\ \A d \in Conns : d.sock # b.sock => IsIdle(d) \/ Timed(d, tm')
  <2>1. b.sock \in Req /\ tm.byId[b.timer].sock = b.sock
    BY <1>1, <1>3, BusyOwns DEF WatchInv
  <2> QED BY <1>1, <1>2, <2>1, OwnCancelled DEF WatchInv
<1>5. \A d \in Conns : d # b => d.sock # b.sock
  BY <1>2, <1>3 DEF ConnsOpen
<1>6. NobodyRobbed' /\ BusyTimed'
  <2>1. \A d \in Conns' : IsIdle(d) \/ Timed(d, tm')
    BY <1>3, <1>4, <1>5
  <2>2. \A s \in Req : sock'[s] # "orphan"
    BY <1>1, <1>2 DEF WatchInv, NobodyRobbed
  <2> QED BY <1>4, <2>1, <2>2 DEF NobodyRobbed, BusyTimed, IsIdle
<1>7. OnePerNonce'
  <2>1. Entries' = Entries /\ \A d \in Conns : remote'[d.sock] = remote[d.sock]
    BY DEF Entries
  <2> QED BY <1>3, <2>1, NonceStays DEF WatchInv
<1> QED BY <1>6, <1>7 DEF WatchInv

\* A timer that expires belongs to a busy client: no connect timer expires here.
LEMMA BusyExpires ==
    ASSUME Inv, WatchInv, NEW t \in Live(tm), t \notin DOMAIN mapPending
    PROVE  \E c \in Conns : ~IsIdle(c) /\ c \in Conn /\ c.timer = t /\ c.nonce = tm.byId[t].nonce
<1>1. NoTimerLeak /\ mapGetClient \in Seq(Conn)
  BY DEF Inv, NetInv, NetTypes
<1>2. PICK c \in Conns : ~IsIdle(c) /\ c.timer = t
  BY <1>1 DEF NoTimerLeak, Conns
<1>3. c \in Conn
  BY <1>1, ConnsTyped
<1>4. c.nonce = tm.byId[t].nonce
  BY <1>2, <1>3, BusyOwns DEF WatchInv
<1> QED BY <1>2, <1>3, <1>4

\* Nothing is asked for with nonce 0, so that CIOSSLOutBound finds none of its timers expired.
LEMMA NoConnectTimeout ==
    ASSUME AsyncOnly, Inv, WatchInv, NEW t \in TimerIds, ConnectTimeout(t) PROVE FALSE
<1>1. t \in Live(tm) /\ tm.byId[t].nonce = 0 /\ t \notin DOMAIN mapPending
  BY DEF ConnectTimeout, AsyncOnly
<1>2. PICK c \in Conns : c \in Conn /\ c.nonce = 0
  BY <1>1, BusyExpires
<1>3. c.nonce = NonceOf[c.req] /\ c.req \in Req
  BY <1>2 DEF WatchInv, OnePerNonce, Conn
<1> QED BY <1>2, <1>3 DEF AsyncOnly

\* ResponseTimeout: the client it finds is the one whose timer it is.
LEMMA WatchTimeout ==
    ASSUME AsyncOnly, Inv, WatchInv, NEW t \in TimerIds, ResponseTimeout(t) PROVE WatchInv'
<1> DEFINE n == tm.byId[t].nonce
           i == ClientTimedBy(n, t)
<1>1. /\ t \in Live(tm) /\ n # 0
      /\ UNCHANGED <<accepted, loop, resolving, remote, connTimer, mapPending, mapRequest>>
      /\ i # 0 => CloseConn(i, CloseState(i))
  BY DEF ResponseTimeout
<1>2. /\ NetInv /\ PendingIsTimed /\ tm.robbed = {} /\ mapGetClient \in Seq(Conn)
  BY DEF Inv, NetInv, NetTypes, WatchInv, NobodyRobbed
<1>3. t \notin DOMAIN mapPending
  <2> SUFFICES ASSUME t \in DOMAIN mapPending PROVE FALSE
    OBVIOUS
  <2> DEFINE r == tm.byId[t]
  <2>1. r = [nonce |-> 0, sock |-> mapPending[t]]
    BY <1>2 DEF PendingIsTimed
  <2>2. r.nonce = 0
    BY <2>1
  <2> QED BY <1>1, <2>2
<1>4. PICK c \in Conns : ~IsIdle(c) /\ c \in Conn /\ c.timer = t /\ c.nonce = n
  BY <1>1, <1>3, BusyExpires
<1>5. i # 0 /\ i \in 1..Len(mapGetClient) /\ mapGetClient[i].nonce = n
  <2>1. i # 0
    BY <1>2, <1>4, ClientTimedByIs
  <2> QED BY <1>2, <2>1, ClientTimedByIs
<1>6. i \in DOMAIN mapGetClient /\ mapGetClient[i] \in Conns
  BY <1>2, <1>5 DEF Conns, ToSet
<1> HIDE DEF i, n
<1>7. mapGetClient[i] = c
  BY <1>4, <1>5, <1>6 DEF WatchInv, OnePerNonce
<1>8. CloseState(i) \in {"closed", "closing"}
  BY DEF CloseState
<1> QED BY <1>1, <1>4, <1>5, <1>6, <1>7, <1>8, WatchCloses

\* The socket of a closed connection is released.
LEMMA WatchReleased ==
    ASSUME Inv, WatchInv, NEW s \in Req, ClosedOperation(s) PROVE WatchInv'
<1>1. /\ sock' = [sock EXCEPT ![s] = "closed"]
      /\ UNCHANGED <<tm, remote, mapRequest, mapGetClient>>
  BY DEF ClosedOperation
<1>2. Conns' = Conns /\ Entries' = Entries /\ sock \in [Req -> SockStates]
  BY <1>1 DEF Conns, Entries, Inv, NetInv, NetTypes
<1>3. NobodyRobbed' /\ BusyTimed'
  BY <1>1, <1>2 DEF WatchInv, NobodyRobbed, BusyTimed, Timed, IsIdle, Live
<1>4. OnePerNonce'
  BY <1>1, <1>2 DEF WatchInv, OnePerNonce
<1> QED BY <1>3, <1>4 DEF WatchInv

\* LeaveLoop.
LEMMA WatchLeaves == ASSUME Inv, WatchInv, LeaveLoop PROVE WatchInv'
<1>1. /\ mapRequest' = <<>> /\ mapGetClient' = <<>> /\ tm' = [tm EXCEPT !.byId = <<>>]
      /\ sock' = [s \in Req |-> IF s \in InUse THEN "closed" ELSE sock[s]]
  BY DEF LeaveLoop
<1>2. Conns' = {} /\ Entries' = {}
  BY <1>1 DEF Conns, Entries, ToSet
<1>3. tm'.robbed = tm.robbed
  <2>1. tm = [nTimerId |-> tm.nTimerId, byId |-> tm.byId, robbed |-> tm.robbed]
    BY DEF Inv, NetInv, NetTypes, TimersOK
  <2>2. tm' = [nTimerId |-> tm.nTimerId, byId |-> <<>>, robbed |-> tm.robbed]
    BY <1>1, <2>1
  <2> QED BY <2>2
<1>4. NobodyRobbed'
  BY <1>1, <1>3 DEF WatchInv, NobodyRobbed
<1> QED BY <1>2, <1>4 DEF WatchInv, OnePerNonce, BusyTimed

LEMMA WatchStart == Init => WatchInv
<1> SUFFICES ASSUME Init PROVE WatchInv
  OBVIOUS
<1>1. Conns = {} /\ Entries = {}
  BY DEF Init, Conns, Entries, ToSet
<1> QED BY <1>1 DEF Init, NoTimers, WatchInv, NobodyRobbed, OnePerNonce, BusyTimed

LEMMA WatchStep == AsyncOnly /\ Inv /\ WatchInv /\ [Next]_vars => WatchInv'
<1> SUFFICES ASSUME AsyncOnly, Inv, WatchInv, [Next]_vars PROVE WatchInv'
  OBVIOUS
<1>1. ASSUME NEW r \in Req, Requests(r)
      PROVE  WatchInv'
  <2>1. CASE RequestOnBusy(r) \/ RequestRefused(r)
    BY <2>1, WatchUnchanged DEF RequestOnBusy, RequestRefused, SSLConnectRefused
  <2>2. CASE RequestResolves(r)
    BY <2>2 DEF RequestResolves, AsyncOnly
  <2> QED BY <1>1, <2>1, <2>2, WatchOnIdle, WatchConnects DEF Requests
<1>2. ASSUME NEW r \in Req, Resolver(r)
      PROVE  WatchInv'
  <2>1. r \in resolving
    BY <1>2 DEF Resolver, HostResolved, HostFailToResolve, ResolverDone
  <2>2. HostOf[r] \in DOMAIN Address
    BY <2>1 DEF Inv, SocketsFresh
  <2> QED BY <2>2 DEF AsyncOnly
<1>3. ASSUME NEW s \in Req, ConnectEnds(s)
      PROVE  WatchInv'
  BY <1>3, WatchConnected, WatchFails DEF ConnectEnds
<1>4. ASSUME NEW s \in Req, Orphan(s)
      PROVE  WatchInv'
  BY <1>4 DEF Orphan, OrphanConnect, OrphanCrash, WatchInv, NobodyRobbed
<1>5. ASSUME NEW s \in Req, ClosedOperation(s)
      PROVE  WatchInv'
  BY <1>5, WatchReleased
<1>6. ASSUME NEW i \in DOMAIN mapGetClient,
             \/ ClientProceeds(i) \/ ClientCompleted(i) \/ ClientCompletedClose(i)
             \/ ClientError(i)
      PROVE  WatchInv'
  <2>1. CASE ClientCompletedClose(i) \/ ClientError(i)
    <3>1. ~IsIdle(mapGetClient[i])
      BY <2>1 DEF ClientCompletedClose, ClientError, IsIdle
    <3>2. CloseConn(i, "closed") /\ UNCHANGED <<remote, connTimer, mapPending, mapRequest>>
      BY <2>1 DEF ClientCompletedClose, ClientError
    <3> QED BY <3>1, <3>2, WatchCloses
  <2> QED BY <1>6, <2>1, WatchProceeds, WatchCompleted
<1>7. ASSUME NEW t \in TimerIds, PollTimer(t)
      PROVE  WatchInv'
  BY <1>7, NoConnectTimeout, WatchTimeout DEF PollTimer
<1>8. CASE LeaveLoop
  BY <1>8, WatchLeaves
<1>9. CASE UNCHANGED vars
  BY <1>9, WatchUnchanged DEF vars
<1> QED BY <1>1, <1>2, <1>3, <1>4, <1>5, <1>6, <1>7, <1>8, <1>9 DEF Next, Transfer, AsyncOnly

\* The search by nonce and timer finds the client itself.
LEMMA WatchFollows == Inv /\ WatchInv => ResponseWatched
<1> SUFFICES ASSUME Inv, WatchInv PROVE ResponseWatched
  OBVIOUS
<1>1. /\ tm.robbed = {} /\ mapGetClient \in Seq(Conn) /\ Distinct(mapGetClient)
  BY DEF WatchInv, NobodyRobbed, Inv, NetInv, NetTypes
<1>2. ASSUME NEW i \in DOMAIN mapGetClient, ~IsIdle(mapGetClient[i])
      PROVE  /\ Timed(mapGetClient[i], tm)
             /\ ClientTimedBy(mapGetClient[i].nonce, mapGetClient[i].timer) = i
  <2> DEFINE c == mapGetClient[i]
             k == ClientTimedBy(c.nonce, c.timer)
  <2>1. c \in Conns
    BY DEF Conns, ToSet
  <2>2. Timed(c, tm)
    BY <1>2, <2>1 DEF WatchInv, BusyTimed
  <2>3. k # 0 /\ k \in 1..Len(mapGetClient) /\ mapGetClient[k].nonce = c.nonce
    <3> DEFINE n == c.nonce
               t == c.timer
    <3>1. k = ClientTimedBy(n, t) /\ c.nonce = n /\ c.timer = t
      OBVIOUS
    <3> HIDE DEF k, n, t, c
    <3>2. k # 0
      BY <1>1, <2>1, <3>1, ClientTimedByIs
    <3>3. k \in 1..Len(mapGetClient) /\ mapGetClient[k].nonce = n
      BY <1>1, <3>1, <3>2, ClientTimedByIs
    <3> QED BY <3>1, <3>2, <3>3
  <2>4. k \in DOMAIN mapGetClient /\ mapGetClient[k] \in Conns
    BY <1>1, <2>3 DEF Conns, ToSet
  <2> HIDE DEF k
  <2>5. mapGetClient[k] = c
    BY <2>1, <2>3, <2>4 DEF WatchInv, OnePerNonce
  <2>6. k = i
    BY <1>1, <2>4, <2>5 DEF Distinct
  <2> QED BY <2>2, <2>6 DEF k
<1> QED BY <1>1, <1>2 DEF ResponseWatched, Timed
-----------------------------------------------------------------------------
\* TypeOK holds, whatever happens.  In particular two timer ids for each request are enough:
\* an id is new only to a connection begun or a request taken by a client.
THEOREM Types == Spec => []TypeOK
<1>1. Spec => []Inv
  BY Invariant
<1>2. Inv => TypeOK
  BY InvTypes
<1> QED BY <1>1, <1>2, PTL

\* RequestsKept holds: while the loop runs an unanswered request is in exactly one of
\* mapRequest and the busy clients, an answered one in neither (httpget.cpp:299), and each
\* host has at least as many resolver or connect handlers to come as requests waiting for it.
THEOREM Held == Spec => []RequestsKept
<1>1. Spec => []Inv
  BY Invariant
<1>2. Inv => RequestsKept
  BY InvHeld
<1> QED BY <1>1, <1>2, PTL

\* TimersAgree holds: mapPending names only connections being set up, under their own timers;
\* each of these is timed unless another took its timer; no timer outlives what it times.
THEOREM Agree == Spec => []TimersAgree
<1>1. Spec => []Inv
  BY Invariant
<1>2. Inv => TimersAgree
  BY InvAgree
<1> QED BY <1>1, <1>2, PTL

\* HttpServiceKept holds: every step of CHttpGet is a step of HttpService or changes nothing
\* the callers see, so that no request is answered twice, nor before it is asked.
THEOREM Implements == Spec => HttpServiceKept
<1>1. Spec => []Inv
  BY Invariant
<1>2. Init => Service!Init
  BY InitService
<1>3. Inv /\ [Next]_vars => [Service!Next]_<<accepted, answers>>
  BY NextInv DEF ServiceStep
<1> QED BY <1>1, <1>2, <1>3, PTL DEF Spec, HttpServiceKept, Service!Spec

\* Where no connect timer expires and each coroutine waits for its answer before it asks
\* again, the response timer of every request under way is live and finds the connection of
\* that request in CHttpGet::Timeout (httpget.cpp:345), although connections are kept, idle
\* ones with their old timers, and ids are given out again.
THEOREM Watched == ASSUME AsyncOnly PROVE Spec => []ResponseWatched
<1>1. Init => Inv /\ WatchInv
  BY InitInv, WatchStart
<1>2. Inv /\ WatchInv /\ [Next]_vars => (Inv /\ WatchInv)'
  BY NextInv, WatchStep
<1>3. Inv /\ WatchInv => ResponseWatched
  BY WatchFollows
<1> QED BY <1>1, <1>2, <1>3, PTL DEF Spec
=============================================================================
