-------------------------- MODULE HttpServerProofs --------------------------
(***************************************************************************)
(* What HttpServer promises, for every limit of connections and every      *)
(* choice of the network and of the IO module.                             *)
(*                                                                         *)
(* The invariant has one part per concern.  Steady speaks of the container *)
(* alone: the idle queue, and for each client object how its reference     *)
(* count follows from its socket and its operations, of which a connection *)
(* being made is the only one.  ClientInv ties sockets to the CHttpClients *)
(* that live, ReportInv the events to the connections that ended, and      *)
(* TurnInv the events and the module's debts to the operations.            *)
(*                                                                         *)
(* The container is a record that each handler passes through several      *)
(* operators, so the first lemmas say what one operator does to a sound    *)
(* container, the next what a handler's chain of them does, and the last   *)
(* what the handler does to the invariant.                                 *)
(***************************************************************************)
EXTENDS HttpServer, TLAPS, FiniteSetTheorems, SequenceTheorems

\* The states of the container that have the right types.
Container == [idle : Seq(Slot), open : [Slot -> BOOLEAN], ref : [Slot -> Nat],
              pending : [Slot -> [Operation -> Nat]]]

\* The idle queue holds each client object without references once, and is never empty.
IdleInv(c) ==
    /\ IsInjective(c.idle) /\ c.idle # <<>>
    /\ \A s \in Slot : s \in ToSet(c.idle) <=> c.ref[s] = 0

\* The operations that make a connection, and those on one that is made.
Making(c, s) == c.pending[s]["accept"] + c.pending[s]["handshake"]
Under(c, s) == c.pending[s]["read"] + c.pending[s]["write"]

\* The references of one client object.  While a connection is made nothing else is under way.
SlotInv(c, s) ==
    /\ c.ref[s] = (IF c.open[s] THEN 1 ELSE c.pending[s]["accept"]) + Under(c, s)
    /\ Making(c, s) > 0 => Making(c, s) = 1 /\ Under(c, s) = 0
    /\ c.pending[s]["accept"] > 0 => ~ c.open[s]
    /\ c.pending[s]["handshake"] > 0 => c.open[s]

\* At most one connection is being made.
ConnectionInv(c) == \A s, t \in Slot : Making(c, s) > 0 /\ Making(c, t) > 0 => s = t

\* And one is, unless the acceptor has closed or an accept has failed.
AcceptInv ==
    running /\ acceptor = "open" /\ ~ acceptFailed => \E s \in Slot : Making(io, s) > 0

\* The socket of a connection that is made.
Live(c, s) == c.open[s] /\ c.pending[s]["handshake"] = 0

\* The clients in the map have live sockets, each its own, and while the thread runs no live
\* socket is without one.
ClientInv ==
    /\ \A n \in mapClient : Live(io, clients[n].slot)
    /\ \A m, n \in mapClient : clients[m].slot = clients[n].slot => m = n
    /\ running => \A s \in Slot :
          Live(io, s) => \E n \in mapClient : clients[n].slot = s

\* What the module has heard, or is about to hear, of the end of connection n.
Report(n) ==
    /\ n \in mapClient \cup broken => \A i \in DOMAIN events : events[i] # Broken(n)
    /\ n \notin mapClient \cup broken => \E i \in DOMAIN events : events[i] = Broken(n)
    /\ \A i, j \in DOMAIN events : events[i] = Broken(n) /\ events[j] = Broken(n) => i = j
    /\ \A i, j \in DOMAIN events : events[i] = Broken(n) /\ events[j] = Req(n) => j < i
    /\ n \in broken => n \notin mapClient /\ \A j \in DOMAIN events : events[j] # Req(n)

ReportInv == \A n \in DOMAIN clients : Report(n)

\* A living client has one of: an operation under way, a request owed, a request posted.
Turn(n) ==
    /\ \A i, j \in DOMAIN events : events[i] = Req(n) /\ events[j] = Req(n) => i = j
    /\ \/ /\ Under(io, clients[n].slot) = 1
          /\ n \notin owed /\ \A i \in DOMAIN events : events[i] # Req(n)
       \/ /\ Under(io, clients[n].slot) = 0
          /\ n \in owed /\ \A i \in DOMAIN events : events[i] # Req(n)
       \/ /\ Under(io, clients[n].slot) = 0
          /\ n \notin owed /\ \E i \in DOMAIN events : events[i] = Req(n)

TurnInv == pushes = 0 => \A n \in mapClient : Turn(n)

-----------------------------------------------------------------------------
\* An element that a queue lacks is put at its end.
LEMMA AppendOne ==
    ASSUME NEW S, NEW q \in Seq(S), NEW x \in S, IsInjective(q), x \notin ToSet(q)
    PROVE  /\ Append(q, x) \in Seq(S) /\ Append(q, x) # <<>>
           /\ IsInjective(Append(q, x))
           /\ ToSet(Append(q, x)) = ToSet(q) \cup {x}
           /\ q # <<>> => Head(Append(q, x)) = Head(q) /\ Tail(Append(q, x)) # <<>>
<1> DEFINE r == Append(q, x)
<1>1. /\ r \in Seq(S) /\ Len(q) \in Nat /\ Len(r) = Len(q) + 1
      /\ DOMAIN q = 1..Len(q) /\ DOMAIN r = 1..(Len(q) + 1)
      /\ \A i \in 1..Len(q) : r[i] = q[i]
      /\ r[Len(q) + 1] = x
  OBVIOUS
<1>2. r # <<>>
  BY <1>1
<1>3. IsInjective(r)
  BY <1>1 DEF IsInjective, ToSet
<1>4. ToSet(r) = ToSet(q) \cup {x}
  BY <1>1 DEF ToSet
<1>5. ASSUME q # <<>> PROVE Head(r) = Head(q) /\ Tail(r) # <<>>
  <2>1. Len(q) > 0
    BY <1>1, <1>5
  <2>2. Head(r) = r[1] /\ Head(q) = q[1] /\ Len(Tail(r)) = Len(q)
    BY <1>1, <1>2, <1>5
  <2>3. QED
    BY <1>1, <2>1, <2>2
<1>6. QED
  BY <1>1, <1>2, <1>3, <1>4, <1>5

\* The head of a queue is taken.
LEMMA TailOne ==
    ASSUME NEW S, NEW q \in Seq(S), IsInjective(q), q # <<>>
    PROVE  /\ Head(q) \in S /\ Head(q) \in ToSet(q)
           /\ Tail(q) \in Seq(S) /\ IsInjective(Tail(q))
           /\ ToSet(Tail(q)) = ToSet(q) \ {Head(q)}
<1> DEFINE r == Tail(q)
<1>1. /\ r \in Seq(S) /\ Len(q) \in Nat /\ Len(q) > 0 /\ Len(r) = Len(q) - 1
      /\ DOMAIN q = 1..Len(q) /\ DOMAIN r = 1..(Len(q) - 1)
      /\ \A i \in 1..(Len(q) - 1) : r[i] = q[i + 1]
      /\ Head(q) = q[1]
  OBVIOUS
<1>2. Head(q) \in S /\ Head(q) \in ToSet(q)
  BY <1>1 DEF ToSet
<1>3. IsInjective(r)
  BY <1>1 DEF IsInjective
<1>4. ToSet(r) \subseteq ToSet(q) \ {Head(q)}
  BY <1>1 DEF IsInjective, ToSet
<1>5. ASSUME NEW y \in ToSet(q) \ {Head(q)} PROVE y \in ToSet(r)
  <2>1. PICK i \in 1..Len(q) : q[i] = y
    BY <1>1 DEF ToSet
  <2>2. i - 1 \in 1..(Len(q) - 1) /\ r[i - 1] = q[i]
    BY <1>1, <2>1
  <2>3. QED
    BY <1>1, <2>1, <2>2 DEF ToSet
<1>6. QED
  BY <1>1, <1>2, <1>3, <1>4, <1>5
-----------------------------------------------------------------------------
Sound(c) == c \in Container /\ IdleInv(c)

\* k more operations op are under way on s.
Pended(c, d, s, op, k) ==
    \A t \in Slot, o \in Operation :
        d.pending[t][o] = IF t = s /\ o = op THEN c.pending[t][o] + k ELSE c.pending[t][o]

\* A completed operation changes nothing but the count of such operations.
LEMMA FinishIs ==
    ASSUME NEW c, Sound(c), NEW s \in Slot, NEW op \in Operation, c.pending[s][op] > 0
    PROVE  /\ Sound(Finish(c, s, op))
           /\ Finish(c, s, op).idle = c.idle /\ Finish(c, s, op).open = c.open
           /\ Finish(c, s, op).ref = c.ref
           /\ Pended(c, Finish(c, s, op), s, op, -1)
<1>1. c.pending[s][op] - 1 \in Nat
  BY DEF Sound, Container
<1>2. [c.pending EXCEPT ![s][op] = @ - 1] \in [Slot -> [Operation -> Nat]]
  BY <1>1 DEF Sound, Container
<1>3. /\ Sound(Finish(c, s, op))
      /\ Finish(c, s, op).idle = c.idle /\ Finish(c, s, op).open = c.open
      /\ Finish(c, s, op).ref = c.ref
      /\ Finish(c, s, op).pending = [c.pending EXCEPT ![s][op] = @ - 1]
  BY <1>2 DEF Sound, Container, IdleInv, Finish
<1>4. c.pending \in [Slot -> [Operation -> Nat]]
  BY DEF Sound, Container
<1>5. Pended(c, Finish(c, s, op), s, op, -1)
  BY <1>3, <1>4 DEF Pended
<1>6. QED
  BY <1>3, <1>5

\* An operation holds a reference to an object that has others already.
LEMMA StartIs ==
    ASSUME NEW c, Sound(c), NEW s \in Slot, NEW op \in Operation, c.ref[s] > 0
    PROVE  /\ Sound(Start(c, s, op))
           /\ Start(c, s, op).idle = c.idle /\ Start(c, s, op).open = c.open
           /\ Start(c, s, op).ref = [c.ref EXCEPT ![s] = @ + 1]
           /\ Pended(c, Start(c, s, op), s, op, 1)
<1>1. /\ [c.pending EXCEPT ![s][op] = @ + 1] \in [Slot -> [Operation -> Nat]]
      /\ [c.ref EXCEPT ![s] = @ + 1] \in [Slot -> Nat]
  BY DEF Sound, Container
<1>2. Start(c, s, op) \in Container
  BY <1>1 DEF Sound, Container, Start
<1>3. /\ Sound(Start(c, s, op))
      /\ Start(c, s, op).idle = c.idle /\ Start(c, s, op).open = c.open
      /\ Start(c, s, op).ref = [c.ref EXCEPT ![s] = @ + 1]
      /\ Start(c, s, op).pending = [c.pending EXCEPT ![s][op] = @ + 1]
  <2>1. c \in Container /\ IdleInv(c) /\ c.ref \in [Slot -> Nat]
    BY DEF Sound, Container
  <2>2. /\ Start(c, s, op).idle = c.idle /\ Start(c, s, op).open = c.open
        /\ Start(c, s, op).ref = [c.ref EXCEPT ![s] = @ + 1]
        /\ Start(c, s, op).pending = [c.pending EXCEPT ![s][op] = @ + 1]
    BY <2>1 DEF Container, Start
  <2>3. \A t \in Slot : Start(c, s, op).ref[t] = 0 <=> c.ref[t] = 0
    BY <2>1, <2>2
  <2>4. IdleInv(Start(c, s, op))
    BY <2>1, <2>2, <2>3 DEF IdleInv
  <2> QED BY <1>2, <2>2, <2>4 DEF Sound
<1>4. c.pending \in [Slot -> [Operation -> Nat]]
  BY DEF Sound, Container
<1>5. Pended(c, Start(c, s, op), s, op, 1)
  BY <1>3, <1>4 DEF Pended
<1>6. QED
  BY <1>3, <1>5

\* The last reference makes the object idle.
LEMMA ReleaseIs ==
    ASSUME NEW c, Sound(c), NEW s \in Slot, c.ref[s] > 0
    PROVE  /\ Sound(Release(c, s))
           /\ Release(c, s).open = c.open /\ Release(c, s).pending = c.pending
           /\ Release(c, s).ref = [c.ref EXCEPT ![s] = @ - 1]
           /\ Release(c, s).idle = IF c.ref[s] = 1 THEN Append(c.idle, s) ELSE c.idle
<1> DEFINE d == [c EXCEPT !.ref[s] = @ - 1]
<1>1. c \in Container /\ c.ref[s] \in Nat /\ c.ref[s] - 1 \in Nat
  BY DEF Sound, Container
<1>2. /\ d \in Container /\ d.idle = c.idle /\ d.open = c.open /\ d.pending = c.pending
      /\ d.ref = [c.ref EXCEPT ![s] = @ - 1] /\ d.ref[s] = c.ref[s] - 1
  BY <1>1 DEF Container
<1>3. CASE c.ref[s] = 1
  <2>1. Release(c, s) = [d EXCEPT !.idle = Append(@, s)]
    BY <1>1, <1>2, <1>3 DEF Release, ClientClose
  <2>2. s \notin ToSet(c.idle)
    BY <1>1, <1>3 DEF Sound, IdleInv
  <2>3. c.idle \in Seq(Slot) /\ IsInjective(c.idle)
    BY <1>1 DEF Sound, IdleInv, Container
  <2>4. /\ Append(c.idle, s) \in Seq(Slot) /\ Append(c.idle, s) # <<>>
        /\ IsInjective(Append(c.idle, s))
        /\ ToSet(Append(c.idle, s)) = ToSet(c.idle) \cup {s}
    BY <2>2, <2>3, AppendOne
  <2>5. /\ Release(c, s) \in Container /\ Release(c, s).idle = Append(c.idle, s)
        /\ Release(c, s).open = c.open /\ Release(c, s).pending = c.pending
        /\ Release(c, s).ref = [c.ref EXCEPT ![s] = @ - 1]
    BY <1>2, <2>1, <2>4 DEF Container
  <2>6. \A t \in Slot : t \in ToSet(c.idle) \cup {s} <=> [c.ref EXCEPT ![s] = @ - 1][t] = 0
    BY <1>1, <1>3 DEF Sound, IdleInv, Container
  <2>7. IdleInv(Release(c, s))
    BY <2>4, <2>5, <2>6 DEF IdleInv
  <2>8. QED
    BY <1>3, <2>5, <2>7 DEF Sound
<1>4. CASE c.ref[s] # 1
  <2>1. Release(c, s) = d
    BY <1>1, <1>2, <1>4 DEF Release
  <2>2. \A t \in Slot : t \in ToSet(c.idle) <=> [c.ref EXCEPT ![s] = @ - 1][t] = 0
    BY <1>1, <1>4 DEF Sound, IdleInv, Container
  <2>3. IdleInv(d)
    BY <1>2, <2>2 DEF Sound, IdleInv
  <2>4. QED
    BY <1>2, <1>4, <2>1, <2>3 DEF Sound
<1>5. QED
  BY <1>3, <1>4

\* A socket opens or closes; who holds references is another matter.
LEMMA OpenIs ==
    ASSUME NEW c, Sound(c), NEW s \in Slot, NEW b \in BOOLEAN
    PROVE  LET d == [c EXCEPT !.open[s] = b]
           IN  /\ Sound(d) /\ d.idle = c.idle /\ d.ref = c.ref /\ d.pending = c.pending
               /\ d.open = [c.open EXCEPT ![s] = b]
<1>1. [c.open EXCEPT ![s] = b] \in [Slot -> BOOLEAN]
  BY DEF Sound, Container
<1>2. QED
  BY <1>1 DEF Sound, Container, IdleInv

\* The reference of an open socket is given up with it.
LEMMA CloseIs ==
    ASSUME NEW c, Sound(c), NEW s \in Slot, c.open[s], c.ref[s] > 0
    PROVE  /\ Sound(Close(c, s))
           /\ Close(c, s).open = [c.open EXCEPT ![s] = FALSE]
           /\ Close(c, s).pending = c.pending
           /\ Close(c, s).ref = [c.ref EXCEPT ![s] = @ - 1]
           /\ Close(c, s).idle = IF c.ref[s] = 1 THEN Append(c.idle, s) ELSE c.idle
<1> DEFINE d == [c EXCEPT !.open[s] = FALSE]
<1>1. Sound(d) /\ d.idle = c.idle /\ d.ref = c.ref /\ d.pending = c.pending
      /\ d.open = [c.open EXCEPT ![s] = FALSE]
  BY OpenIs
<1>2. Close(c, s) = Release(d, s)
  BY DEF Close
<1> HIDE DEF d
<1>3. QED
  BY <1>1, <1>2, ReleaseIs

\* The next accept takes the client object that has been idle for longest.
LEMMA AcceptNextIs ==
    ASSUME NEW c, Sound(c), Tail(c.idle) # <<>>
    PROVE  /\ Head(c.idle) \in Slot /\ c.ref[Head(c.idle)] = 0
           /\ Sound(AcceptNext(c))
           /\ AcceptNext(c).open = c.open
           /\ AcceptNext(c).ref = [c.ref EXCEPT ![Head(c.idle)] = @ + 1]
           /\ Pended(c, AcceptNext(c), Head(c.idle), "accept", 1)
<1> DEFINE h == Head(c.idle)
           d == [c EXCEPT !.idle = Tail(@)]
<1>1. c \in Container /\ c.idle \in Seq(Slot) /\ IsInjective(c.idle) /\ c.idle # <<>>
  BY DEF Sound, IdleInv, Container
<1>2. /\ h \in Slot /\ h \in ToSet(c.idle)
      /\ Tail(c.idle) \in Seq(Slot) /\ IsInjective(Tail(c.idle))
      /\ ToSet(Tail(c.idle)) = ToSet(c.idle) \ {h}
  BY <1>1, TailOne
<1>3. c.ref[h] = 0
  BY <1>2 DEF Sound, IdleInv
<1>4. /\ d \in Container /\ d.idle = Tail(c.idle) /\ d.ref = c.ref /\ d.open = c.open
      /\ d.pending = c.pending
  BY <1>1, <1>2 DEF Container
<1>5. AcceptNext(c) = Start(d, h, "accept")
  BY DEF AcceptNext
<1> HIDE DEF d, h
<1>6. AcceptNext(c) = [d EXCEPT !.ref[h] = @ + 1, !.pending[h]["accept"] = @ + 1]
  BY <1>5 DEF Start
<1>7. [d.pending EXCEPT ![h]["accept"] = @ + 1] \in [Slot -> [Operation -> Nat]]
  <2>1. d.pending \in [Slot -> [Operation -> Nat]] /\ "accept" \in Operation
    BY <1>4 DEF Container, Operation
  <2>2. [d.pending[h] EXCEPT !["accept"] = @ + 1] \in [Operation -> Nat]
    BY <1>2, <2>1
  <2>3. QED
    BY <1>2, <2>1, <2>2
<1>8. [d.ref EXCEPT ![h] = @ + 1] \in [Slot -> Nat]
  <2>1. d.ref \in [Slot -> Nat]
    BY <1>4 DEF Container
  <2>2. QED
    BY <1>2, <2>1
<1>9. /\ AcceptNext(c) \in Container
      /\ AcceptNext(c).idle = Tail(c.idle) /\ AcceptNext(c).open = c.open
      /\ AcceptNext(c).ref = [c.ref EXCEPT ![h] = @ + 1]
      /\ AcceptNext(c).pending = [c.pending EXCEPT ![h]["accept"] = @ + 1]
  BY <1>4, <1>6, <1>7, <1>8 DEF Container
<1>10. \A t \in Slot : t \in ToSet(c.idle) \ {h} <=> [c.ref EXCEPT ![h] = @ + 1][t] = 0
  BY <1>1, <1>2, <1>3 DEF Sound, IdleInv, Container
<1>11. IdleInv(AcceptNext(c))
  BY <1>2, <1>9, <1>10 DEF IdleInv
<1>12. c.pending \in [Slot -> [Operation -> Nat]]
  BY <1>1 DEF Container
<1>13. Pended(c, AcceptNext(c), h, "accept", 1)
  BY <1>2, <1>9, <1>12 DEF Pended
<1>14. QED
  BY <1>2, <1>3, <1>9, <1>11, <1>13 DEF Sound, h
-----------------------------------------------------------------------------
Steady(c) == Sound(c) /\ ConnectionInv(c) /\ \A s \in Slot : SlotInv(c, s)

\* A connection that has been made on s, before anything is read from it.
Fresh(c, s) == /\ Steady(c) /\ c.open[s] /\ Under(c, s) = 0
               /\ \A t \in Slot : Making(c, t) = 0

\* The fields of one client object.
LEMMA FieldTypes ==
    ASSUME NEW c, Sound(c), NEW s \in Slot
    PROVE  /\ c.open[s] \in BOOLEAN /\ c.ref[s] \in Nat
           /\ c.open \in [Slot -> BOOLEAN] /\ c.ref \in [Slot -> Nat]
           /\ \A op \in Operation : c.pending[s][op] \in Nat
           /\ c.pending[s]["accept"] \in Nat /\ c.pending[s]["handshake"] \in Nat
           /\ c.pending[s]["read"] \in Nat /\ c.pending[s]["write"] \in Nat
           /\ Making(c, s) \in Nat /\ Under(c, s) \in Nat
<1>1. c.pending[s] \in [Operation -> Nat]
  BY DEF Sound, Container
<1>2. /\ c.pending[s]["accept"] \in Nat /\ c.pending[s]["handshake"] \in Nat
      /\ c.pending[s]["read"] \in Nat /\ c.pending[s]["write"] \in Nat
  BY <1>1 DEF Operation
<1>3. c.open[s] \in BOOLEAN /\ c.ref[s] \in Nat /\ c.open \in [Slot -> BOOLEAN] /\ c.ref \in [Slot -> Nat]
  BY DEF Sound, Container
<1>4. QED
  BY <1>1, <1>2, <1>3 DEF Making, Under

\* One more or one fewer operation under way, seen from every object.
LEMMA PendedOthers ==
    ASSUME NEW c, NEW d, NEW s, NEW op, NEW k, Pended(c, d, s, op, k), NEW t \in Slot, t # s
    PROVE  /\ Making(d, t) = Making(c, t) /\ Under(d, t) = Under(c, t)
           /\ d.pending[t]["accept"] = c.pending[t]["accept"]
           /\ d.pending[t]["handshake"] = c.pending[t]["handshake"]
BY DEF Pended, Making, Under, Operation

\* The same, seen from the object itself.
LEMMA PendedSums ==
    ASSUME NEW c, Sound(c), NEW d, NEW s \in Slot, NEW op \in Operation, NEW k \in Int,
           Pended(c, d, s, op, k)
    PROVE  /\ op \in {"accept", "handshake"} =>
                 Making(d, s) = Making(c, s) + k /\ Under(d, s) = Under(c, s)
           /\ op \in {"read", "write"} =>
                 Making(d, s) = Making(c, s) /\ Under(d, s) = Under(c, s) + k
           /\ op # "accept" => d.pending[s]["accept"] = c.pending[s]["accept"]
           /\ op # "handshake" => d.pending[s]["handshake"] = c.pending[s]["handshake"]
           /\ d.pending[s][op] = c.pending[s][op] + k
<1>1. c.pending \in [Slot -> [Operation -> Nat]]
  BY DEF Sound, Container
<1>2. \A t \in Slot, o \in Operation :
        d.pending[t][o] = IF t = s /\ o = op THEN c.pending[t][o] + k ELSE c.pending[t][o]
  BY DEF Pended
<1>3. \A t \in Slot, o \in Operation : c.pending[t][o] \in Nat
  BY <1>1
<1>4. Operation = {"accept", "handshake", "read", "write"}
  BY DEF Operation
<1>5. CASE op = "accept"
  BY <1>2, <1>3, <1>4, <1>5 DEF Making, Under
<1>6. CASE op = "handshake"
  BY <1>2, <1>3, <1>4, <1>6 DEF Making, Under
<1>7. CASE op = "read"
  BY <1>2, <1>3, <1>4, <1>7 DEF Making, Under
<1>8. CASE op = "write"
  BY <1>2, <1>3, <1>4, <1>8 DEF Making, Under
<1>9. QED
  BY <1>4, <1>5, <1>6, <1>7, <1>8

\* What a reader of one object compares.
Same(c, d, t) == /\ d.open[t] = c.open[t] /\ d.ref[t] = c.ref[t]
                 /\ Making(d, t) = Making(c, t) /\ Under(d, t) = Under(c, t)
                 /\ d.pending[t]["accept"] = c.pending[t]["accept"]
                 /\ d.pending[t]["handshake"] = c.pending[t]["handshake"]

\* An object that looks the same keeps its invariant.
LEMMA SameKeeps ==
    ASSUME NEW c, NEW d, NEW t, Same(c, d, t), SlotInv(c, t)
    PROVE  SlotInv(d, t)
BY DEF Same, SlotInv

\* Two objects are the same in all respects but s: enough for the invariant of the others.
LEMMA OthersKeep ==
    ASSUME NEW c, Steady(c), NEW d, Sound(d), NEW s \in Slot,
           \A t \in Slot : t # s => Same(c, d, t),
           SlotInv(d, s), Making(d, s) > 0 => Making(c, s) > 0 \/ \A t \in Slot : Making(c, t) = 0
    PROVE  Steady(d)
<1>1. \A t \in Slot : SlotInv(d, t)
  BY SameKeeps DEF Steady
<1>2. \A t \in Slot : t # s => Making(d, t) = Making(c, t)
  BY DEF Same
<1>3. ConnectionInv(d)
  BY <1>2 DEF Steady, ConnectionInv
<1>4. QED
  BY <1>1, <1>3 DEF Steady

\* An accept that completes leaves a connection that is made, and no other.
LEMMA AcceptOpens ==
    ASSUME NEW c, Steady(c), NEW s \in Slot, c.pending[s]["accept"] > 0
    PROVE  LET d == [Finish(c, s, "accept") EXCEPT !.open[s] = TRUE]
           IN  /\ Fresh(d, s) /\ d.open = [c.open EXCEPT ![s] = TRUE] /\ ~ c.open[s]
               /\ d.idle = c.idle
               /\ \A t \in Slot : Under(d, t) = Under(c, t) /\ d.pending[t]["handshake"] = 0
<1> DEFINE f == Finish(c, s, "accept")
           d == [f EXCEPT !.open[s] = TRUE]
<1>1. Sound(c) /\ "accept" \in Operation
  BY DEF Steady, Operation
<1>2. /\ Sound(f) /\ f.idle = c.idle /\ f.open = c.open /\ f.ref = c.ref
      /\ Pended(c, f, s, "accept", -1)
  BY <1>1, FinishIs
<1> HIDE DEF f
<1>3. /\ Sound(d) /\ d.idle = f.idle /\ d.ref = f.ref /\ d.pending = f.pending
      /\ d.open = [f.open EXCEPT ![s] = TRUE]
  BY <1>2, OpenIs
<1> HIDE DEF d
<1>4. Pended(c, d, s, "accept", -1)
  BY <1>2, <1>3 DEF Pended
<1>5. /\ \A t \in Slot : t # s =>
                 /\ Making(d, t) = Making(c, t) /\ Under(d, t) = Under(c, t)
                 /\ d.pending[t]["accept"] = c.pending[t]["accept"]
                 /\ d.pending[t]["handshake"] = c.pending[t]["handshake"]
      /\ Making(d, s) = Making(c, s) - 1 /\ Under(d, s) = Under(c, s)
      /\ d.pending[s]["handshake"] = c.pending[s]["handshake"]
      /\ d.pending[s]["accept"] = c.pending[s]["accept"] - 1
  <2>1. -1 \in Int
    OBVIOUS
  <2>2. \A t \in Slot : t # s =>
                 /\ Making(d, t) = Making(c, t) /\ Under(d, t) = Under(c, t)
                 /\ d.pending[t]["accept"] = c.pending[t]["accept"]
                 /\ d.pending[t]["handshake"] = c.pending[t]["handshake"]
    BY <1>4, PendedOthers
  <2>3. /\ Making(d, s) = Making(c, s) + (-1) /\ Under(d, s) = Under(c, s)
        /\ d.pending[s]["handshake"] = c.pending[s]["handshake"]
        /\ d.pending[s]["accept"] = c.pending[s]["accept"] + (-1)
    BY <1>1, <1>4, <2>1, PendedSums
  <2>4. QED
    BY <1>1, <2>2, <2>3, FieldTypes
<1>6. /\ c.open \in [Slot -> BOOLEAN] /\ Making(c, s) \in Nat /\ c.pending[s]["accept"] \in Nat
      /\ c.pending[s]["handshake"] \in Nat /\ Under(c, s) \in Nat /\ c.ref[s] \in Nat
  BY <1>1, FieldTypes
<1>7. Making(c, s) > 0 /\ Making(c, s) = 1 /\ Under(c, s) = 0 /\ ~ c.open[s] /\ SlotInv(c, s)
  BY <1>6 DEF Steady, SlotInv, Making
<1>8. c.pending[s]["accept"] = 1 /\ c.pending[s]["handshake"] = 0
  BY <1>6, <1>7 DEF Making
<1>9. d.open = [c.open EXCEPT ![s] = TRUE] /\ d.open[s]
  BY <1>2, <1>3, <1>6
<1>10. SlotInv(d, s) /\ Making(d, s) = 0
  BY <1>2, <1>3, <1>5, <1>6, <1>7, <1>8, <1>9 DEF SlotInv
<1>11. \A t \in Slot : t # s => Same(c, d, t)
  BY <1>2, <1>3, <1>5, <1>9 DEF Same
<1>12. Steady(d)
  BY <1>3, <1>10, <1>11, OthersKeep
<1>13. \A t \in Slot : Making(c, t) \in Nat /\ c.pending[t]["accept"] \in Nat /\ c.pending[t]["handshake"] \in Nat
  BY <1>1, FieldTypes
<1>14. \A t \in Slot : t # s => Making(c, t) = 0
  BY <1>7, <1>13 DEF Steady, ConnectionInv
<1>15. \A t \in Slot : Making(d, t) = 0
  BY <1>5, <1>10, <1>14
<1>16. \A t \in Slot : d.pending[t]["handshake"] = 0
  BY <1>5, <1>8, <1>13, <1>14 DEF Making
<1>17. QED
  BY <1>2, <1>3, <1>5, <1>7, <1>9, <1>12, <1>15, <1>16 DEF Fresh, d, f

\* A handshake that completes leaves a connection that is made, too.
LEMMA HandshakeOpens ==
    ASSUME NEW c, Steady(c), NEW s \in Slot, c.pending[s]["handshake"] > 0
    PROVE  LET d == Finish(c, s, "handshake")
           IN  /\ Fresh(d, s) /\ d.open = c.open /\ d.idle = c.idle
               /\ \A t \in Slot : Under(d, t) = Under(c, t) /\ d.pending[t]["handshake"] = 0
<1> DEFINE d == Finish(c, s, "handshake")
<1>1. Sound(c) /\ "handshake" \in Operation /\ -1 \in Int
  BY DEF Steady, Operation
<1>2. /\ Sound(d) /\ d.idle = c.idle /\ d.open = c.open /\ d.ref = c.ref
      /\ Pended(c, d, s, "handshake", -1)
  BY <1>1, FinishIs
<1> HIDE DEF d
<1>3. \A t \in Slot : t # s => Same(c, d, t)
  BY <1>2, PendedOthers DEF Same
<1>4. /\ Making(d, s) = Making(c, s) + (-1) /\ Under(d, s) = Under(c, s)
      /\ d.pending[s]["accept"] = c.pending[s]["accept"]
      /\ d.pending[s]["handshake"] = c.pending[s]["handshake"] + (-1)
  BY <1>1, <1>2, PendedSums
<1>5. \A t \in Slot : /\ Making(c, t) \in Nat /\ c.pending[t]["accept"] \in Nat
                      /\ c.pending[t]["handshake"] \in Nat
  BY <1>1, FieldTypes
<1>6. /\ SlotInv(c, s) /\ Making(c, s) > 0 /\ Making(c, s) = 1 /\ Under(c, s) = 0 /\ c.open[s]
      /\ c.pending[s]["handshake"] = 1 /\ c.pending[s]["accept"] = 0
  BY <1>5 DEF Steady, SlotInv, Making
<1>7. SlotInv(d, s) /\ Making(d, s) = 0 /\ d.pending[s]["handshake"] = 0 /\ Under(d, s) = 0
  BY <1>2, <1>4, <1>5, <1>6 DEF SlotInv
<1>8. Steady(d)
  BY <1>2, <1>3, <1>7, OthersKeep
<1>9. \A t \in Slot : t # s => Making(c, t) = 0
  BY <1>5, <1>6 DEF Steady, ConnectionInv
<1>10. \A t \in Slot : Making(d, t) = 0
  BY <1>3, <1>7, <1>9 DEF Same
<1>11. \A t \in Slot : d.pending[t]["handshake"] = 0
  BY <1>3, <1>5, <1>7, <1>9 DEF Making, Same
<1>12. \A t \in Slot : Under(d, t) = Under(c, t)
  BY <1>3, <1>4 DEF Same
<1>13. QED
  BY <1>2, <1>6, <1>7, <1>8, <1>10, <1>11, <1>12 DEF Fresh, d

\* With TLS, the connection is made when the handshake completes as well.
LEMMA Handshaking ==
    ASSUME NEW c, NEW s \in Slot, Fresh(c, s)
    PROVE  LET d == [c EXCEPT !.pending[s]["handshake"] = @ + 1]
           IN  /\ Steady(d) /\ d.open = c.open /\ Making(d, s) > 0
               /\ d.pending[s]["handshake"] > 0
               /\ \A t \in Slot : Under(d, t) = Under(c, t)
               /\ \A t \in Slot : t # s => d.pending[t]["handshake"] = c.pending[t]["handshake"]
<1> DEFINE d == [c EXCEPT !.pending[s]["handshake"] = @ + 1]
<1>1. Sound(c) /\ "handshake" \in Operation /\ c.pending \in [Slot -> [Operation -> Nat]]
  BY DEF Fresh, Steady, Sound, Container, Operation
<1>2. [c.pending EXCEPT ![s]["handshake"] = @ + 1] \in [Slot -> [Operation -> Nat]]
  <2>1. [c.pending[s] EXCEPT !["handshake"] = @ + 1] \in [Operation -> Nat]
    BY <1>1
  <2>2. QED
    BY <1>1, <2>1
<1>3. /\ Sound(d) /\ d.idle = c.idle /\ d.open = c.open /\ d.ref = c.ref
      /\ d.pending = [c.pending EXCEPT ![s]["handshake"] = @ + 1]
  BY <1>1, <1>2 DEF Sound, Container, IdleInv
<1> HIDE DEF d
<1>4. Pended(c, d, s, "handshake", 1)
  BY <1>1, <1>3 DEF Pended
<1>5. \A t \in Slot : t # s => Same(c, d, t)
  BY <1>3, <1>4, PendedOthers DEF Same
<1>6. /\ Making(d, s) = Making(c, s) + 1 /\ Under(d, s) = Under(c, s)
      /\ d.pending[s]["accept"] = c.pending[s]["accept"]
      /\ d.pending[s]["handshake"] = c.pending[s]["handshake"] + 1
  BY <1>1, <1>4, PendedSums
<1>7. /\ Making(c, s) = 0 /\ Under(c, s) = 0 /\ c.open[s] /\ SlotInv(c, s)
      /\ c.pending[s]["accept"] \in Nat /\ c.pending[s]["handshake"] \in Nat
  BY <1>1, FieldTypes DEF Fresh, Steady
<1>8. c.pending[s]["accept"] = 0 /\ c.pending[s]["handshake"] = 0
  BY <1>7 DEF Making
<1>9. SlotInv(d, s)
  BY <1>3, <1>6, <1>7, <1>8 DEF SlotInv
<1>10. Steady(d)
  BY <1>3, <1>5, <1>9, OthersKeep DEF Fresh
<1>11. QED
  BY <1>3, <1>5, <1>6, <1>7, <1>8, <1>10 DEF Same, d

\* One accept is started when none is under way.
LEMMA NextAccept ==
    ASSUME NEW c, Steady(c), \A t \in Slot : Making(c, t) = 0, Tail(c.idle) # <<>>
    PROVE  LET d == AcceptNext(c)
               h == Head(c.idle)
           IN  /\ Steady(d) /\ d.open = c.open /\ h \in Slot /\ Making(d, h) > 0
               /\ c.ref[h] = 0 /\ \A t \in Slot : t # h => d.ref[t] = c.ref[t]
               /\ \A t \in Slot : Under(d, t) = Under(c, t)
                                  /\ d.pending[t]["handshake"] = c.pending[t]["handshake"]
<1> DEFINE d == AcceptNext(c)
           h == Head(c.idle)
<1>1. Sound(c) /\ "accept" \in Operation
  BY DEF Steady, Operation
<1>2. /\ h \in Slot /\ c.ref[h] = 0 /\ Sound(d) /\ d.open = c.open
      /\ d.ref = [c.ref EXCEPT ![h] = @ + 1] /\ Pended(c, d, h, "accept", 1)
  BY <1>1, AcceptNextIs
<1> HIDE DEF d, h
<1>3. \A t \in Slot : t # h => Same(c, d, t)
  BY <1>1, <1>2, PendedOthers, FieldTypes DEF Same
<1>4. /\ Making(d, h) = Making(c, h) + 1 /\ Under(d, h) = Under(c, h)
      /\ d.pending[h]["handshake"] = c.pending[h]["handshake"]
      /\ d.pending[h]["accept"] = c.pending[h]["accept"] + 1
  BY <1>1, <1>2, PendedSums
<1>5. /\ c.open[h] \in BOOLEAN /\ Under(c, h) \in Nat /\ c.pending[h]["accept"] \in Nat
      /\ c.pending[h]["handshake"] \in Nat /\ c.ref \in [Slot -> Nat]
  BY <1>1, <1>2, FieldTypes
<1>6. /\ SlotInv(c, h) /\ Making(c, h) = 0 /\ c.pending[h]["accept"] = 0
      /\ c.pending[h]["handshake"] = 0
  BY <1>2, <1>5 DEF Steady, Making
<1>7. ~ c.open[h] /\ Under(c, h) = 0
  BY <1>2, <1>5, <1>6 DEF SlotInv
<1>8. d.ref[h] = 1
  BY <1>2, <1>5
<1>9. SlotInv(d, h)
  BY <1>2, <1>4, <1>6, <1>7, <1>8 DEF SlotInv
<1>10. Steady(d)
  BY <1>2, <1>3, <1>9, OthersKeep
<1>11. QED
  BY <1>2, <1>3, <1>4, <1>6, <1>10 DEF Same, d, h

\* Reads and writes: k more are under way on s.
Moves(c, d, s, k) ==
    /\ Steady(d)
    /\ \A t \in Slot : /\ Making(d, t) = Making(c, t)
                       /\ d.pending[t]["handshake"] = c.pending[t]["handshake"]
                       /\ Under(d, t) = IF t = s THEN Under(c, t) + k ELSE Under(c, t)

\* The same for the operations alone.
Sums(c, d, s, k) ==
    \A t \in Slot : /\ Making(d, t) = Making(c, t)
                    /\ d.pending[t]["accept"] = c.pending[t]["accept"]
                    /\ d.pending[t]["handshake"] = c.pending[t]["handshake"]
                    /\ Under(d, t) = IF t = s THEN Under(c, t) + k ELSE Under(c, t)

\* A read or a write more or less, in sums.
LEMMA PendedIsSums ==
    ASSUME NEW c, Sound(c), NEW d, NEW s \in Slot, NEW op \in {"read", "write"}, NEW k \in Int,
           Pended(c, d, s, op, k)
    PROVE  Sums(c, d, s, k)
<1>1. op \in Operation /\ op # "accept" /\ op # "handshake"
  BY DEF Operation
<1>2. /\ Making(d, s) = Making(c, s) /\ Under(d, s) = Under(c, s) + k
      /\ d.pending[s]["accept"] = c.pending[s]["accept"]
      /\ d.pending[s]["handshake"] = c.pending[s]["handshake"]
  BY <1>1, PendedSums
<1>3. QED
  BY <1>2, PendedOthers DEF Sums

\* A read or a write that starts or completes, and the reference it holds.
LEMMA MovesIf ==
    ASSUME NEW c, Steady(c), NEW d, Sound(d), NEW s \in Slot,
           NEW k \in Int, Sums(c, d, s, k), NEW b \in Int,
           d.ref = [c.ref EXCEPT ![s] = @ + b], Making(c, s) = 0,
           \/ d.open = c.open /\ b = k
           \/ d.open = [c.open EXCEPT ![s] = FALSE] /\ c.open[s] /\ b = k - 1
    PROVE  Moves(c, d, s, k)
<1>1. Sound(c)
  BY DEF Steady
<1>2. c.ref \in [Slot -> Nat] /\ c.open \in [Slot -> BOOLEAN] /\ d.open \in [Slot -> BOOLEAN]
  BY <1>1, FieldTypes
<1>3. \A t \in Slot : t # s => d.ref[t] = c.ref[t] /\ d.open[t] = c.open[t]
  BY <1>2
<1>4. \A t \in Slot : t # s => Same(c, d, t)
  BY <1>3 DEF Same, Sums
<1>5. /\ Making(d, s) = Making(c, s) /\ Under(d, s) = Under(c, s) + k
      /\ d.pending[s]["accept"] = c.pending[s]["accept"]
      /\ d.pending[s]["handshake"] = c.pending[s]["handshake"]
  BY DEF Sums
<1>6. /\ SlotInv(c, s) /\ c.pending[s]["accept"] = 0 /\ c.pending[s]["handshake"] = 0
      /\ Under(c, s) \in Nat /\ c.ref[s] \in Nat
  <2>1. /\ c.pending[s]["accept"] \in Nat /\ c.pending[s]["handshake"] \in Nat
        /\ Under(c, s) \in Nat /\ c.ref[s] \in Nat
    BY <1>1, FieldTypes
  <2>2. QED
    BY <2>1 DEF Steady, Making
<1>7. d.ref[s] = c.ref[s] + b
  BY <1>2
<1>8. d.ref[s] = (IF d.open[s] THEN 1 ELSE 0) + Under(d, s)
  <2>1. CASE d.open = c.open /\ b = k
    <3>1. c.ref[s] = (IF c.open[s] THEN 1 ELSE 0) + Under(c, s)
      BY <1>6 DEF SlotInv
    <3>2. QED
      BY <1>5, <1>6, <1>7, <2>1, <3>1
  <2>2. CASE d.open = [c.open EXCEPT ![s] = FALSE] /\ c.open[s] /\ b = k - 1
    <3>1. c.ref[s] = 1 + Under(c, s)
      BY <1>6, <2>2 DEF SlotInv
    <3>2. d.open[s] = FALSE
      BY <1>2, <2>2
    <3>3. QED
      BY <1>5, <1>6, <1>7, <2>2, <3>1, <3>2
  <2>3. QED
    BY <2>1, <2>2
<1>9. SlotInv(d, s)
  BY <1>5, <1>6, <1>8 DEF SlotInv
<1>10. Steady(d)
  BY <1>4, <1>5, <1>9, OthersKeep
<1>11. QED
  BY <1>4, <1>5, <1>10 DEF Moves, Same

\* An object with a read or a write under way, or with a socket, has a reference, and no
\* connection is being made on it.
LEMMA Busy ==
    ASSUME NEW c, Steady(c), NEW s \in Slot, NEW op \in {"read", "write"}, c.pending[s][op] > 0
    PROVE  Making(c, s) = 0 /\ c.ref[s] > 0 /\ c.ref[s] \in Nat /\ Under(c, s) > 0
           /\ (c.open[s] => c.ref[s] > 1) /\ c.pending[s]["handshake"] = 0
<1>1. /\ c.pending[s]["accept"] \in Nat /\ c.pending[s]["handshake"] \in Nat
      /\ c.pending[s]["read"] \in Nat /\ c.pending[s]["write"] \in Nat
      /\ Making(c, s) \in Nat /\ c.ref[s] \in Nat /\ c.open[s] \in BOOLEAN
  BY FieldTypes DEF Steady
<1>2. Under(c, s) > 0 /\ Under(c, s) \in Nat
  BY <1>1 DEF Under
<1>3. SlotInv(c, s) /\ Making(c, s) = 0
  BY <1>1, <1>2 DEF Steady, SlotInv
<1>4. c.pending[s]["accept"] = 0 /\ c.pending[s]["handshake"] = 0
  BY <1>1, <1>3 DEF Making
<1>5. c.ref[s] = (IF c.open[s] THEN 1 ELSE 0) + Under(c, s)
  BY <1>3, <1>4 DEF SlotInv
<1>6. QED
  BY <1>1, <1>2, <1>3, <1>4, <1>5

\* A read or a write completes and nothing follows.
LEMMA Completed ==
    ASSUME NEW c, Steady(c), NEW s \in Slot, NEW op \in {"read", "write"}, c.pending[s][op] > 0
    PROVE  LET d == Release(Finish(c, s, op), s)
           IN  Moves(c, d, s, -1) /\ d.open = c.open
<1> DEFINE f == Finish(c, s, op)
           d == Release(f, s)
<1>1. Sound(c) /\ op \in Operation /\ -1 \in Int
  BY DEF Steady, Operation
<1>2. c.ref[s] > 0 /\ Making(c, s) = 0
  BY Busy
<1>3. /\ Sound(f) /\ f.open = c.open /\ f.ref = c.ref /\ Pended(c, f, s, op, -1)
  BY <1>1, FinishIs
<1> HIDE DEF f
<1>4. /\ Sound(d) /\ d.open = f.open /\ d.pending = f.pending
      /\ d.ref = [f.ref EXCEPT ![s] = @ - 1]
  BY <1>2, <1>3, ReleaseIs
<1> HIDE DEF d
<1>5. Pended(c, d, s, op, -1)
  BY <1>3, <1>4 DEF Pended
<1>6. c.ref \in [Slot -> Nat]
  BY <1>1, FieldTypes
<1>7. d.ref = [c.ref EXCEPT ![s] = @ + (-1)]
  BY <1>3, <1>4, <1>6
<1>8. d.open = c.open
  BY <1>3, <1>4
<1>9. Sums(c, d, s, -1)
  BY <1>1, <1>5, PendedIsSums
<1>10. Moves(c, d, s, -1)
  BY <1>1, <1>2, <1>4, <1>7, <1>8, <1>9, MovesIf
<1>11. QED
  BY <1>8, <1>10 DEF d, f

\* A read or a write starts on a connection that is made.
LEMMA Started ==
    ASSUME NEW c, Steady(c), NEW s \in Slot, NEW op \in {"read", "write"}, c.open[s],
           Making(c, s) = 0
    PROVE  Moves(c, Start(c, s, op), s, 1) /\ Start(c, s, op).open = c.open
           /\ Start(c, s, op).idle = c.idle /\ Start(c, s, op).pending[s][op] > 0
<1> DEFINE d == Start(c, s, op)
<1>1. Sound(c) /\ op \in Operation
  BY DEF Steady, Operation
<1>2. c.ref[s] > 0
  <2>1. c.ref[s] \in Nat /\ Under(c, s) \in Nat /\ SlotInv(c, s)
    BY <1>1, FieldTypes DEF Steady
  <2>2. QED
    BY <2>1 DEF SlotInv
<1>3. /\ Sound(d) /\ d.idle = c.idle /\ d.open = c.open
      /\ d.ref = [c.ref EXCEPT ![s] = @ + 1] /\ Pended(c, d, s, op, 1)
  BY <1>1, <1>2, StartIs
<1> HIDE DEF d
<1>4. Moves(c, d, s, 1)
  <2>1. Sums(c, d, s, 1) /\ 1 \in Int
    BY <1>1, <1>3, PendedIsSums
  <2>2. QED
    BY <1>3, <2>1, MovesIf
<1>5. c.pending[s][op] \in Nat
  BY <1>1, FieldTypes
<1>6. d.pending[s][op] = c.pending[s][op] + 1
  BY <1>1, <1>3 DEF Pended
<1>7. QED
  BY <1>3, <1>4, <1>5, <1>6 DEF d

\* A read or a write completes and another one follows.
LEMMA Continued ==
    ASSUME NEW c, Steady(c), NEW s \in Slot, NEW op \in {"read", "write"}, c.pending[s][op] > 0,
           NEW next \in {"read", "write"}
    PROVE  LET d == Release(Start(Finish(c, s, op), s, next), s)
           IN  Moves(c, d, s, 0) /\ d.open = c.open
<1> DEFINE f == Finish(c, s, op)
           e == Start(f, s, next)
           d == Release(e, s)
<1>1. Sound(c) /\ op \in Operation /\ next \in Operation /\ -1 \in Int /\ 0 \in Int /\ 1 \in Int
  BY DEF Steady, Operation
<1>2. c.ref[s] > 0 /\ Making(c, s) = 0 /\ c.ref \in [Slot -> Nat]
  BY <1>1, Busy, FieldTypes
<1>3. /\ Sound(f) /\ f.open = c.open /\ f.ref = c.ref /\ Pended(c, f, s, op, -1)
  BY <1>1, FinishIs
<1>4. Sums(c, f, s, -1)
  BY <1>1, <1>3, PendedIsSums
<1> HIDE DEF f
<1>5. /\ Sound(e) /\ e.open = f.open /\ e.ref = [f.ref EXCEPT ![s] = @ + 1]
      /\ Pended(f, e, s, next, 1)
  BY <1>1, <1>2, <1>3, StartIs
<1>6. Sums(f, e, s, 1)
  BY <1>1, <1>3, <1>5, PendedIsSums
<1> HIDE DEF e
<1>7. e.ref[s] > 0
  BY <1>2, <1>3, <1>5
<1>8. /\ Sound(d) /\ d.open = e.open /\ d.pending = e.pending
      /\ d.ref = [e.ref EXCEPT ![s] = @ - 1]
  BY <1>5, <1>7, ReleaseIs, ZenonT(60)
<1> HIDE DEF d
<1>9. Sums(c, d, s, 0)
  <2>1. \A t \in Slot : Under(c, t) \in Nat
    BY <1>1, FieldTypes
  <2>2. \A t \in Slot : Under(d, t) = Under(e, t) /\ Making(d, t) = Making(e, t)
    BY <1>8 DEF Under, Making
  <2>3. QED
    BY <1>4, <1>6, <1>8, <2>1, <2>2 DEF Sums
<1>10. d.ref = [c.ref EXCEPT ![s] = @ + 0]
  BY <1>2, <1>3, <1>5, <1>8
<1>11. d.open = c.open
  BY <1>3, <1>5, <1>8
<1>12. Moves(c, d, s, 0)
  BY <1>1, <1>2, <1>8, <1>9, <1>10, <1>11, MovesIf
<1>13. QED
  BY <1>11, <1>12 DEF d, e, f

\* A read or a write completes and its connection ends.
LEMMA Removed ==
    ASSUME NEW c, Steady(c), NEW s \in Slot, NEW op \in {"read", "write"}, c.pending[s][op] > 0,
           c.open[s]
    PROVE  LET d == Release(Close(Finish(c, s, op), s), s)
           IN  Moves(c, d, s, -1) /\ d.open = [c.open EXCEPT ![s] = FALSE]
<1> DEFINE f == Finish(c, s, op)
           e == Close(f, s)
           d == Release(e, s)
<1>1. Sound(c) /\ op \in Operation /\ -1 \in Int /\ -2 \in Int /\ -2 = (-1) - 1
  BY DEF Steady, Operation
<1>2. c.ref[s] > 1 /\ c.ref[s] > 0 /\ Making(c, s) = 0 /\ c.ref \in [Slot -> Nat]
  BY <1>1, Busy, FieldTypes
<1>3. /\ Sound(f) /\ f.open = c.open /\ f.ref = c.ref /\ Pended(c, f, s, op, -1)
  BY <1>1, FinishIs
<1> HIDE DEF f
<1>4. /\ Sound(e) /\ e.open = [f.open EXCEPT ![s] = FALSE] /\ e.pending = f.pending
      /\ e.ref = [f.ref EXCEPT ![s] = @ - 1]
  BY <1>2, <1>3, CloseIs
<1> HIDE DEF e
<1>5. e.ref[s] > 0
  BY <1>2, <1>3, <1>4
<1>6. /\ Sound(d) /\ d.open = e.open /\ d.pending = e.pending
      /\ d.ref = [e.ref EXCEPT ![s] = @ - 1]
  <2>1. Sound(e)
    BY <1>4
  <2>2. QED
    BY <1>5, <2>1, ReleaseIs
<1> HIDE DEF d
<1>7. Pended(c, d, s, op, -1)
  BY <1>3, <1>4, <1>6 DEF Pended
<1>8. Sums(c, d, s, -1)
  BY <1>1, <1>7, PendedIsSums
<1>9. d.ref = [c.ref EXCEPT ![s] = @ + (-2)]
  BY <1>2, <1>3, <1>4, <1>6
<1>10. d.open = [c.open EXCEPT ![s] = FALSE]
  BY <1>3, <1>4, <1>6
<1>11. Moves(c, d, s, -1)
  BY <1>1, <1>2, <1>6, <1>8, <1>9, <1>10, MovesIf
<1>12. QED
  BY <1>10, <1>11 DEF d, e, f

\* An accept is under way on some object, which is none of those that are open.
Accepting(d) == \E h \in Slot : Making(d, h) > 0

\* A connection is kept: its first read and the next accept start.
LEMMA Taken ==
    ASSUME NEW c, NEW s \in Slot, Fresh(c, s), HasRoom(c)
    PROVE  LET d == ConnCompleted(AcceptNext(Start(c, s, "read")), s)
           IN  /\ Steady(d) /\ d.open = c.open /\ Accepting(d)
               /\ \A t \in Slot : /\ Under(d, t) = IF t = s THEN 1 ELSE Under(c, t)
                                  /\ d.pending[t]["handshake"] = c.pending[t]["handshake"]
<1> DEFINE e == Start(c, s, "read")
           f == AcceptNext(e)
           d == ConnCompleted(f, s)
<1>1. Steady(c) /\ Sound(c) /\ c.open[s] /\ Making(c, s) = 0 /\ Under(c, s) = 0 /\ "read" \in {"read", "write"}
  BY DEF Fresh, Steady
<1>2. Moves(c, e, s, 1) /\ e.open = c.open /\ e.idle = c.idle
  BY <1>1, Started
<1> HIDE DEF e
<1>3. \A t \in Slot : Making(e, t) = 0
  BY <1>2 DEF Moves, Fresh
<1>4. Tail(e.idle) # <<>>
  <2>1. c.idle \in Seq(Slot) /\ Len(c.idle) > 1
    BY <1>1 DEF HasRoom, Sound, Container
  <2>2. Len(Tail(c.idle)) = Len(c.idle) - 1 /\ Len(c.idle) \in Nat
    BY <2>1
  <2>3. Tail(c.idle) # <<>>
    BY <2>1, <2>2, SMTT(30)
  <2>4. QED
    BY <1>2, <2>3
<1>5. Steady(e)
  BY <1>2 DEF Moves
<1>6. /\ Steady(f) /\ f.open = e.open /\ Accepting(f)
      /\ \A t \in Slot : Under(f, t) = Under(e, t)
                         /\ f.pending[t]["handshake"] = e.pending[t]["handshake"]
  BY <1>3, <1>4, <1>5, NextAccept DEF Accepting
<1>7. d = f
  BY <1>1, <1>2, <1>6 DEF ConnCompleted
<1>8. \A t \in Slot : /\ Under(d, t) = IF t = s THEN 1 ELSE Under(c, t)
                      /\ d.pending[t]["handshake"] = c.pending[t]["handshake"]
  BY <1>1, <1>2, <1>6, <1>7 DEF Moves
<1> HIDE DEF f, d
<1>9. QED
  BY <1>2, <1>6, <1>7, <1>8 DEF d, e, f

\* Closing the connection that has just been made: its object becomes idle behind the others.
LEMMA Closed ==
    ASSUME NEW c, NEW s \in Slot, Fresh(c, s)
    PROVE  LET d == Close(c, s)
           IN  /\ Steady(d) /\ d.open = [c.open EXCEPT ![s] = FALSE] /\ d.ref[s] = 0
               /\ \A t \in Slot : Making(d, t) = 0 /\ Under(d, t) = Under(c, t)
                                  /\ d.pending[t]["handshake"] = c.pending[t]["handshake"]
               /\ c.ref[s] = 1 /\ Head(d.idle) \in Slot /\ Head(d.idle) # s /\ Tail(d.idle) # <<>>
<1> DEFINE d == Close(c, s)
<1>1. /\ Steady(c) /\ Sound(c) /\ c.open[s] /\ Making(c, s) = 0 /\ Under(c, s) = 0
      /\ SlotInv(c, s)
  BY DEF Fresh, Steady
<1>2. c.ref \in [Slot -> Nat] /\ c.open \in [Slot -> BOOLEAN] /\ c.pending[s]["accept"] \in Nat
      /\ c.pending[s]["handshake"] \in Nat
  BY <1>1, FieldTypes
<1>3. c.ref[s] = 1 /\ c.pending[s]["accept"] = 0 /\ c.pending[s]["handshake"] = 0
  BY <1>1, <1>2 DEF SlotInv, Making
<1>4. /\ Sound(d) /\ d.open = [c.open EXCEPT ![s] = FALSE] /\ d.pending = c.pending
      /\ d.ref = [c.ref EXCEPT ![s] = @ - 1] /\ d.idle = Append(c.idle, s)
  <2>1. Sound(c) /\ c.open[s] /\ c.ref[s] > 0
    BY <1>1, <1>3
  <2>2. /\ Sound(d) /\ d.open = [c.open EXCEPT ![s] = FALSE] /\ d.pending = c.pending
        /\ d.ref = [c.ref EXCEPT ![s] = @ - 1]
        /\ d.idle = IF c.ref[s] = 1 THEN Append(c.idle, s) ELSE c.idle
    BY <2>1, CloseIs
  <2>3. QED
    BY <1>3, <2>2
<1> HIDE DEF d
<1>5. \A t \in Slot : Making(d, t) = Making(c, t) /\ Under(d, t) = Under(c, t)
  BY <1>4 DEF Making, Under
<1>6. d.ref[s] = 0 /\ d.open[s] = FALSE
  BY <1>2, <1>3, <1>4
<1>7. \A t \in Slot : t # s => Same(c, d, t)
  BY <1>2, <1>4, <1>5 DEF Same
<1>8. SlotInv(d, s)
  BY <1>1, <1>3, <1>4, <1>5, <1>6 DEF SlotInv
<1>9. Steady(d)
  BY <1>1, <1>4, <1>5, <1>7, <1>8, OthersKeep
<1>10. /\ c.idle \in Seq(Slot) /\ IsInjective(c.idle) /\ c.idle # <<>> /\ s \notin ToSet(c.idle)
  BY <1>1, <1>3 DEF Sound, IdleInv, Container
<1>11. Head(c.idle) \in Slot /\ Head(c.idle) \in ToSet(c.idle)
  BY <1>10, TailOne
<1>12. Head(d.idle) = Head(c.idle) /\ Tail(d.idle) # <<>>
  BY <1>4, <1>10, AppendOne
<1>13. \A t \in Slot : Making(d, t) = 0
  BY <1>5 DEF Fresh
<1>14. QED
  BY <1>3, <1>4, <1>5, <1>6, <1>9, <1>10, <1>11, <1>12, <1>13 DEF d

\* A connection is closed at once, and the next accept starts.
LEMMA TurnedAway ==
    ASSUME NEW c, NEW s \in Slot, Fresh(c, s)
    PROVE  LET d == ConnCompleted(AcceptNext(Close(c, s)), s)
           IN  /\ Steady(d) /\ d.open = [c.open EXCEPT ![s] = FALSE] /\ Accepting(d)
               /\ \A t \in Slot : Under(d, t) = Under(c, t)
                                  /\ d.pending[t]["handshake"] = c.pending[t]["handshake"]
<1> DEFINE e == Close(c, s)
           f == AcceptNext(e)
           d == ConnCompleted(f, s)
<1>1. /\ Steady(e) /\ e.open = [c.open EXCEPT ![s] = FALSE] /\ e.ref[s] = 0
      /\ \A t \in Slot : Making(e, t) = 0 /\ Under(e, t) = Under(c, t)
                         /\ e.pending[t]["handshake"] = c.pending[t]["handshake"]
      /\ Head(e.idle) # s /\ Tail(e.idle) # <<>>
  BY Closed
<1> HIDE DEF e
<1>2. /\ Steady(f) /\ f.open = e.open /\ Accepting(f) /\ f.ref[s] = e.ref[s]
      /\ \A t \in Slot : Under(f, t) = Under(e, t)
                         /\ f.pending[t]["handshake"] = e.pending[t]["handshake"]
  BY <1>1, NextAccept DEF Accepting
<1>3. d = f
  BY <1>1, <1>2 DEF ConnCompleted
<1> HIDE DEF f, d
<1>4. QED
  BY <1>1, <1>2, <1>3 DEF d, e, f

\* A connection is closed at once, and no accept follows.
LEMMA Dropped ==
    ASSUME NEW c, NEW s \in Slot, Fresh(c, s)
    PROVE  LET d == ConnCompleted(Close(c, s), s)
           IN  /\ Steady(d) /\ d.open = [c.open EXCEPT ![s] = FALSE]
               /\ \A t \in Slot : Under(d, t) = Under(c, t)
                                  /\ d.pending[t]["handshake"] = c.pending[t]["handshake"]
<1>1. LET e == Close(c, s)
      IN  /\ Steady(e) /\ e.open = [c.open EXCEPT ![s] = FALSE] /\ e.ref[s] = 0
          /\ \A t \in Slot : Under(e, t) = Under(c, t)
                             /\ e.pending[t]["handshake"] = c.pending[t]["handshake"]
  BY Closed
<1>2. ConnCompleted(Close(c, s), s) = Close(c, s)
  BY <1>1 DEF ConnCompleted
<1>3. QED
  BY <1>1, <1>2

\* An accept that fails gives its object back.
LEMMA AcceptFailed ==
    ASSUME NEW c, Steady(c), NEW s \in Slot, c.pending[s]["accept"] > 0
    PROVE  LET d == ConnCompleted(Close(Finish(c, s, "accept"), s), s)
           IN  /\ Steady(d) /\ d.open = c.open
               /\ \A t \in Slot : Under(d, t) = Under(c, t)
                                  /\ d.pending[t]["handshake"] = c.pending[t]["handshake"]
<1> DEFINE f == Finish(c, s, "accept")
           d == Release(f, s)
<1>1. Sound(c) /\ "accept" \in Operation /\ -1 \in Int /\ SlotInv(c, s)
  BY DEF Steady, Operation
<1>2. /\ c.ref \in [Slot -> Nat] /\ c.open \in [Slot -> BOOLEAN]
      /\ c.pending[s]["accept"] \in Nat /\ c.pending[s]["handshake"] \in Nat
  BY <1>1, FieldTypes
<1>3. /\ Making(c, s) = 1 /\ Under(c, s) = 0 /\ ~ c.open[s] /\ c.pending[s]["accept"] = 1
      /\ c.ref[s] = 1
  BY <1>1, <1>2 DEF SlotInv, Making
<1>4. /\ Sound(f) /\ f.open = c.open /\ f.ref = c.ref /\ Pended(c, f, s, "accept", -1)
  BY <1>1, FinishIs
<1> HIDE DEF f
<1>5. ConnCompleted(Close(f, s), s) = d
  BY <1>3, <1>4 DEF Close, ConnCompleted
<1>6. /\ Sound(d) /\ d.open = f.open /\ d.pending = f.pending
      /\ d.ref = [f.ref EXCEPT ![s] = @ - 1]
  BY <1>3, <1>4, ReleaseIs
<1> HIDE DEF d
<1>7. Pended(c, d, s, "accept", -1)
  BY <1>4, <1>6 DEF Pended
<1>8. \A t \in Slot : t # s => Same(c, d, t)
  BY <1>2, <1>4, <1>6, <1>7, PendedOthers DEF Same
<1>9. /\ Making(d, s) = Making(c, s) + (-1) /\ Under(d, s) = Under(c, s)
      /\ d.pending[s]["handshake"] = c.pending[s]["handshake"]
      /\ d.pending[s]["accept"] = c.pending[s]["accept"] + (-1)
  BY <1>1, <1>7, PendedSums
<1>10. d.ref[s] = 0 /\ ~ d.open[s]
  BY <1>2, <1>3, <1>4, <1>6
<1>11. SlotInv(d, s) /\ Making(d, s) = 0
  BY <1>1, <1>3, <1>9, <1>10 DEF SlotInv
<1>12. Steady(d)
  BY <1>6, <1>8, <1>11, OthersKeep
<1>13. QED
  BY <1>4, <1>5, <1>6, <1>8, <1>9, <1>12 DEF Same, f

\* After an accept, one more socket is live.
LEMMA AcceptIsLive ==
    ASSUME NEW c, Steady(c), NEW s \in Slot, c.pending[s]["accept"] > 0
    PROVE  LET d == [Finish(c, s, "accept") EXCEPT !.open[s] = TRUE]
           IN  /\ Fresh(d, s) /\ ~ Live(c, s)
               /\ \A t \in Slot : /\ Live(d, t) <=> t = s \/ Live(c, t)
                                  /\ Under(d, t) = Under(c, t)
<1> DEFINE d == [Finish(c, s, "accept") EXCEPT !.open[s] = TRUE]
<1>1. /\ Fresh(d, s) /\ d.open = [c.open EXCEPT ![s] = TRUE] /\ ~ c.open[s]
      /\ \A t \in Slot : Under(d, t) = Under(c, t) /\ d.pending[t]["handshake"] = 0
  BY AcceptOpens
<1> HIDE DEF d
<1>2. \A t \in Slot : /\ Making(c, t) \in Nat /\ c.pending[t]["accept"] \in Nat
                      /\ c.pending[t]["handshake"] \in Nat /\ c.open \in [Slot -> BOOLEAN]
  BY FieldTypes DEF Steady
<1>3. Making(c, s) > 0
  BY <1>2 DEF Making
<1>4. \A t \in Slot : t # s => c.pending[t]["handshake"] = 0
  BY <1>2, <1>3 DEF Steady, ConnectionInv, Making
<1>5. ~ Live(c, s) /\ Live(d, s)
  BY <1>1, <1>2 DEF Live
<1>6. ASSUME NEW t \in Slot, t # s PROVE Live(d, t) <=> Live(c, t)
  BY <1>1, <1>2, <1>4, <1>6 DEF Live
<1>7. QED
  BY <1>1, <1>5, <1>6 DEF d

\* After a handshake, one more socket is live.
LEMMA HandshakeIsLive ==
    ASSUME NEW c, Steady(c), NEW s \in Slot, c.pending[s]["handshake"] > 0
    PROVE  LET d == Finish(c, s, "handshake")
           IN  /\ Fresh(d, s) /\ ~ Live(c, s)
               /\ \A t \in Slot : /\ Live(d, t) <=> t = s \/ Live(c, t)
                                  /\ Under(d, t) = Under(c, t)
<1> DEFINE d == Finish(c, s, "handshake")
<1>1. /\ Fresh(d, s) /\ d.open = c.open
      /\ \A t \in Slot : Under(d, t) = Under(c, t) /\ d.pending[t]["handshake"] = 0
  BY HandshakeOpens
<1> HIDE DEF d
<1>2. \A t \in Slot : /\ Making(c, t) \in Nat /\ c.pending[t]["accept"] \in Nat
                      /\ c.pending[t]["handshake"] \in Nat
  BY FieldTypes DEF Steady
<1>3. Making(c, s) > 0
  BY <1>2 DEF Making
<1>4. \A t \in Slot : t # s => c.pending[t]["handshake"] = 0
  BY <1>2, <1>3 DEF Steady, ConnectionInv, Making
<1>5. ~ Live(c, s) /\ Live(d, s)
  BY <1>1, <1>2 DEF Live, Fresh
<1>6. ASSUME NEW t \in Slot, t # s PROVE Live(d, t) <=> Live(c, t)
  BY <1>1, <1>4, <1>6 DEF Live
<1>7. QED
  BY <1>1, <1>5, <1>6 DEF d
-----------------------------------------------------------------------------
\* The inductive invariant.
IInv == TypeOK /\ Steady(io) /\ AcceptInv /\ ClientInv /\ ReportInv /\ TurnInv

\* A step that no client notices: that of a connection not made, or of a closed socket.
Unmade == /\ UNCHANGED <<clients, mapClient>>
          /\ \A t \in Slot : /\ Live(io', t) <=> Live(io, t)
                             /\ Live(io, t) => Under(io', t) = Under(io, t)

\* One that was made is that of one client more.
Made(s) == /\ clients' = Append(clients, [slot |-> s, keep |-> FALSE])
           /\ mapClient' = mapClient \cup {Len(clients) + 1}
           /\ ~ Live(io, s)
           /\ \A t \in Slot : /\ Live(io', t) <=> t = s \/ Live(io, t)
                              /\ Under(io', t) = IF t = s THEN 1 ELSE Under(io, t)

\* HandleAccept keeps the connection or turns it away.
LEMMA AcceptedIs ==
    ASSUME NEW s \in Slot, NEW c, Fresh(c, s), ~ Live(io, s), Accepted(c, s),
           \A t \in Slot : /\ Live(c, t) <=> t = s \/ Live(io, t)
                           /\ Under(c, t) = Under(io, t)
    PROVE  Steady(io') /\ Accepting(io') /\ (Made(s) \/ Unmade)
<1>1. CASE HasRoom(c)
  <2>1. io' = ConnCompleted(AcceptNext(Start(c, s, "read")), s)
    BY <1>1 DEF Accepted
  <2>2. /\ Steady(io') /\ io'.open = c.open /\ Accepting(io')
        /\ \A t \in Slot : /\ Under(io', t) = IF t = s THEN 1 ELSE Under(c, t)
                           /\ io'.pending[t]["handshake"] = c.pending[t]["handshake"]
    BY <1>1, <2>1, Taken
  <2>3. \A t \in Slot : Live(io', t) <=> Live(c, t)
    BY <2>2 DEF Live
  <2>4. Made(s)
    BY <1>1, <2>2, <2>3 DEF Accepted, Made
  <2>5. QED
    BY <2>2, <2>4
<1>2. CASE ~ HasRoom(c)
  <2>1. io' = ConnCompleted(AcceptNext(Close(c, s)), s) /\ UNCHANGED <<clients, mapClient>>
    BY <1>2 DEF Accepted
  <2>2. /\ Steady(io') /\ io'.open = [c.open EXCEPT ![s] = FALSE] /\ Accepting(io')
        /\ \A t \in Slot : /\ Under(io', t) = Under(c, t)
                           /\ io'.pending[t]["handshake"] = c.pending[t]["handshake"]
    BY <2>1, TurnedAway
  <2>3. c.open \in [Slot -> BOOLEAN]
    BY FieldTypes DEF Fresh, Steady
  <2>4. \A t \in Slot : Live(io', t) <=> t # s /\ Live(c, t)
    BY <2>2, <2>3 DEF Live
  <2>5. Unmade
    BY <2>1, <2>2, <2>4 DEF Unmade
  <2>6. QED
    BY <2>2, <2>5
<1>3. QED
  BY <1>1, <1>2

\* Every step of a connection being made.
LEMMA ConnectionStep ==
    ASSUME IInv, NEW s \in Slot,
           \/ AcceptDone(s) \/ HandshakeDone(s) \/ HandshakeRefused(s)
           \/ HandshakeFails(s) \/ AcceptFails(s)
    PROVE  /\ Steady(io') /\ AcceptInv' /\ (Made(s) \/ Unmade)
           /\ UNCHANGED <<events, restVars, running>>
           /\ acceptFailed' \in BOOLEAN /\ acceptor' \in {"open", "closed"}
<1>1. Steady(io) /\ acceptFailed \in BOOLEAN /\ acceptor \in {"open", "closed"}
  BY DEF IInv, TypeOK
<1> DEFINE opened == [Finish(io, s, "accept") EXCEPT !.open[s] = TRUE]
           shaken == Finish(io, s, "handshake")
<1>2. ASSUME io.pending[s]["accept"] > 0
      PROVE  /\ Fresh(opened, s) /\ ~ Live(io, s)
             /\ \A t \in Slot : /\ Live(opened, t) <=> t = s \/ Live(io, t)
                                /\ Under(opened, t) = Under(io, t)
  BY <1>1, <1>2, AcceptIsLive
<1>3. ASSUME io.pending[s]["handshake"] > 0
      PROVE  /\ Fresh(shaken, s) /\ ~ Live(io, s)
             /\ \A t \in Slot : /\ Live(shaken, t) <=> t = s \/ Live(io, t)
                                /\ Under(shaken, t) = Under(io, t)
  BY <1>1, <1>3, HandshakeIsLive
<1>4. CASE AcceptDone(s) /\ ssl
  <2>1. io.pending[s]["accept"] > 0
    BY <1>4 DEF AcceptDone, Completes
  <2>2. io' = [opened EXCEPT !.pending[s]["handshake"] = @ + 1]
    BY <1>4 DEF AcceptDone
  <2>3. UNCHANGED <<clients, mapClient, acceptor, acceptFailed, events, restVars, running>>
    BY <1>4 DEF AcceptDone
  <2> HIDE DEF opened
  <2>4. Fresh(opened, s)
    BY <1>2, <2>1
  <2>5. /\ Steady(io') /\ io'.open = opened.open /\ Making(io', s) > 0
        /\ io'.pending[s]["handshake"] > 0
        /\ \A t \in Slot : Under(io', t) = Under(opened, t)
        /\ \A t \in Slot : t # s => io'.pending[t]["handshake"] = opened.pending[t]["handshake"]
    BY <2>2, <2>4, Handshaking
  <2>6. io'.pending[s]["handshake"] # 0
    BY <2>5, FieldTypes DEF Steady
  <2>7. \A t \in Slot : Live(io', t) <=> Live(io, t)
    BY <1>2, <2>1, <2>5, <2>6 DEF Live
  <2>8. \A t \in Slot : Under(io', t) = Under(io, t)
    BY <1>2, <2>1, <2>5
  <2>9. Unmade
    BY <2>3, <2>7, <2>8 DEF Unmade
  <2>10. AcceptInv'
    BY <2>5 DEF AcceptInv
  <2>11. QED
    BY <1>1, <2>3, <2>5, <2>9, <2>10
<1>5. CASE AcceptDone(s) /\ ~ ssl
  <2>1. io.pending[s]["accept"] > 0
    BY <1>5 DEF AcceptDone, Completes
  <2>2. Accepted(opened, s) /\ UNCHANGED <<acceptor, acceptFailed, events, restVars, running>>
    BY <1>5 DEF AcceptDone
  <2> HIDE DEF opened
  <2>3. Steady(io') /\ Accepting(io') /\ (Made(s) \/ Unmade)
    BY <1>2, <2>1, <2>2, AcceptedIs
  <2>4. AcceptInv'
    BY <2>3 DEF AcceptInv, Accepting
  <2>5. QED
    BY <1>1, <2>2, <2>3, <2>4
<1>6. CASE HandshakeDone(s)
  <2>1. io.pending[s]["handshake"] > 0
    BY <1>6 DEF HandshakeDone, Completes
  <2>2. Accepted(shaken, s) /\ UNCHANGED <<acceptor, acceptFailed, events, restVars, running>>
    BY <1>6 DEF HandshakeDone
  <2> HIDE DEF shaken
  <2>3. Steady(io') /\ Accepting(io') /\ (Made(s) \/ Unmade)
    BY <1>3, <2>1, <2>2, AcceptedIs
  <2>4. AcceptInv'
    BY <2>3 DEF AcceptInv, Accepting
  <2>5. QED
    BY <1>1, <2>2, <2>3, <2>4
<1>7. CASE HandshakeRefused(s)
  <2>1. io.pending[s]["handshake"] > 0
    BY <1>7 DEF HandshakeRefused, Completes
  <2>2. /\ io' = ConnCompleted(AcceptNext(Close(shaken, s)), s)
        /\ UNCHANGED <<acceptor, acceptFailed, clients, mapClient, events, restVars, running>>
    BY <1>7 DEF HandshakeRefused
  <2> HIDE DEF shaken
  <2>3. Fresh(shaken, s)
    BY <1>3, <2>1
  <2>4. /\ Steady(io') /\ io'.open = [shaken.open EXCEPT ![s] = FALSE] /\ Accepting(io')
        /\ \A t \in Slot : Under(io', t) = Under(shaken, t)
                           /\ io'.pending[t]["handshake"] = shaken.pending[t]["handshake"]
    BY <2>2, <2>3, TurnedAway
  <2>5. shaken.open \in [Slot -> BOOLEAN]
    BY <2>3, FieldTypes DEF Fresh, Steady
  <2>6. \A t \in Slot : Live(io', t) <=> t # s /\ Live(shaken, t)
    BY <2>4, <2>5 DEF Live
  <2>7. Unmade
    BY <1>3, <2>1, <2>2, <2>4, <2>6 DEF Unmade
  <2>8. AcceptInv'
    BY <2>4 DEF AcceptInv, Accepting
  <2>9. QED
    BY <1>1, <2>2, <2>4, <2>7, <2>8
<1>8. CASE HandshakeFails(s)
  <2>1. io.pending[s]["handshake"] > 0
    BY <1>8 DEF HandshakeFails, Completes
  <2>2. /\ io' = ConnCompleted(Close(shaken, s), s) /\ acceptor' = "closed"
        /\ UNCHANGED <<acceptFailed, clients, mapClient, events, restVars, running>>
    BY <1>8 DEF HandshakeFails
  <2> HIDE DEF shaken
  <2>3. Fresh(shaken, s)
    BY <1>3, <2>1
  <2>4. /\ Steady(io') /\ io'.open = [shaken.open EXCEPT ![s] = FALSE]
        /\ \A t \in Slot : Under(io', t) = Under(shaken, t)
                           /\ io'.pending[t]["handshake"] = shaken.pending[t]["handshake"]
    BY <2>2, <2>3, Dropped
  <2>5. shaken.open \in [Slot -> BOOLEAN]
    BY <2>3, FieldTypes DEF Fresh, Steady
  <2>6. \A t \in Slot : Live(io', t) <=> t # s /\ Live(shaken, t)
    BY <2>4, <2>5 DEF Live
  <2>7. Unmade
    BY <1>3, <2>1, <2>2, <2>4, <2>6 DEF Unmade
  <2>8. AcceptInv'
    BY <2>2 DEF AcceptInv
  <2>9. QED
    BY <1>1, <2>2, <2>4, <2>7, <2>8
<1>9. CASE AcceptFails(s)
  <2>1. /\ io.pending[s]["accept"] > 0
        /\ io' = ConnCompleted(Close(Finish(io, s, "accept"), s), s) /\ acceptFailed' = TRUE
        /\ UNCHANGED <<acceptor, clients, mapClient, events, restVars, running>>
    BY <1>9 DEF AcceptFails, Completes
  <2>2. /\ Steady(io') /\ io'.open = io.open
        /\ \A t \in Slot : Under(io', t) = Under(io, t)
                           /\ io'.pending[t]["handshake"] = io.pending[t]["handshake"]
    BY <1>1, <2>1, AcceptFailed
  <2>3. Unmade
    BY <2>1, <2>2 DEF Unmade, Live
  <2>4. AcceptInv'
    BY <2>1 DEF AcceptInv
  <2>5. QED
    BY <1>1, <2>1, <2>2, <2>3, <2>4
<1>10. QED
  BY <1>4, <1>5, <1>6, <1>7, <1>8, <1>9

\* The client that the handlers of an object belong to.
LEMMA ClientOfIs ==
    ASSUME IInv, running, NEW s \in Slot, Live(io, s)
    PROVE  ClientOf(s) \in mapClient /\ clients[ClientOf(s)].slot = s
<1>1. \E n \in mapClient : clients[n].slot = s
  BY DEF IInv, ClientInv
<1>2. QED
  BY <1>1 DEF ClientOf


\* What may be posted: it grows with the clients.
EventType == {Req(n) : n \in DOMAIN clients} \cup {Broken(n) : n \in DOMAIN clients}

\* The types of one client.
LEMMA SlotOf ==
    ASSUME TypeOK, NEW n \in mapClient
    PROVE  /\ n \in DOMAIN clients /\ clients[n].slot \in Slot /\ clients[n].keep \in BOOLEAN
<1>1. n \in DOMAIN clients /\ clients \in Seq([slot : Slot, keep : BOOLEAN])
  BY DEF TypeOK
<1>2. clients[n] \in [slot : Slot, keep : BOOLEAN]
  <2>1. n \in 1..Len(clients)
    BY <1>1
  <2>2. QED
    BY <1>1, <2>1, ElementOfSeq
<1>3. QED
  BY <1>1, <1>2

\* A step that no client notices keeps the invariant.
LEMMA UnmadeStep ==
    ASSUME IInv, Unmade, Steady(io'), AcceptInv', UNCHANGED <<events, restVars, running>>,
           acceptFailed' \in BOOLEAN, acceptor' \in {"open", "closed"}
    PROVE  IInv'
<1>1. UNCHANGED <<clients, mapClient, events, owed, broken, pushes, ssl, running>>
  BY DEF Unmade, restVars
<1>2. io' \in Container
  BY DEF Steady, Sound
<1>3. TypeOK'
  BY <1>1, <1>2 DEF IInv, TypeOK, Container
<1>4. \A n \in mapClient : clients[n].slot \in Slot /\ Live(io, clients[n].slot)
  BY SlotOf DEF IInv, ClientInv
<1>5. ClientInv'
  BY <1>1, <1>4 DEF IInv, ClientInv, Unmade
<1>6. ReportInv'
  BY <1>1 DEF IInv, ReportInv, Report
<1>7. TurnInv'
  <2>1. \A n \in mapClient : Under(io', clients[n].slot) = Under(io, clients[n].slot)
    BY <1>4 DEF Unmade
  <2>2. ASSUME pushes = 0, NEW n \in mapClient PROVE Turn(n)'
    <3>1. Turn(n)
      BY <2>2 DEF IInv, TurnInv
    <3>2. QED
      BY <1>1, <2>1, <3>1 DEF Turn
  <2>3. QED
    BY <1>1, <2>2 DEF TurnInv
<1>8. QED
  BY <1>3, <1>5, <1>6, <1>7 DEF IInv

\* A new client keeps the invariant.
LEMMA MadeStep ==
    ASSUME IInv, NEW s \in Slot, Made(s), Steady(io'), AcceptInv', UNCHANGED <<events, restVars, running>>,
           acceptFailed' \in BOOLEAN, acceptor' \in {"open", "closed"}
    PROVE  IInv'
<1> DEFINE new == Len(clients) + 1
           client == [slot |-> s, keep |-> FALSE]
<1>1. /\ UNCHANGED <<events, owed, broken, pushes, ssl, running>>
      /\ clients' = Append(clients, client) /\ mapClient' = mapClient \cup {new}
  BY DEF Made, restVars
<1>2. io' \in Container
  BY DEF Steady, Sound
<1>3. /\ clients \in Seq([slot : Slot, keep : BOOLEAN]) /\ client \in [slot : Slot, keep : BOOLEAN]
      /\ mapClient \subseteq DOMAIN clients /\ owed \subseteq DOMAIN clients
      /\ broken \subseteq DOMAIN clients /\ events \in Seq(EventType)
  BY DEF IInv, TypeOK, EventType
<1>4. /\ clients' \in Seq([slot : Slot, keep : BOOLEAN])
      /\ Len(clients) \in Nat /\ DOMAIN clients = 1..Len(clients)
      /\ DOMAIN clients' = 1..new /\ new \notin DOMAIN clients
      /\ DOMAIN clients' = DOMAIN clients \cup {new}
      /\ \A n \in DOMAIN clients : clients'[n] = clients[n]
      /\ clients'[new] = client
  BY <1>1, <1>3
<1>5. events' \in Seq(EventType')
  <2>1. EventType \subseteq EventType'
    BY <1>4 DEF EventType
  <2>2. QED
    BY <1>1, <1>3, <2>1
<1>6. TypeOK'
  <2>1. events' \in Seq({Req(n) : n \in DOMAIN clients'} \cup {Broken(n) : n \in DOMAIN clients'})
    BY <1>5 DEF EventType
  <2>2. /\ mapClient' \subseteq DOMAIN clients' /\ owed' \subseteq DOMAIN clients'
        /\ broken' \subseteq DOMAIN clients'
    BY <1>1, <1>3, <1>4
  <2>3. ssl' \in BOOLEAN /\ running' \in BOOLEAN /\ pushes' \in 0..MaxPushes
    BY <1>1 DEF IInv, TypeOK
  <2>4. QED
    BY <1>2, <1>4, <2>1, <2>2, <2>3 DEF TypeOK, Container
<1>7. \A n \in mapClient : /\ clients[n].slot \in Slot /\ Live(io, clients[n].slot)
                           /\ clients[n].slot # s /\ clients'[n] = clients[n] /\ n # new
  BY <1>3, <1>4, SlotOf DEF IInv, ClientInv, Made
<1>8. clients'[new].slot = s
  BY <1>4
<1>9. ClientInv'
  <2>1. Live(io', s) /\ \A t \in Slot : Live(io, t) => Live(io', t)
    BY DEF Made
  <2>2. \A n \in mapClient : Live(io', clients'[n].slot)
    BY <1>7, <2>1
  <2>3. \A n \in mapClient' : Live(io', clients'[n].slot)
    BY <1>1, <1>8, <2>1, <2>2
  <2>4. ASSUME NEW m \in mapClient', NEW n \in mapClient', clients'[m].slot = clients'[n].slot
        PROVE  m = n
    <3>1. CASE m \in mapClient /\ n \in mapClient
      BY <1>7, <2>4, <3>1 DEF IInv, ClientInv
    <3>2. CASE m = new \/ n = new
      BY <1>1, <1>7, <1>8, <2>4, <3>2
    <3>3. QED
      BY <1>1, <3>1, <3>2
  <2>5. ASSUME running', NEW t \in Slot, Live(io', t)
        PROVE  \E n \in mapClient' : clients'[n].slot = t
    <3>1. CASE t = s
      BY <1>1, <1>8, <3>1
    <3>2. CASE t # s
      <4>1. running /\ Live(io, t)
        BY <1>1, <2>5, <3>2 DEF Made
      <4>2. PICK n \in mapClient : clients[n].slot = t
        BY <4>1 DEF IInv, ClientInv
      <4>3. QED
        BY <1>1, <1>7, <4>2
    <3>3. QED
      BY <3>1, <3>2
  <2>6. QED
    BY <2>3, <2>4, <2>5 DEF ClientInv
<1>10. \A i \in DOMAIN events : events[i] # Req(new) /\ events[i] # Broken(new)
  <2>1. \A i \in DOMAIN events : events[i] \in EventType
    BY <1>3
  <2>2. QED
    BY <1>4, <2>1 DEF EventType, Req, Broken
<1>11. ReportInv'
  <2>1. ASSUME NEW n \in DOMAIN clients PROVE Report(n)'
    <3>1. Report(n) /\ n # new
      BY <1>4 DEF IInv, ReportInv
    <3>2. QED
      BY <1>1, <3>1 DEF Report
  <2>2. new \notin broken /\ new \in mapClient'
    BY <1>1, <1>3, <1>4
  <2>3. ASSUME NEW n, n = new PROVE Report(n)'
    <3>1. n \notin broken' /\ n \in mapClient'
      BY <1>1, <2>2, <2>3
    <3>2. \A i \in DOMAIN events' : events'[i] # Req(n) /\ events'[i] # Broken(n)
      BY <1>1, <1>10, <2>3
    <3>3. QED
      BY <3>1, <3>2 DEF Report
  <2>4. ASSUME NEW n \in DOMAIN clients' PROVE Report(n)'
    BY <1>4, <2>1, <2>3
  <2>5. QED
    BY <2>4 DEF ReportInv
<1>12. TurnInv'
  <2>1. ASSUME pushes = 0, NEW n \in mapClient PROVE Turn(n)'
    <3>1. Turn(n) /\ clients'[n] = clients[n]
      BY <1>7, <2>1 DEF IInv, TurnInv
    <3>2. Under(io', clients[n].slot) = Under(io, clients[n].slot)
      BY <1>7 DEF Made
    <3>3. QED
      BY <1>1, <3>1, <3>2 DEF Turn
  <2>2. Under(io', clients'[new].slot) = 1 /\ new \notin owed
    BY <1>3, <1>4, <1>8 DEF Made
  <2>3. ASSUME NEW n, n = new PROVE Turn(n)'
    BY <1>1, <1>10, <2>2, <2>3 DEF Turn
  <2>4. ASSUME pushes = 0, NEW n \in mapClient' PROVE Turn(n)'
    BY <1>1, <2>1, <2>3, <2>4
  <2>5. QED
    BY <1>1, <2>4 DEF TurnInv
<1>13. QED
  BY <1>6, <1>9, <1>11, <1>12 DEF IInv
-----------------------------------------------------------------------------
\* What is accepted does not depend on reads and writes.
LEMMA AcceptKept ==
    ASSUME IInv, UNCHANGED <<acceptor, acceptFailed, running>>,
           \A t \in Slot : Making(io', t) = Making(io, t)
    PROVE  /\ AcceptInv'
           /\ acceptFailed' \in BOOLEAN /\ acceptor' \in {"open", "closed"}
BY DEF IInv, TypeOK, AcceptInv

\* The socket of a living client is open, and no connection is being made on it.
LEMMA LiveIs ==
    ASSUME NEW c, Steady(c), NEW s \in Slot, Live(c, s)
    PROVE  c.open[s] /\ Making(c, s) = 0
<1>1. /\ c.pending[s]["accept"] \in Nat /\ c.pending[s]["handshake"] = 0 /\ c.open[s]
      /\ SlotInv(c, s)
  BY FieldTypes DEF Steady, Live
<1>2. QED
  BY <1>1 DEF SlotInv, Making

\* An open socket on which is read or written is live.
LEMMA BusyIsLive ==
    ASSUME NEW c, Steady(c), NEW s \in Slot, NEW op \in {"read", "write"},
           c.pending[s][op] > 0, c.open[s]
    PROVE  Live(c, s)
BY Busy DEF Live

\* Clients are only marked to be kept alive.
SameSlots ==
    /\ clients' \in Seq([slot : Slot, keep : BOOLEAN]) /\ DOMAIN clients' = DOMAIN clients
    /\ \A n \in DOMAIN clients : clients'[n].slot = clients[n].slot

\* Types and clients after a step that ends and makes no connection.
LEMMA SlotsStep ==
    ASSUME IInv, Steady(io'), SameSlots, UNCHANGED <<mapClient, ssl, running>>,
           \A t \in Slot : Live(io', t) <=> Live(io, t),
           acceptFailed' \in BOOLEAN, acceptor' \in {"open", "closed"},
           events' \in Seq(EventType), owed' \subseteq DOMAIN clients,
           broken' \subseteq DOMAIN clients, pushes' \in 0..MaxPushes
    PROVE  TypeOK' /\ ClientInv'
<1>1. io' \in Container
  BY DEF Steady, Sound
<1>2. events' \in Seq({Req(n) : n \in DOMAIN clients'} \cup {Broken(n) : n \in DOMAIN clients'})
  BY DEF EventType, SameSlots
<1>3. mapClient' \subseteq DOMAIN clients' /\ ssl' \in BOOLEAN /\ running' \in BOOLEAN
  BY DEF IInv, TypeOK, SameSlots
<1>4. TypeOK'
  BY <1>1, <1>2, <1>3 DEF TypeOK, Container, SameSlots
<1>5. \A n \in mapClient : clients'[n].slot = clients[n].slot /\ clients[n].slot \in Slot
  BY SlotOf DEF IInv, SameSlots
<1>6. ClientInv'
  <2>1. \A n \in mapClient' : Live(io', clients'[n].slot)
    BY <1>5 DEF IInv, ClientInv
  <2>2. \A m, n \in mapClient' : clients'[m].slot = clients'[n].slot => m = n
    BY <1>5 DEF IInv, ClientInv
  <2>3. running' => \A t \in Slot : Live(io', t) => \E n \in mapClient' : clients'[n].slot = t
    BY <1>5 DEF IInv, ClientInv
  <2>4. QED
    BY <2>1, <2>2, <2>3 DEF ClientInv
<1>7. QED
  BY <1>4, <1>6

\* A step that posts nothing keeps the reports.
LEMMA ReportKept ==
    ASSUME IInv, UNCHANGED <<events, broken, mapClient>>, DOMAIN clients' = DOMAIN clients
    PROVE  ReportInv'
BY DEF IInv, ReportInv, Report

\* The types of what a step leaves alone.
LEMMA Unchanging ==
    ASSUME IInv
    PROVE  /\ events \in Seq(EventType) /\ owed \subseteq DOMAIN clients
           /\ broken \subseteq DOMAIN clients /\ pushes \in 0..MaxPushes
           /\ UNCHANGED clients => SameSlots
BY DEF IInv, TypeOK, EventType, SameSlots

\* A turn is over as soon as its client's read, request or response is.
LEMMA TurnKept ==
    ASSUME NEW n \in mapClient, Turn(n), UNCHANGED events, n \in owed' <=> n \in owed,
           Under(io', clients'[n].slot) = Under(io, clients[n].slot)
    PROVE  Turn(n)'
BY DEF Turn

\* The completion of an operation whose socket is closed.
LEMMA AbortedStep ==
    ASSUME IInv, NEW s \in Slot, NEW op \in {"read", "write"}, Aborted(s, op),
           UNCHANGED <<acceptor, acceptFailed, restVars, running>>
    PROVE  IInv'
<1>1. Steady(io) /\ io.pending[s][op] > 0 /\ ~ io.open[s]
  BY DEF IInv, Aborted, Completes
<1>2. io' = Release(Finish(io, s, op), s) /\ UNCHANGED <<clients, mapClient, events>>
  BY DEF Aborted
<1>3. Moves(io, io', s, -1) /\ io'.open = io.open
  BY <1>1, <1>2, Completed
<1>4. Unmade
  BY <1>1, <1>2, <1>3 DEF Unmade, Live, Moves
<1>5. Steady(io') /\ \A t \in Slot : Making(io', t) = Making(io, t)
  BY <1>3 DEF Moves
<1>6. AcceptInv' /\ acceptFailed' \in BOOLEAN /\ acceptor' \in {"open", "closed"}
  BY <1>5, AcceptKept
<1>7. QED
  BY <1>2, <1>4, <1>5, <1>6, UnmadeStep

\* The next operation of a client follows its last one.
LEMMA ReadOnStep ==
    ASSUME IInv, NEW s \in Slot, NEW op \in {"read", "write"}, Completes(s, "read"), io.open[s],
           io' = Release(Start(Finish(io, s, "read"), s, op), s),
           UNCHANGED <<clients, mapClient, events, acceptor, acceptFailed, restVars, running>>
    PROVE  IInv'
<1>1. Steady(io) /\ io.pending[s]["read"] > 0
  BY DEF IInv, Completes
<1>2. Moves(io, io', s, 0) /\ io'.open = io.open
  BY <1>1, Continued
<1>3. \A t \in Slot : Under(io, t) \in Nat
  BY <1>1, FieldTypes DEF Steady
<1>4. Unmade
  BY <1>2, <1>3 DEF Unmade, Live, Moves
<1>5. Steady(io') /\ \A t \in Slot : Making(io', t) = Making(io, t)
  BY <1>2 DEF Moves
<1>6. AcceptInv' /\ acceptFailed' \in BOOLEAN /\ acceptor' \in {"open", "closed"}
  BY <1>5, AcceptKept
<1>7. QED
  BY <1>4, <1>5, <1>6, UnmadeStep

\* A client that is kept alive reads its next request.
LEMMA WriteKeptStep ==
    ASSUME IInv, NEW s \in Slot, WriteKept(s),
           UNCHANGED <<acceptor, acceptFailed, restVars, running>>
    PROVE  IInv'
<1> DEFINE n == ClientOf(s)
<1>1. /\ Steady(io) /\ io.pending[s]["write"] > 0 /\ io.open[s] /\ running
      /\ clients' = [clients EXCEPT ![n].keep = FALSE]
      /\ io' = Release(Start(Finish(io, s, "write"), s, "read"), s)
      /\ UNCHANGED <<mapClient, events, owed, broken, pushes, ssl>>
  BY DEF IInv, WriteKept, Completes, restVars
<1>2. Live(io, s) /\ n \in mapClient /\ clients[n].slot = s
  BY <1>1, BusyIsLive, ClientOfIs
<1> HIDE DEF n
<1>3. SameSlots
  <2>1. clients \in Seq([slot : Slot, keep : BOOLEAN]) /\ n \in DOMAIN clients
    BY <1>2 DEF IInv, TypeOK
  <2>2. clients[n] \in [slot : Slot, keep : BOOLEAN]
    <3>1. n \in 1..Len(clients)
      BY <2>1
    <3>2. QED
      BY <2>1, <3>1, ElementOfSeq
  <2>3. [clients[n] EXCEPT !.keep = FALSE] \in [slot : Slot, keep : BOOLEAN]
    BY <2>2
  <2>4. clients' = [clients EXCEPT ![n] = [clients[n] EXCEPT !.keep = FALSE]]
    BY <1>1
  <2>5. clients' \in Seq([slot : Slot, keep : BOOLEAN]) /\ DOMAIN clients' = DOMAIN clients
    BY <2>1, <2>3, <2>4
  <2>6. \A m \in DOMAIN clients : clients'[m].slot = clients[m].slot
    BY <2>1, <2>2, <2>4
  <2>7. QED
    BY <2>5, <2>6 DEF SameSlots
<1>4. Moves(io, io', s, 0) /\ io'.open = io.open
  BY <1>1, Continued
<1>5. \A t \in Slot : Under(io, t) \in Nat
  BY <1>1, FieldTypes DEF Steady
<1>6. /\ Steady(io')
      /\ \A t \in Slot : /\ Making(io', t) = Making(io, t) /\ Under(io', t) = Under(io, t)
                         /\ Live(io', t) <=> Live(io, t)
  BY <1>4, <1>5 DEF Live, Moves
<1>7. AcceptInv' /\ acceptFailed' \in BOOLEAN /\ acceptor' \in {"open", "closed"}
  BY <1>6, AcceptKept
<1>8. TypeOK' /\ ClientInv'
  BY <1>1, <1>3, <1>6, <1>7, SlotsStep, Unchanging
<1>9. ReportInv'
  BY <1>1, <1>3, ReportKept DEF SameSlots
<1>10. TurnInv'
  <2>1. ASSUME pushes = 0, NEW m \in mapClient PROVE Turn(m)'
    <3>1. Turn(m) /\ clients'[m].slot = clients[m].slot /\ clients[m].slot \in Slot
      BY <1>3, <2>1, SlotOf DEF IInv, TurnInv, SameSlots
    <3>2. Under(io', clients'[m].slot) = Under(io, clients[m].slot)
      BY <1>6, <3>1
    <3>3. QED
      BY <1>1, <3>1, <3>2, TurnKept
  <2>2. QED
    BY <1>1, <2>1 DEF TurnInv
<1>11. QED
  BY <1>6, <1>7, <1>8, <1>9, <1>10 DEF IInv

\* What an event more says, and to whom.
LEMMA OneMore ==
    ASSUME NEW S, NEW q \in Seq(S), NEW e \in S
    PROVE  /\ Append(q, e) \in Seq(S) /\ Len(q) \in Nat
           /\ DOMAIN q = 1..Len(q) /\ DOMAIN Append(q, e) = 1..(Len(q) + 1)
           /\ \A i \in DOMAIN q : Append(q, e)[i] = q[i]
           /\ Append(q, e)[Len(q) + 1] = e
OBVIOUS

\* A request is read and posted.
LEMMA ReadReqStep ==
    ASSUME IInv, NEW s \in Slot, Completes(s, "read"), io.open[s],
           events' = Append(events, Req(ClientOf(s))),
           io' = Release(Finish(io, s, "read"), s),
           UNCHANGED <<clients, mapClient, acceptor, acceptFailed, restVars, running>>
    PROVE  IInv'
<1> DEFINE n == ClientOf(s)
<1>1. /\ Steady(io) /\ io.pending[s]["read"] > 0 /\ running
      /\ UNCHANGED <<owed, broken, pushes, ssl>>
  BY DEF IInv, Completes, restVars
<1>2. Live(io, s) /\ n \in mapClient /\ clients[n].slot = s
  BY <1>1, BusyIsLive, ClientOfIs
<1>3. events' = Append(events, Req(n))
  OBVIOUS
<1> HIDE DEF n
<1>4. Moves(io, io', s, -1) /\ io'.open = io.open
  BY <1>1, Completed
<1>5. /\ Steady(io')
      /\ \A t \in Slot : Making(io', t) = Making(io, t) /\ (Live(io', t) <=> Live(io, t))
      /\ \A t \in Slot : Under(io', t) = IF t = s THEN Under(io, t) + (-1) ELSE Under(io, t)
  BY <1>4 DEF Live, Moves
<1>6. AcceptInv' /\ acceptFailed' \in BOOLEAN /\ acceptor' \in {"open", "closed"}
  BY <1>5, AcceptKept
<1>7. n \in DOMAIN clients /\ events \in Seq(EventType) /\ Req(n) \in EventType
  BY <1>2, Unchanging, SlotOf DEF IInv, EventType
<1>8. /\ events' \in Seq(EventType) /\ Len(events) \in Nat
      /\ DOMAIN events = 1..Len(events) /\ DOMAIN events' = 1..(Len(events) + 1)
      /\ \A i \in DOMAIN events : events'[i] = events[i]
      /\ events'[Len(events) + 1] = Req(n)
  BY <1>3, <1>7, OneMore
<1>9. TypeOK' /\ ClientInv'
  BY <1>1, <1>5, <1>6, <1>8, SlotsStep, Unchanging
<1>10. n \notin broken
  BY <1>2, <1>7 DEF IInv, ReportInv, Report
<1>11. ASSUME NEW m \in DOMAIN clients PROVE Report(m)'
  <2>1. Report(m)
    BY DEF IInv, ReportInv
  <2>2. /\ \A i \in DOMAIN events' : events'[i] = Broken(m) => i \in DOMAIN events
        /\ \A i \in DOMAIN events' : events'[i] = Req(m) /\ m # n => i \in DOMAIN events
    BY <1>8 DEF Broken, Req
  <2>3. CASE m = n
    BY <1>1, <1>2, <1>8, <1>10, <2>1, <2>2, <2>3 DEF Report
  <2>4. CASE m # n
    BY <1>1, <1>8, <2>1, <2>2, <2>4 DEF Report
  <2>5. QED
    BY <2>3, <2>4
<1>12. ReportInv'
  BY <1>11 DEF ReportInv
<1>13. ASSUME pushes = 0, NEW m \in mapClient PROVE Turn(m)'
  <2>1. Turn(m) /\ clients[m].slot \in Slot
    BY <1>13, SlotOf DEF IInv, TurnInv
  <2>2. CASE m = n
    <3>1. Under(io, s) > 0 /\ Under(io, s) \in Nat
      BY <1>1, Busy, FieldTypes DEF Steady
    <3>2. Under(io, s) = 1 /\ n \notin owed /\ \A i \in DOMAIN events : events[i] # Req(n)
      BY <1>2, <2>1, <2>2, <3>1 DEF Turn
    <3>3. Under(io', s) = 0
      BY <1>5, <3>2
    <3>4. \A i \in DOMAIN events' : events'[i] = Req(n) => i = Len(events) + 1
      BY <1>8, <3>2
    <3>5. Len(events) + 1 \in DOMAIN events'
      BY <1>8
    <3>6. QED
      BY <1>1, <1>2, <1>8, <2>2, <3>2, <3>3, <3>4, <3>5 DEF Turn
  <2>3. CASE m # n
    <3>1. clients[m].slot # s
      BY <1>2, <2>3 DEF IInv, ClientInv
    <3>2. Under(io', clients[m].slot) = Under(io, clients[m].slot)
      BY <1>5, <2>1, <3>1
    <3>3. \A i \in DOMAIN events' : events'[i] = Req(m) <=> i \in DOMAIN events /\ events[i] = Req(m)
      BY <1>8, <2>3 DEF Req
    <3>4. QED
      BY <1>1, <1>8, <2>1, <3>2, <3>3 DEF Turn
  <2>4. QED
    BY <2>2, <2>3
<1>14. TurnInv'
  BY <1>1, <1>13 DEF TurnInv
<1>15. QED
  BY <1>5, <1>6, <1>9, <1>12, <1>14 DEF IInv
\* A connection ends.
LEMMA RemoveStep ==
    ASSUME IInv, NEW s \in Slot, NEW op \in {"read", "write"}, Completes(s, op), io.open[s],
           RemoveClient(Finish(io, s, op), ClientOf(s)),
           UNCHANGED <<clients, acceptor, acceptFailed, restVars, running>>
    PROVE  IInv'
<1> DEFINE n == ClientOf(s)
<1>1. /\ Steady(io) /\ io.pending[s][op] > 0 /\ running
      /\ UNCHANGED <<owed, broken, pushes, ssl>>
  BY DEF IInv, Completes, restVars
<1>2. Live(io, s) /\ n \in mapClient /\ clients[n].slot = s
  BY <1>1, BusyIsLive, ClientOfIs
<1>3. /\ events' = Append(events, Broken(n)) /\ mapClient' = mapClient \ {n}
      /\ io' = Release(Close(Finish(io, s, op), s), s)
  BY <1>2 DEF RemoveClient
<1> HIDE DEF n
<1>4. Moves(io, io', s, -1) /\ io'.open = [io.open EXCEPT ![s] = FALSE]
  BY <1>1, <1>3, Removed
<1>5. io.open \in [Slot -> BOOLEAN]
  BY <1>1, FieldTypes DEF Steady
<1>6. /\ Steady(io') /\ \A t \in Slot : Making(io', t) = Making(io, t)
      /\ \A t \in Slot : Live(io', t) <=> t # s /\ Live(io, t)
      /\ \A t \in Slot : t # s => Under(io', t) = Under(io, t)
  BY <1>4, <1>5 DEF Live, Moves
<1>7. AcceptInv' /\ acceptFailed' \in BOOLEAN /\ acceptor' \in {"open", "closed"}
  BY <1>6, AcceptKept
<1>8. n \in DOMAIN clients /\ events \in Seq(EventType) /\ Broken(n) \in EventType
  BY <1>2, Unchanging, SlotOf DEF IInv, EventType
<1>9. /\ events' \in Seq(EventType) /\ Len(events) \in Nat
      /\ DOMAIN events = 1..Len(events) /\ DOMAIN events' = 1..(Len(events) + 1)
      /\ \A i \in DOMAIN events : events'[i] = events[i]
      /\ events'[Len(events) + 1] = Broken(n)
  BY <1>3, <1>8, OneMore
<1>10. TypeOK'
  <2>1. io' \in Container
    BY <1>6 DEF Steady, Sound
  <2>2. events' \in Seq({Req(m) : m \in DOMAIN clients'} \cup {Broken(m) : m \in DOMAIN clients'})
    BY <1>9 DEF EventType
  <2>3. QED
    BY <1>1, <1>3, <1>7, <2>1, <2>2 DEF IInv, TypeOK, Container
<1>11. ASSUME NEW m \in mapClient, m # n PROVE clients[m].slot \in Slot /\ clients[m].slot # s
  BY <1>2, <1>11, SlotOf DEF IInv, ClientInv
<1>12. ClientInv'
  <2>1. \A m \in mapClient' : Live(io', clients'[m].slot)
    BY <1>3, <1>6, <1>11 DEF IInv, ClientInv
  <2>2. \A k, m \in mapClient' : clients'[k].slot = clients'[m].slot => k = m
    BY <1>3 DEF IInv, ClientInv
  <2>3. ASSUME NEW t \in Slot, Live(io', t) PROVE \E m \in mapClient' : clients'[m].slot = t
    <3>1. t # s /\ Live(io, t)
      BY <1>6, <2>3
    <3>2. PICK m \in mapClient : clients[m].slot = t
      BY <1>1, <3>1 DEF IInv, ClientInv
    <3>3. QED
      BY <1>2, <1>3, <3>1, <3>2
  <2>4. QED
    BY <2>1, <2>2, <2>3 DEF ClientInv
<1>13. ASSUME NEW m \in DOMAIN clients PROVE Report(m)'
  <2>1. Report(m)
    BY DEF IInv, ReportInv
  <2>2. /\ \A i \in DOMAIN events' : events'[i] = Req(m) => i \in DOMAIN events
        /\ \A i \in DOMAIN events' : events'[i] = Broken(m) /\ m # n => i \in DOMAIN events
    BY <1>9 DEF Broken, Req
  <2>3. CASE m = n
    <3>1. n \notin broken /\ \A i \in DOMAIN events : events[i] # Broken(n)
      BY <1>2, <2>1, <2>3 DEF Report
    <3>2. \A i \in DOMAIN events' : events'[i] = Broken(n) => i = Len(events) + 1
      BY <1>9, <3>1
    <3>3. Len(events) + 1 \in DOMAIN events'
      BY <1>9
    <3>4. \A i \in DOMAIN events : i < Len(events) + 1
      BY <1>9
    <3>5. QED
      BY <1>1, <1>3, <1>9, <2>2, <2>3, <3>1, <3>2, <3>3, <3>4 DEF Report
  <2>4. CASE m # n
    BY <1>1, <1>3, <1>9, <2>1, <2>2, <2>4 DEF Report
  <2>5. QED
    BY <2>3, <2>4
<1>14. ReportInv'
  BY <1>13 DEF ReportInv
<1>15. ASSUME pushes = 0, NEW m \in mapClient, m # n PROVE Turn(m)'
  <2>1. Turn(m) /\ clients[m].slot \in Slot /\ clients[m].slot # s
    BY <1>11, <1>15 DEF IInv, TurnInv
  <2>2. Under(io', clients[m].slot) = Under(io, clients[m].slot)
    BY <1>6, <2>1
  <2>3. \A i \in DOMAIN events' : events'[i] = Req(m) <=> i \in DOMAIN events /\ events[i] = Req(m)
    BY <1>9 DEF Req, Broken
  <2>4. QED
    BY <1>1, <1>9, <2>1, <2>2, <2>3 DEF Turn
<1>16. TurnInv'
  BY <1>1, <1>3, <1>15 DEF TurnInv
<1>17. QED
  BY <1>6, <1>7, <1>10, <1>12, <1>14, <1>16 DEF IInv

\* A response is written to a client that lives.
LEMMA RespondedIs ==
    ASSUME IInv, NEW n \in mapClient, NEW keep \in BOOLEAN, Respond(n, keep)
    PROVE  /\ SameSlots /\ Steady(io')
           /\ \A t \in Slot : Making(io', t) = Making(io, t) /\ (Live(io', t) <=> Live(io, t))
           /\ \A t \in Slot : Under(io', t) = IF t = clients[n].slot
                                              THEN Under(io, t) + 1 ELSE Under(io, t)
<1> DEFINE s == clients[n].slot
<1>1. /\ n \in DOMAIN clients /\ s \in Slot /\ clients[n].keep \in BOOLEAN
      /\ clients \in Seq([slot : Slot, keep : BOOLEAN]) /\ Steady(io) /\ Live(io, s)
  BY SlotOf DEF IInv, TypeOK, ClientInv
<1>2. clients' = [clients EXCEPT ![n].keep = @ \/ keep] /\ io' = Start(io, s, "write")
  BY DEF Respond
<1>3. SameSlots
  <2>1. clients[n] \in [slot : Slot, keep : BOOLEAN]
    <3>1. n \in 1..Len(clients)
      BY <1>1
    <3>2. QED
      BY <1>1, <3>1, ElementOfSeq
  <2>2. [clients[n] EXCEPT !.keep = @ \/ keep] \in [slot : Slot, keep : BOOLEAN]
    BY <2>1
  <2>3. clients' = [clients EXCEPT ![n] = [clients[n] EXCEPT !.keep = @ \/ keep]]
    BY <1>2
  <2>4. clients' \in Seq([slot : Slot, keep : BOOLEAN]) /\ DOMAIN clients' = DOMAIN clients
    BY <1>1, <2>2, <2>3
  <2>5. \A m \in DOMAIN clients : clients'[m].slot = clients[m].slot
    BY <1>1, <2>1, <2>3
  <2>6. QED
    BY <2>4, <2>5 DEF SameSlots
<1> HIDE DEF s
<1>4. io.open[s] /\ Making(io, s) = 0
  BY <1>1, LiveIs
<1>5. Moves(io, io', s, 1) /\ io'.open = io.open
  BY <1>1, <1>2, <1>4, Started
<1>6. /\ Steady(io')
      /\ \A t \in Slot : Making(io', t) = Making(io, t) /\ (Live(io', t) <=> Live(io, t))
      /\ \A t \in Slot : Under(io', t) = IF t = s THEN Under(io, t) + 1 ELSE Under(io, t)
  BY <1>5 DEF Moves, Live
<1>7. QED
  BY <1>3, <1>6 DEF s

\* The module answers a request.
LEMMA RespondStep ==
    ASSUME IInv, NEW n \in DOMAIN clients, ModuleRespond(n)
    PROVE  IInv'
<1>1. PICK keep \in BOOLEAN : Respond(n, keep)
  BY DEF ModuleRespond
<1>2. /\ n \in owed /\ owed' = owed \ {n}
      /\ UNCHANGED <<ssl, acceptor, acceptFailed, mapClient, events, broken, pushes, running>>
  BY DEF ModuleRespond
<1>3. /\ events' \in Seq(EventType) /\ owed' \subseteq DOMAIN clients
      /\ broken' \subseteq DOMAIN clients /\ pushes' \in 0..MaxPushes
  BY <1>2, Unchanging
<1>4. /\ SameSlots /\ Steady(io')
      /\ \A t \in Slot : Making(io', t) = Making(io, t) /\ (Live(io', t) <=> Live(io, t))
  <2>1. CASE n \in mapClient
    BY <1>1, <2>1, RespondedIs
  <2>2. CASE n \notin mapClient
    BY <1>1, <2>2, Unchanging DEF Respond, IInv
  <2>3. QED
    BY <2>1, <2>2
<1>5. AcceptInv' /\ acceptFailed' \in BOOLEAN /\ acceptor' \in {"open", "closed"}
  BY <1>2, <1>4, AcceptKept
<1>6. TypeOK' /\ ClientInv'
  BY <1>2, <1>3, <1>4, <1>5, SlotsStep
<1>7. ReportInv'
  BY <1>2, <1>4, ReportKept DEF SameSlots
<1>8. ASSUME pushes = 0, NEW m \in mapClient PROVE Turn(m)'
  <2>1. Turn(m) /\ clients'[m].slot = clients[m].slot /\ clients[m].slot \in Slot
    BY <1>4, <1>8, SlotOf DEF IInv, TurnInv, SameSlots
  <2>2. CASE m = n
    <3>1. Under(io', clients[n].slot) = Under(io, clients[n].slot) + 1
      BY <1>1, <2>1, <2>2, RespondedIs
    <3>2. Under(io, clients[n].slot) = 0 /\ \A i \in DOMAIN events : events[i] # Req(n)
      BY <1>2, <2>1, <2>2 DEF Turn
    <3>3. Under(io', clients'[n].slot) = 1
      BY <2>1, <2>2, <3>1, <3>2
    <3>4. QED
      BY <1>2, <2>1, <2>2, <3>2, <3>3 DEF Turn
  <2>3. CASE m # n
    <3>1. Under(io', clients[m].slot) = Under(io, clients[m].slot)
      <4>1. CASE n \in mapClient
        <5>1. clients[m].slot # clients[n].slot
          BY <2>3, <4>1 DEF IInv, ClientInv
        <5>2. QED
          BY <1>1, <2>1, <4>1, <5>1, RespondedIs
      <4>2. CASE n \notin mapClient
        BY <1>1, <4>2 DEF Respond
      <4>3. QED
        BY <4>1, <4>2
    <3>2. QED
      BY <1>2, <2>1, <2>3, <3>1, TurnKept
  <2>4. QED
    BY <2>2, <2>3
<1>9. TurnInv'
  BY <1>2, <1>8 DEF TurnInv
<1>10. QED
  BY <1>4, <1>5, <1>6, <1>7, <1>9 DEF IInv

\* The module responds unasked.
LEMMA PushStep ==
    ASSUME IInv, NEW n \in DOMAIN clients, ModulePush(n)
    PROVE  IInv'
<1>1. Respond(n, TRUE) /\ TRUE \in BOOLEAN
  BY DEF ModulePush
<1>2. /\ pushes < MaxPushes /\ pushes' = pushes + 1
      /\ UNCHANGED <<ssl, acceptor, acceptFailed, mapClient, events, owed, broken, running>>
  BY DEF ModulePush
<1>3. /\ events' \in Seq(EventType) /\ owed' \subseteq DOMAIN clients
      /\ broken' \subseteq DOMAIN clients /\ pushes' \in 0..MaxPushes /\ pushes' # 0
  BY <1>2, Unchanging, HttpServerAssumption
<1>4. /\ SameSlots /\ Steady(io')
      /\ \A t \in Slot : Making(io', t) = Making(io, t) /\ (Live(io', t) <=> Live(io, t))
  <2>1. CASE n \in mapClient
    BY <1>1, <2>1, RespondedIs
  <2>2. CASE n \notin mapClient
    BY <1>1, <2>2, Unchanging DEF Respond, IInv
  <2>3. QED
    BY <2>1, <2>2
<1>5. AcceptInv' /\ acceptFailed' \in BOOLEAN /\ acceptor' \in {"open", "closed"}
  BY <1>2, <1>4, AcceptKept
<1>6. TypeOK' /\ ClientInv'
  BY <1>2, <1>3, <1>4, <1>5, SlotsStep
<1>7. ReportInv'
  BY <1>2, <1>4, ReportKept DEF SameSlots
<1>8. TurnInv'
  BY <1>3 DEF TurnInv
<1>9. QED
  BY <1>4, <1>5, <1>6, <1>7, <1>8 DEF IInv

\* The module takes an event.
LEMMA TakeStep ==
    ASSUME IInv, ModuleTake
    PROVE  IInv'
<1> DEFINE e == Head(events)
           n == e.nonce
<1>1. /\ events # <<>> /\ events' = Tail(events)
      /\ IF e.type = "req" THEN owed' = owed \cup {n} /\ UNCHANGED broken
                           ELSE owed' = owed \ {n} /\ broken' = broken \cup {n}
      /\ UNCHANGED <<ssl, io, acceptor, acceptFailed, clients, mapClient, pushes, running>>
  BY DEF ModuleTake
<1>2. /\ events \in Seq(EventType) /\ owed \subseteq DOMAIN clients
      /\ broken \subseteq DOMAIN clients /\ pushes \in 0..MaxPushes /\ SameSlots
  BY <1>1, Unchanging
<1>3. /\ e \in EventType /\ events' \in Seq(EventType) /\ Len(events) \in Nat /\ Len(events) > 0
      /\ DOMAIN events = 1..Len(events) /\ DOMAIN events' = 1..(Len(events) - 1)
      /\ \A i \in DOMAIN events' : i + 1 \in DOMAIN events /\ events'[i] = events[i + 1]
      /\ 1 \in DOMAIN events /\ events[1] = e
  BY <1>1, <1>2
<1>4. n \in DOMAIN clients /\ (e = Req(n) \/ e = Broken(n))
  BY <1>3 DEF EventType, Req, Broken
<1>5. e.type = "req" <=> e = Req(n)
  BY <1>4 DEF Req, Broken
<1>6. Req(n) # Broken(n) /\ \A m : m # n => e # Req(m) /\ e # Broken(m)
  BY <1>4 DEF Req, Broken
<1> HIDE DEF e, n
<1>7. \A i \in DOMAIN events : i # 1 => i - 1 \in DOMAIN events' /\ events'[i - 1] = events[i]
  BY <1>3
<1>8. TypeOK' /\ ClientInv'
  <2>1. owed' \subseteq DOMAIN clients /\ broken' \subseteq DOMAIN clients
    BY <1>1, <1>2, <1>4
  <2>2. Steady(io') /\ acceptFailed' \in BOOLEAN /\ acceptor' \in {"open", "closed"}
    BY <1>1 DEF IInv, TypeOK
  <2>3. \A t \in Slot : Live(io', t) <=> Live(io, t)
    BY <1>1
  <2>4. pushes' \in 0..MaxPushes
    BY <1>1, <1>2
  <2>5. QED
    BY <1>1, <1>2, <1>3, <2>1, <2>2, <2>3, <2>4, SlotsStep
<1>9. AcceptInv'
  BY <1>1 DEF IInv, AcceptInv
<1>10. Steady(io')
  BY <1>1 DEF IInv
<1>11. CASE e = Req(n)
  <2>1. owed' = owed \cup {n} /\ UNCHANGED broken
    BY <1>1, <1>5, <1>11
  <2>2. ASSUME NEW m \in DOMAIN clients PROVE Report(m)'
    <3>1. Report(m) /\ e # Broken(m)
      BY <1>6, <1>11 DEF IInv, ReportInv, Req, Broken
    <3>2. /\ m \in mapClient \cup broken => \A i \in DOMAIN events' : events'[i] # Broken(m)
          /\ m \in broken => m \notin mapClient /\ \A j \in DOMAIN events' : events'[j] # Req(m)
      BY <1>3, <3>1 DEF Report
    <3>3. m \notin mapClient \cup broken => \E i \in DOMAIN events' : events'[i] = Broken(m)
      BY <1>3, <1>7, <3>1 DEF Report
    <3>4. ASSUME NEW i \in DOMAIN events', NEW j \in DOMAIN events', events'[i] = Broken(m)
          PROVE  /\ events'[j] = Broken(m) => i = j
                 /\ events'[j] = Req(m) => j < i
      <4>1. /\ i + 1 \in DOMAIN events /\ events[i + 1] = Broken(m)
            /\ j + 1 \in DOMAIN events /\ events[j + 1] = events'[j]
            /\ i \in Int /\ j \in Int
        BY <1>3, <3>4
      <4>2. /\ events'[j] = Broken(m) => i + 1 = j + 1
            /\ events'[j] = Req(m) => j + 1 < i + 1
        BY <3>1, <4>1 DEF Report
      <4>3. QED
        BY <4>1, <4>2
    <3>5. QED
      BY <1>1, <2>1, <3>2, <3>3, <3>4 DEF Report
  <2>3. ASSUME pushes = 0, NEW m \in mapClient PROVE Turn(m)'
    <3>1. Turn(m)
      BY <2>3 DEF IInv, TurnInv
    <3>2. \A i, j \in DOMAIN events' : events'[i] = Req(m) /\ events'[j] = Req(m) => i = j
      <4>1. ASSUME NEW i \in DOMAIN events', NEW j \in DOMAIN events',
                   events'[i] = Req(m), events'[j] = Req(m)
            PROVE  i = j
        <5>1. /\ i + 1 \in DOMAIN events /\ events[i + 1] = Req(m) /\ i \in Int
              /\ j + 1 \in DOMAIN events /\ events[j + 1] = Req(m) /\ j \in Int
          BY <1>3, <4>1
        <5>2. i + 1 = j + 1
          BY <3>1, <5>1 DEF Turn
        <5>3. QED
          BY <5>1, <5>2
      <4>2. QED
        BY <4>1
    <3>3. CASE m = n
      <4>1. events[1] = Req(m)
        BY <1>3, <1>11, <3>3
      <4>2. Under(io, clients[m].slot) = 0
        BY <1>3, <3>1, <4>1 DEF Turn
      <4>3. \A i \in DOMAIN events' : events'[i] # Req(m)
        <5>1. ASSUME NEW i \in DOMAIN events', events'[i] = Req(m) PROVE FALSE
          <6>1. i + 1 \in DOMAIN events /\ events[i + 1] = Req(m) /\ i \in 1..(Len(events) - 1)
            BY <1>3, <5>1
          <6>2. i + 1 = 1
            BY <1>3, <3>1, <4>1, <6>1 DEF Turn
          <6>3. QED
            BY <1>3, <6>1, <6>2
        <5>2. QED
          BY <5>1
      <4>4. QED
        BY <1>1, <2>1, <3>2, <3>3, <4>2, <4>3 DEF Turn
    <3>4. CASE m # n
      <4>1. (\E i \in DOMAIN events' : events'[i] = Req(m))
              <=> \E i \in DOMAIN events : events[i] = Req(m)
        BY <1>3, <1>6, <1>7, <3>4
      <4>2. m \in owed' <=> m \in owed
        BY <2>1, <3>4
      <4>3. QED
        BY <1>1, <3>1, <3>2, <4>1, <4>2 DEF Turn
    <3>5. QED
      BY <3>3, <3>4
  <2>4. ReportInv' /\ TurnInv'
    BY <1>1, <2>2, <2>3 DEF ReportInv, TurnInv
  <2>5. QED
    BY <1>8, <1>9, <1>10, <2>4 DEF IInv
<1>12. CASE e = Broken(n)
  <2>1. owed' = owed \ {n} /\ broken' = broken \cup {n}
    BY <1>1, <1>5, <1>6, <1>12
  <2>2. n \notin mapClient /\ n \notin broken
    BY <1>3, <1>4, <1>12 DEF IInv, ReportInv, Report
  <2>3. ASSUME NEW m \in DOMAIN clients PROVE Report(m)'
    <3>1. Report(m)
      BY DEF IInv, ReportInv
    <3>2. CASE m = n
      <4>1. events[1] = Broken(m)
        BY <1>3, <1>12, <3>2
      <4>2. \A i \in DOMAIN events' : events'[i] # Broken(m) /\ events'[i] # Req(m)
        <5>1. ASSUME NEW i \in DOMAIN events' PROVE events'[i] # Broken(m) /\ events'[i] # Req(m)
          <6>1. i + 1 \in DOMAIN events /\ events'[i] = events[i + 1] /\ i \in 1..(Len(events) - 1)
            BY <1>3, <5>1
          <6>2. /\ events[i + 1] = Broken(m) => i + 1 = 1
                /\ events[i + 1] = Req(m) => i + 1 < 1
            BY <1>3, <3>1, <4>1, <6>1 DEF Report
          <6>3. i + 1 > 1
            BY <1>3, <6>1
          <6>4. QED
            BY <1>3, <6>1, <6>2, <6>3
        <5>2. QED
          BY <5>1
      <4>3. QED
        BY <1>1, <2>1, <2>2, <3>2, <4>2 DEF Report
    <3>3. CASE m # n
      <4>1. e # Broken(m) /\ e # Req(m) /\ (m \in broken' <=> m \in broken)
        BY <1>6, <2>1, <3>3
      <4>2. /\ m \in mapClient \cup broken => \A i \in DOMAIN events' : events'[i] # Broken(m)
            /\ m \in broken => m \notin mapClient /\ \A j \in DOMAIN events' : events'[j] # Req(m)
        BY <1>3, <3>1 DEF Report
      <4>3. m \notin mapClient \cup broken => \E i \in DOMAIN events' : events'[i] = Broken(m)
        BY <1>3, <1>7, <3>1, <4>1 DEF Report
      <4>4. ASSUME NEW i \in DOMAIN events', NEW j \in DOMAIN events', events'[i] = Broken(m)
            PROVE  /\ events'[j] = Broken(m) => i = j
                   /\ events'[j] = Req(m) => j < i
        <5>1. /\ i + 1 \in DOMAIN events /\ events[i + 1] = Broken(m)
              /\ j + 1 \in DOMAIN events /\ events[j + 1] = events'[j]
              /\ i \in Int /\ j \in Int
          BY <1>3, <4>4
        <5>2. /\ events'[j] = Broken(m) => i + 1 = j + 1
              /\ events'[j] = Req(m) => j + 1 < i + 1
          BY <3>1, <5>1 DEF Report
        <5>3. QED
          BY <5>1, <5>2
      <4>5. QED
        BY <1>1, <4>1, <4>2, <4>3, <4>4 DEF Report
    <3>4. QED
      BY <3>2, <3>3
  <2>4. ASSUME pushes = 0, NEW m \in mapClient PROVE Turn(m)'
    <3>1. Turn(m) /\ m # n
      BY <2>2, <2>4 DEF IInv, TurnInv
    <3>2. \A i, j \in DOMAIN events' : events'[i] = Req(m) /\ events'[j] = Req(m) => i = j
      <4>1. ASSUME NEW i \in DOMAIN events', NEW j \in DOMAIN events',
                   events'[i] = Req(m), events'[j] = Req(m)
            PROVE  i = j
        <5>1. /\ i + 1 \in DOMAIN events /\ events[i + 1] = Req(m) /\ i \in Int
              /\ j + 1 \in DOMAIN events /\ events[j + 1] = Req(m) /\ j \in Int
          BY <1>3, <4>1
        <5>2. i + 1 = j + 1
          BY <3>1, <5>1 DEF Turn
        <5>3. QED
          BY <5>1, <5>2
      <4>2. QED
        BY <4>1
    <3>3. (\E i \in DOMAIN events' : events'[i] = Req(m))
            <=> \E i \in DOMAIN events : events[i] = Req(m)
      BY <1>3, <1>6, <1>7, <3>1
    <3>4. m \in owed' <=> m \in owed
      BY <2>1, <3>1
    <3>5. QED
      BY <1>1, <3>1, <3>2, <3>3, <3>4 DEF Turn
  <2>5. ReportInv' /\ TurnInv'
    BY <1>1, <2>3, <2>4 DEF ReportInv, TurnInv
  <2>6. QED
    BY <1>8, <1>9, <1>10, <2>5 DEF IInv
<1>13. QED
  BY <1>4, <1>11, <1>12
-----------------------------------------------------------------------------
\* The finite sets that are counted.
LEMMA ClientsFinite ==
    ASSUME TypeOK
    PROVE  IsFiniteSet(DOMAIN clients) /\ IsFiniteSet(mapClient) /\ IsFiniteSet(DOMAIN events)
<1>1. /\ Len(clients) \in Nat /\ DOMAIN clients = 1..Len(clients)
      /\ Len(events) \in Nat /\ DOMAIN events = 1..Len(events)
      /\ mapClient \subseteq DOMAIN clients
  BY DEF TypeOK
<1>2. IsFiniteSet(1..Len(clients)) /\ IsFiniteSet(1..Len(events))
  BY <1>1, FS_Interval
<1>3. QED
  BY <1>1, <1>2, FS_Subset

\* The clients that live when the service halts, each once, in whatever order.
LEMMA OrderIs ==
    ASSUME NEW S, IsFiniteSet(S), NEW q \in SetToSeqs(S)
    PROVE  /\ Cardinality(S) \in Nat /\ DOMAIN q = 1..Cardinality(S)
           /\ \A i \in DOMAIN q : q[i] \in S
           /\ \A i, j \in DOMAIN q : q[i] = q[j] => i = j
           /\ \A n \in S : \E i \in DOMAIN q : q[i] = n
<1> DEFINE D == 1..Cardinality(S)
<1>1. Cardinality(S) \in Nat
  BY FS_CardinalityType
<1>2. q \in [D -> S] /\ \A i, j \in D : i # j => q[i] # q[j]
  BY DEF SetToSeqs
<1>3. q \in Injection(D, S)
  BY <1>2 DEF Injection, IsInjective
<1>4. IsFiniteSet(D) /\ Cardinality(D) = Cardinality(S)
  BY <1>1, FS_Interval
<1>5. q \in Surjection(D, S)
  BY <1>3, <1>4, FS_Injection
<1>6. QED
  BY <1>1, <1>2, <1>5 DEF Surjection

\* The service halts: every connection left is reported, once and last.
LEMMA HaltStep ==
    ASSUME IInv, Halt
    PROVE  IInv'
<1>1. PICK q \in SetToSeqs(mapClient) : events' = events \o [i \in DOMAIN q |-> Broken(q[i])]
  BY DEF Halt
<1> DEFINE r == [i \in DOMAIN q |-> Broken(q[i])]
<1>2. /\ running' = FALSE /\ acceptor' = "closed" /\ mapClient' = {}
      /\ UNCHANGED <<io, acceptFailed, clients, ssl, owed, broken, pushes>>
  BY DEF Halt, restVars
<1>3. IsFiniteSet(mapClient) /\ events \in Seq(EventType) /\ mapClient \subseteq DOMAIN clients
  BY ClientsFinite DEF IInv, TypeOK, EventType
<1>4. /\ Cardinality(mapClient) \in Nat /\ DOMAIN q = 1..Cardinality(mapClient)
      /\ \A i \in DOMAIN q : q[i] \in mapClient
      /\ \A i, j \in DOMAIN q : q[i] = q[j] => i = j
      /\ \A n \in mapClient : \E i \in DOMAIN q : q[i] = n
  BY <1>3, OrderIs
<1>5. \A i \in DOMAIN q : Broken(q[i]) \in EventType
  BY <1>3, <1>4 DEF EventType
<1>6. r \in Seq(EventType) /\ Len(r) = Cardinality(mapClient)
  BY <1>4, <1>5
<1> DEFINE k == Len(events)
           l == Cardinality(mapClient)
<1>7. /\ events' \in Seq(EventType) /\ k \in Nat /\ l \in Nat
      /\ DOMAIN events = 1..k /\ DOMAIN events' = 1..(k + l) /\ DOMAIN q = 1..l
      /\ \A i \in 1..k : events'[i] = events[i]
      /\ \A i \in 1..l : k + i \in DOMAIN events' /\ events'[k + i] = Broken(q[i])
  <2>1. events' = events \o r
    BY <1>1
  <2> HIDE DEF r
  <2>2. /\ events' \in Seq(EventType) /\ Len(events') = k + l
        /\ \A i \in 1..(k + l) : events'[i] = IF i <= k THEN events[i] ELSE r[i - k]
    BY <1>3, <1>6, <2>1, ConcatProperties
  <2>3. k \in Nat /\ l \in Nat /\ DOMAIN events = 1..k /\ DOMAIN events' = 1..(k + l)
    BY <1>3, <1>4, <2>2
  <2>4. \A i \in 1..l : r[i] = Broken(q[i])
    BY <1>4 DEF r
  <2>5. ASSUME NEW i \in 1..l PROVE k + i \in DOMAIN events' /\ events'[k + i] = Broken(q[i])
    <3>1. k + i \in 1..(k + l) /\ ~ (k + i <= k) /\ (k + i) - k = i
      BY <2>3
    <3>2. QED
      BY <2>2, <2>3, <2>4, <3>1
  <2>6. \A i \in 1..k : events'[i] = events[i]
    BY <2>2, <2>3
  <2>7. QED
    BY <1>4, <2>2, <2>3, <2>5, <2>6
<1> HIDE DEF k, l, r
<1>8. ASSUME NEW i \in DOMAIN events', i \notin DOMAIN events
      PROVE  i - k \in DOMAIN q /\ i = k + (i - k) /\ i > k
  BY <1>7, <1>8
<1>9. TypeOK'
  <2>1. events' \in Seq({Req(m) : m \in DOMAIN clients'} \cup {Broken(m) : m \in DOMAIN clients'})
    BY <1>2, <1>7 DEF EventType
  <2>2. QED
    BY <1>2, <2>1 DEF IInv, TypeOK, Container
<1>10. Steady(io') /\ AcceptInv' /\ ClientInv' /\ TurnInv'
  BY <1>2 DEF IInv, AcceptInv, ClientInv, TurnInv
<1>11. ASSUME NEW n \in DOMAIN clients PROVE Report(n)'
  <2>1. Report(n)
    BY DEF IInv, ReportInv
  <2>2. \A j \in DOMAIN events' : events'[j] = Req(n) => j \in DOMAIN events /\ events[j] = Req(n)
    <3>1. ASSUME NEW j \in DOMAIN events', events'[j] = Req(n) PROVE j \in DOMAIN events
      <4>1. ASSUME j \notin DOMAIN events PROVE events'[j] = Broken(q[j - k])
        <5>1. j - k \in DOMAIN q /\ j = k + (j - k)
          BY <1>8, <4>1
        <5>2. QED
          BY <1>7, <5>1
      <4>2. QED
        BY <3>1, <4>1 DEF Req, Broken
    <3>2. QED
      BY <1>7, <3>1
  <2>3. CASE n \in mapClient
    <3>1. PICK i \in DOMAIN q : q[i] = n
      BY <1>4, <2>3
    <3>2. n \notin broken /\ \A j \in DOMAIN events : events[j] # Broken(n)
      BY <2>1, <2>3 DEF Report
    <3>3. k + i \in DOMAIN events' /\ events'[k + i] = Broken(n)
      BY <1>7, <3>1
    <3>4. ASSUME NEW j \in DOMAIN events', events'[j] = Broken(n) PROVE j = k + i
      <4>1. j \notin DOMAIN events
        BY <1>7, <3>2, <3>4
      <4>2. j - k \in DOMAIN q /\ j = k + (j - k)
        BY <1>8, <4>1
      <4>3. events'[j] = Broken(q[j - k])
        BY <1>7, <4>2
      <4>4. q[j - k] = n
        BY <3>4, <4>3 DEF Broken
      <4>5. QED
        BY <1>4, <3>1, <4>2, <4>4
    <3>5. \A j \in DOMAIN events : j < k + i
      BY <1>7, <3>1
    <3>6. n \notin broken'
      BY <1>2, <3>2
    <3>7. QED
      BY <1>2, <2>2, <3>3, <3>4, <3>5, <3>6 DEF Report
  <2>4. CASE n \notin mapClient
    <3>1. \A j \in DOMAIN events' : events'[j] = Broken(n) => j \in DOMAIN events /\ events[j] = Broken(n)
      <4>1. ASSUME NEW j \in DOMAIN events', events'[j] = Broken(n), j \notin DOMAIN events PROVE FALSE
        <5>1. j - k \in DOMAIN q /\ j = k + (j - k)
          BY <1>8, <4>1
        <5>2. events'[j] = Broken(q[j - k]) /\ q[j - k] \in mapClient
          BY <1>4, <1>7, <5>1
        <5>3. q[j - k] = n
          BY <4>1, <5>2 DEF Broken
        <5>4. QED
          BY <2>4, <5>2, <5>3
      <4>2. QED
        BY <1>7, <4>1
    <3>2. \A j \in DOMAIN events : j \in DOMAIN events' /\ events'[j] = events[j]
      BY <1>7
    <3>3. n \in mapClient' \cup broken' <=> n \in mapClient \cup broken
      BY <1>2, <2>4
    <3>4. QED
      BY <1>2, <2>1, <2>2, <2>4, <3>1, <3>2, <3>3 DEF Report
  <2>5. QED
    BY <2>3, <2>4
<1>12. ReportInv'
  BY <1>2, <1>11 DEF ReportInv
<1>13. QED
  BY <1>9, <1>10, <1>12 DEF IInv

\* Every step keeps the invariant.
LEMMA NextKeeps ==
    ASSUME IInv, [Next]_vars
    PROVE  IInv'
<1>1. ASSUME NEW s \in Slot, \/ AcceptDone(s) \/ HandshakeDone(s) \/ HandshakeRefused(s)
                             \/ HandshakeFails(s) \/ AcceptFails(s)
      PROVE  IInv'
  <2>1. /\ Steady(io') /\ AcceptInv' /\ (Made(s) \/ Unmade)
        /\ UNCHANGED <<events, restVars, running>>
        /\ acceptFailed' \in BOOLEAN /\ acceptor' \in {"open", "closed"}
    BY <1>1, ConnectionStep
  <2>2. CASE Made(s)
    BY <2>1, <2>2, MadeStep
  <2>3. CASE Unmade
    BY <2>1, <2>3, UnmadeStep
  <2>4. QED
    BY <2>1, <2>2, <2>3
<1>2. ASSUME NEW s \in Slot, ReadDone(s) PROVE IInv'
  <2>1. UNCHANGED <<acceptor, acceptFailed, restVars, running>>
    BY <1>2 DEF ReadDone
  <2>2. CASE Aborted(s, "read")
    BY <2>1, <2>2, AbortedStep
  <2>3. CASE ReadError(s)
    BY <2>1, <2>3, RemoveStep DEF ReadError
  <2>4. CASE ReadOk(s)
    <3>1. Completes(s, "read") /\ io.open[s] /\ UNCHANGED <<clients, mapClient>>
      BY <2>4 DEF ReadOk
    <3>2. CASE events' = Append(events, Req(ClientOf(s))) /\ io' = Release(Finish(io, s, "read"), s)
      BY <2>1, <3>1, <3>2, ReadReqStep
    <3>3. CASE \E op \in {"read", "write"} :
                  /\ io' = Release(Start(Finish(io, s, "read"), s, op), s)
                  /\ UNCHANGED events
      <4>1. PICK op \in {"read", "write"} : /\ io' = Release(Start(Finish(io, s, "read"), s, op), s)
                                            /\ UNCHANGED events
        BY <3>3
      <4>2. QED
        BY <2>1, <3>1, <4>1, ReadOnStep
    <3>4. QED
      BY <2>4, <3>2, <3>3 DEF ReadOk
  <2>5. QED
    BY <1>2, <2>2, <2>3, <2>4 DEF ReadDone
<1>3. ASSUME NEW s \in Slot, WriteDone(s) PROVE IInv'
  <2>1. UNCHANGED <<acceptor, acceptFailed, restVars, running>>
    BY <1>3 DEF WriteDone
  <2>2. CASE Aborted(s, "write")
    BY <2>1, <2>2, AbortedStep
  <2>3. CASE WriteLast(s)
    BY <2>1, <2>3, RemoveStep DEF WriteLast
  <2>4. CASE WriteKept(s)
    BY <2>1, <2>4, WriteKeptStep
  <2>5. QED
    BY <1>3, <2>2, <2>3, <2>4 DEF WriteDone
<1>4. CASE UNCHANGED vars
  BY <1>4 DEF vars, IInv, TypeOK, AcceptInv, ClientInv, ReportInv, Report, TurnInv, Turn
<1>5. CASE Next
  BY <1>1, <1>2, <1>3, <1>5, HaltStep, TakeStep, RespondStep, PushStep DEF Next, Handler
<1>6. QED
  BY <1>4, <1>5
-----------------------------------------------------------------------------
\* The first accept is under way, and no connection is made yet.
LEMMA InitInv ==
    ASSUME Init
    PROVE  IInv
<1> DEFINE c == [idle |-> [i \in Slot |-> i], open |-> [s \in Slot |-> FALSE],
                 ref |-> [s \in Slot |-> 0],
                 pending |-> [s \in Slot |-> [op \in Operation |-> 0]]]
<1>1. /\ io = AcceptNext(c) /\ ssl \in BOOLEAN /\ acceptor = "open" /\ acceptFailed = FALSE
      /\ clients = <<>> /\ mapClient = {} /\ events = <<>>
      /\ owed = {} /\ broken = {} /\ pushes = 0 /\ running = TRUE
  BY DEF Init
<1>2. /\ c.idle = [i \in Slot |-> i] /\ c.open = [s \in Slot |-> FALSE]
      /\ c.ref = [s \in Slot |-> 0]
      /\ c.pending = [s \in Slot |-> [op \in Operation |-> 0]]
  OBVIOUS
<1>3. Slot = 1..(nMaxConnections + 1) /\ nMaxConnections \in Nat /\ nMaxConnections > 0
  BY HttpServerAssumption DEF Slot
<1>4. /\ c.idle \in Seq(Slot) /\ Len(c.idle) = nMaxConnections + 1
      /\ DOMAIN c.idle = Slot /\ \A s \in Slot : c.idle[s] = s
  BY <1>2, <1>3
<1>5. c.idle # <<>> /\ Tail(c.idle) # <<>>
  <2>1. Len(c.idle) > 1
    BY <1>3, <1>4
  <2> HIDE DEF c
  <2>2. c.idle # <<>> /\ Len(Tail(c.idle)) = Len(c.idle) - 1 /\ Len(<<>>) = 0
    BY <1>4, <2>1
  <2>3. Len(Tail(c.idle)) # 0
    BY <1>3, <1>4, <2>1, <2>2
  <2>4. QED
    BY <2>2, <2>3
<1>6. IsInjective(c.idle) /\ ToSet(c.idle) = Slot
  BY <1>4 DEF IsInjective, ToSet
<1>7. c \in Container
  BY <1>4 DEF Container
<1>8. Sound(c)
  BY <1>2, <1>5, <1>6, <1>7 DEF Sound, IdleInv
<1>9. \A s \in Slot : /\ c.pending[s]["accept"] = 0 /\ c.pending[s]["handshake"] = 0
                      /\ c.pending[s]["read"] = 0 /\ c.pending[s]["write"] = 0
                      /\ c.open[s] = FALSE /\ c.ref[s] = 0
  BY <1>2 DEF Operation
<1> HIDE DEF c
<1>10. \A s \in Slot : Making(c, s) = 0 /\ Under(c, s) = 0
  BY <1>9 DEF Making, Under
<1>11. Steady(c)
  BY <1>8, <1>9, <1>10 DEF Steady, ConnectionInv, SlotInv
<1>12. /\ Steady(AcceptNext(c)) /\ AcceptNext(c).open = c.open
       /\ \E h \in Slot : Making(AcceptNext(c), h) > 0
  BY <1>5, <1>10, <1>11, NextAccept
<1>13. TypeOK
  <2>1. io \in Container
    BY <1>1, <1>12 DEF Steady, Sound
  <2>2. 0 \in 0..MaxPushes
    BY HttpServerAssumption
  <2>3. clients \in Seq([slot : Slot, keep : BOOLEAN]) /\ mapClient \subseteq DOMAIN clients
    BY <1>1
  <2>4. events \in Seq({Req(n) : n \in DOMAIN clients} \cup {Broken(n) : n \in DOMAIN clients})
    BY <1>1
  <2>5. owed \subseteq DOMAIN clients /\ broken \subseteq DOMAIN clients
    BY <1>1
  <2>6. QED
    BY <1>1, <2>1, <2>2, <2>3, <2>4, <2>5 DEF TypeOK, Container
<1>14. ClientInv
  <2>1. \A s \in Slot : ~ io.open[s]
    BY <1>1, <1>9, <1>12
  <2>2. QED
    BY <1>1, <2>1 DEF ClientInv, Live
<1>15. AcceptInv /\ ReportInv /\ TurnInv
  BY <1>1, <1>12 DEF AcceptInv, ReportInv, TurnInv
<1>16. QED
  BY <1>1, <1>12, <1>13, <1>14, <1>15 DEF IInv
-----------------------------------------------------------------------------
\* References are exact.
LEMMA ReferencesFollow ==
    ASSUME IInv
    PROVE  ReferencesExact
<1>1. Steady(io) /\ Sound(io) /\ \A s \in Slot : SlotInv(io, s)
  BY DEF IInv, Steady
<1>2. ASSUME NEW s \in Slot
      PROVE  /\ io.ref[s] \in Nat /\ io.pending[s]["accept"] \in Nat
             /\ io.pending[s]["handshake"] \in Nat /\ io.pending[s]["read"] \in Nat
             /\ io.pending[s]["write"] \in Nat /\ io.open[s] \in BOOLEAN
             /\ io.ref[s] = (IF io.open[s] THEN 1 ELSE io.pending[s]["accept"])
                            + (io.pending[s]["read"] + io.pending[s]["write"])
             /\ io.pending[s]["handshake"] > 0 => io.open[s]
  BY <1>1, FieldTypes DEF SlotInv, Under
<1>3. RefCountExact
  BY <1>2 DEF RefCountExact
<1>4. ASSUME NEW s \in Slot
      PROVE  s \in ToSet(io.idle) <=> ~ io.open[s] /\ Pending(s) = 0
  <2>1. s \in ToSet(io.idle) <=> io.ref[s] = 0
    BY <1>1 DEF Sound, IdleInv
  <2>2. Pending(s) = io.pending[s]["accept"] + io.pending[s]["handshake"]
                     + io.pending[s]["read"] + io.pending[s]["write"]
    BY DEF Pending
  <2>3. CASE io.open[s]
    BY <1>2, <2>1, <2>3
  <2>4. CASE ~ io.open[s]
    BY <1>2, <2>1, <2>2, <2>4
  <2>5. QED
    BY <2>3, <2>4
<1>5. IsInjective(io.idle)
  BY <1>1 DEF Sound, IdleInv
<1>6. QED
  BY <1>3, <1>4, <1>5 DEF ReferencesExact, IdleIffUnreferenced

\* A set with exactly one element, if any.
LEMMA OneOrNone ==
    ASSUME NEW S, IsFiniteSet(S), \A x, y \in S : x = y
    PROVE  /\ S # {} => Cardinality(S) = 1
           /\ S = {} => Cardinality(S) = 0
<1>1. ASSUME S # {} PROVE Cardinality(S) = 1
  <2>1. PICK x : x \in S
    BY <1>1
  <2>2. S = {x}
    BY <2>1
  <2>3. QED
    BY <2>2, FS_Singleton
<1>2. QED
  BY <1>1, FS_EmptySet

\* Live sockets are those of the clients.
LEMMA ClientsFollow ==
    ASSUME IInv
    PROVE  OpenIffClient
<1>1. SUFFICES ASSUME running, NEW s \in Slot
               PROVE  io.open[s] /\ io.pending[s].handshake = 0
                        <=> Cardinality({n \in mapClient : clients[n].slot = s}) = 1
  BY DEF OpenIffClient
<1> DEFINE S == {n \in mapClient : clients[n].slot = s}
<1>2. IsFiniteSet(S)
  BY ClientsFinite, FS_Subset DEF IInv
<1>3. \A m, n \in S : m = n
  BY DEF IInv, ClientInv
<1>4. io.open[s] /\ io.pending[s].handshake = 0 <=> S # {}
  BY <1>1 DEF IInv, ClientInv, Live
<1> HIDE DEF S
<1>5. Cardinality(S) = 1 <=> S # {}
  BY <1>2, <1>3, OneOrNone
<1>6. QED
  BY <1>4, <1>5 DEF S

\* One connection is being made.
LEMMA AcceptingFollows ==
    ASSUME IInv
    PROVE  AlwaysAccepting
<1>1. SUFFICES ASSUME running, acceptor = "open", ~ acceptFailed
               PROVE  Cardinality({s \in Slot :
                          io.pending[s].accept + io.pending[s].handshake = 1}) = 1
  BY DEF AlwaysAccepting
<1> DEFINE S == {s \in Slot : io.pending[s].accept + io.pending[s].handshake = 1}
<1>2. \A s \in Slot : /\ io.pending[s].accept + io.pending[s].handshake = Making(io, s)
                      /\ Making(io, s) \in Nat
  BY FieldTypes DEF IInv, Steady, Making
<1>3. \A s \in Slot : Making(io, s) > 0 => Making(io, s) = 1
  BY DEF IInv, Steady, SlotInv
<1>4. PICK s \in Slot : Making(io, s) > 0
  BY <1>1 DEF IInv, AcceptInv
<1>5. S # {}
  BY <1>2, <1>3, <1>4
<1>6. \A t, u \in S : t = u
  BY <1>2 DEF IInv, Steady, ConnectionInv
<1>7. IsFiniteSet(S)
  <2>1. IsFiniteSet(Slot)
    BY FS_Interval, HttpServerAssumption DEF Slot
  <2>2. QED
    BY <2>1, FS_Subset
<1> HIDE DEF S
<1>8. Cardinality(S) = 1
  BY <1>5, <1>6, <1>7, OneOrNone
<1>9. QED
  BY <1>8 DEF S

\* Every end is reported once, after all requests.
LEMMA ReportsFollow ==
    ASSUME IInv
    PROVE  BrokenOnceAndLast
<1> SUFFICES ASSUME NEW n \in DOMAIN clients
             PROVE  LET reports == {i \in DOMAIN events : events[i] = Broken(n)} IN
                    /\ Cardinality(reports) = IF n \in mapClient \cup broken THEN 0 ELSE 1
                    /\ \A i \in reports, j \in DOMAIN events : events[j] = Req(n) => j < i
                    /\ n \in broken => n \notin mapClient /\ Req(n) \notin ToSet(events)
  BY DEF BrokenOnceAndLast
<1> DEFINE reports == {i \in DOMAIN events : events[i] = Broken(n)}
<1>1. Report(n)
  BY DEF IInv, ReportInv
<1>2. IsFiniteSet(reports)
  BY ClientsFinite, FS_Subset DEF IInv
<1>3. \A i, j \in reports : i = j
  BY <1>1 DEF Report
<1>4. reports # {} <=> n \notin mapClient \cup broken
  BY <1>1 DEF Report
<1>5. \A i \in reports, j \in DOMAIN events : events[j] = Req(n) => j < i
  BY <1>1 DEF Report
<1>6. n \in broken => n \notin mapClient /\ Req(n) \notin ToSet(events)
  BY <1>1 DEF Report, ToSet
<1> HIDE DEF reports
<1>7. Cardinality(reports) = IF n \in mapClient \cup broken THEN 0 ELSE 1
  BY <1>2, <1>3, <1>4, OneOrNone
<1>8. QED
  BY <1>5, <1>6, <1>7 DEF reports

\* One thing at a time.
LEMMA TurnsFollow ==
    ASSUME IInv
    PROVE  OneAtATime
<1> SUFFICES ASSUME pushes = 0, NEW n \in mapClient
             PROVE  Cardinality({i \in DOMAIN events : events[i] = Req(n)})
                      + Cardinality(owed \cap {n})
                      + io.pending[clients[n].slot].read
                      + io.pending[clients[n].slot].write = 1
  BY DEF OneAtATime
<1> DEFINE R == {i \in DOMAIN events : events[i] = Req(n)}
           O == owed \cap {n}
           s == clients[n].slot
<1>1. Turn(n) /\ s \in Slot
  BY SlotOf DEF IInv, TurnInv
<1>2. IsFiniteSet(R) /\ \A i, j \in R : i = j
  BY <1>1, ClientsFinite, FS_Subset DEF IInv, Turn
<1>3. IsFiniteSet(O) /\ \A i, j \in O : i = j
  BY FS_Singleton, FS_Subset
<1>4. /\ io.pending[s].read \in Nat /\ io.pending[s].write \in Nat
      /\ Under(io, s) = io.pending[s].read + io.pending[s].write
  BY <1>1, FieldTypes DEF IInv, Steady, Under
<1>5. /\ O # {} <=> n \in owed
      /\ R # {} <=> \E i \in DOMAIN events : events[i] = Req(n)
  OBVIOUS
<1>6. \/ Under(io, s) = 1 /\ O = {} /\ R = {}
      \/ Under(io, s) = 0 /\ O # {} /\ R = {}
      \/ Under(io, s) = 0 /\ O = {} /\ R # {}
  BY <1>1, <1>5 DEF Turn
<1> HIDE DEF R, O
<1>7. /\ Cardinality(R) = IF R = {} THEN 0 ELSE 1
      /\ Cardinality(O) = IF O = {} THEN 0 ELSE 1
  BY <1>2, <1>3, OneOrNone
<1>8. Cardinality(R) + Cardinality(O) + io.pending[s].read + io.pending[s].write = 1
  BY <1>4, <1>6, <1>7
<1>9. QED
  BY <1>8 DEF R, O

\* The invariant holds in every reachable state.
LEMMA Inductive == Spec => []IInv
<1>1. Init => IInv
  BY InitInv
<1>2. IInv /\ [Next]_vars => IInv'
  BY NextKeeps
<1>3. QED
  BY <1>1, <1>2, PTL DEF Spec

\* Whatever the network and the module do, the container, the clients and the events are
\* of their types: no count of references or operations ever falls below zero.
THEOREM Types == Spec => []TypeOK
<1>1. IInv => TypeOK
  BY DEF IInv
<1>2. QED
  BY <1>1, Inductive, PTL

\* A client object is idle, once, exactly when nothing refers to it, its count of references
\* is that of its socket and operations, and an open socket belongs to one living client
\* (ioclient.cpp:111, ioinbound.cpp, httpserver.cpp).
THEOREM Exact == Spec => []ClientsExact
<1>1. IInv => ClientsExact
  BY ReferencesFollow, ClientsFollow DEF ClientsExact
<1>2. QED
  BY <1>1, Inductive, PTL

\* For every limit of connections one connection is being made as long as the acceptor is
\* open; every connection is reported broken once, after its requests; and without unasked
\* responses it has one request, response or read under way at a time (httpserver.cpp).
THEOREM Served == Spec => []ConnectionsServed
<1>1. IInv => ConnectionsServed
  BY AcceptingFollows, ReportsFollow, TurnsFollow DEF ConnectionsServed
<1>2. QED
  BY <1>1, Inductive, PTL
=============================================================================
