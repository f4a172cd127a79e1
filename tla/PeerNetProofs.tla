---------------------------- MODULE PeerNetProofs ----------------------------
(***************************************************************************)
(* Proofs about the peer network: for any addresses, nodes, sockets and    *)
(* slots, and whatever an observer may lose, the managers' counts are the  *)
(* connections there are, a node is idle once or in use, and no idle node  *)
(* comes due before its address's ban is over.  All three follow from the  *)
(* inductive invariant NetInv.  The operators of the managers are          *)
(* described by what they move (Moved, Still, Steady): by how much the     *)
(* connection count of one address and the idle entries of one node        *)
(* change, everything else being as it was; an action composes such moves  *)
(* and each part of NetInv follows from them.                              *)
(***************************************************************************)
EXTENDS PeerNet, FiniteSetTheorems, SequenceTheorems, WellFoundedInduction, TLAPS

Addrs == Addr \cup {NoAddr}
Status == [score : Int, ban : Int, conn : Int]
Partial(X, Y) == UNION {[D -> Y] : D \in SUBSET X}
Managers == [status : Partial(Addrs, Status), node : Partial(Node, Nat),
             idle : [Node -> Seq(Nat)], late : SUBSET Addrs, uncounted : SUBSET Addrs]
Eps == {NoEp} \cup {EpOf(n) : n \in Node}
Calls == [c : Clients, node : Node, res : {"none", "ok", "err", "abort"}]

ClientStates == [Clients -> [open : BOOLEAN, ep : Eps, sock : Eps]]

NetTypes ==
    /\ running \in BOOLEAN
    /\ epMngr \in Managers
    /\ client \in ClientStates
    /\ calls \subseteq Calls /\ IsFiniteSet(calls)
    /\ pending \subseteq [c : Clients, node : Node]
    /\ owners \in [Clients -> Nat]
    /\ inbound \in [Slots -> Addrs \cup {Free}]

(* The connections and the uses of a node, of the sockets cl, the connects cs, the CPeers ow    *)
(* and the inbound peers ib, in a state or in the next one.                                     *)
Remote(cl, c) == GetRemote(cl[c])
ConnectsIn(cs, a) == {k \in cs : AddrOf[k.node] = a}
PeersIn(cl, ow, a) == UNION {{c} \X (1..ow[c]) : c \in {d \in Clients : Remote(cl, d).addr = a}}
Out(cs, cl, ow, a) == Cardinality(ConnectsIn(cs, a)) + Cardinality(PeersIn(cl, ow, a))
In(ib, a) == Cardinality({i \in Slots : ib[i] = a})
CallUses(cs, n) == \E k \in cs : k.node = n
PeerUses(cl, ow, n) == \E c \in Clients : ow[c] > 0 /\ Remote(cl, c).node = n

\* Bans hold in the managers e, but for those of the addresses xs.
BansBut(e, xs) ==
    \A n \in Node : AddrOf[n] \notin xs =>
        \A i \in DOMAIN e.idle[n] : e.idle[n][i] >= StatusOf(e, AddrOf[n]).ban

\* A socket has one connect to a node at a time.
Once(cs) == \A k, l \in cs : k.c = l.c /\ k.node = l.node => k = l

\* Where a CPeer has not asked for its endpoint, the address has lost track.
Told(e, cl, ow) ==
    \A c \in Clients : ow[c] > 0 /\ cl[c].ep = NoEp =>
        cl[c].sock = NoEp \/ cl[c].sock.addr \in e.uncounted

Counted(e, cs, cl, ow, ib) ==
    \A a \in Addr \ e.uncounted :
        /\ StatusOf(e, a).conn = Out(cs, cl, ow, a) + In(ib, a)
        /\ Out(cs, cl, ow, a) <= 1 /\ In(ib, a) <= CONNECTION_LIMIT

\* A node that is to be connected to has one idle entry, or none while it is in use.
Kept(e, cs, cl, ow, db) ==
    \A n \in DOMAIN e.node : n \notin db /\ AddrOf[n] \notin e.uncounted =>
        Len(e.idle[n]) = IF CallUses(cs, n) \/ PeerUses(cl, ow, n) THEN 0 ELSE 1

\* The inductive invariant.
NetInv == /\ NetTypes /\ Once(calls) /\ BansBut(epMngr, epMngr.late)
          /\ running => /\ Told(epMngr, client, owners)
                        /\ Counted(epMngr, calls, client, owners, inbound)
                        /\ Kept(epMngr, calls, client, owners, doubled)
-------------------------------------------------------------------------------
(* Numbers, and functions that are defined step by step.                      *)

\* A set of naturals that is not empty has a least element.
LEMMA LeastOf ==
    ASSUME NEW I \in SUBSET Nat, I # {}
    PROVE  \E x \in I : \A y \in I : x <= y
<1> DEFINE R == OpToRel(<, Nat)
<1>1. PICK x \in I : \A y \in I : ~ (<<y, x>> \in R)
  BY NatLessThanWellFounded, WFMin
<1>2. ASSUME NEW y \in I
      PROVE  x <= y
  <2>1. x \in Nat /\ y \in Nat
    OBVIOUS
  <2>2. y < x => <<y, x>> \in R
    BY <2>1 DEF OpToRel
  <2>3. ~ (y < x)
    BY <1>1, <2>2
  <2> QED BY <2>1, <2>3
<1> QED BY <1>2

\* Induction up to a bound, for a set.
LEMMA UpTo ==
    ASSUME NEW N \in Nat, NEW D, 0 \in D, \A k \in 1..N : k - 1 \in D => k \in D
    PROVE  \A k \in 0..N : k \in D
<1> DEFINE I == {k \in 0..N : k \notin D}
<1>1. ASSUME I # {}
      PROVE  FALSE
  <2>1. I \in SUBSET Nat
    OBVIOUS
  <2>2. PICK x \in I : \A y \in I : x <= y
    BY <1>1, <2>1, LeastOf
  <2>3. x \in 1..N /\ x - 1 \in 0..N /\ x - 1 \notin I
    BY <2>2
  <2> QED BY <2>3
<1> QED BY <1>1

Iterated(E, A, S, N) ==
    \E f \in [0..N -> E] : \A k \in 0..N : f[k] = IF k = 0 THEN A ELSE S[f[k - 1]]

\* A step that stays in a set, repeated from one of its elements, is a function into that set.
LEMMA Iterates ==
    ASSUME NEW E, NEW A \in E, NEW S \in [E -> E], NEW N \in Nat
    PROVE  Iterated(E, A, S, N)
<1> DEFINE Is(n, f) == \A k \in 0..n : f[k] = IF k = 0 THEN A ELSE S[f[k - 1]]
           D == {n \in Nat : \E f \in [0..n -> E] : Is(n, f)}
<1>1. 0 \in D
  <2> DEFINE f == [k \in 0..0 |-> A]
  <2>1. f \in [0..0 -> E] /\ Is(0, f)
    OBVIOUS
  <2> QED BY <2>1
<1>2. ASSUME NEW n \in 1..N, n - 1 \in D
      PROVE  n \in D
  <2>1. PICK f \in [0..(n - 1) -> E] : Is(n - 1, f)
    BY <1>2
  <2> DEFINE g == [k \in 0..n |-> IF k = n THEN S[f[n - 1]] ELSE f[k]]
  <2>2. g \in [0..n -> E]
    OBVIOUS
  <2>3. ASSUME NEW k \in 0..n
        PROVE  g[k] = IF k = 0 THEN A ELSE S[g[k - 1]]
    <3>1. CASE k = n
      BY <3>1
    <3>2. CASE k # n
      <4>1. k \in 0..(n - 1) /\ f[k] = IF k = 0 THEN A ELSE S[f[k - 1]]
        BY <2>1, <3>2
      <4>2. k # 0 => k - 1 \in 0..n /\ k - 1 # n
        BY <4>1
      <4> QED BY <4>1, <4>2, <3>2
    <3> QED BY <3>1, <3>2
  <2> HIDE DEF g
  <2>4. Is(n, g)
    BY <2>3
  <2> QED BY <2>2, <2>4
<1> HIDE DEF D
<1>3. \A k \in 0..N : k \in D
  BY <1>1, <1>2, UpTo
<1> QED BY <1>3 DEF D, Iterated

LEMMA MaxOfTwo ==
    ASSUME NEW x \in Int, NEW y \in Int
    PROVE  Max({x, y}) = IF x >= y THEN x ELSE y
<1> DEFINE m == IF x >= y THEN x ELSE y
<1>1. m \in {x, y} /\ \A z \in {x, y} : m >= z
  OBVIOUS
<1>2. \A u \in {x, y} : (\A z \in {x, y} : u >= z) => u = m
  OBVIOUS
<1> QED BY <1>1, <1>2 DEF Max

LEMMA MinOfTwo ==
    ASSUME NEW x \in Int, NEW y \in Int
    PROVE  Min({x, y}) = IF x <= y THEN x ELSE y
<1> DEFINE m == IF x <= y THEN x ELSE y
<1>1. m \in {x, y} /\ \A z \in {x, y} : m <= z
  OBVIOUS
<1>2. \A u \in {x, y} : (\A z \in {x, y} : u <= z) => u = m
  OBVIOUS
<1> QED BY <1>1, <1>2 DEF Min

\* What is shifted left stays a natural number.
LEMMA ShiftedNat ==
    ASSUME NEW b \in Nat, NEW n \in Nat
    PROVE  Shifted(b, n) \in Nat
<1> DEFINE s == CHOOSE s : s = [i \in 0..n |-> IF i = 0 THEN b ELSE 2 * s[i - 1]]
           S == [x \in Nat |-> 2 * x]
<1>1. S \in [Nat -> Nat]
  OBVIOUS
<1> HIDE DEF S
<1>2. PICK f \in [0..n -> Nat] : \A k \in 0..n : f[k] = IF k = 0 THEN b ELSE S[f[k - 1]]
  <2>1. Iterated(Nat, b, S, n)
    BY <1>1, Iterates
  <2> QED BY <2>1 DEF Iterated
<1>3. \A k \in 0..n : f[k] = IF k = 0 THEN b ELSE 2 * f[k - 1]
  <2>1. ASSUME NEW k \in 0..n, k # 0
        PROVE  f[k] = 2 * f[k - 1]
    <3>1. k - 1 \in 0..n /\ f[k - 1] \in Nat
      BY <2>1
    <3> QED BY <1>2, <2>1, <3>1 DEF S
  <2> QED BY <1>2, <2>1
<1>4. f = [i \in 0..n |-> IF i = 0 THEN b ELSE 2 * f[i - 1]]
  BY <1>3
<1>5. s = [i \in 0..n |-> IF i = 0 THEN b ELSE 2 * s[i - 1]]
  BY <1>4
<1> HIDE DEF s
<1> DEFINE D == {k \in 0..n : s[k] \in Nat}
<1>6. 0 \in D /\ \A k \in 1..n : k - 1 \in D => k \in D
  BY <1>5, SMTT(30)
<1> HIDE DEF D
<1>7. \A k \in 0..n : k \in D
  BY <1>6, UpTo
<1>8. s[n] \in Nat
  BY <1>7 DEF D
<1> QED BY <1>8 DEF Shifted, s
-------------------------------------------------------------------------------
(* The managers: what each of their operations keeps and changes.              *)

LEMMA PartialIs ==
    ASSUME NEW X, NEW Y, NEW f
    PROVE  f \in Partial(X, Y) <=> /\ DOMAIN f \subseteq X /\ f = [x \in DOMAIN f |-> f[x]]
                                   /\ \A x \in DOMAIN f : f[x] \in Y
<1>1. ASSUME f \in Partial(X, Y)
      PROVE  /\ DOMAIN f \subseteq X /\ f = [x \in DOMAIN f |-> f[x]]
             /\ \A x \in DOMAIN f : f[x] \in Y
  <2>1. PICK D \in SUBSET X : f \in [D -> Y]
    BY <1>1 DEF Partial
  <2> QED BY <2>1
<1>2. ASSUME DOMAIN f \subseteq X, f = [x \in DOMAIN f |-> f[x]],
             \A x \in DOMAIN f : f[x] \in Y
      PROVE  f \in Partial(X, Y)
  <2>1. f \in [DOMAIN f -> Y]
    BY <1>2
  <2> QED BY <1>2, <2>1 DEF Partial
<1> QED BY <1>1, <1>2

LEMMA WithIs ==
    ASSUME NEW X, NEW Y, NEW f \in Partial(X, Y), NEW x \in X, NEW v \in Y
    PROVE  /\ With(f, x, v) \in Partial(X, Y)
           /\ DOMAIN With(f, x, v) = DOMAIN f \cup {x}
           /\ With(f, x, v)[x] = v
           /\ \A y \in DOMAIN f : y # x => With(f, x, v)[y] = f[y]
<1>1. DOMAIN f \subseteq X /\ \A y \in DOMAIN f : f[y] \in Y
  BY PartialIs
<1> DEFINE g == [y \in DOMAIN f \cup {x} |-> IF y = x THEN v ELSE f[y]]
<1>2. g \in [DOMAIN f \cup {x} -> Y]
  BY <1>1
<1>3. g \in Partial(X, Y)
  BY <1>1, <1>2 DEF Partial
<1> QED BY <1>3 DEF With

LEMMA WithoutIs ==
    ASSUME NEW X, NEW Y, NEW f \in Partial(X, Y), NEW xs
    PROVE  /\ Without(f, xs) \in Partial(X, Y)
           /\ DOMAIN Without(f, xs) = DOMAIN f \ xs
           /\ \A y \in DOMAIN f \ xs : Without(f, xs)[y] = f[y]
<1>1. DOMAIN f \subseteq X /\ \A y \in DOMAIN f : f[y] \in Y
  BY PartialIs
<1> DEFINE g == [y \in DOMAIN f \ xs |-> f[y]]
<1>2. g \in [DOMAIN f \ xs -> Y]
  BY <1>1
<1>3. g \in Partial(X, Y)
  BY <1>1, <1>2 DEF Partial
<1> QED BY <1>3 DEF Without

LEMMA StatusTypes ==
    ASSUME NEW e \in Managers, NEW a \in Addrs
    PROVE  StatusOf(e, a) \in Status
<1>1. \A b \in DOMAIN e.status : e.status[b] \in Status
  BY PartialIs DEF Managers
<1>2. NewStatus \in Status
  BY DEF NewStatus, Status
<1> QED BY <1>1, <1>2 DEF StatusOf

\* Writing a status changes nothing else.
LEMMA SetStatusIs ==
    ASSUME NEW e \in Managers, NEW a \in Addrs, NEW s \in Status
    PROVE  /\ SetStatus(e, a, s) \in Managers
           /\ SetStatus(e, a, s).node = e.node /\ SetStatus(e, a, s).idle = e.idle
           /\ SetStatus(e, a, s).late = e.late
           /\ SetStatus(e, a, s).uncounted = e.uncounted
           /\ \A b \in Addr : StatusOf(SetStatus(e, a, s), b) =
                                  IF b = a THEN s ELSE StatusOf(e, b)
<1> DEFINE v == IF a = NoAddr THEN NewStatus ELSE s
           g == With(e.status, a, v)
<1>1. v \in Status
  BY DEF NewStatus, Status
<1>2. e.status \in Partial(Addrs, Status)
  BY DEF Managers
<1> HIDE DEF v
<1>3. /\ g \in Partial(Addrs, Status) /\ DOMAIN g = DOMAIN e.status \cup {a} /\ g[a] = v
      /\ \A y \in DOMAIN e.status : y # a => g[y] = e.status[y]
  <2> HIDE DEF g
  <2>1. With(e.status, a, v) \in Partial(Addrs, Status)
    BY <1>1, <1>2, WithIs
  <2>2. DOMAIN With(e.status, a, v) = DOMAIN e.status \cup {a}
    BY <1>1, <1>2, WithIs, SMTT(30)
  <2>3. With(e.status, a, v)[a] = v
    BY DEF With
  <2>4. \A y \in DOMAIN e.status : y # a => With(e.status, a, v)[y] = e.status[y]
    BY DEF With
  <2> QED BY <2>1, <2>2, <2>3, <2>4 DEF g
<1>4. SetStatus(e, a, s) = [e EXCEPT !.status = g]
  BY DEF SetStatus, v
<1> HIDE DEF g
<1>5. /\ SetStatus(e, a, s) \in Managers /\ SetStatus(e, a, s).status = g
      /\ SetStatus(e, a, s).node = e.node /\ SetStatus(e, a, s).idle = e.idle
      /\ SetStatus(e, a, s).late = e.late
      /\ SetStatus(e, a, s).uncounted = e.uncounted
  BY <1>3, <1>4 DEF Managers
<1>6. ASSUME NEW b \in Addr
      PROVE  StatusOf(SetStatus(e, a, s), b) = IF b = a THEN s ELSE StatusOf(e, b)
  <2>1. b = a => v = s
    BY PeerNetAssumption DEF v
  <2> QED BY <2>1, <1>3, <1>5 DEF StatusOf
<1> QED BY <1>5, <1>6

\* What an operation of the managers may do to them: the count of a changes by d, the idle
\* entries of n by l, and nothing else that is counted; no node is added.
Moved(e, f, a, d, n, l) ==
    /\ f \in Managers /\ e.uncounted \subseteq f.uncounted
    /\ \A b \in Addr \ f.uncounted :
           StatusOf(f, b).conn = StatusOf(e, b).conn + (IF b = a THEN d ELSE 0)
    /\ \A m \in DOMAIN f.node :
           /\ m \in DOMAIN e.node
           /\ Len(f.idle[m]) = Len(e.idle[m]) + (IF m = n THEN l ELSE 0)

Still(e, f) == Moved(e, f, NoAddr, 0, NoNode, 0)

\* an operation that moves nothing and keeps the bans
Steady(e, f) == /\ Still(e, f)
                /\ f.late = e.late
                /\ \A xs \in SUBSET Addrs : BansBut(e, xs) => BansBut(f, xs)

LEMMA NodesAre ==
    ASSUME NEW e \in Managers
    PROVE  /\ DOMAIN e.node \subseteq Node /\ \A n \in DOMAIN e.node : e.node[n] \in Nat
           /\ e.idle \in [Node -> Seq(Nat)]
           /\ e.status \in Partial(Addrs, Status) /\ e.node \in Partial(Node, Nat)
           /\ e.late \in SUBSET Addrs /\ e.uncounted \in SUBSET Addrs
BY PartialIs DEF Managers

LEMMA SteadySelf ==
    ASSUME NEW e \in Managers
    PROVE  Steady(e, e)
<1>1. \A b \in Addr : StatusOf(e, b).conn \in Int
  BY StatusTypes DEF Status, Addrs
<1>2. \A m \in DOMAIN e.node : Len(e.idle[m]) \in Nat
  BY NodesAre
<1> QED BY <1>1, <1>2 DEF Steady, Still, Moved

\* Still steps before or after a move do not show.
LEMMA ThenStill ==
    ASSUME NEW e \in Managers, NEW f, NEW g, NEW a, NEW d \in Int, NEW n, NEW l \in Int,
           Moved(e, f, a, d, n, l), Still(f, g)
    PROVE  Moved(e, g, a, d, n, l)
<1>1. f \in Managers /\ g \in Managers
  BY DEF Moved, Still
<1>2. ASSUME NEW b \in Addr \ g.uncounted
      PROVE  StatusOf(g, b).conn = StatusOf(e, b).conn + (IF b = a THEN d ELSE 0)
  <2>1. StatusOf(f, b).conn \in Int /\ StatusOf(g, b).conn \in Int /\ StatusOf(e, b).conn \in Int
    BY <1>1, StatusTypes DEF Status, Addrs
  <2>2. b \in Addr \ f.uncounted
    BY DEF Moved, Still
  <2>3. StatusOf(f, b).conn = StatusOf(e, b).conn + (IF b = a THEN d ELSE 0)
    BY <2>2 DEF Moved
  <2>4. StatusOf(g, b).conn = StatusOf(f, b).conn
    BY <2>1 DEF Moved, Still
  <2> QED BY <2>3, <2>4
<1>3. ASSUME NEW m \in DOMAIN g.node
      PROVE  /\ m \in DOMAIN e.node
             /\ Len(g.idle[m]) = Len(e.idle[m]) + (IF m = n THEN l ELSE 0)
  <2>1. m \in DOMAIN f.node /\ Len(f.idle[m]) \in Nat
    BY <1>1, NodesAre DEF Moved, Still
  <2>2. Len(g.idle[m]) = Len(f.idle[m])
    BY <2>1 DEF Moved, Still
  <2> QED BY <2>1, <2>2 DEF Moved
<1> QED BY <1>1, <1>2, <1>3 DEF Moved, Still

LEMMA StillThen ==
    ASSUME NEW e \in Managers, NEW f, NEW g, NEW a, NEW d \in Int, NEW n, NEW l \in Int,
           Still(e, f), Moved(f, g, a, d, n, l)
    PROVE  Moved(e, g, a, d, n, l)
<1>1. f \in Managers /\ g \in Managers
  BY DEF Moved, Still
<1>2. ASSUME NEW b \in Addr \ g.uncounted
      PROVE  StatusOf(g, b).conn = StatusOf(e, b).conn + (IF b = a THEN d ELSE 0)
  <2>1. StatusOf(f, b).conn \in Int /\ StatusOf(e, b).conn \in Int
    BY <1>1, StatusTypes DEF Status, Addrs
  <2>2. b \in Addr \ f.uncounted
    BY DEF Moved, Still
  <2>3. StatusOf(f, b).conn = StatusOf(e, b).conn
    BY <2>1, <2>2 DEF Moved, Still
  <2>4. StatusOf(g, b).conn = StatusOf(f, b).conn + (IF b = a THEN d ELSE 0)
    BY DEF Moved
  <2> QED BY <2>3, <2>4
<1>3. ASSUME NEW m \in DOMAIN g.node
      PROVE  /\ m \in DOMAIN e.node
             /\ Len(g.idle[m]) = Len(e.idle[m]) + (IF m = n THEN l ELSE 0)
  <2>1. m \in DOMAIN f.node /\ Len(g.idle[m]) = Len(f.idle[m]) + (IF m = n THEN l ELSE 0)
    BY DEF Moved
  <2>2. m \in DOMAIN e.node /\ Len(e.idle[m]) \in Nat
    BY <2>1, NodesAre DEF Moved, Still
  <2>3. Len(f.idle[m]) = Len(e.idle[m])
    BY <2>1, <2>2 DEF Moved, Still
  <2> QED BY <2>1, <2>2, <2>3
<1> QED BY <1>1, <1>2, <1>3 DEF Moved, Still

LEMMA StillTwice ==
    ASSUME NEW e \in Managers, NEW f, NEW g, Still(e, f), Still(f, g)
    PROVE  Still(e, g)
<1>1. Moved(e, f, NoAddr, 0, NoNode, 0)
  BY DEF Still
<1> QED BY <1>1, ThenStill DEF Still

\* A sorted insertion adds one entry and keeps the others.
LEMMA Inserts ==
    ASSUME NEW q \in Seq(Nat), NEW t \in Nat
    PROVE  /\ InsertSorted(q, t) \in Seq(Nat) /\ Len(InsertSorted(q, t)) = Len(q) + 1
           /\ \A i \in DOMAIN InsertSorted(q, t) :
                  InsertSorted(q, t)[i] = t \/ \E j \in DOMAIN q : InsertSorted(q, t)[i] = q[j]
<1> DEFINE I == {i \in DOMAIN q : q[i] <= t}
           k == Cardinality(I)
<1>1. k \in 0..Len(q)
  <2>1. IsFiniteSet(1..Len(q)) /\ Cardinality(1..Len(q)) = Len(q)
    <3> DEFINE m == Len(q)
    <3>1. m \in Nat /\ m \in Int /\ 1 \in Int
      OBVIOUS
    <3> HIDE DEF m
    <3>2. IsFiniteSet(1..m) /\ Cardinality(1..m) = IF 1 > m THEN 0 ELSE m - 1 + 1
      BY <3>1, FS_Interval
    <3>3. IsFiniteSet(1..m) /\ Cardinality(1..m) = m
      BY <3>1, <3>2
    <3> QED BY <3>3 DEF m
  <2>2. I \subseteq 1..Len(q)
    OBVIOUS
  <2>3. IsFiniteSet(I) /\ k <= Len(q)
    BY <2>1, <2>2, FS_Subset
  <2> QED BY <2>3, FS_CardinalityType
<1> HIDE DEF k
<1> DEFINE x == SubSeq(q, 1, k)
           y == SubSeq(q, k + 1, Len(q))
           r == x \o <<t>> \o y
<1>2. x \in Seq(Nat) /\ Len(x) = k /\ \A i \in 1..k : x[i] = q[i]
  BY <1>1
<1>3. y \in Seq(Nat) /\ Len(y) = Len(q) - k /\ \A i \in 1..(Len(q) - k) : y[i] = q[k + i]
  BY <1>1
<1> HIDE DEF x, y
<1> DEFINE xt == x \o <<t>>
<1>3a. /\ xt \in Seq(Nat) /\ Len(xt) = k + 1
       /\ \A i \in 1..(k + 1) : xt[i] = IF i <= k THEN x[i] ELSE t
  <2>1. <<t>> \in Seq(Nat) /\ Len(<<t>>) = 1 /\ <<t>>[1] = t
    OBVIOUS
  <2>2. /\ xt \in Seq(Nat) /\ Len(xt) = k + 1
        /\ \A i \in 1..(k + 1) : xt[i] = IF i <= k THEN x[i] ELSE <<t>>[i - k]
    BY <1>2, <2>1, ConcatProperties
  <2> QED BY <1>1, <2>1, <2>2
<1>3b. r = xt \o y
  OBVIOUS
<1> HIDE DEF xt, r
<1>4. /\ r \in Seq(Nat) /\ Len(r) = Len(q) + 1
      /\ \A i \in 1..Len(r) : r[i] = IF i <= k + 1 THEN xt[i] ELSE y[i - (k + 1)]
  <2>1. /\ r \in Seq(Nat) /\ Len(r) = Len(xt) + Len(y)
        /\ \A i \in 1..(Len(xt) + Len(y)) : r[i] = IF i <= Len(xt) THEN xt[i] ELSE y[i - Len(xt)]
    BY <1>3, <1>3a, <1>3b, ConcatProperties
  <2>2. Len(xt) + Len(y) = Len(q) + 1
    BY <1>1, <1>3, <1>3a
  <2> QED BY <1>3a, <2>1, <2>2
<1>5. \A i \in 1..Len(r) : r[i] = IF i <= k THEN x[i] ELSE IF i = k + 1 THEN t ELSE y[i - k - 1]
  <2> SUFFICES ASSUME NEW i \in 1..Len(r)
               PROVE  r[i] = IF i <= k THEN x[i] ELSE IF i = k + 1 THEN t ELSE y[i - k - 1]
    OBVIOUS
  <2>1. /\ i \in Int /\ i >= 1 /\ k \in Int
        /\ r[i] = IF i <= k + 1 THEN xt[i] ELSE y[i - (k + 1)]
    BY <1>1, <1>4
  <2>2. CASE i <= k + 1
    <3>1. i \in 1..(k + 1)
      BY <2>1, <2>2
    <3>2. r[i] = xt[i] /\ xt[i] = IF i <= k THEN x[i] ELSE t
      BY <1>3a, <2>1, <2>2, <3>1
    <3> QED BY <2>1, <2>2, <3>2
  <2>3. CASE ~ (i <= k + 1)
    <3>1. i - (k + 1) = i - k - 1
      BY <2>1
    <3> QED BY <2>1, <2>3, <3>1
  <2> QED BY <2>2, <2>3
<1>6. ASSUME NEW i \in 1..Len(r)
      PROVE  r[i] = t \/ \E j \in 1..Len(q) : r[i] = q[j]
  <2>1. CASE i <= k
    <3>1. i \in 1..k /\ i \in 1..Len(q)
      BY <1>1, <2>1
    <3> QED BY <1>2, <1>5, <2>1, <3>1
  <2>2. CASE i = k + 1
    BY <1>1, <1>5, <2>2
  <2>3. CASE i > k + 1
    <3>1. i - k - 1 \in 1..(Len(q) - k) /\ k + (i - k - 1) \in 1..Len(q)
      BY <1>1, <1>4, <2>3
    <3>2. r[i] = y[i - k - 1]
      BY <1>1, <1>5, <2>3
    <3> QED BY <1>3, <3>1, <3>2
  <2> QED BY <1>1, <2>1, <2>2, <2>3
<1>7. InsertSorted(q, t) = r
  BY DEF InsertSorted, k, x, y, r
<1> QED BY <1>4, <1>6, <1>7

\* The managers f are e but for one more entry of n, with the time t.
Waits(e, n, t, f) ==
    /\ f \in Managers /\ f.status = e.status /\ f.node = e.node
    /\ f.late = e.late /\ f.uncounted = e.uncounted
    /\ \A m \in Node :
          /\ Len(f.idle[m]) = Len(e.idle[m]) + (IF m = n THEN 1 ELSE 0)
          /\ \A i \in DOMAIN f.idle[m] : \/ m = n /\ f.idle[m][i] = t
                                        \/ \E j \in DOMAIN e.idle[m] : f.idle[m][i] = e.idle[m][j]

\* The inserted time is the only one that is new.
LEMMA SetIdleIs ==
    ASSUME NEW e \in Managers, NEW n \in Node, NEW t \in Nat
    PROVE  Waits(e, n, t, SetIdle(e, n, t))
<1> DEFINE q == InsertSorted(e.idle[n], t)
<1>1. e.idle \in [Node -> Seq(Nat)] /\ e.idle[n] \in Seq(Nat)
  BY NodesAre
<1>2. q \in Seq(Nat) /\ Len(q) = Len(e.idle[n]) + 1
  BY <1>1, Inserts
<1>3. \A i \in DOMAIN q : q[i] = t \/ \E j \in DOMAIN e.idle[n] : q[i] = e.idle[n][j]
  BY <1>1, Inserts
<1>4. SetIdle(e, n, t) = [e EXCEPT !.idle = [e.idle EXCEPT ![n] = q]]
  BY <1>1 DEF SetIdle, Managers
<1> HIDE DEF q
<1>5. /\ SetIdle(e, n, t) \in Managers
      /\ SetIdle(e, n, t).status = e.status /\ SetIdle(e, n, t).node = e.node
      /\ SetIdle(e, n, t).late = e.late
      /\ SetIdle(e, n, t).uncounted = e.uncounted
      /\ SetIdle(e, n, t).idle = [e.idle EXCEPT ![n] = q]
  BY <1>1, <1>2, <1>4 DEF Managers
<1>6. ASSUME NEW m \in Node
      PROVE  /\ Len(SetIdle(e, n, t).idle[m]) = Len(e.idle[m]) + (IF m = n THEN 1 ELSE 0)
             /\ \A i \in DOMAIN SetIdle(e, n, t).idle[m] :
                   \/ m = n /\ SetIdle(e, n, t).idle[m][i] = t
                   \/ \E j \in DOMAIN e.idle[m] : SetIdle(e, n, t).idle[m][i] = e.idle[m][j]
  <2>1. CASE m = n
    BY <1>1, <1>2, <1>3, <1>5, <2>1, SMTT(30)
  <2>2. CASE m # n
    <3>1. SetIdle(e, n, t).idle[m] = e.idle[m] /\ Len(e.idle[m]) \in Nat
      BY <1>1, <1>5, <2>2
    <3> QED BY <3>1, <2>2
  <2> QED BY <2>1, <2>2
<1> QED BY <1>5, <1>6 DEF Waits

\* A node that is evicted takes one of its entries with it.
LEMMA EvictSteady ==
    ASSUME NEW e \in Managers, NEW n \in Node, e.idle[n] # <<>>
    PROVE  Steady(e, Evict(e, n))
<1> DEFINE f == Evict(e, n)
           q == SubSeq(e.idle[n], 1, Len(e.idle[n]) - 1)
           w == Without(e.node, {n})
<1>1. e.idle \in [Node -> Seq(Nat)] /\ e.idle[n] \in Seq(Nat) /\ Len(e.idle[n]) \in Nat \ {0}
  BY NodesAre
<1>2. q \in Seq(Nat) /\ Len(q) = Len(e.idle[n]) - 1 /\ \A i \in 1..Len(q) : q[i] = e.idle[n][i]
  BY <1>1
<1>3. w \in Partial(Node, Nat) /\ DOMAIN w = DOMAIN e.node \ {n}
  <2>1. w \in Partial(Node, Nat)
    BY NodesAre, WithoutIs
  <2> QED BY <2>1 DEF Without
<1>4. f = [e EXCEPT !.node = w, !.idle = [e.idle EXCEPT ![n] = q]]
  BY <1>1 DEF Evict, Managers
<1> HIDE DEF q, w
<1>5. /\ f \in Managers /\ f.status = e.status /\ f.node = w /\ f.late = e.late
      /\ f.uncounted = e.uncounted /\ f.idle = [e.idle EXCEPT ![n] = q]
  <2>1. [e.idle EXCEPT ![n] = q] \in [Node -> Seq(Nat)]
    BY <1>1, <1>2
  <2> QED BY <1>3, <1>4, <2>1 DEF Managers
<1> HIDE DEF f
<1>6. \A b \in Addr : StatusOf(f, b) = StatusOf(e, b) /\ StatusOf(e, b).conn \in Int
  BY <1>5, StatusTypes DEF StatusOf, Status, Addrs
<1>7. \A m \in DOMAIN f.node : m \in DOMAIN e.node /\ f.idle[m] = e.idle[m] /\ Len(e.idle[m]) \in Nat
  BY <1>1, <1>3, <1>5, NodesAre
<1>8. ASSUME NEW xs \in SUBSET Addrs, BansBut(e, xs)
      PROVE  BansBut(f, xs)
  <2> SUFFICES ASSUME NEW m \in Node, AddrOf[m] \notin xs, NEW i \in DOMAIN f.idle[m]
               PROVE  f.idle[m][i] >= StatusOf(f, AddrOf[m]).ban
    BY DEF BansBut
  <2>1. i \in DOMAIN e.idle[m] /\ f.idle[m][i] = e.idle[m][i]
    <3>1. CASE m = n
      <4>1. f.idle[m] = q /\ i \in 1..Len(q)
        BY <1>1, <1>2, <1>5, <3>1
      <4>2. i \in 1..Len(e.idle[n])
        BY <1>1, <1>2, <4>1
      <4>3. DOMAIN e.idle[n] = 1..Len(e.idle[n])
        BY <1>1
      <4> QED BY <1>2, <3>1, <4>1, <4>2, <4>3
    <3>2. CASE m # n
      BY <1>1, <1>5, <3>2
    <3> QED BY <3>1, <3>2
  <2>2. AddrOf[m] \in Addr
    BY PeerNetAssumption
  <2> QED BY <1>5, <1>6, <1>8, <2>1, <2>2 DEF BansBut
<1>9. Steady(e, f)
  BY <1>5, <1>6, <1>7, <1>8 DEF Steady, Still, Moved
<1> QED BY <1>9 DEF f

\* Trimming the idle nodes is a number of evictions.
LEMMA TrimSteady ==
    ASSUME NEW e \in Managers
    PROVE  \A f \in Bounded(e) : Steady(e, f)
<1>1. ASSUME NEW f \in Managers, NEW n \in Latest(f)
      PROVE  n \in Node /\ f.idle[n] # <<>>
  BY DEF Latest
<1> DEFINE N == REMOVE_COUNT - 1
           G == {f \in Managers : Steady(e, f)}
           E == SUBSET G
           A == {Evict(e, n) : n \in Latest(e)}
           step(X) == UNION {{Evict(f, n) : n \in {m \in Latest(f) :
                                   LastIdle(f, m) > MAX_IDLETIME}} : f \in X}
           S == [X \in E |-> step(X)]
           r == CHOOSE r : r = [k \in 0..N |-> IF k = 0 THEN A ELSE step(r[k - 1])]
<1>2. ASSUME NEW f \in G, NEW n \in Latest(f)
      PROVE  Evict(f, n) \in G
  <2>1. Steady(f, Evict(f, n)) /\ Steady(e, f)
    BY <1>1, EvictSteady
  <2>2. Steady(e, Evict(f, n))
    <3>1. Still(e, f)
      BY <2>1 DEF Steady
    <3>2. Still(e, Evict(f, n))
      BY <2>1, <3>1, StillTwice DEF Steady
    <3> QED BY <2>1, <3>2 DEF Steady
  <2> QED BY <2>2 DEF Steady, Still, Moved
<1>3. A \in E
  <2>1. e \in G
    BY SteadySelf
  <2> QED BY <1>2, <2>1
<1>4. \A X \in E : step(X) \in E
  BY <1>2
<1> HIDE DEF G, E, A, step
<1>5. S \in [E -> E]
  BY <1>4
<1> HIDE DEF S
<1>6. N \in Nat
  BY PeerNetAssumption
<1> HIDE DEF N
<1>7. Iterated(E, A, S, N)
  BY <1>3, <1>5, <1>6, Iterates
<1>8. PICK f \in [0..N -> E] : \A k \in 0..N : f[k] = IF k = 0 THEN A ELSE S[f[k - 1]]
  BY <1>7 DEF Iterated
<1>9. f = [k \in 0..N |-> IF k = 0 THEN A ELSE step(f[k - 1])]
  <2>1. ASSUME NEW k \in 0..N, k # 0
        PROVE  f[k] = step(f[k - 1])
    <3>1. k - 1 \in 0..N /\ f[k - 1] \in E
      BY <1>6, <2>1
    <3> QED BY <1>8, <2>1, <3>1 DEF S
  <2> QED BY <1>8, <2>1
<1>10. r = [k \in 0..N |-> IF k = 0 THEN A ELSE step(r[k - 1])]
  BY <1>9
<1> HIDE DEF r
<1> DEFINE D == {k \in 0..N : r[k] \in E}
<1>11. 0 \in D
  BY <1>3, <1>6, <1>10
<1>12. \A k \in 1..N : k - 1 \in D => k \in D
  BY <1>4, <1>6, <1>10
<1> HIDE DEF D
<1>13. \A k \in 0..N : k \in D
  BY <1>6, <1>11, <1>12, UpTo
<1>14. RemoveInactiveNodes(e) = UNION {r[k] : k \in 0..N}
  BY DEF RemoveInactiveNodes, r, step, A, N
<1>15. \A g \in RemoveInactiveNodes(e) : g \in G
  BY <1>13, <1>14 DEF D, E
<1> QED BY <1>15, SteadySelf DEF Bounded, G

LEMMA SteadyTwice ==
    ASSUME NEW e \in Managers, NEW f, NEW g, Steady(e, f), Steady(f, g)
    PROVE  Steady(e, g)
<1>1. Still(e, f)
  BY DEF Steady
<1>2. Still(e, g)
  BY <1>1, StillTwice DEF Steady
<1> QED BY <1>2 DEF Steady

\* What changes the nodes only, and adds no entry that is due before a ban ends.
LEMMA NodesSteady ==
    ASSUME NEW e \in Managers, NEW f \in Managers,
           f.status = e.status, f.uncounted = e.uncounted, f.late = e.late,
           \A m \in DOMAIN f.node : m \in DOMAIN e.node /\ Len(f.idle[m]) = Len(e.idle[m]),
           \A m \in Node : \A i \in DOMAIN f.idle[m] :
               \E j \in DOMAIN e.idle[m] : f.idle[m][i] = e.idle[m][j]
    PROVE  Steady(e, f)
<1>1. \A b \in Addr : StatusOf(f, b) = StatusOf(e, b) /\ StatusOf(e, b).conn \in Int
  BY StatusTypes DEF StatusOf, Status, Addrs
<1>2. \A m \in DOMAIN e.node : Len(e.idle[m]) \in Nat
  BY NodesAre
<1>3. Still(e, f)
  BY <1>1, <1>2 DEF Still, Moved
<1>4. ASSUME NEW xs \in SUBSET Addrs, BansBut(e, xs)
      PROVE  BansBut(f, xs)
  <2> SUFFICES ASSUME NEW m \in Node, AddrOf[m] \notin xs, NEW i \in DOMAIN f.idle[m]
               PROVE  f.idle[m][i] >= StatusOf(f, AddrOf[m]).ban
    BY DEF BansBut
  <2>1. PICK j \in DOMAIN e.idle[m] : f.idle[m][i] = e.idle[m][j]
    OBVIOUS
  <2>2. AddrOf[m] \in Addr
    BY PeerNetAssumption
  <2>3. e.idle[m][j] >= StatusOf(e, AddrOf[m]).ban
    BY <1>4 DEF BansBut
  <2> QED BY <1>1, <2>1, <2>2, <2>3
<1> QED BY <1>3, <1>4 DEF Steady

\* A node is dismissed to a new entry, which may be due before a ban of its address ends.
LEMMA DismissMoves ==
    ASSUME NEW e \in Managers, NEW n \in Node \cup {NoNode}, NEW fForceRetry \in BOOLEAN,
           NEW g \in Dismiss(e, n, fForceRetry)
    PROVE  /\ Moved(e, g, NoAddr, 0, n, 1) /\ g.late = e.late
           /\ \A xs \in SUBSET Addrs :
                 /\ BansBut(e, xs)
                 /\ n \in Node => AddrOf[n] \in xs \/ StatusOf(e, AddrOf[n]).ban <= 0
                 => BansBut(g, xs)
<1>1. CASE n \notin DOMAIN e.node
  <2>1. g = e
    BY <1>1 DEF Dismiss
  <2>2. Still(e, e)
    BY SteadySelf DEF Steady
  <2>3. \A m \in DOMAIN e.node : m # n /\ m # NoNode
    BY <1>1, NodesAre, PeerNetAssumption
  <2>4. Moved(e, e, NoAddr, 0, n, 1)
    BY <2>2, <2>3 DEF Still, Moved
  <2> QED BY <2>1, <2>4
<1>2. CASE n \in DOMAIN e.node
  <2> DEFINE retries == IF fForceRetry THEN 0 ELSE e.node[n] + 1
             f == [e EXCEPT !.node[n] = retries]
             t == Shifted(RETRY_INTERVAL_BASE, retries)
             h == SetIdle(f, n, t)
             o == [e EXCEPT !.node = Without(@, {n})]
  <2>1. n \in Node /\ n # NoNode /\ retries \in Nat
    BY <1>2, NodesAre, PeerNetAssumption
  <2>2. t \in Nat
    BY <2>1, ShiftedNat, PeerNetAssumption
  <2>3. g \in {o} \/ g \in Bounded(h)
    BY <1>2 DEF Dismiss
  <2>4. CASE g = o
    <3>1. Without(e.node, {n}) \in Partial(Node, Nat)
      BY NodesAre, WithoutIs
    <3>2. DOMAIN Without(e.node, {n}) = DOMAIN e.node \ {n}
      BY DEF Without
    <3>3. /\ o \in Managers /\ o.status = e.status /\ o.uncounted = e.uncounted
          /\ o.late = e.late /\ o.idle = e.idle /\ o.node = Without(e.node, {n})
      BY <3>1 DEF Managers
    <3> HIDE DEF o
    <3>4. Steady(e, o)
      BY <3>2, <3>3, NodesSteady
    <3>5. n \notin DOMAIN o.node
      BY <3>2, <3>3
    <3>6. NoNode \notin DOMAIN o.node
      BY <3>3, NodesAre, PeerNetAssumption
    <3>7. Moved(e, o, NoAddr, 0, n, 1)
      BY <3>4, <3>5, <3>6 DEF Steady, Still, Moved
    <3> QED BY <2>4, <3>4, <3>7 DEF Steady
  <2>5. CASE g \in Bounded(h)
    <3>1. [e.node EXCEPT ![n] = retries] \in Partial(Node, Nat)
      <4>1. e.node = [m \in DOMAIN e.node |-> e.node[m]]
        BY PartialIs, NodesAre
      <4>2. [e.node EXCEPT ![n] = retries] \in [DOMAIN e.node -> Nat]
        BY <2>1, <4>1, NodesAre
      <4> QED BY <4>2, NodesAre DEF Partial
    <3> HIDE DEF retries
    <3>2. /\ f \in Managers /\ f.status = e.status /\ f.uncounted = e.uncounted
          /\ f.late = e.late /\ f.idle = e.idle /\ f.node = [e.node EXCEPT ![n] = retries]
      BY <3>1 DEF Managers
    <3>3. DOMAIN f.node = DOMAIN e.node
      BY <3>2
    <3> HIDE DEF f
    <3> HIDE DEF t
    <3>4. /\ h \in Managers /\ h.status = e.status /\ DOMAIN h.node = DOMAIN e.node
          /\ h.late = e.late /\ h.uncounted = e.uncounted
          /\ \A m \in Node :
                /\ Len(h.idle[m]) = Len(e.idle[m]) + (IF m = n THEN 1 ELSE 0)
                /\ \A i \in DOMAIN h.idle[m] :
                      \/ m = n /\ h.idle[m][i] = t
                      \/ \E j \in DOMAIN e.idle[m] : h.idle[m][i] = e.idle[m][j]
      <4>1. Waits(f, n, t, h)
        BY <2>1, <2>2, <3>2, SetIdleIs
      <4> HIDE DEF h
      <4>2. /\ h \in Managers /\ h.status = e.status /\ DOMAIN h.node = DOMAIN e.node
            /\ h.late = e.late /\ h.uncounted = e.uncounted
        BY <3>2, <3>3, <4>1 DEF Waits
      <4>3. ASSUME NEW m \in Node
            PROVE  /\ Len(h.idle[m]) = Len(e.idle[m]) + (IF m = n THEN 1 ELSE 0)
                   /\ \A i \in DOMAIN h.idle[m] :
                         \/ m = n /\ h.idle[m][i] = t
                         \/ \E j \in DOMAIN e.idle[m] : h.idle[m][i] = e.idle[m][j]
        <5>1. f.idle[m] = e.idle[m]
          BY <3>2
        <5>2. Len(h.idle[m]) = Len(f.idle[m]) + (IF m = n THEN 1 ELSE 0)
          BY <4>1 DEF Waits
        <5>3. \A i \in DOMAIN h.idle[m] :
                  \/ m = n /\ h.idle[m][i] = t
                  \/ \E j \in DOMAIN f.idle[m] : h.idle[m][i] = f.idle[m][j]
          BY <4>1 DEF Waits
        <5> QED BY <5>1, <5>2, <5>3
      <4> QED BY <4>2, <4>3
    <3> HIDE DEF h
    <3>5. Steady(h, g)
      BY <2>5, <3>4, TrimSteady
    <3>6. \A b \in Addr : StatusOf(h, b) = StatusOf(e, b) /\ StatusOf(e, b) \in Status
      BY <3>4, StatusTypes DEF StatusOf, Addrs
    <3>7. Moved(e, h, NoAddr, 0, n, 1)
      <4>1. \A b \in Addr : StatusOf(h, b).conn = StatusOf(e, b).conn + 0
        BY <3>6 DEF Status
      <4>2. \A m \in DOMAIN h.node :
                /\ m \in DOMAIN e.node
                /\ Len(h.idle[m]) = Len(e.idle[m]) + (IF m = n THEN 1 ELSE 0)
        BY <3>4, NodesAre
      <4> QED BY <3>4, <4>1, <4>2 DEF Moved
    <3>8. Moved(e, g, NoAddr, 0, n, 1)
      BY <3>5, <3>7, ThenStill DEF Steady
    <3>9. ASSUME NEW xs \in SUBSET Addrs, BansBut(e, xs),
                 AddrOf[n] \in xs \/ StatusOf(e, AddrOf[n]).ban <= 0
          PROVE  BansBut(h, xs)
      <4> SUFFICES ASSUME NEW m \in Node, AddrOf[m] \notin xs, NEW i \in DOMAIN h.idle[m]
                   PROVE  h.idle[m][i] >= StatusOf(h, AddrOf[m]).ban
        BY DEF BansBut
      <4>1. AddrOf[m] \in Addr
        BY PeerNetAssumption
      <4>2. CASE m = n /\ h.idle[m][i] = t
        <5>1. StatusOf(h, AddrOf[m]).ban <= 0 /\ StatusOf(h, AddrOf[m]).ban \in Int
          BY <3>6, <3>9, <4>1, <4>2 DEF Status
        <5> QED BY <2>2, <4>2, <5>1
      <4>3. CASE \E j \in DOMAIN e.idle[m] : h.idle[m][i] = e.idle[m][j]
        BY <3>6, <3>9, <4>1, <4>3 DEF BansBut
      <4> QED BY <3>4, <4>2, <4>3
    <3> QED BY <2>1, <3>4, <3>5, <3>8, <3>9 DEF Steady
  <2> QED BY <2>3, <2>4, <2>5
<1> QED BY <1>1, <1>2

\* A status may be written with another count; a longer ban is one that must be told.
LEMMA SetStatusMoves ==
    ASSUME NEW e \in Managers, NEW a \in Addrs, NEW s \in Status, NEW d \in Int,
           a \in Addr \ e.uncounted => s.conn = StatusOf(e, a).conn + d
    PROVE  /\ Moved(e, SetStatus(e, a, s), a, d, NoNode, 0)
           /\ \A xs \in SUBSET Addrs :
                 BansBut(e, xs) /\ (a \in xs \/ s.ban <= StatusOf(e, a).ban)
                     => BansBut(SetStatus(e, a, s), xs)
<1> DEFINE f == SetStatus(e, a, s)
<1>1. /\ f \in Managers /\ f.node = e.node /\ f.idle = e.idle
      /\ f.late = e.late /\ f.uncounted = e.uncounted
      /\ \A b \in Addr : StatusOf(f, b) = IF b = a THEN s ELSE StatusOf(e, b)
  BY SetStatusIs
<1> HIDE DEF f
<1>2. \A b \in Addr : StatusOf(e, b) \in Status
  BY StatusTypes DEF Addrs
<1>3. \A b \in Addr \ f.uncounted : StatusOf(f, b).conn = StatusOf(e, b).conn + (IF b = a THEN d ELSE 0)
  BY <1>1, <1>2 DEF Status
<1>4. \A m \in DOMAIN f.node : m \in DOMAIN e.node
                               /\ Len(f.idle[m]) = Len(e.idle[m]) + (IF m = NoNode THEN 0 ELSE 0)
  BY <1>1, NodesAre
<1>5. ASSUME NEW xs \in SUBSET Addrs, BansBut(e, xs), a \in xs \/ s.ban <= StatusOf(e, a).ban
      PROVE  BansBut(f, xs)
  <2> SUFFICES ASSUME NEW m \in Node, AddrOf[m] \notin xs, NEW i \in DOMAIN e.idle[m]
               PROVE  e.idle[m][i] >= StatusOf(f, AddrOf[m]).ban
    BY <1>1 DEF BansBut
  <2>1. AddrOf[m] \in Addr
    BY PeerNetAssumption
  <2>2. e.idle[m][i] \in Nat
    BY NodesAre
  <2>3. e.idle[m][i] >= StatusOf(e, AddrOf[m]).ban
    BY <1>5 DEF BansBut
  <2> QED BY <1>1, <1>2, <1>5, <2>1, <2>2, <2>3 DEF Status
<1>6. Moved(e, f, a, d, NoNode, 0)
  BY <1>1, <1>3, <1>4 DEF Moved
<1> QED BY <1>5, <1>6 DEF f

\* Once a ban is told, no entry of its address is due before it ends.
LEMMA BanMoves ==
    ASSUME NEW e \in Managers, NEW a \in Addrs, NEW t \in Int
    PROVE  /\ Still(e, Ban(e, a, t))
           /\ Ban(e, a, t).late = e.late \ {a}
           /\ \A xs \in SUBSET Addrs :
                 BansBut(e, xs) /\ (a \in Addr => StatusOf(e, a).ban <= t) => BansBut(Ban(e, a, t), xs \ {a})
<1> DEFINE told(n) == [i \in DOMAIN e.idle[n] |-> Max({e.idle[n][i], t})]
           idle == [n \in Node |-> IF AddrOf[n] = a THEN told(n) ELSE e.idle[n]]
           f == Ban(e, a, t)
<1>1. e.idle \in [Node -> Seq(Nat)]
  BY NodesAre
<1>2. ASSUME NEW n \in Node
      PROVE  /\ told(n) \in Seq(Nat) /\ Len(told(n)) = Len(e.idle[n])
             /\ \A i \in DOMAIN e.idle[n] : told(n)[i] >= e.idle[n][i] /\ told(n)[i] >= t
  <2> DEFINE q == e.idle[n]
             r == [i \in DOMAIN q |-> Max({q[i], t})]
  <2>1. q \in Seq(Nat)
    BY <1>1
  <2>2. told(n) = r
    OBVIOUS
  <2> HIDE DEF q
  <2>3. DOMAIN q = 1..Len(q) /\ Len(q) \in Nat /\ \A i \in DOMAIN q : q[i] \in Nat
    BY <2>1
  <2>4. \A i \in DOMAIN q : q[i] \in Int
    BY <2>3
  <2>5. \A i \in DOMAIN q : Max({q[i], t}) = IF q[i] >= t THEN q[i] ELSE t
    BY <2>4, MaxOfTwo
  <2>6. \A i \in DOMAIN q : r[i] \in Nat /\ r[i] >= q[i] /\ r[i] >= t
    BY <2>3, <2>5
  <2>7. DOMAIN r = DOMAIN q
    OBVIOUS
  <2>8. r = [i \in DOMAIN r |-> r[i]]
    OBVIOUS
  <2> HIDE DEF r
  <2>9. r \in [1..Len(q) -> Nat]
    BY <2>3, <2>6, <2>7, <2>8
  <2>10. r \in Seq(Nat) /\ Len(r) = Len(q)
    BY <2>3, <2>9
  <2> QED BY <2>2, <2>6, <2>10 DEF q
<1> HIDE DEF told
<1>3. idle \in [Node -> Seq(Nat)]
  BY <1>1, <1>2
<1>4. f = [e EXCEPT !.late = e.late \ {a}, !.idle = idle]
  BY DEF Ban, Managers, told
<1>5. \A n \in Node : idle[n] = IF AddrOf[n] = a THEN told(n) ELSE e.idle[n]
  OBVIOUS
<1> HIDE DEF idle
<1>6. /\ f \in Managers /\ f.status = e.status /\ f.node = e.node /\ f.late = e.late \ {a}
      /\ f.uncounted = e.uncounted /\ f.idle = idle
  BY <1>3, <1>4 DEF Managers
<1> HIDE DEF f
<1>7. \A b \in Addr : StatusOf(f, b) = StatusOf(e, b) /\ StatusOf(e, b) \in Status
  BY <1>6, StatusTypes DEF StatusOf, Addrs
<1>8. \A n \in Node : Len(idle[n]) = Len(e.idle[n]) /\ Len(e.idle[n]) \in Nat
  BY <1>1, <1>2, <1>5
<1>9. Still(e, f)
  <2>1. \A b \in Addr : StatusOf(f, b).conn = StatusOf(e, b).conn + 0
    BY <1>7 DEF Status
  <2>2. \A n \in DOMAIN f.node : n \in DOMAIN e.node /\ Len(f.idle[n]) = Len(e.idle[n]) + 0
    BY <1>6, <1>8, NodesAre
  <2> QED BY <1>6, <2>1, <2>2 DEF Still, Moved
<1>10. ASSUME NEW xs \in SUBSET Addrs, BansBut(e, xs), a \in Addr => StatusOf(e, a).ban <= t
       PROVE  BansBut(f, xs \ {a})
  <2> SUFFICES ASSUME NEW m \in Node, AddrOf[m] \notin xs \/ AddrOf[m] = a,
                      NEW i \in DOMAIN idle[m]
               PROVE  idle[m][i] >= StatusOf(e, AddrOf[m]).ban
    <3>1. \A m \in Node : AddrOf[m] \in Addr
      BY PeerNetAssumption
    <3> QED BY <1>6, <1>7, <3>1 DEF BansBut
  <2>1. AddrOf[m] \in Addr /\ StatusOf(e, AddrOf[m]).ban \in Int
    BY <1>7, PeerNetAssumption DEF Status
  <2>2. CASE AddrOf[m] = a
    <3>1. idle[m] = told(m) /\ i \in DOMAIN e.idle[m] /\ told(m)[i] \in Nat
      BY <1>1, <1>2, <1>5, <2>2
    <3>2. told(m)[i] >= t
      BY <1>2, <3>1
    <3> QED BY <1>10, <2>1, <2>2, <3>1, <3>2
  <2>3. CASE AddrOf[m] # a
    BY <1>5, <1>10, <2>3 DEF BansBut
  <2> QED BY <2>2, <2>3
<1> QED BY <1>6, <1>9, <1>10 DEF f

\* A status with its ban, told to the idle nodes if there is one.
Punished(e, a, s) == IF s.ban > 0 THEN Ban(SetStatus(e, a, s), a, s.ban) ELSE SetStatus(e, a, s)

LEMMA PunishedMoves ==
    ASSUME NEW e \in Managers, NEW a \in Addrs, NEW s \in Status, NEW d \in Int,
           a \in Addr \ e.uncounted => s.conn = StatusOf(e, a).conn + d
    PROVE  /\ Moved(e, Punished(e, a, s), a, d, NoNode, 0)
           /\ BansBut(e, e.late \cup {a}) => BansBut(Punished(e, a, s), Punished(e, a, s).late)
<1> DEFINE f == SetStatus(e, a, s)
           g == Ban(f, a, s.ban)
<1>1. Moved(e, f, a, d, NoNode, 0)
  BY SetStatusMoves
<1>2. e.late \cup {a} \in SUBSET Addrs
  BY NodesAre
<1>3. BansBut(e, e.late \cup {a}) => BansBut(f, e.late \cup {a})
  BY <1>2, SetStatusMoves
<1>4. /\ f \in Managers /\ f.late = e.late /\ f.idle = e.idle
      /\ \A b \in Addr : StatusOf(f, b) = IF b = a THEN s ELSE StatusOf(e, b)
  BY SetStatusIs
<1>5. s.ban \in Int
  BY DEF Status
<1> HIDE DEF f
<1>6. CASE s.ban > 0
  <2>1. /\ Still(f, g) /\ g.late = f.late \ {a}
        /\ \A xs \in SUBSET Addrs :
              BansBut(f, xs) /\ (a \in Addr => StatusOf(f, a).ban <= s.ban) => BansBut(g, xs \ {a})
    BY <1>4, <1>5, <1>6, BanMoves
  <2> HIDE DEF g
  <2>2. Moved(e, g, a, d, NoNode, 0)
    BY <1>1, <1>4, <2>1, ThenStill
  <2>3. Punished(e, a, s) = g
    BY <1>6 DEF Punished, f, g
  <2>4. ASSUME BansBut(e, e.late \cup {a})
        PROVE  BansBut(g, g.late)
    <3>1. BansBut(f, e.late \cup {a})
      BY <1>3, <2>4
    <3>2. a \in Addr => StatusOf(f, a).ban <= s.ban
      BY <1>4, <1>5
    <3>3. BansBut(g, (e.late \cup {a}) \ {a})
      BY <1>2, <2>1, <3>1, <3>2
    <3>4. (e.late \cup {a}) \ {a} = g.late
      BY <1>4, <2>1
    <3> QED BY <3>3, <3>4
  <2> QED BY <2>2, <2>3, <2>4
<1>7. CASE ~ (s.ban > 0)
  <2>1. ASSUME BansBut(f, f.late \cup {a})
        PROVE  BansBut(f, f.late)
    <3> SUFFICES ASSUME NEW m \in Node, AddrOf[m] = a, NEW i \in DOMAIN f.idle[m]
                 PROVE  f.idle[m][i] >= StatusOf(f, AddrOf[m]).ban
      BY <2>1 DEF BansBut
    <3>1. f.idle[m][i] \in Nat
      BY <1>4, NodesAre
    <3>2. StatusOf(f, AddrOf[m]) = s
      BY <1>4, PeerNetAssumption
    <3> QED BY <1>5, <1>7, <3>1, <3>2
  <2>2. Punished(e, a, s) = f
    BY <1>7 DEF Punished, f
  <2> QED BY <1>1, <1>3, <1>4, <2>1, <2>2
<1> QED BY <1>6, <1>7

\* A penalty keeps the count, and ends in a ban that is not shorter.
LEMMA PenalizeIs ==
    ASSUME NEW s \in Status, NEW points \in Nat
    PROVE  /\ Penalize(s, points) \in Status /\ Penalize(s, points).conn = s.conn
           /\ Penalize(s, points).ban # s.ban => Penalize(s, points).ban >= 0
<1> DEFINE score == Max({s.score - points, MIN_SCORE})
           k == (BAN_SHIFT * (-score)) \div (-MIN_SCORE)
           b == Max({s.ban, 0})
<1>1. s.score - points \in Int /\ MIN_SCORE \in Int /\ s.ban \in Int /\ 0 \in Int
  BY PeerNetAssumption DEF Status
<1>2. score = IF s.score - points >= MIN_SCORE THEN s.score - points ELSE MIN_SCORE
  BY <1>1, MaxOfTwo
<1>3. score \in Int
  BY <1>1, <1>2
<1>4. b = IF s.ban >= 0 THEN s.ban ELSE 0
  BY <1>1, MaxOfTwo
<1>5. b \in Nat
  BY <1>1, <1>4
<1>6. CASE score < 0
  <2> DEFINE x == -score
             y == BAN_SHIFT * x
             z == -MIN_SCORE
  <2>1. x \in Nat /\ z \in Nat \ {0} /\ BAN_SHIFT \in Nat
    BY <1>3, <1>6, PeerNetAssumption
  <2> HIDE DEF x
  <2>2. y \in Nat
    BY <2>1
  <2> HIDE DEF y, z
  <2>3. y \div z \in Nat
    BY <2>1, <2>2
  <2>4. k = y \div z
    BY DEF x, y, z
  <2>5. BanTime(score) \in Nat
    BY <2>3, <2>4, ShiftedNat, PeerNetAssumption DEF BanTime
  <2> HIDE DEF score, b
  <2>6. Penalize(s, points) = [s EXCEPT !.score = score, !.ban = b + BanTime(score)]
    BY <1>6 DEF Penalize, score, b
  <2>7. b + BanTime(score) \in Nat /\ b + BanTime(score) \in Int
    BY <1>5, <2>5
  <2> DEFINE w == b + BanTime(score)
  <2>8. Penalize(s, points) = [s EXCEPT !.score = score, !.ban = w]
    BY <2>6
  <2>9. w \in Nat /\ w \in Int
    BY <2>7
  <2> HIDE DEF w
  <2>10. s = [score |-> s.score, ban |-> s.ban, conn |-> s.conn] /\ s.conn \in Int
    BY DEF Status
  <2>11. Penalize(s, points) = [score |-> score, ban |-> w, conn |-> s.conn]
    BY <2>8, <2>10
  <2> QED BY <1>3, <2>9, <2>10, <2>11 DEF Status
<1>7. CASE ~ (score < 0)
  <2> HIDE DEF score
  <2>1. Penalize(s, points) = [s EXCEPT !.score = score]
    BY <1>7 DEF Penalize, score
  <2> QED BY <1>3, <2>1 DEF Status
<1> QED BY <1>6, <1>7

LEMMA RewardIs ==
    ASSUME NEW s \in Status, NEW points \in Nat
    PROVE  /\ Reward(s, points) \in Status /\ Reward(s, points).conn = s.conn
           /\ Reward(s, points).ban = s.ban
<1> DEFINE score == Min({s.score + points, MAX_SCORE})
<1>1. s.score + points \in Int /\ MAX_SCORE \in Int
  BY PeerNetAssumption DEF Status
<1>2. score \in Int
  BY <1>1, MinOfTwo
<1>3. Reward(s, points) = [s EXCEPT !.score = score]
  BY DEF Reward, Status
<1> HIDE DEF score
<1> QED BY <1>2, <1>3 DEF Status

\* An address whose status is erased while it counts is noted.
LEMMA EraseSteady ==
    ASSUME NEW e \in Managers, NEW as \in SUBSET DOMAIN e.status
    PROVE  Steady(e, Erase(e, as))
<1> DEFINE f == Erase(e, as)
           w == Without(e.status, as)
           u == e.uncounted \cup {a \in as : StatusOf(e, a).conn # 0}
<1>1. w \in Partial(Addrs, Status)
  BY NodesAre, WithoutIs
<1>2. DOMAIN w = DOMAIN e.status \ as /\ \A a \in DOMAIN w : w[a] = e.status[a]
  BY DEF Without
<1>3. u \in SUBSET Addrs
  <2>1. DOMAIN e.status \subseteq Addrs
    BY PartialIs, NodesAre
  <2> QED BY <2>1, NodesAre
<1>4. f = [e EXCEPT !.status = w, !.uncounted = u]
  BY DEF Erase, Managers
<1> HIDE DEF w
<1>5. \A a \in as : a \notin u => StatusOf(e, a).conn = 0
  OBVIOUS
<1>6. e.uncounted \subseteq u
  OBVIOUS
<1> HIDE DEF u
<1>7. /\ f \in Managers /\ f.status = w /\ f.uncounted = u /\ f.node = e.node
      /\ f.idle = e.idle /\ f.late = e.late
  BY <1>1, <1>3, <1>4 DEF Managers
<1> HIDE DEF f
<1>8. \A b \in Addr : StatusOf(f, b) = IF b \in as THEN NewStatus ELSE StatusOf(e, b)
  BY <1>2, <1>7 DEF StatusOf
<1>9. \A b \in Addr : StatusOf(e, b) \in Status
  BY StatusTypes DEF Addrs
<1>10. ASSUME NEW b \in Addr \ f.uncounted
       PROVE  StatusOf(f, b).conn = StatusOf(e, b).conn + 0
  <2>1. StatusOf(e, b).conn \in Int
    BY <1>9 DEF Status
  <2>2. CASE b \in as
    <3>1. StatusOf(f, b) = NewStatus /\ NewStatus.conn = 0
      BY <1>8, <2>2 DEF NewStatus
    <3>2. StatusOf(e, b).conn = 0
      BY <1>5, <1>7, <2>2
    <3> QED BY <3>1, <3>2
  <2>3. CASE b \notin as
    <3>1. StatusOf(f, b) = StatusOf(e, b)
      BY <1>8, <2>3
    <3> QED BY <2>1, <3>1
  <2> QED BY <2>2, <2>3
<1>11. \A m \in DOMAIN f.node : m \in DOMAIN e.node /\ Len(f.idle[m]) = Len(e.idle[m]) + 0
  BY <1>7, NodesAre
<1>12. Still(e, f)
  BY <1>6, <1>7, <1>10, <1>11 DEF Still, Moved
<1>13. ASSUME NEW xs \in SUBSET Addrs, BansBut(e, xs)
       PROVE  BansBut(f, xs)
  <2> SUFFICES ASSUME NEW m \in Node, AddrOf[m] \notin xs, NEW i \in DOMAIN e.idle[m]
               PROVE  e.idle[m][i] >= StatusOf(f, AddrOf[m]).ban
    BY <1>7 DEF BansBut
  <2>1. AddrOf[m] \in Addr /\ e.idle[m][i] \in Nat
    BY NodesAre, PeerNetAssumption
  <2>2. e.idle[m][i] >= StatusOf(e, AddrOf[m]).ban
    BY <1>13 DEF BansBut
  <2>3. NewStatus.ban = -1
    BY DEF NewStatus
  <2>4. CASE AddrOf[m] \in as
    <3>1. StatusOf(f, AddrOf[m]) = NewStatus
      BY <1>8, <2>1, <2>4
    <3> QED BY <2>1, <2>3, <3>1
  <2>5. CASE AddrOf[m] \notin as
    <3>1. StatusOf(f, AddrOf[m]) = StatusOf(e, AddrOf[m])
      BY <1>8, <2>1, <2>5
    <3> QED BY <2>2, <3>1
  <2> QED BY <2>4, <2>5
<1>14. Steady(e, f)
  BY <1>7, <1>12, <1>13 DEF Steady
<1> QED BY <1>14 DEF f

LEMMA CleanSteady ==
    ASSUME NEW e \in Managers, NEW f \in CleanInactiveAddress(e)
    PROVE  Steady(e, f)
<1>1. f = e \/ \E as \in SUBSET DOMAIN e.status : f = Erase(e, as)
  BY DEF CleanInactiveAddress
<1> QED BY <1>1, EraseSteady, SteadySelf

\* Nothing but the note of the addresses that lost track.
LEMMA LoseIs ==
    ASSUME NEW e \in Managers, NEW as \in SUBSET Addrs
    PROVE  /\ Lose(e, as).uncounted = e.uncounted \cup (as \ {NoAddr})
           /\ Lose(e, as).node = e.node /\ Lose(e, as).idle = e.idle
           /\ Steady(e, Lose(e, as))
<1> DEFINE f == Lose(e, as)
           u == e.uncounted \cup (as \ {NoAddr})
<1>1. u \in SUBSET Addrs /\ e.uncounted \subseteq u
  BY NodesAre
<1>2. f = [e EXCEPT !.uncounted = u]
  BY DEF Lose, Managers
<1> HIDE DEF u
<1>3. /\ f \in Managers /\ f.status = e.status /\ f.uncounted = u /\ f.node = e.node
      /\ f.idle = e.idle /\ f.late = e.late
  BY <1>1, <1>2 DEF Managers
<1> HIDE DEF f
<1>4. \A b \in Addr : StatusOf(f, b) = StatusOf(e, b) /\ StatusOf(e, b).conn \in Int
  BY <1>3, StatusTypes DEF StatusOf, Status, Addrs
<1>5. \A m \in DOMAIN f.node : m \in DOMAIN e.node /\ Len(f.idle[m]) = Len(e.idle[m]) + 0
  BY <1>3, NodesAre
<1>6. Still(e, f)
  BY <1>1, <1>3, <1>4, <1>5 DEF Still, Moved
<1>7. \A xs \in SUBSET Addrs : BansBut(e, xs) => BansBut(f, xs)
  <2>1. \A m \in Node : StatusOf(f, AddrOf[m]) = StatusOf(e, AddrOf[m])
    BY <1>4, PeerNetAssumption
  <2> QED BY <1>3, <2>1 DEF BansBut
<1> QED BY <1>3, <1>6, <1>7 DEF Steady, f, u

LEMMA NoteBanIs ==
    ASSUME NEW e \in Managers, NEW a \in Addrs
    PROVE  /\ Still(e, NoteBan(e, a)) /\ e.late \subseteq NoteBan(e, a).late
           /\ NoteBan(e, a).node = e.node /\ NoteBan(e, a).idle = e.idle
           /\ NoteBan(e, a).status = e.status /\ NoteBan(e, a).uncounted = e.uncounted
           /\ a \in NoteBan(e, a).late \/ StatusOf(e, a).ban <= 0
           /\ \A xs \in SUBSET Addrs : BansBut(e, xs) => BansBut(NoteBan(e, a), xs)
<1> DEFINE f == NoteBan(e, a)
           l == IF StatusOf(e, a).ban > 0 THEN e.late \cup {a} ELSE e.late
<1>1. l \in SUBSET Addrs /\ e.late \subseteq l
  BY NodesAre DEF Addrs
<1>2. f = [e EXCEPT !.late = l]
  BY DEF NoteBan, Managers
<1>2a. a \in l \/ StatusOf(e, a).ban <= 0
  BY StatusTypes DEF Status, Addrs
<1> HIDE DEF l
<1>3. /\ f \in Managers /\ f.status = e.status /\ f.uncounted = e.uncounted /\ f.node = e.node
      /\ f.idle = e.idle /\ f.late = l
  BY <1>1, <1>2 DEF Managers
<1> HIDE DEF f
<1>4. \A b \in Addr : StatusOf(f, b) = StatusOf(e, b) /\ StatusOf(e, b).conn \in Int
  BY <1>3, StatusTypes DEF StatusOf, Status, Addrs
<1>5. \A m \in DOMAIN f.node : m \in DOMAIN e.node /\ Len(f.idle[m]) = Len(e.idle[m]) + 0
  BY <1>3, NodesAre
<1>6. Still(e, f)
  BY <1>3, <1>4, <1>5 DEF Still, Moved
<1>7. \A xs \in SUBSET Addrs : BansBut(e, xs) => BansBut(f, xs)
  <2>1. \A m \in Node : StatusOf(f, AddrOf[m]) = StatusOf(e, AddrOf[m])
    BY <1>4, PeerNetAssumption
  <2> QED BY <1>3, <2>1 DEF BansBut
<1> QED BY <1>1, <1>2a, <1>3, <1>6, <1>7 DEF f

\* A finite set keeps its size under a function that is one to one and onto.
LEMMA OntoFinite ==
    ASSUME NEW X, IsFiniteSet(X), NEW Y, NEW f \in [X -> Y], \A y \in Y : \E x \in X : f[x] = y
    PROVE  /\ IsFiniteSet(Y)
           /\ (\A x, z \in X : f[x] = f[z] => x = z) => Cardinality(Y) = Cardinality(X)
<1>1. f \in Surjection(X, Y)
  BY DEF Surjection
<1>2. (\A x, z \in X : f[x] = f[z] => x = z) => f \in Injection(X, Y)
  BY DEF Injection, IsInjective
<1>3. IsFiniteSet(Y) /\ (Cardinality(Y) = Cardinality(X) <=> f \in Injection(X, Y))
  BY <1>1, FS_Surjection
<1> QED BY <1>2, <1>3

LEMMA IdleCountNat ==
    ASSUME NEW e \in Managers
    PROVE  IdleCount(e) \in Nat
<1> DEFINE E(n) == {n} \X DOMAIN e.idle[n]
           X == {E(n) : n \in Node}
<1>1. ASSUME NEW n \in Node
      PROVE  IsFiniteSet(E(n))
  <2>1. e.idle[n] \in Seq(Nat)
    BY NodesAre
  <2>2. DOMAIN e.idle[n] = 1..Len(e.idle[n]) /\ Len(e.idle[n]) \in Int /\ 1 \in Int
    BY <2>1
  <2>3. IsFiniteSet(DOMAIN e.idle[n])
    BY <2>2, FS_Interval
  <2>4. IsFiniteSet({n})
    BY FS_Singleton
  <2> QED BY <2>3, <2>4, FS_Product
<1> HIDE DEF E
<1> DEFINE f == [n \in Node |-> E(n)]
<1>2. f \in [Node -> X] /\ \A x \in X : \E n \in Node : f[n] = x
  OBVIOUS
<1>3. IsFiniteSet(Node)
  BY PeerNetAssumption
<1> HIDE DEF f
<1>4. IsFiniteSet(X)
  <2> HIDE DEF X
  <2> QED BY <1>2, <1>3, OntoFinite
<1>5. \A x \in X : IsFiniteSet(x)
  BY <1>1
<1>6. IsFiniteSet(UNION X)
  <2> HIDE DEF X
  <2> QED BY <1>4, <1>5, FS_UNION
<1>7. Cardinality(UNION X) \in Nat
  BY <1>6, FS_CardinalityType
<1> QED BY <1>7 DEF IdleCount, E

\* The managers f are e without the first entry of n.
Taken(e, n, f) ==
    /\ f \in Managers /\ f.status = e.status /\ f.node = e.node
    /\ f.late = e.late /\ f.uncounted = e.uncounted
    /\ \A m \in Node :
          /\ Len(f.idle[m]) = Len(e.idle[m]) - (IF m = n THEN 1 ELSE 0)
          /\ \A i \in DOMAIN f.idle[m] : \E j \in DOMAIN e.idle[m] : f.idle[m][i] = e.idle[m][j]

LEMMA EmployTakes ==
    ASSUME NEW e \in Managers, NEW n \in Node, e.idle[n] # <<>>
    PROVE  Taken(e, n, Employ(e, n))
<1> DEFINE f == Employ(e, n)
           p == e.idle[n]
           q == Tail(p)
<1>1. e.idle \in [Node -> Seq(Nat)]
  BY NodesAre
<1>2. p \in Seq(Nat) /\ p # <<>>
  BY <1>1
<1>3. f = [e EXCEPT !.idle = [e.idle EXCEPT ![n] = q]]
  BY DEF Employ, Managers
<1> HIDE DEF p
<1>4. /\ q \in Seq(Nat) /\ Len(q) = Len(p) - 1 /\ Len(p) \in Nat
      /\ \A i \in DOMAIN q : i + 1 \in DOMAIN p /\ q[i] = p[i + 1]
  BY <1>2
<1> HIDE DEF q
<1>5. [e.idle EXCEPT ![n] = q] \in [Node -> Seq(Nat)]
  BY <1>1, <1>4
<1>6. /\ f \in Managers /\ f.status = e.status /\ f.node = e.node /\ f.late = e.late
      /\ f.uncounted = e.uncounted /\ f.idle = [e.idle EXCEPT ![n] = q]
  BY <1>3, <1>5 DEF Managers
<1> HIDE DEF f
<1>7. ASSUME NEW m \in Node
      PROVE  /\ Len(f.idle[m]) = Len(e.idle[m]) - (IF m = n THEN 1 ELSE 0)
             /\ \A i \in DOMAIN f.idle[m] : \E j \in DOMAIN e.idle[m] : f.idle[m][i] = e.idle[m][j]
  <2>1. CASE m = n
    <3>1. f.idle[m] = q /\ e.idle[m] = p
      BY <1>1, <1>6, <2>1 DEF p
    <3> QED BY <1>4, <2>1, <3>1
  <2>2. CASE m # n
    <3>1. f.idle[m] = e.idle[m] /\ Len(e.idle[m]) \in Nat
      BY <1>1, <1>6, <2>2
    <3> QED BY <2>2, <3>1
  <2> QED BY <2>1, <2>2
<1>8. Taken(e, n, f)
  BY <1>6, <1>7 DEF Taken
<1> QED BY <1>8 DEF f

LEMMA TakenMoves ==
    ASSUME NEW e \in Managers, NEW n \in Node, NEW f, Taken(e, n, f)
    PROVE  /\ Moved(e, f, NoAddr, 0, n, -1)
           /\ \A xs \in SUBSET Addrs : BansBut(e, xs) => BansBut(f, xs)
<1>1. /\ f \in Managers /\ f.node = e.node /\ f.uncounted = e.uncounted
      /\ \A b \in Addr : StatusOf(f, b) = StatusOf(e, b) /\ StatusOf(e, b).conn \in Int
  BY StatusTypes DEF StatusOf, Status, Addrs, Taken
<1>2. \A b \in Addr : StatusOf(f, b).conn = StatusOf(e, b).conn + 0
  BY <1>1
<1>3. ASSUME NEW m \in DOMAIN f.node
      PROVE  m \in DOMAIN e.node /\ Len(f.idle[m]) = Len(e.idle[m]) + (IF m = n THEN -1 ELSE 0)
  <2>1. m \in DOMAIN e.node /\ m \in Node /\ Len(e.idle[m]) \in Nat
    BY <1>1, NodesAre
  <2>2. Len(f.idle[m]) = Len(e.idle[m]) - (IF m = n THEN 1 ELSE 0)
    BY <2>1 DEF Taken
  <2>3. CASE m = n
    BY <2>1, <2>2, <2>3
  <2>4. CASE m # n
    BY <2>1, <2>2, <2>4
  <2> QED BY <2>3, <2>4
<1>4. Moved(e, f, NoAddr, 0, n, -1)
  BY <1>1, <1>2, <1>3 DEF Moved
<1>5. ASSUME NEW xs \in SUBSET Addrs, BansBut(e, xs)
      PROVE  BansBut(f, xs)
  <2> SUFFICES ASSUME NEW m \in Node, AddrOf[m] \notin xs, NEW i \in DOMAIN f.idle[m]
               PROVE  f.idle[m][i] >= StatusOf(f, AddrOf[m]).ban
    BY DEF BansBut
  <2>1. PICK j \in DOMAIN e.idle[m] : f.idle[m][i] = e.idle[m][j]
    BY DEF Taken
  <2>2. AddrOf[m] \in Addr
    BY PeerNetAssumption
  <2>3. e.idle[m][j] >= StatusOf(e, AddrOf[m]).ban
    BY <1>5 DEF BansBut
  <2> QED BY <1>1, <2>1, <2>2, <2>3
<1> QED BY <1>4, <1>5

\* A due node whose address keeps its bans is not banned.
LEMMA DueUnbanned ==
    ASSUME NEW e \in Managers, NEW n \in Due(e)
    PROVE  /\ n \in Node /\ e.idle[n] # <<>>
           /\ \A xs : BansBut(e, xs) /\ AddrOf[n] \notin xs => StatusOf(e, AddrOf[n]).ban <= 0
<1>1. n \in Node /\ e.idle[n] # <<>> /\ Head(e.idle[n]) <= 0
  BY DEF Due
<1>2. 1 \in DOMAIN e.idle[n] /\ e.idle[n][1] \in Nat /\ e.idle[n][1] <= 0
  <2>1. e.idle[n] \in Seq(Nat)
    BY <1>1, NodesAre
  <2> QED BY <1>1, <2>1
<1>3. StatusOf(e, AddrOf[n]) \in Status
  BY <1>1, StatusTypes, PeerNetAssumption DEF Addrs
<1>4. ASSUME NEW xs, BansBut(e, xs), AddrOf[n] \notin xs
      PROVE  StatusOf(e, AddrOf[n]).ban <= 0
  <2>1. e.idle[n][1] >= StatusOf(e, AddrOf[n]).ban
    BY <1>1, <1>2, <1>4 DEF BansBut
  <2> QED BY <1>2, <1>3, <2>1 DEF Status
<1> QED BY <1>1, <1>4

LEMMA SkipSteady ==
    ASSUME NEW e \in Managers, NEW g \in Skip(e)
    PROVE  Steady(e, g)
<1>1. PICK n \in Due(e) :
          g \in Dismiss(SetStatus(Employ(e, n), AddrOf[n], StatusOf(e, AddrOf[n])), n, FALSE)
  BY DEF Skip
<1> DEFINE a == AddrOf[n]
           s == StatusOf(e, a)
           f == Employ(e, n)
           h == SetStatus(f, a, s)
<1>2. n \in Node /\ e.idle[n] # <<>> /\ n # NoNode
  BY DueUnbanned, PeerNetAssumption
<1>3. a \in Addrs /\ a \in Addr /\ s \in Status
  BY <1>2, StatusTypes, PeerNetAssumption DEF Addrs
<1>4. Taken(e, n, f)
  BY <1>2, EmployTakes
<1> HIDE DEF f
<1>5. /\ f \in Managers /\ f.late = e.late /\ StatusOf(f, a) = s /\ Moved(e, f, NoAddr, 0, n, -1)
      /\ \A xs \in SUBSET Addrs : BansBut(e, xs) => BansBut(f, xs)
  BY <1>2, <1>4, TakenMoves DEF Taken, StatusOf
<1> HIDE DEF a, s
<1>6. /\ Moved(f, h, a, 0, NoNode, 0)
      /\ \A xs \in SUBSET Addrs : BansBut(f, xs) => BansBut(h, xs)
  <2>1. s.conn = StatusOf(f, a).conn + 0 /\ s.ban <= StatusOf(f, a).ban
    BY <1>3, <1>5 DEF Status
  <2>2. f \in Managers /\ a \in Addrs /\ s \in Status /\ 0 \in Int
    BY <1>3, <1>5
  <2>3. /\ Moved(f, h, a, 0, NoNode, 0)
        /\ \A xs \in SUBSET Addrs :
              BansBut(f, xs) /\ (a \in xs \/ s.ban <= StatusOf(f, a).ban) => BansBut(h, xs)
    BY <2>1, <2>2, SetStatusMoves
  <2> QED BY <2>1, <2>3
<1>7. /\ h \in Managers /\ h.late = e.late /\ StatusOf(h, a) = s
  BY <1>3, <1>5, SetStatusIs
<1>8. g \in Dismiss(h, n, FALSE)
  BY <1>1 DEF a, s, f
<1> HIDE DEF h
<1>9. Still(f, h)
  BY <1>6 DEF Still, Moved
<1>10. Moved(e, h, NoAddr, 0, n, -1)
  BY <1>5, <1>9, ThenStill
<1>11. /\ Moved(h, g, NoAddr, 0, n, 1) /\ g.late = h.late
       /\ \A xs \in SUBSET Addrs :
             /\ BansBut(h, xs)
             /\ n \in Node => AddrOf[n] \in xs \/ StatusOf(h, AddrOf[n]).ban <= 0
             => BansBut(g, xs)
  BY <1>2, <1>7, <1>8, DismissMoves
<1>12. Still(e, g)
  <2>1. ASSUME NEW b \in Addr \ g.uncounted
        PROVE  StatusOf(g, b).conn = StatusOf(e, b).conn + 0
    <3>1. StatusOf(e, b).conn \in Int /\ StatusOf(h, b).conn \in Int
      BY <1>7, StatusTypes DEF Status, Addrs
    <3>2. b \in Addr \ h.uncounted
      BY <1>11 DEF Moved
    <3>3. StatusOf(h, b).conn = StatusOf(e, b).conn
      BY <1>10, <3>1, <3>2 DEF Moved
    <3>4. StatusOf(g, b).conn = StatusOf(h, b).conn
      BY <1>11, <3>1 DEF Moved
    <3> QED BY <3>1, <3>3, <3>4
  <2>2. ASSUME NEW m \in DOMAIN g.node
        PROVE  m \in DOMAIN e.node /\ Len(g.idle[m]) = Len(e.idle[m]) + 0
    <3>1. m \in DOMAIN h.node /\ Len(g.idle[m]) = Len(h.idle[m]) + (IF m = n THEN 1 ELSE 0)
      BY <1>11 DEF Moved
    <3>2. m \in DOMAIN e.node /\ Len(h.idle[m]) = Len(e.idle[m]) + (IF m = n THEN -1 ELSE 0)
      BY <1>10, <3>1 DEF Moved
    <3>3. Len(e.idle[m]) \in Nat
      BY <3>2, NodesAre
    <3>4. CASE m = n
      BY <3>1, <3>2, <3>3, <3>4
    <3>5. CASE m # n
      BY <3>1, <3>2, <3>3, <3>5
    <3> QED BY <3>4, <3>5
  <2> QED BY <1>10, <1>11, <2>1, <2>2 DEF Still, Moved
<1>13. ASSUME NEW xs \in SUBSET Addrs, BansBut(e, xs)
       PROVE  BansBut(g, xs)
  <2>1. AddrOf[n] \in xs \/ StatusOf(h, AddrOf[n]).ban <= 0
    BY <1>7, <1>13, DueUnbanned DEF a, s
  <2> QED BY <1>5, <1>6, <1>11, <1>13, <2>1
<1> QED BY <1>7, <1>11, <1>12, <1>13 DEF Steady

\* A move of the nodes and one of the counts are one move.
LEMMA MovedBoth ==
    ASSUME NEW e \in Managers, NEW f, NEW g, NEW a, NEW d \in Int, NEW n, NEW l \in Int,
           Moved(e, f, NoAddr, 0, n, l), Moved(f, g, a, d, NoNode, 0)
    PROVE  Moved(e, g, a, d, n, l)
<1>1. f \in Managers /\ g \in Managers
  BY DEF Moved
<1>2. ASSUME NEW b \in Addr \ g.uncounted
      PROVE  StatusOf(g, b).conn = StatusOf(e, b).conn + (IF b = a THEN d ELSE 0)
  <2>1. StatusOf(f, b).conn \in Int /\ StatusOf(e, b).conn \in Int
    BY <1>1, StatusTypes DEF Status, Addrs
  <2>2. b \in Addr \ f.uncounted
    BY DEF Moved
  <2>3. StatusOf(f, b).conn = StatusOf(e, b).conn
    BY <2>1, <2>2 DEF Moved
  <2>4. StatusOf(g, b).conn = StatusOf(f, b).conn + (IF b = a THEN d ELSE 0)
    BY DEF Moved
  <2> QED BY <2>3, <2>4
<1>3. ASSUME NEW m \in DOMAIN g.node
      PROVE  /\ m \in DOMAIN e.node
             /\ Len(g.idle[m]) = Len(e.idle[m]) + (IF m = n THEN l ELSE 0)
  <2>1. m \in DOMAIN f.node /\ Len(f.idle[m]) \in Nat
    BY <1>1, NodesAre DEF Moved
  <2>2. Len(g.idle[m]) = Len(f.idle[m])
    BY <2>1 DEF Moved
  <2> QED BY <2>1, <2>2 DEF Moved
<1> QED BY <1>1, <1>2, <1>3 DEF Moved

\* What the loop over the due nodes hands out.
Handed(e, r) ==
    /\ r.e.late = e.late
    /\ \A xs \in SUBSET Addrs : BansBut(e, xs) => BansBut(r.e, xs)
    /\ \/ r.node = NoNode /\ Still(e, r.e)
       \/ /\ r.node \in Node /\ Moved(e, r.e, AddrOf[r.node], 1, r.node, -1)
          /\ AddrOf[r.node] \notin r.e.uncounted => StatusOf(e, AddrOf[r.node]).conn < 1

LEMMA FetchedHands ==
    ASSUME NEW e \in Managers, NEW r \in Fetched(e)
    PROVE  Handed(e, r)
<1>1. CASE r = [node |-> NoNode, e |-> e]
  BY <1>1, SteadySelf DEF Handed, Steady
<1>2. CASE \E n \in Due(e) :
             /\ MayAddConnection(StatusOf(e, AddrOf[n]), FALSE)
             /\ r = [node |-> n, e |-> SetStatus(Employ(e, n), AddrOf[n],
                                           [StatusOf(e, AddrOf[n]) EXCEPT !.conn = @ + 1])]
  <2>1. PICK n \in Due(e) :
             /\ MayAddConnection(StatusOf(e, AddrOf[n]), FALSE)
             /\ r = [node |-> n, e |-> SetStatus(Employ(e, n), AddrOf[n],
                                           [StatusOf(e, AddrOf[n]) EXCEPT !.conn = @ + 1])]
    BY <1>2
  <2> DEFINE a == AddrOf[n]
             s == [StatusOf(e, a) EXCEPT !.conn = @ + 1]
             f == Employ(e, n)
             g == SetStatus(f, a, s)
  <2>2. n \in Node /\ e.idle[n] # <<>> /\ n # NoNode
    BY DueUnbanned, PeerNetAssumption
  <2>3. a \in Addrs /\ a \in Addr /\ StatusOf(e, a) \in Status
    BY <2>2, StatusTypes, PeerNetAssumption DEF Addrs
  <2>4. Taken(e, n, f)
    BY <2>2, EmployTakes
  <2> HIDE DEF f
  <2>5. /\ f \in Managers /\ f.late = e.late /\ Moved(e, f, NoAddr, 0, n, -1)
        /\ \A xs \in SUBSET Addrs : BansBut(e, xs) => BansBut(f, xs)
    BY <2>2, <2>4, TakenMoves DEF Taken
  <2>6. StatusOf(f, a) = StatusOf(e, a)
    BY <2>4 DEF Taken, StatusOf
  <2> HIDE DEF a
  <2>7. /\ s \in Status /\ s.conn = StatusOf(e, a).conn + 1 /\ s.ban = StatusOf(e, a).ban
        /\ s.ban \in Int
    BY <2>3 DEF Status
  <2> HIDE DEF s
  <2>8. /\ Moved(f, g, a, 1, NoNode, 0)
        /\ \A xs \in SUBSET Addrs :
              BansBut(f, xs) /\ (a \in xs \/ s.ban <= StatusOf(f, a).ban) => BansBut(g, xs)
    <3>1. s.conn = StatusOf(f, a).conn + 1 /\ 1 \in Int
      BY <2>6, <2>7
    <3> QED BY <2>3, <2>5, <2>7, <3>1, SetStatusMoves
  <2>9. g.late = e.late
    BY <2>3, <2>5, <2>7, SetStatusIs
  <2> HIDE DEF g
  <2>10. Moved(e, g, a, 1, n, -1)
    BY <2>5, <2>8, MovedBoth
  <2>11. s.ban <= StatusOf(f, a).ban
    BY <2>6, <2>7
  <2>12. r.node = n /\ r.e = g
    BY <2>1 DEF g, s, a, f
  <2>13. StatusOf(e, a).conn < 1
    BY <2>1 DEF MayAddConnection, a
  <2> QED BY <2>2, <2>5, <2>8, <2>9, <2>10, <2>11, <2>12, <2>13 DEF Handed, a
<1> QED BY <1>1, <1>2 DEF Fetched

\* Nodes that are skipped on the way do not show.
LEMMA SteadyHanded ==
    ASSUME NEW e \in Managers, NEW f, NEW r, Steady(e, f), Handed(f, r)
    PROVE  Handed(e, r)
<1>1. f \in Managers /\ Still(e, f) /\ e.uncounted \subseteq f.uncounted
  BY DEF Steady, Still, Moved
<1>2. CASE r.node = NoNode /\ Still(f, r.e)
  <2>1. Still(e, r.e)
    BY <1>1, <1>2, StillTwice
  <2> QED BY <1>2, <2>1 DEF Handed, Steady
<1>3. CASE /\ r.node \in Node /\ Moved(f, r.e, AddrOf[r.node], 1, r.node, -1)
           /\ AddrOf[r.node] \notin r.e.uncounted => StatusOf(f, AddrOf[r.node]).conn < 1
  <2> DEFINE a == AddrOf[r.node]
  <2>1. a \in Addr
    BY <1>3, PeerNetAssumption
  <2> HIDE DEF a
  <2>2. Moved(e, r.e, a, 1, r.node, -1)
    BY <1>1, <1>3, StillThen DEF a
  <2>3. ASSUME a \notin r.e.uncounted
        PROVE  StatusOf(e, a).conn < 1
    <3>1. StatusOf(f, a).conn < 1
      BY <1>3, <2>3 DEF a
    <3>2. a \notin f.uncounted
      BY <1>3, <2>3 DEF Moved
    <3>3. StatusOf(e, a).conn \in Int
      BY <2>1, StatusTypes DEF Status, Addrs
    <3>4. StatusOf(f, a).conn = StatusOf(e, a).conn + (IF a = NoAddr THEN 0 ELSE 0)
      BY <1>1, <2>1, <3>2 DEF Still, Moved
    <3> QED BY <3>1, <3>3, <3>4
  <2> QED BY <1>3, <2>2, <2>3 DEF Handed, Steady, a
<1> QED BY <1>2, <1>3 DEF Handed

LEMMA FetchHands ==
    ASSUME NEW e \in Managers, NEW r \in FetchOutBound(e)
    PROVE  Handed(e, r)
<1> DEFINE N == IdleCount(e)
           G == {f \in Managers : Steady(e, f)}
           E == SUBSET G
           A == {e}
           step(X) == UNION {Skip(f) : f \in X}
           S == [X \in E |-> step(X)]
           q == CHOOSE q : q = [k \in 0..N |-> IF k = 0 THEN A ELSE step(q[k - 1])]
<1>1. A \in E
  BY SteadySelf
<1>2. ASSUME NEW f \in G, NEW g \in Skip(f)
      PROVE  g \in G
  <2>1. Steady(f, g) /\ Steady(e, f)
    BY SkipSteady
  <2> QED BY <2>1, SteadyTwice DEF Steady, Still, Moved
<1>3. \A X \in E : step(X) \in E
  BY <1>2
<1> HIDE DEF G, E, A, step
<1>4. S \in [E -> E]
  BY <1>3
<1> HIDE DEF S
<1>5. N \in Nat
  BY IdleCountNat
<1> HIDE DEF N
<1>6. Iterated(E, A, S, N)
  BY <1>1, <1>4, <1>5, Iterates
<1>7. PICK f \in [0..N -> E] : \A k \in 0..N : f[k] = IF k = 0 THEN A ELSE S[f[k - 1]]
  BY <1>6 DEF Iterated
<1>8. f = [k \in 0..N |-> IF k = 0 THEN A ELSE step(f[k - 1])]
  <2>1. ASSUME NEW k \in 0..N, k # 0
        PROVE  f[k] = step(f[k - 1])
    <3>1. k - 1 \in 0..N /\ f[k - 1] \in E
      BY <1>5, <2>1
    <3> QED BY <1>7, <2>1, <3>1 DEF S
  <2> QED BY <1>7, <2>1
<1>9. q = [k \in 0..N |-> IF k = 0 THEN A ELSE step(q[k - 1])]
  BY <1>8
<1> HIDE DEF q
<1> DEFINE D == {k \in 0..N : q[k] \in E}
<1>10. 0 \in D
  BY <1>1, <1>5, <1>9
<1>11. \A k \in 1..N : k - 1 \in D => k \in D
  BY <1>3, <1>5, <1>9
<1> HIDE DEF D
<1>12. \A k \in 0..N : k \in D
  BY <1>5, <1>10, <1>11, UpTo
<1>13. FetchOutBound(e) = UNION {UNION {Fetched(g) : g \in q[k]} : k \in 0..N}
  BY DEF FetchOutBound, q, step, A, N
<1>14. PICK k \in 0..N : \E g \in q[k] : r \in Fetched(g)
  BY <1>13
<1>15. PICK g \in q[k] : r \in Fetched(g)
  BY <1>14
<1>16. g \in Managers /\ Steady(e, g)
  BY <1>12 DEF D, E, G
<1> QED BY <1>15, <1>16, FetchedHands, SteadyHanded

\* A closed endpoint gives its connection and its node back, and its ban is told.
LEMMA CloseMoves ==
    ASSUME NEW e \in Managers, NEW a \in Addrs, NEW n \in Node \cup {NoNode},
           n \in Node => AddrOf[n] = a,
           NEW reason \in Reasons \cup {"CONNECT_FAILURE"},
           NEW g \in CloseEndpoint(e, [addr |-> a, node |-> n], reason)
    PROVE  Moved(e, g, a, -1, n, 1) /\ (BansBut(e, e.late) => BansBut(g, g.late))
<1> DEFINE s == Penalize(StatusOf(e, a), Lost[reason])
           z == [s EXCEPT !.conn = @ - 1]
<1>1. PICK f \in Dismiss(e, n, reason = "NETWORK_ERROR") :
          g \in CleanInactiveAddress(IF s.ban > 0 THEN Ban(SetStatus(f, a, z), a, s.ban)
                                                  ELSE SetStatus(f, a, z))
  BY DEF CloseEndpoint
<1> DEFINE h == Punished(f, a, z)
<1>2. /\ Moved(e, f, NoAddr, 0, n, 1) /\ f.late = e.late
      /\ \A xs \in SUBSET Addrs :
            /\ BansBut(e, xs)
            /\ n \in Node => AddrOf[n] \in xs \/ StatusOf(e, AddrOf[n]).ban <= 0
            => BansBut(f, xs)
  <2>1. (reason = "NETWORK_ERROR") \in BOOLEAN
    OBVIOUS
  <2> QED BY <1>1, <2>1, DismissMoves
<1>3. s \in Status /\ s.conn = StatusOf(e, a).conn
  <2>1. StatusOf(e, a) \in Status /\ Lost[reason] \in Nat
    BY StatusTypes, PeerNetAssumption
  <2> QED BY <2>1, PenalizeIs
<1> HIDE DEF s
<1>4. z \in Status /\ z.ban = s.ban /\ z.conn = StatusOf(e, a).conn - 1
  BY <1>3 DEF Status
<1>5. g \in CleanInactiveAddress(h)
  BY <1>1, <1>4 DEF Punished
<1> HIDE DEF z
<1>6. f \in Managers /\ -1 \in Int
  BY <1>2 DEF Moved
<1>7. a \in Addr \ f.uncounted => z.conn = StatusOf(f, a).conn + (-1)
  <2>1. ASSUME a \in Addr \ f.uncounted
        PROVE  z.conn = StatusOf(f, a).conn + (-1)
    <3>1. StatusOf(f, a).conn = StatusOf(e, a).conn + (IF a = NoAddr THEN 0 ELSE 0)
      BY <1>2, <2>1 DEF Moved
    <3>2. StatusOf(e, a).conn \in Int
      BY StatusTypes DEF Status
    <3> QED BY <1>4, <3>1, <3>2
  <2> QED BY <2>1
<1>8. Moved(f, h, a, -1, NoNode, 0) /\ (BansBut(f, f.late \cup {a}) => BansBut(h, h.late))
  BY <1>4, <1>6, <1>7, PunishedMoves
<1> HIDE DEF h
<1>9. h \in Managers
  BY <1>8 DEF Moved
<1>10. Steady(h, g)
  BY <1>5, <1>9, CleanSteady
<1>11. Moved(e, h, a, -1, n, 1)
  BY <1>2, <1>6, <1>8, MovedBoth
<1>12. Moved(e, g, a, -1, n, 1)
  BY <1>6, <1>10, <1>11, ThenStill DEF Steady
<1>13. ASSUME BansBut(e, e.late)
       PROVE  BansBut(g, g.late)
  <2>1. BansBut(e, e.late \cup {a}) /\ e.late \cup {a} \in SUBSET Addrs
    BY <1>13, NodesAre DEF BansBut
  <2>2. BansBut(f, f.late \cup {a})
    BY <1>2, <2>1
  <2>3. BansBut(h, h.late) /\ h.late \in SUBSET Addrs
    BY <1>8, <1>9, <2>2, NodesAre
  <2> QED BY <1>10, <2>3 DEF Steady
<1> QED BY <1>12, <1>13

LEMMA RewardSteady ==
    ASSUME NEW e \in Managers, NEW a \in Addrs, NEW g \in RewardEndpoint(e, a, 1)
    PROVE  Steady(e, g)
<1> DEFINE s == Reward(StatusOf(e, a), 1)
           f == SetStatus(e, a, s)
<1>1. s \in Status /\ s.conn = StatusOf(e, a).conn + 0 /\ s.ban <= StatusOf(e, a).ban
  <2>1. StatusOf(e, a) \in Status
    BY StatusTypes
  <2>2. s \in Status /\ s.conn = StatusOf(e, a).conn /\ s.ban = StatusOf(e, a).ban
    BY <2>1, RewardIs
  <2> QED BY <2>1, <2>2 DEF Status
<1> HIDE DEF s
<1>2. /\ Moved(e, f, a, 0, NoNode, 0)
      /\ \A xs \in SUBSET Addrs :
            BansBut(e, xs) /\ (a \in xs \/ s.ban <= StatusOf(e, a).ban) => BansBut(f, xs)
  <2>1. 0 \in Int
    OBVIOUS
  <2> QED BY <1>1, <2>1, SetStatusMoves
<1>3. f.late = e.late
  BY <1>1, SetStatusIs
<1>4. g \in CleanInactiveAddress(f)
  BY DEF RewardEndpoint, s
<1> HIDE DEF f
<1>5. Steady(e, f)
  BY <1>1, <1>2, <1>3 DEF Steady, Still, Moved
<1>6. Steady(f, g)
  BY <1>4, <1>5, CleanSteady DEF Steady, Still, Moved
<1> QED BY <1>5, <1>6, SteadyTwice

LEMMA RemoveSteady ==
    ASSUME NEW e \in Managers, NEW n \in Node
    PROVE  Steady(e, Remove(e, n))
<1>1. CASE n \notin DOMAIN e.node
  BY <1>1, SteadySelf DEF Remove
<1>2. CASE n \in DOMAIN e.node
  <2> DEFINE p == e.idle[n]
             q == IF p = <<>> THEN p ELSE Tail(p)
             w == Without(e.node, {n})
             f == Remove(e, n)
  <2>1. e.idle \in [Node -> Seq(Nat)] /\ p \in Seq(Nat)
    BY NodesAre
  <2>2. w \in Partial(Node, Nat) /\ DOMAIN w = DOMAIN e.node \ {n}
    <3>1. w \in Partial(Node, Nat)
      BY NodesAre, WithoutIs
    <3> QED BY <3>1 DEF Without
  <2>3. f = [e EXCEPT !.node = w, !.idle = [e.idle EXCEPT ![n] = q]]
    BY <1>2 DEF Remove, Managers
  <2> HIDE DEF p, w
  <2>4. q \in Seq(Nat) /\ \A i \in DOMAIN q : \E j \in DOMAIN p : q[i] = p[j]
    <3>1. CASE p = <<>>
      BY <2>1, <3>1
    <3>2. CASE p # <<>>
      <4>1. Tail(p) \in Seq(Nat) /\ \A i \in DOMAIN Tail(p) : i + 1 \in DOMAIN p /\ Tail(p)[i] = p[i + 1]
        BY <2>1, <3>2
      <4> QED BY <3>2, <4>1
    <3> QED BY <3>1, <3>2
  <2> HIDE DEF q
  <2>5. [e.idle EXCEPT ![n] = q] \in [Node -> Seq(Nat)]
    BY <2>1, <2>4
  <2>6. /\ f \in Managers /\ f.status = e.status /\ f.uncounted = e.uncounted /\ f.late = e.late
        /\ f.node = w /\ f.idle = [e.idle EXCEPT ![n] = q]
    BY <2>2, <2>3, <2>5 DEF Managers
  <2> HIDE DEF f
  <2>7. \A m \in Node : m # n => f.idle[m] = e.idle[m]
    BY <2>1, <2>6
  <2>8. f.idle[n] = q
    BY <2>1, <2>6
  <2>9. \A m \in DOMAIN f.node : m \in DOMAIN e.node /\ Len(f.idle[m]) = Len(e.idle[m])
    BY <2>2, <2>6, <2>7, NodesAre
  <2>10. \A m \in Node : \A i \in DOMAIN f.idle[m] :
             \E j \in DOMAIN e.idle[m] : f.idle[m][i] = e.idle[m][j]
    BY <2>4, <2>7, <2>8 DEF p
  <2>11. Steady(e, f)
    BY <2>6, <2>9, <2>10, NodesSteady
  <2> QED BY <2>11 DEF f
<1> QED BY <1>1, <1>2

LEMMA SetBanMoves ==
    ASSUME NEW e \in Managers, NEW a \in Addr, NEW t \in Int,
           NEW g, g = Ban(SetStatus(e, a, [StatusOf(e, a) EXCEPT !.ban = t]), a, t)
    PROVE  Still(e, g) /\ (BansBut(e, e.late) => BansBut(g, g.late))
<1> DEFINE s == [StatusOf(e, a) EXCEPT !.ban = t]
           f == SetStatus(e, a, s)
<1>1. s \in Status /\ s.ban = t /\ s.conn = StatusOf(e, a).conn + 0 /\ a \in Addrs
  BY StatusTypes DEF Status, Addrs
<1> HIDE DEF s
<1>2. /\ Moved(e, f, a, 0, NoNode, 0)
      /\ \A xs \in SUBSET Addrs :
            BansBut(e, xs) /\ (a \in xs \/ s.ban <= StatusOf(e, a).ban) => BansBut(f, xs)
  <2>1. 0 \in Int
    OBVIOUS
  <2> QED BY <1>1, <2>1, SetStatusMoves
<1>3. f \in Managers /\ f.late = e.late /\ StatusOf(f, a) = s
  BY <1>1, SetStatusIs
<1>3a. g = Ban(f, a, t)
  BY DEF s
<1> HIDE DEF f
<1>4. /\ Still(f, g) /\ g.late = f.late \ {a}
      /\ \A xs \in SUBSET Addrs :
            BansBut(f, xs) /\ (a \in Addr => StatusOf(f, a).ban <= t) => BansBut(g, xs \ {a})
  <2>1. f \in Managers /\ a \in Addrs /\ t \in Int
    BY <1>1, <1>3
  <2>2. /\ Still(f, Ban(f, a, t)) /\ Ban(f, a, t).late = f.late \ {a}
        /\ \A xs \in SUBSET Addrs :
              BansBut(f, xs) /\ (a \in Addr => StatusOf(f, a).ban <= t)
                  => BansBut(Ban(f, a, t), xs \ {a})
    BY <2>1, BanMoves
  <2> QED BY <2>2, <1>3a
<1>5. Still(e, f)
  BY <1>2 DEF Still, Moved
<1>6. ASSUME BansBut(e, e.late)
      PROVE  BansBut(g, g.late)
  <2>1. BansBut(e, e.late \cup {a}) /\ e.late \cup {a} \in SUBSET Addrs
    BY <1>1, <1>6, NodesAre DEF BansBut
  <2>2. BansBut(f, e.late \cup {a}) /\ StatusOf(f, a).ban <= t
    BY <1>1, <1>2, <1>3, <2>1
  <2>3. BansBut(g, (e.late \cup {a}) \ {a})
    BY <1>4, <2>1, <2>2
  <2>4. (e.late \cup {a}) \ {a} = g.late
    BY <1>3, <1>4
  <2> QED BY <2>3, <2>4
<1> QED BY <1>4, <1>5, <1>6, StillTwice

\* An inbound connection is counted when it is let in, which the limit allows.
LEMMA AcceptMoves ==
    ASSUME NEW e \in Managers, NEW a \in Addrs, NEW fTooOften \in BOOLEAN,
           NEW r, r = AcceptInBound(e, a, fTooOften)
    PROVE  /\ BansBut(e, e.late) => BansBut(r.e, r.e.late)
           /\ r.ok => /\ Moved(e, r.e, a, 1, NoNode, 0)
                      /\ StatusOf(e, a).conn < CONNECTION_LIMIT
           /\ ~ r.ok => Still(e, r.e)
<1>0. StatusOf(e, a) \in Status /\ e.late \in SUBSET Addrs
  BY StatusTypes, NodesAre
<1>1. CASE fTooOften
  <2> DEFINE s == Penalize(StatusOf(e, a), ATTEMPT_PENALTY)
             f == SetStatus(e, a, s)
             g == NoteBan(f, a)
  <2>1. s \in Status /\ s.conn = StatusOf(e, a).conn + 0
    <3>1. s \in Status /\ s.conn = StatusOf(e, a).conn
      BY <1>0, PenalizeIs, PeerNetAssumption
    <3> QED BY <1>0, <3>1 DEF Status
  <2> HIDE DEF s
  <2>2. /\ Moved(e, f, a, 0, NoNode, 0)
        /\ \A xs \in SUBSET Addrs :
              BansBut(e, xs) /\ (a \in xs \/ s.ban <= StatusOf(e, a).ban) => BansBut(f, xs)
    <3>1. 0 \in Int
      OBVIOUS
    <3> QED BY <2>1, <3>1, SetStatusMoves
  <2>3. f \in Managers /\ f.late = e.late
    BY <2>1, SetStatusIs
  <2>3a. ~ r.ok /\ r.e = g
    BY <1>1 DEF AcceptInBound, InBoundAttempt, MayAttempt, s
  <2> HIDE DEF f
  <2>4. /\ Still(f, g) /\ f.late \subseteq g.late
        /\ a \in g.late \/ StatusOf(f, a).ban <= 0
        /\ \A xs \in SUBSET Addrs : BansBut(f, xs) => BansBut(g, xs)
        /\ g.idle = f.idle /\ g.status = f.status
    BY <2>3, NoteBanIs
  <2> HIDE DEF g
  <2>5. Still(e, f)
    BY <2>2 DEF Still, Moved
  <2>6. Still(e, g)
    BY <2>4, <2>5, StillTwice
  <2>7. ASSUME BansBut(e, e.late)
        PROVE  BansBut(g, g.late)
    <3>1. BansBut(e, e.late \cup {a}) /\ e.late \cup {a} \in SUBSET Addrs
      BY <1>0, <2>7 DEF BansBut
    <3>2. BansBut(g, e.late \cup {a})
      BY <2>2, <2>4, <3>1
    <3> SUFFICES ASSUME NEW m \in Node, AddrOf[m] \notin g.late, NEW i \in DOMAIN g.idle[m]
                 PROVE  g.idle[m][i] >= StatusOf(g, AddrOf[m]).ban
      BY DEF BansBut
    <3>3. CASE AddrOf[m] = a
      <4>1. StatusOf(g, a).ban <= 0 /\ StatusOf(g, a) \in Status
        BY <2>3, <2>4, <3>3, StatusTypes DEF StatusOf, Still, Moved
      <4>2. g.idle[m][i] \in Nat
        BY <2>3, <2>4, NodesAre
      <4> QED BY <3>3, <4>1, <4>2 DEF Status
    <3>4. CASE AddrOf[m] # a
      BY <2>3, <2>4, <3>2, <3>4 DEF BansBut
    <3> QED BY <3>3, <3>4
  <2> QED BY <2>3a, <2>6, <2>7
<1>2. CASE ~ fTooOften
  <2> DEFINE s == StatusOf(e, a)
             z == IF r.ok THEN [s EXCEPT !.conn = @ + 1] ELSE s
             d == IF r.ok THEN 1 ELSE 0
             f == SetStatus(e, a, z)
  <2>1. /\ r.ok \in BOOLEAN /\ r.e = f
        /\ r.ok => s.conn < CONNECTION_LIMIT
    BY <1>2 DEF AcceptInBound, InBoundAttempt, MayAttempt, MayAddConnection
  <2>2. /\ z \in Status /\ z.conn = StatusOf(e, a).conn + d /\ z.ban <= StatusOf(e, a).ban
        /\ d \in Int
    BY <1>0, <2>1 DEF Status
  <2>3. /\ Moved(e, f, a, d, NoNode, 0)
        /\ \A xs \in SUBSET Addrs :
              BansBut(e, xs) /\ (a \in xs \/ z.ban <= StatusOf(e, a).ban) => BansBut(f, xs)
    <3> HIDE DEF z, d
    <3> QED BY <2>2, SetStatusMoves
  <2>4. f.late = e.late
    <3> HIDE DEF z
    <3> QED BY <2>2, SetStatusIs
  <2>5. z.ban <= StatusOf(e, a).ban
    BY <2>2
  <2> HIDE DEF f, z
  <2>6. ~ r.ok => Still(e, f)
    BY <2>3 DEF Still, Moved
  <2>7. r.ok => Moved(e, f, a, 1, NoNode, 0)
    BY <2>3
  <2> QED BY <1>0, <2>1, <2>3, <2>4, <2>5, <2>6, <2>7
<1> QED BY <1>1, <1>2

\* The managers g are e with the node n, which has one more entry.
Added(e, g, n) ==
    /\ g \in Managers /\ e.uncounted \subseteq g.uncounted
    /\ \A b \in Addr \ g.uncounted : StatusOf(g, b).conn = StatusOf(e, b).conn
    /\ \A m \in DOMAIN g.node :
           /\ m = n \/ m \in DOMAIN e.node
           /\ Len(g.idle[m]) = Len(e.idle[m]) + (IF m = n THEN 1 ELSE 0)

\* A new node is due at once: if its address is banned, that is noted.
LEMMA AddNewIs ==
    ASSUME NEW e \in Managers, NEW n \in Node, n \notin DOMAIN e.node, NEW g \in AddNew(e, n)
    PROVE  Added(e, g, n) /\ (BansBut(e, e.late) => BansBut(g, g.late))
<1> DEFINE a == AddrOf[n]
           x == NoteBan(e, a)
           w == With(x.node, n, 0)
           f == [x EXCEPT !.node = w]
           h == SetIdle(f, n, 0)
<1>1. a \in Addrs /\ 0 \in Nat
  BY PeerNetAssumption DEF Addrs
<1>2. g \in Bounded(h)
  BY DEF AddNew
<1>3. /\ Still(e, x) /\ e.late \subseteq x.late
      /\ x.node = e.node /\ x.idle = e.idle /\ x.status = e.status /\ x.uncounted = e.uncounted
      /\ a \in x.late \/ StatusOf(e, a).ban <= 0
      /\ \A xs \in SUBSET Addrs : BansBut(e, xs) => BansBut(x, xs)
  <2> HIDE DEF a
  <2> QED BY <1>1, NoteBanIs
<1> HIDE DEF a
<1>4. x \in Managers
  BY <1>3 DEF Still, Moved
<1> HIDE DEF x
<1>5. w \in Partial(Node, Nat) /\ DOMAIN w = DOMAIN e.node \cup {n}
  <2>1. x.node \in Partial(Node, Nat)
    BY <1>4, NodesAre
  <2>2. w \in Partial(Node, Nat)
    BY <1>1, <2>1, WithIs
  <2>3. DOMAIN w = DOMAIN x.node \cup {n}
    BY DEF With
  <2> QED BY <1>3, <2>2, <2>3
<1> HIDE DEF w
<1>6. /\ f \in Managers /\ f.status = e.status /\ f.idle = e.idle /\ f.uncounted = e.uncounted
      /\ f.late = x.late /\ f.node = w
  BY <1>3, <1>4, <1>5 DEF Managers
<1> HIDE DEF f
<1>7. Waits(f, n, 0, h)
  BY <1>1, <1>6, SetIdleIs
<1> HIDE DEF h
<1>8. /\ h \in Managers /\ h.status = e.status /\ h.node = w /\ h.late = x.late
      /\ h.uncounted = e.uncounted
  BY <1>6, <1>7 DEF Waits
<1>9. ASSUME NEW m \in Node
      PROVE  /\ Len(h.idle[m]) = Len(e.idle[m]) + (IF m = n THEN 1 ELSE 0)
             /\ \A i \in DOMAIN h.idle[m] :
                   \/ m = n /\ h.idle[m][i] = 0
                   \/ \E j \in DOMAIN e.idle[m] : h.idle[m][i] = e.idle[m][j]
  <2>1. f.idle[m] = e.idle[m]
    BY <1>6
  <2>2. Len(h.idle[m]) = Len(f.idle[m]) + (IF m = n THEN 1 ELSE 0)
    BY <1>7 DEF Waits
  <2>3. \A i \in DOMAIN h.idle[m] :
            \/ m = n /\ h.idle[m][i] = 0
            \/ \E j \in DOMAIN f.idle[m] : h.idle[m][i] = f.idle[m][j]
    BY <1>7 DEF Waits
  <2> QED BY <2>1, <2>2, <2>3
<1>10. Steady(h, g)
  BY <1>2, <1>8, TrimSteady
<1>11. \A b \in Addr : StatusOf(h, b) = StatusOf(e, b) /\ StatusOf(e, b) \in Status
  BY <1>8, StatusTypes DEF StatusOf, Addrs
<1>12. Added(e, g, n)
  <2>1. g \in Managers /\ h.uncounted \subseteq g.uncounted
    BY <1>10 DEF Steady, Still, Moved
  <2>2. \A b \in Addr \ g.uncounted : StatusOf(g, b).conn = StatusOf(h, b).conn + 0
    BY <1>10, PeerNetAssumption DEF Steady, Still, Moved
  <2>3. \A b \in Addr \ g.uncounted : StatusOf(g, b).conn = StatusOf(e, b).conn
    BY <1>11, <2>2 DEF Status
  <2>4. ASSUME NEW m \in DOMAIN g.node
        PROVE  /\ m = n \/ m \in DOMAIN e.node
               /\ Len(g.idle[m]) = Len(e.idle[m]) + (IF m = n THEN 1 ELSE 0)
    <3>1. m \in DOMAIN h.node /\ Len(g.idle[m]) = Len(h.idle[m]) + (IF m = NoNode THEN 0 ELSE 0)
      BY <1>10 DEF Steady, Still, Moved
    <3>2. m \in Node /\ (m = n \/ m \in DOMAIN e.node) /\ Len(h.idle[m]) \in Nat
      BY <1>5, <1>8, <3>1, NodesAre
    <3>3. Len(g.idle[m]) = Len(h.idle[m])
      BY <3>1, <3>2
    <3> QED BY <1>9, <3>2, <3>3
  <2> QED BY <1>8, <2>1, <2>3, <2>4 DEF Added
<1>13. ASSUME BansBut(e, e.late)
       PROVE  BansBut(g, g.late)
  <2>1. BansBut(h, h.late)
    <3> SUFFICES ASSUME NEW m \in Node, AddrOf[m] \notin h.late, NEW i \in DOMAIN h.idle[m]
                 PROVE  h.idle[m][i] >= StatusOf(h, AddrOf[m]).ban
      BY DEF BansBut
    <3>1. AddrOf[m] \in Addr /\ AddrOf[m] \notin e.late
      BY <1>3, <1>8, PeerNetAssumption
    <3>2. CASE m = n /\ h.idle[m][i] = 0
      <4>1. StatusOf(h, AddrOf[m]).ban <= 0 /\ StatusOf(h, AddrOf[m]).ban \in Int
        BY <1>3, <1>8, <1>11, <3>1, <3>2 DEF a, Status
      <4> QED BY <3>2, <4>1
    <3>3. CASE \E j \in DOMAIN e.idle[m] : h.idle[m][i] = e.idle[m][j]
      BY <1>11, <1>13, <3>1, <3>3 DEF BansBut
    <3> QED BY <1>9, <3>2, <3>3
  <2>2. h.late \in SUBSET Addrs /\ g.late = h.late
    BY <1>8, <1>10, NodesAre DEF Steady
  <2> QED BY <1>10, <2>1, <2>2 DEF Steady
<1> QED BY <1>12, <1>13

\* Time passes for the bans and the idle nodes alike.
LEMMA TickSteady ==
    ASSUME NEW e \in Managers, NEW g,
           g = [e EXCEPT
                  !.status = [a \in DOMAIN @ |-> OneTickOn(@[a])],
                  !.idle = [n \in Node |-> [i \in DOMAIN @[n] |-> Max({@[n][i] - 1, 0})]]]
    PROVE  Steady(e, g)
<1> DEFINE status == [a \in DOMAIN e.status |-> OneTickOn(e.status[a])]
           told(n) == [i \in DOMAIN e.idle[n] |-> Max({e.idle[n][i] - 1, 0})]
           idle == [n \in Node |-> told(n)]
<1>1. /\ e.idle \in [Node -> Seq(Nat)]
      /\ DOMAIN e.status \subseteq Addrs /\ \A a \in DOMAIN e.status : e.status[a] \in Status
  BY NodesAre, PartialIs
<1>2. g = [e EXCEPT !.status = status, !.idle = idle]
  BY DEF Managers
<1>3. ASSUME NEW a \in DOMAIN e.status
      PROVE  /\ status[a] \in Status /\ status[a].conn = e.status[a].conn
             /\ status[a].ban = IF e.status[a].ban >= 0 THEN e.status[a].ban - 1 ELSE -1
  <2> DEFINE s == e.status[a]
             b == Max({s.ban - 1, -1})
  <2>1. s \in Status /\ s.ban - 1 \in Int /\ -1 \in Int
    BY <1>1 DEF Status
  <2>2. b = IF s.ban - 1 >= -1 THEN s.ban - 1 ELSE -1
    <3> HIDE DEF s
    <3> QED BY <2>1, MaxOfTwo
  <2>3. status[a] = [s EXCEPT !.ban = b]
    BY DEF OneTickOn
  <2> HIDE DEF b
  <2>4. b \in Int
    BY <2>1, <2>2
  <2>5. s.ban \in Int /\ status[a] \in Status /\ status[a].conn = s.conn /\ status[a].ban = b
    <3> HIDE DEF s, status
    <3> QED BY <2>1, <2>3, <2>4 DEF Status
  <2>6. b = IF s.ban >= 0 THEN s.ban - 1 ELSE -1
    <3> HIDE DEF s
    <3> QED BY <2>2, <2>5
  <2> QED BY <2>5, <2>6
<1>4. ASSUME NEW n \in Node
      PROVE  /\ told(n) \in Seq(Nat) /\ Len(told(n)) = Len(e.idle[n])
             /\ \A i \in DOMAIN e.idle[n] :
                   told(n)[i] = IF e.idle[n][i] >= 1 THEN e.idle[n][i] - 1 ELSE 0
  <2> DEFINE q == e.idle[n]
             r == [i \in DOMAIN q |-> Max({q[i] - 1, 0})]
  <2>1. q \in Seq(Nat)
    BY <1>1
  <2>2. told(n) = r
    OBVIOUS
  <2> HIDE DEF q
  <2>3. DOMAIN q = 1..Len(q) /\ Len(q) \in Nat /\ \A i \in DOMAIN q : q[i] \in Nat
    BY <2>1
  <2>4. 0 \in Int /\ \A i \in DOMAIN q : q[i] - 1 \in Int
    BY <2>3
  <2>5. \A i \in DOMAIN q : Max({q[i] - 1, 0}) = IF q[i] - 1 >= 0 THEN q[i] - 1 ELSE 0
    BY <2>4, MaxOfTwo
  <2>6. \A i \in DOMAIN q : r[i] \in Nat /\ r[i] = IF q[i] >= 1 THEN q[i] - 1 ELSE 0
    BY <2>3, <2>5
  <2>7. DOMAIN r = DOMAIN q
    OBVIOUS
  <2>8. r = [i \in DOMAIN r |-> r[i]]
    OBVIOUS
  <2> HIDE DEF r
  <2>9. r \in [1..Len(q) -> Nat]
    BY <2>3, <2>6, <2>7, <2>8
  <2>10. r \in Seq(Nat) /\ Len(r) = Len(q)
    BY <2>3, <2>9
  <2> QED BY <2>2, <2>6, <2>10 DEF q
<1> HIDE DEF told
<1>5. idle \in [Node -> Seq(Nat)]
  BY <1>4
<1>6. status \in Partial(Addrs, Status) /\ DOMAIN status = DOMAIN e.status
  <2>1. DOMAIN status = DOMAIN e.status /\ status = [a \in DOMAIN status |-> status[a]]
    OBVIOUS
  <2>2. \A a \in DOMAIN status : status[a] \in Status
    BY <1>3, <2>1
  <2> HIDE DEF status
  <2> QED BY <1>1, <2>1, <2>2, PartialIs
<1>7. \A n \in Node : idle[n] = told(n)
  OBVIOUS
<1> HIDE DEF idle, status
<1>8. /\ g \in Managers /\ g.status = status /\ g.idle = idle /\ g.node = e.node
      /\ g.late = e.late /\ g.uncounted = e.uncounted
  BY <1>2, <1>5, <1>6 DEF Managers
<1>9. ASSUME NEW b \in Addr
      PROVE  /\ StatusOf(g, b).conn = StatusOf(e, b).conn + 0
             /\ StatusOf(g, b).ban = IF StatusOf(e, b).ban >= 0 THEN StatusOf(e, b).ban - 1 ELSE -1
  <2>1. CASE b \in DOMAIN e.status
    <3>1. StatusOf(g, b) = status[b] /\ StatusOf(e, b) = e.status[b]
      BY <1>6, <1>8, <2>1 DEF StatusOf
    <3>2. /\ e.status[b].conn \in Int /\ status[b].conn = e.status[b].conn
          /\ status[b].ban = IF e.status[b].ban >= 0 THEN e.status[b].ban - 1 ELSE -1
      BY <1>1, <1>3, <2>1 DEF Status
    <3>3. status[b].conn = e.status[b].conn + 0
      BY <3>2
    <3> QED BY <3>1, <3>2, <3>3
  <2>2. CASE b \notin DOMAIN e.status
    <3>1. StatusOf(g, b) = NewStatus /\ StatusOf(e, b) = NewStatus
      BY <1>6, <1>8, <2>2 DEF StatusOf
    <3>2. NewStatus.conn = 0 /\ NewStatus.ban = -1
      BY DEF NewStatus
    <3>3. /\ StatusOf(g, b).conn = 0 /\ StatusOf(e, b).conn = 0
          /\ StatusOf(g, b).ban = -1 /\ StatusOf(e, b).ban = -1
      BY <3>1, <3>2
    <3> QED BY <3>3
  <2> QED BY <2>1, <2>2
<1>10. ASSUME NEW n \in DOMAIN g.node
       PROVE  n \in DOMAIN e.node /\ Len(g.idle[n]) = Len(e.idle[n]) + 0
  <2>1. n \in DOMAIN e.node /\ n \in Node
    BY <1>8, NodesAre
  <2>1a. Len(e.idle[n]) \in Nat
    BY <1>1, <2>1
  <2>2. Len(g.idle[n]) = Len(e.idle[n])
    BY <1>4, <1>7, <1>8, <2>1, SMTT(30)
  <2> QED BY <2>1, <2>1a, <2>2
<1>11. Still(e, g)
  BY <1>8, <1>9, <1>10 DEF Still, Moved
<1>12. ASSUME NEW xs \in SUBSET Addrs, BansBut(e, xs)
       PROVE  BansBut(g, xs)
  <2> SUFFICES ASSUME NEW m \in Node, AddrOf[m] \notin xs, NEW i \in DOMAIN idle[m]
               PROVE  idle[m][i] >= StatusOf(g, AddrOf[m]).ban
    BY <1>8 DEF BansBut
  <2>1. AddrOf[m] \in Addr /\ StatusOf(e, AddrOf[m]) \in Status
    BY StatusTypes, PeerNetAssumption DEF Addrs
  <2>2. i \in DOMAIN e.idle[m] /\ e.idle[m][i] \in Nat
    BY <1>1, <1>4, <1>7
  <2>3. idle[m][i] = IF e.idle[m][i] >= 1 THEN e.idle[m][i] - 1 ELSE 0
    BY <1>4, <1>7, <2>2
  <2>4. e.idle[m][i] >= StatusOf(e, AddrOf[m]).ban /\ StatusOf(e, AddrOf[m]).ban \in Int
    BY <1>12, <2>1, <2>2 DEF BansBut, Status
  <2>5. StatusOf(g, AddrOf[m]).ban = IF StatusOf(e, AddrOf[m]).ban >= 0
                                     THEN StatusOf(e, AddrOf[m]).ban - 1 ELSE -1
    BY <1>9, <2>1
  <2> DEFINE x == e.idle[m][i]
             y == StatusOf(e, AddrOf[m]).ban
             u == idle[m][i]
             z == StatusOf(g, AddrOf[m]).ban
  <2> SUFFICES u >= z
    OBVIOUS
  <2>6. /\ x \in Nat /\ y \in Int /\ x >= y
        /\ u = IF x >= 1 THEN x - 1 ELSE 0
        /\ z = IF y >= 0 THEN y - 1 ELSE -1
    BY <2>2, <2>3, <2>4, <2>5
  <2> HIDE DEF x, y, u, z
  <2> QED BY <2>6
<1> QED BY <1>8, <1>11, <1>12 DEF Steady

-------------------------------------------------------------------------------
(* Connections: how many an address has, and which nodes they use.             *)

LEMMA EpsAre ==
    ASSUME NEW ep \in Eps
    PROVE  /\ ep = [addr |-> ep.addr, node |-> ep.node]
           /\ ep.addr \in Addrs /\ ep.node \in Node \cup {NoNode}
           /\ ep.node \in Node => ep = EpOf(ep.node) /\ AddrOf[ep.node] = ep.addr
           /\ ep.node \notin Node => ep = NoEp
           /\ ep.addr \in Addr => ep.node \in Node
<1>1. CASE ep = NoEp
  <2>1. NoEp.addr = NoAddr /\ NoEp.node = NoNode /\ NoEp = [addr |-> NoEp.addr, node |-> NoEp.node]
    BY DEF NoEp
  <2> QED BY <1>1, <2>1, PeerNetAssumption DEF Addrs
<1>2. ASSUME NEW n \in Node, ep = EpOf(n)
      PROVE  ep = [addr |-> ep.addr, node |-> ep.node] /\ ep.addr = AddrOf[n] /\ ep.node = n
             /\ AddrOf[n] \in Addr
  BY <1>2, PeerNetAssumption DEF EpOf
<1> QED BY <1>1, <1>2 DEF Eps, Addrs

LEMMA RemoteIs ==
    ASSUME NEW cl \in ClientStates, NEW c \in Clients
    PROVE  /\ Remote(cl, c) \in Eps /\ cl[c].ep \in Eps /\ cl[c].sock \in Eps
           /\ Remote(cl, c) = IF cl[c].ep # NoEp THEN cl[c].ep ELSE cl[c].sock
BY DEF ClientStates, Remote, GetRemote

LEMMA ClosedIs ==
    /\ Closed \in [open : BOOLEAN, ep : Eps, sock : Eps] /\ Closed.ep = NoEp
    /\ Closed.sock = NoEp /\ GetRemote(Closed) = NoEp /\ GetRemote(Closed).addr = NoAddr
    /\ GetRemote(Closed).node = NoNode /\ NoEp \in Eps
<1>1. NoEp \in Eps
  BY DEF Eps
<1>2. /\ Closed \in [open : BOOLEAN, ep : Eps, sock : Eps] /\ Closed.ep = NoEp
      /\ Closed.sock = NoEp
  BY <1>1 DEF Closed
<1>3. GetRemote(Closed) = NoEp
  BY <1>2 DEF GetRemote
<1>4. NoEp.addr = NoAddr /\ NoEp.node = NoNode
  BY DEF NoEp
<1> QED BY <1>1, <1>2, <1>3, <1>4

LEMMA PeersAre ==
    ASSUME NEW cl, NEW ow, NEW a, NEW x
    PROVE  x \in PeersIn(cl, ow, a) <=>
               \E c \in Clients : \E i \in 1..ow[c] : Remote(cl, c).addr = a /\ x = <<c, i>>
BY DEF PeersIn

LEMMA PeersFinite ==
    ASSUME NEW cl, NEW ow \in [Clients -> Nat], NEW a
    PROVE  IsFiniteSet(PeersIn(cl, ow, a))
<1> DEFINE D == {d \in Clients : Remote(cl, d).addr = a}
           E(c) == {c} \X (1..ow[c])
           X == {E(c) : c \in D}
<1>1. ASSUME NEW c \in D
      PROVE  IsFiniteSet(E(c))
  <2>1. ow[c] \in Int /\ 1 \in Int
    OBVIOUS
  <2>2. IsFiniteSet(1..ow[c])
    BY <2>1, FS_Interval
  <2>3. IsFiniteSet({c})
    BY FS_Singleton
  <2> QED BY <2>2, <2>3, FS_Product
<1> HIDE DEF E
<1> DEFINE f == [c \in D |-> E(c)]
<1>2. f \in [D -> X] /\ \A x \in X : \E c \in D : f[c] = x
  OBVIOUS
<1>3. IsFiniteSet(D)
  <2>1. D \in SUBSET Clients /\ IsFiniteSet(Clients)
    BY PeerNetAssumption
  <2> QED BY <2>1, FS_Subset
<1> HIDE DEF f, D
<1>4. IsFiniteSet(X)
  <2> HIDE DEF X
  <2> QED BY <1>2, <1>3, OntoFinite
<1>5. \A x \in X : IsFiniteSet(x)
  BY <1>1
<1>6. IsFiniteSet(UNION X)
  <2> HIDE DEF X
  <2> QED BY <1>4, <1>5, FS_UNION
<1> QED BY <1>6 DEF PeersIn, E, D

LEMMA OutIs ==
    ASSUME NEW cs, IsFiniteSet(cs), NEW cl, NEW ow \in [Clients -> Nat], NEW a
    PROVE  /\ IsFiniteSet(ConnectsIn(cs, a)) /\ IsFiniteSet(PeersIn(cl, ow, a))
           /\ Cardinality(ConnectsIn(cs, a)) \in Nat /\ Cardinality(PeersIn(cl, ow, a)) \in Nat
           /\ Out(cs, cl, ow, a) = Cardinality(ConnectsIn(cs, a)) + Cardinality(PeersIn(cl, ow, a))
           /\ Out(cs, cl, ow, a) \in Nat
<1>1. ConnectsIn(cs, a) \in SUBSET cs
  BY DEF ConnectsIn
<1>2. IsFiniteSet(ConnectsIn(cs, a))
  BY <1>1, FS_Subset
<1>3. IsFiniteSet(PeersIn(cl, ow, a))
  BY PeersFinite
<1>4. Cardinality(ConnectsIn(cs, a)) \in Nat /\ Cardinality(PeersIn(cl, ow, a)) \in Nat
  BY <1>2, <1>3, FS_CardinalityType
<1> QED BY <1>2, <1>3, <1>4 DEF Out

LEMMA InIs ==
    ASSUME NEW ib, NEW a
    PROVE  IsFiniteSet({i \in Slots : ib[i] = a}) /\ In(ib, a) \in Nat
<1>1. {i \in Slots : ib[i] = a} \in SUBSET Slots /\ IsFiniteSet(Slots)
  BY PeerNetAssumption
<1>2. IsFiniteSet({i \in Slots : ib[i] = a})
  BY <1>1, FS_Subset
<1> QED BY <1>2, FS_CardinalityType DEF In

LEMMA OnlyOne ==
    ASSUME NEW X, IsFiniteSet(X), NEW Y, IsFiniteSet(Y), NEW x \in X,
           Cardinality(X) + Cardinality(Y) <= 1
    PROVE  X = {x} /\ Y = {}
<1>1. /\ IsFiniteSet(X \ {x}) /\ Cardinality(X \ {x}) = Cardinality(X) - 1
  BY FS_RemoveElement
<1>2. Cardinality(X) \in Nat /\ Cardinality(Y) \in Nat /\ Cardinality(X \ {x}) \in Nat
  BY <1>1, FS_CardinalityType
<1>3. Cardinality(X \ {x}) = 0 /\ Cardinality(Y) = 0
  BY <1>1, <1>2
<1>4. X \ {x} = {} /\ Y = {}
  BY <1>1, <1>3, FS_EmptySet
<1> QED BY <1>4

\* Where an address has one connection at most, a connect under way is all there is,
LEMMA SoleConnect ==
    ASSUME NEW cs, IsFiniteSet(cs), NEW cl, NEW ow \in [Clients -> Nat], NEW k \in cs,
           Out(cs, cl, ow, AddrOf[k.node]) <= 1
    PROVE  ConnectsIn(cs, AddrOf[k.node]) = {k} /\ PeersIn(cl, ow, AddrOf[k.node]) = {}
<1> DEFINE a == AddrOf[k.node]
<1>1. k \in ConnectsIn(cs, a)
  BY DEF ConnectsIn
<1> HIDE DEF a
<1>2. /\ IsFiniteSet(ConnectsIn(cs, a)) /\ IsFiniteSet(PeersIn(cl, ow, a))
      /\ Cardinality(ConnectsIn(cs, a)) + Cardinality(PeersIn(cl, ow, a)) <= 1
  BY OutIs DEF a
<1> QED BY <1>1, <1>2, OnlyOne DEF a

\* or a CPeer is.
LEMMA SolePeer ==
    ASSUME NEW cs, IsFiniteSet(cs), NEW cl, NEW ow \in [Clients -> Nat], NEW c \in Clients,
           ow[c] > 0, NEW a, Remote(cl, c).addr = a, Out(cs, cl, ow, a) <= 1
    PROVE  /\ ConnectsIn(cs, a) = {} /\ PeersIn(cl, ow, a) = {<<c, 1>>} /\ ow[c] = 1
<1>1. \A i \in 1..ow[c] : <<c, i>> \in PeersIn(cl, ow, a)
  BY PeersAre
<1>2. 1 \in 1..ow[c]
  OBVIOUS
<1> DEFINE x == <<c, 1>>
<1>3. x \in PeersIn(cl, ow, a)
  BY <1>1, <1>2
<1> HIDE DEF x
<1>4. /\ IsFiniteSet(ConnectsIn(cs, a)) /\ IsFiniteSet(PeersIn(cl, ow, a))
      /\ Cardinality(PeersIn(cl, ow, a)) + Cardinality(ConnectsIn(cs, a)) <= 1
  BY OutIs
<1>5. PeersIn(cl, ow, a) = {x} /\ ConnectsIn(cs, a) = {}
  BY <1>3, <1>4, OnlyOne
<1>6. ow[c] \in Nat /\ ~ (2 \in 1..ow[c])
  <2>1. <<c, 2>> # x
    BY DEF x
  <2> QED BY <1>1, <1>5, <2>1
<1>7. ow[c] = 1
  BY <1>6
<1> QED BY <1>5, <1>7 DEF x

\* No connection, no use of a node.
LEMMA UnusedIs ==
    ASSUME NEW cs, NEW cl \in ClientStates, NEW ow \in [Clients -> Nat], NEW n \in Node,
           ConnectsIn(cs, AddrOf[n]) = {}, PeersIn(cl, ow, AddrOf[n]) = {}
    PROVE  ~ CallUses(cs, n) /\ ~ PeerUses(cl, ow, n)
<1>1. ~ CallUses(cs, n)
  BY DEF CallUses, ConnectsIn
<1>2. ASSUME NEW c \in Clients, ow[c] > 0, Remote(cl, c).node = n
      PROVE  FALSE
  <2>1. Remote(cl, c).addr = AddrOf[n]
    BY <1>2, RemoteIs, EpsAre
  <2>2. 1 \in 1..ow[c]
    BY <1>2
  <2>3. <<c, 1>> \in PeersIn(cl, ow, AddrOf[n])
    BY <2>1, <2>2, PeersAre
  <2> QED BY <2>3
<1> QED BY <1>1, <1>2 DEF PeerUses

\* The CPeers of an address are the same.
Agree(cl, ow, cl2, ow2, a) ==
    \A c \in Clients : \/ ow[c] > 0 /\ Remote(cl, c).addr = a
                       \/ ow2[c] > 0 /\ Remote(cl2, c).addr = a
                       => ow2[c] = ow[c] /\ Remote(cl2, c) = Remote(cl, c)

LEMMA AgreeSame ==
    ASSUME NEW cl \in ClientStates, NEW ow \in [Clients -> Nat],
           NEW cl2 \in ClientStates, NEW ow2 \in [Clients -> Nat], NEW a, Agree(cl, ow, cl2, ow2, a)
    PROVE  /\ PeersIn(cl2, ow2, a) = PeersIn(cl, ow, a)
           /\ \A n \in Node : AddrOf[n] = a => (PeerUses(cl2, ow2, n) <=> PeerUses(cl, ow, n))
<1>1. ASSUME NEW c \in Clients, NEW i
      PROVE  i \in 1..ow2[c] /\ Remote(cl2, c).addr = a <=> i \in 1..ow[c] /\ Remote(cl, c).addr = a
  <2>1. ow[c] \in Nat /\ ow2[c] \in Nat
    OBVIOUS
  <2>2. (i \in 1..ow2[c] => ow2[c] > 0) /\ (i \in 1..ow[c] => ow[c] > 0)
    BY <2>1
  <2> QED BY <2>2 DEF Agree
<1>2. ASSUME NEW x
      PROVE  x \in PeersIn(cl2, ow2, a) <=> x \in PeersIn(cl, ow, a)
  BY <1>1, PeersAre
<1>3. ASSUME NEW n \in Node, AddrOf[n] = a
      PROVE  PeerUses(cl2, ow2, n) <=> PeerUses(cl, ow, n)
  <2>1. ASSUME NEW c \in Clients
        PROVE  /\ Remote(cl, c).node = n => Remote(cl, c).addr = a
               /\ Remote(cl2, c).node = n => Remote(cl2, c).addr = a
    BY <1>3, RemoteIs, EpsAre
  <2> QED BY <2>1 DEF PeerUses, Agree
<1> QED BY <1>2, <1>3

\* The connects cs2 are cs but for results.
SameCalls(cs, cs2) ==
    /\ cs2 \subseteq Calls /\ IsFiniteSet(cs2) /\ Once(cs2)
    /\ \A a : Cardinality(ConnectsIn(cs2, a)) = Cardinality(ConnectsIn(cs, a))
    /\ \A n : CallUses(cs2, n) <=> CallUses(cs, n)

Renames(f, cs, cs2) == /\ f \in [cs -> Calls]
                       /\ \A k \in cs : f[k].c = k.c /\ f[k].node = k.node
                       /\ cs2 = {f[k] : k \in cs}

LEMMA RenamedSame ==
    ASSUME NEW cs \in SUBSET Calls, IsFiniteSet(cs), Once(cs), NEW cs2, NEW f, Renames(f, cs, cs2)
    PROVE  SameCalls(cs, cs2)
<1>1. f \in [cs -> cs2] /\ \A l \in cs2 : \E k \in cs : f[k] = l
  BY DEF Renames
<1>2. cs2 \subseteq Calls
  BY DEF Renames
<1>3. IsFiniteSet(cs2)
  BY <1>1, OntoFinite
<1>4. \A k, l \in cs : f[k] = f[l] => k = l
  BY DEF Renames, Once
<1>5. Once(cs2)
  BY <1>1, <1>4 DEF Renames, Once
<1>6. \A n : CallUses(cs2, n) <=> CallUses(cs, n)
  BY <1>1 DEF Renames, CallUses
<1>7. ASSUME NEW a
      PROVE  Cardinality(ConnectsIn(cs2, a)) = Cardinality(ConnectsIn(cs, a))
  <2> DEFINE X == ConnectsIn(cs, a)
             Y == ConnectsIn(cs2, a)
             g == [k \in X |-> f[k]]
  <2>1. X \subseteq cs /\ \A k \in cs : k \in X <=> f[k] \in Y
    BY <1>1 DEF Renames, ConnectsIn
  <2>2. Y \subseteq cs2
    BY DEF ConnectsIn
  <2>3. IsFiniteSet(X)
    BY <2>1, FS_Subset
  <2> HIDE DEF X, Y
  <2>4. g \in [X -> Y] /\ \A y \in Y : \E x \in X : g[x] = y
    BY <1>1, <2>1, <2>2
  <2>5. \A x, z \in X : g[x] = g[z] => x = z
    BY <1>4, <2>1
  <2> HIDE DEF g
  <2> QED BY <2>3, <2>4, <2>5, OntoFinite DEF X, Y
<1> QED BY <1>2, <1>3, <1>5, <1>6, <1>7 DEF SameCalls

LEMMA SameItself ==
    ASSUME NEW cs \in SUBSET Calls, IsFiniteSet(cs), Once(cs)
    PROVE  SameCalls(cs, cs)
BY DEF SameCalls

LEMMA SameTwice ==
    ASSUME NEW cs, NEW ds, NEW es, SameCalls(cs, ds), SameCalls(ds, es)
    PROVE  SameCalls(cs, es)
BY DEF SameCalls

LEMMA AbortSame ==
    ASSUME NEW cs \in SUBSET Calls, IsFiniteSet(cs), Once(cs), NEW c
    PROVE  SameCalls(cs, Abort(cs, c))
<1> DEFINE f == [k \in cs |-> IF k.c = c /\ k.res = "none" THEN [k EXCEPT !.res = "abort"] ELSE k]
<1>1. ASSUME NEW k \in cs
      PROVE  f[k] \in Calls /\ f[k].c = k.c /\ f[k].node = k.node
  BY DEF Calls
<1>2. Renames(f, cs, Abort(cs, c))
  BY <1>1 DEF Renames, Abort
<1> QED BY <1>2, RenamedSame

LEMMA FinishSame ==
    ASSUME NEW cs \in SUBSET Calls, IsFiniteSet(cs), Once(cs), NEW k \in cs,
           NEW res \in {"ok", "err"}
    PROVE  SameCalls(cs, (cs \ {k}) \cup {[k EXCEPT !.res = res]})
<1> DEFINE f == [l \in cs |-> IF l = k THEN [k EXCEPT !.res = res] ELSE l]
<1>1. ASSUME NEW l \in cs
      PROVE  f[l] \in Calls /\ f[l].c = l.c /\ f[l].node = l.node
  BY DEF Calls
<1>2. Renames(f, cs, (cs \ {k}) \cup {[k EXCEPT !.res = res]})
  BY <1>1 DEF Renames
<1> QED BY <1>2, RenamedSame

Uses(cs, cl, ow, n) == CallUses(cs, n) \/ PeerUses(cl, ow, n)

\* The address b has as many connections, and they use the same nodes.
SameBooks(cs, cl, ow, cs2, cl2, ow2, b) ==
    /\ Out(cs2, cl2, ow2, b) = Out(cs, cl, ow, b)
    /\ \A n \in Node : AddrOf[n] = b => (Uses(cs2, cl2, ow2, n) <=> Uses(cs, cl, ow, n))

LEMMA BooksSame ==
    ASSUME NEW cs, NEW cs2, NEW cl \in ClientStates, NEW ow \in [Clients -> Nat],
           NEW cl2 \in ClientStates, NEW ow2 \in [Clients -> Nat], NEW b,
           Agree(cl, ow, cl2, ow2, b),
           Cardinality(ConnectsIn(cs2, b)) = Cardinality(ConnectsIn(cs, b)),
           \A n \in Node : AddrOf[n] = b => (CallUses(cs2, n) <=> CallUses(cs, n))
    PROVE  SameBooks(cs, cl, ow, cs2, cl2, ow2, b)
<1>1. /\ PeersIn(cl2, ow2, b) = PeersIn(cl, ow, b)
      /\ \A n \in Node : AddrOf[n] = b => (PeerUses(cl2, ow2, n) <=> PeerUses(cl, ow, n))
  BY AgreeSame
<1>2. Out(cs2, cl2, ow2, b) = Out(cs, cl, ow, b)
  BY <1>1 DEF Out
<1> QED BY <1>1, <1>2 DEF SameBooks, Uses

\* A step that moves nothing keeps the books of the addresses whose connections it keeps.
LEMMA BooksKept ==
    ASSUME NEW e \in Managers, NEW f, Still(e, f),
           NEW cs, NEW cs2, NEW cl, NEW ow, NEW cl2, NEW ow2,
           \A a \in Addr \ f.uncounted : SameBooks(cs, cl, ow, cs2, cl2, ow2, a),
           NEW ib, NEW db, Counted(e, cs, cl, ow, ib), Kept(e, cs, cl, ow, db)
    PROVE  Counted(f, cs2, cl2, ow2, ib) /\ Kept(f, cs2, cl2, ow2, db)
<1>1. f \in Managers /\ e.uncounted \subseteq f.uncounted
  BY DEF Still, Moved
<1>2. Counted(f, cs2, cl2, ow2, ib)
  <2> SUFFICES ASSUME NEW a \in Addr \ f.uncounted
               PROVE  /\ StatusOf(f, a).conn = Out(cs, cl, ow, a) + In(ib, a)
                      /\ Out(cs, cl, ow, a) <= 1 /\ In(ib, a) <= CONNECTION_LIMIT
    BY DEF Counted, SameBooks
  <2>1. a # NoAddr /\ StatusOf(e, a).conn \in Int
    BY StatusTypes, PeerNetAssumption DEF Status, Addrs
  <2>2. StatusOf(f, a).conn = StatusOf(e, a).conn
    BY <2>1 DEF Still, Moved
  <2> QED BY <1>1, <2>2 DEF Counted
<1>3. Kept(f, cs2, cl2, ow2, db)
  <2> SUFFICES ASSUME NEW n \in DOMAIN f.node, n \notin db, AddrOf[n] \notin f.uncounted
               PROVE  Len(f.idle[n]) = IF Uses(cs2, cl2, ow2, n) THEN 0 ELSE 1
    BY DEF Kept, Uses
  <2>1. n \in Node /\ n # NoNode /\ AddrOf[n] \in Addr \ f.uncounted
    BY <1>1, NodesAre, PeerNetAssumption
  <2>2. n \in DOMAIN e.node /\ Len(e.idle[n]) \in Nat
    BY <2>1, NodesAre DEF Still, Moved
  <2>3. Len(f.idle[n]) = Len(e.idle[n])
    BY <2>1, <2>2 DEF Still, Moved
  <2>4. Uses(cs2, cl2, ow2, n) <=> Uses(cs, cl, ow, n)
    BY <2>1 DEF SameBooks
  <2>5. Len(e.idle[n]) = IF Uses(cs, cl, ow, n) THEN 0 ELSE 1
    BY <1>1, <2>1, <2>2 DEF Kept, Uses
  <2> QED BY <2>3, <2>4, <2>5
<1> QED BY <1>2, <1>3

LEMMA StillKeeps ==
    ASSUME NEW e \in Managers, NEW f, Still(e, f),
           NEW cs \in SUBSET Calls, NEW cs2, SameCalls(cs, cs2),
           NEW cl \in ClientStates, NEW ow \in [Clients -> Nat],
           NEW cl2 \in ClientStates, NEW ow2 \in [Clients -> Nat],
           \A a \in Addr \ f.uncounted : Agree(cl, ow, cl2, ow2, a),
           NEW ib, NEW db, Counted(e, cs, cl, ow, ib), Kept(e, cs, cl, ow, db)
    PROVE  Counted(f, cs2, cl2, ow2, ib) /\ Kept(f, cs2, cl2, ow2, db)
<1>1. ASSUME NEW a \in Addr \ f.uncounted
      PROVE  SameBooks(cs, cl, ow, cs2, cl2, ow2, a)
  <2>1. /\ Cardinality(ConnectsIn(cs2, a)) = Cardinality(ConnectsIn(cs, a))
        /\ \A n \in Node : AddrOf[n] = a => (CallUses(cs2, n) <=> CallUses(cs, n))
    BY DEF SameCalls
  <2> QED BY <2>1, BooksSame
<1> QED BY <1>1, BooksKept

\* The address a loses its one connection, which was the use of the node n.
LEMMA ClosingKeeps ==
    ASSUME NEW e \in Managers, NEW f, NEW a \in Addrs, NEW n \in Node \cup {NoNode},
           n \in Node => AddrOf[n] = a, Moved(e, f, a, -1, n, 1),
           NEW cs, IsFiniteSet(cs), NEW cs2, IsFiniteSet(cs2),
           NEW cl \in ClientStates, NEW ow \in [Clients -> Nat],
           NEW cl2 \in ClientStates, NEW ow2 \in [Clients -> Nat], NEW ib, NEW db,
           Counted(e, cs, cl, ow, ib), Kept(e, cs, cl, ow, db),
           \A b \in Addr \ f.uncounted : b # a =>
               /\ Agree(cl, ow, cl2, ow2, b)
               /\ Cardinality(ConnectsIn(cs2, b)) = Cardinality(ConnectsIn(cs, b)),
           \A m \in Node : AddrOf[m] # a => (CallUses(cs2, m) <=> CallUses(cs, m)),
           a \in Addr \ f.uncounted =>
               /\ Out(cs, cl, ow, a) >= 1 /\ n \in Node /\ Uses(cs, cl, ow, n)
               /\ \A m \in Node : AddrOf[m] = a /\ m # n => ~ Uses(cs, cl, ow, m)
               /\ ConnectsIn(cs2, a) = {} /\ PeersIn(cl2, ow2, a) = {}
    PROVE  Counted(f, cs2, cl2, ow2, ib) /\ Kept(f, cs2, cl2, ow2, db)
<1>1. f \in Managers /\ e.uncounted \subseteq f.uncounted
  BY DEF Moved
<1>2. ASSUME NEW b \in Addr \ f.uncounted, b # a
      PROVE  /\ \A m \in Node : AddrOf[m] = b => (PeerUses(cl2, ow2, m) <=> PeerUses(cl, ow, m))
             /\ Out(cs2, cl2, ow2, b) = Out(cs, cl, ow, b)
  <2>1. /\ PeersIn(cl2, ow2, b) = PeersIn(cl, ow, b)
        /\ \A m \in Node : AddrOf[m] = b => (PeerUses(cl2, ow2, m) <=> PeerUses(cl, ow, m))
    BY <1>2, AgreeSame
  <2> QED BY <1>2, <2>1 DEF Out
<1>3. ASSUME a \in Addr \ f.uncounted
      PROVE  Out(cs2, cl2, ow2, a) = 0 /\ Out(cs, cl, ow, a) = 1
  <2>1. Cardinality(ConnectsIn(cs2, a)) = 0 /\ Cardinality(PeersIn(cl2, ow2, a)) = 0
    BY <1>3, FS_EmptySet
  <2>2. Out(cs, cl, ow, a) \in Nat /\ Out(cs, cl, ow, a) <= 1
    BY <1>1, <1>3, OutIs DEF Counted
  <2> QED BY <1>3, <2>1, <2>2 DEF Out
<1>4. Counted(f, cs2, cl2, ow2, ib)
  <2> SUFFICES ASSUME NEW b \in Addr \ f.uncounted
               PROVE  /\ StatusOf(f, b).conn = Out(cs2, cl2, ow2, b) + In(ib, b)
                      /\ Out(cs2, cl2, ow2, b) <= 1 /\ In(ib, b) <= CONNECTION_LIMIT
    BY DEF Counted
  <2>1. StatusOf(e, b).conn \in Int /\ Out(cs, cl, ow, b) \in Nat /\ In(ib, b) \in Nat
    BY StatusTypes, OutIs, InIs DEF Status, Addrs
  <2>2. StatusOf(f, b).conn = StatusOf(e, b).conn + (IF b = a THEN -1 ELSE 0)
    BY DEF Moved
  <2>3. /\ StatusOf(e, b).conn = Out(cs, cl, ow, b) + In(ib, b)
        /\ Out(cs, cl, ow, b) <= 1 /\ In(ib, b) <= CONNECTION_LIMIT
    BY <1>1 DEF Counted
  <2>4. CASE b = a
    <3>1. Out(cs2, cl2, ow2, b) = 0 /\ Out(cs, cl, ow, b) = 1
      BY <1>3, <2>4
    <3>2. StatusOf(f, b).conn = StatusOf(e, b).conn - 1
      BY <2>1, <2>2, <2>4
    <3> QED BY <2>1, <2>3, <3>1, <3>2
  <2>5. CASE b # a
    <3>1. Out(cs2, cl2, ow2, b) = Out(cs, cl, ow, b)
      BY <1>2, <2>5
    <3>2. StatusOf(f, b).conn = StatusOf(e, b).conn
      BY <2>1, <2>2, <2>5
    <3> QED BY <2>3, <3>1, <3>2
  <2> QED BY <2>4, <2>5
<1>5. Kept(f, cs2, cl2, ow2, db)
  <2> SUFFICES ASSUME NEW m \in DOMAIN f.node, m \notin db, AddrOf[m] \notin f.uncounted
               PROVE  Len(f.idle[m]) = IF Uses(cs2, cl2, ow2, m) THEN 0 ELSE 1
    BY DEF Kept, Uses
  <2>1. m \in Node /\ AddrOf[m] \in Addr \ f.uncounted
    BY <1>1, NodesAre, PeerNetAssumption
  <2>2. m \in DOMAIN e.node /\ Len(e.idle[m]) \in Nat
    <3>1. m \in DOMAIN e.node
      BY DEF Moved
    <3>2. e.idle[m] \in Seq(Nat)
      BY <2>1, NodesAre
    <3> QED BY <3>1, <3>2
  <2>3. Len(f.idle[m]) = Len(e.idle[m]) + (IF m = n THEN 1 ELSE 0)
    BY DEF Moved
  <2>4. Len(e.idle[m]) = IF Uses(cs, cl, ow, m) THEN 0 ELSE 1
    BY <1>1, <2>1, <2>2 DEF Kept, Uses
  <2>5. CASE AddrOf[m] = a
    <3>1. ~ Uses(cs2, cl2, ow2, m)
      BY <2>1, <2>5, UnusedIs DEF Uses
    <3>2. Uses(cs, cl, ow, m) <=> m = n
      BY <2>1, <2>5
    <3>3. Len(f.idle[m]) = 1
      BY <2>3, <2>4, <3>2
    <3> QED BY <3>1, <3>3
  <2>6. CASE AddrOf[m] # a
    <3>1. Uses(cs2, cl2, ow2, m) <=> Uses(cs, cl, ow, m)
      BY <1>2, <2>1, <2>6 DEF Uses
    <3>2. m # n
      BY <2>1, <2>6
    <3>3. Len(f.idle[m]) = Len(e.idle[m])
      BY <2>2, <2>3, <3>2
    <3> QED BY <2>4, <3>1, <3>3
  <2> QED BY <2>5, <2>6
<1> QED BY <1>4, <1>5

LEMMA AgreeSelf ==
    ASSUME NEW cl, NEW ow, NEW a
    PROVE  Agree(cl, ow, cl, ow, a)
BY DEF Agree

LEMMA NothingIs ==
    ASSUME NEW e, e = [status |-> <<>>, node |-> <<>>, idle |-> [n \in Node |-> <<>>],
                       late |-> {}, uncounted |-> {}]
    PROVE  /\ e \in Managers /\ BansBut(e, e.late)
           /\ DOMAIN e.node = {} /\ \A a : StatusOf(e, a).conn = 0
<1>1. DOMAIN <<>> = {} /\ <<>> = [x \in {} |-> x]
  OBVIOUS
<1>2. /\ <<>> \in [{} -> Status] /\ <<>> \in [{} -> Nat]
  BY <1>1
<1>3. <<>> \in Partial(Addrs, Status) /\ <<>> \in Partial(Node, Nat)
  BY <1>2 DEF Partial
<1>4. [n \in Node |-> <<>>] \in [Node -> Seq(Nat)]
  OBVIOUS
<1> DEFINE z == <<>>
           idle == [n \in Node |-> <<>>]
<1>5. e = [status |-> z, node |-> z, idle |-> idle, late |-> {}, uncounted |-> {}]
  OBVIOUS
<1>6. /\ z \in Partial(Addrs, Status) /\ z \in Partial(Node, Nat) /\ DOMAIN z = {}
      /\ idle \in [Node -> Seq(Nat)] /\ \A n \in Node : DOMAIN idle[n] = {}
  BY <1>1, <1>3, <1>4
<1> HIDE DEF z, idle
<1>7. e \in Managers /\ e.status = z /\ e.node = z /\ e.idle = idle /\ e.late = {}
  BY <1>5, <1>6 DEF Managers
<1>8. BansBut(e, e.late)
  BY <1>6, <1>7 DEF BansBut
<1>9. \A a : StatusOf(e, a).conn = 0
  BY <1>6, <1>7 DEF StatusOf, NewStatus
<1> QED BY <1>6, <1>7, <1>8, <1>9

LEMMA InitNet == Init => NetInv
<1> SUFFICES ASSUME Init
             PROVE  NetInv
  OBVIOUS
<1>1. /\ epMngr \in Managers /\ BansBut(epMngr, epMngr.late)
      /\ DOMAIN epMngr.node = {} /\ \A a : StatusOf(epMngr, a).conn = 0
  BY NothingIs DEF Init
<1>2. NetTypes
  <2>1. client \in ClientStates
    BY ClosedIs DEF Init, ClientStates
  <2>2. owners \in [Clients -> Nat] /\ inbound \in [Slots -> Addrs \cup {Free}]
    BY DEF Init
  <2>3. calls \subseteq Calls /\ IsFiniteSet(calls) /\ pending \subseteq [c : Clients, node : Node]
    BY FS_EmptySet DEF Init
  <2> QED BY <1>1, <2>1, <2>2, <2>3 DEF Init, NetTypes
<1>3. Once(calls)
  BY DEF Init, Once
<1>4. Told(epMngr, client, owners)
  BY DEF Init, Told
<1>5. ASSUME NEW a \in Addr \ epMngr.uncounted
      PROVE  /\ StatusOf(epMngr, a).conn = Out(calls, client, owners, a) + In(inbound, a)
             /\ Out(calls, client, owners, a) <= 1 /\ In(inbound, a) <= CONNECTION_LIMIT
  <2>1. ConnectsIn(calls, a) = {}
    BY DEF ConnectsIn, Init
  <2>2. PeersIn(client, owners, a) = {}
    <3>1. \A c \in Clients : owners[c] = 0
      BY DEF Init
    <3>2. \A c \in Clients : 1..owners[c] = {}
      BY <3>1
    <3> QED BY <3>2 DEF PeersIn
  <2>3. {i \in Slots : inbound[i] = a} = {}
    BY PeerNetAssumption DEF Init
  <2>4. Out(calls, client, owners, a) = 0 /\ In(inbound, a) = 0
    BY <2>1, <2>2, <2>3, FS_EmptySet DEF Out, In
  <2>5. CONNECTION_LIMIT \in Nat
    BY PeerNetAssumption
  <2> QED BY <1>1, <2>4, <2>5
<1>6. Kept(epMngr, calls, client, owners, doubled)
  BY <1>1 DEF Kept
<1> QED BY <1>1, <1>2, <1>3, <1>4, <1>5, <1>6 DEF NetInv, Counted

\* A step that leaves the sockets alone and moves nothing.
LEMMA StillStep ==
    ASSUME NetInv, running, running' = running, Still(epMngr, epMngr'),
           BansBut(epMngr, epMngr.late) => BansBut(epMngr', epMngr'.late),
           UNCHANGED <<client, calls, pending, owners, inbound, doubled>>
    PROVE  NetInv'
<1>1. /\ epMngr \in Managers /\ client \in ClientStates /\ owners \in [Clients -> Nat]
      /\ calls \in SUBSET Calls /\ IsFiniteSet(calls) /\ Once(calls)
      /\ Told(epMngr, client, owners) /\ Counted(epMngr, calls, client, owners, inbound)
      /\ Kept(epMngr, calls, client, owners, doubled)
  BY DEF NetInv, NetTypes
<1>2. \A a \in Addr \ epMngr'.uncounted : Agree(client, owners, client, owners, a)
  BY AgreeSelf
<1>3. SameCalls(calls, calls)
  BY <1>1, SameItself
<1>4. /\ Counted(epMngr', calls, client, owners, inbound)
      /\ Kept(epMngr', calls, client, owners, doubled)
  <2> DEFINE f == epMngr'
  <2> HIDE DEF f
  <2>1. Still(epMngr, f) /\ \A a \in Addr \ f.uncounted : Agree(client, owners, client, owners, a)
    BY <1>2 DEF f
  <2>2. Counted(f, calls, client, owners, inbound) /\ Kept(f, calls, client, owners, doubled)
    BY <1>1, <1>3, <2>1, StillKeeps
  <2> QED BY <2>2 DEF f
<1>5. epMngr' \in Managers /\ epMngr.uncounted \subseteq epMngr'.uncounted
  BY DEF Still, Moved
<1>6. Told(epMngr', client, owners)
  BY <1>1, <1>5 DEF Told
<1>7. NetTypes'
  BY <1>5 DEF NetInv, NetTypes
<1> QED BY <1>1, <1>4, <1>6, <1>7 DEF NetInv

LEMMA SteadyStep ==
    ASSUME NetInv, running, running' = running, Steady(epMngr, epMngr'),
           UNCHANGED <<client, calls, pending, owners, inbound, doubled>>
    PROVE  NetInv'
<1>1. epMngr.late \in SUBSET Addrs
  BY NodesAre DEF NetInv, NetTypes
<1>2. Still(epMngr, epMngr') /\ (BansBut(epMngr, epMngr.late) => BansBut(epMngr', epMngr'.late))
  BY <1>1 DEF Steady
<1> QED BY <1>2, StillStep

LEMMA RemoveNodeStep ==
    ASSUME NetInv, NEW n \in Node, RemoveNode(n)
    PROVE  NetInv'
<1>1. epMngr \in Managers
  BY DEF NetInv, NetTypes
<1>2. Steady(epMngr, epMngr')
  BY <1>1, RemoveSteady DEF RemoveNode
<1> QED BY <1>2, SteadyStep DEF RemoveNode

LEMMA RewardStep ==
    ASSUME NetInv, NEW a \in Addr, RewardPeer(a, 1)
    PROVE  NetInv'
<1>1. epMngr \in Managers /\ a \in Addrs
  BY DEF NetInv, NetTypes, Addrs
<1>2. Steady(epMngr, epMngr')
  BY <1>1, RewardSteady DEF RewardPeer
<1> QED BY <1>2, SteadyStep DEF RewardPeer

LEMMA SetBanStep ==
    ASSUME NetInv, NEW a \in Addr, NEW t \in BanTimes, SetBan(a, t)
    PROVE  NetInv'
<1>1. epMngr \in Managers /\ t \in Int
  BY PeerNetAssumption DEF NetInv, NetTypes
<1>2. Still(epMngr, epMngr') /\ (BansBut(epMngr, epMngr.late) => BansBut(epMngr', epMngr'.late))
  BY <1>1, SetBanMoves DEF SetBan
<1> QED BY <1>2, StillStep DEF SetBan

LEMMA ClearBannedStep ==
    ASSUME NetInv, NEW as, ClearBanned(as)
    PROVE  NetInv'
<1>1. epMngr \in Managers
  BY DEF NetInv, NetTypes
<1>2. Steady(epMngr, epMngr')
  <2> DEFINE banned == {a \in as \cap DOMAIN epMngr.status : epMngr.status[a].ban > 0}
  <2>1. banned \in SUBSET DOMAIN epMngr.status /\ epMngr' = Erase(epMngr, banned)
    BY DEF ClearBanned
  <2> HIDE DEF banned
  <2> QED BY <1>1, <2>1, EraseSteady
<1> QED BY <1>2, SteadyStep DEF ClearBanned

LEMMA TickStep ==
    ASSUME NetInv, Tick
    PROVE  NetInv'
<1>1. epMngr \in Managers
  BY DEF NetInv, NetTypes
<1>2. Steady(epMngr, epMngr')
  BY <1>1, TickSteady DEF Tick
<1> QED BY <1>2, SteadyStep DEF Tick

LEMMA ResetStep ==
    ASSUME NetInv, NEW c \in Clients, Reset(c)
    PROVE  NetInv'
<1>1. /\ epMngr \in Managers /\ client \in ClientStates /\ owners \in [Clients -> Nat]
      /\ calls \in SUBSET Calls /\ IsFiniteSet(calls) /\ Once(calls)
      /\ Told(epMngr, client, owners) /\ Counted(epMngr, calls, client, owners, inbound)
      /\ Kept(epMngr, calls, client, owners, doubled)
  BY DEF NetInv, NetTypes, Reset
<1>2. /\ client' \in ClientStates
      /\ \A d \in Clients : d # c => client'[d] = client[d]
      /\ client'[c].ep = client[c].ep /\ client'[c].sock = NoEp
  <2>1. client' = [client EXCEPT ![c].sock = NoEp]
    BY DEF Reset
  <2> QED BY <1>1, <2>1, ClosedIs DEF ClientStates
<1>3. ASSUME NEW a \in Addr \ epMngr.uncounted
      PROVE  Agree(client, owners, client', owners, a)
  <2>1. ASSUME NEW d \in Clients, d # c
        PROVE  Remote(client', d) = Remote(client, d)
    BY <1>2, <2>1 DEF Remote
  <2>2. ASSUME owners[c] > 0, Remote(client, c).addr = a \/ Remote(client', c).addr = a
        PROVE  Remote(client', c) = Remote(client, c)
    <3>1. NoEp.addr # a
      BY PeerNetAssumption DEF NoEp
    <3>2. CASE client[c].ep # NoEp
      BY <1>2, <3>2 DEF Remote, GetRemote
    <3>3. CASE client[c].ep = NoEp
      <4>1. Remote(client, c) = client[c].sock /\ Remote(client', c) = NoEp
        BY <1>2, <3>3 DEF Remote, GetRemote
      <4>2. client[c].sock = NoEp \/ client[c].sock.addr \in epMngr.uncounted
        BY <1>1, <2>2, <3>3 DEF Told
      <4> QED BY <2>2, <3>1, <4>1, <4>2
    <3> QED BY <3>2, <3>3
  <2> QED BY <2>1, <2>2 DEF Agree
<1>4. Still(epMngr, epMngr)
  BY <1>1, SteadySelf DEF Steady
<1>5. SameCalls(calls, calls)
  BY <1>1, SameItself
<1>6. /\ Counted(epMngr, calls, client', owners, inbound)
      /\ Kept(epMngr, calls, client', owners, doubled)
  <2> DEFINE cl == client'
  <2> HIDE DEF cl
  <2>1. cl \in ClientStates /\ \A a \in Addr \ epMngr.uncounted : Agree(client, owners, cl, owners, a)
    BY <1>2, <1>3 DEF cl
  <2>2. Counted(epMngr, calls, cl, owners, inbound) /\ Kept(epMngr, calls, cl, owners, doubled)
    BY <1>1, <1>4, <1>5, <2>1, StillKeeps
  <2> QED BY <2>2 DEF cl
<1>7. Told(epMngr, client', owners)
  BY <1>1, <1>2 DEF Told
<1>8. NetTypes'
  BY <1>2 DEF NetInv, NetTypes, Reset
<1> QED BY <1>1, <1>6, <1>7, <1>8 DEF NetInv, Reset

LEMMA FinishStep ==
    ASSUME NetInv, NEW k \in calls, NEW res \in {"ok", "err"}, Finish(k, res)
    PROVE  NetInv'
<1>1. /\ epMngr \in Managers /\ client \in ClientStates /\ owners \in [Clients -> Nat]
      /\ calls \in SUBSET Calls /\ IsFiniteSet(calls) /\ Once(calls)
      /\ Told(epMngr, client, owners) /\ Counted(epMngr, calls, client, owners, inbound)
      /\ Kept(epMngr, calls, client, owners, doubled)
      /\ BansBut(epMngr, epMngr.late)
  BY DEF NetInv, NetTypes, Finish
<1>2. k.c \in Clients /\ k.node \in Node /\ AddrOf[k.node] \in Addr /\ EpOf(k.node) \in Eps
  BY <1>1, PeerNetAssumption DEF Calls, Eps
<1> DEFINE c == k.c
           f == epMngr'
           ds == calls'
           cl == client'
<1>3. SameCalls(calls, ds)
  BY <1>1, FinishSame DEF Finish
<1>4. /\ cl \in ClientStates /\ \A d \in Clients : d # c => cl[d] = client[d]
      /\ cl[c].ep = client[c].ep
      /\ cl[c].sock = IF res = "ok" THEN EpOf(k.node) ELSE client[c].sock
  <2>1. CASE res = "ok"
    <3>1. cl = [client EXCEPT ![k.c].sock = EpOf(k.node)]
      BY <2>1 DEF Finish
    <3> HIDE DEF cl
    <3> QED BY <1>1, <1>2, <2>1, <3>1 DEF ClientStates
  <2>2. CASE res # "ok"
    <3>1. cl = client
      BY <2>2 DEF Finish
    <3> QED BY <1>1, <2>2, <3>1
  <2> QED BY <2>1, <2>2
<1>5. /\ Steady(epMngr, f) /\ epMngr.uncounted \subseteq f.uncounted
      /\ res = "ok" /\ owners[c] > 0 => AddrOf[k.node] \in f.uncounted
  <2>1. CASE res = "ok" /\ owners[c] > 0
    <3> DEFINE as == {AddrOf[k.node]}
    <3>1. f = Lose(epMngr, as)
      BY <2>1 DEF Finish
    <3>2. as \in SUBSET Addrs /\ AddrOf[k.node] \in as \ {NoAddr}
      BY <1>2, PeerNetAssumption DEF Addrs
    <3> HIDE DEF f, as
    <3>3. f.uncounted = epMngr.uncounted \cup (as \ {NoAddr}) /\ Steady(epMngr, f)
      BY <1>1, <3>1, <3>2, LoseIs
    <3> QED BY <3>2, <3>3
  <2>2. CASE ~ (res = "ok" /\ owners[c] > 0)
    <3>1. f = epMngr
      BY <2>2 DEF Finish
    <3> QED BY <1>1, <2>2, <3>1, SteadySelf
  <2> QED BY <2>1, <2>2
<1> HIDE DEF f, ds, cl, c
<1>6. ASSUME NEW a \in Addr \ f.uncounted
      PROVE  Agree(client, owners, cl, owners, a)
  <2>1. ASSUME NEW d \in Clients, d # c
        PROVE  Remote(cl, d) = Remote(client, d)
    BY <1>4, <2>1 DEF Remote
  <2>2. ASSUME owners[c] > 0, Remote(client, c).addr = a \/ Remote(cl, c).addr = a
        PROVE  Remote(cl, c) = Remote(client, c)
    <3>1. NoEp.addr # a
      BY PeerNetAssumption DEF NoEp
    <3>2. CASE client[c].ep # NoEp \/ res # "ok"
      BY <1>4, <3>2 DEF Remote, GetRemote
    <3>3. CASE client[c].ep = NoEp /\ res = "ok"
      <4>1. Remote(client, c) = client[c].sock /\ Remote(cl, c) = EpOf(k.node)
        BY <1>4, <3>3 DEF Remote, GetRemote
      <4>2. client[c].sock = NoEp \/ client[c].sock.addr \in epMngr.uncounted
        BY <1>1, <1>2, <2>2, <3>3 DEF Told, c
      <4>3. EpOf(k.node).addr \in f.uncounted
        BY <1>5, <2>2, <3>3 DEF EpOf
      <4> QED BY <1>5, <2>2, <3>1, <4>1, <4>2, <4>3
    <3> QED BY <3>2, <3>3
  <2> QED BY <2>1, <2>2 DEF Agree
<1>7. Still(epMngr, f)
  BY <1>5 DEF Steady
<1>8. Counted(f, ds, cl, owners, inbound) /\ Kept(f, ds, cl, owners, doubled)
  BY <1>1, <1>3, <1>4, <1>6, <1>7, StillKeeps
<1>9. Told(f, cl, owners)
  <2> SUFFICES ASSUME NEW d \in Clients, owners[d] > 0, cl[d].ep = NoEp
               PROVE  cl[d].sock = NoEp \/ cl[d].sock.addr \in f.uncounted
    BY DEF Told
  <2>1. CASE d = c /\ res = "ok"
    BY <1>4, <1>5, <2>1 DEF EpOf
  <2>2. CASE ~ (d = c /\ res = "ok")
    <3>1. cl[d].ep = client[d].ep /\ cl[d].sock = client[d].sock
      BY <1>4, <2>2
    <3> QED BY <1>1, <1>5, <3>1 DEF Told
  <2> QED BY <2>1, <2>2
<1>10. f \in Managers /\ BansBut(f, f.late)
  <2>1. f.late = epMngr.late /\ epMngr.late \in SUBSET Addrs
    BY <1>1, <1>5, NodesAre DEF Steady
  <2> QED BY <1>1, <1>5, <2>1 DEF Steady, Still, Moved
<1>11. ds \subseteq Calls /\ IsFiniteSet(ds) /\ Once(ds)
  BY <1>3 DEF SameCalls
<1>12. NetTypes'
  BY <1>4, <1>10, <1>11 DEF NetInv, NetTypes, Finish, f, ds, cl
<1> QED BY <1>8, <1>9, <1>10, <1>11, <1>12 DEF NetInv, Finish, f, ds, cl

LEMMA AddNewNodeStep ==
    ASSUME NetInv, NEW n \in Node, AddNewNode(n)
    PROVE  NetInv'
<1>1. /\ epMngr \in Managers /\ client \in ClientStates /\ owners \in [Clients -> Nat]
      /\ calls \in SUBSET Calls /\ IsFiniteSet(calls) /\ Once(calls)
      /\ Told(epMngr, client, owners) /\ Counted(epMngr, calls, client, owners, inbound)
      /\ Kept(epMngr, calls, client, owners, doubled)
      /\ BansBut(epMngr, epMngr.late)
  BY DEF NetInv, NetTypes, AddNewNode
<1>2. CASE n \in DOMAIN epMngr.node
  <2>1. epMngr' = epMngr /\ doubled' = doubled
    BY <1>2 DEF AddNewNode, AddNew
  <2>2. Steady(epMngr, epMngr')
    BY <1>1, <2>1, SteadySelf
  <2> QED BY <2>1, <2>2, SteadyStep DEF AddNewNode
<1>3. CASE n \notin DOMAIN epMngr.node
  <2> DEFINE f == epMngr'
             db == doubled'
  <2>1. f \in AddNew(epMngr, n)
    BY DEF AddNewNode
  <2>2. /\ doubled \subseteq db
        /\ n \notin db => epMngr.idle[n] = <<>> /\ ~ CallUses(calls, n) /\ ~ PeerUses(client, owners, n)
    BY <1>3 DEF AddNewNode, InUse, CallUses, PeerUses, Remote
  <2> HIDE DEF f, db
  <2>3. Added(epMngr, f, n) /\ BansBut(f, f.late)
    BY <1>1, <1>3, <2>1, AddNewIs
  <2>4. f \in Managers /\ epMngr.uncounted \subseteq f.uncounted
    BY <2>3 DEF Added
  <2>5. Counted(f, calls, client, owners, inbound)
    BY <1>1, <2>3, <2>4 DEF Added, Counted
  <2>6. Kept(f, calls, client, owners, db)
    <3> SUFFICES ASSUME NEW m \in DOMAIN f.node, m \notin db, AddrOf[m] \notin f.uncounted
                 PROVE  Len(f.idle[m]) = IF CallUses(calls, m) \/ PeerUses(client, owners, m)
                                         THEN 0 ELSE 1
      BY DEF Kept
    <3>1. /\ m = n \/ m \in DOMAIN epMngr.node
          /\ Len(f.idle[m]) = Len(epMngr.idle[m]) + (IF m = n THEN 1 ELSE 0)
      BY <2>3 DEF Added
    <3>2. CASE m = n
      <4>1. epMngr.idle[m] = <<>> /\ ~ CallUses(calls, m) /\ ~ PeerUses(client, owners, m)
        BY <2>2, <3>2
      <4>2. Len(epMngr.idle[m]) = 0
        BY <4>1
      <4> QED BY <3>1, <3>2, <4>1, <4>2
    <3>3. CASE m # n
      <4>1. m \in DOMAIN epMngr.node /\ m \in Node
        BY <1>1, <3>1, <3>3, NodesAre
      <4>2. epMngr.idle[m] \in Seq(Nat)
        BY <1>1, <4>1, NodesAre
      <4>3. Len(f.idle[m]) = Len(epMngr.idle[m])
        BY <3>1, <3>3, <4>2
      <4>4. Len(epMngr.idle[m]) = IF CallUses(calls, m) \/ PeerUses(client, owners, m)
                                  THEN 0 ELSE 1
        BY <1>1, <2>2, <2>4, <4>1 DEF Kept
      <4> QED BY <4>3, <4>4
    <3> QED BY <3>2, <3>3
  <2>7. Told(f, client, owners)
    BY <1>1, <2>4 DEF Told
  <2>8. NetTypes'
    BY <2>4 DEF NetInv, NetTypes, AddNewNode, f
  <2> QED BY <1>1, <2>3, <2>5, <2>6, <2>7, <2>8 DEF NetInv, AddNewNode, f, db
<1> QED BY <1>2, <1>3

\* An inbound connection comes or goes.
LEMMA InboundKeeps ==
    ASSUME NEW e \in Managers, NEW f, NEW a, NEW d \in Int, NEW l \in Int,
           Moved(e, f, a, d, NoNode, l),
           NEW cs, IsFiniteSet(cs), NEW cl, NEW ow \in [Clients -> Nat], NEW ib, NEW ib2, NEW db,
           Counted(e, cs, cl, ow, ib), Kept(e, cs, cl, ow, db),
           \A b \in Addr \ f.uncounted :
               /\ In(ib2, b) = In(ib, b) + (IF b = a THEN d ELSE 0)
               /\ In(ib2, b) <= CONNECTION_LIMIT
    PROVE  Counted(f, cs, cl, ow, ib2) /\ Kept(f, cs, cl, ow, db)
<1>1. f \in Managers /\ e.uncounted \subseteq f.uncounted
  BY DEF Moved
<1>2. Counted(f, cs, cl, ow, ib2)
  <2> SUFFICES ASSUME NEW b \in Addr \ f.uncounted
               PROVE  /\ StatusOf(f, b).conn = Out(cs, cl, ow, b) + In(ib2, b)
                      /\ Out(cs, cl, ow, b) <= 1 /\ In(ib2, b) <= CONNECTION_LIMIT
    BY DEF Counted
  <2>1. Out(cs, cl, ow, b) \in Nat /\ In(ib, b) \in Nat
    BY OutIs, InIs
  <2>2. StatusOf(f, b).conn = StatusOf(e, b).conn + (IF b = a THEN d ELSE 0)
    BY DEF Moved
  <2>3. /\ StatusOf(e, b).conn = Out(cs, cl, ow, b) + In(ib, b)
        /\ Out(cs, cl, ow, b) <= 1
    BY <1>1 DEF Counted
  <2> QED BY <2>1, <2>2, <2>3
<1>3. Kept(f, cs, cl, ow, db)
  <2> SUFFICES ASSUME NEW m \in DOMAIN f.node, m \notin db, AddrOf[m] \notin f.uncounted
               PROVE  Len(f.idle[m]) = IF CallUses(cs, m) \/ PeerUses(cl, ow, m) THEN 0 ELSE 1
    BY DEF Kept
  <2>1. m \in Node /\ m # NoNode
    BY <1>1, NodesAre, PeerNetAssumption
  <2>2. m \in DOMAIN e.node
    BY DEF Moved
  <2>3. e.idle[m] \in Seq(Nat)
    BY <2>1, NodesAre
  <2>4. Len(f.idle[m]) = Len(e.idle[m])
    <3>1. Len(f.idle[m]) = Len(e.idle[m]) + (IF m = NoNode THEN l ELSE 0)
      BY DEF Moved
    <3>2. Len(e.idle[m]) \in Nat
      BY <2>3
    <3> QED BY <2>1, <3>1, <3>2
  <2>5. Len(e.idle[m]) = IF CallUses(cs, m) \/ PeerUses(cl, ow, m) THEN 0 ELSE 1
    BY <1>1, <2>2 DEF Kept
  <2> QED BY <2>4, <2>5
<1> QED BY <1>2, <1>3

LEMMA ClientAcceptedStep ==
    ASSUME NetInv, NEW i \in Slots, NEW a \in InAddr, NEW fTooOften \in BOOLEAN,
           ClientAccepted(i, a, fTooOften)
    PROVE  NetInv'
<1>1. /\ epMngr \in Managers /\ client \in ClientStates /\ owners \in [Clients -> Nat]
      /\ calls \in SUBSET Calls /\ IsFiniteSet(calls) /\ Once(calls)
      /\ Told(epMngr, client, owners) /\ Counted(epMngr, calls, client, owners, inbound)
      /\ Kept(epMngr, calls, client, owners, doubled)
      /\ BansBut(epMngr, epMngr.late) /\ inbound \in [Slots -> Addrs \cup {Free}]
      /\ running /\ running' = running
  BY DEF NetInv, NetTypes, ClientAccepted
<1>2. a \in Addrs
  BY PeerNetAssumption DEF Addrs
<1> DEFINE r == AcceptInBound(epMngr, a, fTooOften)
           f == r.e
           ib == inbound'
<1>3. /\ epMngr' = f /\ inbound[i] = Free
      /\ ib = IF r.ok THEN [inbound EXCEPT ![i] = a] ELSE inbound
      /\ UNCHANGED <<client, calls, pending, owners, doubled>>
  BY DEF ClientAccepted
<1> HIDE DEF r, ib
<1>4. /\ BansBut(epMngr, epMngr.late) => BansBut(f, f.late)
      /\ r.ok => /\ Moved(epMngr, f, a, 1, NoNode, 0)
                 /\ StatusOf(epMngr, a).conn < CONNECTION_LIMIT
      /\ ~ r.ok => Still(epMngr, f)
  BY <1>1, <1>2, AcceptMoves DEF r
<1> HIDE DEF f
<1>5. CASE ~ r.ok
  <2>1. Still(epMngr, epMngr') /\ inbound' = inbound
    BY <1>3, <1>4, <1>5 DEF ib
  <2>2. BansBut(epMngr, epMngr.late) => BansBut(epMngr', epMngr'.late)
    BY <1>3, <1>4
  <2> QED BY <1>1, <1>3, <2>1, <2>2, StillStep
<1>6. CASE r.ok
  <2>1. ib \in [Slots -> Addrs \cup {Free}] /\ \A j \in Slots : ib[j] = IF j = i THEN a ELSE inbound[j]
    BY <1>1, <1>2, <1>3, <1>6
  <2>2. ASSUME NEW b \in Addr \ f.uncounted
        PROVE  /\ In(ib, b) = In(inbound, b) + (IF b = a THEN 1 ELSE 0)
               /\ In(ib, b) <= CONNECTION_LIMIT
    <3> DEFINE X == {j \in Slots : inbound[j] = b}
    <3>1. i \notin X /\ IsFiniteSet(X) /\ In(inbound, b) \in Nat
      BY <1>3, InIs, PeerNetAssumption
    <3>2. /\ Out(calls, client, owners, b) \in Nat
          /\ StatusOf(epMngr, b).conn = Out(calls, client, owners, b) + In(inbound, b)
          /\ In(inbound, b) <= CONNECTION_LIMIT
      <4>1. b \in Addr \ epMngr.uncounted
        BY <1>4, <1>6 DEF Moved
      <4> QED BY <1>1, <4>1, OutIs DEF Counted
    <3>3. CASE b = a
      <4>1. {j \in Slots : ib[j] = b} = X \cup {i}
        BY <2>1, <3>3
      <4>2. In(ib, b) = In(inbound, b) + 1
        <5> HIDE DEF X
        <5>1. Cardinality(X \cup {i}) = Cardinality(X) + 1
          BY <3>1, FS_AddElement
        <5> QED BY <4>1, <5>1 DEF In, X
      <4>3. CONNECTION_LIMIT \in Nat
        BY PeerNetAssumption
      <4>4. StatusOf(epMngr, b).conn < CONNECTION_LIMIT
        BY <1>4, <1>6, <3>3
      <4> QED BY <3>1, <3>2, <3>3, <4>2, <4>3, <4>4
    <3>4. CASE b # a
      <4>1. {j \in Slots : ib[j] = b} = X
        BY <1>3, <2>1, <3>1, <3>4
      <4>2. In(ib, b) = In(inbound, b)
        BY <4>1 DEF In
      <4> QED BY <3>1, <3>2, <3>4, <4>2
    <3> QED BY <3>3, <3>4
  <2>3. /\ Counted(f, calls, client, owners, ib)
        /\ Kept(f, calls, client, owners, doubled)
    <3>1. Moved(epMngr, f, a, 1, NoNode, 0) /\ 1 \in Int /\ 0 \in Int
      BY <1>4, <1>6
    <3> QED BY <1>1, <2>2, <3>1, InboundKeeps
  <2>4. f \in Managers /\ Told(f, client, owners)
    BY <1>1, <1>4, <1>6 DEF Moved, Told
  <2>5. NetTypes'
    BY <1>1, <1>3, <2>1, <2>4 DEF NetTypes, NetInv, ib
  <2> QED BY <1>1, <1>3, <1>4, <2>3, <2>4, <2>5 DEF NetInv, ib
<1> QED BY <1>5, <1>6

LEMMA RemoveInboundStep ==
    ASSUME NetInv, NEW i \in Slots, NEW reason \in Reasons, RemoveInbound(i, reason)
    PROVE  NetInv'
<1>1. /\ epMngr \in Managers /\ client \in ClientStates /\ owners \in [Clients -> Nat]
      /\ calls \in SUBSET Calls /\ IsFiniteSet(calls) /\ Once(calls)
      /\ Told(epMngr, client, owners) /\ Counted(epMngr, calls, client, owners, inbound)
      /\ Kept(epMngr, calls, client, owners, doubled)
      /\ BansBut(epMngr, epMngr.late) /\ inbound \in [Slots -> Addrs \cup {Free}]
      /\ running /\ running' = running
  BY DEF NetInv, NetTypes, RemoveInbound
<1> DEFINE a == inbound[i]
           f == epMngr'
           ib == inbound'
<1>2. /\ a \in Addrs /\ a # Free /\ f \in CloseEndpoint(epMngr, [addr |-> a, node |-> NoNode], reason)
      /\ ib = [inbound EXCEPT ![i] = Free]
      /\ UNCHANGED <<client, calls, pending, owners, doubled>>
  BY <1>1 DEF RemoveInbound
<1>3. \A j \in Slots : inbound[j] = a <=> inbound[j] = inbound[i]
  OBVIOUS
<1> HIDE DEF a, f, ib
<1>4. Moved(epMngr, f, a, -1, NoNode, 1) /\ (BansBut(epMngr, epMngr.late) => BansBut(f, f.late))
  <2>1. NoNode \in Node \cup {NoNode} /\ reason \in Reasons \cup {"CONNECT_FAILURE"}
        /\ NoNode \notin Node
    BY PeerNetAssumption
  <2> QED BY <1>1, <1>2, <2>1, CloseMoves
<1>5. ib \in [Slots -> Addrs \cup {Free}] /\ \A j \in Slots : ib[j] = IF j = i THEN Free ELSE inbound[j]
  BY <1>1, <1>2
<1>6. ASSUME NEW b \in Addr \ f.uncounted
      PROVE  /\ In(ib, b) = In(inbound, b) + (IF b = a THEN -1 ELSE 0)
             /\ In(ib, b) <= CONNECTION_LIMIT
  <2> DEFINE X == {j \in Slots : inbound[j] = b}
  <2>1. IsFiniteSet(X) /\ In(inbound, b) \in Nat /\ b # Free
    BY InIs, PeerNetAssumption, SMTT(30)
  <2>2. In(inbound, b) <= CONNECTION_LIMIT /\ CONNECTION_LIMIT \in Nat
    <3>1. b \in Addr \ epMngr.uncounted
      BY <1>4 DEF Moved
    <3> QED BY <1>1, <3>1, PeerNetAssumption DEF Counted
  <2>3. {j \in Slots : ib[j] = b} = X \ {i}
    BY <1>5, <2>1
  <2>4. i \in X <=> b = a
    BY DEF a
  <2> HIDE DEF X
  <2>5. Cardinality(X \ {i}) = IF i \in X THEN Cardinality(X) - 1 ELSE Cardinality(X)
    BY <2>1, FS_RemoveElement
  <2>6. In(ib, b) = IF b = a THEN In(inbound, b) - 1 ELSE In(inbound, b)
    BY <2>3, <2>4, <2>5 DEF In, X
  <2> QED BY <2>1, <2>2, <2>6
<1>7. /\ Counted(f, calls, client, owners, ib)
      /\ Kept(f, calls, client, owners, doubled)
  <2>1. -1 \in Int /\ 1 \in Int
    OBVIOUS
  <2> QED BY <1>1, <1>4, <1>6, <2>1, InboundKeeps
<1>8. f \in Managers /\ Told(f, client, owners)
  BY <1>1, <1>4 DEF Moved, Told
<1>9. NetTypes'
  BY <1>1, <1>2, <1>5, <1>8 DEF NetTypes, NetInv, ib, f
<1> QED BY <1>1, <1>2, <1>4, <1>7, <1>8, <1>9 DEF NetInv, ib, f

LEMMA LeaveLoopStep ==
    ASSUME NetInv, LeaveLoop
    PROVE  NetInv'
<1>1. /\ client \in ClientStates /\ owners \in [Clients -> Nat]
      /\ calls \in SUBSET Calls /\ IsFiniteSet(calls) /\ Once(calls)
  BY DEF NetInv, NetTypes
<1>2. epMngr' \in Managers /\ BansBut(epMngr', epMngr'.late)
  BY NothingIs DEF LeaveLoop
<1>3. client' \in ClientStates
  BY <1>1, ClosedIs DEF LeaveLoop, ClientStates
<1>4. SameCalls(calls, calls')
  <2> DEFINE g == [k \in calls |-> IF owners[k.c] > 0 /\ k.res = "none"
                                   THEN [k EXCEPT !.res = "abort"] ELSE k]
             ds == calls'
  <2>1. ASSUME NEW k \in calls
        PROVE  g[k] \in Calls /\ g[k].c = k.c /\ g[k].node = k.node
    BY <1>1 DEF Calls
  <2>2. ds = {g[k] : k \in calls}
    BY DEF LeaveLoop
  <2>3. Renames(g, calls, ds)
    <3> HIDE DEF ds
    <3> QED BY <2>1, <2>2 DEF Renames
  <2> HIDE DEF g, ds
  <2>4. SameCalls(calls, ds)
    BY <1>1, <2>3, RenamedSame
  <2> QED BY <2>4 DEF ds
<1>5. owners' \in [Clients -> Nat] /\ inbound' \in [Slots -> Addrs \cup {Free}] /\ ~ running'
  BY DEF LeaveLoop
<1>6. NetTypes'
  BY <1>2, <1>3, <1>4, <1>5 DEF NetInv, NetTypes, LeaveLoop, SameCalls
<1> QED BY <1>2, <1>4, <1>5, <1>6 DEF NetInv, SameCalls

LEMMA NoPeerUse ==
    ASSUME NEW cl \in ClientStates, NEW ow \in [Clients -> Nat], NEW n \in Node,
           NEW c \in Clients, ow[c] > 0, Remote(cl, c).node = n
    PROVE  <<c, 1>> \in PeersIn(cl, ow, AddrOf[n])
<1>1. Remote(cl, c).addr = AddrOf[n]
  BY RemoteIs, EpsAre
<1>2. 1 \in 1..ow[c]
  OBVIOUS
<1> QED BY <1>1, <1>2, PeersAre

ClosedAt(cl, ow, c, cl2, ow2) ==
    /\ cl2 \in ClientStates /\ cl2[c].ep = NoEp /\ cl2[c].sock = NoEp
    /\ \A d \in Clients : d # c => cl2[d] = cl[d]
    /\ \A b \in Addr : ow[c] = 0 \/ b # Remote(cl, c).addr => Agree(cl, ow, cl2, ow2, b)
    /\ \A b \in Addr : \A x \in PeersIn(cl2, ow2, b) :
          x \in PeersIn(cl, ow, b) /\ \A i : x # <<c, i>>

\* A socket that is closed is nobody's connection.
LEMMA ClosedAgrees ==
    ASSUME NEW cl \in ClientStates, NEW ow \in [Clients -> Nat], NEW c \in Clients,
           NEW ow2 \in [Clients -> Nat], \A d \in Clients : d # c => ow2[d] = ow[d],
           NEW cl2, cl2 = [cl EXCEPT ![c] = Closed]
    PROVE  ClosedAt(cl, ow, c, cl2, ow2)
<1>1. /\ cl2 \in ClientStates /\ cl2[c] = Closed
      /\ \A d \in Clients : d # c => cl2[d] = cl[d]
  BY ClosedIs DEF ClientStates
<1>2. ASSUME NEW d \in Clients, d # c
      PROVE  Remote(cl2, d) = Remote(cl, d) /\ ow2[d] = ow[d]
  BY <1>1, <1>2 DEF Remote
<1>3. \A b \in Addr : Remote(cl2, c).addr # b
  BY <1>1, ClosedIs, PeerNetAssumption DEF Remote
<1>4. ASSUME NEW b \in Addr, ow[c] = 0 \/ b # Remote(cl, c).addr
      PROVE  Agree(cl, ow, cl2, ow2, b)
  <2> SUFFICES ASSUME NEW d \in Clients,
                      \/ ow[d] > 0 /\ Remote(cl, d).addr = b
                      \/ ow2[d] > 0 /\ Remote(cl2, d).addr = b
               PROVE  ow2[d] = ow[d] /\ Remote(cl2, d) = Remote(cl, d)
    BY DEF Agree
  <2>1. ow[c] = 0 => ~ (ow[c] > 0)
    OBVIOUS
  <2>2. d # c
    BY <1>3, <1>4, <2>1
  <2> QED BY <1>2, <2>2
<1>5. ASSUME NEW b \in Addr, NEW x \in PeersIn(cl2, ow2, b)
      PROVE  x \in PeersIn(cl, ow, b) /\ \A i : x # <<c, i>>
  <2>1. PICK d \in Clients : \E i \in 1..ow2[d] : Remote(cl2, d).addr = b /\ x = <<d, i>>
    BY PeersAre
  <2>2. PICK i \in 1..ow2[d] : Remote(cl2, d).addr = b /\ x = <<d, i>>
    BY <2>1
  <2>3. d # c
    BY <1>3, <2>2
  <2>4. i \in 1..ow[d] /\ Remote(cl, d).addr = b
    BY <1>2, <2>2, <2>3
  <2>5. x \in PeersIn(cl, ow, b)
    BY <2>2, <2>4, PeersAre
  <2> QED BY <2>2, <2>3, <2>5
<1> QED BY <1>1, <1>4, <1>5, ClosedIs DEF ClosedAt

LEMMA RemoveOutboundStep ==
    ASSUME NetInv, NEW c \in Clients, NEW reason \in Reasons, RemoveOutbound(c, reason)
    PROVE  NetInv'
<1>1. /\ epMngr \in Managers /\ client \in ClientStates /\ owners \in [Clients -> Nat]
      /\ calls \in SUBSET Calls /\ IsFiniteSet(calls) /\ Once(calls)
      /\ Told(epMngr, client, owners) /\ Counted(epMngr, calls, client, owners, inbound)
      /\ Kept(epMngr, calls, client, owners, doubled)
      /\ BansBut(epMngr, epMngr.late) /\ running /\ running' = running /\ owners[c] > 0
  BY DEF NetInv, NetTypes, RemoveOutbound
<1> DEFINE ep == Remote(client, c)
           a == ep.addr
           n == ep.node
           f == epMngr'
           ds == calls'
           cl == client'
           ow == owners'
<1>2. /\ ep \in Eps /\ a \in Addrs /\ n \in Node \cup {NoNode} /\ ep = [addr |-> a, node |-> n]
      /\ n \in Node => AddrOf[n] = a
      /\ a \in Addr => n \in Node
  <2>1. ep \in Eps
    BY <1>1, RemoteIs
  <2> HIDE DEF ep
  <2> QED BY <2>1, EpsAre
<1>3. /\ f \in CloseEndpoint(epMngr, ep, reason) /\ cl = [client EXCEPT ![c] = Closed]
      /\ ow = [owners EXCEPT ![c] = owners[c] - 1]
      /\ ds = IF client[c].open THEN Abort(calls, c) ELSE calls
  BY DEF RemoveOutbound, Remote
<1>3a. Remote(client, c).addr = a /\ Remote(client, c).node = n
  OBVIOUS
<1> HIDE DEF f, ds, cl, ow, ep
<1>4. Moved(epMngr, f, a, -1, n, 1) /\ BansBut(f, f.late)
  <2>1. f \in CloseEndpoint(epMngr, [addr |-> a, node |-> n], reason)
    BY <1>2, <1>3
  <2>2. reason \in Reasons \cup {"CONNECT_FAILURE"}
    OBVIOUS
  <2> HIDE DEF a, n
  <2> QED BY <1>1, <1>2, <2>1, <2>2, CloseMoves
<1> HIDE DEF a, n
<1>5. SameCalls(calls, ds)
  BY <1>1, <1>3, AbortSame, SameItself
<1>6. ow \in [Clients -> Nat] /\ \A d \in Clients : d # c => ow[d] = owners[d]
  <2>1. owners[c] - 1 \in Nat
    BY <1>1
  <2> QED BY <1>1, <1>3, <2>1
<1>7. /\ cl \in ClientStates /\ cl[c].ep = NoEp /\ cl[c].sock = NoEp
      /\ \A d \in Clients : d # c => cl[d] = client[d]
      /\ \A b \in Addr : owners[c] = 0 \/ b # Remote(client, c).addr
                             => Agree(client, owners, cl, ow, b)
      /\ \A b \in Addr : \A x \in PeersIn(cl, ow, b) :
            x \in PeersIn(client, owners, b) /\ \A i : x # <<c, i>>
  <2>1. ClosedAt(client, owners, c, cl, ow)
    BY <1>1, <1>3, <1>6, ClosedAgrees
  <2> QED BY <2>1 DEF ClosedAt
<1>8. f \in Managers /\ epMngr.uncounted \subseteq f.uncounted
  BY <1>4 DEF Moved
<1>9. ASSUME a \in Addr \ f.uncounted
      PROVE  /\ Out(calls, client, owners, a) >= 1 /\ n \in Node /\ Uses(calls, client, owners, n)
             /\ \A m \in Node : AddrOf[m] = a /\ m # n => ~ Uses(calls, client, owners, m)
             /\ ConnectsIn(ds, a) = {} /\ PeersIn(cl, ow, a) = {}
  <2>1. Out(calls, client, owners, a) <= 1
    BY <1>1, <1>8, <1>9 DEF Counted
  <2>2. /\ ConnectsIn(calls, a) = {} /\ PeersIn(client, owners, a) = {<<c, 1>>}
        /\ owners[c] = 1
    <3>1. /\ IsFiniteSet(calls) /\ owners \in [Clients -> Nat] /\ owners[c] > 0
          /\ Remote(client, c).addr = a /\ Out(calls, client, owners, a) <= 1
      BY <1>1, <1>3a, <2>1
    <3> QED BY <3>1, SolePeer
  <2>3. Out(calls, client, owners, a) >= 1
    <3>1. Cardinality(PeersIn(client, owners, a)) = 1 /\ Cardinality(ConnectsIn(calls, a)) = 0
      BY <2>2, FS_Singleton, FS_EmptySet
    <3> QED BY <3>1 DEF Out
  <2>4. n \in Node
    BY <1>2, <1>9
  <2>5. Uses(calls, client, owners, n)
    BY <1>1, <1>3a DEF Uses, PeerUses
  <2>6. ASSUME NEW m \in Node, AddrOf[m] = a, m # n
        PROVE  ~ Uses(calls, client, owners, m)
    <3>1. ~ CallUses(calls, m)
      BY <2>2, <2>6 DEF CallUses, ConnectsIn
    <3>2. ASSUME NEW d \in Clients, owners[d] > 0, Remote(client, d).node = m
          PROVE  FALSE
      <4>1. <<d, 1>> \in PeersIn(client, owners, a)
        BY <1>1, <2>6, <3>2, NoPeerUse
      <4>2. d = c
        BY <2>2, <4>1
      <4> QED BY <1>3a, <2>6, <3>2, <4>2
    <3> QED BY <3>1, <3>2 DEF Uses, PeerUses
  <2>7. ConnectsIn(ds, a) = {}
    <3>1. Cardinality(ConnectsIn(ds, a)) = 0
      BY <1>5, <2>2, FS_EmptySet DEF SameCalls
    <3>2. IsFiniteSet(ConnectsIn(ds, a))
      BY <1>5, <1>6, OutIs DEF SameCalls
    <3> QED BY <3>1, <3>2, FS_EmptySet
  <2>8. PeersIn(cl, ow, a) = {}
    BY <1>7, <1>9, <2>2
  <2> QED BY <2>3, <2>4, <2>5, <2>6, <2>7, <2>8
<1>10. Counted(f, ds, cl, ow, inbound) /\ Kept(f, ds, cl, ow, doubled)
  <2>1. IsFiniteSet(ds) /\ \A m : CallUses(ds, m) <=> CallUses(calls, m)
    BY <1>5 DEF SameCalls
  <2>2. \A b \in Addr \ f.uncounted : b # a =>
            /\ Agree(client, owners, cl, ow, b)
            /\ Cardinality(ConnectsIn(ds, b)) = Cardinality(ConnectsIn(calls, b))
    BY <1>3a, <1>5, <1>7 DEF SameCalls
  <2>3. \A m \in Node : AddrOf[m] # a => (CallUses(ds, m) <=> CallUses(calls, m))
    BY <2>1
  <2>4. a \in Addr \ f.uncounted =>
            /\ Out(calls, client, owners, a) >= 1 /\ n \in Node /\ Uses(calls, client, owners, n)
            /\ \A m \in Node : AddrOf[m] = a /\ m # n => ~ Uses(calls, client, owners, m)
            /\ ConnectsIn(ds, a) = {} /\ PeersIn(cl, ow, a) = {}
    BY <1>9
  <2>5. /\ a \in Addrs /\ n \in Node \cup {NoNode} /\ (n \in Node => AddrOf[n] = a)
        /\ cl \in ClientStates /\ ow \in [Clients -> Nat] /\ IsFiniteSet(ds)
    BY <1>2, <1>6, <1>7, <2>1
  <2> QED BY <1>1, <1>4, <2>2, <2>3, <2>4, <2>5, ClosingKeeps, SMTT(30)
<1>11. Told(f, cl, ow)
  <2> SUFFICES ASSUME NEW d \in Clients, ow[d] > 0, cl[d].ep = NoEp
               PROVE  cl[d].sock = NoEp \/ cl[d].sock.addr \in f.uncounted
    BY DEF Told
  <2> QED BY <1>1, <1>6, <1>7, <1>8 DEF Told
<1>12. NetTypes'
  BY <1>1, <1>5, <1>6, <1>7, <1>8 DEF NetInv, NetTypes, RemoveOutbound, SameCalls, f, ds, cl, ow
<1> QED BY <1>1, <1>4, <1>5, <1>10, <1>11, <1>12 DEF NetInv, RemoveOutbound, SameCalls, f, ds, cl, ow

\* The connect k is over: the other addresses have theirs.
LEMMA CallGone ==
    ASSUME NEW cs \in SUBSET Calls, IsFiniteSet(cs), Once(cs), NEW k \in cs
    PROVE  /\ cs \ {k} \in SUBSET Calls /\ IsFiniteSet(cs \ {k}) /\ Once(cs \ {k})
           /\ \A b : b # AddrOf[k.node] => ConnectsIn(cs \ {k}, b) = ConnectsIn(cs, b)
           /\ \A m \in Node : m # k.node => (CallUses(cs \ {k}, m) <=> CallUses(cs, m))
           /\ ConnectsIn(cs, AddrOf[k.node]) = {k} => ConnectsIn(cs \ {k}, AddrOf[k.node]) = {}
<1>1. IsFiniteSet(cs \ {k})
  BY FS_RemoveElement
<1>2. Once(cs \ {k})
  BY DEF Once
<1>3. \A b : b # AddrOf[k.node] => ConnectsIn(cs \ {k}, b) = ConnectsIn(cs, b)
  BY DEF ConnectsIn
<1>4. \A m \in Node : m # k.node => (CallUses(cs \ {k}, m) <=> CallUses(cs, m))
  BY DEF CallUses
<1>5. ConnectsIn(cs, AddrOf[k.node]) = {k} => ConnectsIn(cs \ {k}, AddrOf[k.node]) = {}
  BY DEF ConnectsIn
<1> QED BY <1>1, <1>2, <1>3, <1>4, <1>5

\* The connect k that is the only connection of its address makes the only use of a node.
LEMMA SoleCall ==
    ASSUME NEW cs, IsFiniteSet(cs), NEW cl \in ClientStates, NEW ow \in [Clients -> Nat],
           NEW k \in cs, k.node \in Node, Out(cs, cl, ow, AddrOf[k.node]) <= 1
    PROVE  /\ ConnectsIn(cs, AddrOf[k.node]) = {k} /\ PeersIn(cl, ow, AddrOf[k.node]) = {}
           /\ Out(cs, cl, ow, AddrOf[k.node]) = 1 /\ Uses(cs, cl, ow, k.node)
           /\ \A m \in Node : AddrOf[m] = AddrOf[k.node] /\ m # k.node => ~ Uses(cs, cl, ow, m)
<1> DEFINE a == AddrOf[k.node]
<1>1. ConnectsIn(cs, a) = {k} /\ PeersIn(cl, ow, a) = {}
  BY SoleConnect
<1>2. Out(cs, cl, ow, a) = 1
  <2>1. Cardinality(ConnectsIn(cs, a)) = 1 /\ Cardinality(PeersIn(cl, ow, a)) = 0
    BY <1>1, FS_Singleton, FS_EmptySet
  <2> QED BY <2>1 DEF Out
<1>3. Uses(cs, cl, ow, k.node)
  BY DEF Uses, CallUses
<1>4. ASSUME NEW m \in Node, AddrOf[m] = a, m # k.node
      PROVE  ~ Uses(cs, cl, ow, m)
  <2>1. ~ CallUses(cs, m)
    BY <1>1, <1>4 DEF CallUses, ConnectsIn
  <2>2. ASSUME NEW d \in Clients, ow[d] > 0, Remote(cl, d).node = m
        PROVE  FALSE
    <3>1. <<d, 1>> \in PeersIn(cl, ow, AddrOf[m])
      BY <2>2, NoPeerUse
    <3> QED BY <1>1, <1>4, <3>1
  <2> QED BY <2>1, <2>2 DEF Uses, PeerUses
<1> QED BY <1>1, <1>2, <1>3, <1>4

LEMMA ConnectLostStep ==
    ASSUME NetInv, NEW k \in calls, HandleConnect(k), ConnResult(k) # "ok"
    PROVE  NetInv'
<1>1. /\ epMngr \in Managers /\ client \in ClientStates /\ owners \in [Clients -> Nat]
      /\ calls \in SUBSET Calls /\ IsFiniteSet(calls) /\ Once(calls)
      /\ Told(epMngr, client, owners) /\ Counted(epMngr, calls, client, owners, inbound)
      /\ Kept(epMngr, calls, client, owners, doubled)
      /\ BansBut(epMngr, epMngr.late) /\ running /\ running' = running
      /\ owners' = owners /\ inbound' = inbound /\ doubled' = doubled
  BY DEF NetInv, NetTypes, HandleConnect
<1> DEFINE c == k.c
           n == k.node
           a == AddrOf[n]
           err == ConnResult(k) = "err"
           e == IF err THEN Lose(epMngr, HeldAddr(c)) ELSE epMngr
           f == epMngr'
           ds == calls'
           cl == client'
           as == calls \ {k}
<1>2. c \in Clients /\ n \in Node /\ a \in Addr /\ a \in Addrs
  BY <1>1, PeerNetAssumption DEF Calls, Addrs
<1>3. /\ f \in CloseEndpoint(e, EpOf(n), "CONNECT_FAILURE")
      /\ cl = IF err THEN [client EXCEPT ![c] = Closed] ELSE client
      /\ ds = IF err THEN Abort(as, c) ELSE as
  BY DEF HandleConnect
<1>4. /\ as \in SUBSET Calls /\ IsFiniteSet(as) /\ Once(as)
      /\ \A b : b # a => ConnectsIn(as, b) = ConnectsIn(calls, b)
      /\ \A m \in Node : m # n => (CallUses(as, m) <=> CallUses(calls, m))
      /\ ConnectsIn(calls, a) = {k} => ConnectsIn(as, a) = {}
  BY <1>1, CallGone
<1>5. HeldAddr(c) = IF owners[c] > 0 THEN {Remote(client, c).addr} ELSE {}
  BY DEF HeldAddr, Remote
<1>6. HeldAddr(c) \in SUBSET Addrs
  BY <1>1, <1>2, <1>5, RemoteIs, EpsAre
<1>6a. Calls = Calls /\ k \in calls /\ k.node = n /\ AddrOf[k.node] = a
  OBVIOUS
<1> HIDE DEF err, f, ds, cl, as
<1>7. e \in Managers /\ Steady(epMngr, e) /\ (err => HeldAddr(c) \ {NoAddr} \subseteq e.uncounted)
  <2> DEFINE xs == HeldAddr(c)
  <2> HIDE DEF xs, c
  <2>1. /\ Lose(epMngr, xs).uncounted = epMngr.uncounted \cup (xs \ {NoAddr})
        /\ Steady(epMngr, Lose(epMngr, xs))
    <3>1. xs \in SUBSET Addrs
      BY <1>6 DEF xs
    <3> QED BY <1>1, <3>1, LoseIs
  <2>2. Lose(epMngr, xs) \in Managers
    BY <2>1 DEF Steady, Still, Moved
  <2>3. Steady(epMngr, epMngr)
    BY <1>1, SteadySelf
  <2> QED BY <1>1, <2>1, <2>2, <2>3 DEF xs
<1> HIDE DEF e
<1>8. Moved(epMngr, f, a, -1, n, 1) /\ BansBut(f, f.late) /\ e.uncounted \subseteq f.uncounted
  <2>1. EpOf(n) = [addr |-> a, node |-> n]
    BY DEF EpOf
  <2>2. f \in CloseEndpoint(e, [addr |-> a, node |-> n], "CONNECT_FAILURE")
    BY <1>3, <2>1
  <2>3. n \in Node \cup {NoNode} /\ "CONNECT_FAILURE" \in Reasons \cup {"CONNECT_FAILURE"}
        /\ (n \in Node => AddrOf[n] = a)
    BY <1>2
  <2> HIDE DEF a, n
  <2>4. Moved(e, f, a, -1, n, 1) /\ (BansBut(e, e.late) => BansBut(f, f.late))
    BY <1>2, <1>7, <2>2, <2>3, CloseMoves
  <2>5. Still(epMngr, e) /\ -1 \in Int /\ 1 \in Int
    BY <1>7 DEF Steady
  <2>6. Moved(epMngr, f, a, -1, n, 1)
    BY <1>1, <2>4, <2>5, StillThen
  <2>7. epMngr.late \in SUBSET Addrs
    BY <1>1, NodesAre
  <2>8. BansBut(e, e.late)
    BY <1>1, <1>7, <2>7 DEF Steady
  <2>9. e.uncounted \subseteq f.uncounted
    BY <2>4 DEF Moved
  <2> QED BY <2>4, <2>6, <2>8, <2>9
<1> HIDE DEF a, n, c
<1>9. SameCalls(as, ds)
  BY <1>3, <1>4, AbortSame, SameItself
<1>10. /\ cl \in ClientStates
       /\ \A d \in Clients : cl[d] = client[d] \/ (cl[d].ep = NoEp /\ cl[d].sock = NoEp)
       /\ \A b \in Addr \ f.uncounted : Agree(client, owners, cl, owners, b)
       /\ \A b \in Addr : \A x \in PeersIn(cl, owners, b) : x \in PeersIn(client, owners, b)
  <2>1. CASE err
    <3>1. ClosedAt(client, owners, c, cl, owners)
      BY <1>1, <1>2, <1>3, <2>1, ClosedAgrees
    <3>2. \A b \in Addr \ f.uncounted : owners[c] = 0 \/ b # Remote(client, c).addr
      <4>1. owners[c] \in Nat
        BY <1>1, <1>2
      <4>2. owners[c] > 0 => Remote(client, c).addr \in f.uncounted \cup {NoAddr}
        BY <1>5, <1>7, <1>8, <2>1
      <4> QED BY <4>1, <4>2, PeerNetAssumption
    <3>3. /\ cl \in ClientStates /\ cl[c].ep = NoEp /\ cl[c].sock = NoEp
          /\ \A d \in Clients : d # c => cl[d] = client[d]
      BY <3>1 DEF ClosedAt
    <3>4. \A b \in Addr \ f.uncounted : Agree(client, owners, cl, owners, b)
      BY <3>1, <3>2 DEF ClosedAt
    <3>5. \A b \in Addr : \A x \in PeersIn(cl, owners, b) : x \in PeersIn(client, owners, b)
      BY <3>1 DEF ClosedAt
    <3>6. \A d \in Clients : cl[d] = client[d] \/ (cl[d].ep = NoEp /\ cl[d].sock = NoEp)
      BY <3>3
    <3> QED BY <3>3, <3>4, <3>5, <3>6
  <2>2. CASE ~ err
    <3>1. cl = client
      BY <1>3, <2>2
    <3>2. \A b : Agree(client, owners, client, owners, b)
      BY AgreeSelf
    <3> QED BY <1>1, <3>1, <3>2
  <2> QED BY <2>1, <2>2
<1>11. f \in Managers /\ epMngr.uncounted \subseteq f.uncounted
  BY <1>8 DEF Moved
<1>12. ASSUME a \in Addr \ f.uncounted
       PROVE  /\ Out(calls, client, owners, a) >= 1 /\ n \in Node /\ Uses(calls, client, owners, n)
              /\ \A m \in Node : AddrOf[m] = a /\ m # n => ~ Uses(calls, client, owners, m)
              /\ ConnectsIn(ds, a) = {} /\ PeersIn(cl, owners, a) = {}
  <2>1. Out(calls, client, owners, a) <= 1
    BY <1>1, <1>11, <1>12 DEF Counted
  <2>2. /\ ConnectsIn(calls, a) = {k} /\ PeersIn(client, owners, a) = {}
        /\ Out(calls, client, owners, a) = 1 /\ Uses(calls, client, owners, n)
        /\ \A m \in Node : AddrOf[m] = a /\ m # n => ~ Uses(calls, client, owners, m)
    <3>1. /\ IsFiniteSet(calls) /\ client \in ClientStates /\ owners \in [Clients -> Nat]
          /\ k.node \in Node /\ Out(calls, client, owners, AddrOf[k.node]) <= 1
      BY <1>1, <1>2, <1>6a, <2>1
    <3>2. /\ ConnectsIn(calls, AddrOf[k.node]) = {k}
          /\ PeersIn(client, owners, AddrOf[k.node]) = {}
          /\ Out(calls, client, owners, AddrOf[k.node]) = 1 /\ Uses(calls, client, owners, k.node)
          /\ \A m \in Node : AddrOf[m] = AddrOf[k.node] /\ m # k.node => ~ Uses(calls, client, owners, m)
      BY <3>1, SoleCall
    <3> QED BY <1>6a, <3>2
  <2>3. ConnectsIn(ds, a) = {}
    <3>1. Cardinality(ConnectsIn(ds, a)) = 0
      <4>1. ConnectsIn(as, a) = {}
        BY <1>4, <2>2
      <4>2. Cardinality(ConnectsIn(as, a)) = 0
        BY <4>1, FS_EmptySet
      <4> QED BY <1>9, <4>2 DEF SameCalls
    <3>2. IsFiniteSet(ConnectsIn(ds, a))
      BY <1>1, <1>9, OutIs DEF SameCalls
    <3> QED BY <3>1, <3>2, FS_EmptySet
  <2>4. PeersIn(cl, owners, a) = {}
    BY <1>10, <1>12, <2>2
  <2> QED BY <1>2, <2>2, <2>3, <2>4
<1>13. Counted(f, ds, cl, owners, inbound) /\ Kept(f, ds, cl, owners, doubled)
  <2>1. IsFiniteSet(ds) /\ n \in Node \cup {NoNode} /\ (n \in Node => AddrOf[n] = a)
    BY <1>2, <1>6a, <1>9 DEF SameCalls
  <2>2. \A m \in Node : AddrOf[m] # a => (CallUses(ds, m) <=> CallUses(calls, m))
    BY <1>4, <1>9, <2>1 DEF SameCalls
  <2>3. \A b \in Addr \ f.uncounted : b # a =>
            /\ Agree(client, owners, cl, owners, b)
            /\ Cardinality(ConnectsIn(ds, b)) = Cardinality(ConnectsIn(calls, b))
    BY <1>4, <1>9, <1>10 DEF SameCalls
  <2> QED BY <1>1, <1>2, <1>8, <1>10, <1>12, <2>1, <2>2, <2>3, ClosingKeeps
<1>14. Told(f, cl, owners)
  BY <1>1, <1>10, <1>11 DEF Told
<1>15. NetTypes'
  <2>1. pending' \subseteq [c : Clients, node : Node]
    BY DEF NetInv, NetTypes, HandleConnect
  <2> QED BY <1>1, <1>9, <1>10, <1>11, <2>1 DEF NetInv, NetTypes, SameCalls, f, ds, cl
<1> QED BY <1>1, <1>8, <1>9, <1>13, <1>14, <1>15 DEF NetInv, SameCalls, f, ds, cl

\* A connect becomes a CPeer: the one connection of its address, or one that lost track.
LEMMA ConnectedStep ==
    ASSUME NetInv, NEW k \in calls, HandleConnect(k), ConnResult(k) = "ok"
    PROVE  NetInv'
<1>1. /\ epMngr \in Managers /\ client \in ClientStates /\ owners \in [Clients -> Nat]
      /\ calls \in SUBSET Calls /\ IsFiniteSet(calls) /\ Once(calls)
      /\ Told(epMngr, client, owners) /\ Counted(epMngr, calls, client, owners, inbound)
      /\ Kept(epMngr, calls, client, owners, doubled)
      /\ BansBut(epMngr, epMngr.late) /\ running /\ running' = running
      /\ inbound' = inbound /\ doubled' = doubled
  BY DEF NetInv, NetTypes, HandleConnect
<1> DEFINE c == k.c
           n == k.node
           a == AddrOf[n]
           ep == Remote(client, c)
           lost == ep # EpOf(n) \/ owners[c] > 0
           xs == {a, ep.addr}
           f == epMngr'
           ds == calls'
           cl == client'
           ow == owners'
<1>2. c \in Clients /\ n \in Node /\ a \in Addr /\ a \in Addrs
  BY <1>1, PeerNetAssumption DEF Calls, Addrs
<1>3. /\ f = IF lost THEN Lose(epMngr, xs) ELSE epMngr
      /\ cl = [client EXCEPT ![c].ep = ep] /\ ow = [owners EXCEPT ![c] = owners[c] + 1]
      /\ ds = calls \ {k}
  BY DEF HandleConnect, ClientConnected, AddNewPeer, Remote
<1>4. /\ ds \in SUBSET Calls /\ IsFiniteSet(ds) /\ Once(ds)
      /\ \A b : b # a => ConnectsIn(ds, b) = ConnectsIn(calls, b)
      /\ \A m \in Node : m # n => (CallUses(ds, m) <=> CallUses(calls, m))
      /\ ConnectsIn(calls, a) = {k} => ConnectsIn(ds, a) = {}
  <2>1. ds = calls \ {k}
    BY <1>3
  <2> HIDE DEF ds
  <2> QED BY <1>1, <2>1, CallGone
<1>5. /\ ep \in Eps /\ ep.addr \in Addrs
      /\ ep = IF client[c].ep # NoEp THEN client[c].ep ELSE client[c].sock
  <2>1. ep \in Eps /\ ep = IF client[c].ep # NoEp THEN client[c].ep ELSE client[c].sock
    BY <1>1, <1>2, RemoteIs
  <2> HIDE DEF ep
  <2> QED BY <2>1, EpsAre
<1>6. k.node = n /\ AddrOf[n] = a /\ Remote(client, c) = ep /\ xs = {a, ep.addr}
  OBVIOUS
<1> HIDE DEF f, ds, cl, ow, ep
<1>7. /\ cl \in ClientStates /\ cl[c].ep = ep /\ cl[c].sock = client[c].sock
      /\ \A d \in Clients : d # c => cl[d] = client[d]
  BY <1>1, <1>2, <1>3, <1>5 DEF ClientStates
<1>8. \A d \in Clients : Remote(cl, d) = Remote(client, d)
  <2>1. Remote(cl, c) = ep
    BY <1>5, <1>7 DEF Remote, GetRemote
  <2> QED BY <1>6, <1>7, <2>1 DEF Remote
<1>9. ow \in [Clients -> Nat] /\ ow[c] = owners[c] + 1 /\ \A d \in Clients : d # c => ow[d] = owners[d]
  BY <1>1, <1>2, <1>3
<1> HIDE DEF c, n, a
<1>10. /\ Steady(epMngr, f) /\ epMngr.uncounted \subseteq f.uncounted
       /\ lost => a \in f.uncounted /\ ep.addr \in f.uncounted \cup {NoAddr}
       /\ ~ lost => f = epMngr
  <2>1. xs \in SUBSET Addrs /\ a # NoAddr
    BY <1>2, <1>5, PeerNetAssumption
  <2>2. a \in xs /\ ep.addr \in xs
    OBVIOUS
  <2> HIDE DEF xs, lost
  <2>3. /\ Lose(epMngr, xs).uncounted = epMngr.uncounted \cup (xs \ {NoAddr})
        /\ Steady(epMngr, Lose(epMngr, xs))
    BY <1>1, <2>1, LoseIs
  <2>4. Steady(epMngr, epMngr)
    BY <1>1, SteadySelf
  <2>5. CASE lost
    BY <1>3, <2>1, <2>2, <2>3, <2>5
  <2>6. CASE ~ lost
    BY <1>3, <2>4, <2>6
  <2> QED BY <2>5, <2>6
<1>11. ASSUME NEW b \in Addr \ f.uncounted, b # a
       PROVE  SameBooks(calls, client, owners, ds, cl, ow, b)
  <2>1. Agree(client, owners, cl, ow, b)
    <3>1. ASSUME Remote(client, c).addr = b
          PROVE  FALSE
      <4>1. ~ lost
        BY <1>6, <1>10, <1>11, <3>1, PeerNetAssumption
      <4>2. ep = EpOf(n)
        BY <4>1
      <4>3. EpOf(n).addr = a
        BY <1>6 DEF EpOf
      <4> QED BY <1>6, <1>11, <3>1, <4>2, <4>3
    <3> QED BY <1>8, <1>9, <3>1 DEF Agree
  <2>2. ConnectsIn(ds, b) = ConnectsIn(calls, b)
    BY <1>4, <1>11
  <2>3. \A m \in Node : AddrOf[m] = b => (CallUses(ds, m) <=> CallUses(calls, m))
    BY <1>4, <1>6, <1>11
  <2> QED BY <1>1, <1>7, <1>9, <2>1, <2>2, <2>3, BooksSame
<1>12. ASSUME a \in Addr \ f.uncounted
       PROVE  SameBooks(calls, client, owners, ds, cl, ow, a)
  <2>1. ep = EpOf(n) /\ owners[c] = 0
    <3>1. ~ lost
      BY <1>10, <1>12
    <3>2. owners[c] \in Nat
      BY <1>1, <1>2
    <3> QED BY <3>1, <3>2
  <2>2. ep.addr = a /\ ep.node = n
    BY <1>6, <2>1 DEF EpOf
  <2>3. /\ ConnectsIn(calls, a) = {k} /\ PeersIn(client, owners, a) = {}
        /\ Out(calls, client, owners, a) = 1 /\ Uses(calls, client, owners, n)
        /\ \A m \in Node : AddrOf[m] = a /\ m # n => ~ Uses(calls, client, owners, m)
    <3>1. /\ IsFiniteSet(calls) /\ client \in ClientStates /\ owners \in [Clients -> Nat]
          /\ k.node \in Node /\ Out(calls, client, owners, AddrOf[k.node]) <= 1
      <4>1. Out(calls, client, owners, a) <= 1
        BY <1>1, <1>10, <1>12 DEF Counted
      <4> QED BY <1>1, <1>2, <1>6, <4>1
    <3>2. /\ ConnectsIn(calls, AddrOf[k.node]) = {k}
          /\ PeersIn(client, owners, AddrOf[k.node]) = {}
          /\ Out(calls, client, owners, AddrOf[k.node]) = 1 /\ Uses(calls, client, owners, k.node)
          /\ \A m \in Node : AddrOf[m] = AddrOf[k.node] /\ m # k.node => ~ Uses(calls, client, owners, m)
      BY <3>1, SoleCall
    <3> QED BY <1>6, <3>2
  <2> DEFINE x == <<c, 1>>
  <2>4. PeersIn(cl, ow, a) = {x}
    <3>1. x \in PeersIn(cl, ow, a)
      <4>1. 1 \in 1..ow[c] /\ Remote(cl, c).addr = a
        BY <1>2, <1>6, <1>8, <1>9, <2>1, <2>2
      <4> QED BY <1>2, <4>1, PeersAre
    <3>2. ASSUME NEW y \in PeersIn(cl, ow, a)
          PROVE  y = x
      <4>1. PICK d \in Clients : \E i \in 1..ow[d] : Remote(cl, d).addr = a /\ y = <<d, i>>
        BY PeersAre
      <4>2. PICK i \in 1..ow[d] : Remote(cl, d).addr = a /\ y = <<d, i>>
        BY <4>1
      <4>3. CASE d # c
        <5>1. i \in 1..owners[d] /\ Remote(client, d).addr = a
          BY <1>8, <1>9, <4>2, <4>3
        <5>2. y \in PeersIn(client, owners, a)
          BY <4>2, <5>1, PeersAre
        <5> QED BY <2>3, <5>2
      <4>4. CASE d = c
        <5>1. i = 1
          BY <1>9, <2>1, <4>2, <4>4
        <5> QED BY <4>2, <4>4, <5>1
      <4> QED BY <4>3, <4>4
    <3> QED BY <3>1, <3>2
  <2>5. ConnectsIn(ds, a) = {}
    BY <1>4, <2>3
  <2>6. Out(ds, cl, ow, a) = 1
    <3> HIDE DEF x
    <3>1. Cardinality(PeersIn(cl, ow, a)) = 1 /\ Cardinality(ConnectsIn(ds, a)) = 0
      BY <2>4, <2>5, FS_Singleton, FS_EmptySet
    <3> QED BY <3>1 DEF Out
  <2>7. Uses(ds, cl, ow, n)
    <3>1. ow[c] > 0 /\ Remote(cl, c).node = n
      BY <1>2, <1>6, <1>8, <1>9, <2>1, <2>2
    <3> QED BY <1>2, <3>1 DEF Uses, PeerUses
  <2>8. ASSUME NEW m \in Node, AddrOf[m] = a, m # n
        PROVE  ~ Uses(ds, cl, ow, m)
    <3>1. ~ CallUses(ds, m)
      BY <2>5, <2>8 DEF CallUses, ConnectsIn
    <3>2. ASSUME NEW d \in Clients, ow[d] > 0, Remote(cl, d).node = m
          PROVE  FALSE
      <4>1. <<d, 1>> \in PeersIn(cl, ow, AddrOf[m])
        BY <1>7, <1>9, <3>2, NoPeerUse
      <4>2. d = c
        BY <2>4, <2>8, <4>1
      <4> QED BY <1>6, <1>8, <2>2, <2>8, <3>2, <4>2
    <3> QED BY <3>1, <3>2 DEF Uses, PeerUses
  <2> QED BY <2>3, <2>6, <2>7, <2>8 DEF SameBooks
<1>13. Counted(f, ds, cl, ow, inbound) /\ Kept(f, ds, cl, ow, doubled)
  <2>1. \A b \in Addr \ f.uncounted : SameBooks(calls, client, owners, ds, cl, ow, b)
    BY <1>11, <1>12
  <2>2. Still(epMngr, f)
    BY <1>10 DEF Steady
  <2> QED BY <1>1, <2>1, <2>2, BooksKept
<1>14. f \in Managers /\ BansBut(f, f.late)
  <2>1. epMngr.late \in SUBSET Addrs /\ f.late = epMngr.late
    BY <1>1, <1>10, NodesAre DEF Steady
  <2> QED BY <1>1, <1>10, <2>1 DEF Steady, Still, Moved
<1>15. Told(f, cl, ow)
  <2> SUFFICES ASSUME NEW d \in Clients, ow[d] > 0, cl[d].ep = NoEp
               PROVE  cl[d].sock = NoEp \/ cl[d].sock.addr \in f.uncounted
    BY DEF Told
  <2>1. CASE d = c
    BY <1>5, <1>7, <2>1
  <2>2. CASE d # c
    BY <1>1, <1>7, <1>9, <1>10, <2>2 DEF Told
  <2> QED BY <2>1, <2>2
<1>16. NetTypes'
  <2>1. pending' \subseteq [c : Clients, node : Node]
    BY DEF NetInv, NetTypes, HandleConnect
  <2> QED BY <1>1, <1>4, <1>7, <1>9, <1>14, <2>1 DEF NetInv, NetTypes, f, ds, cl, ow
<1> QED BY <1>1, <1>4, <1>13, <1>14, <1>15, <1>16 DEF NetInv, f, ds, cl, ow

\* The books of the managers e and the sockets w, between the two halves of a beat.
Between(e, w) ==
    /\ e \in Managers /\ w.client \in ClientStates
    /\ w.calls \in SUBSET Calls /\ IsFiniteSet(w.calls) /\ Once(w.calls)
    /\ w.pending \subseteq [c : Clients, node : Node]
    /\ Told(e, w.client, owners) /\ Counted(e, w.calls, w.client, owners, inbound)
    /\ Kept(e, w.calls, w.client, owners, doubled) /\ BansBut(e, e.late)

\* A connect that has timed out is still counted, its CPeer's address has lost track.
LEMMA TimeoutKeeps ==
    ASSUME NetInv, running, NEW p \in pending,
           NEW e, e = Lose(epMngr, HeldAddr(p.c)), NEW w, w = ConnectTimeout(Sockets, p)
    PROVE  Between(e, w)
<1>1. /\ epMngr \in Managers /\ client \in ClientStates /\ owners \in [Clients -> Nat]
      /\ calls \in SUBSET Calls /\ IsFiniteSet(calls) /\ Once(calls)
      /\ Told(epMngr, client, owners) /\ Counted(epMngr, calls, client, owners, inbound)
      /\ Kept(epMngr, calls, client, owners, doubled)
      /\ BansBut(epMngr, epMngr.late) /\ pending \subseteq [c : Clients, node : Node]
  BY DEF NetInv, NetTypes
<1> DEFINE c == p.c
           cl == w.client
           ds == w.calls
           xs == HeldAddr(c)
<1>2. c \in Clients
  BY <1>1
<1>3. /\ cl = [client EXCEPT ![c] = Closed] /\ w.pending = pending \ {p}
      /\ ds = IF client[c].open THEN Abort(calls, c) ELSE calls
      /\ e = Lose(epMngr, xs)
  BY DEF ConnectTimeout, Sockets
<1>4. xs = IF owners[c] > 0 THEN {Remote(client, c).addr} ELSE {}
  BY DEF HeldAddr, Remote
<1>5. xs \in SUBSET Addrs
  BY <1>1, <1>2, <1>4, RemoteIs, EpsAre
<1> HIDE DEF xs, cl, ds, c
<1>6. /\ e.uncounted = epMngr.uncounted \cup (xs \ {NoAddr}) /\ Steady(epMngr, e)
  BY <1>1, <1>3, <1>5, LoseIs
<1>7. /\ Still(epMngr, e) /\ e \in Managers /\ BansBut(e, e.late)
  <2>1. epMngr.late \in SUBSET Addrs /\ e.late = epMngr.late
    BY <1>1, <1>6, NodesAre DEF Steady
  <2> QED BY <1>1, <1>6, <2>1 DEF Steady, Still, Moved
<1>8. SameCalls(calls, ds)
  BY <1>1, <1>3, AbortSame, SameItself
<1>9. ClosedAt(client, owners, c, cl, owners)
  BY <1>1, <1>2, <1>3, ClosedAgrees
<1>10. cl \in ClientStates /\ \A a \in Addr \ e.uncounted : Agree(client, owners, cl, owners, a)
  <2>1. ASSUME NEW a \in Addr \ e.uncounted
        PROVE  owners[c] = 0 \/ a # Remote(client, c).addr
    <3>1. owners[c] \in Nat
      BY <1>1, <1>2
    <3>2. owners[c] > 0 => Remote(client, c).addr \in e.uncounted \cup {NoAddr}
      BY <1>4, <1>6
    <3> QED BY <3>1, <3>2, PeerNetAssumption
  <2> QED BY <1>9, <2>1 DEF ClosedAt
<1>11. Counted(e, ds, cl, owners, inbound) /\ Kept(e, ds, cl, owners, doubled)
  BY <1>1, <1>7, <1>8, <1>10, StillKeeps
<1>12. Told(e, cl, owners)
  <2> SUFFICES ASSUME NEW d \in Clients, owners[d] > 0, cl[d].ep = NoEp
               PROVE  cl[d].sock = NoEp \/ cl[d].sock.addr \in e.uncounted
    BY DEF Told
  <2>1. CASE d = c
    BY <1>9, <2>1 DEF ClosedAt
  <2>2. CASE d # c
    <3>1. cl[d] = client[d]
      BY <1>9, <2>2 DEF ClosedAt
    <3> QED BY <1>1, <1>6, <3>1 DEF Told
  <2> QED BY <2>1, <2>2
<1>13. ds \in SUBSET Calls /\ IsFiniteSet(ds) /\ Once(ds) /\ w.pending \subseteq [c : Clients, node : Node]
  BY <1>1, <1>3, <1>8 DEF SameCalls
<1> QED BY <1>7, <1>10, <1>11, <1>12, <1>13 DEF Between, cl, ds

\* The node that is handed out was idle, and its address had no connection.
LEMMA ConnectKeeps ==
    ASSUME NEW e \in Managers, NEW f, NEW n \in Node, Moved(e, f, AddrOf[n], 1, n, -1),
           AddrOf[n] \notin f.uncounted => StatusOf(e, AddrOf[n]).conn < 1,
           NEW cs \in SUBSET Calls, IsFiniteSet(cs), NEW k, k.node = n, k \notin cs,
           NEW cl \in ClientStates, NEW ow \in [Clients -> Nat],
           NEW cl2 \in ClientStates, \A d \in Clients : Remote(cl2, d) = Remote(cl, d),
           NEW ib, NEW db, Counted(e, cs, cl, ow, ib), Kept(e, cs, cl, ow, db)
    PROVE  Counted(f, cs \cup {k}, cl2, ow, ib) /\ Kept(f, cs \cup {k}, cl2, ow, db)
<1> DEFINE a == AddrOf[n]
           ds == cs \cup {k}
<1>1. f \in Managers /\ e.uncounted \subseteq f.uncounted /\ a \in Addr /\ IsFiniteSet(ds)
  BY FS_AddElement, PeerNetAssumption DEF Moved
<1>2. \A b : Agree(cl, ow, cl2, ow, b)
  BY DEF Agree
<1>3. /\ \A b \in Addr : PeersIn(cl2, ow, b) = PeersIn(cl, ow, b)
      /\ \A m \in Node : PeerUses(cl2, ow, m) <=> PeerUses(cl, ow, m)
  BY <1>2, AgreeSame
<1>4. /\ \A b : b # a => ConnectsIn(ds, b) = ConnectsIn(cs, b)
      /\ ConnectsIn(ds, a) = ConnectsIn(cs, a) \cup {k}
  BY DEF ConnectsIn
<1>5. \A m : CallUses(ds, m) <=> m = n \/ CallUses(cs, m)
  BY DEF CallUses
<1>6. ASSUME a \notin f.uncounted
      PROVE  /\ ConnectsIn(cs, a) = {} /\ PeersIn(cl, ow, a) = {}
             /\ Out(cs, cl, ow, a) = 0 /\ Out(ds, cl2, ow, a) = 1
  <2>1. /\ Out(cs, cl, ow, a) \in Nat /\ In(ib, a) \in Nat
        /\ IsFiniteSet(ConnectsIn(cs, a)) /\ IsFiniteSet(PeersIn(cl, ow, a))
        /\ Cardinality(ConnectsIn(cs, a)) \in Nat /\ Cardinality(PeersIn(cl, ow, a)) \in Nat
        /\ Out(cs, cl, ow, a) = Cardinality(ConnectsIn(cs, a)) + Cardinality(PeersIn(cl, ow, a))
    <3> HIDE DEF a
    <3>1. In(ib, a) \in Nat
      BY InIs
    <3>2. /\ Out(cs, cl, ow, a) \in Nat
          /\ IsFiniteSet(ConnectsIn(cs, a)) /\ IsFiniteSet(PeersIn(cl, ow, a))
          /\ Cardinality(ConnectsIn(cs, a)) \in Nat /\ Cardinality(PeersIn(cl, ow, a)) \in Nat
          /\ Out(cs, cl, ow, a) = Cardinality(ConnectsIn(cs, a)) + Cardinality(PeersIn(cl, ow, a))
      BY OutIs
    <3> QED BY <3>1, <3>2
  <2>2. StatusOf(e, a).conn = Out(cs, cl, ow, a) + In(ib, a) /\ StatusOf(e, a).conn < 1
    BY <1>1, <1>6 DEF Counted
  <2>3. Cardinality(ConnectsIn(cs, a)) = 0 /\ Cardinality(PeersIn(cl, ow, a)) = 0
        /\ Out(cs, cl, ow, a) = 0
    BY <2>1, <2>2
  <2>4. ConnectsIn(cs, a) = {} /\ PeersIn(cl, ow, a) = {}
    BY <2>1, <2>3, FS_EmptySet
  <2>5. Out(ds, cl2, ow, a) = 1
    <3>1. ConnectsIn(ds, a) = {k} /\ PeersIn(cl2, ow, a) = {}
      BY <1>1, <1>3, <1>4, <2>4
    <3>2. Cardinality(ConnectsIn(ds, a)) = 1 /\ Cardinality(PeersIn(cl2, ow, a)) = 0
      BY <3>1, FS_Singleton, FS_EmptySet
    <3> QED BY <3>2 DEF Out
  <2> QED BY <2>3, <2>4, <2>5
<1> HIDE DEF ds
<1>7. Counted(f, ds, cl2, ow, ib)
  <2> SUFFICES ASSUME NEW b \in Addr \ f.uncounted
               PROVE  /\ StatusOf(f, b).conn = Out(ds, cl2, ow, b) + In(ib, b)
                      /\ Out(ds, cl2, ow, b) <= 1 /\ In(ib, b) <= CONNECTION_LIMIT
    BY DEF Counted
  <2>1. /\ StatusOf(e, b).conn = Out(cs, cl, ow, b) + In(ib, b)
        /\ Out(cs, cl, ow, b) <= 1 /\ In(ib, b) <= CONNECTION_LIMIT
    BY <1>1 DEF Counted
  <2>2. StatusOf(f, b).conn = StatusOf(e, b).conn + (IF b = a THEN 1 ELSE 0)
    BY DEF Moved
  <2>3. Out(cs, cl, ow, b) \in Nat /\ In(ib, b) \in Nat /\ StatusOf(e, b).conn \in Int
    BY OutIs, InIs, StatusTypes DEF Status, Addrs
  <2>4. CASE b = a
    <3>1. Out(cs, cl, ow, b) = 0 /\ Out(ds, cl2, ow, b) = 1
      BY <1>6, <2>4
    <3>2. StatusOf(f, b).conn = StatusOf(e, b).conn + 1
      BY <2>2, <2>4
    <3> QED BY <2>1, <2>3, <3>1, <3>2
  <2>5. CASE b # a
    <3>1. Out(ds, cl2, ow, b) = Out(cs, cl, ow, b)
      BY <1>3, <1>4, <2>5 DEF Out
    <3>2. StatusOf(f, b).conn = StatusOf(e, b).conn
      BY <2>2, <2>3, <2>5
    <3> QED BY <2>1, <3>1, <3>2
  <2> QED BY <2>4, <2>5
<1>8. Kept(f, ds, cl2, ow, db)
  <2> SUFFICES ASSUME NEW m \in DOMAIN f.node, m \notin db, AddrOf[m] \notin f.uncounted
               PROVE  Len(f.idle[m]) = IF Uses(ds, cl2, ow, m) THEN 0 ELSE 1
    BY DEF Kept, Uses
  <2>1. m \in Node
    BY <1>1, NodesAre
  <2>2. m \in DOMAIN e.node /\ Len(f.idle[m]) = Len(e.idle[m]) + (IF m = n THEN -1 ELSE 0)
    BY DEF Moved
  <2>3. Len(e.idle[m]) = IF Uses(cs, cl, ow, m) THEN 0 ELSE 1
    BY <1>1, <2>2 DEF Kept, Uses
  <2>4. CASE m = n
    <3>1. ~ Uses(cs, cl, ow, m)
      BY <1>6, <2>1, <2>4, UnusedIs DEF Uses
    <3>2. Uses(ds, cl2, ow, m)
      BY <1>5, <2>4 DEF Uses
    <3>3. Len(f.idle[m]) = 0
      BY <2>2, <2>3, <2>4, <3>1
    <3> QED BY <3>2, <3>3
  <2>5. CASE m # n
    <3>1. Uses(ds, cl2, ow, m) <=> Uses(cs, cl, ow, m)
      BY <1>3, <1>5, <2>1, <2>5 DEF Uses
    <3>2. Len(f.idle[m]) = Len(e.idle[m])
      BY <2>2, <2>3, <2>5
    <3> QED BY <2>3, <3>1, <3>2
  <2> QED BY <2>4, <2>5
<1> QED BY <1>7, <1>8 DEF ds

LEMMA BeatEnds ==
    ASSUME owners \in [Clients -> Nat], NEW e, NEW w, Between(e, w), NEW r, Handed(e, r),
           NEW c \in Clients, \A k \in w.calls : <<k.c, k.node>> # <<c, r.node>>,
           NEW v, v = IF r.node = NoNode THEN w ELSE ConnectTo(w, c, r.node)
    PROVE  Between(r.e, v)
<1>1. /\ e \in Managers /\ w.client \in ClientStates
      /\ w.calls \in SUBSET Calls /\ IsFiniteSet(w.calls) /\ Once(w.calls)
      /\ w.pending \subseteq [c : Clients, node : Node]
      /\ Told(e, w.client, owners) /\ Counted(e, w.calls, w.client, owners, inbound)
      /\ Kept(e, w.calls, w.client, owners, doubled) /\ BansBut(e, e.late)
  BY DEF Between
<1>2. BansBut(r.e, r.e.late)
  <2>1. e.late \in SUBSET Addrs
    BY <1>1, NodesAre
  <2> QED BY <1>1, <2>1 DEF Handed
<1> DEFINE f == r.e
           n == r.node
           cs == w.calls
           cl == w.client
<1>3. CASE n = NoNode /\ Still(e, f)
  <2>1. v = w
    BY <1>3
  <2> HIDE DEF f, n, cs, cl
  <2>2. /\ SameCalls(cs, cs) /\ cs \in SUBSET Calls /\ cl \in ClientStates
        /\ \A a \in Addr \ f.uncounted : Agree(cl, owners, cl, owners, a)
    BY <1>1, SameItself, AgreeSelf DEF cs, cl
  <2>3. Counted(e, cs, cl, owners, inbound) /\ Kept(e, cs, cl, owners, doubled) /\ Still(e, f)
    BY <1>1, <1>3 DEF cs, cl
  <2>4. Counted(f, cs, cl, owners, inbound) /\ Kept(f, cs, cl, owners, doubled)
    BY <1>1, <2>2, <2>3, StillKeeps
  <2>5. f \in Managers /\ Told(f, cl, owners)
    BY <1>1, <1>3 DEF Still, Moved, Told, cl
  <2> QED BY <1>1, <1>2, <2>1, <2>4, <2>5 DEF Between, f, cs, cl
<1>4. CASE /\ n \in Node /\ Moved(e, f, AddrOf[n], 1, n, -1)
           /\ AddrOf[n] \notin f.uncounted => StatusOf(e, AddrOf[n]).conn < 1
  <2> DEFINE k == [c |-> c, node |-> n, res |-> "none"]
             cl2 == [cl EXCEPT ![c].open = TRUE]
  <2>1. /\ v.client = cl2 /\ v.calls = cs \cup {k}
        /\ v.pending = w.pending \cup {[c |-> c, node |-> n]}
    <3>1. n # NoNode
      BY <1>4, PeerNetAssumption
    <3> QED BY <3>1 DEF ConnectTo
  <2>2. k \in Calls /\ k.c = c /\ k.node = n /\ k \notin cs
    BY <1>4 DEF Calls
  <2>3. \A l \in cs : l.c # k.c \/ l.node # k.node
    OBVIOUS
  <2> HIDE DEF f, n, cs, k
  <2>4. /\ cl2 \in ClientStates
        /\ \A d \in Clients : cl2[d].ep = cl[d].ep /\ cl2[d].sock = cl[d].sock
    BY <1>1 DEF ClientStates
  <2> HIDE DEF cl2, cl
  <2>5. \A d \in Clients : Remote(cl2, d) = Remote(cl, d)
    BY <2>4 DEF Remote, GetRemote
  <2>6. /\ cs \in SUBSET Calls /\ IsFiniteSet(cs) /\ cl \in ClientStates
        /\ Counted(e, cs, cl, owners, inbound) /\ Kept(e, cs, cl, owners, doubled)
    BY <1>1 DEF cs, cl
  <2>7. Counted(f, cs \cup {k}, cl2, owners, inbound) /\ Kept(f, cs \cup {k}, cl2, owners, doubled)
    BY <1>1, <1>4, <2>2, <2>4, <2>5, <2>6, ConnectKeeps
  <2>8. f \in Managers /\ Told(f, cl2, owners)
    BY <1>1, <1>4, <2>4 DEF Moved, Told, cl
  <2>9. cs \cup {k} \in SUBSET Calls /\ IsFiniteSet(cs \cup {k}) /\ Once(cs \cup {k})
    <3>1. IsFiniteSet(cs \cup {k})
      BY <2>6, FS_AddElement
    <3>2. Once(cs \cup {k})
      BY <1>1, <2>3 DEF Once, cs
    <3> QED BY <2>2, <2>6, <3>1, <3>2
  <2>10. v.pending \subseteq [c : Clients, node : Node]
    BY <1>1, <1>4, <2>1
  <2> QED BY <1>2, <2>1, <2>4, <2>7, <2>8, <2>9, <2>10 DEF Between, f
<1> QED BY <1>3, <1>4 DEF Handed

LEMMA HeartBeatStep ==
    ASSUME NetInv, HeartBeat
    PROVE  NetInv'
<1>1. /\ epMngr \in Managers /\ client \in ClientStates /\ owners \in [Clients -> Nat]
      /\ calls \in SUBSET Calls /\ IsFiniteSet(calls) /\ Once(calls)
      /\ Told(epMngr, client, owners) /\ Counted(epMngr, calls, client, owners, inbound)
      /\ Kept(epMngr, calls, client, owners, doubled)
      /\ BansBut(epMngr, epMngr.late) /\ pending \subseteq [c : Clients, node : Node]
      /\ running /\ UNCHANGED <<running, owners, inbound, doubled>>
  BY DEF NetInv, NetTypes, HeartBeat
<1> DEFINE W(out) == IF out = {} THEN Sockets ELSE ConnectTimeout(Sockets, CHOOSE p \in out : TRUE)
           E(out) == Lose(epMngr, UNION {HeldAddr(p.c) : p \in out})
           I(w) == {c \in Clients : ~ w.client[c].open}
           R(e, w) == IF I(w) = {} THEN {[node |-> NoNode, e |-> e]} ELSE FetchOutBound(e)
           C(w) == IF I(w) = {} THEN Clients ELSE I(w)
           V(w, c, r) == IF r.node = NoNode THEN w ELSE ConnectTo(w, c, r.node)
<1>2. PICK out \in {{}} \cup {{p} : p \in pending} :
          \E r \in R(E(out), W(out)), c \in C(W(out)) :
              /\ \A k \in W(out).calls : <<k.c, k.node>> # <<c, r.node>>
              /\ epMngr' = r.e
              /\ client' = V(W(out), c, r).client /\ calls' = V(W(out), c, r).calls
              /\ pending' = V(W(out), c, r).pending
  BY DEF HeartBeat
<1>3. Between(E(out), W(out))
  <2>1. CASE out = {}
    <3> DEFINE x == {}
    <3>1. W(out) = Sockets /\ E(out) = Lose(epMngr, x)
      BY <2>1
    <3>2. x \in SUBSET Addrs
      OBVIOUS
    <3> HIDE DEF x
    <3> DEFINE e == Lose(epMngr, x)
    <3>3. Steady(epMngr, e)
      BY <1>1, <3>2, LoseIs
    <3> HIDE DEF e, W, E
    <3>4. Still(epMngr, e) /\ e \in Managers /\ epMngr.uncounted \subseteq e.uncounted
      BY <3>3 DEF Steady, Still, Moved
    <3>5. BansBut(e, e.late)
      <4>1. epMngr.late \in SUBSET Addrs /\ e.late = epMngr.late
        BY <1>1, <3>3, NodesAre DEF Steady
      <4> QED BY <1>1, <3>3, <4>1 DEF Steady
    <3>6. SameCalls(calls, calls) /\ \A a \in Addr \ e.uncounted : Agree(client, owners, client, owners, a)
      BY <1>1, SameItself, AgreeSelf
    <3>7. Counted(e, calls, client, owners, inbound) /\ Kept(e, calls, client, owners, doubled)
      BY <1>1, <3>4, <3>6, StillKeeps
    <3>8. Told(e, client, owners)
      BY <1>1, <3>4 DEF Told
    <3>9. Sockets.client = client /\ Sockets.calls = calls /\ Sockets.pending = pending
      BY DEF Sockets
    <3>10. Between(e, Sockets)
      BY <1>1, <3>4, <3>5, <3>7, <3>8, <3>9 DEF Between
    <3> QED BY <3>1, <3>10 DEF e
  <2>2. ASSUME NEW p \in pending, out = {p}
        PROVE  Between(E(out), W(out))
    <3>1. (CHOOSE q \in out : TRUE) = p /\ out # {}
      BY <2>2
    <3>2. UNION {HeldAddr(q.c) : q \in out} = HeldAddr(p.c)
      BY <2>2
    <3>3. W(out) = ConnectTimeout(Sockets, p) /\ E(out) = Lose(epMngr, HeldAddr(p.c))
      BY <3>1, <3>2
    <3> HIDE DEF W, E
    <3> QED BY <1>1, <3>3, TimeoutKeeps
  <2> QED BY <2>1, <2>2
<1> DEFINE w == W(out)
           e == E(out)
<1>4. PICK r \in R(e, w) : \E c \in C(w) :
          /\ \A k \in w.calls : <<k.c, k.node>> # <<c, r.node>>
          /\ epMngr' = r.e
          /\ client' = V(w, c, r).client /\ calls' = V(w, c, r).calls
          /\ pending' = V(w, c, r).pending
  BY <1>2
<1>5. PICK c \in C(w) :
          /\ \A k \in w.calls : <<k.c, k.node>> # <<c, r.node>>
          /\ epMngr' = r.e
          /\ client' = V(w, c, r).client /\ calls' = V(w, c, r).calls
          /\ pending' = V(w, c, r).pending
  BY <1>4
<1> HIDE DEF W, E
<1>6. c \in Clients
  OBVIOUS
<1>7. Between(e, w) /\ e \in Managers
  BY <1>3 DEF Between
<1> HIDE DEF w, e
<1>8. Handed(e, r)
  <2>1. CASE I(w) = {}
    <3>1. r.node = NoNode /\ r.e = e
      BY <2>1
    <3>2. Steady(e, e)
      BY <1>7, SteadySelf
    <3> QED BY <3>1, <3>2 DEF Handed, Steady
  <2>2. CASE I(w) # {}
    <3>1. r \in FetchOutBound(e)
      BY <2>2
    <3> QED BY <1>7, <3>1, FetchHands
  <2> QED BY <2>1, <2>2
<1> DEFINE v == V(w, c, r)
<1>9. Between(r.e, v)
  <2>1. v = IF r.node = NoNode THEN w ELSE ConnectTo(w, c, r.node)
    OBVIOUS
  <2> HIDE DEF v, V, R, I, C
  <2> QED BY <1>1, <1>5, <1>6, <1>7, <1>8, <2>1, BeatEnds
<1>10. epMngr' = r.e /\ client' = v.client /\ calls' = v.calls /\ pending' = v.pending
  BY <1>5
<1> HIDE DEF v
<1>11. NetTypes'
  BY <1>1, <1>9, <1>10 DEF NetInv, NetTypes, Between
<1> QED BY <1>1, <1>9, <1>10, <1>11 DEF NetInv, Between

LEMMA NetStep ==
    ASSUME NetInv, [Next]_vars
    PROVE  NetInv'
<1>1. CASE Next
  <2> DEFINE Do == \/ \E n \in Node : AddNewNode(n)
                   \/ \E n \in Removable : RemoveNode(n)
                   \/ HeartBeat
                   \/ \E k \in calls : Finish(k, "ok") \/ Finish(k, "err") \/ HandleConnect(k)
                   \/ \E c \in Clients : Reset(c) \/ \E r \in Reasons : RemoveOutbound(c, r)
                   \/ \E i \in Slots : \/ \E r \in Reasons : RemoveInbound(i, r)
                                       \/ \E a \in InAddr, f \in BOOLEAN :
                                               ClientAccepted(i, a, f)
                   \/ \E a \in Addr : \/ RewardPeer(a, 1)
                                      \/ \E t \in BanTimes : SetBan(a, t)
                   \/ \E as \in {Addr} \cup {{a} : a \in Addr} : ClearBanned(as)
                   \/ Tick
                   \/ LeaveLoop
  <2>1. Do
    BY <1>1 DEF Next
  <2>2. ASSUME NEW n \in Node, AddNewNode(n)
        PROVE  NetInv'
    BY <2>2, AddNewNodeStep
  <2>3. ASSUME NEW n \in Removable, RemoveNode(n)
        PROVE  NetInv'
    <3>1. n \in Node
      BY PeerNetAssumption
    <3> QED BY <2>3, <3>1, RemoveNodeStep
  <2>4. CASE HeartBeat
    BY <2>4, HeartBeatStep
  <2>5. ASSUME NEW k \in calls, Finish(k, "ok") \/ Finish(k, "err")
        PROVE  NetInv'
    BY <2>5, FinishStep
  <2>6. ASSUME NEW k \in calls, HandleConnect(k)
        PROVE  NetInv'
    BY <2>6, ConnectedStep, ConnectLostStep
  <2>7. ASSUME NEW c \in Clients, Reset(c)
        PROVE  NetInv'
    BY <2>7, ResetStep
  <2>8. ASSUME NEW c \in Clients, NEW r \in Reasons, RemoveOutbound(c, r)
        PROVE  NetInv'
    BY <2>8, RemoveOutboundStep
  <2>9. ASSUME NEW i \in Slots, NEW r \in Reasons, RemoveInbound(i, r)
        PROVE  NetInv'
    BY <2>9, RemoveInboundStep
  <2>10. ASSUME NEW i \in Slots, NEW a \in InAddr, NEW f \in BOOLEAN, ClientAccepted(i, a, f)
         PROVE  NetInv'
    BY <2>10, ClientAcceptedStep
  <2>11. ASSUME NEW a \in Addr, RewardPeer(a, 1)
         PROVE  NetInv'
    BY <2>11, RewardStep
  <2>12. ASSUME NEW a \in Addr, NEW t \in BanTimes, SetBan(a, t)
         PROVE  NetInv'
    BY <2>12, SetBanStep
  <2>13. ASSUME NEW as, ClearBanned(as)
         PROVE  NetInv'
    BY <2>13, ClearBannedStep
  <2>14. CASE Tick
    BY <2>14, TickStep
  <2>15. CASE LeaveLoop
    BY <2>15, LeaveLoopStep
  <2> QED BY <2>1, <2>2, <2>3, <2>4, <2>5, <2>6, <2>7, <2>8, <2>9, <2>10, <2>11, <2>12, <2>13,
             <2>14, <2>15
<1>2. CASE UNCHANGED vars
  BY <1>2 DEF NetInv, NetTypes, vars
<1> QED BY <1>1, <1>2

\* The managers, the sockets and the books are well formed at every step, whatever crosses: the
\* invariant that all the others follow from.
THEOREM NetHolds == Spec => []NetInv
<1>1. Init => NetInv
  BY InitNet
<1>2. NetInv /\ [Next]_vars => NetInv'
  BY NetStep
<1> QED BY <1>1, <1>2, PTL DEF Spec

\* CEndpointManager's nConnection of an address is the number of its connections under way,
\* CPeers and inbound peers, for any number of them: at most one outbound, and no more than the
\* limit where an inbound one was let in, unless the address lost track of one.
THEOREM CountsHold == Spec => []ConnectionsCounted
<1>1. NetInv => ConnectionsCounted
  <2> SUFFICES ASSUME NetInv, running, NEW a \in Addr \ epMngr.uncounted
               PROVE  /\ StatusOf(epMngr, a).conn = OutConns(a) + InConns(a)
                      /\ OutConns(a) <= 1 /\ InConns(a) <= CONNECTION_LIMIT
    BY DEF ConnectionsCounted
  <2>1. ConnectsIn(calls, a) = Connects(a) /\ PeersIn(client, owners, a) = Peers(a)
    BY DEF ConnectsIn, Connects, PeersIn, Peers, Remote
  <2>2. Out(calls, client, owners, a) = OutConns(a) /\ In(inbound, a) = InConns(a)
    BY <2>1 DEF Out, OutConns, In, InConns
  <2> QED BY <2>2 DEF NetInv, Counted
<1> QED BY <1>1, NetHolds, PTL

\* A node of mapNode is idle once or in use, never neither and never both: CNodeManager forgets
\* no node and hands none out twice.
THEOREM NodesHold == Spec => []NodeKept
<1>1. NetInv => NodeKept
  <2> SUFFICES ASSUME NetInv, running, NEW n \in DOMAIN epMngr.node,
                      n \notin doubled, AddrOf[n] \notin epMngr.uncounted
               PROVE  Len(epMngr.idle[n]) = IF InUse(n) THEN 0 ELSE 1
    BY DEF NodeKept
  <2>1. InUse(n) <=> CallUses(calls, n) \/ PeerUses(client, owners, n)
    BY DEF InUse, CallUses, PeerUses, Remote
  <2> QED BY <2>1 DEF NetInv, Kept
<1> QED BY <1>1, NetHolds, PTL

\* No node of a banned address is handed out before the ban is over, but for bans that the idle
\* nodes are not told.
THEOREM BansHold == Spec => []BanHolds
<1>1. NetInv => BanHolds
  BY DEF NetInv, BansBut, BanHolds
<1> QED BY <1>1, NetHolds, PTL

=============================================================================
