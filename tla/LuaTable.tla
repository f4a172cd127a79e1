------------------------------- MODULE LuaTable -------------------------------
(***************************************************************************)
(* Lua tables: ltable.c.  A table has an array part and a node vector in   *)
(* which colliding keys are chained from their main position through free  *)
(* places taken from the end.  A key is a record [t, n]: an integer, a     *)
(* float with or without an integral value, a string with its hash, an     *)
(* object with its address, nil or NaN.  The program sets entries,         *)
(* presizes the table and traverses it.                                    *)
(***************************************************************************)
EXTENDS Integers, Sequences, SequencesExt, FiniteSets, FiniteSetsExt

CONSTANTS TableKeys,      \* the keys the program uses
          TableValues,    \* the values it stores, nil among them
          ArraySizes,     \* the sizes it may preallocate
          MaxSets         \* bound: assignments

VARIABLES table,
          content,   \* ghost: what was assigned last to every key
          walk,      \* a traversal: its key, what it has seen, and what it must see
          sets

tvars == <<table, content, walk, sets>>

NilValue == "nil"
NilKey == [t |-> "nil"]
Null == -1

IntKey(i) == [t |-> "int", n |-> i]
TwoTo(i) == 2 ^ i
CeilLog2(n) == CHOOSE i \in 0..n : TwoTo(i) >= n /\ (i = 0 \/ TwoTo(i - 1) < n)

\* Floats with an integral value are integers as keys.
Normal(k) == IF k.t = "flt" THEN IntKey(k.n) ELSE k

IsDummy(t) == t.lastfree = Null
SizeNode(t) == Cardinality(DOMAIN t.node)
InArray(t, k) == k.t = "int" /\ k.n \in 1..Len(t.array)

EmptyNode == [key |-> NilKey, val |-> NilValue, next |-> Null]

MainPosition(t, k) ==
    IF k.t \in {"int", "str"} THEN k.n % SizeNode(t)
    ELSE k.n % (IF SizeNode(t) = 1 THEN 1 ELSE SizeNode(t) - 1)

RECURSIVE Chained(_, _, _)
Chained(t, i, k) ==
    IF t.node[i].key = k \/ t.node[i].next = Null
    THEN IF t.node[i].key = k THEN i ELSE Null
    ELSE Chained(t, t.node[i].next, k)

\* luaH_get for a key that is not nil or NaN.
Get(t, key) ==
    LET k == Normal(key)
    IN  IF InArray(t, k) THEN t.array[k.n]
        ELSE LET i == Chained(t, MainPosition(t, k), k)
             IN  IF i = Null THEN NilValue ELSE t.node[i].val
GetInt(t, i) == Get(t, IntKey(i))
-------------------------------------------------------------------------------
(* Insertion.                                                              *)

SetNodeVector(t, size) ==
    IF size = 0 THEN [t EXCEPT !.node = [i \in {0} |-> EmptyNode], !.lastfree = Null]
    ELSE LET n == TwoTo(CeilLog2(size))
         IN  [t EXCEPT !.node = [i \in 0..(n - 1) |-> EmptyNode], !.lastfree = n]

\* The first place below lastfree that never held a key.
FreeBelow(t) == IF IsDummy(t) THEN {} ELSE {i \in 0..(t.lastfree - 1) : t.node[i].key = NilKey}

\* The candidate i of computesizes: more than half of the slots up to 2^i would be used.
ArraySize(ints) ==
    LET upto(i) == Cardinality({k \in ints : k <= TwoTo(i)})
        slice(i) == {k \in ints : k <= TwoTo(i) /\ (i = 0 \/ k > TwoTo(i - 1))}
        good == {i \in 0..Cardinality(ints) : /\ Cardinality(ints) > TwoTo(i) \div 2
                                              /\ slice(i) # {} /\ upto(i) > TwoTo(i) \div 2}
    IN  IF good = {} THEN 0 ELSE TwoTo(Max(good))

UsedArray(t) == {i \in 1..Len(t.array) : t.array[i] # NilValue}
UsedNodes(t) == {i \in DOMAIN t.node : t.node[i].val # NilValue}

SetArray(t, size) ==
    IF size >= Len(t.array)
    THEN [t EXCEPT !.array = [i \in 1..size |-> IF i <= Len(t.array) THEN @[i] ELSE NilValue]]
    ELSE t

\* Mutant of Insert: the node that gives way is not chained from its own main position.
InsertNoRechain(t, k, v, mp, f) ==
    IF MainPosition(t, t.node[mp].key) # mp
    THEN [t EXCEPT !.node[f] = t.node[mp], !.node[mp] = [key |-> k, val |-> v, next |-> Null]]
    ELSE [t EXCEPT !.node[f] = [key |-> k, val |-> v, next |-> t.node[mp].next], !.node[mp].next = f]

RECURSIVE Before(_, _, _)
Before(t, i, mp) == IF t.node[i].next = mp THEN i ELSE Before(t, t.node[i].next, mp)

\* The main position is taken and f is free: a node out of its own main position gives way.
Insert(t, k, v, mp, f) ==
    IF MainPosition(t, t.node[mp].key) # mp
    THEN LET previous == Before(t, MainPosition(t, t.node[mp].key), mp)
         IN  [t EXCEPT !.node[previous].next = f,
                       !.node[f] = t.node[mp],
                       !.node[mp] = [key |-> k, val |-> v, next |-> Null]]
    ELSE [t EXCEPT !.node[f] = [key |-> k, val |-> v, next |-> t.node[mp].next],
                   !.node[mp].next = f]

RECURSIVE Set(_, _, _), NewKey(_, _, _), Resize(_, _, _), Reinsert(_, _)

\* luaH_set with the assignment to the slot it returns.
Set(t, key, v) ==
    LET k == Normal(key)
        i == Chained(t, MainPosition(t, k), k)
    IN  IF InArray(t, k) THEN [t EXCEPT !.array[k.n] = v]
        ELSE IF i # Null THEN [t EXCEPT !.node[i].val = v]
        ELSE NewKey(t, k, v)

NewKey(t, k, v) ==
    LET mp == MainPosition(t, k)
        free == FreeBelow(t)
    IN  IF t.node[mp].val = NilValue /\ ~ IsDummy(t)
        THEN [t EXCEPT !.node[mp].key = k, !.node[mp].val = v]
        ELSE IF free = {}
        THEN LET ints == UsedArray(t) \cup {t.node[i].key.n : i \in {j \in UsedNodes(t) :
                                               t.node[j].key.t = "int" /\ t.node[j].key.n > 0}}
                         \cup (IF k.t = "int" /\ k.n > 0 THEN {k.n} ELSE {})
                 asize == ArraySize(ints)
                 total == Cardinality(UsedArray(t)) + Cardinality(UsedNodes(t)) + 1
             IN  Set(Resize(t, asize, total - Cardinality({i \in ints : i <= asize})), k, v)
        ELSE Insert([t EXCEPT !.lastfree = Max(free)], k, v, mp, Max(free))

Reinsert(t, entries) ==
    IF entries = <<>> THEN t
    ELSE Reinsert(IF Head(entries).val = NilValue THEN t ELSE Set(t, Head(entries).key, Head(entries).val),
                  Tail(entries))

\* luaH_resize: the entries of a vanishing slice of the array go first, then the nodes, from the last.
Resize(t, nasize, nhsize) ==
    LET grown == SetNodeVector(SetArray(t, nasize), nhsize)
        cut == [grown EXCEPT !.array = SubSeq(@, 1, nasize)]
        slice == [i \in 1..(Len(grown.array) - nasize) |->
                     [key |-> IntKey(nasize + i), val |-> grown.array[nasize + i]]]
        nodes == IF IsDummy(t) THEN <<>> ELSE [j \in 1..SizeNode(t) |-> t.node[SizeNode(t) - j]]
    IN  Reinsert(Reinsert(cut, slice), nodes)

NewTable == SetNodeVector([array |-> <<>>, node |-> <<>>, lastfree |-> Null], 0)
-------------------------------------------------------------------------------
(* Traversal and length.                                                   *)

\* findindex: 0 for nil, then the array slots, then the nodes.
FindIndex(t, key) ==
    IF key = NilKey THEN 0
    ELSE IF InArray(t, key) THEN key.n
    ELSE Chained(t, MainPosition(t, key), key) + 1 + Len(t.array)

InvalidKey(t, key) ==
    key # NilKey /\ ~ InArray(t, key) /\ Chained(t, MainPosition(t, key), key) = Null

\* luaH_next: the entry behind the key, or none.
NextEntry(t, key) ==
    LET from == FindIndex(t, key)
        inarray == {i \in UsedArray(t) : i > from}
        innodes == {i \in UsedNodes(t) : i + Len(t.array) >= from}
    IN  IF inarray # {} THEN [key |-> IntKey(Min(inarray)), val |-> t.array[Min(inarray)]]
        ELSE IF innodes # {} THEN t.node[Min(innodes)]
        ELSE [key |-> NilKey, val |-> NilValue]

RECURSIVE BinarySearch(_, _, _), UnboundFrom(_, _, _)
\* i is present (or zero), j is not.
BinarySearch(t, i, j) ==
    IF j - i <= 1 THEN i
    ELSE LET m == (i + j) \div 2
         IN  IF GetInt(t, m) = NilValue THEN BinarySearch(t, i, m) ELSE BinarySearch(t, m, j)

UnboundFrom(t, i, j) == IF GetInt(t, j) = NilValue THEN BinarySearch(t, i, j) ELSE UnboundFrom(t, j, 2 * j)

GetN(t) ==
    LET n == Len(t.array)
    IN  IF n > 0 /\ t.array[n] = NilValue THEN BinarySearch(t, 0, n)
        ELSE IF IsDummy(t) THEN n
        ELSE UnboundFrom(t, n, n + 1)
-------------------------------------------------------------------------------
NoWalk == [on |-> FALSE, key |-> NilKey, seen |-> <<>>, must |-> {}, invalid |-> FALSE]

TableInit == /\ \E na, nh \in ArraySizes : table = Resize(NewTable, na, nh)
             /\ content = [k \in {Normal(x) : x \in TableKeys} |-> NilValue]
             /\ walk = NoWalk /\ sets = 0

Present == {k \in DOMAIN content : content[k] # NilValue}

\* lua_rawset.  While a program traverses the table it may only assign to fields that exist.
Assign(k, v) ==
    /\ sets < MaxSets /\ sets' = sets + 1
    /\ walk.on => Normal(k) \in Present
    /\ table' = Set(table, k, v)
    /\ content' = [content EXCEPT ![Normal(k)] = v]
    /\ walk' = IF v = NilValue THEN [walk EXCEPT !.must = @ \ {Normal(k)}] ELSE walk

\* OP_SETLIST makes room for the items of a constructor.
SetList(n) == /\ n > Len(table.array) /\ ~ walk.on
              /\ table' = Resize(table, n, IF IsDummy(table) THEN 0 ELSE SizeNode(table))
              /\ UNCHANGED <<content, walk, sets>>

StartWalk == /\ ~ walk.on
             /\ walk' = [NoWalk EXCEPT !.on = TRUE, !.must = Present]
             /\ UNCHANGED <<table, content, sets>>

\* lua_next; behind the last entry the traversal is over.
WalkOn ==
    /\ walk.on
    /\ LET e == NextEntry(table, walk.key)
       IN  walk' = IF InvalidKey(table, walk.key) THEN [walk EXCEPT !.on = FALSE, !.invalid = TRUE]
                   ELSE IF e.key = NilKey THEN [walk EXCEPT !.on = FALSE]
                   ELSE [walk EXCEPT !.key = e.key, !.seen = Append(@, e.key)]
    /\ UNCHANGED <<table, content, sets>>

TableNext == \/ \E k \in TableKeys, v \in TableValues : Assign(k, v)
             \/ \E n \in ArraySizes : SetList(n)
             \/ StartWalk \/ WalkOn
-------------------------------------------------------------------------------
\* Whatever was assigned, in whatever order keys collide, give way, move to the array part or out
\* of it, a table holds for every key what was assigned to it last, and its length is a border:
\* an entry that is present, or zero, before one that is absent (ltable.c:442, 333, 641).
TableIsMap ==
    /\ \A k \in DOMAIN content : Get(table, k) = content[k]
    /\ LET n == GetN(table)
       IN  /\ n # 0 => GetInt(table, n) # NilValue
           /\ GetInt(table, n + 1) = NilValue

\* A traversal meets every entry that stays exactly once, and no key twice, though the program
\* changes and clears fields on the way; the key it stands at is always found again (ltable.c:159).
TraversalComplete ==
    /\ ~ walk.invalid
    /\ IsInjective(walk.seen)
    /\ ~ walk.on => walk.must \subseteq ToSet(walk.seen)
===============================================================================
