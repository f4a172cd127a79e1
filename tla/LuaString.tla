------------------------------ MODULE LuaString ------------------------------
(***************************************************************************)
(* Short strings are interned: lstring.c, and what lgc.c does to the       *)
(* string table.  Equality of short strings is equality of pointers, so    *)
(* there may never be two of the same content, although a dead one stays   *)
(* in the table until it is swept.  The cache of luaS_new keeps strings by *)
(* the address of the C string, whose content may change.  A chain runs    *)
(* through the strings themselves, so it is the set of the strings in it:  *)
(* nothing depends on their order.                                         *)
(***************************************************************************)
EXTENDS Integers, FiniteSets

CONSTANTS Content,        \* contents of strings
          HashOf,         \* their hashes
          MINSTRTABSIZE, STRCACHE_M,
          MaxStrings      \* bound: string objects

ASSUME LuaStringAssumption ==
    /\ HashOf \in [Content -> Nat]
    /\ MINSTRTABSIZE \in Nat \ {0} /\ STRCACHE_M \in Nat \ {0}
    /\ MaxStrings \in Nat

VARIABLES strt,      \* the string table: the chains, and the number of strings in it
          strings,   \* the content of every string object that was allocated and not freed
          colour,    \* "white0", "white1" or "black"
          white,     \* the current white
          unswept,   \* the objects the sweep has not come to
          cache,     \* the slot of the cache, the latest first
          held       \* the strings the program refers to
svars == <<strt, strings, colour, white, unswept, cache, held>>

Allocated == DOMAIN strings
OtherWhite == IF white = "white0" THEN "white1" ELSE "white0"
Dead(o) == colour[o] = OtherWhite

MemErr == 0   \* memerrmsg, the fixed string of no such content
Size(tb) == Cardinality(DOMAIN tb.hash)
Bucket(tb, c) == HashOf[c] % Size(tb)

\* luaS_resize: the strings of all chains are chained anew.
Resize(tb, newsize) ==
    [tb EXCEPT !.hash = [h \in 0..(newsize - 1) |->
        {o \in UNION {tb.hash[i] : i \in DOMAIN tb.hash} : HashOf[strings[o]] % newsize = h}]]

StringInit ==
    /\ strt = [hash |-> [i \in 0..(MINSTRTABSIZE - 1) |-> {}], nuse |-> 0]
    /\ strings = [o \in {} |-> ""] /\ colour = [o \in {} |-> ""] /\ white = "white0"
    /\ unswept = {} /\ cache = [j \in 1..STRCACHE_M |-> MemErr] /\ held = {}
-------------------------------------------------------------------------------
Found(c) == {o \in strt.hash[Bucket(strt, c)] : strings[o] = c}

\* createstrobj, of a string in a chain of a table.
Create(c, s, tb) ==
    /\ s \notin Allocated
    /\ strings' = [o \in Allocated \cup {s} |-> IF o = s THEN c ELSE strings[o]]
    /\ colour' = [o \in Allocated \cup {s} |-> IF o = s THEN white ELSE colour[o]]
    /\ strt' = [hash |-> [tb.hash EXCEPT ![Bucket(tb, c)] = @ \cup {s}], nuse |-> tb.nuse + 1]

\* Mutant of Intern: a dead string is not found, and a new one is made.
InternAlive(c, s) ==
    \/ s \in Found(c) /\ ~ Dead(s) /\ UNCHANGED <<strt, strings, colour>>
    \/ (\A o \in Found(c) : Dead(o)) /\ Create(c, s, strt)

\* internshrstr: a dead string is brought back, a full table doubled before a new one is made.
Intern(c, s) ==
    \/ /\ s \in Found(c)
       /\ colour' = IF Dead(s) THEN [colour EXCEPT ![s] = white] ELSE colour
       /\ UNCHANGED <<strt, strings>>
    \/ /\ Found(c) = {}
       /\ Create(c, s, IF strt.nuse >= Size(strt) THEN Resize(strt, 2 * Size(strt)) ELSE strt)

\* luaS_newlstr.
NewLStr(c) == \E s \in 1..MaxStrings :
                  /\ Intern(c, s) /\ held' = held \cup {s}
                  /\ UNCHANGED <<white, unswept, cache>>

Hit(c, j) == cache[j] # MemErr /\ strings[cache[j]] = c

\* luaS_new, of a C string that is c at the moment: the first hit, or a new entry.
New(c) ==
    \/ \E j \in 1..STRCACHE_M :
          /\ Hit(c, j) /\ \A k \in 1..(j - 1) : ~ Hit(c, k)
          /\ held' = held \cup {cache[j]}
          /\ UNCHANGED <<strt, strings, colour, white, unswept, cache>>
    \/ /\ \A j \in 1..STRCACHE_M : ~ Hit(c, j)
       /\ \E s \in 1..MaxStrings :
             /\ Intern(c, s) /\ held' = held \cup {s}
             /\ cache' = [j \in 1..STRCACHE_M |-> IF j = 1 THEN s ELSE cache[j - 1]]
       /\ UNCHANGED <<white, unswept>>

Drop(s) == held' = held \ {s} /\ UNCHANGED <<strt, strings, colour, white, unswept, cache>>

\* The end of the collector's atomic step, with luaS_clearcache.
Atomic ==
    /\ unswept = {} /\ Allocated # {}
    /\ colour' = [o \in Allocated |-> IF o \in held THEN "black" ELSE colour[o]]
    /\ cache' = [j \in 1..STRCACHE_M |-> IF cache[j] \in held THEN cache[j] ELSE MemErr]
    /\ white' = OtherWhite /\ unswept' = Allocated
    /\ UNCHANGED <<strt, strings, held>>

\* luaS_remove.
Unchain(c, s) == [hash |-> [strt.hash EXCEPT ![Bucket(strt, c)] = @ \ {s}], nuse |-> strt.nuse - 1]

\* sweeplist, for one object; checkSizes when it was the last.
Sweep(o) ==
    LET keep == IF Dead(o) THEN Allocated \ {o} ELSE Allocated
        tb == IF Dead(o) THEN Unchain(strings[o], o) ELSE strt
    IN  /\ unswept' = unswept \ {o}
        /\ strings' = [x \in keep |-> strings[x]]
        /\ colour' = [x \in keep |-> IF x = o THEN white ELSE colour[x]]
        /\ strt' = IF unswept' = {} /\ tb.nuse < Size(tb) \div 4 THEN Resize(tb, Size(tb) \div 2) ELSE tb
        /\ UNCHANGED <<white, cache, held>>

StringNext == \/ \E c \in Content : NewLStr(c) \/ New(c)
              \/ \E s \in held : Drop(s)
              \/ Atomic \/ \E o \in unswept : Sweep(o)

StringSpec == StringInit /\ [][StringNext]_svars
-------------------------------------------------------------------------------
StringTypeOK ==
    /\ Allocated \subseteq 1..MaxStrings
    /\ strings \in [Allocated -> Content]
    /\ colour \in [Allocated -> {"white0", "white1", "black"}] /\ white \in {"white0", "white1"}
    /\ unswept \subseteq Allocated /\ held \subseteq Allocated
    /\ cache \in [1..STRCACHE_M -> Allocated \cup {MemErr}]

\* Two short strings are equal exactly when they are the same object, whatever was collected,
\* brought back or chained anew in the meantime; what the program or the cache refers to is not
\* freed; and the chains hold what is not freed and nothing else, every string in its bucket,
\* where Unchain looks for it (lstring.c:145, lstring.c:173).
Interned ==
    /\ \A o, p \in Allocated : strings[o] = strings[p] => o = p
    /\ held \cup ({cache[j] : j \in 1..STRCACHE_M} \ {MemErr}) \subseteq Allocated
    /\ \A h \in DOMAIN strt.hash : strt.hash[h] = {o \in Allocated : Bucket(strt, strings[o]) = h}
    /\ strt.nuse = Cardinality(Allocated)
===============================================================================
