--------------------------------- MODULE LuaGC ---------------------------------
(***************************************************************************)
(* The incremental collector of the Lua interpreter: lgc.c with the        *)
(* upvalues of lfunc.c.  g is the global_State with the objects; the       *)
(* program acts between the collector's steps, through the barriers.       *)
(* Objects hold at most a few references: a table its entries, a userdata  *)
(* its user value, a closure one upvalue, a thread one stack slot.  The    *)
(* main thread has registers besides.  Metatables only choose weakness and *)
(* finalizers; they are kept by the registry, which is one more root.      *)
(***************************************************************************)
EXTENDS Integers, Sequences, SequencesExt, FiniteSets, FiniteSetsExt

CONSTANTS Object, Main, Nil,
          Upval,       \* upvalue structures
          Starts,      \* heaps of a program before its first collection: [kind, heap, stack,
                       \* upv, twups, allgc, finobj]
          SweepMax,    \* GCSWEEPMAX
          MaxEntries,  \* bound: entries of a table
          MaxOps,      \* bound: operations of the program
          MaxFull      \* bound: full collections, and steps asked for in a finalizer

VARIABLES g, kind, stack, pc, ops, fulls,
          lost,      \* ghost: what nothing refers to when the cycle begins, and is not made anew
          overtaken  \* ghost: a finalizer was given the object the sweep stood behind
ghosts == <<lost, overtaken>>
vars == <<g, kind, stack, pc, ops, fulls, ghosts>>

Thread(o) == kind[o] = "thread"
Blank == [entries |-> << >>, mode |-> "", value |-> Nil, uv |-> Nil]
FreeUpval == [thread |-> Nil, value |-> Nil, touched |-> FALSE, refcount |-> 0, used |-> FALSE]

\* Colours are "free", the two whites, "gray" and "black".
White(s, o) == s.colour[o] \in {"white0", "white1"}
Black(s, o) == s.colour[o] = "black"
OtherWhite(s) == IF s.white = "white0" THEN "white1" ELSE "white0"
KeepInvariant(s) == s.gcstate \in {"propagate", "atomic", "inside"}
SweepPhase(s) == s.gcstate \in {"swpallgc", "swpfinobj", "swptobefnz", "swpend"}

\* The nodes of a table: one whose value is nil stays, with its key.  A key that is not
\* collectable is Nil; one that removeentry has marked as dead is left out.
Filled(h) == {k \in DOMAIN h.entries : h.entries[k] # Nil}
Empty(h) == DOMAIN h.entries \ Filled(h)
Keys(h) == Filled(h) \ {Nil}
Values(h) == {h.entries[k] : k \in Filled(h)}
Cut(h, ks) == [h EXCEPT !.entries = [k \in DOMAIN h.entries \ ks |-> h.entries[k]]]

Open(s, u) == s.upv[u].thread # Nil
UpvalValue(s, u) == IF Open(s, u) THEN s.heap[s.upv[u].thread].value ELSE s.upv[u].value
OpenOf(s, th) == {u \in Upval : s.upv[u].thread = th}
-------------------------------------------------------------------------------
(* Marking.                                                                *)

\* reallymarkobject, behind the test of markobject: strings and userdata turn black at once.
RECURSIVE Mark(_, _)
Mark(s, o) ==
    IF o = Nil \/ ~ White(s, o) THEN s
    ELSE CASE kind[o] = "string" -> [s EXCEPT !.colour[o] = "black"]
           [] kind[o] = "udata" -> Mark([s EXCEPT !.colour[o] = "black"], s.heap[o].value)
           [] OTHER -> [s EXCEPT !.colour[o] = "gray", !.gray = <<o>> \o @]

MarkAll(s, S) == FoldSet(LAMBDA o, acc : Mark(acc, o), s, S)

\* iscleared: strings are values, so they are marked instead.
Strings(S) == {o \in S \ {Nil} : kind[o] = "string"}
Cleared(s, o) == o # Nil /\ White(s, o) /\ kind[o] # "string"

\* removeentry, for the empty nodes a traversal meets.
Unmarked(s, ks) == {k \in ks \ {Nil} : White(s, k)}
RemoveEmpty(s, t) == [s EXCEPT !.heap[t] = Cut(@, Unmarked(s, Empty(@)))]

TraverseWeakValue(s, t) ==
    LET m == MarkAll(RemoveEmpty(s, t), Keys(s.heap[t]) \cup Strings(Values(s.heap[t])))
        hasclears == \E v \in Values(s.heap[t]) : Cleared(m, v)
    IN  IF s.gcstate = "propagate" THEN [m EXCEPT !.grayagain = <<t>> \o @]
        ELSE IF hasclears THEN [m EXCEPT !.weak = <<t>> \o @] ELSE m

\* One entry of an ephemeron table: its value is marked unless its key may still be cleared.
EphemeronEntry(acc, key, value) ==
    LET s == MarkAll(acc.s, Strings({key}))
        clears == Cleared(s, key)
    IN  [s |-> IF clears THEN s ELSE Mark(s, value),
         marked |-> acc.marked \/ (~ clears /\ White(s, value)),
         hasclears |-> acc.hasclears \/ clears,
         hasww |-> acc.hasww \/ (clears /\ White(s, value))]

\* The list the table goes to by what its entries, all visited, gave.
LinkEphemeron(r, t) ==
    [marked |-> r.marked,
     s |-> IF r.s.gcstate = "propagate" THEN [r.s EXCEPT !.grayagain = <<t>> \o @]
           ELSE IF r.hasww THEN [r.s EXCEPT !.ephemeron = <<t>> \o @]
           ELSE IF r.hasclears THEN [r.s EXCEPT !.allweak = <<t>> \o @]
           ELSE r.s]

TraverseEphemeron(s, t) ==
    LinkEphemeron(FoldSet(LAMBDA k, acc : EphemeronEntry(acc, k, s.heap[t].entries[k]),
                          [s |-> RemoveEmpty(s, t), marked |-> FALSE, hasclears |-> FALSE, hasww |-> FALSE],
                          Filled(s.heap[t])), t)

TraverseTable(s, t) ==
    LET gray == [s EXCEPT !.colour[t] = "gray"]
    IN  CASE s.heap[t].mode = "" -> MarkAll(RemoveEmpty(s, t), Keys(s.heap[t]) \cup Values(s.heap[t]))
          [] s.heap[t].mode = "v" -> TraverseWeakValue(gray, t)
          [] s.heap[t].mode = "k" -> TraverseEphemeron(gray, t).s
          [] s.heap[t].mode = "kv" -> [gray EXCEPT !.allweak = <<t>> \o @]

\* An open upvalue is the thread's business, except in the atomic phase.
TraverseLclosure(s, c) ==
    LET u == s.heap[c].uv
    IN  IF u = Nil THEN s
        ELSE IF Open(s, u) /\ s.gcstate # "inside" THEN [s EXCEPT !.upv[u].touched = TRUE]
        ELSE Mark(s, UpvalValue(s, u))

\* Threads stay gray and are traversed again in the atomic phase.
TraverseThread(s, th) ==
    LET m == MarkAll([s EXCEPT !.colour[th] = "gray", !.grayagain = <<th>> \o @],
                     {s.heap[th].value} \cup (IF th = Main THEN stack ELSE {}))
    IN  IF s.gcstate = "inside" /\ ~ Contains(m.twups, th) /\ OpenOf(m, th) # {}
        THEN [m EXCEPT !.twups = <<th>> \o @] ELSE m

PropagateMark(s) ==
    LET o == Head(s.gray)
        b == [s EXCEPT !.colour[o] = "black", !.gray = Tail(@)]
    IN  IF Thread(o) THEN TraverseThread(b, o)
        ELSE IF kind[o] = "table" THEN TraverseTable(b, o)
        ELSE TraverseLclosure(b, o)

RECURSIVE PropagateAll(_)
PropagateAll(s) == IF s.gray = <<>> THEN s ELSE PropagateAll(PropagateMark(s))

Visited(acc, r) == [s |-> IF r.marked THEN PropagateAll(r.s) ELSE r.s, changed |-> acc.changed \/ r.marked]
ConvergePass(s) == FoldLeft(LAMBDA acc, t : Visited(acc, TraverseEphemeron(acc.s, t)),
                            [s |-> [s EXCEPT !.ephemeron = <<>>], changed |-> FALSE], s.ephemeron)
RECURSIVE UntilUnchanged(_)
UntilUnchanged(r) == IF r.changed THEN UntilUnchanged(ConvergePass(r.s)) ELSE r.s
ConvergeEphemerons(s) == UntilUnchanged(ConvergePass(s))

\* Mutant of RemarkUpvals: lost threads leave the list, and nothing more.
RemarkUpvalsForgets(s) ==
    [s EXCEPT !.twups = SelectSeq(@, LAMBDA th : s.colour[th] = "gray" /\ OpenOf(s, th) # {})]

\* A marked thread with open upvalues stays in twups; the others leave it, and the values of
\* their touched upvalues are marked.
RemarkUpvals(s) ==
    LET stays(th) == s.colour[th] = "gray" /\ OpenOf(s, th) # {}
        gone == {th \in ToSet(s.twups) : ~ stays(th)}
        touched == {u \in Upval : s.upv[u].thread \in gone /\ s.upv[u].touched}
    IN  MarkAll([s EXCEPT !.twups = SelectSeq(@, stays),
                          !.upv = [u \in Upval |-> IF u \in touched THEN [s.upv[u] EXCEPT !.touched = FALSE]
                                                   ELSE s.upv[u]]],
                {UpvalValue(s, u) : u \in touched})

MarkBeingFnz(s) == MarkAll(s, ToSet(s.tobefnz))

RestartCollection(s) ==
    MarkBeingFnz(Mark([s EXCEPT !.gray = <<>>, !.grayagain = <<>>, !.weak = <<>>,
                                !.allweak = <<>>, !.ephemeron = <<>>], Main))
-------------------------------------------------------------------------------
(* The atomic phase.                                                       *)

\* Both pass over the empty nodes; clearvalues leaves one if the key is marked.
ClearKeys(s, tables) ==
    LET m == MarkAll(s, UNION {Strings(Keys(s.heap[t])) : t \in ToSet(tables)})
    IN  [m EXCEPT !.heap = [o \in DOMAIN s.heap |->
            IF Contains(tables, o) THEN Cut(s.heap[o], {k \in Keys(s.heap[o]) : Cleared(m, k)}) ELSE s.heap[o]]]

ClearValues(s, tables) ==
    LET m == MarkAll(s, UNION {Strings(Values(s.heap[t])) : t \in ToSet(tables)})
    IN  [m EXCEPT !.heap = [o \in DOMAIN s.heap |->
            IF Contains(tables, o)
            THEN LET cleared == {k \in Filled(s.heap[o]) : Cleared(m, s.heap[o].entries[k])}
                 IN  Cut([s.heap[o] EXCEPT !.entries =
                            [k \in DOMAIN @ |-> IF k \in cleared THEN Nil ELSE @[k]]],
                         Unmarked(m, cleared))
            ELSE s.heap[o]]]

\* What was linked in front of an earlier list.
Since(tables, earlier) == SubSeq(tables, 1, Len(tables) - Len(earlier))

SeparateToBeFnz(s) ==
    [s EXCEPT !.finobj = SelectSeq(@, LAMBDA o : ~ White(s, o)),
              !.tobefnz = @ \o SelectSeq(s.finobj, LAMBDA o : White(s, o))]

\* Everything strongly reachable, with the touched upvalues of lost threads.
MarkStrong(s) ==
    LET again == s.grayagain
        a == PropagateAll(RemarkUpvals(Mark([s EXCEPT !.gcstate = "inside"], Main)))
    IN  ConvergeEphemerons(PropagateAll([a EXCEPT !.gray = again]))

\* What is being finalized comes back to life with all it refers to.
Resurrect(s) == ConvergeEphemerons(PropagateAll(MarkBeingFnz(SeparateToBeFnz(s))))

ClearWeak(s) == ClearValues(ClearValues(s, s.weak), s.allweak)
ClearDeadKeys(s) == ClearKeys(ClearKeys(s, s.ephemeron), s.allweak)

\* The second clearing of values: of the tables met since the first.
ClearResurrected(s, earlier) ==
    ClearValues(ClearValues(s, Since(s.weak, earlier.weak)), Since(s.allweak, earlier.allweak))
FinalizersMarked(s) == ClearResurrected(ClearDeadKeys([Resurrect(s) EXCEPT !.finnum = 1]), s)

\* Mutant of Atomic: what is to be finalized is separated before weak values are cleared.
AtomicSeparateFirst(s) ==
    [ClearWeak(ClearDeadKeys([Resurrect(MarkStrong(s)) EXCEPT !.finnum = 1])) EXCEPT !.white = OtherWhite(s)]

Atomic(s) == [FinalizersMarked(ClearWeak(MarkStrong(s))) EXCEPT !.white = OtherWhite(s)]
-------------------------------------------------------------------------------
(* Sweeping.  sweepgc points at the head of a list or behind an object, in *)
(* whatever list the object is by then.                                    *)

NoSweep == [at |-> "null"]
AtHead(list) == [at |-> "head", list |-> list]
Behind(o) == [at |-> "object", object |-> o]

ListOf(s, o) == CHOOSE l \in {"allgc", "finobj", "tobefnz"} : Contains(s[l], o)

\* The list p walks, and the place of the next object in it.
WalkedList(s, p) == IF p.at = "head" THEN p.list ELSE ListOf(s, p.object)
WalkedPlace(s, p) == IF p.at = "head" THEN 1 ELSE 1 + SelectInSeq(s[WalkedList(s, p)], LAMBDA o : o = p.object)
AtEnd(s, p) == WalkedPlace(s, p) > Len(s[WalkedList(s, p)])
NextOf(s, p) == s[WalkedList(s, p)][WalkedPlace(s, p)]

\* luaF_close over all of a thread: its upvalues keep their values, those of no closure go.
CloseUpvals(s, th) ==
    LET closed == OpenOf(s, th)
        kept == {u \in closed : s.upv[u].refcount > 0}
        c == [s EXCEPT !.upv = [u \in Upval |->
                IF u \in kept THEN [s.upv[u] EXCEPT !.value = s.heap[th].value, !.thread = Nil]
                ELSE IF u \in closed THEN FreeUpval ELSE s.upv[u]]]
    IN  IF kept # {} /\ KeepInvariant(s) THEN Mark(c, s.heap[th].value) ELSE c

\* luaC_upvdeccount.
Release(s, u) ==
    IF s.upv[u].refcount = 1 /\ ~ Open(s, u) THEN [s EXCEPT !.upv[u] = FreeUpval]
    ELSE [s EXCEPT !.upv[u].refcount = @ - 1]

FreeObj(s, o) ==
    LET f == IF kind[o] = "lcl" /\ s.heap[o].uv # Nil THEN Release(s, s.heap[o].uv)
             ELSE IF kind[o] = "thread" THEN CloseUpvals(s, o) ELSE s
    IN  [f EXCEPT !.colour[o] = "free", !.heap[o] = Blank]

Drop1(s, o) == LET l == ListOf(s, o) IN [s EXCEPT ![l] = Remove(@, o)]

\* sweeplist: dead objects go, the others get the current white; where to continue.
SweepObject(r, o) ==
    IF r.s.colour[o] = OtherWhite(r.s) THEN [r EXCEPT !.s = FreeObj(Drop1(r.s, o), o)]
    ELSE [s |-> [r.s EXCEPT !.colour[o] = r.s.white], p |-> Behind(o)]

RECURSIVE SweepOn(_, _)
SweepOn(r, count) ==
    IF AtEnd(r.s, r.p) THEN [r EXCEPT !.p = NoSweep]
    ELSE IF count = 0 THEN r
    ELSE SweepOn(SweepObject(r, NextOf(r.s, r.p)), count - 1)
SweepList(s, p, count) == SweepOn([s |-> s, p |-> p], count)

RECURSIVE SweepToLive(_, _)
SweepToLive(r, p) == IF r.p = p THEN SweepToLive(SweepList(r.s, p, 1), p) ELSE r

SetSweep(r) == [r.s EXCEPT !.sweepgc = r.p]
EnterSweep(s) == SetSweep(SweepList([s EXCEPT !.gcstate = "swpallgc"], AtHead("allgc"), 1))

NextState(s, nextstate, nextpointer) == [s EXCEPT !.gcstate = nextstate, !.sweepgc = nextpointer]
EndOfList(r, nextstate, nextpointer) ==
    IF r.p # NoSweep THEN SetSweep(r) ELSE NextState(r.s, nextstate, nextpointer)
SweepStep(s, nextstate, nextpointer) ==
    IF s.sweepgc = NoSweep THEN NextState(s, nextstate, nextpointer)
    ELSE EndOfList(SweepList(s, s.sweepgc, SweepMax), nextstate, nextpointer)

EndOfGray(s) == IF s.gray = <<>> THEN [s EXCEPT !.gcstate = "atomic"] ELSE s

\* singlestep, where it runs no finalizers.
SingleStep(s) ==
    CASE s.gcstate = "pause" -> [RestartCollection(s) EXCEPT !.gcstate = "propagate"]
      [] s.gcstate = "propagate" ->
            EndOfGray(PropagateMark(s))
      [] s.gcstate = "atomic" -> EnterSweep(Atomic(PropagateAll(s)))
      [] s.gcstate = "swpallgc" -> SweepStep(s, "swpfinobj", AtHead("finobj"))
      [] s.gcstate = "swpfinobj" -> SweepStep(s, "swptobefnz", AtHead("tobefnz"))
      [] s.gcstate = "swptobefnz" -> SweepStep(s, "swpend", NoSweep)
      [] s.gcstate = "swpend" -> [s EXCEPT !.colour[Main] = s.white, !.gcstate = "callfin"]
      [] s.gcstate = "callfin" -> [s EXCEPT !.gcstate = "pause"]
-------------------------------------------------------------------------------
\* What a program can get at: through strong references, or through weak ones as well.
StrongRefs(o) ==
    (IF o = Main THEN stack ELSE {}) \cup {g.heap[o].value}
    \cup (IF g.heap[o].uv = Nil THEN {} ELSE {UpvalValue(g, g.heap[o].uv)})
    \cup (IF g.heap[o].mode \in {"", "v"} THEN Keys(g.heap[o]) ELSE {})
    \cup (IF g.heap[o].mode \in {"", "k"} THEN Values(g.heap[o]) ELSE {})
Refs(o) == StrongRefs(o) \cup Keys(g.heap[o]) \cup Values(g.heap[o])

RECURSIVE Closed(_, _)
Closed(S, refs) == LET T == S \cup (UNION {refs[o] : o \in S} \ {Nil}) IN IF T = S THEN S ELSE Closed(T, refs)
Reachable == Closed({Main}, [o \in Object \cup {Main} |-> Refs(o)])
StronglyReachable == Closed({Main}, [o \in Object \cup {Main} |-> StrongRefs(o)])

\* What neither the program nor a finalizer will ever get at; a touched upvalue of a lost thread
\* keeps its value once more.
Lost == Object \ Closed(Reachable \cup ToSet(g.finobj) \cup ToSet(g.tobefnz)
                            \cup ({UpvalValue(g, u) : u \in {x \in Upval : Open(g, x) /\ g.upv[x].touched}} \ {Nil}),
                        [o \in Object \cup {Main} |-> Refs(o)])
-------------------------------------------------------------------------------
(* The collector's turns.                                                  *)

Init == \E st \in Starts :
    /\ kind = st.kind /\ stack = st.stack
    /\ g = [heap |-> st.heap,
            upv |-> st.upv,
            colour |-> [o \in Object \cup {Main} |-> IF o = Main \/ Contains(st.allgc \o st.finobj, o) THEN "white0" ELSE "free"],
            gray |-> <<>>, grayagain |-> <<>>, weak |-> <<>>, allweak |-> <<>>, ephemeron |-> <<>>,
            twups |-> st.twups, allgc |-> st.allgc, finobj |-> st.finobj, tobefnz |-> <<>>,
            gcstate |-> "pause", white |-> "white0", sweepgc |-> NoSweep, finnum |-> 0, emergency |-> FALSE]
    /\ pc = [at |-> "program"] /\ ops = 0 /\ fulls = 0 /\ lost = {} /\ overtaken = FALSE

Single == g' = SingleStep(g) /\ lost' = IF g.gcstate = "pause" THEN Lost ELSE lost

\* The program runs by itself, or as the finalizer that has been called: then luaC_step does
\* nothing, but collectgarbage and an allocation that fails may still collect.  pc.back is
\* who asked for a step or a full collection, and pc.then who has finalizers called.
InFinalizer == pc.at = "finalizers" /\ pc.i > 0
Running == pc.at = "program" \/ InFinalizer

\* Finalizers are called in the callfin state, and after a step of luaC_step.
Calls == g.gcstate = "callfin" /\ g.tobefnz # <<>> /\ ~ g.emergency
CallFinalizers(then) == pc' = [at |-> "finalizers", i |-> 0, then |-> then]

AskStep ==
    /\ InFinalizer /\ fulls < MaxFull
    /\ fulls' = fulls + 1
    /\ pc' = [at |-> "asked", back |-> pc]
    /\ UNCHANGED <<g, kind, stack, ops, ghosts>>

\* luaC_step: at least one single step, more until the debt is paid or the cycle is over.
Step == /\ pc.at \in {"program", "asked"} \/ (pc.at = "step" /\ g.gcstate # "pause")
        /\ LET step == [at |-> "step", back |-> IF pc.at = "program" THEN pc ELSE pc.back]
           IN  IF Calls THEN UNCHANGED <<g, lost>> /\ CallFinalizers(step)
               ELSE Single /\ pc' = step
        /\ UNCHANGED <<kind, stack, ops, fulls, overtaken>>

EndStep == /\ pc.at = "step"
           /\ IF g.gcstate = "pause" THEN pc' = pc.back ELSE CallFinalizers(pc.back)
           /\ UNCHANGED <<g, kind, stack, ops, fulls, ghosts>>

\* runafewfinalizers looks at the number to call before every call.
MoreToCall == pc.i < g.finnum /\ g.tobefnz # <<>>

\* GCTM, until the finalizer runs with the object as its argument.
Finalize ==
    /\ pc.at = "finalizers" /\ MoreToCall
    /\ LET o == Head(g.tobefnz)
       IN  /\ g' = [g EXCEPT !.tobefnz = Tail(@), !.allgc = <<o>> \o @,
                             !.colour[o] = IF SweepPhase(g) THEN g.white ELSE @]
           /\ stack' = stack \cup {o}
           /\ overtaken' = (overtaken \/ (SweepPhase(g) /\ g.sweepgc = Behind(o)))
    /\ pc' = [pc EXCEPT !.i = @ + 1]
    /\ UNCHANGED <<kind, ops, fulls, lost>>

\* The end of runafewfinalizers; more than the objects need not be counted.
FinalizersDone ==
    /\ pc.at = "finalizers" /\ ~ MoreToCall
    /\ g' = [g EXCEPT !.finnum = IF g.tobefnz = <<>> THEN 0
                                 ELSE IF 2 * @ > Cardinality(Object) THEN Cardinality(Object) ELSE 2 * @]
    /\ pc' = pc.then
    /\ UNCHANGED <<kind, stack, ops, fulls, ghosts>>

\* An error in a finalizer leaves runafewfinalizers, and the collection that called it.
FinalizerFails ==
    /\ InFinalizer
    /\ pc' = (IF pc.then.at \in {"program", "finalizers"} THEN pc.then ELSE pc.then.back)
    /\ UNCHANGED <<g, kind, stack, ops, fulls, ghosts>>

\* luaC_fullgc: first to the pause, without collecting, then a whole cycle.
FullGC(isemergency) ==
    /\ Running /\ fulls < MaxFull
    /\ fulls' = fulls + 1
    /\ g' = [(IF KeepInvariant(g) THEN EnterSweep(g) ELSE g) EXCEPT !.emergency = isemergency]
    /\ lost' = IF KeepInvariant(g) THEN {} ELSE lost
    /\ pc' = [at |-> "full to pause", back |-> pc]
    /\ UNCHANGED <<kind, stack, ops, overtaken>>

FullStep ==
    /\ pc.at \in {"full to pause", "full"}
    /\ IF Calls THEN UNCHANGED <<g, lost>> /\ CallFinalizers(pc)
       ELSE IF pc.at = "full" /\ g.gcstate = "pause"
       THEN g' = [g EXCEPT !.emergency = FALSE] /\ pc' = pc.back /\ UNCHANGED lost
       ELSE Single /\ pc' = IF g.gcstate = "pause" THEN [pc EXCEPT !.at = "full"] ELSE pc
    /\ UNCHANGED <<kind, stack, ops, fulls, overtaken>>

Collector ==
    \/ AskStep \/ Step \/ EndStep \/ Finalize \/ FinalizersDone \/ FinalizerFails
    \/ FullGC(TRUE) \/ FullGC(FALSE) \/ FullStep
-------------------------------------------------------------------------------
(* The program, between steps or in a finalizer.                           *)

Acts(new) ==
    /\ Running
    /\ ops < MaxOps /\ ops' = ops + 1
    /\ lost' = lost \ {new}
    /\ UNCHANGED <<kind, pc, fulls, overtaken>>

\* luaC_barrierback, luaC_barrier and luaC_upvalbarrier with their tests.
BarrierBack(s, t, v) ==
    IF v # Nil /\ Black(s, t) /\ White(s, v)
    THEN [s EXCEPT !.colour[t] = "gray", !.grayagain = <<t>> \o @] ELSE s

Barrier(s, o, v) ==
    IF v = Nil \/ ~ Black(s, o) \/ ~ White(s, v) THEN s
    ELSE IF KeepInvariant(s) THEN Mark(s, v) ELSE [s EXCEPT !.colour[o] = s.white]

UpvalBarrier(s, u) == IF ~ Open(s, u) /\ KeepInvariant(s) THEN Mark(s, UpvalValue(s, u)) ELSE s

\* luaC_newobj; a closure with its upvalue on a thread's slot, which is found or made.
NewObj(s, o) == [s EXCEPT !.colour[o] = s.white, !.allgc = <<o>> \o @]

New(o) == /\ Acts(o) /\ g.colour[o] = "free" /\ kind[o] # "lcl"
          /\ g' = NewObj(g, o)
          /\ stack' = stack \cup {o}

NewClosure(o, th) ==
    /\ Acts(o) /\ g.colour[o] = "free" /\ kind[o] = "lcl" /\ Thread(th) /\ th \in stack \cup {Main}
    /\ \E u \in Upval :
          /\ IF OpenOf(g, th) # {} THEN u \in OpenOf(g, th) ELSE ~ g.upv[u].used
          /\ g' = [NewObj(g, o) EXCEPT !.heap[o].uv = u,
                     !.upv[u] = IF Open(g, u) THEN [@ EXCEPT !.refcount = @ + 1]
                                ELSE [thread |-> th, value |-> Nil, touched |-> TRUE, refcount |-> 1, used |-> TRUE],
                     !.twups = IF Contains(@, th) THEN @ ELSE <<th>> \o @]
    /\ stack' = stack \cup {o}

\* The value of an entry, a user value, an upvalue or a slot is taken into a register.
Reads(o) == Values(g.heap[o]) \cup {g.heap[o].value}
            \cup (IF g.heap[o].uv = Nil THEN {} ELSE {UpvalValue(g, g.heap[o].uv)})
Read == \E o \in stack \cup {Main} : \E v \in Reads(o) \ {Nil} :
            Acts(Nil) /\ v \notin stack /\ stack' = stack \cup {v} /\ g' = g

Drop == \E o \in stack : Acts(Nil) /\ stack' = stack \ {o} /\ g' = g

\* luaH_newkey: the empty nodes that go when a key gets a node of its own: none if there is a
\* free one, the one whose place it takes, or all of them if the table is rehashed.
Replaced(h) == {{}, Empty(h)} \cup {{k} : k \in Empty(h)}

\* lua_rawset, of nil as well: a key is barred when it is new, a value always.
SetEntry(t, k, v) ==
    /\ Acts(Nil) /\ kind[t] = "table" /\ UNCHANGED stack
    /\ LET h == g.heap[t]
       IN  IF k \in DOMAIN h.entries
           THEN g' = BarrierBack([g EXCEPT !.heap[t].entries[k] = v], t, v)
           ELSE \E gone \in Replaced(h) :
                  LET nodes == (DOMAIN h.entries \ gone) \cup {k}
                      new == [x \in nodes |-> IF x = k THEN v ELSE h.entries[x]]
                  IN  /\ Cardinality(nodes) <= MaxEntries
                      /\ g' = BarrierBack(BarrierBack([g EXCEPT !.heap[t].entries = new], t, k), t, v)

SetUserValue(o, v) == /\ Acts(Nil) /\ kind[o] = "udata" /\ UNCHANGED stack
                      /\ g' = Barrier([g EXCEPT !.heap[o].value = v], o, v)

\* A thread's slot has no barrier, an upvalue has its own.
SetSlot(th, v) == Acts(Nil) /\ Thread(th) /\ UNCHANGED stack /\ g' = [g EXCEPT !.heap[th].value = v]
SetUpval(c, v) ==
    /\ Acts(Nil) /\ kind[c] = "lcl" /\ g.heap[c].uv # Nil /\ UNCHANGED stack
    /\ LET u == g.heap[c].uv
       IN  g' = UpvalBarrier(IF Open(g, u) THEN [g EXCEPT !.heap[g.upv[u].thread].value = v]
                             ELSE [g EXCEPT !.upv[u].value = v], u)
Close(th) == Acts(Nil) /\ Thread(th) /\ OpenOf(g, th) # {} /\ UNCHANGED stack /\ g' = CloseUpvals(g, th)

\* Bound: an all-weak table stays one.
SetMode(t, mode) == /\ Acts(Nil) /\ kind[t] = "table" /\ UNCHANGED stack
                    /\ g.heap[t].mode \notin {mode, "kv"}
                    /\ g' = [g EXCEPT !.heap[t].mode = mode]

\* luaC_checkfinalizer; allgc or the pointer into it may have to let the object go.
ToFinalize(s, o) == Contains(s.finobj, o) \/ Contains(s.tobefnz, o)
SetFinalizer(o) ==
    /\ Acts(Nil) /\ kind[o] \in {"table", "udata"} /\ ~ ToFinalize(g, o) /\ UNCHANGED stack
    /\ LET swept == IF SweepPhase(g) THEN [g EXCEPT !.colour[o] = g.white] ELSE g
           beyond == IF SweepPhase(g) /\ g.sweepgc = Behind(o)
                     THEN SetSweep(SweepToLive([s |-> swept, p |-> g.sweepgc], g.sweepgc)) ELSE swept
       IN  g' = [beyond EXCEPT !.allgc = Remove(@, o), !.finobj = <<o>> \o @]

Program ==
    \/ \E o \in Object : New(o) \/ \E th \in stack \cup {Main} : NewClosure(o, th)
    \/ Read \/ Drop
    \/ \E o \in stack, v \in stack \cup {Nil} :
          \/ \E k \in stack \cup {Nil} : SetEntry(o, k, v)
          \/ SetUserValue(o, v) \/ SetUpval(o, v) \/ SetSlot(o, v)
    \/ \E v \in stack \cup {Nil} : SetSlot(Main, v)
    \/ \E th \in stack \cup {Main} : Close(th)
    \/ \E o \in stack : SetFinalizer(o) \/ \E mode \in {"", "k", "v", "kv"} : SetMode(o, mode)

Next == Collector \/ Program
Spec == Init /\ [][Next]_vars
-------------------------------------------------------------------------------
\* Whatever the program can get at is there: no order of steps, barriers, finalizers and full
\* collections frees it (lgc.c:155).  Not so once a finalizer was given the object the sweep
\* stood behind (lgc.c:787): the rest of that list stays black, is taken for marked in the
\* next cycle, and loses what only it refers to.
NothingLiveFreed == ~ overtaken => \A o \in Reachable : g.colour[o] # "free"

\* A key that has been freed stays only in a node without a value, of a table that is weak in
\* both ways: its empty nodes are not traversed, and clearkeys and clearvalues pass over them
\* (lgc.c:644, lgc.c:668).  In all others removeentry has marked it as dead.
FreedKeysDead ==
    ~ overtaken => \A t \in Reachable : \A k \in DOMAIN g.heap[t].entries \ {Nil} :
        g.colour[k] = "free" => g.heap[t].entries[k] = Nil /\ g.heap[t].mode = "kv"

\* While the collector marks, a black object refers to no white one, and every gray object
\* but a thread's is in exactly one list that will be visited (lgc.h:16).
GrayLists == g.gray \o g.grayagain \o g.weak \o g.allweak \o g.ephemeron
TriColour ==
    KeepInvariant(g) /\ ~ overtaken =>
        \A o \in Object \cup {Main} :
            /\ Black(g, o) /\ ~ (g.heap[o].uv # Nil /\ Open(g, g.heap[o].uv))
                  => \A v \in StrongRefs(o) \ {Nil} : ~ White(g, v)
            /\ g.colour[o] = "gray" => Cardinality({i \in DOMAIN GrayLists : GrayLists[i] = o}) = 1

\* An object found lost is taken out of the weak values of every table the program still has
\* before its finalizer can run: nobody gets at it through them (lgc.c:1004).
FinalizedNotWeak ==
    [][g.gcstate = "atomic" /\ g'.gcstate # "atomic" =>
          \A t \in StronglyReachable : g.heap[t].mode \in {"v", "kv"} =>
              \A o \in Values(g'.heap[t]) : Contains(g'.tobefnz, o) => Contains(g.tobefnz, o)]_vars

\* A cycle frees whatever was lost when it began, rings and weak references included (lgc.c:981).
GarbageFreed == ~ overtaken /\ g.gcstate \in {"callfin", "pause"} => \A o \in lost : g.colour[o] = "free"

\* After the sweep, all objects are white again (lgc.h:57).
AllWhiteAgain == g.gcstate \in {"callfin", "pause"} => \A o \in Object : ~ Black(g, o)
===============================================================================
