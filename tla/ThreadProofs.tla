----------------------------- MODULE ThreadProofs -----------------------------
(***************************************************************************)
(* Proofs about what threads share: RWLock for every finite set of threads *)
(* (the lock excludes, and no wake-up is lost), and EventProc for every    *)
(* number of posted events and of invocations, with failing handlers or    *)
(* without (events are handled in order, and none from before a reset).    *)
(***************************************************************************)
EXTENDS RWLock, EventProc, FiniteSetTheorems, TLAPS

State == {"idle", "readlock", "reading", "writelock", "writing", "notifywrite", "notifyread"}

Writers == At("writing") \cup At("writelock")

LockTypeInv ==
    /\ pc \in [Thread -> State]
    /\ condRead \subseteq At("readlock")
    /\ condWrite \subseteq At("writelock")

\* The counters count: this is what makes the exclusion inductive, for the threads test
\* the counters and not one another.
LockCountInv ==
    /\ nRead = Cardinality(At("reading"))
    /\ nWriting = Cardinality(At("writing"))
    /\ nWrite = Cardinality(Writers)

LockInv == LockTypeInv /\ LockCountInv /\ Exclusion

(***************************************************************************)
(* Sets of threads and their cardinalities.                                *)
(***************************************************************************)

\* A thread that changes its state leaves one set and enters another.
LEMMA Moves ==
    ASSUME pc \in [Thread -> State], NEW t \in Thread, NEW s \in State, Go(t, s)
    PROVE  /\ pc' \in [Thread -> State]
           /\ At(s)' = At(s) \cup {t}
           /\ \A x \in State \ {s} : At(x)' = At(x) \ {t}
  BY DEF Go, At

\* Sets of threads are finite, so that a counter is zero exactly when its set is empty.
LEMMA Finite ==
    ASSUME NEW S \in SUBSET Thread
    PROVE  /\ IsFiniteSet(S)
           /\ Cardinality(S) \in Nat
           /\ Cardinality(S) = 0 <=> S = {}
           /\ \A t : /\ t \in S => Cardinality(S \ {t}) = Cardinality(S) - 1
                     /\ t \notin S => Cardinality(S \cup {t}) = Cardinality(S) + 1
<1>1. IsFiniteSet(S)
  BY LockAssumption, FS_Subset
<1>2. QED
  BY <1>1, FS_CardinalityType, FS_EmptySet, FS_RemoveElement, FS_AddElement

\* The three sets that are counted.
LEMMA Counted ==
    ASSUME LockCountInv
    PROVE  /\ nRead \in Nat /\ nWriting \in Nat /\ nWrite \in Nat
           /\ nRead = 0 <=> At("reading") = {}
           /\ nWriting = 0 <=> At("writing") = {}
           /\ nWrite = 0 <=> Writers = {}
<1>1. /\ At("reading") \in SUBSET Thread
      /\ At("writing") \in SUBSET Thread
      /\ Writers \in SUBSET Thread
  BY DEF At, Writers
<1>2. QED
  BY <1>1, Finite DEF LockCountInv

(***************************************************************************)
(* The inductive invariant.                                                *)
(***************************************************************************)
LEMMA LockInvInit == LockInit => LockInv
<1> SUFFICES ASSUME LockInit PROVE LockInv
  OBVIOUS
<1>1. At("reading") = {} /\ At("writing") = {} /\ Writers = {}
  BY DEF LockInit, At, Writers
<1>2. LockTypeInv
  BY DEF LockInit, LockTypeInv, State
<1>3. LockCountInv
  BY <1>1, FS_EmptySet DEF LockInit, LockCountInv
<1>4. QED
  BY <1>1, <1>2, <1>3 DEF LockInv, Exclusion

\* A step that touches none of the sets that are counted keeps the invariant's last two
\* parts.
LEMMA SameSets ==
    ASSUME LockCountInv, Exclusion, UNCHANGED <<nRead, nWrite, nWriting>>,
           At("reading")' = At("reading"), At("writing")' = At("writing"),
           At("writelock")' = At("writelock")
    PROVE  LockCountInv' /\ Exclusion'
  BY DEF LockCountInv, Exclusion, Writers

LEMMA ReadEnterStep ==
    ASSUME LockInv, NEW t \in Thread, ReadEnter(t)
    PROVE  LockInv'
<1> USE DEF LockInv, LockTypeInv
<1>1. CASE nWrite = 0
  <2>1. Go(t, "reading") /\ nRead' = nRead + 1
        /\ UNCHANGED <<nWrite, nWriting, condRead, condWrite>>
    BY <1>1 DEF ReadEnter
  <2>2. t \notin At("reading") /\ t \notin Writers /\ t \notin condRead /\ t \notin condWrite
    BY DEF ReadEnter, At, Writers
  <2>3. /\ pc' \in [Thread -> State]
        /\ At("reading")' = At("reading") \cup {t}
        /\ At("writing")' = At("writing")
        /\ At("writelock")' = At("writelock")
        /\ At("readlock")' = At("readlock") \ {t}
    <3>1. /\ pc' \in [Thread -> State]
          /\ At("reading")' = At("reading") \cup {t}
          /\ \A x \in State \ {"reading"} : At(x)' = At(x) \ {t}
      BY <2>1, Moves DEF State
    <3>2. QED
      BY <3>1, <2>2 DEF State, Writers
  <2>4. Cardinality(At("reading") \cup {t}) = nRead + 1
    BY <2>2, Finite DEF At, LockCountInv
  <2>5. At("writing") = {}
    BY <1>1, Counted DEF Writers
  <2>6. LockTypeInv'
    BY <2>1, <2>2, <2>3
  <2>7. LockCountInv'
    BY <2>1, <2>3, <2>4 DEF LockCountInv, Writers
  <2>8. Exclusion'
    BY <2>3, <2>5 DEF Exclusion
  <2>9. QED
    BY <2>6, <2>7, <2>8
<1>2. CASE nWrite # 0
  <2>1. Go(t, "readlock") /\ condRead' = condRead \cup {t}
        /\ UNCHANGED <<nRead, nWrite, nWriting, condWrite>>
    BY <1>2 DEF ReadEnter
  <2>2. t \notin At("reading") /\ t \notin At("writing") /\ t \notin At("writelock")
    BY DEF ReadEnter, At
  <2>3. /\ pc' \in [Thread -> State]
        /\ At("reading")' = At("reading")
        /\ At("writing")' = At("writing")
        /\ At("writelock")' = At("writelock")
        /\ At("readlock")' = At("readlock") \cup {t}
    BY <2>1, <2>2, Moves, SMTT(30) DEF State
  <2>4. QED
    BY <2>1, <2>3, SameSets
<1>3. QED
  BY <1>1, <1>2

LEMMA ReadUnlockStep ==
    ASSUME LockInv, NEW t \in Thread, ReadUnlock(t)
    PROVE  LockInv'
<1> USE DEF LockInv, LockTypeInv
<1>1. PICK s \in {"notifywrite", "idle"} : Go(t, s)
  BY DEF ReadUnlock
<1>2. t \in At("reading") /\ t \notin Writers /\ t \notin condRead /\ t \notin condWrite
  BY DEF ReadUnlock, At, Writers
<1>3. /\ pc' \in [Thread -> State]
      /\ At("reading")' = At("reading") \ {t}
      /\ At("writing")' = At("writing")
      /\ At("writelock")' = At("writelock")
      /\ At("readlock")' = At("readlock") \ {t}
  BY <1>1, <1>2, Moves, SMTT(30) DEF State, Writers
<1>4. Cardinality(At("reading") \ {t}) = nRead - 1
  BY <1>2, Finite DEF At, LockCountInv
<1>5. LockTypeInv'
  BY <1>2, <1>3 DEF ReadUnlock
<1>6. LockCountInv'
  BY <1>3, <1>4 DEF ReadUnlock, LockCountInv, Writers
<1>7. Exclusion'
  BY <1>3 DEF Exclusion
<1>8. QED
  BY <1>5, <1>6, <1>7

LEMMA WriteLockStep ==
    ASSUME LockInv, NEW t \in Thread, WriteLock(t)
    PROVE  LockInv'
<1> USE DEF LockInv, LockTypeInv
<1>1. t \notin At("reading") /\ t \notin Writers /\ t \notin condRead /\ t \notin condWrite
  BY DEF WriteLock, At, Writers
<1>2. Cardinality(Writers \cup {t}) = nWrite + 1
  BY <1>1, Finite DEF At, Writers, LockCountInv
<1>3. CASE nWrite # 0 \/ nRead # 0
  <2>1. Go(t, "writelock") /\ condWrite' = condWrite \cup {t} /\ nWrite' = nWrite + 1
        /\ UNCHANGED <<nRead, nWriting, condRead>>
    BY <1>3 DEF WriteLock
  <2>2. /\ pc' \in [Thread -> State]
        /\ At("reading")' = At("reading")
        /\ At("writing")' = At("writing")
        /\ At("writelock")' = At("writelock") \cup {t}
        /\ At("readlock")' = At("readlock") \ {t}
    <3>1. /\ pc' \in [Thread -> State]
          /\ At("writelock")' = At("writelock") \cup {t}
          /\ \A x \in State \ {"writelock"} : At(x)' = At(x) \ {t}
      BY <2>1, Moves DEF State
    <3> QED BY <2>1, <1>1, <3>1 DEF State, Writers
  <2>3. Writers' = Writers \cup {t}
    BY <2>2 DEF Writers
  <2>4. LockTypeInv'
    BY <1>1, <2>1, <2>2
  <2>5. LockCountInv' /\ Exclusion'
    BY <1>2, <2>1, <2>2, <2>3 DEF LockCountInv, Exclusion
  <2>6. QED
    BY <2>4, <2>5
<1>4. CASE nWrite = 0 /\ nRead = 0
  <2>1. Go(t, "writing") /\ nWriting' = nWriting + 1 /\ nWrite' = nWrite + 1
        /\ UNCHANGED <<nRead, condRead, condWrite>>
    BY <1>4 DEF WriteLock
  <2>2. /\ pc' \in [Thread -> State]
        /\ At("reading")' = At("reading")
        /\ At("writing")' = At("writing") \cup {t}
        /\ At("writelock")' = At("writelock")
        /\ At("readlock")' = At("readlock") \ {t}
    <3>1. /\ pc' \in [Thread -> State]
          /\ At("writing")' = At("writing") \cup {t}
          /\ \A x \in State \ {"writing"} : At(x)' = At(x) \ {t}
      BY <2>1, Moves DEF State
    <3>2. QED
      BY <3>1, <1>1 DEF State, Writers
  <2>3. Writers' = Writers \cup {t}
    BY <2>2 DEF Writers
  <2>4. At("reading") = {} /\ At("writing") = {}
    BY <1>4, Counted DEF Writers
  <2>5. Cardinality(At("writing") \cup {t}) = nWriting + 1
    BY <2>4, Finite DEF At, LockCountInv
  <2>6. LockTypeInv'
    BY <1>1, <2>1, <2>2
  <2>7. LockCountInv'
    BY <1>2, <2>1, <2>2, <2>3, <2>5 DEF LockCountInv
  <2>8. Exclusion'
    BY <2>2, <2>4 DEF Exclusion
  <2>9. QED
    BY <2>6, <2>7, <2>8
<1>5. QED
  BY <1>3, <1>4

LEMMA WriteEnterStep ==
    ASSUME LockInv, NEW t \in Thread, WriteEnter(t)
    PROVE  LockInv'
<1> USE DEF LockInv, LockTypeInv
<1>1. t \in At("writelock") /\ t \notin At("reading") /\ t \notin At("writing")
      /\ t \notin condRead
  BY DEF WriteEnter, At
<1>2. CASE nRead # 0 \/ nWriting # 0
  <2>1. condWrite' = condWrite \cup {t} /\ UNCHANGED <<pc, nRead, nWrite, nWriting, condRead>>
    BY <1>2 DEF WriteEnter
  <2>2. QED
    BY <1>1, <2>1, SameSets DEF At
<1>3. CASE nRead = 0 /\ nWriting = 0
  <2>1. Go(t, "writing") /\ nWriting' = nWriting + 1
        /\ UNCHANGED <<nRead, nWrite, condRead, condWrite>>
    BY <1>3 DEF WriteEnter
  <2>2. /\ pc' \in [Thread -> State]
        /\ At("reading")' = At("reading")
        /\ At("writing")' = At("writing") \cup {t}
        /\ At("writelock")' = At("writelock") \ {t}
        /\ At("readlock")' = At("readlock") \ {t}
    BY <2>1, <1>1, Moves DEF State
  <2>3. Writers' = Writers
    BY <1>1, <2>2 DEF Writers
  <2>4. At("reading") = {} /\ At("writing") = {}
    BY <1>3, Counted
  <2>5. Cardinality(At("writing") \cup {t}) = nWriting + 1
    BY <1>1, Finite DEF At, LockCountInv
  <2>6. LockTypeInv'
    BY <1>1, <2>1, <2>2 DEF WriteEnter
  <2>7. LockCountInv'
    BY <2>1, <2>2, <2>3, <2>5 DEF LockCountInv
  <2>8. Exclusion'
    BY <2>2, <2>4 DEF Exclusion
  <2>9. QED
    BY <2>6, <2>7, <2>8
<1>4. QED
  BY <1>2, <1>3

LEMMA WriteUnlockStep ==
    ASSUME LockInv, NEW t \in Thread, WriteUnlock(t)
    PROVE  LockInv'
<1> USE DEF LockInv, LockTypeInv
<1>1. PICK s \in {"notifywrite", "notifyread"} : Go(t, s)
  BY DEF WriteUnlock
<1>2. t \in At("writing") /\ t \in Writers /\ t \notin At("reading") /\ t \notin At("writelock")
      /\ t \notin condRead /\ t \notin condWrite
  BY DEF WriteUnlock, At, Writers
<1>3. /\ pc' \in [Thread -> State]
      /\ At("reading")' = At("reading")
      /\ At("writing")' = At("writing") \ {t}
      /\ At("writelock")' = At("writelock")
      /\ At("readlock")' = At("readlock") \ {t}
  BY <1>1, <1>2, Moves DEF State
<1>4. Writers' = Writers \ {t}
  BY <1>2, <1>3 DEF Writers
<1>5. Cardinality(At("writing") \ {t}) = nWriting - 1
  BY <1>2, Finite DEF At, LockCountInv
<1>6. Cardinality(Writers \ {t}) = nWrite - 1
  BY <1>2, Finite DEF At, Writers, LockCountInv
<1>7. LockTypeInv'
  BY <1>2, <1>3 DEF WriteUnlock
<1>8. LockCountInv'
  BY <1>3, <1>4, <1>5, <1>6 DEF WriteUnlock, LockCountInv
<1>9. Exclusion'
  BY <1>3 DEF Exclusion
<1>10. QED
  BY <1>7, <1>8, <1>9

\* The notifications and the spurious wake-ups touch only who is blocked.
LEMMA WakeStep ==
    ASSUME LockInv, NEW t \in Thread, NotifyWrite(t) \/ NotifyRead(t) \/ SpuriousWakeup(t)
    PROVE  LockInv'
<1> USE DEF LockInv, LockTypeInv
<1>1. CASE NotifyWrite(t) \/ NotifyRead(t)
  <2>1. Go(t, "idle") /\ UNCHANGED <<nRead, nWrite, nWriting>>
    BY <1>1 DEF NotifyWrite, NotifyRead
  <2>2. /\ t \notin At("reading") /\ t \notin At("writing")
        /\ t \notin At("writelock") /\ t \notin At("readlock")
    BY <1>1 DEF NotifyWrite, NotifyRead, At
  <2>3. /\ pc' \in [Thread -> State]
        /\ At("reading")' = At("reading")
        /\ At("writing")' = At("writing")
        /\ At("writelock")' = At("writelock")
        /\ At("readlock")' = At("readlock")
    <3>1. /\ pc' \in [Thread -> State]
          /\ \A x \in State \ {"idle"} : At(x)' = At(x) \ {t}
      BY <2>1, Moves DEF State
    <3>2. QED
      BY <3>1, <2>2 DEF State
  <2>4. condRead' \subseteq condRead /\ condWrite' \subseteq condWrite
    BY <1>1 DEF NotifyWrite, NotifyRead
  <2>5. QED
    BY <2>1, <2>3, <2>4, SameSets
<1>2. CASE SpuriousWakeup(t)
  BY <1>2, SameSets DEF SpuriousWakeup, At
<1>3. QED
  BY <1>1, <1>2

LEMMA LockInvStep == LockInv /\ [LockNext]_lockVars => LockInv'
<1> SUFFICES ASSUME LockInv, [LockNext]_lockVars PROVE LockInv'
  OBVIOUS
<1>1. CASE UNCHANGED lockVars
  BY <1>1, SameSets DEF lockVars, LockInv, LockTypeInv, At
<1>2. ASSUME NEW t \in Thread,
             ReadEnter(t) \/ WriteLock(t) \/ Proceed(t) \/ SpuriousWakeup(t)
      PROVE  LockInv'
  BY <1>2, ReadEnterStep, ReadUnlockStep, WriteLockStep, WriteEnterStep, WriteUnlockStep,
     WakeStep DEF Proceed
<1>3. QED
  BY <1>1, <1>2 DEF LockNext

\* A writer is always alone in its critical section, for every number of threads.
THEOREM Excludes == LockSpec => []Exclusion
<1>1. LockInv => Exclusion
  BY DEF LockInv
<1>2. QED
  BY <1>1, LockInvInit, LockInvStep, PTL DEF LockSpec

\* The counters stay in their ranges: none goes below zero or above what the threads
\* account for, and nWriting is a flag.
THEOREM LockTyping == LockSpec => []LockTypeOK
<1>1. LockInv => LockTypeOK
  <2> SUFFICES ASSUME LockInv PROVE LockTypeOK
    OBVIOUS
  <2>1. /\ At("reading") \in SUBSET Thread
        /\ Writers \in SUBSET Thread
    BY DEF At, Writers
  <2>2. nRead \in 0..Cardinality(Thread) /\ nWrite \in 0..Cardinality(Thread)
    BY <2>1, Finite, LockAssumption, FS_Subset, FS_CardinalityType
    DEF LockInv, LockCountInv
  <2>3. nWriting \in 0..1
    <3>1. CASE At("writing") = {}
      BY <3>1, FS_EmptySet DEF LockInv, LockCountInv
    <3>2. ASSUME NEW w \in At("writing")
          PROVE  nWriting = 1
      BY FS_Singleton DEF LockInv, LockCountInv, Exclusion
    <3>3. QED
      BY <3>1, <3>2
  <2>4. QED
    BY <2>2, <2>3 DEF LockTypeOK, LockInv, LockTypeInv, State
<1>2. QED
  BY <1>1, LockInvInit, LockInvStep, PTL DEF LockSpec

(***************************************************************************)
(* No wake-up is lost.                                                     *)
(***************************************************************************)

\* One step keeps the promise to the blocked writers: each way of leaving nobody inside
\* leaves a notification to come, and a notification leaves a woken writer.
LEMMA WriterStep == LockInv /\ LockInv' /\ WriterNotLost /\ [LockNext]_lockVars => WriterNotLost'
<1> SUFFICES ASSUME LockInv, LockInv', WriterNotLost, [LockNext]_lockVars,
                    condWrite' # {}, At("reading")' = {}, At("writing")' = {}
             PROVE  (At("notifywrite") # {} \/ At("writelock") \ condWrite # {})'
  BY DEF WriterNotLost
<1> USE DEF WriterNotLost
<1>1. CASE UNCHANGED lockVars
  BY <1>1 DEF lockVars, At
<1>2. ASSUME NEW t \in Thread, ReadEnter(t)
      PROVE  (At("notifywrite") # {} \/ At("writelock") \ condWrite # {})'
  BY <1>2 DEF ReadEnter, Go, At, LockInv, LockTypeInv
<1>3. ASSUME NEW t \in Thread, ReadUnlock(t)
      PROVE  (At("notifywrite") # {} \/ At("writelock") \ condWrite # {})'
  <2>1. nRead' = 0 /\ nRead' = nRead - 1
    BY <1>3, FS_EmptySet DEF LockInv, LockCountInv, ReadUnlock
  <2>2. nRead = 1
    BY <2>1, Counted DEF LockInv
  <2>3. nWrite # 0
    BY <1>3, Counted DEF LockInv, LockTypeInv, Writers, ReadUnlock
  <2>4. QED
    BY <1>3, <2>2, <2>3 DEF ReadUnlock, Go, At, LockInv, LockTypeInv
<1>4. ASSUME NEW t \in Thread, WriteLock(t)
      PROVE  (At("notifywrite") # {} \/ At("writelock") \ condWrite # {})'
  <2>1. At("reading") = {} /\ At("writing") = {}
    BY <1>4 DEF WriteLock, Go, At, LockInv, LockTypeInv
  <2>2. Go(t, "writelock") /\ condWrite' = condWrite \cup {t}
    BY <1>4 DEF WriteLock, Go, At, LockInv, LockTypeInv
  <2>3. At("writelock") # {}
    BY <1>4, <2>1, <2>2, Counted DEF WriteLock, Go, At, LockInv, LockTypeInv, Writers
  <2>4. At("notifywrite") # {} \/ At("writelock") \ condWrite # {}
    BY <2>1, <2>3
  <2>5. QED
    BY <1>4, <2>2, <2>4 DEF WriteLock, Go, At, LockInv, LockTypeInv
<1>5. ASSUME NEW t \in Thread, WriteEnter(t)
      PROVE  FALSE
  <2>1. CASE nRead # 0 \/ nWriting # 0
    BY <1>5, <2>1, Counted DEF WriteEnter, At, LockInv
  <2>2. CASE nRead = 0 /\ nWriting = 0
    BY <1>5, <2>2 DEF WriteEnter, Go, At, LockInv, LockTypeInv
  <2>3. QED
    BY <2>1, <2>2
<1>6. ASSUME NEW t \in Thread, WriteUnlock(t)
      PROVE  (At("notifywrite") # {} \/ At("writelock") \ condWrite # {})'
  <2>1. nWrite' # 0 /\ nWrite' = nWrite - 1
    <3>1. Writers' \in SUBSET Thread /\ Writers' # {}
      BY DEF LockInv, LockTypeInv, Writers, At
    <3>2. QED
      BY <1>6, <3>1, Finite DEF LockInv, WriteUnlock, LockCountInv
  <2>2. nWrite # 1
    BY <2>1
  <2>3. QED
    BY <1>6, <2>2 DEF WriteUnlock, Go, At, LockInv, LockTypeInv
<1>7. ASSUME NEW t \in Thread, NotifyWrite(t)
      PROVE  (At("notifywrite") # {} \/ At("writelock") \ condWrite # {})'
  <2>1. PICK w \in condWrite : condWrite' = condWrite \ {w}
    BY <1>7 DEF NotifyWrite
  <2>2. w \in At("writelock") /\ w # t
    BY <1>7 DEF LockInv, LockTypeInv, At, NotifyWrite
  <2>3. QED
    BY <1>7, <2>1, <2>2 DEF NotifyWrite, Go, At, LockInv, LockTypeInv
<1>8. ASSUME NEW t \in Thread, NotifyRead(t)
      PROVE  (At("notifywrite") # {} \/ At("writelock") \ condWrite # {})'
  BY <1>8 DEF NotifyRead, Go, At, LockInv, LockTypeInv
<1>9. ASSUME NEW t \in Thread, SpuriousWakeup(t)
      PROVE  (At("notifywrite") # {} \/ At("writelock") \ condWrite # {})'
  BY <1>9 DEF SpuriousWakeup, At, LockInv, LockTypeInv
<1>10. QED
  BY <1>1, <1>2, <1>3, <1>4, <1>5, <1>6, <1>7, <1>8, <1>9 DEF LockNext, Proceed

\* When nobody is inside and writers are blocked, a notification is to come or a woken
\* writer is about to look: WriteLock and the unlocks never leave them asleep.
THEOREM WriterAwake == LockSpec => []WriterNotLost
<1>1. LockInit => WriterNotLost
  BY DEF LockInit, WriterNotLost
<1>2. QED
  BY <1>1, LockInvInit, LockInvStep, WriterStep, PTL DEF LockSpec

\* Blocked readers are never left with no writer and no notification to come.
THEOREM ReaderAwake == LockSpec => []ReaderNotLost
<1>1. LockInit => ReaderNotLost
  BY DEF LockInit, ReaderNotLost
<1>2. LockInv /\ LockInv' /\ ReaderNotLost /\ [LockNext]_lockVars => ReaderNotLost'
  <2> SUFFICES ASSUME LockInv, LockInv', ReaderNotLost, [LockNext]_lockVars, condRead' # {}, nWrite' = 0
               PROVE  At("notifyread")' # {}
    BY DEF ReaderNotLost
  <2>1. CASE UNCHANGED lockVars
    BY <2>1 DEF lockVars, At, ReaderNotLost
  <2>2. ASSUME NEW t \in Thread, ReadEnter(t)
        PROVE  At("notifyread")' # {}
    BY <2>2 DEF ReadEnter, Go, At, LockInv, LockTypeInv, ReaderNotLost
  <2>3. ASSUME NEW t \in Thread, ReadUnlock(t)
        PROVE  At("notifyread")' # {}
    BY <2>3 DEF ReadUnlock, Go, At, LockInv, LockTypeInv, ReaderNotLost
  <2>4. ASSUME NEW t \in Thread, WriteLock(t)
        PROVE  FALSE
    BY <2>4, Counted DEF WriteLock, LockInv
  <2>5. ASSUME NEW t \in Thread, WriteEnter(t)
        PROVE  At("notifyread")' # {}
    BY <2>5 DEF WriteEnter, Go, At, LockInv, LockTypeInv, ReaderNotLost
  <2>6. ASSUME NEW t \in Thread, WriteUnlock(t)
        PROVE  At("notifyread")' # {}
    <3>1. nWrite = 1
      BY <2>6, Counted DEF WriteUnlock, LockInv
    <3>2. QED
      BY <2>6, <3>1 DEF WriteUnlock, Go, At, LockInv, LockTypeInv
  <2>7. ASSUME NEW t \in Thread, NotifyWrite(t)
        PROVE  At("notifyread")' # {}
    BY <2>7 DEF NotifyWrite, Go, At, LockInv, LockTypeInv, ReaderNotLost
  <2>8. ASSUME NEW t \in Thread, NotifyRead(t)
        PROVE  FALSE
    BY <2>8 DEF NotifyRead
  <2>9. ASSUME NEW t \in Thread, SpuriousWakeup(t)
        PROVE  At("notifyread")' # {}
    BY <2>9 DEF SpuriousWakeup, At, ReaderNotLost
  <2>10. QED
    BY <2>1, <2>2, <2>3, <2>4, <2>5, <2>6, <2>7, <2>8, <2>9 DEF LockNext, Proceed
<1>3. QED
  BY <1>1, <1>2, LockInvInit, LockInvStep, PTL DEF LockSpec

\* The lock excludes, and neither a writer nor a reader sleeps through a notification.
THEOREM LockHolds == LockSpec => []LockSafe
BY Excludes, WriterAwake, ReaderAwake, PTL DEF LockSafe, NoneLost
-------------------------------------------------------------------------------
USE EventProcAssumption DEF EventProcAssumption

(***************************************************************************)
(* Typing.                                                                 *)
(***************************************************************************)

\* The thread handles a posted event: what it appends to the history has a number.
HoldsEvent == thread = "handle" => pEvent # 0

TypeInv == TypeOK /\ HoldsEvent

\* Every step keeps the types, and the event in hand is one that was posted.
LEMMA TypingStep == TypeInv /\ [Next]_vars => TypeInv'
<1> SUFFICES ASSUME TypeInv, [Next]_vars
             PROVE  TypeInv'
  OBVIOUS
<1> USE DEF TypeInv, TypeOK, HoldsEvent
<1>1. CASE PostEvent
  BY <1>1 DEF PostEvent, Q!AddNew
<1>2. CASE InvokeReset
  <2>1. fAbort' \in BOOLEAN
    BY <1>2, Zenon DEF InvokeReset, Q!Reset
  <2>2. QED
    BY <1>2, <2>1 DEF InvokeReset, Q!Reset
<1>3. CASE InvokeStart
  BY <1>3 DEF InvokeStart
<1>4. CASE HaltInterrupt
  BY <1>4 DEF HaltInterrupt, Q!Interrupt
<1>5. CASE HaltJoin
  BY <1>5 DEF HaltJoin
<1>6. CASE FetchEvent
  <2>1. Head(que) \in 1..MaxPosts /\ Tail(que) \in Seq(1..MaxPosts)
    BY <1>6 DEF FetchEvent, Q!Fetch
  <2>2. QED
    BY <1>6, <2>1 DEF FetchEvent, Q!Fetch
<1>7. CASE FetchExit
  BY <1>7 DEF FetchExit, Q!FetchNull
<1>8. ASSUME NEW fResult \in {TRUE, ~HandlerMayFail}, HandleEvent(fResult)
      PROVE  TypeInv'
  <2>1. handled' \in Seq(1..MaxPosts)
    BY <1>8 DEF HandleEvent
  <2>2. thread' \in {"free", "reset"}
    BY <1>8, Zenon DEF HandleEvent
  <2>3. QED
    BY <1>8, <2>1, <2>2 DEF HandleEvent
<1>9. CASE ResetAfterFailure
  <2>1. fAbort' \in BOOLEAN
    BY <1>9, Zenon DEF ResetAfterFailure, Q!Reset
  <2>2. QED
    BY <1>9, <2>1 DEF ResetAfterFailure, Q!Reset
<1>10. CASE FreeEvent
  BY <1>10 DEF FreeEvent
<1>11. CASE UNCHANGED vars
  BY <1>11 DEF vars
<1>12. QED
  BY <1>1, <1>2, <1>3, <1>4, <1>5, <1>6, <1>7, <1>8, <1>9, <1>10, <1>11
  DEF Next, Docker, EventThread

LEMMA TypingInit == Init => TypeInv
<1> SUFFICES ASSUME Init PROVE TypeInv
  OBVIOUS
<1>1. fAbort \in BOOLEAN
  BY Zenon DEF Init
<1>2. QED
  BY <1>1 DEF Init, TypeInv, TypeOK, HoldsEvent

\* Every variable keeps its type: only numbered events are queued, held and handled, and
\* the docker and the thread are in one of their program points.
THEOREM Typing == Spec => []TypeOK
<1>1. TypeInv => TypeOK
  BY DEF TypeInv
<1>2. QED
  BY <1>1, TypingInit, TypingStep, PTL DEF Spec

(***************************************************************************)
(* Order.  HandledInOrder speaks of the history alone; what keeps it true  *)
(* is the order of everything that may still be handled: the history, then *)
(* the event in hand, then the queue, then the events not yet posted.      *)
(***************************************************************************)
QueueInOrder ==
    \A i, j \in 1..Len(que) : i < j => que[i] < que[j]

QueueAfterHistory ==
    \A i \in 1..Len(handled), j \in 1..Len(que) : handled[i] < que[j]

HandAfterHistory ==
    thread = "handle" => \A i \in 1..Len(handled) : handled[i] < pEvent

HandBeforeQueue ==
    thread = "handle" => \A j \in 1..Len(que) : pEvent < que[j]

AllPosted ==
    /\ \A i \in 1..Len(handled) : handled[i] <= nPosted
    /\ \A j \in 1..Len(que) : que[j] <= nPosted
    /\ thread = "handle" => pEvent <= nPosted

OrderInv ==
    /\ HandledInOrder
    /\ QueueInOrder
    /\ QueueAfterHistory
    /\ HandAfterHistory
    /\ HandBeforeQueue
    /\ AllPosted

(***************************************************************************)
(* Freshness.  While the thread exists the module is up or being joined,   *)
(* and from the Reset of Invoke on the queue holds later events only.      *)
(***************************************************************************)
FreshInv ==
    /\ thread # "none" => module \in {"up", "joining"}
    /\ module # "down" => \A j \in 1..Len(que) : que[j] > mark
    /\ NoStaleEvent

IInv == TypeInv /\ OrderInv /\ FreshInv

LEMMA InvInit == Init => IInv
<1> SUFFICES ASSUME Init PROVE IInv
  OBVIOUS
<1>1. TypeInv
  BY TypingInit
<1>2. OrderInv /\ FreshInv
  BY DEF Init, OrderInv, HandledInOrder, QueueInOrder, QueueAfterHistory,
         HandAfterHistory, HandBeforeQueue, AllPosted, FreshInv, NoStaleEvent
<1>3. QED
  BY <1>1, <1>2 DEF IInv

\* A posted event has a higher number than all before it.
LEMMA PostKeepsOrder ==
  ASSUME TypeInv, TypeInv', OrderInv, FreshInv, PostEvent
  PROVE  OrderInv' /\ FreshInv'
<1> USE DEF TypeInv, TypeOK
<1>1. /\ que' = Append(que, nPosted + 1)
      /\ nPosted' = nPosted + 1
      /\ UNCHANGED <<thread, pEvent, module, mark, handled>>
  BY DEF PostEvent, Q!AddNew
<1>2. /\ Len(que) \in Nat
      /\ Len(que') = Len(que) + 1
      /\ \A j \in 1..Len(que) : que'[j] = que[j]
      /\ que'[Len(que) + 1] = nPosted + 1
  BY <1>1
<1>3. /\ \A j \in 1..Len(que) : que[j] \in Nat /\ que[j] <= nPosted
      /\ \A i \in 1..Len(handled) : handled[i] \in Nat /\ handled[i] <= nPosted
      /\ thread = "handle" => pEvent <= nPosted
  <2>1. \A j \in 1..Len(que) : que[j] \in 1..MaxPosts
    OBVIOUS
  <2>2. \A i \in 1..Len(handled) : handled[i] \in 1..MaxPosts
    OBVIOUS
  <2> HIDE DEF TypeInv, TypeOK
  <2>3. AllPosted
    BY DEF OrderInv
  <2>4. \A n \in 1..MaxPosts : n \in Nat
    OBVIOUS
  <2>5. /\ \A j \in 1..Len(que) : que[j] \in Nat
        /\ \A i \in 1..Len(handled) : handled[i] \in Nat
    BY <2>1, <2>2, <2>4
  <2>6. QED
    BY <2>3, <2>5 DEF AllPosted
<1>4. QueueInOrder'
  <2> SUFFICES ASSUME NEW i \in 1..Len(que'), NEW j \in 1..Len(que'), i < j
               PROVE  que'[i] < que'[j]
    BY DEF QueueInOrder
  <2> HIDE DEF TypeInv, TypeOK
  <2>1. /\ i \in 1..Len(que) /\ que'[i] = que[i]
        /\ j \in 1..Len(que) \/ j = Len(que) + 1
    BY <1>2
  <2>2. CASE j \in 1..Len(que)
    BY <1>2, <2>1, <2>2 DEF OrderInv, QueueInOrder
  <2>3. CASE j = Len(que) + 1
    <3>1. nPosted \in Nat
      BY DEF TypeInv, TypeOK
    <3>2. QED
      BY <1>2, <1>3, <2>1, <2>3, <3>1
  <2>4. QED
    BY <1>2, <2>1, <2>2, <2>3
<1>5. QueueAfterHistory'
  <2> SUFFICES ASSUME NEW i \in 1..Len(handled), NEW j \in 1..Len(que')
               PROVE  handled[i] < que'[j]
    BY <1>1 DEF QueueAfterHistory
  <2> HIDE DEF TypeInv, TypeOK
  <2>1. CASE j \in 1..Len(que)
    BY <1>2, <2>1 DEF OrderInv, QueueAfterHistory
  <2>2. CASE j = Len(que) + 1
    <3>1. nPosted \in Nat
      BY DEF TypeInv, TypeOK
    <3>2. QED
      BY <1>2, <1>3, <2>2, <3>1
  <2>3. QED
    BY <1>2, <2>1, <2>2
<1>6. HandBeforeQueue'
  BY <1>1, <1>2, <1>3 DEF OrderInv, HandBeforeQueue
<1>7. AllPosted'
  BY <1>1, <1>2, <1>3 DEF AllPosted
<1>8. HandledInOrder' /\ HandAfterHistory'
  BY <1>1 DEF OrderInv, HandledInOrder, HandAfterHistory
<1>9. FreshInv'
  BY <1>1, <1>2 DEF FreshInv, NoStaleEvent
<1>10. QED
  BY <1>4, <1>5, <1>6, <1>7, <1>8, <1>9 DEF OrderInv

\* Fetch takes the lowest number still queued, which is later than the history.
LEMMA FetchKeepsOrder ==
  ASSUME TypeInv, TypeInv', OrderInv, FreshInv, FetchEvent
  PROVE  OrderInv' /\ FreshInv'
<1> USE DEF TypeInv, TypeOK
<1>1. /\ que # <<>>
      /\ pEvent' = Head(que)
      /\ que' = Tail(que)
      /\ thread = "fetch" /\ thread' = "handle"
      /\ UNCHANGED <<module, nPosted, mark, handled>>
  BY DEF FetchEvent, Q!Fetch
<1>2. /\ Len(que) > 0
      /\ pEvent' = que[1]
      /\ Len(que') = Len(que) - 1
      /\ \A j \in 1..Len(que') : que'[j] = que[j + 1]
  BY <1>1
<1>3. \A j \in 1..Len(que) : que[j] \in Nat
  OBVIOUS
<1>4. QueueInOrder'
  <2> SUFFICES ASSUME NEW i \in 1..Len(que'), NEW j \in 1..Len(que'), i < j
               PROVE  que'[i] < que'[j]
    BY DEF QueueInOrder
  <2>1. i + 1 \in 1..Len(que) /\ j + 1 \in 1..Len(que) /\ i + 1 < j + 1
    BY <1>2
  <2>2. que[i + 1] < que[j + 1]
    BY <2>1 DEF OrderInv, QueueInOrder
  <2>3. QED
    BY <1>2, <2>2
<1>5. QueueAfterHistory'
  BY <1>1, <1>2, <1>3 DEF OrderInv, QueueAfterHistory
<1>6. HandAfterHistory'
  BY <1>1, <1>2 DEF OrderInv, QueueAfterHistory, HandAfterHistory
<1>7. HandBeforeQueue'
  <2> SUFFICES ASSUME NEW j \in 1..Len(que')
               PROVE  pEvent' < que'[j]
    BY DEF HandBeforeQueue
  <2>1. 1 \in 1..Len(que) /\ j + 1 \in 1..Len(que) /\ 1 < j + 1
    BY <1>2
  <2>2. que[1] < que[j + 1]
    BY <2>1 DEF OrderInv, QueueInOrder
  <2>3. QED
    BY <1>2, <2>2
<1>8. AllPosted'
  BY <1>1, <1>2 DEF OrderInv, AllPosted
<1>9. HandledInOrder'
  BY <1>1 DEF OrderInv, HandledInOrder
<1>10. FreshInv'
  BY <1>1, <1>2 DEF FreshInv, NoStaleEvent
<1>11. QED
  BY <1>4, <1>5, <1>6, <1>7, <1>8, <1>9, <1>10 DEF OrderInv

\* The event in hand joins the history, between it and the queue.
LEMMA HandleKeepsOrder ==
  ASSUME TypeInv, TypeInv', OrderInv, FreshInv,
         NEW fResult \in {TRUE, ~HandlerMayFail}, HandleEvent(fResult)
  PROVE  OrderInv' /\ FreshInv'
<1> USE DEF TypeInv, TypeOK
<1>1. /\ thread = "handle"
      /\ handled' = Append(handled, pEvent)
      /\ UNCHANGED <<que, pEvent, module, nPosted, mark>>
  BY DEF HandleEvent
<1>2. thread' \in {"free", "reset"}
  BY Zenon DEF HandleEvent
<1>3. /\ Len(handled') = Len(handled) + 1
      /\ \A i \in 1..Len(handled) : handled'[i] = handled[i]
      /\ handled'[Len(handled) + 1] = pEvent
  BY <1>1
<1>4. HandledInOrder'
  BY <1>1, <1>3 DEF OrderInv, HandledInOrder, HandAfterHistory
<1>5. QueueAfterHistory'
  BY <1>1, <1>3 DEF OrderInv, QueueAfterHistory, HandBeforeQueue
<1>6. AllPosted'
  BY <1>1, <1>2, <1>3 DEF OrderInv, AllPosted
<1>7. QueueInOrder' /\ HandAfterHistory' /\ HandBeforeQueue'
  BY <1>1, <1>2 DEF OrderInv, QueueInOrder, HandAfterHistory, HandBeforeQueue
<1>8. FreshInv'
  BY <1>1, <1>2 DEF FreshInv, NoStaleEvent
<1>9. QED
  BY <1>4, <1>5, <1>6, <1>7, <1>8 DEF OrderInv

\* An empty queue is in order, whatever emptied it.
LEMMA EmptyKeepsOrder ==
  ASSUME TypeInv, OrderInv, que' = <<>>, UNCHANGED <<pEvent, nPosted, handled>>,
         thread' = "handle" => thread = "handle"
  PROVE  OrderInv'
BY DEF OrderInv, HandledInOrder, QueueInOrder, QueueAfterHistory, HandAfterHistory,
       HandBeforeQueue, AllPosted, TypeInv, TypeOK

\* So is the queue left as it is by a thread that does not take an event.
LEMMA SameKeepsOrder ==
  ASSUME OrderInv, UNCHANGED <<que, nPosted, handled>>,
         thread' = "handle" => thread = "handle" /\ pEvent' = pEvent
  PROVE  OrderInv'
BY DEF OrderInv, HandledInOrder, QueueInOrder, QueueAfterHistory, HandAfterHistory,
       HandBeforeQueue, AllPosted

LEMMA InvStep == IInv /\ [Next]_vars => IInv'
<1> SUFFICES ASSUME IInv, [Next]_vars
             PROVE  IInv'
  OBVIOUS
<1>1. TypeInv /\ OrderInv /\ FreshInv
  BY DEF IInv
<1>2. TypeInv'
  BY <1>1, TypingStep
<1>3. SUFFICES OrderInv' /\ FreshInv'
  BY <1>2 DEF IInv
<1>4. CASE PostEvent
  BY <1>1, <1>2, <1>4, PostKeepsOrder
<1>5. CASE InvokeReset
  <2>1. OrderInv'
    BY <1>1, <1>5, EmptyKeepsOrder DEF InvokeReset, Q!Reset
  <2>2. FreshInv'
    BY <1>1, <1>5 DEF InvokeReset, Q!Reset, FreshInv, NoStaleEvent, TypeInv, TypeOK
  <2>3. QED
    BY <2>1, <2>2
<1>6. CASE InvokeStart
  <2>1. OrderInv'
    BY <1>1, <1>6, SameKeepsOrder DEF InvokeStart
  <2>2. FreshInv'
    BY <1>1, <1>6 DEF InvokeStart, FreshInv, NoStaleEvent
  <2>3. QED
    BY <2>1, <2>2
<1>7. CASE HaltInterrupt
  <2>1. OrderInv'
    BY <1>1, <1>7, EmptyKeepsOrder DEF HaltInterrupt, Q!Interrupt
  <2>2. FreshInv'
    BY <1>1, <1>7 DEF HaltInterrupt, Q!Interrupt, FreshInv, NoStaleEvent
  <2>3. QED
    BY <2>1, <2>2
<1>8. CASE HaltJoin
  <2>1. OrderInv'
    BY <1>1, <1>8, SameKeepsOrder DEF HaltJoin
  <2>2. FreshInv'
    BY <1>1, <1>8 DEF HaltJoin, FreshInv, NoStaleEvent
  <2>3. QED
    BY <2>1, <2>2
<1>9. CASE FetchEvent
  BY <1>1, <1>2, <1>9, FetchKeepsOrder
<1>10. CASE FetchExit
  <2>1. OrderInv'
    BY <1>1, <1>10, SameKeepsOrder DEF FetchExit, Q!FetchNull
  <2>2. FreshInv'
    BY <1>1, <1>10 DEF FetchExit, Q!FetchNull, FreshInv, NoStaleEvent
  <2>3. QED
    BY <2>1, <2>2
<1>11. ASSUME NEW fResult \in {TRUE, ~HandlerMayFail}, HandleEvent(fResult)
       PROVE  OrderInv' /\ FreshInv'
  BY <1>1, <1>2, <1>11, HandleKeepsOrder
<1>12. CASE ResetAfterFailure
  <2>1. OrderInv'
    BY <1>1, <1>12, EmptyKeepsOrder DEF ResetAfterFailure, Q!Reset
  <2>2. FreshInv'
    BY <1>1, <1>12 DEF ResetAfterFailure, Q!Reset, FreshInv, NoStaleEvent
  <2>3. QED
    BY <2>1, <2>2
<1>13. CASE FreeEvent
  <2>1. OrderInv'
    BY <1>1, <1>13, SameKeepsOrder DEF FreeEvent
  <2>2. FreshInv'
    BY <1>1, <1>13 DEF FreeEvent, FreshInv, NoStaleEvent
  <2>3. QED
    BY <2>1, <2>2
<1>14. CASE UNCHANGED vars
  <2>1. OrderInv'
    BY <1>1, <1>14, SameKeepsOrder DEF vars
  <2>2. FreshInv'
    BY <1>1, <1>14 DEF vars, FreshInv, NoStaleEvent
  <2>3. QED
    BY <2>1, <2>2
<1>15. QED
  BY <1>4, <1>5, <1>6, <1>7, <1>8, <1>9, <1>10, <1>11, <1>12, <1>13, <1>14
  DEF Next, Docker, EventThread

\* Whatever resets, halts and restarts come in between, the events handled are handled
\* in the order in which they were posted, none of them twice.
THEOREM Order == Spec => []HandledInOrder
<1>1. IInv => HandledInOrder
  BY DEF IInv, OrderInv
<1>2. QED
  BY <1>1, InvInit, InvStep, PTL DEF Spec

\* A restarted module never handles what was posted before its last Invoke.
THEOREM Freshness == Spec => []NoStaleEvent
<1>1. IInv => NoStaleEvent
  BY DEF IInv, FreshInv
<1>2. QED
  BY <1>1, InvInit, InvStep, PTL DEF Spec

\* Both: in order, once, and only events of this run.
THEOREM Ordered == Spec => []EventsInOrder
BY Order, Freshness, PTL DEF EventsInOrder
===============================================================================
