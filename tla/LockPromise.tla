---------------------------- MODULE LockPromise ----------------------------
(***************************************************************************)
(* What CWalleveRWAccess promises the threads that use it, in terms of its *)
(* state.  RWLock says what its operations do to that state.               *)
(***************************************************************************)
EXTENDS FiniteSets

CONSTANT Thread

ASSUME LockAssumption == IsFiniteSet(Thread)

VARIABLES
    pc,          \* what each thread is doing
    nRead, nWrite, nWriting,
    condRead, condWrite      \* the threads blocked on each condition variable

At(state) == {t \in Thread : pc[t] = state}
-----------------------------------------------------------------------------
\* A writer is alone: no reader and no other writer is inside with it.
Exclusion ==
    \A w \in At("writing") : At("reading") = {} /\ At("writing") = {w}

\* When nobody is inside and writers are blocked, one of them has been woken or is about
\* to be: no notification is lost between the counters and the condition variables.
WriterNotLost ==
    condWrite # {} /\ At("reading") = {} /\ At("writing") = {} =>
        At("notifywrite") # {} \/ At("writelock") \ condWrite # {}

\* A reader blocks only while a writer is inside, waits, or has yet to notify readers.
ReaderNotLost ==
    condRead # {} => nWrite # 0 \/ At("notifyread") # {}

\* No notification is lost, of either kind (rwlock.h:37, 54).
NoneLost == WriterNotLost /\ ReaderNotLost

\* The lock excludes and wakes, in every interleaving of its critical sections.
LockSafe == Exclusion /\ NoneLost

\* As long as writers wait, one of them gets in.
WritersProgress == At("writelock") # {} ~> At("writing") # {}
=============================================================================
