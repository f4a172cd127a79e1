------------------------------- MODULE RWLock -------------------------------
(***************************************************************************)
(* CWalleveRWAccess: a readers-writer lock made of three atomic counters,  *)
(* a shared mutex and two condition variables.                             *)
(*                                                                         *)
(* The counters are tested and changed under the mutex, by readers in      *)
(* shared mode and by writers in unique mode.  nWrite and nWriting change  *)
(* in unique mode only, so each section under the mutex is one step.  The  *)
(* notifications come after the mutex is released, in steps of their own.  *)
(***************************************************************************)
EXTENDS Integers, LockPromise

lockVars == <<pc, nRead, nWrite, nWriting, condRead, condWrite>>

Go(t, state) == pc' = [pc EXCEPT ![t] = state]

LockInit ==
    /\ pc = [t \in Thread |-> "idle"]
    /\ nRead = 0 /\ nWrite = 0 /\ nWriting = 0
    /\ condRead = {} /\ condWrite = {}

\* The loop of ReadLock: enter, or block until woken and look again.
ReadEnter(t) ==
    /\ pc[t] \in {"idle", "readlock"} /\ t \notin condRead
    /\ IF nWrite = 0
       THEN nRead' = nRead + 1 /\ Go(t, "reading") /\ UNCHANGED condRead
       ELSE condRead' = condRead \cup {t} /\ Go(t, "readlock") /\ UNCHANGED nRead
    /\ UNCHANGED <<nWrite, nWriting, condWrite>>

\* Mutant of ReadUnlock: every reader but the last one notifies.
ReadUnlockNotLast(t) ==
    /\ pc[t] = "reading"
    /\ nRead' = nRead - 1
    /\ Go(t, IF nRead # 1 /\ nWrite # 0 THEN "notifywrite" ELSE "idle")
    /\ UNCHANGED <<nWrite, nWriting, condRead, condWrite>>

ReadUnlock(t) ==
    /\ pc[t] = "reading"
    /\ nRead' = nRead - 1
    /\ Go(t, IF nRead = 1 /\ nWrite # 0 THEN "notifywrite" ELSE "idle")
    /\ UNCHANGED <<nWrite, nWriting, condRead, condWrite>>

\* Mutant of WriteLock: a first writer does not look for readers.
WriteLockPastReaders(t) ==
    /\ pc[t] = "idle"
    /\ nWrite' = nWrite + 1
    /\ IF nWrite # 0
       THEN condWrite' = condWrite \cup {t} /\ Go(t, "writelock") /\ UNCHANGED nWriting
       ELSE nWriting' = nWriting + 1 /\ Go(t, "writing") /\ UNCHANGED condWrite
    /\ UNCHANGED <<nRead, condRead>>

\* WriteLock: announce the writer; it waits if there is another, or a reader.
WriteLock(t) ==
    /\ pc[t] = "idle"
    /\ nWrite' = nWrite + 1
    /\ IF nWrite # 0 \/ nRead # 0
       THEN condWrite' = condWrite \cup {t} /\ Go(t, "writelock") /\ UNCHANGED nWriting
       ELSE nWriting' = nWriting + 1 /\ Go(t, "writing") /\ UNCHANGED condWrite
    /\ UNCHANGED <<nRead, condRead>>

\* A woken writer enters, or blocks again.
WriteEnter(t) ==
    /\ pc[t] = "writelock" /\ t \notin condWrite
    /\ IF nRead # 0 \/ nWriting # 0
       THEN condWrite' = condWrite \cup {t} /\ UNCHANGED <<pc, nWriting>>
       ELSE nWriting' = nWriting + 1 /\ Go(t, "writing") /\ UNCHANGED condWrite
    /\ UNCHANGED <<nRead, nWrite, condRead>>

\* Mutant of WriteUnlock: the test for another writer comes after the decrement.
WriteUnlockLate(t) ==
    /\ pc[t] = "writing"
    /\ nWrite' = nWrite - 1
    /\ nWriting' = nWriting - 1
    /\ Go(t, IF nWrite' # 1 THEN "notifywrite" ELSE "notifyread")
    /\ UNCHANGED <<nRead, condRead, condWrite>>

WriteUnlock(t) ==
    /\ pc[t] = "writing"
    /\ nWrite' = nWrite - 1
    /\ nWriting' = nWriting - 1
    /\ Go(t, IF nWrite # 1 THEN "notifywrite" ELSE "notifyread")
    /\ UNCHANGED <<nRead, condRead, condWrite>>

\* condWrite.notify_one wakes any one of the blocked writers.
NotifyWrite(t) ==
    /\ pc[t] = "notifywrite"
    /\ Go(t, "idle")
    /\ IF condWrite = {}
       THEN UNCHANGED condWrite
       ELSE \E w \in condWrite : condWrite' = condWrite \ {w}
    /\ UNCHANGED <<nRead, nWrite, nWriting, condRead>>

NotifyRead(t) ==
    /\ pc[t] = "notifyread"
    /\ Go(t, "idle")
    /\ condRead' = {}
    /\ UNCHANGED <<nRead, nWrite, nWriting, condWrite>>

\* A condition variable may wake a thread that nobody has notified.
SpuriousWakeup(t) ==
    /\ t \in condRead \cup condWrite
    /\ condRead' = condRead \ {t}
    /\ condWrite' = condWrite \ {t}
    /\ UNCHANGED <<pc, nRead, nWrite, nWriting>>

\* What a thread does once it has called ReadLock or WriteLock.
Proceed(t) ==
    \/ pc[t] = "readlock" /\ ReadEnter(t)
    \/ ReadUnlock(t) \/ WriteEnter(t) \/ WriteUnlock(t) \/ NotifyWrite(t) \/ NotifyRead(t)

LockNext == \E t \in Thread : ReadEnter(t) \/ WriteLock(t) \/ Proceed(t) \/ SpuriousWakeup(t)

LockSpec == LockInit /\ [][LockNext]_lockVars

\* Threads are scheduled and leave their critical sections; none has to enter one, and
\* nothing is assumed of spurious wake-ups.
LockFairSpec == LockSpec /\ \A t \in Thread : WF_lockVars(Proceed(t))
----------------------------------------------------------------------------
LockTypeOK ==
    /\ pc \in [Thread -> {"idle", "readlock", "reading", "writelock", "writing",
                          "notifywrite", "notifyread"}]
    /\ nRead \in 0..Cardinality(Thread)
    /\ nWrite \in 0..Cardinality(Thread)
    /\ nWriting \in 0..1
    /\ condRead \subseteq At("readlock")
    /\ condWrite \subseteq At("writelock")
=============================================================================
