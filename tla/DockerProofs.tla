---------------------------- MODULE DockerProofs ----------------------------
(***************************************************************************)
(* Proofs about Docker for every set of modules of any kind: a module has a*)
(* thread only while it is invoked, and the first Run starts no delayed    *)
(* thread before it has invoked every module.                              *)
(***************************************************************************)
EXTENDS Docker, SequenceTheorems, FiniteSetTheorems, TLAPS

\* Where the docker is in its work queue.
PosInv ==
    /\ pc \in {"initialize", "invoke", "join"} => pos > 0
    /\ pc \in {"halt", "join"} => pos <= Len(vWorkQueue)

\* While Run initializes, no module of its queue is invoked yet.
InitializeInv ==
    pc = "initialize" =>
        \A i \in DOMAIN vWorkQueue : status[vWorkQueue[i]] \in {"attached", "initialized"}

\* A halt goes backwards: what it has passed is not invoked.
HaltInv ==
    pc \in {"halt", "join"} =>
        \A i \in DOMAIN vWorkQueue : i > pos => status[vWorkQueue[i]] # "invoked"

\* The shutdown is the last thing that happens.
ShutdownInv == fShutdown => goal = "exit" /\ pc \in {"halt", "join", "exited"}

\* Before the first call there is no thread.
NotYetInv ==
    calls = 0 =>
        /\ ~fActived
        /\ pc \notin {"initialize", "invoke"}
        /\ \A k \in Module : thread[k] = "none"

\* Until the first Run has invoked its modules, the delayed threads wait.
FirstRunInv ==
    calls = 1 /\ goal = "run" /\ pc \in {"initialize", "invoke"} =>
        /\ ~fActived
        /\ \A k \in Module : Delayed(k) => thread[k] \in {"none", "delayed"}

IInv ==
    /\ TypeOK /\ PosInv /\ InitializeInv /\ HaltInv
    /\ ShutdownInv /\ NotYetInv /\ FirstRunInv
    /\ ThreadOnlyWhileInvoked

(***************************************************************************)
(* Queues of modules.                                                      *)
(***************************************************************************)

\* A queue of installed modules is a sequence of modules of the set it is made from.
LEMMA InOrderIsQueue ==
    ASSUME listInstalled \in Seq(Module), NEW S, NEW queue \in InOrder(S)
    PROVE  /\ queue \in Seq(Module)
           /\ \A i \in DOMAIN queue : queue[i] \in S
<1> DEFINE chosen == Installed \cap S
<1>1. IsFiniteSet(Installed) /\ Installed \subseteq Module
  <2>1. Len(listInstalled) \in Nat /\ DOMAIN listInstalled = 1..Len(listInstalled)
    OBVIOUS
  <2>2. IsFiniteSet(1..Len(listInstalled))
    BY <2>1, FS_Interval
  <2>3. Installed = {listInstalled[i] : i \in 1..Len(listInstalled)}
    BY <2>1 DEF Installed, ToSet
  <2> DEFINE at == [i \in 1..Len(listInstalled) |-> listInstalled[i]]
  <2>4. at \in Surjection(1..Len(listInstalled), Installed)
    BY <2>3 DEF Surjection
  <2>5. IsFiniteSet(Installed)
    BY <2>2, <2>4, FS_Surjection
  <2>6. QED
    BY <2>3, <2>5
<1>2. Cardinality(chosen) \in Nat
  BY <1>1, FS_Subset, FS_CardinalityType
<1>3. queue \in [1..Cardinality(chosen) -> chosen]
  BY DEF InOrder, SetToSeqs
<1> HIDE DEF chosen
<1>4. queue \in Seq(chosen)
  BY <1>2, <1>3
<1>5. chosen \subseteq Module /\ chosen \subseteq S
  BY <1>1 DEF chosen
<1>6. QED
  BY <1>4, <1>5

\* Removing one place of a sequence leaves a sequence of the same elements.
LEMMA RemoveAtIsSeq ==
    ASSUME NEW S, NEW s \in Seq(S), NEW i \in 1..Len(s)
    PROVE  RemoveAt(s, i) \in Seq(S)
<1>1. SubSeq(s, 1, i - 1) \in Seq(S) /\ SubSeq(s, i + 1, Len(s)) \in Seq(S)
  BY SubSeqProperties
<1>2. QED
  BY <1>1, ConcatProperties DEF RemoveAt


\* Every step keeps the types and stays in the work queue.
LEMMA TypeStep ==
    ASSUME IInv, [Next]_vars
    PROVE  TypeOK' /\ PosInv'
<1> USE DockerAssumption DEF IInv, TypeOK, PosInv, Statuses, ThreadStates,
        modVars, flagVars, threadVars, callVars
<1>1. ASSUME NEW k \in Module, Attach(k) PROVE TypeOK' /\ PosInv'
  BY <1>1 DEF Attach
<1>2. CASE CallRun
  BY <1>2, InOrderIsQueue DEF CallRun, Call
<1>3. ASSUME NEW k \in Module, CallRunKey(k) PROVE TypeOK' /\ PosInv'
  <2>1. vWorkQueue' = <<k>>
    BY <1>3 DEF CallRunKey, Call
  <2>2. vWorkQueue' \in Seq(Module) /\ Len(vWorkQueue') = 1
    BY <2>1
  <2>3. QED
    BY <1>3, <2>2 DEF CallRunKey, Call
<1>4. CASE CallHalt
  <2>1. /\ vWorkQueue' \in Seq(Module) /\ Len(vWorkQueue') \in Nat
        /\ pos' = Len(vWorkQueue') /\ pc' = "halt" /\ goal' = "halt"
    BY <1>4 DEF CallHalt, Call
  <2>2. calls' \in 0..MaxCalls /\ fActived' = FALSE /\ fShutdown' = fShutdown
    BY <1>4 DEF CallHalt, Call
  <2>3. UNCHANGED <<status, listInstalled, thread, stop, lostStop>>
    BY <1>4 DEF CallHalt
  <2>4. pos' \in 0..(Len(vWorkQueue') + 1) /\ pos' <= Len(vWorkQueue')
    BY <2>1
  <2>5. TypeOK'
    BY <2>1, <2>2, <2>3, <2>4
  <2>6. PosInv'
    BY <2>1, <2>4
  <2>7. QED
    BY <2>5, <2>6
<1>5. ASSUME NEW k \in Module, CallHaltKey(k) PROVE TypeOK' /\ PosInv'
  <2>1. vWorkQueue' = <<k>>
    BY <1>5 DEF CallHaltKey, Call
  <2>2. vWorkQueue' \in Seq(Module) /\ Len(vWorkQueue') = 1
    BY <2>1
  <2>3. QED
    BY <1>5, <2>2 DEF CallHaltKey, Call
<1>6. ASSUME NEW k \in Module, CallDetach(k) PROVE TypeOK' /\ PosInv'
  <2>1. vWorkQueue' = <<k>>
    BY <1>6 DEF CallDetach, Call
  <2>2. vWorkQueue' \in Seq(Module) /\ Len(vWorkQueue') = 1
    BY <2>1
  <2>3. QED
    BY <1>6, <2>2, RemoveAtIsSeq DEF CallDetach, Call
<1>7. CASE CallExit
  <2>1. /\ vWorkQueue' \in Seq(Module) /\ Len(vWorkQueue') \in Nat
        /\ pos' = Len(vWorkQueue') /\ pc' = "halt" /\ goal' = "exit"
    BY <1>7 DEF CallExit, Call
  <2>2. calls' \in 0..MaxCalls /\ fActived' = FALSE /\ fShutdown' = TRUE
    BY <1>7 DEF CallExit, Call
  <2>3. UNCHANGED <<status, listInstalled, thread, stop, lostStop>>
    BY <1>7 DEF CallExit
  <2>4. pos' \in 0..(Len(vWorkQueue') + 1) /\ pos' <= Len(vWorkQueue')
    BY <2>1
  <2>5. TypeOK'
    BY <2>1, <2>2, <2>3, <2>4
  <2>6. PosInv'
    BY <2>1, <2>4
  <2>7. QED
    BY <2>5, <2>6
<1>8. CASE RunFails
  BY <1>8 DEF RunFails
<1>9. CASE Initialize
  BY <1>9 DEF Initialize, Current
<1>10. CASE InitializeDone
  <2>1. CASE goal = "run"
    <3>1. PICK others \in InOrder(Having("initialized") \ ToSet(vWorkQueue)) :
                 vWorkQueue' = vWorkQueue \o others
      BY <1>10, <2>1 DEF InitializeDone
    <3>2. vWorkQueue' \in Seq(Module)
      BY <3>1, InOrderIsQueue
    <3>3. QED
      BY <1>10, <3>2 DEF InitializeDone
  <2>2. CASE goal # "run"
    BY <1>10, <2>2 DEF InitializeDone
  <2>3. QED
    BY <2>1, <2>2
<1>11. CASE Invoke
  BY <1>11 DEF Invoke, Current, Delayed
<1>12. CASE InvokeDone
  BY <1>12 DEF InvokeDone
<1>13. CASE HaltStop
  BY <1>13 DEF HaltStop, Current
<1>14. CASE HaltJoin
  BY <1>14 DEF HaltJoin, Current
<1>15. CASE HaltSkip
  BY <1>15 DEF HaltSkip, Current
<1>16. CASE Deinitialize
  BY <1>16 DEF Deinitialize, ToSet
<1>17. ASSUME NEW k \in Module, ThreadRuns(k) PROVE TypeOK' /\ PosInv'
  BY <1>17, ZenonT(60) DEF ThreadRuns, ThreadStep, ThreadWake, ThreadDelayRun, ThreadReset, HandlerReset, Undone, ThreadCall,
     ThreadAnswered, ThreadEnd, MoveThread, Current
<1>18. CASE UNCHANGED vars
  BY <1>18 DEF vars
<1>19. QED
  BY <1>1, <1>2, <1>3, <1>4, <1>5, <1>6, <1>7, <1>8, <1>9, <1>10, <1>11, <1>12, <1>13,
     <1>14, <1>15, <1>16, <1>17, <1>18 DEF Next, Step, CallKey

\* Every step keeps the threads to the invoked modules.
LEMMA InvokedStep ==
    ASSUME IInv, [Next]_vars
    PROVE  InitializeInv' /\ HaltInv' /\ ThreadOnlyWhileInvoked'
<1> DEFINE Kept == InitializeInv' /\ HaltInv' /\ ThreadOnlyWhileInvoked'
<1> USE DEF IInv, TypeOK, PosInv, InitializeInv, HaltInv, ThreadOnlyWhileInvoked,
        modVars, flagVars, threadVars, callVars
<1>1. ASSUME NEW k \in Module, Attach(k) PROVE Kept
  BY <1>1 DEF Attach
<1>2. CASE CallRun
  BY <1>2, InOrderIsQueue DEF CallRun, Call, Having
<1>3. ASSUME NEW k \in Module, CallKey(k) PROVE Kept
  BY <1>3 DEF CallKey, CallRunKey, CallHaltKey, CallDetach, Call
<1>4. CASE CallHalt \/ CallExit
  BY <1>4 DEF CallHalt, CallExit, Call
<1>5. CASE RunFails
  BY <1>5 DEF RunFails
<1>6. CASE Initialize
  BY <1>6 DEF Initialize, Current
<1>7. CASE InitializeDone
  BY <1>7 DEF InitializeDone
<1>8. CASE Invoke
  BY <1>8 DEF Invoke, Current
<1>9. CASE InvokeDone
  BY <1>9 DEF InvokeDone
<1>10. CASE HaltStop \/ HaltSkip
  BY <1>10 DEF HaltStop, HaltSkip, Current
<1>11. CASE HaltJoin
  BY <1>11 DEF HaltJoin, Current
<1>12. CASE Deinitialize
  BY <1>12 DEF Deinitialize, ToSet
<1>13. ASSUME NEW k \in Module, ThreadRuns(k) PROVE Kept
  BY <1>13 DEF ThreadRuns, ThreadStep, ThreadWake, ThreadDelayRun, ThreadReset, HandlerReset, Undone,
     ThreadCall, ThreadAnswered, ThreadEnd, MoveThread
<1>14. CASE UNCHANGED vars
  BY <1>14 DEF vars
<1>15. QED
  BY <1>1, <1>2, <1>3, <1>4, <1>5, <1>6, <1>7, <1>8, <1>9, <1>10, <1>11, <1>12, <1>13,
     <1>14 DEF Next, Step

\* Every step keeps the delayed threads waiting for the first Run.
LEMMA FirstRunStep ==
    ASSUME IInv, [Next]_vars
    PROVE  ShutdownInv' /\ NotYetInv' /\ FirstRunInv'
<1> DEFINE Kept == ShutdownInv' /\ NotYetInv' /\ FirstRunInv'
<1> USE DEF IInv, TypeOK, PosInv, ShutdownInv, NotYetInv, FirstRunInv, Delayed,
        modVars, flagVars, threadVars, callVars
<1>1. ASSUME NEW k \in Module, Attach(k) PROVE Kept
  BY <1>1 DEF Attach
<1>2. CASE CallRun
  BY <1>2 DEF CallRun, Call
<1>3. ASSUME NEW k \in Module, CallKey(k) PROVE Kept
  BY <1>3 DEF CallKey, CallRunKey, CallHaltKey, CallDetach, Call
<1>4. CASE CallHalt \/ CallExit
  BY <1>4 DEF CallHalt, CallExit, Call
<1>5. CASE RunFails
  BY <1>5 DEF RunFails
<1>6. CASE Initialize
  BY <1>6 DEF Initialize, Current
<1>7. CASE InitializeDone
  BY <1>7 DEF InitializeDone
<1>8. CASE Invoke
  BY <1>8 DEF Invoke, Current
<1>9. CASE InvokeDone
  BY <1>9 DEF InvokeDone
<1>10. CASE HaltStop \/ HaltSkip
  BY <1>10 DEF HaltStop, HaltSkip, Current
<1>11. CASE HaltJoin
  BY <1>11 DEF HaltJoin, Current
<1>12. CASE Deinitialize
  BY <1>12 DEF Deinitialize, ToSet
<1>13. ASSUME NEW k \in Module, ThreadRuns(k) PROVE Kept
  BY <1>13 DEF ThreadRuns, ThreadStep, ThreadWake, ThreadDelayRun, ThreadReset, HandlerReset, Undone,
     ThreadCall, ThreadAnswered, ThreadEnd, MoveThread
<1>14. CASE UNCHANGED vars
  BY <1>14 DEF vars
<1>15. QED
  BY <1>1, <1>2, <1>3, <1>4, <1>5, <1>6, <1>7, <1>8, <1>9, <1>10, <1>11, <1>12, <1>13,
     <1>14 DEF Next, Step

\* Nothing is installed, and no module has a thread.
LEMMA InvInit == Init => IInv
<1> SUFFICES ASSUME Init PROVE IInv
  OBVIOUS
<1>1. vWorkQueue \in Seq(Module) /\ listInstalled \in Seq(Module) /\ Len(vWorkQueue) = 0
  BY DEF Init
<1>2. pos \in 0..(Len(vWorkQueue) + 1) /\ calls \in 0..MaxCalls
  BY <1>1, DockerAssumption DEF Init
<1>3. TypeOK
  BY <1>1, <1>2 DEF Init, TypeOK, Statuses, ThreadStates
<1>4. QED
  BY <1>1, <1>3 DEF Init, IInv, PosInv, InitializeInv, HaltInv, ShutdownInv, NotYetInv,
     FirstRunInv, ThreadOnlyWhileInvoked

\* The invariant is inductive.
LEMMA InvStep == IInv /\ [Next]_vars => IInv'
BY TypeStep, InvokedStep, FirstRunStep DEF IInv

\* So it holds in every reachable state.
LEMMA Invariant == Spec => []IInv
BY InvInit, InvStep, PTL DEF Spec

(***************************************************************************)
(* The theorems.                                                           *)
(***************************************************************************)

\* Every variable has its type; the docker's place is in its work queue.
THEOREM Types == Spec => []TypeOK
<1>1. IInv => TypeOK
  BY DEF IInv
<1>2. QED
  BY <1>1, Invariant, PTL

\* Whatever the docker runs, halts, detaches and exits in whatever order, a module that is
\* deinitialized or deleted has no thread, and the first Run starts no console and no
\* script before every module is invoked (docker.cpp:110, docker.cpp:387).
THEOREM Bounded == Spec => []ThreadsBounded
<1>1. IInv => ThreadsBounded
  <2>1. IInv => DelayedAfterAll
    BY DEF IInv, FirstRunInv, DelayedAfterAll
  <2>2. QED
    BY <2>1 DEF IInv, ThreadsBounded
<1>2. QED
  BY <1>1, Invariant, PTL
=============================================================================
