------------------------- MODULE DockerTimersProofs -------------------------
(***************************************************************************)
(* Proofs about DockerTimers for any modules, delays, number of timers and *)
(* length of time: no timer is lost between the two indexes and the work   *)
(* queue, the timer thread never oversleeps, and a callback comes to a     *)
(* module that has gone only if it was detached or its timer in flight.    *)
(***************************************************************************)
EXTENDS DockerTimers, FiniteSetTheorems, SequenceTheorems, WellFoundedInduction, TLAPS

\* The timer thread has a work queue only while it works on it, of timers that it has taken
\* out of the index by expiry.
QueueInv ==
    /\ thread \in {"loop", "wait", "exited"} => vWorkQueue = <<>>
    /\ \A i \in DOMAIN vWorkQueue : vWorkQueue[i] \notin mapTimerByExpiry

\* A callback runs on a timer that was set.
CallInv == thread = "call" => running \in Ids

\* Modules are deleted at the end of Exit.
ExitInv == (\E k \in Module : module[k] = "deleted") => fShutdown

IInv ==
    /\ TypeOK /\ QueueInv /\ CallInv /\ ExitInv
    /\ IndexesAgree /\ NoTimerLeft
    /\ NeverOversleeps /\ NoLateCallback

(***************************************************************************)
(* Sets of timers in order.                                                *)
(***************************************************************************)

\* A set of natural numbers that is not empty has a least one.
LEMMA Least ==
    ASSUME NEW S \in SUBSET Nat, S # {}
    PROVE  \E least \in S : \A n \in S : least <= n
<1>1. IsWellFoundedOn(OpToRel(<, Nat), Nat)
  BY NatLessThanWellFounded
<1>2. PICK least \in S : \A n \in S : ~ (<<n, least>> \in OpToRel(<, Nat))
  BY <1>1, WFMin
<1>3. \A n \in S : ~ (n < least)
  BY <1>2 DEF OpToRel
<1>4. QED
  BY <1>3

\* A timer has a number, an owner and a time it expires at.
LEMMA TimerTypes ==
    ASSUME TypeOK
    PROVE  /\ Ids = 1..Len(timers) /\ Len(timers) \in Nat
           /\ \A id \in Ids : Expiry(id) \in 0..MaxTime /\ Expiry(id) \in Nat /\ Owner(id) \in Module
<1>1. timers \in Seq([walleveKey : Module, tExpiryAt : 0..MaxTime])
  BY DEF TypeOK
<1>2. Ids = 1..Len(timers) /\ Len(timers) \in Nat
  BY <1>1 DEF Ids
<1>3. \A id \in Ids : timers[id] \in [walleveKey : Module, tExpiryAt : 0..MaxTime]
  BY <1>1, <1>2, ElementOfSeq
<1>4. 0..MaxTime \subseteq Nat
  BY DockerTimersAssumption
<1>5. QED
  BY <1>2, <1>3, <1>4 DEF Expiry, Owner

\* The index by expiry, unless it is empty, has a first timer.
LEMMA EarliestIsFirst ==
    ASSUME TypeOK, mapTimerByExpiry # {}
    PROVE  /\ Earliest \in mapTimerByExpiry
           /\ \A id \in mapTimerByExpiry : Expiry(Earliest) <= Expiry(id)
<1>1. mapTimerByExpiry \subseteq Nat /\ \A id \in mapTimerByExpiry : Expiry(id) \in Nat
  BY TimerTypes, SMTT(30) DEF TypeOK
<1> DEFINE times == {Expiry(id) : id \in mapTimerByExpiry}
<1>2. PICK time \in times : \A other \in times : time <= other
  <2>1. times \in SUBSET Nat /\ times # {}
    BY <1>1
  <2> HIDE DEF times
  <2>2. QED
    BY <2>1, Least
<1> DEFINE firsts == {id \in mapTimerByExpiry : Expiry(id) = time}
<1>3. PICK first \in firsts : \A other \in firsts : first <= other
  <2>1. firsts \in SUBSET Nat /\ firsts # {}
    BY <1>1, <1>2
  <2> HIDE DEF firsts
  <2>2. QED
    BY <2>1, Least
<1>4. IsFirst(first, mapTimerByExpiry)
  <2>1. ASSUME NEW other \in mapTimerByExpiry \ {first} PROVE Before(first, other)
    <3>1. Expiry(first) <= Expiry(other) /\ Expiry(first) \in Nat /\ Expiry(other) \in Nat
      BY <1>1, <1>2, <1>3
    <3>2. Expiry(other) = Expiry(first) => first < other
      <4>1. Expiry(other) = Expiry(first) => first <= other
        BY <1>3
      <4>2. QED
        BY <1>1, <1>3, <4>1
    <3>3. QED
      BY <3>1, <3>2 DEF Before
  <2>2. QED
    BY <2>1 DEF IsFirst
<1>5. Earliest \in mapTimerByExpiry /\ IsFirst(Earliest, mapTimerByExpiry)
  BY <1>3, <1>4 DEF Earliest
<1>6. QED
  BY <1>1, <1>5 DEF IsFirst, Before

\* A queue in order has each timer of its set.
LEMMA InOrderHolds ==
    ASSUME NEW S, IsFiniteSet(S), NEW queue \in InOrder(S)
    PROVE  /\ queue \in Seq(S)
           /\ \A id \in S : \E i \in DOMAIN queue : queue[i] = id
<1> DEFINE n == Cardinality(S)
<1>1. n \in Nat
  BY FS_CardinalityType
<1>2. queue \in [1..n -> S] /\ \A i, j \in 1..n : i # j => queue[i] # queue[j]
  BY DEF InOrder, SetToSeqs
<1> HIDE DEF n
<1>3. Cardinality(1..n) = n
  BY <1>1, FS_Interval
<1>4. queue \in Injection(1..n, S)
  BY <1>2 DEF Injection, IsInjective
<1>5. queue \in Surjection(1..n, S)
  BY <1>3, <1>4, FS_Injection DEF n
<1>6. QED
  BY <1>1, <1>2, <1>5 DEF Surjection

\* A new timer has a number of its own, and the others keep what they are.
LEMMA NewTimer ==
    ASSUME TypeOK, NEW k \in Module, NEW nMilliSeconds \in Delay, SetTimer(k, nMilliSeconds)
    PROVE  LET new == Len(timers) + 1
           IN  /\ new \in Nat \ {0} /\ new \notin Ids /\ Ids' = Ids \cup {new}
               /\ timers' \in Seq([walleveKey : Module, tExpiryAt : 0..MaxTime])
               /\ timers'[new] = [walleveKey |-> k, tExpiryAt |-> now + nMilliSeconds]
               /\ \A id \in Ids : timers'[id] = timers[id]
               /\ mapTimerById' = mapTimerById \cup {new}
               /\ mapTimerByExpiry' = mapTimerByExpiry \cup {new}
<1> DEFINE timer == [walleveKey |-> k, tExpiryAt |-> now + nMilliSeconds]
<1>1. timer \in [walleveKey : Module, tExpiryAt : 0..MaxTime]
  BY DockerTimersAssumption DEF TypeOK, SetTimer
<1>2. timers' = Append(timers, timer)
  BY DEF SetTimer
<1> HIDE DEF timer
<1>3. Len(timers') = Len(timers) + 1 /\ Len(timers) \in Nat
  BY <1>2 DEF TypeOK
<1>4. mapTimerById' = mapTimerById \cup {Len(timers')}
      /\ mapTimerByExpiry' = mapTimerByExpiry \cup {Len(timers')}
  BY DEF SetTimer
<1> DEFINE new == Len(timers) + 1
<1>5. Ids = 1..Len(timers) /\ Ids' = 1..Len(timers) + 1
  BY <1>1, <1>2, TimerTypes DEF TypeOK, Ids
<1>6. new \in Nat \ {0} /\ new \notin Ids /\ Ids' = Ids \cup {new}
  BY <1>3, <1>5
<1>7. /\ timers' \in Seq([walleveKey : Module, tExpiryAt : 0..MaxTime])
      /\ timers'[new] = timer
      /\ \A id \in Ids : timers'[id] = timers[id]
  BY <1>1, <1>2, <1>3, <1>5, AppendProperties DEF TypeOK
<1>8. QED
  BY <1>3, <1>4, <1>6, <1>7 DEF timer

\* The timer thread takes out each timer that has expired.
LEMMA Taken ==
    ASSUME TypeOK, TimerTake
    PROVE  /\ vWorkQueue' \in Seq(Expired)
           /\ \A id \in Expired : \E i \in DOMAIN vWorkQueue' : vWorkQueue'[i] = id
<1>1. IsFiniteSet(Expired)
  <2>1. IsFiniteSet(Ids)
    BY TimerTypes, FS_Interval
  <2>2. Expired \subseteq Ids
    BY DEF Expired, TypeOK
  <2>3. QED
    BY <2>1, <2>2, FS_Subset
<1>2. QED
  BY <1>1, InOrderHolds DEF TimerTake

(***************************************************************************)
(* Every step keeps the invariant.                                         *)
(***************************************************************************)

LEMMA TypeStep ==
    ASSUME IInv, [Next]_vars
    PROVE  TypeOK'
<1> USE DEF IInv, TypeOK, threadVars, dockerVars
<1>0. Never \in Nat /\ 0..MaxTime \subseteq 0..Never /\ 0 \in 0..Never /\ Never \in 0..Never
  BY DockerTimersAssumption DEF Never
<1>1. ASSUME NEW k \in Module, NEW d \in Delay, SetTimer(k, d) PROVE TypeOK'
  <2>1. Ids \subseteq Ids' /\ Len(timers) + 1 \in Ids'
    BY <1>1, NewTimer
  <2>2. /\ timers' \in Seq([walleveKey : Module, tExpiryAt : 0..MaxTime])
        /\ mapTimerById' \subseteq Ids' /\ mapTimerByExpiry' \subseteq Ids'
    BY <1>1, <2>1, NewTimer
  <2>3. vWorkQueue \in Seq(Ids') /\ fired \in Seq(Ids')
    BY <2>1, SeqMonotonic
  <2>4. notices' \in Nat /\ UNCHANGED <<now, threadVars, dockerVars>>
    BY <1>1 DEF SetTimer, Notify
  <2>5. QED
    BY <2>1, <2>2, <2>3, <2>4
<1>2. ASSUME NEW id \in Ids, CancelTimer(id) PROVE TypeOK'
  BY <1>2 DEF CancelTimer, Erase, Notify, Ids
<1>3. ASSUME NEW k \in Module, HaltModule(k) \/ CancelTimers(k) \/ RestartModule(k) \/ Detach(k)
      PROVE  TypeOK'
  <2>1. CASE HaltModule(k) \/ RestartModule(k) \/ Detach(k)
    BY <2>1 DEF HaltModule, RestartModule, Detach, Ids
  <2>2. CASE CancelTimers(k)
    <3>1. inFlight' \subseteq Module /\ notices' \in Nat
      BY <2>2 DEF CancelTimers, Erase, Notify
    <3>2. QED
      BY <2>2, <3>1 DEF CancelTimers, Erase, Ids
  <2>3. QED
    BY <1>3, <2>1, <2>2
<1>4. CASE ExitBegin \/ ExitDelete
  BY <1>4 DEF ExitBegin, ExitDelete, Notify, Ids
<1>5. CASE TimerExit \/ TimerReturn \/ TimerAgain
  <2>1. vWorkQueue' \in Seq(Ids)
    BY <1>5, EmptySeq DEF TimerExit, TimerReturn, TimerAgain
  <2>2. QED
    BY <1>5, <2>1 DEF TimerExit, TimerReturn, TimerAgain, Ids
<1>6. CASE TimerWait
  <2>1. deadline' \in 0..Never
    BY <1>0, <1>6, EarliestIsFirst, TimerTypes DEF TimerWait
  <2>2. QED
    BY <1>6, <2>1 DEF TimerWait, Ids
<1>7. CASE TimerTake
  <2>1. vWorkQueue' \in Seq(Ids)
    <3>1. Expired \subseteq Ids
      BY DEF Expired
    <3>2. QED
      BY <1>7, <3>1, Taken, SeqMonotonic
  <2>2. QED
    BY <1>7, <2>1 DEF TimerTake, Ids
<1>8. CASE TimerNext
  <2>1. Head(vWorkQueue) \in Ids /\ Tail(vWorkQueue) \in Seq(Ids)
    BY <1>8, HeadTailProperties DEF TimerNext
  <2>2. Append(fired, Head(vWorkQueue)) \in Seq(Ids)
    BY <2>1, AppendProperties
  <2>3. QED
    BY <1>8, <2>1, <2>2 DEF TimerNext, Ids
<1>9. CASE DeadlinePasses \/ NoticeArrives
  BY <1>0, <1>9, SMTT(30) DEF DeadlinePasses, NoticeArrives, Ids
<1>10. CASE Tick
  BY <1>10, DockerTimersAssumption DEF Tick, Ids
<1>11. CASE UNCHANGED vars
  BY <1>11 DEF vars, Ids
<1>12. QED
  BY <1>1, <1>2, <1>3, <1>4, <1>5, <1>6, <1>7, <1>8, <1>9, <1>10, <1>11
     DEF Next, Docker, TimerThread

LEMMA QueueStep ==
    ASSUME IInv, [Next]_vars
    PROVE  QueueInv' /\ CallInv' /\ ExitInv'
<1> USE DEF QueueInv, CallInv, ExitInv, fShutdown, threadVars, dockerVars
<1>1. TypeOK /\ QueueInv /\ CallInv /\ ExitInv
  BY DEF IInv
<1>2. ASSUME NEW k \in Module, NEW d \in Delay, SetTimer(k, d)
      PROVE  QueueInv' /\ CallInv' /\ ExitInv'
  <2>1. \A i \in DOMAIN vWorkQueue : vWorkQueue[i] \in Ids
    BY <1>1, ElementOfSeq DEF TypeOK
  <2>2. UNCHANGED <<now, threadVars, dockerVars>>
    BY <1>2 DEF SetTimer
  <2>3. QED
    BY <1>1, <1>2, <2>1, <2>2, NewTimer
<1>3. ASSUME NEW id \in Ids, CancelTimer(id) PROVE QueueInv' /\ CallInv' /\ ExitInv'
  BY <1>1, <1>3 DEF CancelTimer, Erase, Ids
<1>4. ASSUME NEW k \in Module, HaltModule(k) \/ CancelTimers(k) \/ RestartModule(k) \/ Detach(k)
      PROVE  QueueInv' /\ CallInv' /\ ExitInv'
  BY <1>1, <1>4 DEF HaltModule, CancelTimers, RestartModule, Detach, Erase, Ids, TypeOK
<1>5. CASE ExitBegin \/ ExitDelete
  BY <1>1, <1>5 DEF ExitBegin, ExitDelete, Ids, TypeOK
<1>6. CASE TimerExit \/ TimerWait \/ TimerReturn \/ TimerAgain
  BY <1>1, <1>6 DEF TimerExit, TimerWait, TimerReturn, TimerAgain, Ids
<1>7. CASE TimerTake
  <2>1. \A i \in DOMAIN vWorkQueue' : vWorkQueue'[i] \in Expired
    BY <1>1, <1>7, Taken, ElementOfSeq
  <2>2. thread' = "work" /\ mapTimerByExpiry' = mapTimerByExpiry \ Expired
        /\ UNCHANGED <<dockerVars>>
    BY <1>7 DEF TimerTake
  <2>3. QED
    BY <1>1, <2>1, <2>2
<1>8. CASE TimerNext
  <2>1. /\ Head(vWorkQueue) \in Ids
        /\ \A i \in DOMAIN vWorkQueue' : i + 1 \in DOMAIN vWorkQueue
                                         /\ vWorkQueue'[i] = vWorkQueue[i + 1]
    BY <1>1, <1>8, HeadTailProperties DEF TimerNext, TypeOK
  <2>2. thread' \in {"work", "call"} /\ (thread' = "call" => running' = Head(vWorkQueue))
        /\ UNCHANGED <<timers, mapTimerByExpiry, dockerVars>>
    BY <1>8 DEF TimerNext
  <2>3. QED
    BY <1>1, <2>1, <2>2 DEF Ids
<1>9. CASE DeadlinePasses \/ NoticeArrives \/ Tick
  BY <1>1, <1>9 DEF DeadlinePasses, NoticeArrives, Tick, Ids
<1>10. CASE UNCHANGED vars
  BY <1>1, <1>10 DEF vars, Ids
<1>11. QED
  BY <1>2, <1>3, <1>4, <1>5, <1>6, <1>7, <1>8, <1>9, <1>10 DEF Next, Docker, TimerThread

LEMMA IndexesStep ==
    ASSUME IInv, [Next]_vars
    PROVE  IndexesAgree'
<1> USE DEF IndexesAgree, fShutdown, ToSet, threadVars, dockerVars
<1>1. TypeOK /\ QueueInv /\ IndexesAgree
  BY DEF IInv
<1>2. ASSUME NEW k \in Module, NEW d \in Delay, SetTimer(k, d) PROVE IndexesAgree'
  <2>1. UNCHANGED <<now, threadVars, dockerVars>>
    BY <1>2 DEF SetTimer
  <2>2. SetTimer(k, d) /\ TypeOK
    BY <1>1, <1>2
  <2>3. /\ mapTimerById' = mapTimerById \cup {Len(timers) + 1}
        /\ mapTimerByExpiry' = mapTimerByExpiry \cup {Len(timers) + 1}
    BY <2>2, NewTimer
  <2> HIDE DEF ToSet
  <2>4. QED
    BY <1>1, <2>1, <2>3
<1>3. ASSUME NEW id \in Ids, CancelTimer(id) PROVE IndexesAgree'
  BY <1>1, <1>3 DEF CancelTimer, Erase
<1>4. ASSUME NEW k \in Module, HaltModule(k) \/ CancelTimers(k) \/ RestartModule(k) \/ Detach(k)
      PROVE  IndexesAgree'
  BY <1>1, <1>4 DEF HaltModule, CancelTimers, RestartModule, Detach, Erase
<1>5. CASE ExitBegin \/ ExitDelete
  BY <1>1, <1>5 DEF ExitBegin, ExitDelete
<1>6. CASE TimerExit \/ TimerWait \/ TimerReturn \/ TimerAgain
  BY <1>1, <1>6 DEF TimerExit, TimerWait, TimerReturn, TimerAgain
<1>7. CASE TimerTake
  <2>1. vWorkQueue = <<>> /\ ToSet(vWorkQueue) = {}
    BY <1>1, <1>7 DEF TimerTake, QueueInv
  <2>2. Expired \subseteq ToSet(vWorkQueue')
    BY <1>1, <1>7, Taken
  <2>3. mapTimerByExpiry' = mapTimerByExpiry \ Expired /\ UNCHANGED <<mapTimerById, exit>>
    BY <1>7 DEF TimerTake
  <2> HIDE DEF ToSet
  <2>4. QED
    BY <1>1, <2>1, <2>2, <2>3
<1>8. CASE TimerNext
  <2> DEFINE id == Head(vWorkQueue)
  <2>1. vWorkQueue \in Seq(Ids) /\ vWorkQueue # <<>> /\ vWorkQueue' = Tail(vWorkQueue)
    BY <1>1, <1>8 DEF TimerNext, TypeOK
  <2>2. id \notin mapTimerByExpiry
    BY <1>1, <2>1 DEF QueueInv
  <2>3. ToSet(vWorkQueue) \subseteq {id} \cup ToSet(vWorkQueue')
    <3>1. ASSUME NEW i \in DOMAIN vWorkQueue
          PROVE  vWorkQueue[i] = id \/ \E j \in DOMAIN vWorkQueue' : vWorkQueue[i] = vWorkQueue'[j]
      <4>1. CASE i = 1
        BY <2>1, <4>1
      <4>2. CASE i # 1
        <5>1. i - 1 \in DOMAIN Tail(vWorkQueue) /\ Tail(vWorkQueue)[i - 1] = vWorkQueue[i]
          BY <2>1, <4>2
        <5>2. QED
          BY <2>1, <5>1
      <4>3. QED
        BY <4>1, <4>2
    <3>2. QED
      BY <3>1
  <2>4. mapTimerById' \subseteq mapTimerById /\ mapTimerById \ {id} \subseteq mapTimerById'
        /\ id \notin mapTimerById' /\ UNCHANGED <<mapTimerByExpiry, exit>>
    BY <1>8 DEF TimerNext
  <2> HIDE DEF ToSet, id
  <2>5. QED
    BY <1>1, <2>2, <2>3, <2>4
<1>9. CASE DeadlinePasses \/ NoticeArrives \/ Tick
  BY <1>1, <1>9 DEF DeadlinePasses, NoticeArrives, Tick
<1>10. CASE UNCHANGED vars
  BY <1>1, <1>10 DEF vars
<1>11. QED
  BY <1>2, <1>3, <1>4, <1>5, <1>6, <1>7, <1>8, <1>9, <1>10 DEF Next, Docker, TimerThread

\* A timer set when the thread waits either expires after one that the thread wakes for, or
\* has the thread notified.
LEMMA OversleepStep ==
    ASSUME IInv, [Next]_vars
    PROVE  NeverOversleeps'
<1> USE DEF NeverOversleeps, Expiry, threadVars, dockerVars
<1>1. TypeOK /\ NeverOversleeps /\ notices \in Nat
  BY DEF IInv, TypeOK
<1>2. ASSUME NEW k \in Module, NEW d \in Delay, SetTimer(k, d) PROVE NeverOversleeps'
  <2> DEFINE new == Len(timers) + 1
  <2>1. /\ UNCHANGED <<thread, deadline>>
        /\ notices' = notices + (IF \A id \in mapTimerByExpiry : now + d < Expiry(id) THEN 1 ELSE 0)
    BY <1>2 DEF SetTimer, Notify
  <2>2. mapTimerByExpiry \subseteq Ids
    BY <1>1 DEF TypeOK
  <2>3. CASE notices' > 0
    BY <2>3
  <2>4. CASE notices' = notices /\ ~ notices > 0
    <3>1. PICK id \in mapTimerByExpiry : ~ (now + d < Expiry(id))
      BY <1>1, <2>1, <2>4
    <3>2. now + d \in Nat /\ Expiry(id) \in Nat /\ deadline \in Nat
      BY <1>1, <2>2, TimerTypes, DockerTimersAssumption DEF TypeOK, Never
    <3>3. thread = "wait" => deadline <= now + d
      BY <1>1, <2>4, <3>1, <3>2
    <3>4. mapTimerByExpiry' = mapTimerByExpiry \cup {new} /\ timers'[new].tExpiryAt = now + d
          /\ \A other \in mapTimerByExpiry : timers'[other] = timers[other]
      <4>1. SetTimer(k, d) /\ TypeOK
        BY <1>1, <1>2
      <4>2. /\ mapTimerByExpiry' = mapTimerByExpiry \cup {new}
            /\ timers'[new] = [walleveKey |-> k, tExpiryAt |-> now + d]
            /\ \A other \in Ids : timers'[other] = timers[other]
        BY <4>1, NewTimer
      <4>3. QED
        BY <2>2, <4>2
    <3>5. QED
      BY <1>1, <2>1, <2>4, <3>3, <3>4
  <2>5. QED
    BY <1>1, <2>1, <2>3, <2>4
<1>3. ASSUME NEW id \in Ids, CancelTimer(id) PROVE NeverOversleeps'
  BY <1>1, <1>3 DEF CancelTimer, Erase, Notify
<1>4. ASSUME NEW k \in Module, HaltModule(k) \/ CancelTimers(k) \/ RestartModule(k) \/ Detach(k)
      PROVE  NeverOversleeps'
  BY <1>1, <1>4 DEF HaltModule, CancelTimers, RestartModule, Detach, Erase, Notify
<1>5. CASE ExitBegin \/ ExitDelete
  BY <1>1, <1>5 DEF ExitBegin, ExitDelete, Notify
<1>6. CASE TimerExit \/ TimerTake \/ TimerNext \/ TimerReturn \/ TimerAgain
  BY <1>1, <1>6 DEF TimerExit, TimerTake, TimerNext, TimerReturn, TimerAgain
<1>7. CASE TimerWait
  BY <1>1, <1>7, EarliestIsFirst DEF TimerWait
<1>8. CASE DeadlinePasses \/ NoticeArrives \/ Tick
  BY <1>1, <1>8 DEF DeadlinePasses, NoticeArrives, Tick
<1>9. CASE UNCHANGED vars
  BY <1>1, <1>9 DEF vars
<1>10. QED
  BY <1>2, <1>3, <1>4, <1>5, <1>6, <1>7, <1>8, <1>9 DEF Next, Docker, TimerThread

\* The timers of a module that is cancelled are in neither index, or on their way to their
\* callback; only the callbacks of those set more.
LEMMA LeftStep ==
    ASSUME IInv, [Next]_vars
    PROVE  NoTimerLeft' /\ NoLateCallback'
<1> USE DEF NoTimerLeft, NoLateCallback, fShutdown, Owner, threadVars, dockerVars
<1>1. /\ TypeOK /\ CallInv /\ ExitInv /\ IndexesAgree /\ NoTimerLeft /\ NoLateCallback
      /\ mapTimerById \subseteq Ids
      /\ \A id \in Ids : Owner(id) \in Module
  BY TimerTypes DEF IInv, TypeOK
<1>2. ASSUME NEW k \in Module, NEW d \in Delay, SetTimer(k, d)
      PROVE  NoTimerLeft' /\ NoLateCallback'
  <2>1. Acts(k) /\ UNCHANGED <<now, threadVars, dockerVars>>
    BY <1>2 DEF SetTimer
  <2>2. module[k] = "cancelled" => k \in inFlight
    BY <1>1, <2>1 DEF Acts
  <2>3. thread = "call" => timers'[running] = timers[running]
    BY <1>1, <1>2, NewTimer DEF CallInv
  <2>4. \A id \in mapTimerById' : (id \in mapTimerById /\ timers'[id] = timers[id])
                                  \/ timers'[id].walleveKey = k
    <3>1. SetTimer(k, d) /\ TypeOK
      BY <1>1, <1>2
    <3>2. /\ mapTimerById' = mapTimerById \cup {Len(timers) + 1}
          /\ timers'[Len(timers) + 1] = [walleveKey |-> k, tExpiryAt |-> now + d]
          /\ \A id \in Ids : timers'[id] = timers[id]
      BY <3>1, NewTimer
    <3>3. QED
      BY <1>1, <3>2
  <2>5. QED
    BY <1>1, <2>1, <2>2, <2>3, <2>4
<1>3. ASSUME NEW id \in Ids, CancelTimer(id) PROVE NoTimerLeft' /\ NoLateCallback'
  BY <1>1, <1>3 DEF CancelTimer, Erase
<1>4. ASSUME NEW k \in Module, HaltModule(k) \/ RestartModule(k) \/ Detach(k)
      PROVE  NoTimerLeft' /\ NoLateCallback'
  BY <1>1, <1>4, SMTT(30) DEF HaltModule, RestartModule, Detach, TypeOK, CallInv
<1>5. ASSUME NEW k \in Module, CancelTimers(k) PROVE NoTimerLeft' /\ NoLateCallback'
  <2>1. /\ mapTimerById' = mapTimerById \ {id \in mapTimerByExpiry \cap mapTimerById : Owner(id) = k}
        /\ module' = [module EXCEPT ![k] = "cancelled"]
        /\ inFlight' = inFlight \cup ({k} \cap {Owner(id) : id \in InFlight})
        /\ UNCHANGED <<timers, thread, running, exit>>
    BY <1>5 DEF CancelTimers, Erase
  <2>2. ASSUME NEW id \in mapTimerById', Owner(id) = k, ~ fShutdown PROVE k \in inFlight'
    <3>1. id \in ToSet(vWorkQueue)
      BY <1>1, <2>1, <2>2 DEF IndexesAgree
    <3>2. QED
      BY <2>1, <2>2, <3>1 DEF InFlight
  <2>3. thread = "call" /\ Owner(running) = k => k \in inFlight'
    BY <2>1 DEF InFlight
  <2>4. module \in [Module -> {"up", "halted", "cancelled", "detached", "deleted"}]
    BY <1>1 DEF TypeOK
  <2>5. NoTimerLeft'
    BY <1>1, <2>1, <2>2, <2>4
  <2>6. NoLateCallback'
    BY <1>1, <2>1, <2>3, <2>4 DEF CallInv
  <2>7. QED
    BY <2>5, <2>6
<1>6. CASE ExitBegin \/ ExitDelete
  BY <1>1, <1>6 DEF ExitBegin, ExitDelete, CallInv, TypeOK
<1>7. CASE TimerNext
  <2>1. CASE Head(vWorkQueue) \in mapTimerById
    <3>1. running' = Head(vWorkQueue) /\ mapTimerById' \subseteq mapTimerById /\ ~ fShutdown
          /\ UNCHANGED <<timers, dockerVars>>
      BY <1>7, <2>1 DEF TimerNext
    <3>2. QED
      BY <1>1, <2>1, <3>1 DEF ExitInv
  <2>2. CASE Head(vWorkQueue) \notin mapTimerById
    BY <1>1, <1>7, <2>2 DEF TimerNext
  <2>3. QED
    BY <2>1, <2>2
<1>8. CASE TimerExit \/ TimerWait \/ TimerTake \/ TimerReturn \/ TimerAgain
  BY <1>1, <1>8 DEF TimerExit, TimerWait, TimerTake, TimerReturn, TimerAgain
<1>9. CASE DeadlinePasses \/ NoticeArrives \/ Tick
  BY <1>1, <1>9 DEF DeadlinePasses, NoticeArrives, Tick
<1>10. CASE UNCHANGED vars
  BY <1>1, <1>10 DEF vars
<1>11. QED
  BY <1>2, <1>3, <1>4, <1>5, <1>6, <1>7, <1>8, <1>9, <1>10 DEF Next, Docker, TimerThread

(***************************************************************************)
(* The invariant, and what it says of the timers.                          *)
(***************************************************************************)
LEMMA Initially == Init => IInv
<1> SUFFICES ASSUME Init PROVE IInv
  OBVIOUS
<1>1. TypeOK
  BY DockerTimersAssumption DEF Init, TypeOK, Ids, Never
<1>2. QED
  BY <1>1 DEF Init, IInv, QueueInv, CallInv, ExitInv, IndexesAgree, NoTimerLeft,
              NeverOversleeps, NoLateCallback

\* The invariant holds in every state.
LEMMA Invariant == Spec => []IInv
<1>1. IInv /\ [Next]_vars => IInv'
  BY TypeStep, QueueStep, IndexesStep, OversleepStep, LeftStep DEF IInv
<1>2. QED
  BY <1>1, Initially, PTL DEF Spec

\* Each variable keeps its type: both indexes and the work queue only hold timers that were
\* set, and no wait is longer than until the last of them (docker.cpp:553).
THEOREM Types == Spec => []TypeOK
<1>1. IInv => TypeOK
  BY DEF IInv
<1>2. QED
  BY <1>1, Invariant, PTL

\* For any modules, delays and number of timers: no timer is lost between the two indexes
\* and the work queue, and none is left of a module that has gone but those that were in
\* flight (docker.cpp:471).
THEOREM Kept == Spec => []TimersKept
<1>1. IInv => TimersKept
  BY DEF IInv, TimersKept
<1>2. QED
  BY <1>1, Invariant, PTL

\* For any modules, delays and number of timers: the thread that waits wakes for the first
\* timer or has a notice on its way, and no callback comes to a module that has gone, but
\* for a detached one or a timer in flight (docker.cpp:436).
THEOREM Timely == Spec => []CallbacksTimely
<1>1. IInv => CallbacksTimely
  BY DEF IInv, CallbacksTimely
<1>2. QED
  BY <1>1, Invariant, PTL
=============================================================================
