------------------------------ MODULE ConnAttempt ------------------------------
(***************************************************************************)
(* CConnAttempt: how often an address tried to connect of late, counted in *)
(* a ring of intervals.  An attempt is admitted while there are at most    *)
(* ATTEMPT_LIMIT in the ring.                                              *)
(***************************************************************************)
EXTENDS Integers, Sequences, FiniteSets

CONSTANTS COUNTER_NUM,       \* a power of two
          COUNTER_INTERVAL, ATTEMPT_LIMIT,
          LastTime,          \* bound: the clock stops there
          MaxAttempts        \* bound: attempts

ASSUME AttemptAssumption ==
    /\ COUNTER_NUM \in Nat \ {0} /\ COUNTER_INTERVAL \in Nat \ {0} /\ ATTEMPT_LIMIT \in Nat \ {0}
    /\ LastTime \in Nat /\ MaxAttempts \in Nat

VARIABLES arrayAttempt, nAttempts, nStartIndex, nStartTime,
          now,        \* the caller's clock; it is far from 0 when the first attempt comes
          history     \* ghost: the times of the attempts and whether they were admitted

countVars == <<arrayAttempt, nAttempts, nStartIndex, nStartTime, now, history>>

Intervals == 0..(COUNTER_NUM - 1)

\* The constructor leaves the array as the memory was.
AttemptInit ==
    /\ arrayAttempt \in [Intervals -> {0, 7}]
    /\ nAttempts = 0 /\ nStartIndex = 0 /\ nStartTime = 0
    /\ now = 2 * COUNTER_NUM * COUNTER_INTERVAL /\ history = <<>>

\* The counter of the i-th interval.
Slot(i) == (nStartIndex + i) % COUNTER_NUM

Offset == (now - nStartTime) \div COUNTER_INTERVAL

\* How many intervals leave the ring, and what they held.
Leaving == IF Offset >= COUNTER_NUM THEN Offset - COUNTER_NUM + 1 ELSE 0
Left == LET sum[k \in 0..Leaving] ==
                IF k = 0 THEN 0 ELSE sum[k - 1] + arrayAttempt[Slot(k - 1)]
        IN  sum[Leaving]
Slid == [s \in DOMAIN arrayAttempt |->
            IF \E i \in 0..(Leaving - 1) : s = Slot(i) THEN 0 ELSE arrayAttempt[s]]

\* Attempt(ts) after a long pause: the ring starts anew.
AttemptAnew ==
    /\ Offset >= 2 * COUNTER_NUM
    /\ arrayAttempt' = [s \in DOMAIN arrayAttempt |-> IF s = 0 THEN 1 ELSE 0]
    /\ nAttempts' = 1 /\ nStartIndex' = 0 /\ nStartTime' = now

\* Mutant of AttemptSliding: the slots that are used again keep their counts.
AttemptKeeping ==
    /\ Offset < 2 * COUNTER_NUM
    /\ nAttempts' = nAttempts - Left + 1
    /\ nStartTime' = nStartTime + Leaving * COUNTER_INTERVAL
    /\ nStartIndex' = Slot(Leaving)
    /\ arrayAttempt' = [arrayAttempt EXCEPT ![Slot(Offset)] = @ + 1]

\* Attempt(ts): the ring slides until ts falls into it.
AttemptSliding ==
    /\ Offset < 2 * COUNTER_NUM
    /\ nAttempts' = nAttempts - Left + 1
    /\ nStartTime' = nStartTime + Leaving * COUNTER_INTERVAL
    /\ nStartIndex' = Slot(Leaving)
    /\ arrayAttempt' = [Slid EXCEPT ![Slot(Offset)] = @ + 1]

Attempt == /\ Len(history) < MaxAttempts
           /\ AttemptAnew \/ AttemptSliding
           /\ history' = Append(history, [at |-> now, admitted |-> nAttempts' <= ATTEMPT_LIMIT])
           /\ UNCHANGED now

TimePasses == /\ now < LastTime /\ now' = now + 1
              /\ UNCHANGED <<arrayAttempt, nAttempts, nStartIndex, nStartTime, history>>

AttemptNext == Attempt \/ TimePasses
AttemptSpec == AttemptInit /\ [][AttemptNext]_countVars
-------------------------------------------------------------------------------
Since(t) == Cardinality({i \in DOMAIN history : history[i].at >= t})

\* The count is exactly that of the attempts since the ring's start, which slides or starts anew
\* without losing one of the last COUNTER_NUM - 1 intervals: nobody gets more than the limit in
\* that time (epmngr.cpp:24).
AttemptsCounted ==
    history # <<>> =>
        LET last == history[Len(history)].at
        IN  /\ nAttempts = Since(nStartTime)
            /\ nStartTime <= last /\ last < nStartTime + COUNTER_NUM * COUNTER_INTERVAL
            /\ history[Len(history)].admitted =>
                   Since(last - ((COUNTER_NUM - 1) * COUNTER_INTERVAL) + 1) <= ATTEMPT_LIMIT
===============================================================================
