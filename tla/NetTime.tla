-------------------------------- MODULE NetTime --------------------------------
(***************************************************************************)
(* CWalleveNetTime: how far the clocks of the peers are ahead of ours.     *)
(* Every address has one sample; the samples are also kept sorted, and     *)
(* their median is the offset.  Each call holds the mutex throughout.      *)
(***************************************************************************)
EXTENDS Integers, Sequences, SequencesExt, FiniteSets

CONSTANTS Address,      \* in the order of their values
          Delta,        \* the differences that are reported
          nMaxCount,    \* samples that are kept: MAX_SAMPLES_COUNT
          Enough,       \* samples that are too few: 5
          MaxAdjustment,\* MAX_TIME_ADJUSTMENT
          MaxTime       \* bound: the time stops there

ASSUME NetTimeAssumption ==
    /\ Address \subseteq Nat /\ Delta \subseteq Int
    /\ nMaxCount \in Nat /\ Enough \in Nat
    /\ MaxAdjustment \in Nat \ {0}

VARIABLES mapNode,      \* address -> [delta, update], for those that were seen
          vecDelta, nTimeOffset,
          clock           \* GetTime, never 0

timeVars == <<mapNode, vecDelta, nTimeOffset, clock>>

TimeInit == mapNode = << >> /\ vecDelta = <<>> /\ nTimeOffset = 0 /\ clock = 1

\* std::lower_bound: the first place whose value is not less.
LowerBound(s, d) == Cardinality({i \in DOMAIN s : s[i] < d}) + 1

EraseDelta(s, d) == RemoveAt(s, LowerBound(s, d))
InsertDelta(s, d) == InsertAt(s, LowerBound(s, d), d)

\* The median; >> 1 rounds down.
GetMedian(s) ==
    LET n == Len(s) \div 2
    IN  IF Len(s) % 2 = 1 THEN s[n + 1] ELSE (s[n + 1] + s[n]) \div 2

\* RemoveFirst: the oldest sample, of several the one of the first address.
Oldest(m) == CHOOSE a \in DOMAIN m : \A b \in DOMAIN m \ {a} :
                 m[a].update < m[b].update \/ (m[a].update = m[b].update /\ a < b)
Without(m, a) == [b \in DOMAIN m \ {a} |-> m[b]]

Known(a) == a \in DOMAIN mapNode
With(m, a, d) == [b \in DOMAIN m \cup {a} |-> IF b = a THEN [delta |-> d, update |-> clock] ELSE m[b]]

\* Mutant of Sampled: the old sample of the address stays in the sorted ones.
SampledTwice(a, d) == InsertDelta(vecDelta, d)

Sampled(a, d) == InsertDelta(IF Known(a) THEN EraseDelta(vecDelta, mapNode[a].delta) ELSE vecDelta, d)

\* AddNew of a sample that differs from the last one of its address.
AddNew(a, d) ==
    /\ Known(a) => mapNode[a].delta # d
    /\ LET v == Sampled(a, d)
           m == With(mapNode, a, d)
           full == Len(v) > nMaxCount
           kept == IF full THEN EraseDelta(v, m[Oldest(m)].delta) ELSE v
           median == GetMedian(kept)
       IN  /\ vecDelta' = kept
           /\ mapNode' = IF full THEN Without(m, Oldest(m)) ELSE m
           /\ nTimeOffset' = IF Len(kept) <= Enough THEN nTimeOffset
                             ELSE IF median < MaxAdjustment /\ median > -MaxAdjustment THEN median ELSE 0
    /\ UNCHANGED clock

Clear == mapNode' = << >> /\ vecDelta' = <<>> /\ nTimeOffset' = 0 /\ UNCHANGED clock

Tick == clock < MaxTime /\ clock' = clock + 1 /\ UNCHANGED <<mapNode, vecDelta, nTimeOffset>>

TimeNext == (\E a \in Address, d \in Delta : AddNew(a, d)) \/ Clear \/ Tick
TimeSpec == TimeInit /\ [][TimeNext]_timeVars
-------------------------------------------------------------------------------
Times(s, d) == Cardinality({i \in DOMAIN s : s[i] = d})

\* The sorted samples are exactly those of the addresses, no more than the limit, however
\* addresses report again, fall out as the oldest and come back (nettime.h:52); and the offset
\* never leaves the range of adjustment.
SamplesAgree ==
    /\ \A i \in 1..(Len(vecDelta) - 1) : vecDelta[i] <= vecDelta[i + 1]
    /\ \A d \in Delta : Times(vecDelta, d) = Cardinality({a \in DOMAIN mapNode : mapNode[a].delta = d})
    /\ Len(vecDelta) = Cardinality(DOMAIN mapNode) /\ Len(vecDelta) <= nMaxCount
    /\ nTimeOffset < MaxAdjustment /\ nTimeOffset > -MaxAdjustment
===============================================================================
