----------------------------- MODULE LibraryProofs -----------------------------
(***************************************************************************)
(* Seven small parts of the program, for every value of their constants.   *)
(*                                                                         *)
(* CPeer's two buffers implement one channel, for every number of          *)
(* messages: every step of PeerStream is a step of MsgChannel, or none.    *)
(*                                                                         *)
(* The scheduler's records of peers and data agree in every reachable      *)
(* state, for every number of peers and every set of data.  The invariant  *)
(* is inductive with the types; what it rests on is Without: taking a      *)
(* datum from a list that holds it once leaves the others, each once.      *)
(*                                                                         *)
(* Subscribers of event streams know what the generators sent, for every   *)
(* number of events, clients and data.  With the types the invariant is    *)
(* inductive; what it rests on is that a queue is sent from the first      *)
(* entry the client has not seen.                                          *)
(*                                                                         *)
(* The sorted samples of the network time are those of the addresses, for  *)
(* every limit and every set of addresses.  What that rests on is that the *)
(* lower bound finds a sample to erase, and the place of one to insert.    *)
(*                                                                         *)
(* The circular buffer implements a queue of bytes, for every size of the  *)
(* ring: its masked positions are replaced by their cases, and the areas   *)
(* of the streambuf are tied to what may be read and what is free.         *)
(*                                                                         *)
(* An address that tries to connect is admitted by what its ring of        *)
(* counters holds, for every size, length and limit of the ring.  Each     *)
(* counter holds the attempts of its interval, and what fell out of the    *)
(* ring is older than it by all intervals but one.                         *)
(*                                                                         *)
(* Short strings of the Lua state are interned, and what the program or    *)
(* the cache refers to is never freed, for every table size, every hash    *)
(* and any number of strings.                                              *)
(***************************************************************************)
EXTENDS PeerStream, SchedPromise, HttpSSE, NetTime, CircularBuf, ConnAttempt, LuaString,
        FiniteSetTheorems, SequenceTheorems, WellFoundedInduction, TLAPS

Pending == ssSend[indexWrite] \o ssSend[Other(indexWrite)]

TypeOK ==
    /\ ssSend \in [{0, 1} -> Seq(Nat)]
    /\ indexStream \in {0, 1} /\ indexWrite \in {0, 1}
    /\ writing \in BOOLEAN /\ closed \in BOOLEAN
    /\ delivered \in Seq(Nat)
    /\ flushed \in Nat /\ nPut \in Nat

\* Messages are counted where they are.
Counted == nPut = Len(delivered) + Len(ssSend[0]) + Len(ssSend[1])

Inv == TypeOK /\ WriteOwnsBuffer /\ Counted

\* Two messages sequences one after the other: the first is the front, the second the rest.
LEMMA FrontAndRest ==
    ASSUME NEW a \in Seq(Nat), NEW b \in Seq(Nat)
    PROVE  /\ a \o b \in Seq(Nat)
           /\ Len(a \o b) = Len(a) + Len(b)
           /\ b \o <<>> = b /\ <<>> \o b = b
           /\ a # <<>> => Len(a) \in 1..Len(a \o b)
           /\ a # <<>> => SubSeq(a \o b, 1, Len(a)) = a
           /\ SubSeq(a \o b, Len(a) + 1, Len(a \o b)) = b
<1>1. a \o b \in Seq(Nat) /\ Len(a \o b) = Len(a) + Len(b)
  BY ConcatProperties
<1>2. b \o <<>> = b /\ <<>> \o b = b
  BY ConcatEmptySeq
<1>3. Len(a) \in Nat /\ Len(b) \in Nat /\ (a # <<>> => Len(a) # 0) /\ (b # <<>> => Len(b) # 0)
  BY EmptySeq
<1>4. a # <<>> => Len(a) \in 1..Len(a \o b)
  BY <1>1, <1>3
<1>5. ASSUME a # <<>> PROVE SubSeq(a \o b, 1, Len(a)) = a
  <2>1. 1 \in 1..Len(a) /\ Len(a) \in 1..Len(a)
    BY <1>3, <1>5
  <2>2. SubSeq(a \o b, 1, Len(a)) = SubSeq(a, 1, Len(a))
    BY <2>1, SubSeqOfConcat1
  <2> QED BY <2>2, SubSeqFull
<1>6. CASE b = <<>>
  <2>1. Len(a \o b) < Len(a) + 1
    BY <1>1, <1>3, <1>6, EmptySeq
  <2>2. SubSeq(a \o b, Len(a) + 1, Len(a \o b)) = <<>>
    BY <2>1, <1>1, <1>3, SubSeqEmpty
  <2> QED BY <1>1, <1>2, <1>4, <1>5, <1>6, <2>2
<1>7. CASE b # <<>>
  <2>1. /\ Len(a) + 1 \in (Len(a) + 1)..(Len(a) + Len(b))
        /\ Len(a) + Len(b) \in (Len(a) + 1)..(Len(a) + Len(b))
        /\ (Len(a) + 1) - Len(a) = 1
        /\ (Len(a) + Len(b)) - Len(a) = Len(b)
    BY <1>3, <1>7
  <2>2. SubSeq(a \o b, Len(a) + 1, Len(a) + Len(b)) = SubSeq(b, (Len(a) + 1) - Len(a), (Len(a) + Len(b)) - Len(a))
    BY <2>1, SubSeqOfConcat2
  <2>3. SubSeq(b, 1, Len(b)) = b
    BY SubSeqFull
  <2> QED BY <1>1, <1>2, <1>4, <1>5, <2>1, <2>2, <2>3
<1> QED BY <1>6, <1>7

\* A message put at the end of the second is put at the end of both.
LEMMA AppendAtEnd ==
    ASSUME NEW a \in Seq(Nat), NEW b \in Seq(Nat), NEW x \in Nat
    PROVE  /\ Append(a, x) \in Seq(Nat) /\ Len(Append(a, x)) = Len(a) + 1
           /\ a \o Append(b, x) = Append(a \o b, x)
<1>1. Append(a, x) \in Seq(Nat) /\ Len(Append(a, x)) = Len(a) + 1
  BY AppendProperties
<1>2. <<x>> \in Seq(Nat)
  OBVIOUS
<1>3. a \o b \in Seq(Nat)
  BY ConcatProperties
<1>4. Append(b, x) = b \o <<x>>
  BY AppendIsConcat
<1>5. Append(a \o b, x) = (a \o b) \o <<x>>
  BY <1>3, AppendIsConcat
<1>6. (a \o b) \o <<x>> = a \o (b \o <<x>>)
  BY <1>2, ConcatAssociative
<1> QED BY <1>1, <1>4, <1>5, <1>6

LEMMA InitInv == Init => Inv
  BY DEF Init, Inv, TypeOK, WriteOwnsBuffer, Counted, Other

\* The indexes are 0 and 1.
LEMMA Indexes ==
    ASSUME TypeOK
    PROVE  /\ Other(indexWrite) \in {0, 1} /\ Other(indexWrite) # indexWrite
           /\ Other(Other(indexWrite)) = indexWrite
           /\ indexStream = indexWrite \/ indexStream = Other(indexWrite)
           /\ {indexWrite, Other(indexWrite)} = {0, 1}
  BY DEF TypeOK, Other

\* What the buffers hold is counted, whichever is written.
LEMMA BothCounted ==
    ASSUME TypeOK
    PROVE  /\ Len(ssSend[0]) \in Nat /\ Len(ssSend[1]) \in Nat
           /\ Len(ssSend[0]) + Len(ssSend[1]) = Len(ssSend[indexWrite]) + Len(ssSend[Other(indexWrite)])
<1>1. ssSend[0] \in Seq(Nat) /\ ssSend[1] \in Seq(Nat)
  BY DEF TypeOK
<1>2. Len(ssSend[0]) \in Nat /\ Len(ssSend[1]) \in Nat
  BY <1>1
<1>3. CASE indexWrite = 0
  BY <1>2, <1>3 DEF Other
<1>4. CASE indexWrite = 1
  <2>1. ssSend[indexWrite] = ssSend[1] /\ ssSend[Other(indexWrite)] = ssSend[0]
    BY <1>4 DEF Other
  <2>2. \A m, n \in Nat : m + n = n + m
    OBVIOUS
  <2> QED BY <1>2, <2>1, <2>2
<1> QED BY <1>3, <1>4 DEF TypeOK

LEMMA NextInv == ASSUME Inv, [Next]_vars PROVE Inv'
<1> USE DEF Inv, TypeOK, WriteOwnsBuffer, Counted
<1>0. /\ Other(indexWrite) \in {0, 1} /\ Other(indexWrite) # indexWrite
      /\ Other(Other(indexWrite)) = indexWrite
      /\ indexStream = indexWrite \/ indexStream = Other(indexWrite)
  BY Indexes
<1>1. CASE Put
  <2>1. /\ ssSend' = [ssSend EXCEPT ![indexStream] = Append(@, nPut + 1)]
        /\ nPut' = nPut + 1
        /\ UNCHANGED <<indexStream, indexWrite, writing, closed, delivered, flushed>>
    BY <1>1 DEF Put
  <2>2. /\ Append(ssSend[indexStream], nPut + 1) \in Seq(Nat)
        /\ Len(Append(ssSend[indexStream], nPut + 1)) = Len(ssSend[indexStream]) + 1
    BY AppendAtEnd
  <2>3. TypeOK'
    BY <2>1, <2>2
  <2>4. Counted'
    <3>1. CASE indexStream = 0
      BY <3>1, <2>1, <2>2
    <3>2. CASE indexStream = 1
      BY <3>2, <2>1, <2>2
    <3> QED BY <3>1, <3>2
  <2>5. WriteOwnsBuffer'
    BY <1>0, <2>1
  <2> QED BY <2>3, <2>4, <2>5
<1>2. CASE Write
  <2>1. /\ flushed' = nPut
        /\ IF indexWrite = indexStream THEN writing' = TRUE /\ indexStream' = Other(indexWrite)
           ELSE UNCHANGED <<writing, indexStream>>
        /\ UNCHANGED <<ssSend, indexWrite, closed, delivered, nPut>>
    BY <1>2 DEF Write, StartWrite
  <2>2. CASE indexWrite = indexStream
    BY <1>0, <2>1, <2>2
  <2>3. CASE indexWrite # indexStream
    BY <2>1, <2>3
  <2> QED BY <2>2, <2>3
<1>3. CASE HandleWriten
  <2> DEFINE a == ssSend[indexWrite]
  <2>1. /\ delivered' = delivered \o a
        /\ ssSend' = [ssSend EXCEPT ![indexWrite] = <<>>]
        /\ indexWrite' = Other(indexWrite)
        /\ IF ssSend[Other(indexWrite)] # <<>>
           THEN writing' = TRUE /\ indexStream' = Other(Other(indexWrite))
           ELSE writing' = FALSE /\ UNCHANGED indexStream
        /\ writing
        /\ UNCHANGED <<closed, flushed, nPut>>
    BY <1>3 DEF HandleWriten, StartWrite
  <2>2. /\ <<>> \in Seq(Nat) /\ Len(<<>>) = 0
        /\ delivered \o a \in Seq(Nat)
        /\ Len(delivered \o a) = Len(delivered) + Len(a)
        /\ Len(a) \in Nat /\ Len(delivered) \in Nat
    BY FrontAndRest, EmptySeq
  <2>3. TypeOK'
    BY <1>0, <2>1, <2>2
  <2>4. WriteOwnsBuffer'
    <3>1. CASE ssSend[Other(indexWrite)] # <<>>
      BY <1>0, <2>1, <2>2, <3>1
    <3>2. CASE ssSend[Other(indexWrite)] = <<>>
      BY <1>0, <2>1, <2>2, <3>2
    <3> QED BY <3>1, <3>2
  <2>5. Counted'
    <3>1. CASE indexWrite = 0
      BY <3>1, <2>1, <2>2
    <3>2. CASE indexWrite = 1
      BY <3>2, <2>1, <2>2
    <3> QED BY <3>1, <3>2
  <2> QED BY <2>3, <2>4, <2>5
<1>4. CASE HandleWritenNone \/ Fail
  <2>1. closed' = TRUE /\ UNCHANGED <<ssSend, indexStream, indexWrite, writing, delivered, flushed, nPut>>
    BY <1>4 DEF HandleWritenNone, Fail
  <2>2. TypeOK' /\ Counted'
    BY <2>1
  <2>3. WriteOwnsBuffer'
    BY <2>1 DEF Other
  <2> QED BY <2>2, <2>3
<1>5. CASE UNCHANGED vars
  BY <1>5 DEF vars, Other
<1> HIDE DEF Inv, TypeOK, WriteOwnsBuffer, Counted
<1> QED
  BY <1>1, <1>2, <1>3, <1>4, <1>5 DEF Next

\* The channel counts the messages as the peer does.
LEMMA SameCount == ASSUME Inv PROVE Channel!Count = nPut
<1>1. ssSend[indexWrite] \in Seq(Nat) /\ ssSend[Other(indexWrite)] \in Seq(Nat)
  BY Indexes DEF Inv, TypeOK
<1>2. Len(ssSend[indexWrite] \o ssSend[Other(indexWrite)])
         = Len(ssSend[indexWrite]) + Len(ssSend[Other(indexWrite)])
  BY <1>1, FrontAndRest
<1>3. Len(delivered) \in Nat
  BY DEF Inv, TypeOK
<1>4. nPut = Len(delivered) + (Len(ssSend[0]) + Len(ssSend[1]))
  <2>1. \A k, m, n \in Nat : k + m + n = k + (m + n)
    OBVIOUS
  <2>2. Len(ssSend[0]) \in Nat /\ Len(ssSend[1]) \in Nat
    BY BothCounted DEF Inv
  <2> QED BY <1>3, <2>1, <2>2 DEF Inv, Counted
<1>5. Channel!Count = Len(delivered) + Len(ssSend[indexWrite] \o ssSend[Other(indexWrite)])
  BY DEF Channel!Count
<1> QED
  BY <1>2, <1>4, <1>5, BothCounted DEF Inv

\* A step of the peer is a step of the channel.
LEMMA StepSimulates ==
    ASSUME Inv, Inv', [Next]_vars
    PROVE  [Channel!Next]_(Channel!vars)
<1> DEFINE w == indexWrite
           a == ssSend[indexWrite]
           b == ssSend[Other(indexWrite)]
<1>1. /\ a \in Seq(Nat) /\ b \in Seq(Nat)
      /\ indexStream = w \/ indexStream = Other(w)
      /\ w \in {0, 1} /\ Other(w) \in {0, 1} /\ Other(w) # w /\ Other(Other(w)) = w
      /\ nPut \in Nat
      /\ DOMAIN ssSend = {0, 1}
  BY Indexes DEF Inv, TypeOK
<1>2. CASE Put
  <2>1. /\ ssSend' = [ssSend EXCEPT ![indexStream] = Append(@, nPut + 1)]
        /\ ~ closed /\ nPut < MaxMsgs
        /\ UNCHANGED <<indexStream, indexWrite, writing, closed, delivered, flushed>>
    BY <1>2 DEF Put
  <2>2. (a \o b)' = Append(a \o b, nPut + 1)
    <3>1. CASE indexStream = w
      <4>1. b = <<>>
        BY <3>1 DEF Inv, WriteOwnsBuffer
      <4>2. a' = Append(a, nPut + 1) /\ b' = b
        BY <1>1, <2>1, <3>1
      <4>3. Append(a, nPut + 1) \in Seq(Nat) /\ nPut + 1 \in Nat
        BY <1>1, AppendAtEnd
      <4> HIDE DEF a, b
      <4> QED BY <1>1, <4>1, <4>2, <4>3, ConcatEmptySeq
    <3>2. CASE indexStream = Other(w)
      <4>1. a' = a /\ b' = Append(b, nPut + 1)
        BY <1>1, <2>1, <3>2
      <4> HIDE DEF a, b
      <4> QED BY <1>1, <4>1, AppendAtEnd, SMTT(30)
    <3> QED BY <1>1, <3>1, <3>2
  <2>3. Channel!Put
    BY <2>1, <2>2, SameCount DEF Channel!Put
  <2> QED BY <2>3 DEF Channel!Next
<1>3. CASE Write
  <2>1. /\ ~ closed /\ flushed' = nPut
        /\ UNCHANGED <<ssSend, indexWrite, closed, delivered, nPut>>
    BY <1>3 DEF Write
  <2>2. Channel!Flush
    BY <2>1, SameCount DEF Channel!Flush
  <2> QED BY <2>2 DEF Channel!Next
<1>4. CASE HandleWriten
  <2>1. /\ ~ closed /\ a # <<>>
        /\ delivered' = delivered \o a
        /\ ssSend' = [ssSend EXCEPT ![w] = <<>>]
        /\ indexWrite' = Other(w)
        /\ UNCHANGED <<closed, flushed>>
    BY <1>4 DEF HandleWriten
  <2>2. a' = b /\ b' = <<>>
    BY <1>1, <2>1
  <2>3. (a \o b)' = b
    <3> HIDE DEF a, b
    <3> QED BY <1>1, <2>2, FrontAndRest
  <2>4. /\ Len(a) \in 1..Len(a \o b)
        /\ SubSeq(a \o b, 1, Len(a)) = a
        /\ SubSeq(a \o b, Len(a) + 1, Len(a \o b)) = b
    <3> HIDE DEF a, b
    <3> QED BY <1>1, <2>1, FrontAndRest
  <2>5. Channel!Deliver
    BY <2>1, <2>3, <2>4 DEF Channel!Deliver
  <2> QED BY <2>5 DEF Channel!Next
<1>5. CASE HandleWritenNone \/ Fail
  <2>1. Channel!Break
    BY <1>5 DEF HandleWritenNone, Fail, Channel!Break
  <2> QED BY <2>1 DEF Channel!Next
<1>6. CASE UNCHANGED vars
  BY <1>6 DEF vars, Channel!vars
<1> QED
  BY <1>2, <1>3, <1>4, <1>5, <1>6 DEF Next

\* The peer's stream implements the safety of the channel, whatever the number of messages.
THEOREM StreamImplementsChannel == Spec => Channel!Init /\ [][Channel!Next]_(Channel!vars)
<1>1. Init => Channel!Init
  BY DEF Init, Channel!Init, Other
<1> QED
  BY <1>1, InitInv, NextInv, StepSimulates, PTL DEF Spec
-------------------------------------------------------------------------------
Sched == INSTANCE DataSched

\* Each element of the sequence occurs once.
Distinct(s) == \A i, j \in DOMAIN s : s[i] = s[j] => i = j

\* Taking out one datum of a list without repetitions leaves exactly the other data.
LEMMA WithoutLeavesOthers ==
    ASSUME NEW s \in Seq(Ident), NEW d, Distinct(s)
    PROVE  /\ Sched!Without(s, d) \in Seq(Ident)
           /\ Sched!Elements(Sched!Without(s, d)) = Sched!Elements(s) \ {d}
           /\ Distinct(Sched!Without(s, d))
<1>1. CASE d \notin Sched!Elements(s)
  BY <1>1 DEF Sched!Without
<1>2. CASE d \in Sched!Elements(s)
  <2> DEFINE k == CHOOSE j \in DOMAIN s : s[j] = d
             w == [j \in 1..(Len(s) - 1) |-> IF j < k THEN s[j] ELSE s[j + 1]]
  <2>1. /\ k \in 1..Len(s)
        /\ s[k] = d
        /\ Len(s) \in Nat
        /\ DOMAIN s = 1..Len(s)
        /\ \A i \in 1..Len(s) : s[i] \in Ident
    BY <1>2 DEF Sched!Elements
  <2>2. Sched!Without(s, d) = w
    BY <1>2 DEF Sched!Without
  <2> HIDE DEF k
  <2>3. \A j \in 1..(Len(s) - 1) : w[j] = IF j < k THEN s[j] ELSE s[j + 1]
    OBVIOUS
  <2>4. DOMAIN w = 1..(Len(s) - 1)
    OBVIOUS
  <2> HIDE DEF w
  <2>5. w \in Seq(Ident)
    <3>1. \A j \in 1..(Len(s) - 1) : w[j] \in Ident
      BY <2>1, <2>3
    <3>2. Len(s) - 1 \in Nat
      BY <2>1
    <3>3. w = [j \in 1..(Len(s) - 1) |-> w[j]]
      BY <2>4 DEF w
    <3> QED BY <3>1, <3>2, <3>3
  <2>6. Distinct(w)
    BY <2>1, <2>3, <2>4 DEF Distinct
  <2>7. \A j \in 1..(Len(s) - 1) : w[j] \in Sched!Elements(s) \ {d}
    BY <2>1, <2>3 DEF Sched!Elements, Distinct
  <2>8. ASSUME NEW i \in 1..Len(s), s[i] # d
        PROVE  \E j \in 1..(Len(s) - 1) : w[j] = s[i]
    <3>1. CASE i < k
      BY <3>1, <2>1, <2>3
    <3>2. CASE i > k
      <4>1. i - 1 \in 1..(Len(s) - 1) /\ ~ (i - 1 < k) /\ (i - 1) + 1 = i
        BY <3>2, <2>1
      <4>2. w[i - 1] = s[i]
        BY <4>1, <2>3
      <4> QED BY <4>1, <4>2
    <3>3. i # k
      BY <2>1, <2>8
    <3> QED BY <3>1, <3>2, <3>3, <2>1
  <2>9. Sched!Elements(w) = Sched!Elements(s) \ {d}
    <3>1. Sched!Elements(w) \subseteq Sched!Elements(s) \ {d}
      BY <2>4, <2>7 DEF Sched!Elements
    <3>2. ASSUME NEW x \in Sched!Elements(s) \ {d}
          PROVE  x \in Sched!Elements(w)
      <4>1. PICK i \in 1..Len(s) : s[i] = x
        BY <3>2, <2>1 DEF Sched!Elements
      <4>2. PICK j \in 1..(Len(s) - 1) : w[j] = x
        BY <4>1, <2>8
      <4> QED BY <4>2, <2>4 DEF Sched!Elements
    <3> QED BY <3>1, <3>2
  <2> QED BY <2>2, <2>5, <2>6, <2>9
<1> QED BY <1>1, <1>2

\* A datum at the end of a list that does not hold it yet.
LEMMA AppendAdds ==
    ASSUME NEW s \in Seq(Ident), NEW d \in Ident
    PROVE  /\ Append(s, d) \in Seq(Ident)
           /\ Sched!Elements(Append(s, d)) = Sched!Elements(s) \cup {d}
           /\ Distinct(s) /\ d \notin Sched!Elements(s) => Distinct(Append(s, d))
<1>1. /\ Len(s) \in Nat
      /\ DOMAIN s = 1..Len(s)
      /\ DOMAIN Append(s, d) = 1..(Len(s) + 1)
      /\ \A i \in 1..Len(s) : Append(s, d)[i] = s[i]
      /\ Append(s, d)[Len(s) + 1] = d
  OBVIOUS
<1>2. Append(s, d) \in Seq(Ident)
  OBVIOUS
<1>3. Sched!Elements(Append(s, d)) = Sched!Elements(s) \cup {d}
  BY <1>1 DEF Sched!Elements
<1>4. Distinct(s) /\ d \notin Sched!Elements(s) => Distinct(Append(s, d))
  BY <1>1 DEF Sched!Elements, Distinct
<1> QED BY <1>2, <1>3, <1>4
-----------------------------------------------------------------------------
SchedInv == Sched!TypeOK /\ Sched!KnownAgree /\ Sched!AssignedAgree /\ Sched!ScheduledSoFar

\* Nothing is known and nothing assigned.
LEMMA SchedInit == ASSUME MaxNonce \in Nat PROVE Sched!Init => SchedInv
  BY DEF Sched!Init, SchedInv, Sched!TypeOK, Sched!KnownAgree, Sched!KnownBoth, Sched!KnownOnce, Sched!KnownThere, Sched!AssignedAgree, Sched!ScheduledSoFar, Sched!Nonce, Sched!Elements

\* Every call, and every round of Schedule, keeps the records in agreement.
LEMMA SchedNext ==
    ASSUME MaxNonce \in Nat, SchedInv, [Sched!Next]_(Sched!vars)
    PROVE  SchedInv'
<1> USE DEF SchedInv, Sched!TypeOK, Sched!Nonce
<1>1. ASSUME NEW p \in Sched!Nonce, Sched!ActivatePeer(p)
      PROVE  SchedInv'
  BY <1>1 DEF Sched!ActivatePeer, Sched!Idle, Sched!KnownAgree, Sched!KnownBoth, Sched!KnownOnce, Sched!KnownThere, Sched!AssignedAgree, Sched!ScheduledSoFar
<1>2. ASSUME NEW p \in Sched!Nonce, Sched!DeactivatePeer(p)
      PROVE  SchedInv'
  <2>1. Sched!TypeOK'
    BY <1>2 DEF Sched!DeactivatePeer, Sched!Idle, Sched!Elements
  <2>2. Sched!Elements(<<>>) = {}
    BY DEF Sched!Elements
  <2>3. \A d \in Ident : d \in Sched!Elements(listDataIdent[p]) <=> p \in setKnownPeer[d]
    BY DEF Sched!KnownAgree, Sched!KnownBoth, Sched!KnownOnce, Sched!KnownThere
  <2>4. Sched!KnownAgree'
    <3>1. Sched!KnownBoth'
      BY <1>2, <2>2, <2>3 DEF Sched!DeactivatePeer, Sched!KnownAgree, Sched!KnownBoth, Sched!KnownOnce, Sched!KnownThere
    <3>2. Sched!KnownOnce'
      BY <1>2 DEF Sched!DeactivatePeer, Sched!KnownAgree, Sched!KnownBoth, Sched!KnownOnce, Sched!KnownThere
    <3>3. Sched!KnownThere'
      BY <1>2, <2>3 DEF Sched!DeactivatePeer, Sched!KnownAgree, Sched!KnownBoth, Sched!KnownOnce, Sched!KnownThere
    <3> QED BY <3>1, <3>2, <3>3 DEF Sched!KnownAgree
  <2>5. Sched!AssignedAgree'
    BY <1>2, <2>3 DEF Sched!DeactivatePeer, Sched!AssignedAgree
  <2>6. Sched!ScheduledSoFar'
    BY <1>2 DEF Sched!DeactivatePeer, Sched!Idle, Sched!ScheduledSoFar
  <2> QED BY <2>1, <2>4, <2>5, <2>6
<1>3. ASSUME NEW p \in Sched!Nonce, NEW d \in Ident, Sched!AddKnownData(p, d)
      PROVE  SchedInv'
  <2>1. /\ Append(listDataIdent[p], d) \in Seq(Ident)
        /\ Sched!Elements(Append(listDataIdent[p], d)) = Sched!Elements(listDataIdent[p]) \cup {d}
        /\ p \notin setKnownPeer[d] => Distinct(Append(listDataIdent[p], d))
    <3>1. listDataIdent[p] \in Seq(Ident)
      OBVIOUS
    <3>2. Distinct(listDataIdent[p])
      BY DEF Sched!KnownAgree, Sched!KnownBoth, Sched!KnownOnce, Sched!KnownThere, Distinct
    <3>3. p \notin setKnownPeer[d] => d \notin Sched!Elements(listDataIdent[p])
      BY DEF Sched!KnownAgree, Sched!KnownBoth, Sched!KnownOnce, Sched!KnownThere
    <3> QED BY <3>1, <3>2, <3>3, AppendAdds
  <2>2. Sched!TypeOK'
    BY <1>3, <2>1 DEF Sched!AddKnownData, Sched!Idle
  <2>3. Sched!KnownAgree'
    <3>1. Sched!KnownBoth'
      BY <1>3, <2>1 DEF Sched!AddKnownData, Sched!KnownAgree, Sched!KnownBoth, Sched!KnownOnce, Sched!KnownThere
    <3>2. Sched!KnownOnce'
      BY <1>3, <2>1 DEF Sched!AddKnownData, Sched!KnownAgree, Sched!KnownBoth, Sched!KnownOnce, Sched!KnownThere, Distinct
    <3>3. Sched!KnownThere'
      BY <1>3 DEF Sched!AddKnownData, Sched!KnownAgree, Sched!KnownBoth, Sched!KnownOnce, Sched!KnownThere
    <3> QED BY <3>1, <3>2, <3>3 DEF Sched!KnownAgree
  <2>4. Sched!AssignedAgree' /\ Sched!ScheduledSoFar'
    BY <1>3 DEF Sched!AddKnownData, Sched!Idle, Sched!AssignedAgree, Sched!ScheduledSoFar
  <2> QED BY <2>2, <2>3, <2>4
<1>4. ASSUME NEW d \in Ident, Sched!RemoveKnownData(d)
      PROVE  SchedInv'
  <2>1. \A p \in Sched!Nonce : /\ Sched!Without(listDataIdent[p], d) \in Seq(Ident)
                          /\ Sched!Elements(Sched!Without(listDataIdent[p], d)) = Sched!Elements(listDataIdent[p]) \ {d}
                          /\ Distinct(Sched!Without(listDataIdent[p], d))
    <3>1. \A p \in Sched!Nonce : listDataIdent[p] \in Seq(Ident) /\ Distinct(listDataIdent[p])
      BY DEF Sched!KnownAgree, Sched!KnownBoth, Sched!KnownOnce, Sched!KnownThere, Distinct
    <3> QED BY <3>1, WithoutLeavesOthers
  <2>2. Sched!TypeOK'
    BY <1>4, <2>1 DEF Sched!RemoveKnownData, Sched!Idle
  <2>3. Sched!KnownAgree'
    <3>1. Sched!KnownBoth'
      BY <1>4, <2>1 DEF Sched!RemoveKnownData, Sched!KnownAgree, Sched!KnownBoth, Sched!KnownOnce, Sched!KnownThere
    <3>2. Sched!KnownOnce'
      BY <1>4, <2>1 DEF Sched!RemoveKnownData, Sched!KnownAgree, Sched!KnownBoth, Sched!KnownOnce, Sched!KnownThere, Distinct
    <3>3. Sched!KnownThere'
      BY <1>4 DEF Sched!RemoveKnownData, Sched!KnownAgree, Sched!KnownBoth, Sched!KnownOnce, Sched!KnownThere
    <3> QED BY <3>1, <3>2, <3>3 DEF Sched!KnownAgree
  <2>4. Sched!AssignedAgree'
    BY <1>4 DEF Sched!RemoveKnownData, Sched!AssignedAgree
  <2>5. Sched!ScheduledSoFar'
    BY <1>4 DEF Sched!RemoveKnownData, Sched!Idle, Sched!ScheduledSoFar
  <2> QED BY <2>2, <2>3, <2>4, <2>5
<1>5. ASSUME NEW d \in Ident, Sched!UnassignPeer(d)
      PROVE  SchedInv'
  BY <1>5, ZenonT(60) DEF Sched!UnassignPeer, Sched!Idle, Sched!KnownAgree, Sched!KnownBoth, Sched!KnownOnce, Sched!KnownThere, Sched!AssignedAgree, Sched!ScheduledSoFar
<1>6. CASE Sched!Clear
  BY <1>6 DEF Sched!Clear, Sched!Idle, Sched!KnownAgree, Sched!KnownBoth, Sched!KnownOnce, Sched!KnownThere, Sched!AssignedAgree, Sched!ScheduledSoFar, Sched!Elements
<1>7. CASE Sched!ScheduleBegin
  BY <1>7 DEF Sched!ScheduleBegin, Sched!KnownAgree, Sched!KnownBoth, Sched!KnownOnce, Sched!KnownThere, Sched!AssignedAgree, Sched!ScheduledSoFar
<1>8. CASE Sched!ScheduleAssign
  <2>1. PICK i \in DOMAIN listDataIdent[it] :
           /\ Sched!First(it, i)
           /\ nAssigned' = [nAssigned EXCEPT ![listDataIdent[it][i]] = it]
           /\ vAssigned' = Append(vAssigned, <<it, listDataIdent[it][i]>>)
    BY <1>8 DEF Sched!ScheduleAssign
  <2> DEFINE d == listDataIdent[it][i]
  <2>2. /\ it \in Sched!Nonce /\ it # 0
        /\ d \in Ident
        /\ it \in setKnownPeer[d]
        /\ d \in mapData
        /\ ~ fAssigned[it]
        /\ nAssigned[d] = 0
    <3>1. it \in Sched!Nonce /\ ~ fAssigned[it] /\ it # 0
      BY <1>8 DEF Sched!ScheduleAssign
    <3>2. d \in Sched!Elements(listDataIdent[it]) /\ d \in Ident
      BY <3>1 DEF Sched!Elements
    <3>3. it \in setKnownPeer[d] /\ d \in mapData
      BY <3>1, <3>2 DEF Sched!KnownAgree, Sched!KnownBoth, Sched!KnownOnce, Sched!KnownThere
    <3>4. nAssigned[d] \in {0, it}
      BY <2>1 DEF Sched!First, Sched!Assignable
    <3> QED BY <3>1, <3>2, <3>3, <3>4 DEF Sched!AssignedAgree
  <2> HIDE DEF d
  <2>3. /\ nAssigned' = [nAssigned EXCEPT ![d] = it]
        /\ vAssigned' = Append(vAssigned, <<it, d>>)
        /\ fAssigned' = [fAssigned EXCEPT ![it] = TRUE]
        /\ it' = it + 1
        /\ UNCHANGED <<mapPeer, listDataIdent, mapData, setKnownPeer>>
    BY <1>8, <2>1 DEF Sched!ScheduleAssign, d
  <2>4. Sched!TypeOK'
    BY <2>2, <2>3
  <2>5. Sched!KnownAgree'
    BY <2>2, <2>3 DEF Sched!KnownAgree, Sched!KnownBoth, Sched!KnownOnce, Sched!KnownThere
  <2>6. Sched!AssignedAgree'
    BY <2>2, <2>3 DEF Sched!AssignedAgree
  <2>7. Sched!ScheduledSoFar'
    <3>1. \A p \in mapPeer' : p < it' =>
             fAssigned'[p] \/ \A e \in Ident : p \in setKnownPeer'[e] => nAssigned'[e] # 0
      <4>1. ASSUME NEW p \in mapPeer, p < it + 1
            PROVE  p = it \/ p < it
        BY <4>1, <2>2
      <4>2. \A p \in mapPeer : p < it =>
               fAssigned[p] \/ \A e \in Ident : p \in setKnownPeer[e] => nAssigned[e] # 0
        BY <2>2 DEF Sched!ScheduledSoFar
      <4>3. \A e \in Ident : nAssigned[e] # 0 => nAssigned'[e] # 0
        BY <2>2, <2>3
      <4> QED BY <2>2, <2>3, <4>1, <4>2, <4>3
    <3>2. \A k \in DOMAIN vAssigned : vAssigned[k] \in Sched!Nonce \X Ident
      OBVIOUS
    <3>3. \A k \in DOMAIN vAssigned : nAssigned'[vAssigned[k][2]] = vAssigned[k][1]
      BY <2>2, <2>3, <3>2 DEF Sched!ScheduledSoFar
    <3>4. \A k \in DOMAIN vAssigned' : vAssigned'[k] = <<it, d>> \/
             (k \in DOMAIN vAssigned /\ vAssigned'[k] = vAssigned[k])
      BY <2>2, <2>3
    <3>5. nAssigned'[d] = it
      BY <2>2, <2>3
    <3>6. \A k \in DOMAIN vAssigned' : nAssigned'[vAssigned'[k][2]] = vAssigned'[k][1]
      BY <3>3, <3>4, <3>5
    <3> QED BY <3>1, <3>6 DEF Sched!ScheduledSoFar
  <2> QED BY <2>4, <2>5, <2>6, <2>7
<1>9. CASE Sched!SchedulePass
  <2>1. Sched!TypeOK' /\ Sched!KnownAgree' /\ Sched!AssignedAgree'
    BY <1>9 DEF Sched!SchedulePass, Sched!KnownAgree, Sched!KnownBoth, Sched!KnownOnce, Sched!KnownThere, Sched!AssignedAgree
  <2>2. /\ it \in Sched!Nonce /\ it' = it + 1
        /\ UNCHANGED <<mapPeer, fAssigned, setKnownPeer, nAssigned, vAssigned>>
    BY <1>9 DEF Sched!SchedulePass
  <2>3. it \in mapPeer => fAssigned[it] \/ \A d \in Ident : it \in setKnownPeer[d] => nAssigned[d] # 0
    <3>1. \A d \in Ident : it \in setKnownPeer[d] => d \in Sched!Elements(listDataIdent[it])
      BY <2>2 DEF Sched!KnownAgree, Sched!KnownBoth, Sched!KnownOnce, Sched!KnownThere
    <3> QED BY <1>9, <3>1 DEF Sched!SchedulePass, Sched!Assignable
  <2>4. ASSUME NEW p \in mapPeer, p < it'
        PROVE  fAssigned[p] \/ \A d \in Ident : p \in setKnownPeer[d] => nAssigned[d] # 0
    <3>1. p = it \/ (p < it /\ it # 0)
      BY <2>2, <2>4
    <3> QED BY <3>1, <2>3 DEF Sched!ScheduledSoFar
  <2>5. \A k \in DOMAIN vAssigned : nAssigned[vAssigned[k][2]] = vAssigned[k][1]
    BY <2>2 DEF Sched!ScheduledSoFar
  <2>6. Sched!ScheduledSoFar'
    BY <2>2, <2>4, <2>5 DEF Sched!ScheduledSoFar
  <2> QED BY <2>1, <2>6
<1>10. CASE Sched!ScheduleEnd
  <2>1. Sched!TypeOK' /\ Sched!ScheduledSoFar'
    BY <1>10 DEF Sched!ScheduleEnd, Sched!ScheduledSoFar
  <2>2. Sched!KnownAgree' /\ Sched!AssignedAgree'
    BY <1>10 DEF Sched!ScheduleEnd, Sched!KnownAgree, Sched!KnownBoth, Sched!KnownOnce, Sched!KnownThere, Sched!AssignedAgree
  <2> QED BY <2>1, <2>2
<1>11. CASE UNCHANGED Sched!vars
  BY <1>11 DEF Sched!vars, Sched!KnownAgree, Sched!KnownBoth, Sched!KnownOnce, Sched!KnownThere, Sched!AssignedAgree, Sched!ScheduledSoFar
<1> HIDE DEF SchedInv, Sched!TypeOK
<1> QED
  BY <1>1, <1>2, <1>3, <1>4, <1>5, <1>6, <1>7, <1>8, <1>9, <1>10, <1>11 DEF Sched!Next

\* SchedulerAgrees holds in every state, for every number of peers and set of data.
THEOREM SchedulerSafe == ASSUME MaxNonce \in Nat PROVE Sched!Spec => []SchedulerAgrees
<1>1. Sched!KnownAgree => KnownAgree
  BY DEF Sched!KnownAgree, Sched!KnownBoth, Sched!KnownOnce, Sched!KnownThere, Sched!Nonce, Sched!Elements,
         KnownAgree, KnownBoth, KnownOnce, KnownThere, Nonce, Elements
<1>2. Sched!AssignedAgree => AssignedAgree
  BY DEF Sched!AssignedAgree, Sched!Nonce, AssignedAgree, Nonce
<1>3. SchedInv => SchedulerAgrees
  BY <1>1, <1>2 DEF SchedInv, SchedulerAgrees, Sched!ScheduledSoFar, ScheduledSoFar
<1> QED
  BY <1>3, SchedInit, SchedNext, PTL DEF Sched!Spec
-------------------------------------------------------------------------------
\* A set of naturals that is not empty has a least element.
LEMMA LeastOf ==
    ASSUME NEW I \in SUBSET Nat, I # {}
    PROVE  \E x \in I : \A y \in I : x <= y
<1> DEFINE R == OpToRel(<, Nat)
<1>1. \E x \in I : \A y \in I : ~ (<<y, x>> \in R)
  BY NatLessThanWellFounded, WFMin
<1>2. PICK x \in I : \A y \in I : ~ (<<y, x>> \in R)
  BY <1>1
<1>3. ASSUME NEW y \in I
      PROVE  x <= y
  <2>1. x \in Nat /\ y \in Nat
    OBVIOUS
  <2>2. y < x => <<y, x>> \in R
    BY <2>1 DEF OpToRel
  <2>3. ~ (y < x)
    BY <1>2, <2>2
  <2> QED BY <2>1, <2>3
<1> QED BY <1>3

\* The least element is what its name says.
LEMMA MinIs ==
    ASSUME NEW I \in SUBSET Nat, I # {}
    PROVE  Min(I) \in I /\ \A i \in I : Min(I) <= i
<1>1. PICK x \in I : \A y \in I : x <= y
  BY LeastOf
<1> QED BY <1>1 DEF Min

Statuses(n) == [kind : {"status"}, status : Data \cup {NoData}, nEventId : 0..n]
Entry(n) == [id : 1..n, data : Data]
Queues(n) == [kind : {"queue"}, q : Seq(Entry(n))]

\* The generators have ids the stream has given out, and so have the clients.
SubscriberTypes ==
    /\ nEventId \in 0..MaxEventId
    /\ DOMAIN mapGenerator \subseteq Event
    /\ \A e \in DOMAIN mapGenerator : mapGenerator[e] \in Statuses(nEventId) \cup Queues(nEventId)
    /\ lastId \in [Client -> 0..nEventId]
    /\ seen \in [Client -> [Event -> Data \cup {NoData}]]
    /\ got \in [Client -> SUBSET (1..nEventId)]
    /\ pushed \subseteq 1..nEventId
    /\ lost \in BOOLEAN

SubscriberInv == SubscriberTypes /\ SubscribersKnow

\* The first place of a queue that is newer than an id; all places, if none is.
LEMMA FirstAfterIs ==
    ASSUME NEW S, NEW q \in Seq(S), NEW id \in Nat, \A i \in DOMAIN q : q[i].id \in Nat
    PROVE  /\ FirstAfter(q, id) \in 1..(Len(q) + 1)
           /\ \A i \in DOMAIN q : q[i].id > id => FirstAfter(q, id) <= i
           /\ (\A i \in DOMAIN q : q[i].id <= id) => FirstAfter(q, id) = Len(q) + 1
<1> DEFINE I == {i \in DOMAIN q : q[i].id > id} \cup {Len(q) + 1}
<1>1. DOMAIN q = 1..Len(q) /\ Len(q) \in Nat
  OBVIOUS
<1>2. I \in SUBSET Nat /\ I # {} /\ I \subseteq 1..(Len(q) + 1)
  BY <1>1
<1>3. Min(I) \in I /\ \A i \in I : Min(I) <= i
  BY <1>2, MinIs
<1>4. FirstAfter(q, id) = Min(I)
  BY DEF FirstAfter
<1>5. (\A i \in DOMAIN q : q[i].id <= id) => I = {Len(q) + 1}
  OBVIOUS
<1> HIDE DEF I
<1>6. \A i \in DOMAIN q : q[i].id > id => i \in I
  BY DEF I
<1> QED BY <1>2, <1>3, <1>4, <1>5, <1>6

\* A queue sends what is newer than the client's id, and keeps nothing.
LEMMA QueueSends ==
    ASSUME SubscriberTypes, NEW e \in DOMAIN mapGenerator, mapGenerator[e] \in Queues(nEventId),
           NEW last \in 0..nEventId
    PROVE  LET g == mapGenerator[e]
               ids == {x.id : x \in ToSet(QueueSent(g, last))}
           IN  /\ Remaining(g.q) = <<>>
               /\ ids \subseteq 1..nEventId
               /\ \A i \in DOMAIN g.q : g.q[i].id > last => g.q[i].id \in ids
<1> DEFINE g == mapGenerator[e]
           q == g.q
           a == FirstAfter(q, last)
           b == FirstAfter(q, nEventId)
           s == SubSeq(q, a, b - 1)
<1>1. /\ nEventId \in Nat /\ last \in Nat
      /\ q \in Seq(Entry(nEventId))
      /\ DOMAIN q = 1..Len(q) /\ Len(q) \in Nat
      /\ \A i \in DOMAIN q : q[i] \in Entry(nEventId) /\ q[i].id \in 1..nEventId
  <2>1. nEventId \in Nat /\ last \in Nat
    BY SSEAssumption DEF SubscriberTypes
  <2>2. q \in Seq(Entry(nEventId))
    BY DEF Queues
  <2>3. \A i \in DOMAIN q : q[i] \in Entry(nEventId)
    BY <2>2
  <2> HIDE DEF q
  <2>4. \A i \in DOMAIN q : q[i].id \in 1..nEventId
    BY <2>3 DEF Entry
  <2> QED BY <2>1, <2>2, <2>3, <2>4
<1>2. /\ a \in 1..(Len(q) + 1) /\ b = Len(q) + 1
      /\ \A i \in DOMAIN q : q[i].id > last => a <= i
  <2> HIDE DEF q
  <2>1. \A i \in DOMAIN q : q[i].id \in Nat /\ q[i].id <= nEventId
    BY <1>1
  <2>2. /\ FirstAfter(q, last) \in 1..(Len(q) + 1)
        /\ \A i \in DOMAIN q : q[i].id > last => FirstAfter(q, last) <= i
    BY <1>1, <2>1, FirstAfterIs
  <2>3. FirstAfter(q, nEventId) = Len(q) + 1
    BY <1>1, <2>1, FirstAfterIs
  <2> QED BY <2>2, <2>3
<1> HIDE DEF a, b
<1>3. Remaining(q) = SubSeq(q, b, Len(q)) /\ QueueSent(g, last) = s
  BY DEF Remaining, QueueSent, a, b
<1>4. Remaining(q) = <<>>
  BY <1>1, <1>2, <1>3, SubSeqEmpty
<1> HIDE DEF q
<1>5. /\ s \in Seq(Entry(nEventId))
      /\ Len(s) = Len(q) + 1 - a
      /\ \A i \in 1..(Len(q) + 1 - a) : s[i] = q[a + i - 1]
  <2>1. /\ a \in Int /\ b - 1 \in Int
        /\ \A i \in a..(b - 1) : q[i] \in Entry(nEventId)
    BY <1>1, <1>2
  <2>2. /\ SubSeq(q, a, b - 1) \in Seq(Entry(nEventId))
        /\ Len(SubSeq(q, a, b - 1)) = IF a <= b - 1 THEN (b - 1) - a + 1 ELSE 0
        /\ \A i \in 1..((b - 1) - a + 1) : SubSeq(q, a, b - 1)[i] = q[a + i - 1]
    BY <2>1, SubSeqProperties
  <2>3. (b - 1) - a + 1 = Len(q) + 1 - a /\ (a <= b - 1 \/ Len(q) + 1 - a = 0)
    BY <1>1, <1>2
  <2> QED BY <2>2, <2>3
<1> HIDE DEF s
<1>6. ToSet(s) = {s[i] : i \in 1..Len(s)}
  <2>1. DOMAIN s = 1..Len(s)
    BY <1>5
  <2> QED BY <2>1 DEF ToSet
<1>7. \A x \in ToSet(s) : x.id \in 1..nEventId
  <2>1. \A x \in ToSet(s) : x \in Entry(nEventId)
    BY <1>5, <1>6
  <2> QED BY <2>1 DEF Entry
<1>8. ASSUME NEW i \in DOMAIN q, q[i].id > last
      PROVE  q[i] \in ToSet(s)
  <2>1. a <= i /\ i - a + 1 \in 1..Len(s) /\ a + (i - a + 1) - 1 = i
    BY <1>1, <1>2, <1>5, <1>8
  <2> QED BY <2>1, <1>5, <1>6
<1> QED BY <1>3, <1>4, <1>7, <1>8 DEF q

\* The start.
LEMMA SubscriberInit == SSEInit => SubscriberInv
<1> SUFFICES ASSUME SSEInit PROVE SubscriberInv
  OBVIOUS
<1>1. DOMAIN mapGenerator = {}
  BY DEF SSEInit
<1>2. SubscriberTypes
  <2>1. nEventId = 0 /\ pushed = {} /\ lost = FALSE /\ 0 \in 0..MaxEventId
    BY SSEAssumption DEF SSEInit
  <2>2. /\ lastId \in [Client -> 0..0]
        /\ seen \in [Client -> [Event -> Data \cup {NoData}]]
        /\ got \in [Client -> SUBSET (1..0)]
    BY DEF SSEInit
  <2> QED BY <1>1, <2>1, <2>2 DEF SubscriberTypes
<1>3. StatusKnown /\ NothingMissed
  BY <1>1 DEF SSEInit, StatusKnown, NothingMissed
<1> QED BY <1>2, <1>3 DEF SubscriberInv, SubscribersKnow

\* What a new generator is.
LEMMA NewGenerators ==
    ASSUME nEventId \in Nat
    PROVE  /\ NewStatus \in Statuses(nEventId) /\ Queued(NewStatus) = {}
           /\ NewQueue \in Queues(nEventId) /\ Queued(NewQueue) = {}
  BY DEF NewStatus, NewQueue, Statuses, Queues, Queued

\* A step that changes one generator, for a new one or one without events, and discards what
\* it had queued, keeps what the subscribers know.
LEMMA Discarded ==
    ASSUME SubscriberInv, UNCHANGED <<nEventId, clientVars>>, NEW e \in Event, Discard(e),
           DOMAIN mapGenerator' \subseteq DOMAIN mapGenerator \cup {e},
           DOMAIN mapGenerator \ {e} \subseteq DOMAIN mapGenerator',
           \A x \in DOMAIN mapGenerator \ {e} : mapGenerator'[x] = mapGenerator[x],
           e \in DOMAIN mapGenerator' =>
               /\ mapGenerator'[e] \in Statuses(nEventId) \cup Queues(nEventId)
               /\ mapGenerator'[e].kind = "status" => mapGenerator'[e].status = NoData
    PROVE  SubscriberInv'
<1>1. SubscriberTypes'
  BY DEF SubscriberInv, SubscriberTypes, clientVars, Discard
<1>2. StatusKnown'
  BY DEF SubscriberInv, SubscribersKnow, StatusKnown, clientVars
<1>3. ASSUME NEW id \in pushed', id \in StillQueued
      PROVE  id \in StillQueued'
  <2>1. PICK x \in DOMAIN mapGenerator : id \in Queued(mapGenerator[x])
    BY <1>3 DEF StillQueued
  <2>2. x # e
    BY <2>1, <1>3 DEF Discard
  <2>3. x \in DOMAIN mapGenerator' /\ mapGenerator'[x] = mapGenerator[x]
    BY <2>1, <2>2
  <2> QED BY <2>1, <2>3 DEF StillQueued
<1>4. pushed' \subseteq pushed
  BY DEF Discard
<1>5. NothingMissed'
  BY <1>3, <1>4 DEF SubscriberInv, SubscribersKnow, NothingMissed, clientVars
<1> QED BY <1>1, <1>2, <1>5 DEF SubscriberInv, SubscribersKnow

LEMMA RegisterKeeps ==
    ASSUME SubscriberInv, NEW e \in Event, RegisterEvent(e)
    PROVE  SubscriberInv'
<1>1. PICK g \in {NewStatus, NewQueue} :
          mapGenerator' = [x \in DOMAIN mapGenerator \cup {e} |->
                              IF x = e THEN g ELSE mapGenerator[x]]
  BY DEF RegisterEvent
<1>2. g \in Statuses(nEventId) \cup Queues(nEventId) /\ (g.kind = "status" => g.status = NoData)
  BY NewGenerators DEF SubscriberInv, SubscriberTypes, NewStatus, NewQueue
<1> QED BY <1>1, <1>2, Discarded DEF RegisterEvent

LEMMA UnregisterKeeps ==
    ASSUME SubscriberInv, NEW e \in Event, UnregisterEvent(e)
    PROVE  SubscriberInv'
  BY Discarded DEF UnregisterEvent

LEMMA ResetKeeps ==
    ASSUME SubscriberInv, NEW e \in Event, ResetData(e)
    PROVE  SubscriberInv'
<1> DEFINE g == mapGenerator[e]
           h == IF g.kind = "status" THEN [g EXCEPT !.status = NoData] ELSE NewQueue
<1>1. mapGenerator' = [mapGenerator EXCEPT ![e] = h] /\ e \in DOMAIN mapGenerator
  BY DEF ResetData
<1>2. g \in Statuses(nEventId) \cup Queues(nEventId) /\ nEventId \in Nat
  BY <1>1 DEF SubscriberInv, SubscriberTypes
<1>3. h \in Statuses(nEventId) \cup Queues(nEventId) /\ (h.kind = "status" => h.status = NoData)
  <2>1. CASE g \in Statuses(nEventId)
    BY <2>1 DEF Statuses
  <2>2. CASE g \in Queues(nEventId)
    <3>1. g.kind = "queue"
      BY <2>2 DEF Queues
    <3> QED BY <3>1, <1>2, NewGenerators DEF NewQueue
  <2> QED BY <1>2, <2>1, <2>2
<1> HIDE DEF h
<1> QED BY <1>1, <1>3, Discarded DEF ResetData

\* An update stamps what it changes with a new id, which no client holds.
LEMMA UpdateKeeps ==
    ASSUME SubscriberInv, NEW e \in Event, NEW d \in Data, UpdateEventData(e, d)
    PROVE  SubscriberInv'
<1> DEFINE g == mapGenerator[e]
           n == nEventId + 1
           h == IF g.kind = "status" THEN [g EXCEPT !.status = d, !.nEventId = n]
                ELSE [g EXCEPT !.q = Append(g.q, [id |-> n, data |-> d])]
<1>1. /\ mapGenerator' = [mapGenerator EXCEPT ![e] = h] /\ e \in DOMAIN mapGenerator
      /\ nEventId' = n /\ nEventId < MaxEventId
      /\ pushed' = IF g.kind = "queue" THEN pushed \cup {n} ELSE pushed
      /\ UNCHANGED <<lastId, seen, got, lost>>
  <2>1. e \in DOMAIN mapGenerator /\ nEventId' = n /\ nEventId < MaxEventId
    BY DEF UpdateEventData
  <2>2. mapGenerator' = [mapGenerator EXCEPT ![e] = h]
    <3>1. mapGenerator' = [mapGenerator EXCEPT ![e] = Updated(g, d)]
      BY DEF UpdateEventData
    <3>2. Updated(g, d) = h
      BY DEF Updated, Stamp
    <3> QED BY <3>1, <3>2
  <2>3. pushed' = IF g.kind = "queue" THEN pushed \cup {n} ELSE pushed
    BY DEF UpdateEventData, Stamp
  <2>4. UNCHANGED <<lastId, seen, got, lost>>
    BY DEF UpdateEventData, clientVars
  <2> QED BY <2>1, <2>2, <2>3, <2>4
<1>2. /\ g \in Statuses(nEventId) \cup Queues(nEventId) /\ nEventId \in Nat /\ n \in 0..MaxEventId
      /\ \A x \in DOMAIN mapGenerator : mapGenerator[x] \in Statuses(nEventId) \cup Queues(nEventId)
  BY <1>1, SSEAssumption DEF SubscriberInv, SubscriberTypes
<1>3. ASSUME NEW x \in Statuses(nEventId) \cup Queues(nEventId)
      PROVE  x \in Statuses(n) \cup Queues(n)
  <2>1. CASE x \in Statuses(nEventId)
    BY <2>1, <1>2 DEF Statuses
  <2>2. CASE x \in Queues(nEventId)
    <3>1. Entry(nEventId) \subseteq Entry(n)
      BY <1>2 DEF Entry
    <3>2. x.q \in Seq(Entry(n))
      BY <2>2, <3>1 DEF Queues
    <3> QED BY <2>2, <3>2 DEF Queues
  <2> QED BY <1>3, <2>1, <2>2
<1>4. h \in Statuses(n) \cup Queues(n)
  <2>1. CASE g \in Statuses(nEventId)
    <3>1. g.kind = "status" /\ n \in 0..n
      BY <2>1, <1>2 DEF Statuses
    <3>2. h = [kind |-> "status", status |-> d, nEventId |-> n]
      BY <2>1, <3>1 DEF Statuses
    <3> QED BY <3>1, <3>2 DEF Statuses
  <2>2. CASE g \in Queues(nEventId)
    <3>1. g \in Queues(n)
      BY <2>2, <1>3 DEF Statuses, Queues
    <3>2. [id |-> n, data |-> d] \in Entry(n)
      BY <1>2 DEF Entry
    <3>3. Append(g.q, [id |-> n, data |-> d]) \in Seq(Entry(n))
      BY <3>1, <3>2 DEF Queues
    <3> QED BY <3>1, <3>3 DEF Queues
  <2> QED BY <1>2, <2>1, <2>2
<1>5. h.kind = g.kind /\ (g.kind = "status" => h.status = d /\ h.nEventId = n)
  BY <1>2 DEF Statuses, Queues
<1>6. Queued(g) \subseteq Queued(h) /\ (g.kind = "queue" => n \in Queued(h))
  <2>1. CASE g.kind = "status"
    BY <2>1 DEF Queued
  <2>2. CASE g.kind # "status"
    <3>1. g.kind = "queue" /\ g.q \in Seq(Entry(nEventId)) /\ g \in Queues(nEventId)
      BY <2>2, <1>2 DEF Statuses, Queues
    <3> DEFINE r == Append(g.q, [id |-> n, data |-> d])
    <3>2. /\ DOMAIN g.q = 1..Len(g.q) /\ DOMAIN r = 1..(Len(g.q) + 1) /\ Len(g.q) \in Nat
          /\ \A i \in 1..Len(g.q) : r[i] = g.q[i]
          /\ r[Len(g.q) + 1] = [id |-> n, data |-> d]
      BY <3>1
    <3>3. h.q = r /\ h.kind = "queue"
      BY <2>2, <3>1 DEF Queues
    <3> HIDE DEF r, h
    <3>4. Queued(h) = {r[i].id : i \in DOMAIN r} /\ Queued(g) = {g.q[i].id : i \in DOMAIN g.q}
      BY <3>1, <3>3 DEF Queued
    <3>5. r[Len(g.q) + 1].id = n
      BY <3>2
    <3>6. \A i \in DOMAIN g.q : i \in DOMAIN r /\ r[i].id = g.q[i].id
      BY <3>2
    <3>7. n \in Queued(h)
      BY <3>2, <3>4, <3>5
    <3> QED BY <3>4, <3>6, <3>7
  <2> QED BY <2>1, <2>2
<1> HIDE DEF h
<1>7. SubscriberTypes'
  BY <1>1, <1>2, <1>3, <1>4 DEF SubscriberInv, SubscriberTypes
<1>8. StatusKnown'
  <2> SUFFICES ASSUME NEW c \in Client, NEW x \in DOMAIN mapGenerator',
                      mapGenerator'[x].kind = "status", mapGenerator'[x].status # NoData,
                      mapGenerator'[x].nEventId <= lastId'[c]
               PROVE  seen'[c][x] = mapGenerator'[x].status
    BY DEF StatusKnown
  <2>1. x # e
    BY <1>1, <1>2, <1>5 DEF SubscriberInv, SubscriberTypes
  <2>2. x \in DOMAIN mapGenerator /\ mapGenerator'[x] = mapGenerator[x]
    BY <1>1, <2>1
  <2> QED BY <1>1, <2>2 DEF SubscriberInv, SubscribersKnow, StatusKnown
<1>9. StillQueued \subseteq StillQueued' /\ (g.kind = "queue" => n \in StillQueued')
  <2>1. DOMAIN mapGenerator' = DOMAIN mapGenerator /\ mapGenerator'[e] = h
        /\ \A x \in DOMAIN mapGenerator : x # e => mapGenerator'[x] = mapGenerator[x]
    BY <1>1
  <2>2. \A x \in DOMAIN mapGenerator : Queued(mapGenerator[x]) \subseteq Queued(mapGenerator'[x])
    BY <1>6, <2>1
  <2>3. g.kind = "queue" => n \in Queued(mapGenerator'[e])
    BY <1>6, <2>1
  <2> QED BY <1>1, <2>1, <2>2, <2>3 DEF StillQueued
<1>10. NothingMissed'
  <2> SUFFICES ASSUME NEW c \in Client, ~lost', \A x \in Client \ {c} : lastId'[x] = 0,
                      NEW id \in pushed'
               PROVE  IF id <= lastId'[c] THEN id \in got'[c] ELSE id \in StillQueued'
    BY DEF NothingMissed
  <2>1. CASE id \in pushed
    BY <2>1, <1>1, <1>9 DEF SubscriberInv, SubscribersKnow, NothingMissed
  <2>2. CASE id \notin pushed
    <3>1. id = n /\ g.kind = "queue"
      BY <2>2, <1>1
    <3>2. ~(n <= lastId'[c])
      BY <1>1, <1>2 DEF SubscriberInv, SubscriberTypes
    <3> QED BY <3>1, <3>2, <1>9
  <2> QED BY <2>1, <2>2
<1> QED BY <1>7, <1>8, <1>10 DEF SubscriberInv, SubscribersKnow

\* A response tells its client all it does not know; it may be lost.
LEMMA ResponseKeeps ==
    ASSUME SubscriberInv, NEW c \in Client, ConstructResponse(c)
    PROVE  SubscriberInv'
<1> DEFINE sent == {e \in DOMAIN mapGenerator : Generates(mapGenerator[e], lastId[c])}
           queues == {e \in sent : mapGenerator[e].kind = "queue"}
           ids == UNION {{x.id : x \in ToSet(QueueSent(mapGenerator[e], lastId[c]))} : e \in queues}
<1>1. /\ lastId[c] < nEventId
      /\ mapGenerator' = [e \in DOMAIN mapGenerator |->
                              IF e \in queues
                              THEN [mapGenerator[e] EXCEPT !.q = Remaining(mapGenerator[e].q)]
                              ELSE mapGenerator[e]]
      /\ UNCHANGED <<nEventId, pushed>>
      /\ \/ /\ lastId' = [lastId EXCEPT ![c] = nEventId]
            /\ seen' = [seen EXCEPT ![c] = [e \in Event |->
                            IF e \in sent \ queues THEN mapGenerator[e].status ELSE seen[c][e]]]
            /\ got' = [got EXCEPT ![c] = got[c] \cup ids]
            /\ UNCHANGED lost
         \/ lost' = TRUE /\ UNCHANGED <<lastId, seen, got>>
  BY DEF ConstructResponse
<1>2. /\ nEventId \in Nat /\ lastId[c] \in 0..nEventId
      /\ \A e \in DOMAIN mapGenerator : mapGenerator[e] \in Statuses(nEventId) \cup Queues(nEventId)
      /\ pushed \subseteq 1..nEventId /\ lastId \in [Client -> 0..nEventId]
      /\ DOMAIN mapGenerator \subseteq Event
      /\ seen \in [Client -> [Event -> Data \cup {NoData}]]
      /\ got \in [Client -> SUBSET (1..nEventId)]
      /\ lost \in BOOLEAN /\ nEventId \in 0..MaxEventId
  BY SSEAssumption DEF SubscriberInv, SubscriberTypes
<1>3. \A e \in queues : e \in DOMAIN mapGenerator /\ mapGenerator[e] \in Queues(nEventId)
  BY <1>2 DEF Statuses
<1>4. \A e \in sent \ queues : mapGenerator[e] \in Statuses(nEventId)
  BY <1>2 DEF Queues
<1>5. ASSUME NEW e \in queues
      PROVE  /\ Remaining(mapGenerator[e].q) = <<>>
             /\ {x.id : x \in ToSet(QueueSent(mapGenerator[e], lastId[c]))} \subseteq 1..nEventId
             /\ \A i \in DOMAIN mapGenerator[e].q : mapGenerator[e].q[i].id > lastId[c] =>
                    mapGenerator[e].q[i].id \in {x.id : x \in ToSet(QueueSent(mapGenerator[e], lastId[c]))}
  <2>1. e \in DOMAIN mapGenerator /\ mapGenerator[e] \in Queues(nEventId)
    BY <1>3
  <2>2. SubscriberTypes
    BY DEF SubscriberInv
  <2> QED BY <1>2, <2>1, <2>2, QueueSends
<1>6. ids \subseteq 1..nEventId
  BY <1>5
<1>7. /\ DOMAIN mapGenerator' = DOMAIN mapGenerator
      /\ \A e \in DOMAIN mapGenerator \ queues : mapGenerator'[e] = mapGenerator[e]
      /\ \A e \in queues : mapGenerator'[e] = [mapGenerator[e] EXCEPT !.q = <<>>]
  <2> HIDE DEF queues
  <2> QED BY <1>1, <1>3, <1>5
<1>8. \A e \in queues : mapGenerator'[e] \in Queues(nEventId) /\ mapGenerator'[e].kind = "queue"
  <2> SUFFICES ASSUME NEW e \in queues
               PROVE  mapGenerator'[e] \in Queues(nEventId) /\ mapGenerator'[e].kind = "queue"
    OBVIOUS
  <2>1. mapGenerator[e] \in Queues(nEventId)
    BY <1>3
  <2>2. mapGenerator'[e] = [mapGenerator[e] EXCEPT !.q = <<>>]
    BY <1>7
  <2> HIDE DEF queues
  <2>3. <<>> \in Seq(Entry(nEventId))
    OBVIOUS
  <2> QED BY <2>1, <2>2, <2>3 DEF Queues
<1>9. \A e \in DOMAIN mapGenerator' : mapGenerator'[e] \in Statuses(nEventId) \cup Queues(nEventId)
  BY <1>2, <1>7, <1>8
<1>10. CASE lost' = TRUE /\ UNCHANGED <<lastId, seen, got>>
  <2>1. SubscriberTypes'
    BY <1>1, <1>2, <1>7, <1>9, <1>10 DEF SubscriberTypes
  <2>2. StatusKnown'
    <3> SUFFICES ASSUME NEW d \in Client, NEW e \in DOMAIN mapGenerator',
                        mapGenerator'[e].kind = "status", mapGenerator'[e].status # NoData,
                        mapGenerator'[e].nEventId <= lastId'[d]
                 PROVE  seen'[d][e] = mapGenerator'[e].status
      BY DEF StatusKnown
    <3>1. e \notin queues
      BY <1>8
    <3>2. mapGenerator'[e] = mapGenerator[e] /\ e \in DOMAIN mapGenerator
      BY <1>7, <3>1
    <3> HIDE DEF queues
    <3> QED BY <3>2, <1>10 DEF SubscriberInv, SubscribersKnow, StatusKnown
  <2>3. NothingMissed'
    BY <1>10 DEF NothingMissed
  <2> QED BY <2>1, <2>2, <2>3 DEF SubscriberInv, SubscribersKnow
<1>11. CASE /\ lastId' = [lastId EXCEPT ![c] = nEventId]
            /\ seen' = [seen EXCEPT ![c] = [e \in Event |->
                            IF e \in sent \ queues THEN mapGenerator[e].status ELSE seen[c][e]]]
            /\ got' = [got EXCEPT ![c] = got[c] \cup ids]
            /\ UNCHANGED lost
  <2>1. SubscriberTypes'
    <3>1. [e \in Event |-> IF e \in sent \ queues THEN mapGenerator[e].status ELSE seen[c][e]]
              \in [Event -> Data \cup {NoData}]
      BY <1>2, <1>4 DEF Statuses
    <3>2. seen' \in [Client -> [Event -> Data \cup {NoData}]]
      BY <1>2, <1>11, <3>1
    <3>3. got' \in [Client -> SUBSET (1..nEventId)] /\ lastId' \in [Client -> 0..nEventId]
      BY <1>2, <1>6, <1>11
    <3> QED BY <1>1, <1>2, <1>7, <1>9, <1>11, <3>2, <3>3 DEF SubscriberTypes
  <2>2. StatusKnown'
    <3> SUFFICES ASSUME NEW d \in Client, NEW e \in DOMAIN mapGenerator',
                        mapGenerator'[e].kind = "status", mapGenerator'[e].status # NoData,
                        mapGenerator'[e].nEventId <= lastId'[d]
                 PROVE  seen'[d][e] = mapGenerator'[e].status
      BY DEF StatusKnown
    <3>1. e \notin queues
      BY <1>8
    <3>2. mapGenerator'[e] = mapGenerator[e] /\ e \in DOMAIN mapGenerator /\ e \in Event
      BY <1>2, <1>7, <3>1
    <3>3. CASE d # c
      <4>1. lastId'[d] = lastId[d] /\ seen'[d] = seen[d]
        BY <1>2, <1>11, <3>3
      <4> QED BY <3>2, <4>1 DEF SubscriberInv, SubscribersKnow, StatusKnown
    <3>4. CASE d = c /\ mapGenerator[e].nEventId <= lastId[c]
      <4>1. seen[c][e] = mapGenerator[e].status
        BY <3>2, <3>4 DEF SubscriberInv, SubscribersKnow, StatusKnown
      <4>2. seen'[c][e] = IF e \in sent \ queues THEN mapGenerator[e].status ELSE seen[c][e]
        BY <1>2, <1>11, <3>2
      <4> QED BY <3>2, <3>4, <4>1, <4>2
    <3>5. CASE d = c /\ ~(mapGenerator[e].nEventId <= lastId[c])
      <4>1. mapGenerator[e].kind = "status" /\ mapGenerator[e].nEventId \in Nat
        BY <1>2, <3>2 DEF Statuses, Queues
      <4>2. e \in sent \ queues
        BY <1>2, <3>1, <3>2, <3>5, <4>1 DEF Generates
      <4>3. seen'[c][e] = IF e \in sent \ queues THEN mapGenerator[e].status ELSE seen[c][e]
        BY <1>2, <1>11, <3>2
      <4> QED BY <3>2, <3>5, <4>2, <4>3
    <3> QED BY <3>3, <3>4, <3>5
  <2>3. NothingMissed'
    <3> SUFFICES ASSUME NEW d \in Client, ~lost', \A x \in Client \ {d} : lastId'[x] = 0,
                        NEW id \in pushed'
                 PROVE  IF id <= lastId'[d] THEN id \in got'[d] ELSE id \in StillQueued'
      BY DEF NothingMissed
    <3>1. lastId'[c] = nEventId /\ nEventId # 0
      BY <1>1, <1>2, <1>11
    <3>2. d = c
      BY <3>1
    <3>3. id \in pushed /\ id <= lastId'[c] /\ id \in 1..nEventId
      BY <1>1, <1>2, <3>1
    <3>4. \A x \in Client \ {c} : lastId[x] = 0
      BY <1>2, <1>11, <3>2
    <3>5. IF id <= lastId[c] THEN id \in got[c] ELSE id \in StillQueued
      BY <1>11, <3>3, <3>4 DEF SubscriberInv, SubscribersKnow, NothingMissed
    <3>6. got'[c] = got[c] \cup ids
      BY <1>2, <1>11
    <3>7. CASE id > lastId[c]
      <4>1. PICK e \in DOMAIN mapGenerator : id \in Queued(mapGenerator[e])
        BY <1>2, <3>3, <3>5, <3>7 DEF StillQueued
      <4>2. mapGenerator[e].kind = "queue" /\ mapGenerator[e].q # <<>>
        BY <4>1 DEF Queued
      <4>3. e \in queues
        BY <4>1, <4>2 DEF Generates
      <4>4. PICK i \in DOMAIN mapGenerator[e].q : id = mapGenerator[e].q[i].id
        BY <4>1, <4>2 DEF Queued
      <4>5. id \in {x.id : x \in ToSet(QueueSent(mapGenerator[e], lastId[c]))}
        BY <1>5, <4>3, <4>4, <3>7
      <4>6. id \in ids
        BY <4>3, <4>5
      <4> QED BY <3>2, <3>3, <3>6, <4>6
    <3>8. CASE ~(id > lastId[c])
      <4>1. id \in got[c]
        BY <1>2, <3>3, <3>5, <3>8
      <4> QED BY <3>2, <3>3, <3>6, <4>1
    <3> QED BY <3>7, <3>8
  <2> QED BY <2>1, <2>2, <2>3 DEF SubscriberInv, SubscribersKnow
<1> HIDE DEF sent, queues, ids
<1> QED BY <1>1, <1>10, <1>11

LEMMA SubscriberNext == SubscriberInv /\ [SSENext]_sseVars => SubscriberInv'
<1> SUFFICES ASSUME SubscriberInv, [SSENext]_sseVars PROVE SubscriberInv'
  OBVIOUS
<1>1. CASE UNCHANGED sseVars
  BY <1>1 DEF sseVars, SubscriberInv, SubscriberTypes, SubscribersKnow, StatusKnown, NothingMissed, StillQueued
<1>2. CASE SSENext
  BY <1>2, RegisterKeeps, UnregisterKeeps, ResetKeeps, UpdateKeeps, ResponseKeeps DEF SSENext
<1> QED BY <1>1, <1>2

\* Subscribers know in every state, for every number of clients, events and ids.
THEOREM SubscribersSafe == SSESpec => []SubscribersKnow
<1>1. SubscriberInv => SubscribersKnow
  BY DEF SubscriberInv
<1> QED BY <1>1, SubscriberInit, SubscriberNext, PTL DEF SSESpec

\* And the generators, the ids and what the clients know have their types.
THEOREM SubscribersTyped == SSESpec => []SSETypeOK
<1>1. ASSUME SubscriberTypes PROVE SSETypeOK
  <2>1. nEventId \in 0..MaxEventId /\ MaxEventId \in Nat
    BY <1>1, SSEAssumption DEF SubscriberTypes
  <2>2. 0..nEventId \subseteq 0..MaxEventId /\ 1..nEventId \subseteq 1..MaxEventId
    BY <2>1
  <2>3. lastId \in [Client -> 0..MaxEventId] /\ got \in [Client -> SUBSET (1..MaxEventId)]
    BY <1>1, <2>2 DEF SubscriberTypes
  <2> QED BY <1>1, <2>2, <2>3 DEF SubscriberTypes, SSETypeOK
<1>2. SubscriberInv => SSETypeOK
  BY <1>1 DEF SubscriberInv
<1> QED BY <1>2, SubscriberInit, SubscriberNext, PTL DEF SSESpec
-------------------------------------------------------------------------------
\* What a sequence of differences is.
LEMMA DeltasAre ==
    ASSUME NEW s \in Seq(Delta)
    PROVE  /\ Len(s) \in Nat /\ DOMAIN s = 1..Len(s)
           /\ \A i \in 1..Len(s) : s[i] \in Delta /\ s[i] \in Int
<1>1. \A i \in 1..Len(s) : s[i] \in Delta
  OBVIOUS
<1>2. Delta \subseteq Int
  BY NetTimeAssumption
<1>3. Len(s) \in Nat /\ DOMAIN s = 1..Len(s)
  OBVIOUS
<1>4. \A i \in 1..Len(s) : s[i] \in Int
  BY <1>1, <1>2
<1> QED BY <1>1, <1>3, <1>4

Sorted(s) == \A i, j \in DOMAIN s : i < j => s[i] <= s[j]

Samples == [delta : Delta, update : Nat]
Of(m, d) == {a \in DOMAIN m : m[a].delta = d}

\* A sorted sequence that holds each difference as often as the addresses do.
Agree(s, m) ==
    /\ s \in Seq(Delta) /\ Sorted(s)
    /\ IsFiniteSet(DOMAIN m) /\ DOMAIN m \subseteq Address
    /\ \A a \in DOMAIN m : m[a] \in Samples
    /\ \A d \in Delta : Times(s, d) = Cardinality(Of(m, d))
    /\ Len(s) = Cardinality(DOMAIN m)

TimeInv ==
    /\ clock \in Nat
    /\ Agree(vecDelta, mapNode) /\ Len(vecDelta) <= nMaxCount
    /\ nTimeOffset < MaxAdjustment /\ nTimeOffset > -MaxAdjustment

\* Before the lower bound all are less, from it on none is.
LEMMA LowerBoundIs ==
    ASSUME NEW s \in Seq(Delta), Sorted(s), NEW d \in Delta
    PROVE  LET k == LowerBound(s, d)
           IN  /\ k \in 1..(Len(s) + 1)
               /\ \A i \in DOMAIN s : i < k <=> s[i] < d
<1> DEFINE n == Len(s)
           I == {i \in 1..(n + 1) : i \in DOMAIN s => s[i] >= d}
<1>1. /\ n \in Nat /\ DOMAIN s = 1..n /\ d \in Int
      /\ \A i \in 1..n : s[i] \in Int
  BY DeltasAre, NetTimeAssumption
<1> HIDE DEF n
<1>2. n + 1 \in I /\ I \in SUBSET Nat /\ I # {}
  BY <1>1
<1>3. PICK k \in I : \A i \in I : k <= i
  BY <1>2, LeastOf
<1>4. k \in 1..(n + 1)
  OBVIOUS
<1>5. \A i \in 1..n : i < k <=> s[i] < d
  <2>1. ASSUME NEW i \in 1..n, i < k
        PROVE  s[i] < d
    <3>1. i \notin I
      BY <1>1, <1>3, <1>4, <2>1
    <3> QED BY <1>1, <3>1
  <2>2. ASSUME NEW i \in 1..n, ~(i < k)
        PROVE  ~(s[i] < d)
    <3>1. k \in 1..n /\ s[k] >= d
      BY <1>1, <1>4, <2>2
    <3>2. s[k] <= s[i]
      <4>1. k < i \/ k = i
        BY <1>1, <1>4, <2>2
      <4> QED BY <1>1, <3>1, <4>1 DEF Sorted
    <3> QED BY <1>1, <3>1, <3>2
  <2> QED BY <2>1, <2>2
<1>6. {i \in DOMAIN s : s[i] < d} = 1..(k - 1)
  BY <1>1, <1>4, <1>5
<1>7. Cardinality(1..(k - 1)) = k - 1
  <2>1. 1 \in Int /\ k - 1 \in Int
    BY <1>1, <1>4
  <2>2. Cardinality(1..(k - 1)) = IF 1 > k - 1 THEN 0 ELSE (k - 1) - 1 + 1
    BY <2>1, FS_Interval
  <2> QED BY <1>1, <1>4, <2>2
<1>8. LowerBound(s, d) = k
  <2>1. LowerBound(s, d) = (k - 1) + 1
    BY <1>6, <1>7 DEF LowerBound
  <2> QED BY <1>1, <1>4, <2>1
<1> QED BY <1>1, <1>4, <1>5, <1>8 DEF n

\* t is s with one more element, at k.
Inserted(s, t, k) ==
    /\ s \in Seq(Delta) /\ t \in Seq(Delta) /\ k \in 1..Len(t) /\ Len(t) = Len(s) + 1
    /\ \A i \in 1..Len(s) : s[i] = IF i < k THEN t[i] ELSE t[i + 1]

\* Then t holds that element once more, and all others as often.
LEMMA OneMore ==
    ASSUME NEW s, NEW t, NEW k, Inserted(s, t, k)
    PROVE  \A x : Times(t, x) = IF t[k] = x THEN Times(s, x) + 1 ELSE Times(s, x)
<1>0. /\ s \in Seq(Delta) /\ t \in Seq(Delta) /\ k \in 1..Len(t) /\ Len(t) = Len(s) + 1
      /\ \A i \in 1..Len(s) : s[i] = IF i < k THEN t[i] ELSE t[i + 1]
  BY DEF Inserted
<1> SUFFICES ASSUME NEW x
             PROVE  Times(t, x) = IF t[k] = x THEN Times(s, x) + 1 ELSE Times(s, x)
  OBVIOUS
<1> DEFINE A == {i \in DOMAIN s : s[i] = x}
           B == {i \in DOMAIN t : t[i] = x} \ {k}
           f == [i \in A |-> IF i < k THEN i ELSE i + 1]
<1>1. /\ Len(s) \in Nat /\ DOMAIN s = 1..Len(s) /\ DOMAIN t = 1..(Len(s) + 1)
      /\ k \in 1..(Len(s) + 1)
  BY <1>0
<1>2. f \in [A -> B]
  BY <1>0, <1>1
<1>3. \A i, j \in A : f[i] = f[j] => i = j
  BY <1>0, <1>1
<1>4. \A j \in B : \E i \in A : f[i] = j
  <2>1. TAKE j \in B
  <2>4. j \in 1..(Len(s) + 1) /\ j # k /\ t[j] = x
    BY <1>1
  <2>2. CASE j < k
    <3>1. j \in 1..Len(s) /\ s[j] = x
      BY <1>0, <1>1, <2>2, <2>4
    <3> QED BY <1>1, <2>2, <3>1
  <2>3. CASE j > k
    <3>1. j - 1 \in 1..Len(s) /\ ~(j - 1 < k) /\ (j - 1) + 1 = j
      BY <1>1, <2>3, <2>4
    <3>2. j - 1 \in A
      BY <1>0, <1>1, <2>4, <3>1
    <3> QED BY <3>1, <3>2
  <2>5. j < k \/ j > k
    BY <1>1, <2>4
  <2> QED BY <2>2, <2>3, <2>5
<1>5. ExistsBijection(A, B)
  <2> HIDE DEF A, B, f
  <2>1. f \in Bijection(A, B)
    BY <1>2, <1>3, <1>4 DEF Bijection, Injection, IsInjective, Surjection
  <2> QED BY <2>1 DEF ExistsBijection
<1> HIDE DEF f
<1>6. IsFiniteSet(A) /\ IsFiniteSet(DOMAIN t)
  <2>1. IsFiniteSet(1..Len(s)) /\ IsFiniteSet(1..(Len(s) + 1))
    BY <1>1, FS_Interval
  <2> QED BY <1>1, <2>1, FS_Subset
<1>7. Cardinality(B) = Cardinality(A) /\ IsFiniteSet(B) /\ Cardinality(A) \in Nat
  BY <1>5, <1>6, FS_Bijection, FS_CardinalityType
<1>8. CASE t[k] = x
  <2>1. {i \in DOMAIN t : t[i] = x} = B \cup {k} /\ k \notin B
    BY <1>1, <1>8
  <2> HIDE DEF A, B
  <2>2. Cardinality(B \cup {k}) = Cardinality(B) + 1
    BY <1>7, <2>1, FS_AddElement
  <2> QED BY <1>7, <1>8, <2>1, <2>2 DEF Times, A
<1>9. CASE t[k] # x
  <2>1. {i \in DOMAIN t : t[i] = x} = B
    BY <1>9
  <2> QED BY <1>7, <1>9, <2>1 DEF Times
<1> QED BY <1>8, <1>9

\* Erasing a difference that is there.
LEMMA EraseIs ==
    ASSUME NEW s \in Seq(Delta), Sorted(s), NEW j \in DOMAIN s, NEW d, d = s[j],
           NEW t, t = EraseDelta(s, d)
    PROVE  /\ t \in Seq(Delta) /\ Sorted(t) /\ Len(s) = Len(t) + 1
           /\ \A x : Times(s, x) = IF x = d THEN Times(t, x) + 1 ELSE Times(t, x)
<1> DEFINE k == LowerBound(s, d)
<1>1. /\ Len(s) \in Nat /\ DOMAIN s = 1..Len(s) /\ d \in Delta /\ d \in Int
      /\ \A i \in 1..Len(s) : s[i] \in Delta /\ s[i] \in Int
  BY DeltasAre, NetTimeAssumption
<1>2. k \in 1..(Len(s) + 1) /\ \A i \in DOMAIN s : i < k <=> s[i] < d
  BY <1>1, LowerBoundIs
<1>3. t = RemoveAt(s, k)
  BY DEF EraseDelta
<1> HIDE DEF k
<1>4. k <= j
  BY <1>1, <1>2
<1>5. k \in 1..Len(s) /\ s[k] = d
  <2>1. k \in 1..Len(s)
    BY <1>1, <1>2, <1>4
  <2>2. s[k] <= s[j]
    BY <1>1, <1>4, <2>1 DEF Sorted
  <2>3. ~(s[k] < d)
    BY <1>1, <1>2, <2>1
  <2> QED BY <1>1, <2>1, <2>2, <2>3
<1>6. /\ t \in Seq(Delta) /\ Len(t) = Len(s) - 1
      /\ \A i \in 1..(Len(s) - 1) : t[i] = IF i < k THEN s[i] ELSE s[i + 1]
  <2> DEFINE a == SubSeq(s, 1, k - 1)
             b == SubSeq(s, k + 1, Len(s))
  <2>1. a \in Seq(Delta) /\ Len(a) = k - 1 /\ \A i \in 1..(k - 1) : a[i] = s[i]
    <3>1. \A i \in 1..(k - 1) : s[i] \in Delta
      BY <1>1, <1>5
    <3> QED BY <1>1, <1>5, <3>1, SubSeqProperties
  <2>2. b \in Seq(Delta) /\ Len(b) = Len(s) - k /\ \A i \in 1..(Len(s) - k) : b[i] = s[i + k]
    <3>1. \A i \in (k + 1)..Len(s) : s[i] \in Delta
      BY <1>1, <1>5
    <3>2. k + 1 \in Int /\ Len(s) \in Int
      BY <1>1, <1>5
    <3>3. /\ b \in Seq(Delta) /\ Len(b) = IF k + 1 <= Len(s) THEN Len(s) - (k + 1) + 1 ELSE 0
          /\ \A i \in 1..(Len(s) - (k + 1) + 1) : b[i] = s[(k + 1) + i - 1]
      BY <3>1, <3>2, SubSeqProperties, SMTT(30)
    <3> HIDE DEF b
    <3>4. \A n \in Nat : \A l \in 1..n : /\ n - (l + 1) + 1 = n - l
                                         /\ ~(l + 1 <= n) => n - l = 0
      OBVIOUS
    <3>5. Len(s) - (k + 1) + 1 = Len(s) - k /\ (~(k + 1 <= Len(s)) => Len(s) - k = 0)
      BY <1>1, <1>5, <3>4
    <3>6. Len(s) - (k + 1) + 1 = Len(s) - k /\ Len(b) = Len(s) - k
      BY <3>3, <3>5
    <3>7. ASSUME NEW i \in 1..(Len(s) - k)
          PROVE  b[i] = s[i + k]
      <4>1. (k + 1) + i - 1 = i + k
        BY <1>1, <1>5
      <4> QED BY <3>3, <3>6, <4>1
    <3> QED BY <3>3, <3>6, <3>7
  <2>3. t = a \o b
    BY <1>3 DEF RemoveAt
  <2> HIDE DEF a, b
  <2>4. /\ t \in Seq(Delta) /\ Len(t) = Len(a) + Len(b)
        /\ \A i \in 1..(Len(a) + Len(b)) : t[i] = IF i <= Len(a) THEN a[i] ELSE b[i - Len(a)]
    <3>1. a \in Seq(Delta) /\ b \in Seq(Delta)
      BY <2>1, <2>2
    <3> QED BY <2>3, <3>1, ConcatProperties
  <2>5. ASSUME NEW i \in 1..(Len(s) - 1)
        PROVE  t[i] = IF i < k THEN s[i] ELSE s[i + 1]
    <3>1. CASE i < k
      <4>1. i \in 1..(k - 1) /\ i <= Len(a) /\ i \in 1..(Len(a) + Len(b))
        BY <1>1, <1>5, <2>1, <2>2, <3>1
      <4> QED BY <2>1, <2>4, <3>1, <4>1
    <3>2. CASE ~(i < k)
      <4>1. i - (k - 1) \in 1..(Len(s) - k) /\ (i - (k - 1)) + k = i + 1
            /\ ~(i <= k - 1) /\ i \in 1..(Len(a) + Len(b))
        BY <1>1, <1>5, <2>1, <2>2, <3>2
      <4> QED BY <2>1, <2>2, <2>4, <3>2, <4>1
    <3> QED BY <3>1, <3>2
  <2> QED BY <1>1, <1>5, <2>1, <2>2, <2>4, <2>5
<1>7. Sorted(t)
  <2> SUFFICES ASSUME NEW i \in DOMAIN t, NEW l \in DOMAIN t, i < l PROVE t[i] <= t[l]
    BY DEF Sorted
  <2> DEFINE from(n) == IF n < k THEN n ELSE n + 1
  <2>1. DOMAIN t = 1..(Len(s) - 1)
    BY <1>6, DeltasAre
  <2>2. from(i) \in 1..Len(s) /\ from(l) \in 1..Len(s) /\ from(i) < from(l)
    BY <1>1, <1>5, <2>1, SMTT(30)
  <2>3. t[i] = s[from(i)] /\ t[l] = s[from(l)]
    BY <1>6, <2>1
  <2> HIDE DEF from
  <2> QED BY <1>1, <2>2, <2>3 DEF Sorted
<1>8. Len(s) = Len(t) + 1 /\ Len(t) = Len(s) - 1 /\ Len(t) \in Nat
  <2>1. t \in Seq(Delta) /\ Len(t) = Len(s) - 1
    BY <1>6
  <2>2. Len(t) \in Nat
    BY ONLY <2>1, LenProperties
  <2>3. Len(s) \in Nat /\ Len(t) = Len(s) - 1
    BY <1>1, <2>1
  <2>4. \A x, y \in Nat : x = y - 1 => y = x + 1
    OBVIOUS
  <2> QED BY <2>2, <2>3, <2>4
<1>9. \A x : Times(s, x) = IF x = d THEN Times(t, x) + 1 ELSE Times(t, x)
  <2>1. t \in Seq(Delta) /\ \A i \in 1..Len(t) : t[i] = IF i < k THEN s[i] ELSE s[i + 1]
    BY <1>6, <1>8
  <2>2. s \in Seq(Delta) /\ k \in 1..Len(s) /\ Len(s) = Len(t) + 1
    BY <1>5, <1>8
  <2>3. \A x : Times(s, x) = IF s[k] = x THEN Times(t, x) + 1 ELSE Times(t, x)
    <3>1. Inserted(t, s, k)
      BY <2>1, <2>2 DEF Inserted
    <3> QED BY ONLY <3>1, OneMore
  <2> QED BY <1>5, <2>3
<1> QED BY <1>6, <1>7, <1>8, <1>9

\* Inserting a difference.
LEMMA InsertIs ==
    ASSUME NEW s, s \in Seq(Delta), Sorted(s), NEW d, d \in Delta
    PROVE  LET t == InsertDelta(s, d)
           IN  /\ t \in Seq(Delta) /\ Sorted(t) /\ Len(t) = Len(s) + 1
               /\ \A x : Times(t, x) = IF x = d THEN Times(s, x) + 1 ELSE Times(s, x)
<1> DEFINE t == InsertDelta(s, d)
<1> DEFINE k == LowerBound(s, d)
<1>1. /\ Len(s) \in Nat /\ DOMAIN s = 1..Len(s) /\ d \in Int
      /\ \A i \in 1..Len(s) : s[i] \in Delta /\ s[i] \in Int
  BY DeltasAre, NetTimeAssumption
<1>2. k \in 1..(Len(s) + 1) /\ \A i \in DOMAIN s : i < k <=> s[i] < d
  BY LowerBoundIs
<1>3. t = InsertAt(s, k, d)
  BY DEF InsertDelta
<1> HIDE DEF k, t
<1>4. /\ t \in Seq(Delta) /\ Len(t) = Len(s) + 1 /\ t[k] = d
      /\ \A i \in 1..Len(s) : s[i] = IF i < k THEN t[i] ELSE t[i + 1]
  <2> DEFINE a == SubSeq(s, 1, k - 1)
             b == SubSeq(s, k, Len(s))
             c == a \o <<d>>
  <2>1. a \in Seq(Delta) /\ Len(a) = k - 1 /\ \A i \in 1..(k - 1) : a[i] = s[i]
    <3>1. \A i \in 1..(k - 1) : s[i] \in Delta
      BY <1>1, <1>2
    <3> QED BY <1>1, <1>2, <3>1, SubSeqProperties
  <2>2. b \in Seq(Delta) /\ Len(b) = Len(s) - k + 1 /\ \A i \in 1..(Len(s) - k + 1) : b[i] = s[k + i - 1]
    <3>1. \A i \in k..Len(s) : s[i] \in Delta
      BY <1>1, <1>2
    <3> QED BY <1>1, <1>2, <3>1, SubSeqProperties
  <2>3. t = c \o b
    BY <1>3 DEF InsertAt
  <2>4. /\ c \in Seq(Delta) /\ Len(c) = k /\ c[k] = d
        /\ \A i \in 1..(k - 1) : c[i] = s[i]
    <3> HIDE DEF a
    <3>1. <<d>> \in Seq(Delta) /\ Len(<<d>>) = 1 /\ <<d>>[1] = d
      OBVIOUS
    <3>2. /\ c \in Seq(Delta) /\ Len(c) = Len(a) + 1
          /\ \A i \in 1..(Len(a) + 1) : c[i] = IF i <= Len(a) THEN a[i] ELSE <<d>>[i - Len(a)]
      BY <2>1, <3>1, ConcatProperties
    <3> HIDE DEF c
    <3>3. k \in 1..(Len(a) + 1) /\ ~(k <= Len(a)) /\ k - Len(a) = 1
      BY <1>1, <1>2, <2>1
    <3>4. c[k] = d
      BY <3>1, <3>2, <3>3
    <3>5. ASSUME NEW i \in 1..(k - 1)
          PROVE  c[i] = s[i]
      <4>1. i \in 1..(Len(a) + 1) /\ i <= Len(a)
        BY <1>1, <1>2, <2>1
      <4> QED BY <2>1, <3>2, <4>1
    <3> QED BY <1>1, <1>2, <2>1, <3>2, <3>4, <3>5
  <2> HIDE DEF a, b, c
  <2>5. /\ t \in Seq(Delta) /\ Len(t) = Len(c) + Len(b)
        /\ \A i \in 1..(Len(c) + Len(b)) : t[i] = IF i <= Len(c) THEN c[i] ELSE b[i - Len(c)]
    <3>1. c \in Seq(Delta) /\ b \in Seq(Delta)
      BY <2>2, <2>4
    <3> QED BY <2>3, <3>1, ConcatProperties
  <2>6. ASSUME NEW i \in 1..Len(s)
        PROVE  s[i] = IF i < k THEN t[i] ELSE t[i + 1]
    <3>1. CASE i < k
      <4>1. i \in 1..(k - 1) /\ i <= Len(c) /\ i \in 1..(Len(c) + Len(b))
        BY <1>1, <1>2, <2>2, <2>4, <3>1
      <4> QED BY <2>4, <2>5, <3>1, <4>1
    <3>2. CASE ~(i < k)
      <4>1. /\ i + 1 \in 1..(Len(c) + Len(b)) /\ ~(i + 1 <= Len(c))
            /\ (i + 1) - Len(c) \in 1..(Len(s) - k + 1) /\ k + ((i + 1) - Len(c)) - 1 = i
        BY <1>1, <1>2, <2>2, <2>4, <3>2
      <4> QED BY <2>2, <2>5, <3>2, <4>1
    <3> QED BY <3>1, <3>2
  <2>7. t[k] = d
    <3>1. k \in 1..(Len(c) + Len(b)) /\ k <= Len(c)
      BY <1>1, <1>2, <2>2, <2>4
    <3> QED BY <2>4, <2>5, <3>1
  <2> QED BY <1>1, <1>2, <2>2, <2>4, <2>5, <2>6, <2>7
<1>5. Len(t) \in Nat /\ DOMAIN t = 1..(Len(s) + 1) /\ k \in 1..Len(t)
  BY <1>1, <1>2, <1>4
<1>6. ASSUME NEW i \in 1..(Len(s) + 1), i < k
      PROVE  t[i] = s[i] /\ i \in 1..Len(s)
  BY <1>1, <1>2, <1>4, <1>6
<1>7. ASSUME NEW i \in 1..(Len(s) + 1), i > k
      PROVE  t[i] = s[i - 1] /\ i - 1 \in 1..Len(s) /\ ~(i - 1 < k)
  <2>1. i - 1 \in 1..Len(s) /\ ~(i - 1 < k) /\ (i - 1) + 1 = i
    BY <1>1, <1>2, <1>7
  <2> QED BY <1>4, <2>1
<1>8. Sorted(t)
  <2> SUFFICES ASSUME NEW i \in 1..(Len(s) + 1), NEW l \in 1..(Len(s) + 1), i < l
               PROVE  t[i] <= t[l]
    BY <1>5 DEF Sorted
  <2>1. CASE l < k
    <3>1. i < k
      BY <1>1, <1>2, <2>1
    <3> QED BY <1>1, <1>6, <2>1, <3>1 DEF Sorted
  <2>2. CASE l = k
    <3>1. t[i] = s[i] /\ i \in 1..Len(s) /\ s[i] < d
      BY <1>1, <1>2, <1>6, <2>2
    <3> QED BY <1>1, <1>4, <2>2, <3>1
  <2>3. CASE l > k /\ i < k
    <3>1. t[i] = s[i] /\ i \in 1..Len(s) /\ s[i] < d
      BY <1>1, <1>2, <1>6, <2>3
    <3>2. t[l] = s[l - 1] /\ l - 1 \in 1..Len(s) /\ ~(s[l - 1] < d)
      BY <1>1, <1>2, <1>7, <2>3
    <3> QED BY <1>1, <3>1, <3>2
  <2>4. CASE l > k /\ i = k
    <3>1. t[l] = s[l - 1] /\ l - 1 \in 1..Len(s) /\ ~(s[l - 1] < d)
      BY <1>1, <1>2, <1>7, <2>4
    <3> QED BY <1>1, <1>4, <2>4, <3>1
  <2>5. CASE l > k /\ i > k
    <3>1. t[l] = s[l - 1] /\ l - 1 \in 1..Len(s) /\ t[i] = s[i - 1] /\ i - 1 \in 1..Len(s)
      BY <1>7, <2>5
    <3>2. i - 1 < l - 1
      OBVIOUS
    <3> QED BY <1>1, <3>1, <3>2 DEF Sorted
  <2>6. k \in Int /\ i \in Int /\ l \in Int
    BY <1>2
  <2> QED BY <2>1, <2>2, <2>3, <2>4, <2>5, <2>6
<1>9. \A x : Times(t, x) = IF x = d THEN Times(s, x) + 1 ELSE Times(s, x)
  <2>1. /\ t \in Seq(Delta) /\ k \in 1..Len(t) /\ Len(t) = Len(s) + 1
        /\ \A i \in 1..Len(s) : s[i] = IF i < k THEN t[i] ELSE t[i + 1]
    BY <1>4, <1>5
  <2>2. \A x : Times(t, x) = IF t[k] = x THEN Times(s, x) + 1 ELSE Times(s, x)
    <3>1. Inserted(s, t, k)
      BY <2>1 DEF Inserted
    <3> QED BY ONLY <3>1, OneMore
  <2> QED BY <1>4, <2>2
<1> QED BY <1>4, <1>8, <1>9 DEF t

\* An address that is forgotten, and its difference with it.
LEMMA AgreeWithout ==
    ASSUME NEW s, NEW m, Agree(s, m), NEW a \in DOMAIN m
    PROVE  Agree(EraseDelta(s, m[a].delta), Without(m, a))
<1> DEFINE d == m[a].delta
           t == EraseDelta(s, d)
           w == Without(m, a)
<1>1. d \in Delta /\ s \in Seq(Delta) /\ Sorted(s) /\ IsFiniteSet(DOMAIN m)
  BY DEF Agree, Samples
<1>2. DOMAIN w = DOMAIN m \ {a} /\ \A b \in DOMAIN m \ {a} : w[b] = m[b]
  BY DEF Without
<1>3. \A x : IsFiniteSet(Of(m, x)) /\ Cardinality(Of(m, x)) \in Nat
  BY <1>1, FS_Subset, FS_CardinalityType DEF Of
<1>4. a \in Of(m, d)
  BY DEF Of
<1>5. \E j \in DOMAIN s : d = s[j]
  <2>1. Cardinality(Of(m, d)) # 0
    BY <1>3, <1>4, FS_EmptySet
  <2>2. Times(s, d) # 0
    BY <1>1, <2>1 DEF Agree
  <2>3. {i \in DOMAIN s : s[i] = d} # {}
    BY <2>2, FS_EmptySet DEF Times
  <2> QED BY <2>3
<1> HIDE DEF d, t, w
<1>6. /\ t \in Seq(Delta) /\ Sorted(t) /\ Len(s) = Len(t) + 1
      /\ \A x : Times(s, x) = IF x = d THEN Times(t, x) + 1 ELSE Times(t, x)
  BY <1>1, <1>5, EraseIs DEF t
<1>7. IsFiniteSet(DOMAIN w) /\ Cardinality(DOMAIN w) = Cardinality(DOMAIN m) - 1
  BY <1>1, <1>2, FS_RemoveElement
<1>8. Len(t) \in Nat /\ Len(t) = Cardinality(DOMAIN w)
  BY <1>6, <1>7 DEF Agree
<1>9. ASSUME NEW x \in Delta
      PROVE  Times(t, x) = Cardinality(Of(w, x))
  <2>1. Times(t, x) \in Nat
    <3>1. IsFiniteSet(DOMAIN t)
      BY <1>6, FS_Interval
    <3>2. IsFiniteSet({i \in DOMAIN t : t[i] = x})
      BY <3>1, FS_Subset
    <3> QED BY <3>2, FS_CardinalityType DEF Times
  <2>2. Of(w, x) = Of(m, x) \ {a}
    BY <1>2 DEF Of
  <2>3. Cardinality(Of(w, x)) = IF a \in Of(m, x) THEN Cardinality(Of(m, x)) - 1
                                ELSE Cardinality(Of(m, x))
    BY <1>3, <2>2, FS_RemoveElement
  <2>4. a \in Of(m, x) <=> x = d
    BY DEF Of, d
  <2>5. Times(s, x) = Cardinality(Of(m, x))
    BY DEF Agree
  <2> QED BY <1>3, <1>6, <2>1, <2>3, <2>4, <2>5
<1>10. DOMAIN w \subseteq Address /\ \A b \in DOMAIN w : w[b] \in Samples
  BY <1>2 DEF Agree
<1> QED BY <1>6, <1>7, <1>8, <1>9, <1>10 DEF Agree, d, t, w

\* An address that is new, and its difference with it.
LEMMA AgreeWith ==
    ASSUME NEW s, NEW m, Agree(s, m), NEW a \in Address, NEW d \in Delta, a \notin DOMAIN m,
           clock \in Nat
    PROVE  Agree(InsertDelta(s, d), With(m, a, d))
<1> DEFINE t == InsertDelta(s, d)
           w == With(m, a, d)
<1>1. s \in Seq(Delta) /\ Sorted(s) /\ IsFiniteSet(DOMAIN m) /\ Len(s) = Cardinality(DOMAIN m)
  BY DEF Agree
<1>2. /\ DOMAIN w = DOMAIN m \cup {a} /\ w[a] = [delta |-> d, update |-> clock]
      /\ \A b \in DOMAIN m : w[b] = m[b]
  BY DEF With
<1> HIDE DEF t, w
<1>3. /\ t \in Seq(Delta) /\ Sorted(t) /\ Len(t) = Len(s) + 1
      /\ \A x : Times(t, x) = IF x = d THEN Times(s, x) + 1 ELSE Times(s, x)
  BY <1>1, InsertIs DEF t
<1>4. IsFiniteSet(DOMAIN w) /\ Cardinality(DOMAIN w) = Cardinality(DOMAIN m) + 1
  BY <1>1, <1>2, FS_AddElement
<1>5. ASSUME NEW x \in Delta
      PROVE  Times(t, x) = Cardinality(Of(w, x))
  <2>1. IsFiniteSet(Of(m, x)) /\ a \notin Of(m, x)
    BY <1>1, FS_Subset DEF Of
  <2>2. Of(w, x) = IF x = d THEN Of(m, x) \cup {a} ELSE Of(m, x)
    BY <1>2 DEF Of
  <2>3. Cardinality(Of(m, x) \cup {a}) = Cardinality(Of(m, x)) + 1
    BY <2>1, FS_AddElement
  <2>4. Times(s, x) = Cardinality(Of(m, x))
    BY DEF Agree
  <2> QED BY <1>3, <2>2, <2>3, <2>4
<1>6. DOMAIN w \subseteq Address /\ \A b \in DOMAIN w : w[b] \in Samples
  BY <1>2 DEF Agree, Samples
<1>7. Len(t) = Cardinality(DOMAIN w)
  BY <1>1, <1>3, <1>4
<1> QED BY <1>3, <1>4, <1>5, <1>6, <1>7 DEF Agree, t, w

\* Of the addresses there is an oldest.
LEMMA OldestIs ==
    ASSUME NEW m, DOMAIN m \subseteq Address, DOMAIN m # {}, \A a \in DOMAIN m : m[a] \in Samples
    PROVE  Oldest(m) \in DOMAIN m
<1> DEFINE U == {m[a].update : a \in DOMAIN m}
<1>1. U \in SUBSET Nat /\ U # {} /\ \A a \in DOMAIN m : a \in Nat /\ m[a].update \in Nat
  BY NetTimeAssumption, ZenonT(60) DEF Samples
<1>2. PICK u \in U : \A v \in U : u <= v
  BY <1>1, LeastOf
<1> DEFINE A == {a \in DOMAIN m : m[a].update = u}
<1>3. A \in SUBSET Nat /\ A # {}
  BY <1>1
<1>4. PICK a \in A : \A b \in A : a <= b
  BY <1>3, LeastOf
<1>5. ASSUME NEW b \in DOMAIN m \ {a}
      PROVE  m[a].update < m[b].update \/ (m[a].update = m[b].update /\ a < b)
  <2>1. u <= m[b].update /\ m[a].update = u
    BY <1>2
  <2>2. CASE m[b].update = u
    BY <1>1, <1>4, <2>1, <2>2
  <2>3. CASE m[b].update # u
    BY <1>1, <2>1, <2>3
  <2> QED BY <2>2, <2>3
<1> QED BY <1>5 DEF Oldest

\* A sample of an address, known or new.
LEMMA SampledAgrees ==
    ASSUME TimeInv, NEW a \in Address, NEW d \in Delta
    PROVE  Agree(Sampled(a, d), With(mapNode, a, d))
<1>1. CASE ~Known(a)
  BY <1>1, AgreeWith DEF TimeInv, Sampled, Known
<1>2. CASE Known(a)
  <2> DEFINE s == EraseDelta(vecDelta, mapNode[a].delta)
             m == Without(mapNode, a)
  <2>1. Agree(s, m) /\ a \notin DOMAIN m
    BY <1>2, AgreeWithout DEF TimeInv, Known, Without
  <2>2. With(m, a, d) = With(mapNode, a, d)
    <3>1. DOMAIN m \cup {a} = DOMAIN mapNode \cup {a}
      BY DEF Without
    <3>2. \A b \in DOMAIN mapNode \cup {a} : b # a => m[b] = mapNode[b]
      BY DEF Without
    <3> HIDE DEF m
    <3> QED BY <3>1, <3>2 DEF With
  <2>3. Sampled(a, d) = InsertDelta(s, d)
    BY <1>2 DEF Sampled
  <2> HIDE DEF s, m
  <2>4. Agree(InsertDelta(s, d), With(m, a, d))
    BY <2>1, AgreeWith DEF TimeInv
  <2> QED BY <2>2, <2>3, <2>4
<1> QED BY <1>1, <1>2

LEMMA AddNewKeeps ==
    ASSUME TimeInv, NEW a \in Address, NEW d \in Delta, AddNew(a, d)
    PROVE  TimeInv'
<1> DEFINE v == Sampled(a, d)
           m == With(mapNode, a, d)
           full == Len(v) > nMaxCount
           kept == IF full THEN EraseDelta(v, m[Oldest(m)].delta) ELSE v
           median == GetMedian(kept)
<1>1. /\ vecDelta' = kept /\ mapNode' = IF full THEN Without(m, Oldest(m)) ELSE m
      /\ nTimeOffset' = IF Len(kept) <= Enough THEN nTimeOffset
                        ELSE IF median < MaxAdjustment /\ median > -MaxAdjustment THEN median ELSE 0
      /\ clock' = clock
  BY DEF AddNew
<1>2. nTimeOffset' < MaxAdjustment /\ nTimeOffset' > -MaxAdjustment
  <2> HIDE DEF median, kept
  <2> QED BY <1>1, NetTimeAssumption DEF TimeInv
<1>3. Agree(v, m)
  BY SampledAgrees
<1>4. Len(v) <= nMaxCount + 1
  <2>1. Agree(vecDelta, mapNode) /\ Len(vecDelta) <= nMaxCount /\ nMaxCount \in Nat
    BY NetTimeAssumption DEF TimeInv
  <2>2. /\ IsFiniteSet(DOMAIN mapNode) /\ Len(vecDelta) = Cardinality(DOMAIN mapNode)
        /\ Len(v) = Cardinality(DOMAIN m) /\ Cardinality(DOMAIN mapNode) \in Nat
    BY <1>3, <2>1, FS_CardinalityType DEF Agree
  <2>3. DOMAIN m = DOMAIN mapNode \cup {a}
    BY DEF With
  <2>4. Cardinality(DOMAIN m) <= Cardinality(DOMAIN mapNode) + 1
    <3>1. Cardinality(DOMAIN mapNode \cup {a}) =
             IF a \in DOMAIN mapNode THEN Cardinality(DOMAIN mapNode) ELSE Cardinality(DOMAIN mapNode) + 1
      BY <2>2, FS_AddElement
    <3> HIDE DEF v, m
    <3> QED BY <2>2, <2>3, <3>1
  <2> HIDE DEF v, m
  <2> QED BY <2>1, <2>2, <2>4
<1>5. a \in DOMAIN m
  BY DEF With
<1> HIDE DEF v, m
<1>6. CASE ~full
  BY <1>1, <1>2, <1>3, <1>4, <1>6, NetTimeAssumption DEF TimeInv, Agree
<1>7. CASE full
  <2>1. Oldest(m) \in DOMAIN m
    BY <1>3, <1>5, OldestIs DEF Agree
  <2>2. Agree(EraseDelta(v, m[Oldest(m)].delta), Without(m, Oldest(m)))
    BY <1>3, <2>1, AgreeWithout
  <2>3. Agree(vecDelta', mapNode')
    BY <1>1, <1>7, <2>2
  <2>4. Len(vecDelta') = Len(v) - 1
    <3>1. DOMAIN mapNode' = DOMAIN m \ {Oldest(m)}
      BY <1>1, <1>7 DEF Without
    <3>2. Cardinality(DOMAIN mapNode') = Cardinality(DOMAIN m) - 1
      BY <1>3, <2>1, <3>1, FS_RemoveElement DEF Agree
    <3> QED BY <1>3, <2>3, <3>2 DEF Agree
  <2>5. Len(vecDelta') <= nMaxCount
    BY <1>3, <1>4, <2>4, NetTimeAssumption DEF Agree
  <2> QED BY <1>1, <1>2, <2>3, <2>5 DEF TimeInv
<1> QED BY <1>6, <1>7

LEMMA EmptyAgrees == Agree(<<>>, << >>)
<1>1. DOMAIN << >> = {}
  OBVIOUS
<1>2. \A d : Of(<< >>, d) = {} /\ {i \in DOMAIN << >> : << >>[i] = d} = {}
  BY <1>1 DEF Of
<1>3. \A d \in Delta : Times(<<>>, d) = Cardinality(Of(<< >>, d))
  BY <1>2 DEF Times
<1> QED BY <1>1, <1>3, FS_EmptySet DEF Agree, Sorted

LEMMA TimeInitial == TimeInit => TimeInv
  BY EmptyAgrees, NetTimeAssumption DEF TimeInit, TimeInv

LEMMA TimeStep == TimeInv /\ [TimeNext]_timeVars => TimeInv'
<1> SUFFICES ASSUME TimeInv, [TimeNext]_timeVars PROVE TimeInv'
  OBVIOUS
<1>1. CASE \E a \in Address, d \in Delta : AddNew(a, d)
  BY <1>1, AddNewKeeps
<1>2. CASE Clear
  BY <1>2, EmptyAgrees, NetTimeAssumption DEF Clear, TimeInv
<1>3. CASE Tick
  BY <1>3 DEF Tick, TimeInv
<1>4. CASE UNCHANGED timeVars
  BY <1>4 DEF timeVars, TimeInv
<1> QED BY <1>1, <1>2, <1>3, <1>4 DEF TimeNext

LEMMA AgreeSuffices == TimeInv => SamplesAgree
<1> SUFFICES ASSUME TimeInv PROVE SamplesAgree
  OBVIOUS
<1>1. /\ vecDelta \in Seq(Delta) /\ Sorted(vecDelta) /\ Len(vecDelta) \in Nat
      /\ DOMAIN vecDelta = 1..Len(vecDelta)
  BY DEF TimeInv, Agree
<1>2. \A i \in 1..(Len(vecDelta) - 1) : vecDelta[i] <= vecDelta[i + 1]
  BY <1>1 DEF Sorted
<1> QED BY <1>2 DEF SamplesAgree, TimeInv, Agree, Of

\* The samples agree in every state, for every limit and every set of addresses and differences.
THEOREM SamplesSafe == TimeSpec => []SamplesAgree
  BY TimeInitial, TimeStep, AgreeSuffices, PTL DEF TimeSpec
-------------------------------------------------------------------------------
\* Masking, in the range the pointers' differences are in.
LEMMA MaskedIs ==
    ASSUME NEW n \in (-buf_size_)..(2 * buf_size_ - 1)
    PROVE  Masked(n) = IF n < 0 THEN n + buf_size_ ELSE IF n < buf_size_ THEN n ELSE n - buf_size_
<1> DEFINE B == buf_size_
<1>1. B \in Nat \ {0}
  BY CircularBufAssumption
<1> HIDE DEF B
<1>2. \A m \in 0..(B - 1) : m % B = m
  BY <1>1
<1>3. \A m \in B..(2 * B - 1) : m % B = m - B
  BY <1>1
<1>4. \A m \in (-B)..(-1) : m % B = m + B
  BY <1>1
<1>5. n \in (-B)..(2 * B - 1)
  BY DEF B
<1>6. n % B = IF n < 0 THEN n + B ELSE IF n < B THEN n ELSE n - B
  BY <1>1, <1>2, <1>3, <1>4, <1>5
<1> QED BY <1>6 DEF Masked, B

LEMMA MaskedInRing ==
    ASSUME NEW n \in Int
    PROVE  Masked(n) \in 0..(buf_size_ - 1)
<1> DEFINE B == buf_size_
<1>1. B \in Nat \ {0}
  BY CircularBufAssumption
<1> HIDE DEF B
<1>2. n % B \in 0..(B - 1)
  BY <1>1
<1> QED BY <1>2 DEF Masked, B

RingTypes ==
    /\ buffer_ \in [0..(buf_size_ - 1) -> 0..(Bytes - 1)]
    /\ begin_ \in 0..(buf_size_ - 1)
    /\ gptr \in 0..buf_size_ /\ egptr \in 0..buf_size_
    /\ pptr \in 0..buf_size_ /\ epptr \in 0..buf_size_
    /\ nBytes \in 0..(Bytes - 1)

\* The read position is among the bytes kept, the get area holds bytes still to be read, and
\* the put area is free.
Areas ==
    /\ Read <= size
    /\ gptr < egptr => egptr - gptr <= showmanyc
    /\ pptr < epptr => epptr - pptr <= freespace

RingInv == RingTypes /\ Areas

\* The positions without remainders.
Places ==
    /\ size = IF pptr - begin_ < 0 THEN pptr - begin_ + buf_size_
              ELSE IF pptr - begin_ < buf_size_ THEN pptr - begin_ ELSE pptr - begin_ - buf_size_
    /\ Read = IF gptr - begin_ < 0 THEN gptr - begin_ + buf_size_
              ELSE IF gptr - begin_ < buf_size_ THEN gptr - begin_ ELSE gptr - begin_ - buf_size_
    /\ showmanyc = IF pptr - gptr < 0 THEN pptr - gptr + buf_size_
                   ELSE IF pptr - gptr < buf_size_ THEN pptr - gptr ELSE pptr - gptr - buf_size_
    /\ ppos = IF pptr < buf_size_ THEN pptr ELSE pptr - buf_size_
    /\ gpos = IF gptr < buf_size_ THEN gptr ELSE gptr - buf_size_
    /\ freespace = buf_size_ - size - 1
    /\ buf_size_ \in Nat \ {0}

LEMMA PlacesAre == RingTypes => Places
<1> SUFFICES ASSUME RingTypes PROVE Places
  OBVIOUS
<1> DEFINE B == buf_size_
<1>1. /\ B \in Nat \ {0} /\ begin_ \in 0..(B - 1) /\ gptr \in 0..B /\ pptr \in 0..B
  BY CircularBufAssumption DEF RingTypes
<1> HIDE DEF B
<1>2. /\ pptr - begin_ \in (-B)..(2 * B - 1) /\ gptr - begin_ \in (-B)..(2 * B - 1)
      /\ pptr - gptr \in (-B)..(2 * B - 1)
      /\ pptr \in (-B)..(2 * B - 1) /\ gptr \in (-B)..(2 * B - 1)
  BY <1>1
<1>3. ~(pptr < 0) /\ ~(gptr < 0)
  BY <1>1
<1> QED BY <1>1, <1>2, <1>3, MaskedIs DEF Places, size, Read, showmanyc, ppos, gpos, freespace, B

LEMMA RingInitial == RingInit => RingInv
<1> SUFFICES ASSUME RingInit PROVE RingInv
  OBVIOUS
<1>1. RingTypes
  BY CircularBufAssumption DEF RingInit, RingTypes
<1>2. Areas
  BY <1>1, PlacesAre DEF Places, RingInit, Areas
<1> QED BY <1>1, <1>2 DEF RingInv

LEMMA AreasAgree == RingInv => SizesAgree
<1> SUFFICES ASSUME RingInv PROVE SizesAgree
  OBVIOUS
<1> DEFINE B == buf_size_
<1>1. RingTypes /\ Read <= size
  BY DEF RingInv, Areas
<1>2. /\ B \in Nat \ {0} /\ begin_ \in 0..(B - 1) /\ gptr \in 0..B /\ pptr \in 0..B
  BY <1>1, PlacesAre DEF Places, RingTypes
<1> QED BY <1>1, <1>2, PlacesAre DEF Places, SizesAgree

\* n bytes of a ring from a place on.
From(f, b, n) == [i \in 1..n |-> f[Masked(b + i - 1)]]
\* The place of the i-th of them.
Place(b, i) == IF b + i - 1 < buf_size_ THEN b + i - 1 ELSE b + i - 1 - buf_size_
Rings == [0..(buf_size_ - 1) -> 0..(Bytes - 1)]

LEMMA FromIs ==
    ASSUME NEW f \in Rings, NEW b \in 0..(buf_size_ - 1), NEW n \in 0..buf_size_
    PROVE  /\ From(f, b, n) \in Seq(0..(Bytes - 1)) /\ Len(From(f, b, n)) = n
           /\ \A i \in 1..n : From(f, b, n)[i] = f[Place(b, i)]
<1> DEFINE B == buf_size_
           s == From(f, b, n)
<1>1. B \in Nat \ {0} /\ b \in 0..(B - 1) /\ n \in 0..B
  BY CircularBufAssumption
<1> HIDE DEF B
<1>2. ASSUME NEW i \in 1..n
      PROVE  Masked(b + i - 1) = Place(b, i) /\ Place(b, i) \in 0..(B - 1)
  <2> DEFINE m == b + i - 1
  <2>1. m \in (-B)..(2 * B - 1) /\ ~(m < 0)
    BY <1>1
  <2>2. Place(b, i) \in 0..(B - 1) /\ Place(b, i) = IF m < B THEN m ELSE m - B
    BY <1>1 DEF Place, B
  <2> HIDE DEF m
  <2>3. Masked(m) = IF m < 0 THEN m + B ELSE IF m < B THEN m ELSE m - B
    BY <2>1, MaskedIs DEF B
  <2> QED BY <2>1, <2>2, <2>3 DEF m
<1>3. s = [i \in 1..n |-> f[Place(b, i)]]
  BY <1>2 DEF From
<1> HIDE DEF s
<1>4. s \in [1..n -> 0..(Bytes - 1)]
  BY <1>2, <1>3 DEF Rings, B
<1>5. s \in Seq(0..(Bytes - 1))
  <2> DEFINE X == 0..(Bytes - 1)
  <2>1. n \in Nat /\ s \in [1..n -> X]
    BY <1>1, <1>4
  <2> HIDE DEF X
  <2>2. s \in Seq(X)
    BY <2>1, SeqDef, SMTT(30)
  <2> QED BY <2>2 DEF X
<1>6. Len(s) = n
  <2>1. Len(s) \in Nat /\ DOMAIN s = 1..Len(s) /\ DOMAIN s = 1..n
    BY <1>4, <1>5, LenProperties
  <2>2. \A x, y \in Nat : 1..x = 1..y => x = y
    <3>1. \A x \in Nat, y \in Nat : 1..x = 1..y /\ x < y => y \in 1..x
      OBVIOUS
    <3>2. \A x \in Nat, y \in Nat : 1..x = 1..y => ~(x < y)
      BY <3>1
    <3> QED BY <3>2
  <2>3. n \in Nat
    BY <1>1
  <2> QED BY <2>1, <2>2, <2>3
<1> QED BY <1>3, <1>5, <1>6 DEF s

\* The next place of the ring takes the next byte.
LEMMA FromAppended ==
    ASSUME NEW f \in Rings, NEW b \in 0..(buf_size_ - 1), NEW n \in 0..(buf_size_ - 2),
           NEW c \in 0..(Bytes - 1),
           NEW p, p = IF b + n < buf_size_ THEN b + n ELSE b + n - buf_size_
    PROVE  From([f EXCEPT ![p] = c], b, n + 1) = Append(From(f, b, n), c)
<1> DEFINE B == buf_size_
           g == [f EXCEPT ![p] = c]
           s == From(f, b, n)
           t == From(g, b, n + 1)
<1>1. /\ B \in Nat \ {0} /\ b \in 0..(B - 1) /\ n \in 0..(B - 2) /\ n \in 0..B /\ n + 1 \in 0..B
      /\ p = IF b + n < B THEN b + n ELSE b + n - B
  BY CircularBufAssumption
<1>2. g \in Rings /\ g[p] = c /\ \A q \in 0..(B - 1) : q # p => g[q] = f[q]
  BY <1>1 DEF Rings
<1> HIDE DEF g
<1>3. /\ s \in Seq(0..(Bytes - 1)) /\ Len(s) = n /\ \A i \in 1..n : s[i] = f[Place(b, i)]
  BY <1>1, FromIs
<1>4. /\ t \in Seq(0..(Bytes - 1)) /\ Len(t) = n + 1 /\ \A i \in 1..(n + 1) : t[i] = g[Place(b, i)]
  BY <1>1, <1>2, FromIs
<1> HIDE DEF s, t, B
<1>5. Place(b, n + 1) = p /\ \A i \in 1..n : Place(b, i) \in 0..(B - 1) /\ Place(b, i) # p
  BY <1>1 DEF Place, B
<1> DEFINE u == Append(s, c)
<1>6. u \in Seq(0..(Bytes - 1)) /\ Len(u) = n + 1 /\ u[n + 1] = c /\ \A i \in 1..n : u[i] = s[i]
  BY <1>1, <1>3, AppendProperties
<1> HIDE DEF u
<1>7. ASSUME NEW i \in 1..(n + 1)
      PROVE  t[i] = u[i]
  <2>1. CASE i \in 1..n
    BY <1>2, <1>3, <1>4, <1>5, <1>6, <2>1
  <2>2. CASE i = n + 1
    BY <1>2, <1>4, <1>5, <1>6, <2>2
  <2> QED BY <1>1, <2>1, <2>2
<1>8. t = u
  BY <1>1, <1>4, <1>6, <1>7, SeqEqual
<1> QED BY <1>8 DEF t, u, s, g

\* What is left when k bytes are dropped.
LEMMA FromDropped ==
    ASSUME NEW f \in Rings, NEW b \in 0..(buf_size_ - 1), NEW n \in 0..(buf_size_ - 1), NEW k \in 0..n,
           NEW d, d = IF b + k < buf_size_ THEN b + k ELSE b + k - buf_size_
    PROVE  From(f, d, n - k) = SubSeq(From(f, b, n), k + 1, n)
<1> DEFINE B == buf_size_
           s == From(f, b, n)
           t == From(f, d, n - k)
           u == SubSeq(s, k + 1, n)
<1>1. /\ B \in Nat \ {0} /\ b \in 0..(B - 1) /\ n \in 0..(B - 1) /\ n \in 0..B /\ k \in 0..n
      /\ d = (IF b + k < B THEN b + k ELSE b + k - B) /\ d \in 0..(B - 1) /\ n - k \in 0..B
  BY CircularBufAssumption
<1>2. /\ s \in Seq(0..(Bytes - 1)) /\ Len(s) = n /\ \A i \in 1..n : s[i] = f[Place(b, i)]
  BY <1>1, FromIs
<1>3. /\ t \in Seq(0..(Bytes - 1)) /\ Len(t) = n - k /\ \A i \in 1..(n - k) : t[i] = f[Place(d, i)]
  BY <1>1, FromIs
<1> HIDE DEF s, t, B
<1>4. \A i \in 1..(n - k) : Place(d, i) = Place(b, i + k) /\ i + k \in 1..n
  BY <1>1 DEF Place, B
<1>5. u \in Seq(0..(Bytes - 1)) /\ Len(u) = n - k /\ \A i \in 1..(n - k) : u[i] = s[i + k]
  <2>1. \A i \in (k + 1)..n : s[i] \in 0..(Bytes - 1)
    <3>1. \A i \in (k + 1)..n : i \in 1..n
      BY <1>1
    <3>2. \A i \in 1..n : s[i] \in 0..(Bytes - 1)
      <4>1. \A i \in 1..Len(s) : s[i] \in 0..(Bytes - 1)
        BY <1>2, ElementOfSeq
      <4> QED BY <1>2, <4>1
    <3> QED BY <3>1, <3>2
  <2>2. k + 1 \in Int /\ n \in Int
    BY <1>1
  <2>3. /\ u \in Seq(0..(Bytes - 1)) /\ Len(u) = IF k + 1 <= n THEN n - (k + 1) + 1 ELSE 0
        /\ \A i \in 1..(n - (k + 1) + 1) : u[i] = s[(k + 1) + i - 1]
    BY <2>1, <2>2, SubSeqProperties
  <2> HIDE DEF u
  <2>4. n - (k + 1) + 1 = n - k /\ (~(k + 1 <= n) => n - k = 0)
    BY <1>1
  <2>5. \A i \in 1..(n - k) : (k + 1) + i - 1 = i + k
    BY <1>1
  <2> QED BY <2>3, <2>4, <2>5
<1> HIDE DEF u
<1>6. \A i \in 1..(n - k) : t[i] = u[i]
  BY <1>2, <1>3, <1>4, <1>5
<1>7. t = u
  BY <1>1, <1>3, <1>5, <1>6, SeqEqual
<1> QED BY <1>7 DEF t, u, s

\* The bytes kept, as a sequence.
KeptFacts ==
    /\ Kept = From(buffer_, begin_, size)
    /\ Kept \in Seq(0..(Bytes - 1)) /\ Len(Kept) = size
    /\ size \in 0..(buf_size_ - 1) /\ Read \in 0..size
    /\ \A i \in 1..size : Kept[i] = buffer_[Place(begin_, i)]

LEMMA KeptIs == RingInv => KeptFacts
<1> SUFFICES ASSUME RingInv PROVE KeptFacts
  OBVIOUS
<1> DEFINE B == buf_size_
<1>1. RingTypes /\ Read <= size /\ Places
  BY PlacesAre DEF RingInv, Areas
<1>2. B \in Nat \ {0} /\ begin_ \in 0..(B - 1) /\ gptr \in 0..B /\ pptr \in 0..B
  BY <1>1 DEF Places, RingTypes
<1>3. size \in 0..(B - 1) /\ Read \in 0..size /\ size \in 0..B
  BY <1>1, <1>2 DEF Places
<1>4. Kept = From(buffer_, begin_, size) /\ buffer_ \in Rings
  BY <1>1 DEF Kept, From, Rings, RingTypes
<1> QED BY <1>2, <1>3, <1>4, FromIs DEF KeptFacts

\* The number of a byte is its place in the ring.
LEMMA NumberIs ==
    ASSUME RingInv, NEW i \in 0..size
    PROVE  Queue!Number(i) = Place(begin_, i + 1)
<1> DEFINE B == buf_size_
           m == begin_ + i
           c == (buf_size_ - 1) + 1
<1>1. B \in Nat \ {0} /\ begin_ \in 0..(B - 1) /\ size \in 0..(B - 1)
  BY PlacesAre, KeptIs DEF RingInv, RingTypes, Places, KeptFacts
<1>2. m \in (-B)..(2 * B - 1) /\ ~(m < 0)
  BY <1>1
<1>3. c = B
  BY <1>1
<1>4. Queue!Number(i) = m % c
  BY DEF Queue!Number
<1> HIDE DEF m, c, B
<1>6. m % c = Masked(m)
  BY <1>3 DEF Masked, B
<1>5. Masked(m) = IF m < 0 THEN m + B ELSE IF m < B THEN m ELSE m - B
  BY <1>2, MaskedIs DEF B
<1>7. Masked(m) = IF m < B THEN m ELSE m - B
  BY <1>2, <1>5
<1>8. Queue!Number(i) = IF m < B THEN m ELSE m - B
  BY <1>4, <1>6, <1>7
<1>9. Place(begin_, i + 1) = IF m < B THEN m ELSE m - B
  BY <1>1 DEF Place, m, B
<1> QED BY <1>8, <1>9

\* A byte is put behind the last, where the put area begins, or there is no room.
LEMMA PutIs ==
    ASSUME RingInv, PutByte
    PROVE  /\ UNCHANGED <<begin_, gptr, egptr>>
           /\ IF size = buf_size_ - 1
              THEN out' = -1 /\ UNCHANGED <<buffer_, pptr, epptr, nBytes>>
              ELSE /\ buffer_' = [buffer_ EXCEPT ![ppos] = nBytes] /\ pptr' = ppos + 1
                   /\ nBytes' = (nBytes + 1) % Bytes /\ out' = nBytes
                   /\ epptr' \in 0..buf_size_
                   /\ pptr' < epptr' => epptr' - pptr' <= freespace - 1
<1> DEFINE B == buf_size_
           pend == Masked(begin_ - 1)
<1>1. RingTypes /\ Areas /\ Places
  BY PlacesAre DEF RingInv
<1>2. /\ B \in Nat \ {0} /\ begin_ \in 0..(B - 1) /\ gptr \in 0..B /\ pptr \in 0..B
      /\ epptr \in 0..B
  BY <1>1 DEF Places, RingTypes
<1>3. pend = (IF begin_ = 0 THEN B - 1 ELSE begin_ - 1) /\ pend \in 0..(B - 1)
  <2>1. begin_ - 1 \in (-B)..(2 * B - 1)
    BY <1>2
  <2>2. Masked(begin_ - 1) = IF begin_ - 1 < 0 THEN begin_ - 1 + B
                             ELSE IF begin_ - 1 < B THEN begin_ - 1 ELSE begin_ - 1 - B
    BY <2>1, MaskedIs
  <2> QED BY <1>2, <2>2
<1>4. CASE pptr < epptr
  <2>1. Store(pptr) /\ UNCHANGED epptr /\ UNCHANGED <<begin_, gptr, egptr>>
    BY <1>4 DEF PutByte
  <2>2. ppos = pptr /\ epptr - pptr <= freespace /\ freespace = B - size - 1 /\ size \in Int
    BY <1>1, <1>2, <1>4 DEF Areas, Places
  <2>3. size # B - 1
    BY <1>2, <1>4, <2>2
  <2>4. pptr' = ppos + 1 /\ epptr' = epptr
    BY <2>1, <2>2 DEF Store
  <2>5. pptr' < epptr' => epptr' - pptr' <= freespace - 1
    BY <1>2, <2>2, <2>4
  <2> QED BY <1>2, <2>1, <2>2, <2>3, <2>4, <2>5 DEF Store
<1>5. CASE ~(pptr < epptr)
  <2>1. overflow /\ UNCHANGED <<begin_, gptr, egptr>>
    BY <1>5 DEF PutByte
  <2> HIDE DEF pend
  <2>2. ppos = pend <=> size = B - 1
    BY <1>1, <1>2, <1>3 DEF Places
  <2>3. CASE ppos = pend
    BY <2>1, <2>2, <2>3 DEF overflow, Eof, pend
  <2>4. CASE ppos # pend
    <3>1. epptr' = (IF ppos > pend THEN B ELSE pend) /\ Store(ppos)
      BY <2>1, <2>4 DEF overflow, pend
    <3>2. pptr' = ppos + 1 /\ epptr' \in 0..B
      BY <1>2, <1>3, <3>1 DEF Store
    <3>3. pptr' < epptr' => epptr' - pptr' <= freespace - 1
      BY <1>1, <1>2, <1>3, <2>4, <3>1, <3>2 DEF Places
    <3> QED BY <2>1, <2>2, <2>4, <3>1, <3>2, <3>3 DEF Store
  <2> QED BY <2>3, <2>4
<1> QED BY <1>4, <1>5

LEMMA PutSimulates ==
    ASSUME RingInv, PutByte
    PROVE  RingInv' /\ Queue!Next
<1> DEFINE B == buf_size_
<1>1. RingTypes /\ Areas /\ Places /\ KeptFacts
  BY PlacesAre, KeptIs DEF RingInv
<1>2. /\ B \in Nat \ {0} /\ begin_ \in 0..(B - 1) /\ gptr \in 0..B /\ egptr \in 0..B
      /\ pptr \in 0..B /\ epptr \in 0..B
      /\ buffer_ \in Rings /\ nBytes \in 0..(Bytes - 1) /\ Bytes \in Nat \ {0}
  BY <1>1, CircularBufAssumption DEF Places, RingTypes, Rings
<1>3. UNCHANGED <<begin_, gptr, egptr>>
  BY PutIs
<1>4. CASE size = B - 1
  <2>1. out' = -1 /\ UNCHANGED <<buffer_, begin_, gptr, egptr, pptr, epptr, nBytes>>
    BY <1>4, PutIs
  <2>2. size' = size /\ Read' = Read /\ showmanyc' = showmanyc /\ freespace' = freespace
    BY <2>1 DEF size, Read, showmanyc, freespace
  <2>3. Kept' = Kept
    BY <2>1, <2>2 DEF Kept
  <2>4. RingInv'
    BY <1>1, <2>1, <2>2 DEF RingInv, RingTypes, Areas
  <2>5. Queue!Put(nBytes)
    BY <1>1, <1>2, <1>3, <1>4, <2>1, <2>2, <2>3 DEF Queue!Put, KeptFacts
  <2> QED BY <1>2, <2>4, <2>5 DEF Queue!Next
<1>5. CASE size # B - 1
  <2>1. /\ buffer_' = [buffer_ EXCEPT ![ppos] = nBytes] /\ pptr' = ppos + 1
        /\ nBytes' = (nBytes + 1) % Bytes /\ out' = nBytes
        /\ epptr' \in 0..B /\ (pptr' < epptr' => epptr' - pptr' <= freespace - 1)
    BY <1>5, PutIs
  <2>2. ppos \in 0..(B - 1) /\ size \in 0..(B - 2)
        /\ ppos = IF begin_ + size < B THEN begin_ + size ELSE begin_ + size - B
    BY <1>1, <1>2, <1>5 DEF Places, KeptFacts
  <2>3. RingTypes'
    <3>1. nBytes' \in 0..(Bytes - 1)
      BY <1>2, <2>1
    <3>2. buffer_' \in Rings
      BY <1>2, <2>1, <2>2 DEF Rings
    <3>3. pptr' \in 0..B
      BY <1>2, <2>1, <2>2
    <3> QED BY <1>2, <1>3, <2>1, <3>1, <3>2, <3>3 DEF RingTypes, Rings
  <2>4. Places'
    BY <2>3, PlacesAre, PTL
  <2>5. /\ size' = size + 1 /\ Read' = Read
        /\ gptr < egptr => showmanyc' = showmanyc + 1
        /\ freespace' = freespace - 1
    <3>1. Read' = Read
      BY <1>3 DEF Read
    <3>2. size' = size + 1
      BY <1>1, <1>2, <1>3, <2>1, <2>2, <2>4 DEF Places
    <3>3. freespace' = freespace - 1
      BY <1>1, <1>2, <2>2, <2>4, <3>2 DEF Places
    <3>4. gptr < egptr => showmanyc' = showmanyc + 1
      BY <1>1, <1>2, <1>3, <2>1, <2>2, <2>4 DEF Places, Areas
    <3> QED BY <3>1, <3>2, <3>3, <3>4
  <2>6. Areas'
    <3>1. Read' <= size'
      BY <1>1, <2>2, <2>5 DEF KeptFacts
    <3>2. showmanyc \in Int
      BY <1>1, <1>2 DEF Places
    <3>3. gptr < egptr => egptr - gptr <= showmanyc
      BY <1>1 DEF Areas
    <3>4. gptr' < egptr' => egptr' - gptr' <= showmanyc'
      BY <1>2, <1>3, <2>5, <3>2, <3>3
    <3> QED BY <2>1, <2>5, <3>1, <3>4 DEF Areas
  <2>7. Kept' = Append(Kept, nBytes)
    <3>1. Kept' = From(buffer_', begin_, size + 1)
      BY <1>3, <2>5 DEF Kept, From
    <3> DEFINE q == ppos
               m == size
    <3>2. /\ buffer_ \in Rings /\ begin_ \in 0..(buf_size_ - 1) /\ m \in 0..(buf_size_ - 2)
          /\ nBytes \in 0..(Bytes - 1)
          /\ q = IF begin_ + m < buf_size_ THEN begin_ + m ELSE begin_ + m - buf_size_
      BY <1>2, <2>2
    <3> HIDE DEF q, m
    <3>3. From([buffer_ EXCEPT ![q] = nBytes], begin_, m + 1) = Append(From(buffer_, begin_, m), nBytes)
      BY <3>2, FromAppended
    <3> QED BY <1>1, <2>1, <3>1, <3>3 DEF KeptFacts, q, m
  <2>8. Queue!Put(nBytes)
    BY <1>1, <1>2, <1>3, <2>1, <2>2, <2>5, <2>7 DEF Queue!Put, KeptFacts
  <2> QED BY <1>2, <2>3, <2>6, <2>8 DEF RingInv, Queue!Next
<1> QED BY <1>4, <1>5

LEMMA GetSimulates ==
    ASSUME RingInv, GetByte
    PROVE  RingInv' /\ Queue!Next
<1> DEFINE B == buf_size_
<1>1. RingTypes /\ Areas /\ Places /\ KeptFacts
  BY PlacesAre, KeptIs DEF RingInv
<1>2. /\ B \in Nat \ {0} /\ begin_ \in 0..(B - 1) /\ gptr \in 0..B /\ egptr \in 0..B
      /\ pptr \in 0..B /\ epptr \in 0..B
  BY <1>1 DEF Places, RingTypes
<1>3. UNCHANGED <<buffer_, begin_, pptr, epptr, nBytes>>
  BY DEF GetByte
<1>4. size' = size /\ freespace' = freespace /\ Kept' = Kept
  BY <1>3 DEF size, freespace, Kept
<1>5. gpos \in 0..(B - 1) /\ ppos \in 0..(B - 1) /\ size \in 0..(B - 1) /\ Read \in 0..size
  <2>1. gpos \in 0..(B - 1) /\ ppos \in 0..(B - 1)
    BY <1>1, <1>2 DEF Places
  <2> QED BY <1>1, <2>1 DEF KeptFacts
<1>6. gpos = ppos <=> Read = size
  BY <1>1, <1>2 DEF Places
<1>7. CASE ~(gptr < egptr) /\ gpos = ppos
  <2>1. out' = -1 /\ UNCHANGED <<gptr, egptr>>
    BY <1>7 DEF GetByte, Eof
  <2>2. Read' = Read /\ showmanyc' = showmanyc
    BY <1>3, <2>1 DEF Read, showmanyc
  <2>3. RingInv'
    BY <1>1, <1>3, <1>4, <2>1, <2>2 DEF RingInv, RingTypes, Areas
  <2>4. Queue!Get
    BY <1>1, <1>3, <1>4, <1>5, <1>6, <1>7, <2>1, <2>2 DEF Queue!Get, KeptFacts
  <2> QED BY <2>3, <2>4 DEF Queue!Next
<1>8. CASE gptr < egptr \/ gpos # ppos
  <2>1. /\ out' = buffer_[gpos] /\ gptr' = gpos + 1
        /\ egptr' = IF gptr < egptr THEN egptr ELSE IF gpos < ppos THEN ppos ELSE B
        /\ gptr < egptr => gpos = gptr /\ showmanyc >= 1
    <3>1. gptr < egptr => gpos = gptr /\ showmanyc >= 1
      BY <1>1, <1>2 DEF Places, Areas
    <3> QED BY <1>8, <3>1 DEF GetByte, setg
  <2>2. Read < size /\ gpos # ppos
    BY <1>1, <1>2, <1>5, <1>6, <1>8, <2>1 DEF Places
  <2>3. RingTypes'
    <3>1. gptr' \in 0..B /\ egptr' \in 0..B
      BY <1>2, <1>5, <2>1
    <3> QED BY <1>1, <1>3, <3>1 DEF RingTypes
  <2>4. Places'
    BY <2>3, PlacesAre, PTL
  <2>5. Read' = Read + 1
    BY <1>1, <1>2, <1>3, <1>5, <2>1, <2>2, <2>4 DEF Places
  <2>6. gptr' < egptr' => egptr' - gptr' <= showmanyc'
    BY <1>1, <1>2, <1>3, <1>5, <2>1, <2>2, <2>4 DEF Places, Areas
  <2>7. Areas'
    <3>1. Read' <= size'
      BY <1>4, <1>5, <2>2, <2>5
    <3>2. pptr' < epptr' => epptr' - pptr' <= freespace'
      BY <1>1, <1>3, <1>4 DEF Areas
    <3> QED BY <2>6, <3>1, <3>2 DEF Areas
  <2>8. buffer_[gpos] = Kept[Read + 1]
    <3>1. Place(begin_, Read + 1) = gpos
      BY <1>1, <1>2, <1>5 DEF Places, Place
    <3>2. Read + 1 \in 1..size
      BY <1>5, <2>2
    <3> QED BY <1>1, <3>1, <3>2 DEF KeptFacts
  <2>9. Queue!Get
    BY <1>1, <1>3, <1>4, <2>1, <2>2, <2>5, <2>8 DEF Queue!Get, KeptFacts
  <2> QED BY <2>3, <2>7, <2>9 DEF RingInv, Queue!Next
<1> QED BY <1>7, <1>8

\* Dropping bytes moves the read position only if its byte is dropped, to the first byte kept.
LEMMA ConsumeIs ==
    ASSUME RingInv, NEW n \in 0..buf_size_, Consume(n),
           NEW k, k = IF n < size THEN n ELSE size
    PROVE  /\ k \in 0..size
           /\ begin_' = IF begin_ + k < buf_size_ THEN begin_ + k ELSE begin_ + k - buf_size_
           /\ IF Read < k
              THEN gptr' = begin_' /\ egptr' = IF begin_' <= ppos THEN ppos ELSE buf_size_
              ELSE UNCHANGED <<gptr, egptr>>
           /\ UNCHANGED <<buffer_, pptr, epptr, nBytes, out>>
<1> DEFINE B == buf_size_
           b == IF n >= size THEN ppos ELSE Masked(begin_ + n)
           dropped == \/ ppos >= b /\ (gpos < b \/ gpos > ppos)
                      \/ ppos < b /\ gpos < b /\ gpos > ppos
<1>1. RingTypes /\ Areas /\ Places /\ KeptFacts
  BY PlacesAre, KeptIs DEF RingInv
<1>2. /\ B \in Nat \ {0} /\ begin_ \in 0..(B - 1) /\ gptr \in 0..B /\ pptr \in 0..B
      /\ size \in 0..(B - 1) /\ Read \in 0..size /\ n \in 0..B
  BY <1>1 DEF Places, RingTypes, KeptFacts
<1>3. k \in 0..size
  BY <1>2
<1>4. b = IF begin_ + k < B THEN begin_ + k ELSE begin_ + k - B
  <2>1. CASE n >= size
    BY <1>1, <1>2, <2>1 DEF Places
  <2>2. CASE ~(n >= size)
    <3> DEFINE m == begin_ + n
    <3>1. m \in (-B)..(2 * B - 1) /\ ~(m < 0) /\ k = n
      BY <1>2, <2>2
    <3> HIDE DEF m
    <3>2. Masked(m) = IF m < 0 THEN m + B ELSE IF m < B THEN m ELSE m - B
      BY <3>1, MaskedIs
    <3>3. Masked(m) = IF m < B THEN m ELSE m - B
      BY <3>1, <3>2
    <3>4. b = Masked(m)
      BY <2>2 DEF m
    <3> HIDE DEF b, B
    <3>5. b = IF m < B THEN m ELSE m - B
      BY <3>3, <3>4
    <3>6. m = begin_ + k /\ m \in Int /\ B \in Int /\ begin_ \in Int /\ k \in Int
      BY <1>2, <3>1 DEF m, B
    <3>7. CASE m < B
      BY <3>5, <3>6, <3>7
    <3>8. CASE ~(m < B)
      BY <3>5, <3>6, <3>8
    <3> QED BY <3>7, <3>8
  <2> QED BY <2>1, <2>2
<1>5. /\ begin_' = b
      /\ IF dropped THEN gptr' = b /\ egptr' = IF b <= ppos THEN ppos ELSE B
         ELSE UNCHANGED <<gptr, egptr>>
      /\ UNCHANGED <<buffer_, pptr, epptr, nBytes, out>>
  BY DEF Consume, setg
<1>6. dropped <=> Read < k
  <2> HIDE DEF b
  <2> QED BY <1>1, <1>2, <1>3, <1>4 DEF Places
<1> HIDE DEF b, dropped
<1> QED BY <1>3, <1>4, <1>5, <1>6

LEMMA ConsumeSimulates ==
    ASSUME RingInv, NEW n \in 0..buf_size_, Consume(n)
    PROVE  RingInv' /\ Queue!Next
<1> DEFINE B == buf_size_
           k == IF n < size THEN n ELSE size
<1>1. RingTypes /\ Areas /\ Places /\ KeptFacts
  BY PlacesAre, KeptIs DEF RingInv
<1>2. /\ B \in Nat \ {0} /\ begin_ \in 0..(B - 1) /\ gptr \in 0..B /\ egptr \in 0..B
      /\ pptr \in 0..B /\ epptr \in 0..B /\ buffer_ \in Rings
      /\ size \in 0..(B - 1) /\ Read \in 0..size /\ n \in 0..B
  BY <1>1 DEF Places, RingTypes, KeptFacts, Rings
<1>3. /\ k \in 0..size
      /\ begin_' = IF begin_ + k < B THEN begin_ + k ELSE begin_ + k - B
      /\ IF Read < k THEN gptr' = begin_' /\ egptr' = IF begin_' <= ppos THEN ppos ELSE B
         ELSE UNCHANGED <<gptr, egptr>>
      /\ UNCHANGED <<buffer_, pptr, epptr, nBytes, out>>
  BY ConsumeIs
<1>4. k = IF n < Len(Kept) THEN n ELSE Len(Kept)
  BY <1>1 DEF KeptFacts
<1> HIDE DEF k
<1>5. RingTypes'
  <2>1. begin_' \in 0..(B - 1) /\ ppos \in 0..(B - 1)
    BY <1>1, <1>2, <1>3 DEF Places
  <2>2. gptr' \in 0..B /\ egptr' \in 0..B
    BY <1>2, <1>3, <2>1
  <2> QED BY <1>1, <1>3, <2>1, <2>2 DEF RingTypes
<1>6. Places'
  BY <1>5, PlacesAre, PTL
<1>7. size' = size - k /\ freespace' = freespace + k
  BY <1>1, <1>2, <1>3, <1>6 DEF Places
<1>8. Read' = IF Read < k THEN 0 ELSE Read - k
  BY <1>1, <1>2, <1>3, <1>6 DEF Places
<1>9. gptr' < egptr' => egptr' - gptr' <= showmanyc'
  <2>1. CASE Read < k
    BY <1>1, <1>2, <1>3, <1>6, <2>1 DEF Places
  <2>2. CASE ~(Read < k)
    <3>1. showmanyc' = showmanyc
      BY <1>3, <2>2 DEF showmanyc
    <3> QED BY <1>1, <1>3, <2>2, <3>1 DEF Areas
  <2> QED BY <2>1, <2>2
<1>10. Areas'
  <2>1. Read' <= size'
    BY <1>2, <1>3, <1>7, <1>8
  <2>2. pptr' < epptr' => epptr' - pptr' <= freespace'
    <3>1. freespace \in Int /\ (pptr < epptr => epptr - pptr <= freespace)
      BY <1>1, <1>2 DEF Places, Areas
    <3> QED BY <1>2, <1>3, <1>7, <3>1
  <2> QED BY <1>9, <2>1, <2>2 DEF Areas
<1>11. Kept' = SubSeq(Kept, k + 1, Len(Kept))
  <2>1. Kept' = From(buffer_, begin_', size - k)
    BY <1>3, <1>7 DEF Kept, From
  <2>2. From(buffer_, begin_', size - k) = SubSeq(From(buffer_, begin_, size), k + 1, size)
    BY <1>2, <1>3, FromDropped, ZenonT(60)
  <2> QED BY <1>1, <2>1, <2>2 DEF KeptFacts
<1>12. Queue!Consume(n)
  <2>1. begin_' = Queue!Number(k)
    <3>1. Place(begin_, k + 1) = IF begin_ + k < B THEN begin_ + k ELSE begin_ + k - B
      BY <1>2, <1>3 DEF Place
    <3> QED BY <1>3, <3>1, NumberIs
  <2> QED BY <1>3, <1>4, <1>8, <1>11, <2>1 DEF Queue!Consume
<1>13. n \in 0..((buf_size_ - 1) + 1)
  BY <1>2
<1> QED BY <1>5, <1>10, <1>12, <1>13 DEF RingInv, Queue!Next

LEMMA SeekSimulates ==
    ASSUME RingInv, NEW p \in 0..(buf_size_ - 1), SeekPos(p)
    PROVE  RingInv' /\ Queue!Next
<1> DEFINE B == buf_size_
           there == \/ ppos >= begin_ /\ p >= begin_ /\ p <= ppos
                    \/ ppos < begin_ /\ (p >= begin_ \/ p <= ppos)
<1>1. RingTypes /\ Areas /\ Places /\ KeptFacts
  BY PlacesAre, KeptIs DEF RingInv
<1>2. /\ B \in Nat \ {0} /\ begin_ \in 0..(B - 1) /\ gptr \in 0..B /\ egptr \in 0..B
      /\ pptr \in 0..B /\ epptr \in 0..B /\ p \in 0..(B - 1)
      /\ size \in 0..(B - 1) /\ Read \in 0..size
  BY <1>1 DEF Places, RingTypes, KeptFacts
<1>3. UNCHANGED <<buffer_, begin_, pptr, epptr, nBytes>>
  BY DEF SeekPos
<1>4. size' = size /\ freespace' = freespace /\ Kept' = Kept
  BY <1>3 DEF size, freespace, Kept
<1>7. p \in 0..(buf_size_ - 1)
  OBVIOUS
<1>5. CASE ~there
  <2>1. out' = -1 /\ UNCHANGED <<gptr, egptr>>
    BY <1>5 DEF SeekPos, Eof
  <2>2. Read' = Read /\ showmanyc' = showmanyc
    BY <1>3, <2>1 DEF Read, showmanyc
  <2>3. RingInv'
    BY <1>1, <1>3, <1>4, <2>1, <2>2 DEF RingInv, RingTypes, Areas
  <2>4. ASSUME NEW i \in 0..size
        PROVE  Queue!Number(i) # p
    <3>1. Place(begin_, i + 1) # p
      BY <1>1, <1>2, <1>5 DEF Places, Place
    <3> QED BY <3>1, NumberIs
  <2>5. Queue!SeekTo(p)
    BY <1>1, <1>3, <1>4, <2>1, <2>2, <2>4 DEF Queue!SeekTo, KeptFacts
  <2> QED BY <1>7, <2>3, <2>5 DEF Queue!Next
<1>6. CASE there
  <2>1. /\ gptr' = p /\ egptr' = IF p <= ppos THEN ppos ELSE B
        /\ out' = p
    BY <1>6 DEF SeekPos, setg
  <2>2. ppos \in 0..(B - 1)
    BY <1>1, <1>2 DEF Places
  <2>3. RingTypes'
    BY <1>1, <1>2, <1>3, <2>1, <2>2 DEF RingTypes
  <2>4. Places'
    BY <2>3, PlacesAre, PTL
  <2>6. Read' \in 0..size
    BY <1>1, <1>2, <1>3, <1>6, <2>1, <2>4 DEF Places
  <2>7. gptr' < egptr' => egptr' - gptr' <= showmanyc'
    BY <1>1, <1>2, <1>3, <1>6, <2>1, <2>4 DEF Places
  <2>8. Areas'
    <3>1. pptr' < epptr' => epptr' - pptr' <= freespace'
      BY <1>1, <1>3, <1>4 DEF Areas
    <3> QED BY <1>2, <1>4, <2>6, <2>7, <3>1 DEF Areas
  <2>5. Queue!Number(Read') = p
    <3>1. Place(begin_, Read' + 1) = p
      BY <1>1, <1>2, <1>3, <1>6, <2>1, <2>4 DEF Places, Place
    <3> QED BY <2>6, <3>1, NumberIs
  <2>9. Queue!SeekTo(p)
    BY <1>1, <1>3, <1>4, <2>1, <2>5, <2>6 DEF Queue!SeekTo, KeptFacts
  <2> QED BY <1>7, <2>3, <2>8, <2>9 DEF RingInv, Queue!Next
<1> QED BY <1>5, <1>6

LEMMA RingStep == RingInv /\ [RingNext]_ringVars => RingInv' /\ [Queue!Next]_(Queue!vars)
<1> SUFFICES ASSUME RingInv, [RingNext]_ringVars PROVE RingInv' /\ [Queue!Next]_(Queue!vars)
  OBVIOUS
<1>1. CASE PutByte
  BY <1>1, PutSimulates
<1>2. CASE GetByte
  BY <1>2, GetSimulates
<1>3. ASSUME NEW n \in 0..buf_size_, Consume(n)
      PROVE  RingInv' /\ Queue!Next
  BY <1>3, ConsumeSimulates
<1>4. ASSUME NEW p \in 0..(buf_size_ - 1), SeekPos(p)
      PROVE  RingInv' /\ Queue!Next
  BY <1>4, SeekSimulates
<1>5. ASSUME NEW off \in {-1, 0, 1}, SeekOff(off)
      PROVE  RingInv' /\ Queue!Next
  <2>1. PICK from \in {begin_, gptr, pptr} : SeekPos(Masked(from + off))
    BY <1>5 DEF SeekOff
  <2>2. from \in Int
    BY CircularBufAssumption DEF RingInv, RingTypes
  <2>3. Masked(from + off) \in 0..(buf_size_ - 1)
    BY <2>2, MaskedInRing
  <2> QED BY <1>4, <2>1, <2>3
<1>6. CASE UNCHANGED ringVars
  <2>1. /\ UNCHANGED <<size, Read, showmanyc, freespace, Kept, out>>
        /\ UNCHANGED <<buffer_, begin_, gptr, egptr, pptr, epptr, nBytes>>
    BY <1>6 DEF ringVars, size, Read, showmanyc, freespace, Kept
  <2>2. RingInv'
    BY <2>1 DEF RingInv, RingTypes, Areas
  <2> QED BY <2>1, <2>2 DEF Queue!vars
<1> QED BY <1>1, <1>2, <1>3, <1>4, <1>5, <1>6 DEF RingNext

\* The ring is a queue in every behaviour, for every size and every bytes.
THEOREM RingSafe == RingSpec => RingIsQueue
<1>1. RingInit => Queue!Init
  <2> SUFFICES ASSUME RingInit PROVE Queue!Init
    OBVIOUS
  <2>1. RingTypes /\ Places /\ KeptFacts
    BY RingInitial, PlacesAre, KeptIs DEF RingInv
  <2>2. size = 0 /\ Read = 0 /\ begin_ = 0 /\ out = 0
    BY <2>1 DEF RingInit, Places
  <2>3. Kept = << >>
    BY <2>1, <2>2, EmptySeq DEF KeptFacts
  <2> QED BY <2>2, <2>3 DEF Queue!Init
<1> QED BY <1>1, RingInitial, RingStep, AreasAgree, PTL DEF RingSpec, RingIsQueue, Queue!Spec
-------------------------------------------------------------------------------
(* The ring of connection attempts (ConnAttempt).                             *)

\* Induction up to a bound, for a set.
LEMMA UpTo ==
    ASSUME NEW N \in Nat, NEW D, 0 \in D, \A k \in 1..N : k - 1 \in D => k \in D
    PROVE  \A k \in 0..N : k \in D
<1> DEFINE I == {k \in 0..N : k \notin D}
<1>1. ASSUME I # {}
      PROVE  FALSE
  <2>1. I \in SUBSET Nat
    OBVIOUS
  <2>2. PICK x \in I : \A y \in I : x <= y
    BY <1>1, <2>1, LeastOf
  <2>3. x \in 1..N /\ x - 1 \in 0..N /\ x - 1 \notin I
    BY <2>2
  <2> QED BY <2>3
<1> QED BY <1>1

LEMMA DivisionIs ==
    ASSUME NEW a \in Nat, NEW d \in Nat \ {0}
    PROVE  /\ a \div d \in Nat /\ a % d \in 0..(d - 1) /\ a = (a \div d) * d + (a % d)
  OBVIOUS

LEMMA TimesGrows == ASSUME NEW a \in Nat, NEW b \in Nat, NEW d \in Nat, a <= b PROVE a * d <= b * d
<1>1. (b - a) * d >= 0
  OBVIOUS
<1>2. (b - a) * d = b * d - a * d
  OBVIOUS
<1> QED BY <1>1, <1>2

LEMMA QuotientUnique ==
    ASSUME NEW n \in Nat \ {0}, NEW q \in Nat, NEW p \in Nat, NEW r \in 0..(n - 1),
           NEW s \in 0..(n - 1), q * n + r = p * n + s
    PROVE  r = s
<1>1. CASE q < p
  <2>1. (q + 1) * n <= p * n
    BY <1>1, TimesGrows
  <2>2. (q + 1) * n = q * n + n
    OBVIOUS
  <2> QED BY <2>1, <2>2
<1>2. CASE p < q
  <2>1. (p + 1) * n <= q * n
    BY <1>2, TimesGrows
  <2>2. (p + 1) * n = p * n + n
    OBVIOUS
  <2> QED BY <2>1, <2>2
<1>3. CASE p = q
  BY <1>3
<1> QED BY <1>1, <1>2, <1>3

LEMMA RemainderIs ==
    ASSUME NEW n \in Nat \ {0}, NEW q \in Nat, NEW r \in 0..(n - 1)
    PROVE  (q * n + r) % n = r
<1> DEFINE a == q * n + r
<1>1. a \in Nat
  OBVIOUS
<1>2. a \div n \in Nat /\ a % n \in 0..(n - 1) /\ a = (a \div n) * n + (a % n)
  BY <1>1, DivisionIs
<1> QED BY <1>2, QuotientUnique

LEMMA SameRemainder ==
    ASSUME NEW a \in Nat, NEW b \in Nat, NEW n \in Nat \ {0}
    PROVE  ((a % n) + b) % n = (a + b) % n /\ (a + n) % n = a % n
<1>1. a \div n \in Nat /\ a % n \in 0..(n - 1) /\ a = (a \div n) * n + (a % n)
  BY DivisionIs
<1> DEFINE c == (a % n) + b
<1>2. c \in Nat
  BY <1>1
<1>3. c \div n \in Nat /\ c % n \in 0..(n - 1) /\ c = (c \div n) * n + (c % n)
  BY <1>2, DivisionIs
<1> HIDE DEF c
<1>4. a + b = (a \div n) * n + c
  BY <1>1 DEF c
<1>5. a + b = (a \div n + c \div n) * n + (c % n) /\ a \div n + c \div n \in Nat
  <2> DEFINE p == a \div n
             q == c \div n
             r == c % n
  <2>1. p \in Nat /\ q \in Nat /\ r \in Nat /\ a + b = p * n + c /\ c = q * n + r
    BY <1>1, <1>3, <1>4
  <2> HIDE DEF p, q, r
  <2>2. (p + q) * n = p * n + q * n /\ p + q \in Nat /\ p * n \in Nat /\ q * n \in Nat
    BY <2>1
  <2>3. a + b = (p + q) * n + r
    BY <2>1, <2>2
  <2> QED BY <2>2, <2>3 DEF p, q, r
<1>6. (a + b) % n = c % n
  BY <1>3, <1>5, RemainderIs
<1>7. a + n = (a \div n + 1) * n + (a % n) /\ a \div n + 1 \in Nat
  BY <1>1
<1>8. (a + n) % n = a % n
  BY <1>1, <1>7, RemainderIs
<1> QED BY <1>6, <1>8 DEF c

\* Where the k-th interval from s begins.
Edge(s, k) == s + k * COUNTER_INTERVAL

\* The ends of the intervals, in order.
LEMMA Edges ==
    ASSUME NEW s \in Nat
    PROVE  /\ \A k \in Nat : Edge(s, k) \in Nat
           /\ Edge(s, 0) = s
           /\ \A a, b \in Nat : a <= b => Edge(s, a) <= Edge(s, b)
           /\ \A a \in Nat : Edge(s, a) < Edge(s, a + 1)
           /\ \A a, b \in Nat : Edge(Edge(s, a), b) = Edge(s, a + b)
<1>1. COUNTER_INTERVAL \in Nat \ {0}
  BY AttemptAssumption
<1>2. \A k \in Nat : Edge(s, k) \in Nat
  BY <1>1 DEF Edge
<1>3. Edge(s, 0) = s
  BY <1>1 DEF Edge
<1>4. ASSUME NEW a \in Nat, NEW b \in Nat, a <= b PROVE Edge(s, a) <= Edge(s, b)
  <2>1. a * COUNTER_INTERVAL <= b * COUNTER_INTERVAL
    BY <1>1, <1>4, TimesGrows
  <2> QED BY <1>1, <2>1 DEF Edge
<1>5. ASSUME NEW a \in Nat PROVE Edge(s, a) < Edge(s, a + 1)
  <2>1. (a + 1) * COUNTER_INTERVAL = a * COUNTER_INTERVAL + COUNTER_INTERVAL
    BY <1>1
  <2>2. a * COUNTER_INTERVAL \in Nat
    BY <1>1
  <2> QED BY <1>1, <2>1, <2>2 DEF Edge
<1>6. ASSUME NEW a \in Nat, NEW b \in Nat PROVE Edge(Edge(s, a), b) = Edge(s, a + b)
  <2>1. (a + b) * COUNTER_INTERVAL = a * COUNTER_INTERVAL + b * COUNTER_INTERVAL
    BY <1>1
  <2>2. a * COUNTER_INTERVAL \in Nat /\ b * COUNTER_INTERVAL \in Nat
    BY <1>1
  <2> QED BY <2>1, <2>2 DEF Edge
<1> QED BY <1>2, <1>3, <1>4, <1>5, <1>6

\* the time of the ring less one interval
Back == (COUNTER_NUM - 1) * COUNTER_INTERVAL

LEMMA BackIs ==
    ASSUME NEW s \in Nat
    PROVE  /\ Back \in Nat /\ Edge(s, COUNTER_NUM - 1) = s + Back
           /\ s + Back <= Edge(s, COUNTER_NUM)
           /\ Edge(s, COUNTER_NUM) + Back <= Edge(s, 2 * COUNTER_NUM)
           /\ Edge(s, 2 * COUNTER_NUM) = s + 2 * COUNTER_NUM * COUNTER_INTERVAL
           /\ Edge(s, COUNTER_NUM) = s + COUNTER_NUM * COUNTER_INTERVAL
<1>1. COUNTER_INTERVAL \in Nat \ {0} /\ COUNTER_NUM \in Nat \ {0} /\ COUNTER_NUM - 1 \in Nat
  BY AttemptAssumption
<1> DEFINE w == COUNTER_NUM * COUNTER_INTERVAL
<1>2. w \in Nat /\ Back \in Nat /\ w = Back + COUNTER_INTERVAL
  BY <1>1 DEF Back
<1>3. (2 * COUNTER_NUM) * COUNTER_INTERVAL = w + w
  BY <1>1
<1>4. /\ Edge(s, COUNTER_NUM) = s + w /\ Edge(s, COUNTER_NUM - 1) = s + Back
      /\ Edge(s, 2 * COUNTER_NUM) = s + (2 * COUNTER_NUM) * COUNTER_INTERVAL
  BY DEF Edge, Back
<1> HIDE DEF w
<1> QED BY <1>1, <1>2, <1>3, <1>4 DEF w

LEMMA OffsetIs ==
    ASSUME nStartTime \in Nat, now \in Nat, nStartTime <= now
    PROVE  /\ Offset \in Nat /\ Edge(nStartTime, Offset) <= now
           /\ now < Edge(nStartTime, Offset + 1)
<1>1. COUNTER_INTERVAL \in Nat \ {0} /\ now - nStartTime \in Nat
  BY AttemptAssumption
<1>2. /\ Offset \in Nat
      /\ (now - nStartTime) % COUNTER_INTERVAL \in 0..(COUNTER_INTERVAL - 1)
      /\ now - nStartTime = Offset * COUNTER_INTERVAL + ((now - nStartTime) % COUNTER_INTERVAL)
  BY <1>1, DivisionIs DEF Offset
<1>3. /\ (Offset + 1) * COUNTER_INTERVAL = Offset * COUNTER_INTERVAL + COUNTER_INTERVAL
      /\ Offset * COUNTER_INTERVAL \in Nat
  BY <1>1, <1>2
<1> QED BY <1>1, <1>2, <1>3 DEF Edge

\* The i-th counter of a ring that begins at b.
SlotOf(b, i) == (b + i) % COUNTER_NUM

LEMMA SlotsAre ==
    ASSUME NEW b \in Intervals
    PROVE  /\ \A i \in Nat : SlotOf(b, i) \in Intervals /\ SlotOf(b, i + COUNTER_NUM) = SlotOf(b, i)
           /\ \A i, j \in Intervals : SlotOf(b, i) = SlotOf(b, j) => i = j
           /\ \A i, j \in Nat : (SlotOf(b, i) + j) % COUNTER_NUM = SlotOf(b, i + j)
<1>1. COUNTER_NUM \in Nat \ {0} /\ b \in Nat
  BY AttemptAssumption DEF Intervals
<1>2. ASSUME NEW i \in Nat PROVE SlotOf(b, i) \in Intervals /\ SlotOf(b, i + COUNTER_NUM) = SlotOf(b, i)
  <2>1. b + i \in Nat /\ b + (i + COUNTER_NUM) = (b + i) + COUNTER_NUM
    BY <1>1
  <2> QED BY <1>1, <2>1, DivisionIs, SameRemainder, ZenonT(60) DEF SlotOf, Intervals
<1>3. ASSUME NEW i \in Nat, NEW j \in Nat PROVE (SlotOf(b, i) + j) % COUNTER_NUM = SlotOf(b, i + j)
  <2> DEFINE x == b + i
  <2>1. x \in Nat /\ b + (i + j) = x + j
    BY <1>1
  <2> HIDE DEF x
  <2>2. ((x % COUNTER_NUM) + j) % COUNTER_NUM = (x + j) % COUNTER_NUM
    BY <1>1, <2>1, SameRemainder
  <2> QED BY <2>1, <2>2 DEF SlotOf, x
<1>4. ASSUME NEW i \in Intervals
      PROVE  SlotOf(b, i) = IF b + i < COUNTER_NUM THEN b + i
                       ELSE b + i - COUNTER_NUM
  <2>1. CASE b + i < COUNTER_NUM
    <3>1. 0 * COUNTER_NUM + (b + i) = b + i
          /\ b + i \in 0..(COUNTER_NUM - 1)
      BY <1>1, <2>1 DEF Intervals
    <3> QED BY <1>1, <2>1, <3>1, RemainderIs DEF SlotOf
  <2>2. CASE ~ (b + i < COUNTER_NUM)
    <3>1. 1 * COUNTER_NUM + (b + i - COUNTER_NUM) = b + i
          /\ b + i - COUNTER_NUM \in 0..(COUNTER_NUM - 1)
      BY <1>1, <2>2 DEF Intervals
    <3> QED BY <1>1, <2>2, <3>1, RemainderIs DEF SlotOf
  <2> QED BY <2>1, <2>2
<1>5. ASSUME NEW i \in Intervals, NEW j \in Intervals, SlotOf(b, i) = SlotOf(b, j) PROVE i = j
  <2>1. i \in 0..(COUNTER_NUM - 1) /\ j \in 0..(COUNTER_NUM - 1) /\ b \in 0..(COUNTER_NUM - 1)
    BY DEF Intervals
  <2> QED BY <1>1, <1>4, <1>5, <2>1
<1> QED BY <1>2, <1>3, <1>5

\* The attempts of h from the time s on and before the time t.
Between(h, s, t) == {j \in DOMAIN h : s <= h[j].at /\ h[j].at < t}

Attempts == [at : Nat, admitted : BOOLEAN]

AttemptTypes ==
    /\ arrayAttempt \in [Intervals -> Nat]
    /\ nAttempts \in Nat /\ nStartIndex \in Intervals /\ nStartTime \in Nat
    /\ now \in Nat /\ history \in Seq(Attempts)

\* The ring counts the attempts of each interval from s on, and the latest is among them; older
\* ones are older than the ring is long, less one interval.
Ring(h, s, t) ==
    LET last == h[Len(h)]
    IN  /\ s <= last.at /\ last.at < Edge(s, COUNTER_NUM) /\ last.at <= t
        /\ \A j \in DOMAIN h : /\ h[j].at <= last.at
                               /\ h[j].at < s => h[j].at + Back <= last.at

Counts(a, b, h, s) ==
    \A i \in Intervals : a[SlotOf(b, i)] = Cardinality(Between(h, Edge(s, i), Edge(s, i + 1)))

AttemptInv ==
    /\ AttemptTypes
    /\ history = <<>> => nStartTime = 0 /\ now >= Edge(0, 2 * COUNTER_NUM)
    /\ history # <<>> =>
          /\ Ring(history, nStartTime, now)
          /\ Counts(arrayAttempt, nStartIndex, history, nStartTime)
          /\ nAttempts = Cardinality(Between(history, nStartTime, Edge(nStartTime, COUNTER_NUM)))
          /\ history[Len(history)].admitted => nAttempts <= ATTEMPT_LIMIT

LEMMA BetweenIs ==
    ASSUME NEW h \in Seq(Attempts), NEW s \in Nat, NEW t \in Nat, NEW u \in Nat, s <= t, t <= u
    PROVE  /\ IsFiniteSet(Between(h, s, t)) /\ Cardinality(Between(h, s, t)) \in Nat
           /\ Cardinality(Between(h, s, u)) =
                  Cardinality(Between(h, s, t)) + Cardinality(Between(h, t, u))
<1>1. \A j \in DOMAIN h : h[j].at \in Nat
  <2>1. \A j \in DOMAIN h : h[j] \in Attempts
    OBVIOUS
  <2> QED BY <2>1 DEF Attempts
<1>2. IsFiniteSet(DOMAIN h)
  <2>1. DOMAIN h = 1..Len(h) /\ Len(h) \in Nat
    OBVIOUS
  <2> QED BY <2>1, FS_Interval
<1>3. \A a, b : IsFiniteSet(Between(h, a, b)) /\ Cardinality(Between(h, a, b)) \in Nat
  <2> SUFFICES ASSUME NEW a, NEW b
               PROVE  IsFiniteSet(Between(h, a, b)) /\ Cardinality(Between(h, a, b)) \in Nat
    OBVIOUS
  <2>1. Between(h, a, b) \subseteq DOMAIN h
    BY DEF Between
  <2> QED BY <1>2, <2>1, FS_Subset, FS_CardinalityType
<1>4. /\ Between(h, s, u) = Between(h, s, t) \cup Between(h, t, u)
      /\ Between(h, s, t) \cap Between(h, t, u) = {}
  BY <1>1 DEF Between
<1>5. Cardinality(Between(h, s, t) \cap Between(h, t, u)) = 0
  BY <1>4, FS_EmptySet
<1>6. Cardinality(Between(h, s, t) \cup Between(h, t, u)) =
          Cardinality(Between(h, s, t)) + Cardinality(Between(h, t, u))
              - Cardinality(Between(h, s, t) \cap Between(h, t, u))
  BY <1>3, FS_Union
<1>7. Cardinality(Between(h, s, t)) \in Nat /\ Cardinality(Between(h, t, u)) \in Nat
  BY <1>3
<1> QED BY <1>3, <1>4, <1>5, <1>6, <1>7

\* A later attempt, and the intervals it falls into.
LEMMA OneMoreAttempt ==
    ASSUME NEW h \in Seq(Attempts), NEW x \in Attempts, NEW s \in Nat, NEW t \in Nat
    PROVE  Cardinality(Between(Append(h, x), s, t)) =
               Cardinality(Between(h, s, t)) + (IF s <= x.at /\ x.at < t THEN 1 ELSE 0)
<1> DEFINE g == Append(h, x)
<1>1. /\ g \in Seq(Attempts) /\ Len(h) \in Nat /\ Len(g) = Len(h) + 1
      /\ DOMAIN g = (DOMAIN h) \cup {Len(h) + 1} /\ Len(h) + 1 \notin DOMAIN h
      /\ g[Len(h) + 1] = x /\ \A j \in DOMAIN h : g[j] = h[j]
  OBVIOUS
<1> HIDE DEF g
<1>2. IsFiniteSet(Between(h, s, t))
  <2>1. Between(h, s, t) \subseteq DOMAIN h /\ DOMAIN h = 1..Len(h)
    BY DEF Between
  <2>2. IsFiniteSet(1..Len(h))
    BY <1>1, FS_Interval
  <2> QED BY <2>1, <2>2, FS_Subset
<1>3. Cardinality(Between(h, s, t)) \in Nat
  BY <1>2, FS_CardinalityType
<1>4. CASE s <= x.at /\ x.at < t
  <2>1. Between(g, s, t) = Between(h, s, t) \cup {Len(h) + 1}
    BY <1>1, <1>4 DEF Between
  <2>2. Len(h) + 1 \notin Between(h, s, t)
    BY <1>1 DEF Between
  <2>3. Cardinality(Between(g, s, t)) = Cardinality(Between(h, s, t)) + 1
    BY <1>2, <2>1, <2>2, FS_AddElement
  <2> QED BY <1>4, <2>3 DEF g
<1>5. CASE ~ (s <= x.at /\ x.at < t)
  <2>1. Between(g, s, t) = Between(h, s, t)
    BY <1>1, <1>5 DEF Between
  <2> QED BY <1>3, <1>5, <2>1 DEF g
<1> QED BY <1>4, <1>5

\* What the leaving intervals held is what was counted since the start of the ring.
LEMMA LeftIs ==
    ASSUME AttemptInv, history # <<>>, Leaving \in 0..COUNTER_NUM
    PROVE  Left = Cardinality(Between(history, nStartTime, Edge(nStartTime, Leaving)))
<1> DEFINE s == nStartTime
           B(k) == Cardinality(Between(history, s, Edge(s, k)))
           sum == CHOOSE f : f = [k \in 0..Leaving |->
                                     IF k = 0 THEN 0 ELSE f[k - 1] + arrayAttempt[Slot(k - 1)]]
           f == [k \in 0..Leaving |-> B(k)]
<1>1. /\ s \in Nat /\ history \in Seq(Attempts) /\ COUNTER_NUM \in Nat \ {0}
      /\ \A i \in Intervals : arrayAttempt[Slot(i)] =
                                  Cardinality(Between(history, Edge(s, i), Edge(s, i + 1)))
  BY AttemptAssumption DEF AttemptInv, AttemptTypes, Counts, SlotOf, Slot
<1>2. B(0) = 0
  <2>1. Edge(s, 0) = s
    BY <1>1, Edges
  <2>2. \A j \in DOMAIN history : history[j].at \in Nat
    <3>1. \A j \in DOMAIN history : history[j] \in Attempts
      BY <1>1
    <3> QED BY <3>1 DEF Attempts
  <2>3. Between(history, s, s) = {}
    BY <1>1, <2>2 DEF Between
  <2> QED BY <2>1, <2>3, FS_EmptySet
<1>3. ASSUME NEW k \in 1..Leaving
      PROVE  B(k) = B(k - 1) + arrayAttempt[Slot(k - 1)]
  <2>1. k - 1 \in Nat /\ k \in Nat /\ k - 1 \in Intervals /\ k - 1 + 1 = k
    BY <1>1, <1>3 DEF Intervals
  <2>2. /\ Edge(s, k - 1) \in Nat /\ Edge(s, k) \in Nat
        /\ s <= Edge(s, k - 1) /\ Edge(s, k - 1) <= Edge(s, k)
    BY <1>1, <2>1, Edges
  <2>3. B(k) = B(k - 1) + Cardinality(Between(history, Edge(s, k - 1), Edge(s, k)))
    BY <1>1, <2>2, BetweenIs
  <2>4. arrayAttempt[Slot(k - 1)] = Cardinality(Between(history, Edge(s, k - 1), Edge(s, k)))
    BY <1>1, <2>1
  <2> QED BY <2>3, <2>4
<1> HIDE DEF B, s
<1>4. f = [k \in 0..Leaving |-> IF k = 0 THEN 0 ELSE f[k - 1] + arrayAttempt[Slot(k - 1)]]
  <2>1. ASSUME NEW k \in 0..Leaving
        PROVE  B(k) = IF k = 0 THEN 0 ELSE f[k - 1] + arrayAttempt[Slot(k - 1)]
    <3>1. CASE k = 0
      BY <1>2, <3>1
    <3>2. CASE k # 0
      <4>1. k \in 1..Leaving /\ k - 1 \in 0..Leaving
        BY <3>2
      <4> QED BY <1>3, <3>2, <4>1
    <3> QED BY <3>1, <3>2
  <2> QED BY <2>1
<1>5. sum = [k \in 0..Leaving |-> IF k = 0 THEN 0 ELSE sum[k - 1] + arrayAttempt[Slot(k - 1)]]
  BY <1>4
<1> DEFINE D == {k \in 0..Leaving : sum[k] = B(k)}
<1> HIDE DEF sum
<1>6. 0 \in D /\ \A k \in 1..Leaving : k - 1 \in D => k \in D
  <2>1. 0 \in D
    BY <1>2, <1>5
  <2>2. ASSUME NEW k \in 1..Leaving, k - 1 \in D
        PROVE  k \in D
    <3>1. k \in 0..Leaving /\ k # 0 /\ sum[k - 1] = B(k - 1)
      BY <2>2
    <3> QED BY <1>3, <1>5, <3>1
  <2> QED BY <2>1, <2>2
<1> HIDE DEF D
<1>7. \A k \in 0..Leaving : k \in D
  BY <1>6, UpTo
<1>8. sum[Leaving] = B(Leaving)
  BY <1>7 DEF D
<1> QED BY <1>8 DEF Left, sum, B, s

LEMMA HistoryIs ==
    ASSUME AttemptInv
    PROVE  /\ \A j \in DOMAIN history : history[j].at \in Nat
           /\ history # <<>> => /\ Len(history) \in DOMAIN history
                                /\ nStartTime <= now
                                /\ now >= history[Len(history)].at
           /\ DOMAIN history = 1..Len(history) /\ Len(history) \in Nat
<1>1. history \in Seq(Attempts) /\ nStartTime \in Nat /\ now \in Nat
  BY DEF AttemptInv, AttemptTypes
<1>2. \A j \in DOMAIN history : history[j].at \in Nat
  <2>1. \A j \in DOMAIN history : history[j] \in Attempts
    BY <1>1
  <2> QED BY <2>1 DEF Attempts
<1>3. DOMAIN history = 1..Len(history) /\ Len(history) \in Nat
  BY <1>1
<1>4. history # <<>> => Len(history) \in DOMAIN history
  BY <1>1
<1>5. history # <<>> => nStartTime <= now /\ now >= history[Len(history)].at
  <2> SUFFICES ASSUME history # <<>> PROVE nStartTime <= now /\ now >= history[Len(history)].at
    OBVIOUS
  <2> DEFINE t == history[Len(history)].at
  <2>1. nStartTime <= t /\ t <= now
    BY DEF AttemptInv, Ring
  <2>2. t \in Nat
    BY <1>2, <1>4
  <2> QED BY <1>1, <2>1, <2>2
<1> QED BY <1>2, <1>3, <1>4, <1>5

LEMMA AppendedRing ==
    ASSUME AttemptInv, NEW x \in Attempts, x.at = now, NEW s \in Nat,
           s <= now, now < Edge(s, COUNTER_NUM),
           \A j \in DOMAIN history : history[j].at < s => history[j].at + Back <= now
    PROVE  Ring(Append(history, x), s, now)
<1> DEFINE g == Append(history, x)
<1>1. history \in Seq(Attempts) /\ now \in Nat
  BY DEF AttemptInv, AttemptTypes
<1>2. /\ Len(g) = Len(history) + 1 /\ g[Len(history) + 1] = x
      /\ DOMAIN g = (DOMAIN history) \cup {Len(history) + 1}
      /\ \A j \in DOMAIN history : g[j] = history[j]
  BY <1>1
<1>3. ASSUME NEW j \in DOMAIN history
      PROVE  history[j].at <= now
  <2>1. history # <<>>
    BY <1>3, HistoryIs
  <2> DEFINE t == history[Len(history)].at
  <2>2. history[j].at <= t /\ t <= now
    BY <2>1 DEF AttemptInv, Ring
  <2>3. history[j].at \in Nat /\ t \in Nat
    BY <2>1, HistoryIs
  <2> QED BY <1>1, <2>2, <2>3
<1> HIDE DEF g
<1>4. ASSUME NEW j \in DOMAIN g
      PROVE  g[j].at <= now /\ (g[j].at < s => g[j].at + Back <= now)
  <2>1. CASE j \in DOMAIN history
    BY <1>2, <1>3, <2>1
  <2>2. CASE j = Len(history) + 1
    BY <1>1, <1>2, <2>2
  <2> QED BY <1>2, <2>1, <2>2
<1>5. g[Len(g)].at = now
  BY <1>2
<1> QED BY <1>1, <1>4, <1>5 DEF Ring, g

LEMMA SlidingKeeps == ASSUME AttemptInv, Attempt, AttemptSliding PROVE AttemptInv'
<1> DEFINE s == nStartTime
           L == Leaving
           o == Offset
           e == Edge(s, L)
           N == COUNTER_NUM
           h == history
           x == [at |-> now, admitted |-> nAttempts' <= ATTEMPT_LIMIT]
           C(a, b) == Cardinality(Between(h, a, b))
<1>1. /\ s \in Nat /\ now \in Nat /\ h \in Seq(Attempts) /\ N \in Nat \ {0}
      /\ nStartIndex \in Intervals /\ arrayAttempt \in [Intervals -> Nat] /\ nAttempts \in Nat
      /\ \A j \in DOMAIN h : h[j].at \in Nat
  BY AttemptAssumption, HistoryIs DEF AttemptInv, AttemptTypes
<1>2. /\ o < 2 * N /\ nAttempts' = nAttempts - Left + 1 /\ nStartTime' = s + L * COUNTER_INTERVAL
      /\ nStartIndex' = Slot(L) /\ arrayAttempt' = [Slid EXCEPT ![Slot(o)] = Slid[Slot(o)] + 1]
      /\ history' = Append(h, x) /\ now' = now
  BY DEF Attempt, AttemptSliding
<1>3. s <= now
  <2>1. CASE h = <<>>
    BY <1>1, <2>1 DEF AttemptInv
  <2>2. CASE h # <<>>
    BY <2>2, HistoryIs
  <2> QED BY <2>1, <2>2
<1>4. o \in Nat /\ Edge(s, o) <= now /\ now < Edge(s, o + 1)
  BY <1>1, <1>3, OffsetIs
<1>5. h # <<>>
  <2> SUFFICES ASSUME h = <<>> PROVE FALSE
    OBVIOUS
  <2>1. s = 0 /\ now >= Edge(0, 2 * N)
    BY DEF AttemptInv
  <2>2. o + 1 \in Nat /\ 2 * N \in Nat /\ o + 1 <= 2 * N
    BY <1>1, <1>2, <1>4
  <2>3. Edge(0, o + 1) \in Nat /\ Edge(0, 2 * N) \in Nat /\ Edge(0, o + 1) <= Edge(0, 2 * N)
    BY <2>2, Edges
  <2> QED BY <1>1, <1>4, <2>1, <2>3
<1>6. /\ L \in 0..N /\ L <= o /\ o - L \in 0..(N - 1) /\ (L # 0 => L + (N - 1) = o)
  BY <1>1, <1>2, <1>4 DEF Leaving
<1> HIDE DEF L, o
<1>7. /\ e \in Nat /\ s <= e /\ e <= Edge(s, N) /\ Edge(s, N) \in Nat /\ Edge(e, N) \in Nat
      /\ Edge(s, N) <= Edge(e, N) /\ Edge(e, N) = Edge(s, L + N)
      /\ \A k \in Nat : Edge(e, k) = Edge(s, L + k)
  <2>1. L \in Nat /\ N \in Nat /\ L <= N /\ N <= L + N /\ L + N \in Nat /\ 0 <= L
    BY <1>1, <1>6
  <2>2. e \in Nat /\ s <= e /\ e <= Edge(s, N) /\ Edge(s, N) \in Nat /\ Edge(s, L + N) \in Nat
    <3>1. Edge(s, 0) = s /\ Edge(s, 0) <= Edge(s, L)
      BY <1>1, <2>1, Edges
    <3> QED BY <1>1, <2>1, <3>1, Edges
  <2> DEFINE E(k) == Edge(s, k)
  <2>3. \A k \in Nat : Edge(e, k) = E(L + k)
    BY <1>1, <2>1, Edges
  <2>4. E(N) <= E(L + N)
    BY <1>1, <2>1, Edges
  <2> HIDE DEF E
  <2>5. Edge(e, N) = E(L + N)
    BY <2>1, <2>3
  <2> QED BY <2>2, <2>3, <2>4, <2>5 DEF E
<1>8. \A j \in DOMAIN h : h[j].at < Edge(s, N)
  <2> SUFFICES ASSUME NEW j \in DOMAIN h PROVE h[j].at < Edge(s, N)
    OBVIOUS
  <2> DEFINE t == h[Len(h)].at
  <2>1. h[j].at <= t /\ t < Edge(s, N)
    BY <1>5 DEF AttemptInv, Ring
  <2>2. t \in Nat /\ h[j].at \in Nat
    BY <1>1, <1>5, HistoryIs
  <2> QED BY <1>7, <2>1, <2>2
<1> HIDE DEF C
<1>9. nAttempts' = C(e, Edge(e, N)) + 1 /\ C(e, Edge(e, N)) \in Nat
  <2>1. Left = C(s, e)
    BY <1>5, <1>6, LeftIs DEF C, L
  <2>2. nAttempts = C(s, Edge(s, N))
    BY <1>5 DEF AttemptInv, C
  <2>3. C(s, Edge(s, N)) = C(s, e) + C(e, Edge(s, N)) /\ C(s, e) \in Nat
    BY <1>1, <1>7, BetweenIs DEF C
  <2>4. C(e, Edge(s, N)) \in Nat
    BY <1>1, <1>7, BetweenIs DEF C
  <2>5. Between(h, e, Edge(e, N)) = Between(h, e, Edge(s, N))
    BY <1>1, <1>7, <1>8 DEF Between
  <2>6. C(e, Edge(e, N)) = C(e, Edge(s, N))
    BY <2>5 DEF C
  <2> QED BY <1>2, <2>1, <2>2, <2>3, <2>4, <2>6
<1>10. e <= now /\ now < Edge(e, N)
  <2>1. L \in Nat /\ L <= o /\ o + 1 <= L + N /\ L + N \in Nat /\ o + 1 \in Nat
    BY <1>1, <1>4, <1>6
  <2>2. e <= Edge(s, o) /\ Edge(s, o + 1) <= Edge(s, L + N) /\ Edge(s, o) \in Nat /\ Edge(s, o + 1) \in Nat
    BY <1>1, <1>4, <2>1, Edges
  <2> QED BY <1>1, <1>4, <1>7, <2>2
<1>11. x \in Attempts /\ x.at = now
  BY <1>1 DEF Attempts
<1>12. Ring(Append(h, x), e, now)
  <2>1. ASSUME NEW j \in DOMAIN h, h[j].at < e
        PROVE  h[j].at + Back <= now
    <3>1. Back \in Nat
      BY <1>1, BackIs
    <3>2. CASE L = 0
      <4>1. e = s
        BY <1>1, <3>2, Edges
      <4> DEFINE t == h[Len(h)].at
      <4>2. h[j].at + Back <= t /\ t <= now
        BY <1>5, <2>1, <4>1 DEF AttemptInv, Ring
      <4>3. t \in Nat /\ h[j].at \in Nat
        BY <1>1, <1>5, HistoryIs
      <4> QED BY <1>1, <3>1, <4>2, <4>3
    <3>3. CASE L # 0
      <4>1. Edge(e, N - 1) = e + Back
        BY <1>7, BackIs
      <4>2. Edge(e, N - 1) = Edge(s, o)
        <5>1. N - 1 \in Nat /\ L + (N - 1) = o
          BY <1>1, <1>6, <3>3
        <5> QED BY <1>7, <5>1
      <4>3. h[j].at \in Nat
        BY <1>1
      <4> QED BY <1>1, <1>4, <1>7, <2>1, <3>1, <4>1, <4>2, <4>3, SMTT(30)
    <3> QED BY <3>2, <3>3
  <2> QED BY <1>7, <1>10, <1>11, <2>1, AppendedRing
<1>13. Counts(arrayAttempt', Slot(L), Append(h, x), e)
  <2> SUFFICES ASSUME NEW i \in Intervals
               PROVE  arrayAttempt'[SlotOf(Slot(L), i)] =
                          Cardinality(Between(Append(h, x), Edge(e, i), Edge(e, i + 1)))
    BY DEF Counts
  <2> DEFINE z == Slot(L + i)
  <2>1. /\ i \in Nat /\ i < N /\ L \in Nat /\ L + i \in Nat /\ o - L \in Intervals /\ o \in Nat
        /\ L + (o - L) = o
    BY <1>1, <1>4, <1>6 DEF Intervals
  <2>2. /\ Slot(L) \in Intervals /\ z \in Intervals /\ Slot(o) \in Intervals
        /\ SlotOf(Slot(L), i) = z /\ SlotOf(Slot(L), o - L) = Slot(o)
    <3>1. o - L \in Nat
      BY <2>1 DEF Intervals
    <3>2. \A k : Slot(k) = SlotOf(nStartIndex, k)
      BY DEF Slot, SlotOf
    <3>3. \A k \in Nat : Slot(k) \in Intervals
      BY <1>1, <3>2, SlotsAre
    <3>4. \A j, k \in Nat : SlotOf(Slot(j), k) = Slot(j + k)
      <4>1. \A j, k \in Nat : (SlotOf(nStartIndex, j) + k) % COUNTER_NUM = SlotOf(nStartIndex, j + k)
        BY <1>1, SlotsAre
      <4> QED BY <3>2, <4>1 DEF SlotOf
    <3>5. SlotOf(Slot(L), i) = Slot(L + i)
      BY <2>1, <3>4
    <3>6. SlotOf(Slot(L), o - L) = Slot(L + (o - L))
      BY <2>1, <3>1, <3>4
    <3> QED BY <2>1, <3>3, <3>5, <3>6
  <2>3. z = Slot(o) <=> i = o - L
    <3> DEFINE b == Slot(L)
    <3>1. b \in Intervals
      BY <2>2
    <3>2. SlotOf(b, i) = z /\ SlotOf(b, o - L) = Slot(o)
      BY <2>2
    <3> HIDE DEF b, z
    <3>3. SlotOf(b, i) = SlotOf(b, o - L) => i = o - L
      BY <2>1, <3>1, SlotsAre
    <3> QED BY <3>2, <3>3
  <2>4. /\ Edge(e, i) = Edge(s, L + i) /\ Edge(e, i + 1) = Edge(s, (L + i) + 1)
        /\ Edge(e, i) \in Nat /\ Edge(e, i + 1) \in Nat
    <3>1. i + 1 \in Nat /\ L + (i + 1) = (L + i) + 1
      BY <2>1
    <3> QED BY <1>7, <2>1, <3>1, Edges
  <2>5. Slid[z] = C(Edge(e, i), Edge(e, i + 1))
    <3>1. Slid[z] = IF \E k \in 0..(L - 1) : z = Slot(k) THEN 0 ELSE arrayAttempt[z]
      BY <1>1, <2>2 DEF Slid, L
    <3>2. CASE L + i < N
      <4>1. L + i \in Intervals /\ \A k \in 0..(L - 1) : k \in Intervals /\ k # L + i
        BY <1>1, <1>6, <2>1, <3>2 DEF Intervals
      <4>2. \A k \in 0..(L - 1) : z # Slot(k)
        BY <1>1, <4>1, SlotsAre DEF Slot, SlotOf
      <4>3. arrayAttempt[z] = C(Edge(s, L + i), Edge(s, (L + i) + 1))
        BY <1>5, <4>1 DEF AttemptInv, Counts, C, Slot, SlotOf
      <4> QED BY <2>4, <3>1, <4>2, <4>3
    <3>3. CASE ~ (L + i < N)
      <4>1. L + i - N \in 0..(L - 1) /\ L + i - N \in Nat /\ (L + i - N) + N = L + i
        <5>1. L \in Nat /\ i \in Nat /\ N \in Nat /\ i < N /\ N <= L + i
          BY <1>1, <2>1, <3>3
        <5> HIDE DEF L, N
        <5> QED BY <5>1
      <4>2. z = Slot(L + i - N)
        BY <1>1, <4>1, SlotsAre DEF Slot, SlotOf
      <4>3. Edge(s, N) <= Edge(e, i)
        BY <1>1, <2>1, <2>4, <3>3, Edges
      <4>4. Between(h, Edge(e, i), Edge(e, i + 1)) = {}
        BY <1>1, <1>7, <1>8, <2>4, <4>3 DEF Between
      <4> QED BY <3>1, <4>1, <4>2, <4>4, FS_EmptySet DEF C
    <3> QED BY <3>2, <3>3
  <2>6. (Edge(e, i) <= now /\ now < Edge(e, i + 1)) <=> i = o - L
    <3>1. Edge(s, o) \in Nat /\ Edge(s, o + 1) \in Nat
      BY <1>1, <1>4, Edges
    <3>2. CASE L + i = o
      BY <1>4, <2>1, <2>4, <3>2
    <3>3. CASE L + i < o
      <4>1. (L + i) + 1 \in Nat /\ (L + i) + 1 <= o
        BY <2>1, <3>3
      <4>2. Edge(e, i + 1) <= Edge(s, o)
        BY <1>1, <2>1, <2>4, <4>1, Edges
      <4> QED BY <1>1, <1>4, <2>1, <2>4, <3>1, <3>3, <4>2, SMTT(30)
    <3>4. CASE L + i > o
      <4>1. o + 1 \in Nat /\ o + 1 <= L + i
        BY <2>1, <3>4
      <4>2. Edge(s, o + 1) <= Edge(e, i)
        BY <1>1, <2>1, <2>4, <4>1, Edges
      <4> QED BY <1>1, <1>4, <2>1, <2>4, <3>1, <3>4, <4>2, SMTT(30)
    <3> QED BY <2>1, <3>2, <3>3, <3>4
  <2>7. Cardinality(Between(Append(h, x), Edge(e, i), Edge(e, i + 1))) =
            C(Edge(e, i), Edge(e, i + 1)) + (IF i = o - L THEN 1 ELSE 0)
    BY <1>1, <1>11, <2>4, <2>6, OneMoreAttempt DEF C
  <2>8. Slid \in [Intervals -> Nat]
    BY <1>1 DEF Slid
  <2>9. arrayAttempt'[z] = IF z = Slot(o) THEN Slid[z] + 1 ELSE Slid[z]
    BY <1>2, <2>2, <2>8
  <2>10. Slid[z] \in Nat
    BY <2>2, <2>8
  <2> QED BY <2>2, <2>3, <2>5, <2>7, <2>9, <2>10
<1>14. nAttempts' = Cardinality(Between(Append(h, x), e, Edge(e, N)))
  BY <1>1, <1>7, <1>9, <1>10, <1>11, OneMoreAttempt DEF C
<1>15. AttemptTypes'
  <2>1. Slid \in [Intervals -> Nat]
    BY <1>1 DEF Slid
  <2>2. Slot(o) \in Intervals /\ Slot(L) \in Intervals
    BY <1>1, <1>4, <1>6, SlotsAre DEF Slot, SlotOf
  <2>3. arrayAttempt' \in [Intervals -> Nat]
    <3>1. Slid[Slot(o)] + 1 \in Nat
      BY <2>1, <2>2
    <3> QED BY <1>2, <2>1, <3>1
  <2>4. nStartTime' = e /\ nAttempts' \in Nat
    BY <1>2, <1>9 DEF Edge
  <2>5. history' \in Seq(Attempts)
    BY <1>1, <1>2, <1>11
  <2> QED BY <1>1, <1>2, <1>7, <2>2, <2>3, <2>4, <2>5 DEF AttemptTypes
<1>16. nStartTime' = e
  BY <1>2 DEF Edge
<1>17. /\ history' # <<>> /\ history'[Len(history')] = x
  BY <1>1, <1>2, <1>11
<1>18. history'[Len(history')].admitted => nAttempts' <= ATTEMPT_LIMIT
  <2>1. x.admitted = (nAttempts' <= ATTEMPT_LIMIT)
    OBVIOUS
  <2> QED BY <1>17, <2>1
<1> HIDE DEF x, e
<1>19. /\ Ring(history', nStartTime', now')
       /\ Counts(arrayAttempt', nStartIndex', history', nStartTime')
       /\ nAttempts' = Cardinality(Between(history', nStartTime', Edge(nStartTime', COUNTER_NUM)))
  BY <1>2, <1>12, <1>13, <1>14, <1>16
<1> QED BY <1>15, <1>17, <1>18, <1>19 DEF AttemptInv

LEMMA AnewKeeps == ASSUME AttemptInv, Attempt, AttemptAnew PROVE AttemptInv'
<1> DEFINE s == nStartTime
           N == COUNTER_NUM
           h == history
           o == Offset
           x == [at |-> now, admitted |-> nAttempts' <= ATTEMPT_LIMIT]
<1>1. /\ s \in Nat /\ now \in Nat /\ h \in Seq(Attempts) /\ N \in Nat \ {0}
      /\ arrayAttempt \in [Intervals -> Nat] /\ Back \in Nat
      /\ \A j \in DOMAIN h : h[j].at \in Nat
  BY AttemptAssumption, HistoryIs, BackIs DEF AttemptInv, AttemptTypes
<1>2. /\ o >= 2 * N /\ nAttempts' = 1 /\ nStartIndex' = 0 /\ nStartTime' = now
      /\ arrayAttempt' = [k \in Intervals |-> IF k = 0 THEN 1 ELSE 0]
      /\ history' = Append(h, x) /\ now' = now
  BY <1>1 DEF Attempt, AttemptAnew
<1>3. s <= now
  <2>1. CASE h = <<>>
    BY <1>1, <2>1 DEF AttemptInv
  <2>2. CASE h # <<>>
    BY <2>2, HistoryIs
  <2> QED BY <2>1, <2>2
<1>4. o \in Nat /\ Edge(s, o) <= now /\ now < Edge(s, o + 1)
  BY <1>1, <1>3, OffsetIs
<1> HIDE DEF o
<1>5. Edge(s, 2 * N) <= now
  <2>1. 2 * N \in Nat
    BY <1>1
  <2>2. Edge(s, 2 * N) <= Edge(s, o) /\ Edge(s, 2 * N) \in Nat /\ Edge(s, o) \in Nat
    BY <1>1, <1>2, <1>4, <2>1, Edges
  <2> QED BY <1>1, <1>4, <2>2
<1>6. ASSUME NEW j \in DOMAIN h
      PROVE  h[j].at + Back <= now /\ h[j].at < now
  <2>1. h # <<>>
    BY <1>6, HistoryIs
  <2> DEFINE t == h[Len(h)].at
  <2>2. h[j].at <= t /\ t < Edge(s, N)
    BY <2>1 DEF AttemptInv, Ring
  <2>3. t \in Nat /\ h[j].at \in Nat
    BY <1>1, <2>1, HistoryIs
  <2>4. Edge(s, N) + Back <= Edge(s, 2 * N) /\ Edge(s, N) \in Nat /\ Edge(s, 2 * N) \in Nat
    <3>1. 2 * N \in Nat
      BY <1>1
    <3> QED BY <1>1, <3>1, BackIs, Edges
  <2> QED BY <1>1, <1>5, <2>2, <2>3, <2>4, SMTT(30)
<1>7. x \in Attempts /\ x.at = now
  BY <1>1 DEF Attempts
<1>8. /\ \A k \in Nat : Edge(now, k) \in Nat /\ now <= Edge(now, k)
      /\ \A k \in Nat : k > 0 => now < Edge(now, k)
      /\ Edge(now, 0) = now
  <2>1. /\ Edge(now, 0) = now /\ \A k \in Nat : Edge(now, k) \in Nat
        /\ \A a, b \in Nat : a <= b => Edge(now, a) <= Edge(now, b)
        /\ Edge(now, 0) < Edge(now, 0 + 1)
    BY <1>1, Edges
  <2>2. ASSUME NEW k \in Nat PROVE now <= Edge(now, k) /\ (k > 0 => now < Edge(now, k))
    <3>1. Edge(now, 0) <= Edge(now, k)
      BY <2>1
    <3>2. k > 0 => Edge(now, 1) <= Edge(now, k)
      BY <2>1
    <3>3. Edge(now, 1) \in Nat /\ Edge(now, k) \in Nat
      BY <2>1
    <3> QED BY <1>1, <2>1, <3>1, <3>2, <3>3
  <2> QED BY <2>1, <2>2
<1>9. Ring(Append(h, x), now, now)
  <2>1. now \in Nat /\ now <= now /\ x.at = now
    BY <1>1, <1>7
  <2>2. now < Edge(now, COUNTER_NUM)
    <3>1. N \in Nat /\ N > 0
      BY <1>1
    <3> QED BY <1>8, <3>1
  <2>3. \A j \in DOMAIN history : history[j].at < now => history[j].at + Back <= now
    BY <1>6
  <2> HIDE DEF x
  <2> QED BY <1>7, <2>1, <2>2, <2>3, AppendedRing
<1>10. ASSUME NEW a \in Nat, NEW b \in Nat, now <= a
       PROVE  Cardinality(Between(Append(h, x), a, b)) = IF a = now /\ now < b THEN 1 ELSE 0
  <2>1. Between(h, a, b) = {}
    BY <1>1, <1>6, <1>10 DEF Between
  <2>2. Cardinality(Between(h, a, b)) = 0
    BY <2>1, FS_EmptySet
  <2>3. Cardinality(Between(Append(h, x), a, b)) =
            Cardinality(Between(h, a, b)) + (IF a <= now /\ now < b THEN 1 ELSE 0)
    BY <1>1, <1>7, OneMoreAttempt
  <2> QED BY <1>1, <1>10, <2>2, <2>3
<1>11. Counts(arrayAttempt', 0, Append(h, x), now)
  <2> SUFFICES ASSUME NEW i \in Intervals
               PROVE  arrayAttempt'[SlotOf(0, i)] =
                          Cardinality(Between(Append(h, x), Edge(now, i), Edge(now, i + 1)))
    BY DEF Counts
  <2>1. i \in Nat /\ i + 1 \in Nat /\ i + 1 > 0 /\ i \in 0..(N - 1)
    BY <1>1 DEF Intervals
  <2>2. SlotOf(0, i) = i
    <3>1. 0 * N + i = 0 + i /\ 0 \in Nat
      BY <1>1, <2>1
    <3>2. (0 * N + i) % N = i
      BY <1>1, <2>1, <3>1, RemainderIs
    <3> QED BY <3>1, <3>2 DEF SlotOf
  <2>3. Cardinality(Between(Append(h, x), Edge(now, i), Edge(now, i + 1))) =
            IF Edge(now, i) = now /\ now < Edge(now, i + 1) THEN 1 ELSE 0
    BY <1>8, <1>10, <2>1
  <2>4. now < Edge(now, i + 1) /\ (i > 0 => now < Edge(now, i)) /\ Edge(now, i) \in Nat
    BY <1>8, <2>1
  <2>5. Edge(now, i) = now <=> i = 0
    <3>1. CASE i = 0
      BY <1>8, <3>1
    <3>2. CASE i > 0
      BY <1>1, <2>4, <3>2
    <3> QED BY <2>1, <3>1, <3>2
  <2> QED BY <1>2, <2>2, <2>3, <2>4, <2>5
<1>12. nAttempts' = Cardinality(Between(Append(h, x), now, Edge(now, N)))
  BY <1>1, <1>2, <1>8, <1>10
<1>13. AttemptTypes'
  <2>1. arrayAttempt' \in [Intervals -> Nat] /\ nStartIndex' \in Intervals
    BY <1>1, <1>2 DEF Intervals
  <2>2. history' \in Seq(Attempts)
    BY <1>1, <1>2, <1>7
  <2> QED BY <1>1, <1>2, <2>1, <2>2 DEF AttemptTypes
<1>14. history' # <<>> /\ history'[Len(history')] = x
  <2>1. history' = Append(h, x) /\ h \in Seq(Attempts) /\ x \in Attempts
    BY <1>1, <1>2, <1>7
  <2> HIDE DEF x
  <2>2. Append(h, x) # <<>> /\ Append(h, x)[Len(Append(h, x))] = x
    BY <2>1
  <2> QED BY <2>1, <2>2
<1>15. nAttempts' <= ATTEMPT_LIMIT
  BY <1>2, AttemptAssumption
<1> HIDE DEF x
<1>16. /\ Ring(history', nStartTime', now')
       /\ Counts(arrayAttempt', nStartIndex', history', nStartTime')
       /\ nAttempts' = Cardinality(Between(history', nStartTime', Edge(nStartTime', COUNTER_NUM)))
  BY <1>2, <1>9, <1>11, <1>12
<1> QED BY <1>13, <1>14, <1>15, <1>16 DEF AttemptInv

LEMMA TimeKeeps == ASSUME AttemptInv, TimePasses PROVE AttemptInv'
<1>1. /\ now' = now + 1 /\ now \in Nat /\ nStartTime' = nStartTime /\ nAttempts' = nAttempts
      /\ arrayAttempt' = arrayAttempt /\ nStartIndex' = nStartIndex /\ history' = history
  BY DEF TimePasses, AttemptInv, AttemptTypes
<1>2. AttemptTypes'
  BY <1>1 DEF AttemptInv, AttemptTypes
<1>3. ASSUME history # <<>> PROVE Ring(history, nStartTime, now + 1)
  <2> DEFINE t == history[Len(history)].at
  <2>1. t \in Nat
    BY <1>3, HistoryIs
  <2>2. t <= now + 1
    BY <1>1, <1>3, <2>1, HistoryIs
  <2> QED BY <1>3, <2>2 DEF AttemptInv, Ring
<1>4. history = <<>> => now + 1 >= Edge(0, 2 * COUNTER_NUM)
  <2>1. Edge(0, 2 * COUNTER_NUM) \in Nat
    <3>1. 2 * COUNTER_NUM \in Nat
      BY AttemptAssumption
    <3> QED BY <3>1, Edges
  <2> QED BY <1>1, <2>1 DEF AttemptInv
<1> QED BY <1>1, <1>2, <1>3, <1>4 DEF AttemptInv

LEMMA AttemptStart == AttemptInit => AttemptInv
<1> SUFFICES ASSUME AttemptInit PROVE AttemptInv
  OBVIOUS
<1>1. COUNTER_NUM \in Nat \ {0} /\ 2 * COUNTER_NUM \in Nat
  BY AttemptAssumption
<1>2. /\ Edge(0, 2 * COUNTER_NUM) = 0 + 2 * COUNTER_NUM * COUNTER_INTERVAL
      /\ Edge(0, 2 * COUNTER_NUM) \in Nat
  BY <1>1, BackIs, Edges
<1>3. now = Edge(0, 2 * COUNTER_NUM)
  BY <1>2 DEF AttemptInit, Edge
<1>4. AttemptTypes
  BY <1>1, <1>2, <1>3 DEF AttemptInit, AttemptTypes, Intervals
<1>5. history = <<>> /\ nStartTime = 0 /\ now >= Edge(0, 2 * COUNTER_NUM)
  BY <1>2, <1>3 DEF AttemptInit
<1> QED BY <1>4, <1>5 DEF AttemptInv

LEMMA AttemptStep == AttemptInv /\ [AttemptNext]_countVars => AttemptInv'
<1> SUFFICES ASSUME AttemptInv, [AttemptNext]_countVars PROVE AttemptInv'
  OBVIOUS
<1>1. CASE Attempt /\ AttemptSliding
  BY <1>1, SlidingKeeps
<1>2. CASE Attempt /\ AttemptAnew
  BY <1>2, AnewKeeps
<1>3. CASE TimePasses
  BY <1>3, TimeKeeps
<1>4. CASE UNCHANGED countVars
  BY <1>4 DEF countVars, AttemptInv, AttemptTypes
<1> QED BY <1>1, <1>2, <1>3, <1>4 DEF AttemptNext, Attempt

\* What the ring counts is all there is since its start, and all of the last intervals.
LEMMA CountedFollows == AttemptInv => AttemptsCounted
<1> SUFFICES ASSUME AttemptInv, history # <<>>
             PROVE  /\ nAttempts = Since(nStartTime)
                    /\ nStartTime <= history[Len(history)].at
                    /\ history[Len(history)].at < nStartTime + COUNTER_NUM * COUNTER_INTERVAL
                    /\ history[Len(history)].admitted =>
                           Since(history[Len(history)].at - ((COUNTER_NUM - 1) * COUNTER_INTERVAL) + 1)
                               <= ATTEMPT_LIMIT
  BY DEF AttemptsCounted
<1> DEFINE t == history[Len(history)].at
           s == nStartTime
           e == Edge(s, COUNTER_NUM)
<1>1. /\ s \in Nat /\ nAttempts \in Nat /\ history \in Seq(Attempts) /\ t \in Nat /\ Back \in Nat
      /\ \A j \in DOMAIN history : history[j].at \in Nat
  BY HistoryIs, BackIs DEF AttemptInv, AttemptTypes
<1>2. e \in Nat /\ e = s + COUNTER_NUM * COUNTER_INTERVAL
  BY <1>1, AttemptAssumption, Edges, BackIs
<1>3. /\ s <= t /\ t < e /\ nAttempts = Cardinality(Between(history, s, e))
      /\ \A j \in DOMAIN history : /\ history[j].at <= t
                                   /\ history[j].at < s => history[j].at + Back <= t
      /\ history[Len(history)].admitted => nAttempts <= ATTEMPT_LIMIT
  BY DEF AttemptInv, Ring
<1> HIDE DEF t, s, e
<1>4. {j \in DOMAIN history : history[j].at >= s} = Between(history, s, e)
  BY <1>1, <1>2, <1>3 DEF Between
<1>5. nAttempts = Since(s)
  BY <1>3, <1>4 DEF Since
<1>6. Since(t - Back + 1) <= nAttempts
  <2> DEFINE X == {j \in DOMAIN history : history[j].at >= t - Back + 1}
  <2>1. X \subseteq Between(history, s, e)
    BY <1>1, <1>2, <1>3 DEF Between
  <2>2. IsFiniteSet(Between(history, s, e))
    BY <1>1, <1>2, <1>3, BetweenIs
  <2>3. Cardinality(X) <= Cardinality(Between(history, s, e))
    BY <2>1, <2>2, FS_Subset
  <2> QED BY <1>3, <2>3 DEF Since
<1>7. Since(t - Back + 1) \in Nat
  <2> DEFINE X == {j \in DOMAIN history : history[j].at >= t - Back + 1}
  <2>1. X \subseteq 1..Len(history) /\ Len(history) \in Nat
    BY <1>1
  <2>2. IsFiniteSet(X)
    BY <2>1, FS_Interval, FS_Subset
  <2> QED BY <2>2, FS_CardinalityType DEF Since
<1>8. history[Len(history)].admitted => Since(t - Back + 1) <= ATTEMPT_LIMIT
  BY <1>1, <1>3, <1>6, <1>7, AttemptAssumption
<1> QED BY <1>2, <1>3, <1>5, <1>8 DEF t, s, Back

\* The ring counts exactly the attempts since its start, and nobody is admitted who has tried more
\* often than the limit in the last COUNTER_NUM - 1 intervals, for every size and limit of the ring.
THEOREM AttemptsSafe == AttemptSpec => []AttemptsCounted
<1> QED BY AttemptStart, AttemptStep, CountedFollows, PTL DEF AttemptSpec
-------------------------------------------------------------------------------
(* The string table of a Lua state (LuaString).                               *)

\* The chains of a table of n buckets, and such a table of some size.
Chains(A, f, n) == [h \in 0..(n - 1) |-> {o \in A : HashOf[f[o]] % n = h}]
Table(A, f, n) == [hash |-> Chains(A, f, n), nuse |-> Cardinality(A)]
Holds(tb, A, f) == \E n \in Nat \ {0} : tb = Table(A, f, n)

\* The table holds exactly the strings that were not freed, each in its chain.
Chained == Holds(strt, Allocated, strings)

Unique == \A o, p \in Allocated : strings[o] = strings[p] => o = p

\* What is referred to will not be swept.
Cached == {cache[j] : j \in 1..STRCACHE_M} \ {MemErr}
Alive == \A o \in held \cup Cached : ~ Dead(o)

\* Behind the sweep everything is white again.
BehindSweep == \A o \in Allocated \ unswept : colour[o] = white

StringInv == StringTypeOK /\ Chained /\ Unique /\ Alive /\ BehindSweep

(***************************************************************************)
(* Tables.                                                                 *)
(***************************************************************************)
LEMMA InBucket == ASSUME NEW a \in Nat, NEW n \in Nat \ {0} PROVE a % n \in 0..(n - 1)
  OBVIOUS

LEMMA SizeIs == ASSUME NEW A, NEW f, NEW n \in Nat \ {0} PROVE Size(Table(A, f, n)) = n
<1>1. DOMAIN Table(A, f, n).hash = 0..(n - 1)
  BY DEF Table, Chains
<1>2. Cardinality(0..(n - 1)) = n
  BY FS_Interval
<1> QED BY <1>1, <1>2 DEF Size

LEMMA AllocatedFinite == StringTypeOK => IsFiniteSet(Allocated)
<1> SUFFICES ASSUME StringTypeOK PROVE IsFiniteSet(Allocated)
  OBVIOUS
<1>1. IsFiniteSet(1..MaxStrings)
  BY FS_Interval, LuaStringAssumption
<1> QED BY <1>1, FS_Subset DEF StringTypeOK

\* Chained anew, the strings of a table are where a table of the new size has them.
LEMMA ResizeIs ==
    ASSUME NEW A, NEW n \in Nat \ {0}, NEW m \in Nat \ {0}, \A o \in A : strings[o] \in Content
    PROVE  Resize(Table(A, strings, n), m) = Table(A, strings, m)
<1> DEFINE tb == Table(A, strings, n)
<1>1. UNION {tb.hash[i] : i \in DOMAIN tb.hash} = A
  <2>1. DOMAIN tb.hash = 0..(n - 1) /\ \A i \in 0..(n - 1) : tb.hash[i] = {o \in A : HashOf[strings[o]] % n = i}
    BY DEF Table, Chains
  <2>2. \A o \in A : HashOf[strings[o]] % n \in 0..(n - 1)
    <3> SUFFICES ASSUME NEW o \in A PROVE HashOf[strings[o]] % n \in 0..(n - 1)
      OBVIOUS
    <3>1. HashOf[strings[o]] \in Nat
      BY LuaStringAssumption
    <3> QED BY <3>1, InBucket
  <2> HIDE DEF tb
  <2>3. \A o \in A : o \in tb.hash[HashOf[strings[o]] % n]
    BY <2>1, <2>2
  <2> QED BY <2>1, <2>2, <2>3
<1>2. tb = [hash |-> tb.hash, nuse |-> Cardinality(A)]
  BY DEF Table
<1>3. Resize(tb, m) = [tb EXCEPT !.hash = Chains(A, strings, m)]
  BY <1>1 DEF Resize, Chains
<1> QED BY <1>2, <1>3 DEF Table

\* A string put into its chain, and one taken out.
LEMMA PutIn ==
    ASSUME NEW A, IsFiniteSet(A), NEW f, NEW g, NEW n \in Nat \ {0}, NEW s, s \notin A,
           g[s] \in Content, \A o \in A : f[o] = g[o]
    PROVE  [hash |-> [Chains(A, f, n) EXCEPT ![HashOf[g[s]] % n] = @ \cup {s}], nuse |-> Cardinality(A) + 1]
               = Table(A \cup {s}, g, n)
<1> DEFINE h == HashOf[g[s]] % n
<1>1. h \in 0..(n - 1)
  BY InBucket, LuaStringAssumption
<1>2. Cardinality(A \cup {s}) = Cardinality(A) + 1
  BY FS_AddElement
<1>3. [Chains(A, f, n) EXCEPT ![h] = @ \cup {s}] = Chains(A \cup {s}, g, n)
  <2> DEFINE C == Chains(A, f, n)
  <2>1. C = [i \in 0..(n - 1) |-> {o \in A : HashOf[g[o]] % n = i}]
    BY DEF Chains
  <2>2. ASSUME NEW i \in 0..(n - 1)
        PROVE  [C EXCEPT ![h] = @ \cup {s}][i] = {o \in A \cup {s} : HashOf[g[o]] % n = i}
    <3> HIDE DEF h
    <3>1. C[i] = {o \in A : HashOf[g[o]] % n = i}
      BY <2>1
    <3>2. CASE i = h
      BY <2>1, <1>1, <3>1, <3>2 DEF h
    <3>3. CASE i # h
      BY <2>1, <1>1, <3>1, <3>3 DEF h
    <3> QED BY <3>2, <3>3
  <2>3. DOMAIN [C EXCEPT ![h] = @ \cup {s}] = 0..(n - 1)
    BY <2>1
  <2> DEFINE D == [C EXCEPT ![h] = @ \cup {s}]
  <2>4. D = [i \in 0..(n - 1) |-> D[i]]
    BY <2>3
  <2>5. \A i \in 0..(n - 1) : D[i] = {o \in A \cup {s} : HashOf[g[o]] % n = i}
    BY <2>2
  <2> HIDE DEF D, h, C
  <2>6. D = [i \in 0..(n - 1) |-> {o \in A \cup {s} : HashOf[g[o]] % n = i}]
    BY <2>4, <2>5
  <2> QED BY <2>6 DEF Chains, D, C, h
<1> QED BY <1>2, <1>3 DEF Table

LEMMA TakenOut ==
    ASSUME NEW A, IsFiniteSet(A), NEW f, NEW n \in Nat \ {0}, NEW s \in A, f[s] \in Content
    PROVE  [hash |-> [Chains(A, f, n) EXCEPT ![HashOf[f[s]] % n] = @ \ {s}], nuse |-> Cardinality(A) - 1]
               = Table(A \ {s}, f, n)
<1> DEFINE h == HashOf[f[s]] % n
<1>1. h \in 0..(n - 1)
  BY InBucket, LuaStringAssumption
<1>2. Cardinality(A \ {s}) = Cardinality(A) - 1
  BY FS_RemoveElement
<1>3. [Chains(A, f, n) EXCEPT ![h] = @ \ {s}] = Chains(A \ {s}, f, n)
  <2> DEFINE C == Chains(A, f, n)
  <2>1. C = [i \in 0..(n - 1) |-> {o \in A : HashOf[f[o]] % n = i}]
    BY DEF Chains
  <2>2. ASSUME NEW i \in 0..(n - 1)
        PROVE  [C EXCEPT ![h] = @ \ {s}][i] = {o \in A \ {s} : HashOf[f[o]] % n = i}
    <3> HIDE DEF h
    <3>1. C[i] = {o \in A : HashOf[f[o]] % n = i}
      BY <2>1
    <3>2. CASE i = h
      BY <2>1, <1>1, <3>1, <3>2
    <3>3. CASE i # h
      BY <2>1, <1>1, <3>1, <3>3 DEF h
    <3> QED BY <3>2, <3>3
  <2>3. DOMAIN [C EXCEPT ![h] = @ \ {s}] = 0..(n - 1)
    BY <2>1
  <2> DEFINE D == [C EXCEPT ![h] = @ \ {s}]
  <2>4. D = [i \in 0..(n - 1) |-> D[i]]
    BY <2>3
  <2>5. \A i \in 0..(n - 1) : D[i] = {o \in A \ {s} : HashOf[f[o]] % n = i}
    BY <2>2
  <2> HIDE DEF D, h, C
  <2>6. D = [i \in 0..(n - 1) |-> {o \in A \ {s} : HashOf[f[o]] % n = i}]
    BY <2>4, <2>5
  <2> QED BY <2>6 DEF Chains, D, C, h
<1> QED BY <1>2, <1>3 DEF Table

\* The chain of a content has the string of that content, if there is one.
LEMMA FoundIs ==
    ASSUME StringTypeOK, Chained, NEW c \in Content
    PROVE  Found(c) = {o \in Allocated : strings[o] = c}
<1>1. PICK n \in Nat \ {0} : strt = Table(Allocated, strings, n)
  BY DEF Chained, Holds
<1>2. Bucket(strt, c) = HashOf[c] % n
  BY <1>1, SizeIs DEF Bucket
<1>3. HashOf[c] % n \in 0..(n - 1)
  BY InBucket, LuaStringAssumption
<1>4. strt.hash[HashOf[c] % n] = {o \in Allocated : HashOf[strings[o]] % n = HashOf[c] % n}
  BY <1>1, <1>3 DEF Table, Chains
<1> QED BY <1>2, <1>4 DEF Found

(***************************************************************************)
(* What the operations do.                                                 *)
(***************************************************************************)
LEMMA InitHolds == StringInit => StringInv
<1> SUFFICES ASSUME StringInit PROVE StringInv
  OBVIOUS
<1>1. Allocated = {}
  BY DEF StringInit, Allocated
<1>2. StringTypeOK
  BY <1>1 DEF StringInit, StringTypeOK
<1>3. Chained
  <2>1. Chains(Allocated, strings, MINSTRTABSIZE) = [i \in 0..(MINSTRTABSIZE - 1) |-> {}]
    BY <1>1 DEF Chains
  <2>2. Cardinality(Allocated) = 0
    BY <1>1, FS_EmptySet
  <2>3. strt = Table(Allocated, strings, MINSTRTABSIZE)
    BY <2>1, <2>2 DEF StringInit, Table
  <2> QED BY <2>3, LuaStringAssumption DEF Chained, Holds
<1>4. held \cup Cached = {}
  BY DEF StringInit, Cached
<1> QED BY <1>1, <1>2, <1>3, <1>4 DEF StringInv, Unique, Alive, BehindSweep

\* A new string, of a content that no string has, in a table that holds the others.
LEMMA CreateIs ==
    ASSUME StringInv, NEW c \in Content, NEW s \in 1..MaxStrings, NEW tb, Holds(tb, Allocated, strings),
           \A o \in Allocated : strings[o] # c, Create(c, s, tb)
    PROVE  /\ s \notin Allocated /\ Allocated' = Allocated \cup {s}
           /\ strings' \in [Allocated' -> Content] /\ strings'[s] = c
           /\ \A o \in Allocated : strings'[o] = strings[o] /\ colour'[o] = colour[o]
           /\ colour' \in [Allocated' -> {"white0", "white1", "black"}] /\ colour'[s] = white
           /\ Chained' /\ Unique'
<1>0. StringTypeOK /\ Unique
  BY DEF StringInv
<1>1. s \notin Allocated /\ Allocated' = Allocated \cup {s}
  BY DEF Create, Allocated
<1>2. /\ strings' \in [Allocated' -> Content] /\ strings'[s] = c
      /\ \A o \in Allocated : strings'[o] = strings[o]
  BY <1>0, <1>1 DEF Create, StringTypeOK
<1>3. /\ colour' \in [Allocated' -> {"white0", "white1", "black"}] /\ colour'[s] = white
      /\ \A o \in Allocated : colour'[o] = colour[o]
  BY <1>0, <1>1 DEF Create, StringTypeOK
<1>4. PICK n \in Nat \ {0} : tb = Table(Allocated, strings, n)
  BY DEF Holds
<1>5. strt' = Table(Allocated \cup {s}, strings', n)
  <2>1. Bucket(tb, c) = HashOf[c] % n
    BY <1>4, SizeIs DEF Bucket
  <2>2. tb.hash = Chains(Allocated, strings, n) /\ tb.nuse = Cardinality(Allocated)
    BY <1>4 DEF Table
  <2>3. strt' = [hash |-> [Chains(Allocated, strings, n) EXCEPT ![HashOf[strings'[s]] % n] = @ \cup {s}],
                 nuse |-> Cardinality(Allocated) + 1]
    BY <1>2, <2>1, <2>2 DEF Create
  <2>4. IsFiniteSet(Allocated)
    BY <1>0, AllocatedFinite
  <2> QED BY <1>1, <1>2, <2>3, <2>4, PutIn
<1>6. Chained'
  BY <1>1, <1>5 DEF Chained, Holds
<1>7. Unique'
  BY <1>0, <1>1, <1>2 DEF Unique
<1> QED BY <1>1, <1>2, <1>3, <1>6, <1>7

\* internshrstr returns a string of that content which is not dead, and leaves the others.
LEMMA InternIs ==
    ASSUME StringInv, NEW c \in Content, NEW s \in 1..MaxStrings, Intern(c, s), white' = white
    PROVE  /\ Allocated' = Allocated \cup {s} /\ Allocated' \subseteq 1..MaxStrings
           /\ strings' \in [Allocated' -> Content] /\ strings'[s] = c
           /\ colour' \in [Allocated' -> {"white0", "white1", "black"}]
           /\ \A o \in Allocated \ {s} : colour'[o] = colour[o]
           /\ ~ Dead(s)' /\ (s \notin unswept => colour'[s] = white)
           /\ Chained' /\ Unique'
<1>0. StringTypeOK /\ Unique /\ Chained /\ BehindSweep /\ OtherWhite' = OtherWhite /\ white # OtherWhite
  BY DEF StringInv, OtherWhite
<1>1. Found(c) = {o \in Allocated : strings[o] = c}
  BY <1>0, FoundIs
<1>2. CASE s \in Found(c) /\ colour' = (IF Dead(s) THEN [colour EXCEPT ![s] = white] ELSE colour)
           /\ UNCHANGED <<strt, strings>>
  <2>1. s \in Allocated /\ strings[s] = c /\ Allocated' = Allocated
    BY <1>1, <1>2 DEF Allocated
  <2>2. Chained' /\ Unique'
    BY <1>0, <1>2, <2>1 DEF Chained, Unique
  <2>3. /\ colour' \in [Allocated -> {"white0", "white1", "black"}]
        /\ \A o \in Allocated \ {s} : colour'[o] = colour[o]
        /\ colour'[s] # OtherWhite
    BY <1>0, <1>2, <2>1 DEF Dead, StringTypeOK
  <2>4. s \notin unswept => colour'[s] = white
    BY <1>0, <1>2, <2>1 DEF Dead, BehindSweep, StringTypeOK
  <2> QED BY <1>0, <1>2, <2>1, <2>2, <2>3, <2>4 DEF Dead, StringTypeOK
<1>3. ASSUME Found(c) = {},
             Create(c, s, IF strt.nuse >= Size(strt) THEN Resize(strt, 2 * Size(strt)) ELSE strt)
      PROVE  /\ s \notin Allocated /\ Allocated' = Allocated \cup {s}
             /\ strings' \in [Allocated' -> Content] /\ strings'[s] = c
             /\ \A o \in Allocated : strings'[o] = strings[o] /\ colour'[o] = colour[o]
             /\ colour' \in [Allocated' -> {"white0", "white1", "black"}] /\ colour'[s] = white
             /\ Chained' /\ Unique'
  <2> DEFINE tb == IF strt.nuse >= Size(strt) THEN Resize(strt, 2 * Size(strt)) ELSE strt
  <2>1. Holds(tb, Allocated, strings)
    <3>1. PICK n \in Nat \ {0} : strt = Table(Allocated, strings, n)
      BY <1>0 DEF Chained, Holds
    <3>2. Size(strt) = n /\ 2 * n \in Nat \ {0}
      BY <3>1, SizeIs
    <3>3. \A o \in Allocated : strings[o] \in Content
      BY <1>0 DEF StringTypeOK
    <3>4. Resize(strt, 2 * n) = Table(Allocated, strings, 2 * n)
      BY <3>1, <3>2, <3>3, ResizeIs
    <3> QED BY <3>1, <3>2, <3>4 DEF Holds
  <2>2. \A o \in Allocated : strings[o] # c
    BY <1>1, <1>3
  <2>3. Create(c, s, tb)
    BY <1>3
  <2> HIDE DEF tb
  <2> QED BY <2>1, <2>2, <2>3, CreateIs
<1>4. CASE /\ Found(c) = {}
           /\ Create(c, s, IF strt.nuse >= Size(strt) THEN Resize(strt, 2 * Size(strt)) ELSE strt)
  BY <1>0, <1>3, <1>4 DEF Dead, StringTypeOK
<1> QED BY <1>2, <1>4 DEF Intern

\* Interned strings are what the program and the cache refer to.
LEMMA InternKeeps ==
    ASSUME StringInv, NEW c \in Content, NEW s \in 1..MaxStrings, Intern(c, s),
           UNCHANGED <<white, unswept>>, held' = held \cup {s},
           cache' \in [1..STRCACHE_M -> {cache[j] : j \in 1..STRCACHE_M} \cup {s}]
    PROVE  StringInv'
<1>0. StringTypeOK /\ Alive /\ BehindSweep /\ OtherWhite' = OtherWhite
  BY DEF StringInv, OtherWhite
<1>1. /\ Allocated' = Allocated \cup {s} /\ Allocated' \subseteq 1..MaxStrings
      /\ strings' \in [Allocated' -> Content] /\ strings'[s] = c
      /\ colour' \in [Allocated' -> {"white0", "white1", "black"}]
      /\ \A o \in Allocated \ {s} : colour'[o] = colour[o]
      /\ ~ Dead(s)' /\ (s \notin unswept => colour'[s] = white)
      /\ Chained' /\ Unique'
  BY InternIs
<1>2. StringTypeOK'
  <2>1. cache' \in [1..STRCACHE_M -> Allocated' \cup {MemErr}]
    BY <1>0, <1>1 DEF StringTypeOK
  <2> QED BY <1>0, <1>1, <2>1 DEF StringTypeOK
<1>3. Alive'
  <2>1. Cached' \subseteq Cached \cup {s} /\ Cached \subseteq Allocated
    BY <1>0 DEF Cached, StringTypeOK
  <2>2. \A o \in held \cup Cached : colour[o] # OtherWhite /\ o \in Allocated
    BY <1>0, <2>1 DEF Alive, Dead, StringTypeOK
  <2>3. colour'[s] # OtherWhite
    BY <1>0, <1>1 DEF Dead
  <2>4. \A o \in (held \cup Cached)' : colour'[o] # OtherWhite
    BY <1>1, <2>1, <2>2, <2>3
  <2> QED BY <1>0, <2>4 DEF Alive, Dead
<1>4. BehindSweep'
  BY <1>0, <1>1 DEF BehindSweep
<1> QED BY <1>1, <1>2, <1>3, <1>4 DEF StringInv

LEMMA NewLStrKeeps == ASSUME StringInv, NEW c \in Content, NewLStr(c) PROVE StringInv'
<1>1. PICK s \in 1..MaxStrings : Intern(c, s) /\ held' = held \cup {s} /\ UNCHANGED <<white, unswept, cache>>
  BY DEF NewLStr
<1>2. cache' \in [1..STRCACHE_M -> {cache[j] : j \in 1..STRCACHE_M} \cup {s}]
  BY <1>1 DEF StringInv, StringTypeOK
<1> QED BY <1>1, <1>2, InternKeeps

LEMMA NewKeeps == ASSUME StringInv, NEW c \in Content, New(c) PROVE StringInv'
<1>0. StringTypeOK
  BY DEF StringInv
<1>1. ASSUME NEW j \in 1..STRCACHE_M, Hit(c, j), held' = held \cup {cache[j]},
             UNCHANGED <<strt, strings, colour, white, unswept, cache>>
      PROVE  StringInv'
  <2>1. Allocated' = Allocated /\ OtherWhite' = OtherWhite /\ Cached' = Cached
    BY <1>1 DEF Allocated, OtherWhite, Cached
  <2>2. cache[j] \in Cached /\ cache[j] \in Allocated
    BY <1>0, <1>1 DEF Hit, Cached, StringTypeOK
  <2>3. StringTypeOK' /\ Alive' /\ Chained' /\ Unique' /\ BehindSweep'
    BY <1>1, <2>1, <2>2 DEF StringInv, StringTypeOK, Alive, Dead, Chained, Unique, BehindSweep
  <2> QED BY <2>3 DEF StringInv
<1>2. ASSUME NEW s \in 1..MaxStrings, Intern(c, s), held' = held \cup {s}, UNCHANGED <<white, unswept>>,
             cache' = [j \in 1..STRCACHE_M |-> IF j = 1 THEN s ELSE cache[j - 1]]
      PROVE  StringInv'
  <2>1. \A j \in 1..STRCACHE_M : j # 1 => j - 1 \in 1..STRCACHE_M
    BY LuaStringAssumption
  <2>2. cache' \in [1..STRCACHE_M -> {cache[j] : j \in 1..STRCACHE_M} \cup {s}]
    BY <1>2, <2>1
  <2> QED BY <1>2, <2>2, InternKeeps
<1> QED BY <1>1, <1>2 DEF New

LEMMA DropKeeps == ASSUME StringInv, NEW s \in held, Drop(s) PROVE StringInv'
<1>1. Allocated' = Allocated /\ OtherWhite' = OtherWhite /\ Cached' = Cached /\ held' \subseteq held
  BY DEF Drop, Allocated, OtherWhite, Cached
<1>2. StringTypeOK' /\ Alive' /\ Chained' /\ Unique' /\ BehindSweep'
  BY <1>1 DEF StringInv, StringTypeOK, Alive, Dead, Chained, Unique, BehindSweep, Drop
<1> QED BY <1>2 DEF StringInv

\* Before the sweep everything is white: what is held becomes black, the rest dead.
LEMMA AtomicKeeps == ASSUME StringInv, Atomic PROVE StringInv'
<1>0. StringTypeOK /\ Chained /\ Unique
  BY DEF StringInv
<1>1. Allocated' = Allocated /\ strings' = strings /\ strt' = strt /\ held' = held
  BY DEF Atomic, Allocated
<1>2. StringTypeOK'
  <2>1. colour' \in [Allocated -> {"white0", "white1", "black"}] /\ white' \in {"white0", "white1"}
    BY <1>0 DEF Atomic, StringTypeOK, OtherWhite
  <2>2. cache' \in [1..STRCACHE_M -> Allocated \cup {MemErr}]
    BY <1>0 DEF Atomic, StringTypeOK
  <2> QED BY <1>0, <1>1, <2>1, <2>2 DEF Atomic, StringTypeOK
<1>3. Chained' /\ Unique'
  BY <1>0, <1>1 DEF Chained, Unique
<1>4. Alive'
  <2>1. \A o \in held : colour'[o] = "black"
    BY <1>0 DEF Atomic, StringTypeOK
  <2>2. Cached' \subseteq held
    BY DEF Atomic, Cached
  <2>3. OtherWhite' # "black"
    BY DEF OtherWhite
  <2> QED BY <1>1, <2>1, <2>2, <2>3 DEF Alive, Dead
<1>5. BehindSweep'
  BY <1>1 DEF Atomic, BehindSweep
<1> QED BY <1>2, <1>3, <1>4, <1>5 DEF StringInv

\* What is swept is white or gone, and the table holds the others.
LEMMA SweepKeeps == ASSUME StringInv, NEW o \in unswept, Sweep(o) PROVE StringInv'
<1> DEFINE keep == IF Dead(o) THEN Allocated \ {o} ELSE Allocated
           tb == IF Dead(o) THEN Unchain(strings[o], o) ELSE strt
<1>0. /\ StringTypeOK /\ Chained /\ Unique /\ Alive /\ BehindSweep
      /\ o \in Allocated /\ strings[o] \in Content /\ \A x \in Allocated : strings[x] \in Content
  BY DEF StringInv, StringTypeOK
<1>1. /\ unswept' = unswept \ {o} /\ white' = white /\ cache' = cache /\ held' = held
      /\ strings' = [x \in keep |-> strings[x]]
      /\ colour' = [x \in keep |-> IF x = o THEN white ELSE colour[x]]
      /\ strt' = IF unswept' = {} /\ tb.nuse < Size(tb) \div 4 THEN Resize(tb, Size(tb) \div 2) ELSE tb
  BY DEF Sweep
<1>2. Allocated' = keep /\ OtherWhite' = OtherWhite /\ white # OtherWhite /\ Cached' = Cached
  BY <1>1 DEF Allocated, OtherWhite, Cached
<1>3. keep \subseteq Allocated /\ held \cup Cached \subseteq keep /\ unswept \ {o} \subseteq keep
  <2>1. held \cup Cached \subseteq Allocated
    BY <1>0 DEF StringTypeOK, Cached
  <2> QED BY <1>0, <2>1 DEF Alive, StringTypeOK
<1>4. PICK n \in Nat \ {0} : tb = Table(keep, strings, n)
  <2>1. PICK n \in Nat \ {0} : strt = Table(Allocated, strings, n)
    BY <1>0 DEF Chained, Holds
  <2>2. CASE Dead(o)
    <3>1. Bucket(strt, strings[o]) = HashOf[strings[o]] % n
      BY <2>1, SizeIs DEF Bucket
    <3>2. strt.hash = Chains(Allocated, strings, n) /\ strt.nuse = Cardinality(Allocated)
      BY <2>1 DEF Table
    <3>3. tb = [hash |-> [Chains(Allocated, strings, n) EXCEPT ![HashOf[strings[o]] % n] = @ \ {o}],
                nuse |-> Cardinality(Allocated) - 1]
      BY <2>2, <3>1, <3>2 DEF Unchain
    <3>4. IsFiniteSet(Allocated)
      BY <1>0, AllocatedFinite
    <3>5. tb = Table(Allocated \ {o}, strings, n)
      BY <1>0, <3>3, <3>4, TakenOut
    <3> QED BY <2>2, <3>5
  <2>3. CASE ~ Dead(o)
    BY <2>1, <2>3
  <2> QED BY <2>2, <2>3
<1> HIDE DEF tb
<1>5. \E m \in Nat \ {0} : strt' = Table(keep, strings, m)
  <2>1. CASE unswept' = {} /\ tb.nuse < Size(tb) \div 4
    <3>1. Size(tb) = n
      BY <1>4, SizeIs
    <3>2. tb.nuse = Cardinality(keep) /\ Cardinality(keep) \in Nat
      <4>1. tb.nuse = Cardinality(keep)
        BY <1>4 DEF Table
      <4>2. IsFiniteSet(keep)
        BY <1>0, <1>3, AllocatedFinite, FS_Subset
      <4> QED BY <4>1, <4>2, FS_CardinalityType
    <3>3. n \div 2 \in Nat \ {0}
      BY <2>1, <3>1, <3>2
    <3>4. Resize(tb, n \div 2) = Table(keep, strings, n \div 2)
      BY <1>0, <1>3, <1>4, <3>3, ResizeIs
    <3> QED BY <1>1, <2>1, <3>1, <3>3, <3>4
  <2>2. CASE ~(unswept' = {} /\ tb.nuse < Size(tb) \div 4)
    BY <1>1, <1>4, <2>2
  <2> QED BY <2>1, <2>2
<1> HIDE DEF keep
<1>6. Chained'
  <2>1. PICK m \in Nat \ {0} : strt' = Table(keep, strings, m)
    BY <1>5
  <2>2. Chains(keep, strings, m) = Chains(keep, strings', m)
    BY <1>1 DEF Chains
  <2> QED BY <1>2, <2>1, <2>2 DEF Chained, Holds, Table
<1>7. StringTypeOK'
  <2>1. strings' \in [keep -> Content] /\ colour' \in [keep -> {"white0", "white1", "black"}]
    BY <1>0, <1>1, <1>3 DEF StringTypeOK
  <2>2. cache' \in [1..STRCACHE_M -> keep \cup {MemErr}]
    BY <1>0, <1>1, <1>3 DEF StringTypeOK, Cached
  <2> QED BY <1>0, <1>1, <1>2, <1>3, <2>1, <2>2 DEF StringTypeOK
<1>8. Unique'
  BY <1>0, <1>1, <1>2, <1>3 DEF Unique
<1>9. Alive'
  BY <1>0, <1>1, <1>2, <1>3 DEF Alive, Dead
<1>10. BehindSweep'
  BY <1>0, <1>1, <1>2, <1>3 DEF BehindSweep
<1> QED BY <1>6, <1>7, <1>8, <1>9, <1>10 DEF StringInv

LEMMA StringStep == StringInv /\ [StringNext]_svars => StringInv'
<1> SUFFICES ASSUME StringInv, [StringNext]_svars PROVE StringInv'
  OBVIOUS
<1>1. CASE UNCHANGED svars
  <2>1. Allocated' = Allocated /\ OtherWhite' = OtherWhite /\ Cached' = Cached
    BY <1>1 DEF svars, Allocated, OtherWhite, Cached
  <2>2. StringTypeOK' /\ Alive' /\ Chained' /\ Unique' /\ BehindSweep'
    BY <1>1, <2>1 DEF StringInv, StringTypeOK, Alive, Dead, Chained, Unique, BehindSweep, svars
  <2> QED BY <2>2 DEF StringInv
<1> QED BY <1>1, NewLStrKeeps, NewKeeps, DropKeeps, AtomicKeeps, SweepKeeps DEF StringNext

LEMMA InternedFollows == StringInv => Interned
<1> SUFFICES ASSUME StringInv PROVE Interned
  OBVIOUS
<1>1. PICK n \in Nat \ {0} : strt = Table(Allocated, strings, n)
  BY DEF StringInv, Chained, Holds
<1>2. Size(strt) = n /\ \A c : Bucket(strt, c) = HashOf[c] % n
  BY <1>1, SizeIs DEF Bucket
<1>3. strt.hash = Chains(Allocated, strings, n) /\ strt.nuse = Cardinality(Allocated)
  BY <1>1 DEF Table
<1>4. \A h \in DOMAIN strt.hash : strt.hash[h] = {o \in Allocated : Bucket(strt, strings[o]) = h}
  BY <1>2, <1>3 DEF Chains
<1>5. held \cup ({cache[j] : j \in 1..STRCACHE_M} \ {MemErr}) \subseteq Allocated
  BY DEF StringInv, StringTypeOK
<1> QED BY <1>3, <1>4, <1>5 DEF StringInv, Unique, Interned

(***************************************************************************)
(* The theorems.                                                           *)
(***************************************************************************)
\* The types of the string table and of the cache, whatever is made, dropped and swept.
THEOREM StringsTyped == StringSpec => []StringTypeOK
<1>1. StringSpec => []StringInv
  BY InitHolds, StringStep, PTL DEF StringSpec
<1>2. StringInv => StringTypeOK
  BY DEF StringInv
<1> QED BY <1>1, <1>2, PTL

\* There are never two strings of one content, although dead strings stay in the table and
\* may be brought back (lstring.c:173); nothing that is referred to is freed; and the table has
\* exactly the strings that were not freed, through every resize (lstring.c:71).
THEOREM StringsInterned == StringSpec => []Interned
<1>1. StringSpec => []StringInv
  BY InitHolds, StringStep, PTL DEF StringSpec
<1> QED BY <1>1, InternedFollows, PTL
===============================================================================
