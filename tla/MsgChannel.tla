------------------------------ MODULE MsgChannel ------------------------------
(***************************************************************************)
(* What a peer's stream promises: messages arrive once, in the order they  *)
(* were put in, and those that were flushed arrive unless the connection   *)
(* breaks.  PeerStream implements it.                                      *)
(***************************************************************************)
EXTENDS Naturals, Sequences

CONSTANT MaxMsgs   \* bound: messages put in

VARIABLES pending,     \* messages put in and not delivered yet
          delivered,   \* messages that arrived
          flushed,     \* how many messages were put in before the last flush
          broken       \* the connection is gone

vars == <<pending, delivered, flushed, broken>>

Count == Len(delivered) + Len(pending)

Init == pending = <<>> /\ delivered = <<>> /\ flushed = 0 /\ broken = FALSE

Put ==
    /\ ~ broken /\ Count < MaxMsgs
    /\ pending' = Append(pending, Count + 1)
    /\ UNCHANGED <<delivered, flushed, broken>>

Flush ==
    /\ ~ broken
    /\ flushed' = Count
    /\ UNCHANGED <<pending, delivered, broken>>

\* Some of the messages arrive, the oldest first.
Deliver ==
    /\ ~ broken
    /\ \E k \in 1..Len(pending) :
          /\ delivered' = delivered \o SubSeq(pending, 1, k)
          /\ pending' = SubSeq(pending, k + 1, Len(pending))
    /\ UNCHANGED <<flushed, broken>>

Break == broken' = TRUE /\ UNCHANGED <<pending, delivered, flushed>>

Next == Put \/ Flush \/ Deliver \/ Break

\* A flushed message does not wait for another call.
DeliverFlushed == Len(delivered) < flushed /\ Deliver

Spec == Init /\ [][Next]_vars /\ WF_vars(DeliverFlushed)
===============================================================================
