------------------------------ MODULE PeerStream ------------------------------
(***************************************************************************)
(* CPeer: two send buffers, one that is being written to the socket and    *)
(* one that takes what is put in meanwhile.  indexWrite is the buffer that *)
(* is written, or written next; indexStream the one WriteStream gives to   *)
(* the caller.  Messages are numbered in the order they are put in.        *)
(***************************************************************************)
EXTENDS Naturals, Sequences

CONSTANT MaxMsgs   \* bound: messages put in

VARIABLES ssSend,        \* the two buffers, as messages
          indexStream, indexWrite,
          writing,       \* an asynchronous write of the socket is under way
          closed,        \* the peer was removed
          delivered,     \* history: what the socket wrote
          flushed,       \* history: messages put in before the last call of Write
          nPut           \* messages put in

vars == <<ssSend, indexStream, indexWrite, writing, closed, delivered, flushed, nPut>>

Other(i) == IF i = 0 THEN 1 ELSE 0      \* i ^ 1

\* Activate.
Init ==
    /\ ssSend = [i \in {0, 1} |-> <<>>]
    /\ indexStream = 0
    /\ indexWrite = 0
    /\ writing = FALSE
    /\ closed = FALSE
    /\ delivered = <<>>
    /\ flushed = 0
    /\ nPut = 0
-------------------------------------------------------------------------------
\* The caller writes a message to WriteStream().
Put ==
    /\ ~ closed /\ nPut < MaxMsgs
    /\ nPut' = nPut + 1
    /\ ssSend' = [ssSend EXCEPT ![indexStream] = Append(@, nPut + 1)]
    /\ UNCHANGED <<indexStream, indexWrite, writing, closed, delivered, flushed>>

\* The part of Write that starts a write of the socket: new messages go to the other buffer.
StartWrite(w) ==
    /\ writing' = TRUE
    /\ indexStream' = Other(w)

\* Write, called when a write is under way (nothing to do: HandleWriten goes on), or not.
Write ==
    /\ ~ closed
    /\ flushed' = nPut
    /\ IF indexWrite = indexStream THEN StartWrite(indexWrite) ELSE UNCHANGED <<writing, indexStream>>
    /\ UNCHANGED <<ssSend, indexWrite, closed, delivered, nPut>>

\* Mutant of HandleWriten: the waiting buffer is written only when Write is called again.
HandleWritenWaits ==
    /\ writing /\ ~ closed
    /\ ssSend[indexWrite] # <<>>
    /\ delivered' = delivered \o ssSend[indexWrite]
    /\ ssSend' = [ssSend EXCEPT ![indexWrite] = <<>>]
    /\ indexWrite' = Other(indexWrite)
    /\ writing' = FALSE
    /\ UNCHANGED <<indexStream, closed, flushed, nPut>>

\* HandleWriten with what was written: the other buffer is next, at once if it holds something.
HandleWriten ==
    /\ writing /\ ~ closed
    /\ ssSend[indexWrite] # <<>>
    /\ delivered' = delivered \o ssSend[indexWrite]
    /\ ssSend' = [ssSend EXCEPT ![indexWrite] = <<>>]
    /\ indexWrite' = Other(indexWrite)
    /\ IF ssSend[Other(indexWrite)] # <<>> THEN StartWrite(Other(indexWrite))
       ELSE writing' = FALSE /\ UNCHANGED indexStream
    /\ UNCHANGED <<closed, flushed, nPut>>

\* HandleWriten with 0: the socket failed, or Write was called with nothing to write.
\* HandlePeerError removes the peer; so does a failed read.
HandleWritenNone ==
    /\ writing /\ ~ closed
    /\ ssSend[indexWrite] = <<>>
    /\ closed' = TRUE
    /\ UNCHANGED <<ssSend, indexStream, indexWrite, writing, delivered, flushed, nPut>>

Fail ==
    /\ ~ closed
    /\ closed' = TRUE
    /\ UNCHANGED <<ssSend, indexStream, indexWrite, writing, delivered, flushed, nPut>>

Next == Put \/ Write \/ HandleWriten \/ HandleWritenNone \/ Fail

Spec == Init /\ [][Next]_vars

\* The socket ends every write, and the IO thread runs the completion.
Fairness == WF_vars(HandleWriten \/ HandleWritenNone)

FairSpec == Spec /\ Fairness
-------------------------------------------------------------------------------
\* IsWriteable, as the caller sees it: at most one buffer is waiting.
IsWriteable == indexStream = indexWrite \/ ssSend[indexStream] = <<>>

\* A write is under way exactly when the indexes differ, and then the caller cannot touch
\* what it writes; when none is, everything put in is in one buffer.
WriteOwnsBuffer ==
    /\ writing <=> indexStream # indexWrite
    /\ ~ writing => ssSend[Other(indexWrite)] = <<>>

Channel == INSTANCE MsgChannel WITH
    pending <- ssSend[indexWrite] \o ssSend[Other(indexWrite)],
    broken <- closed

\* What CPeer puts in flushed order on the socket is the promise of MsgChannel: nothing is
\* lost, doubled or reordered between the two buffers, and nothing that was flushed while a
\* write was under way waits for another call (peer.cpp:108).
MessagesInOrder == Channel!Spec
===============================================================================
