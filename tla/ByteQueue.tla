------------------------------ MODULE ByteQueue ------------------------------
(***************************************************************************)
(* What a circular stream promises: a queue of at most Capacity bytes with *)
(* a read position in it.  Reading moves the position and keeps the bytes, *)
(* which only Consume drops.  The bytes are numbered in the order they are *)
(* put, modulo Capacity + 1, and a number names its byte for as long as    *)
(* the byte is kept, whatever was dropped.  CircularBuf implements it.     *)
(***************************************************************************)
EXTENDS Integers, Sequences

CONSTANTS Capacity, Byte

VARIABLES content,   \* the bytes that are kept, oldest first
          pos,       \* how many of them have been read
          first,     \* the number of the oldest
          out        \* what the last call returned; -1 is the end of the stream

vars == <<content, pos, first, out>>

Init == content = <<>> /\ pos = 0 /\ first = 0 /\ out = 0

\* The number of the byte behind the i oldest.
Number(i) == (first + i) % (Capacity + 1)

Put(c) ==
    /\ IF Len(content) < Capacity THEN content' = Append(content, c) /\ out' = c
       ELSE UNCHANGED content /\ out' = -1
    /\ UNCHANGED <<pos, first>>

Get ==
    /\ IF pos < Len(content) THEN pos' = pos + 1 /\ out' = content[pos + 1]
       ELSE UNCHANGED pos /\ out' = -1
    /\ UNCHANGED <<content, first>>

\* The oldest n bytes go; a position among them moves to the oldest byte left.
Consume(n) ==
    LET k == IF n < Len(content) THEN n ELSE Len(content)
    IN  /\ content' = SubSeq(content, k + 1, Len(content))
        /\ pos' = IF pos < k THEN 0 ELSE pos - k
        /\ first' = Number(k)
        /\ UNCHANGED out

\* The position moves to the byte of number p, or behind the last one, and p is returned;
\* it stays if no byte kept has that number.
SeekTo(p) ==
    /\ IF \E i \in 0..Len(content) : Number(i) = p
       THEN pos' \in 0..Len(content) /\ Number(pos') = p /\ out' = p
       ELSE UNCHANGED pos /\ out' = -1
    /\ UNCHANGED <<content, first>>

Next ==
    \/ Get
    \/ \E c \in Byte : Put(c)
    \/ \E n \in 0..(Capacity + 1) : Consume(n)
    \/ \E p \in 0..Capacity : SeekTo(p)

Spec == Init /\ [][Next]_vars
==============================================================================
