----------------------------- MODULE CircularBuf -----------------------------
(***************************************************************************)
(* circularbuf, the buffer of CWalleveCircularStream: a ring of a power of *)
(* two of bytes under the get and put areas of std::streambuf.  Pointers   *)
(* are offsets in the ring; a pointer at its end stands for its beginning. *)
(***************************************************************************)
EXTENDS Integers, Sequences

CONSTANTS MIN_SIZE,       \* the smallest ring
          maximum_size,   \* what the constructor is asked for
          Bytes           \* bound: bytes put in, modulo

VARIABLES buffer_, begin_,
          gptr, egptr,    \* the get area
          pptr, epptr,    \* the put area
          nBytes,           \* which byte is put next: every byte is its number modulo Bytes
          out             \* what the last call returned; -1 is traits_type::eof()

ringVars == <<buffer_, begin_, gptr, egptr, pptr, epptr, nBytes, out>>

\* The constructor: the smallest power of two from MIN_SIZE that is enough.
buf_size_ == CHOOSE s \in {MIN_SIZE * 2 ^ i : i \in 0..maximum_size} :
                /\ s >= maximum_size
                /\ s = MIN_SIZE \/ s \div 2 < maximum_size

\* That powers of two grow beyond every size is arithmetic.
ASSUME CircularBufAssumption == buf_size_ \in Nat \ {0} /\ Bytes \in Nat \ {0}

Masked(n) == n % buf_size_

ppos == Masked(pptr)
gpos == Masked(gptr)

size == Masked(pptr - begin_)
freespace == buf_size_ - size - 1
showmanyc == Masked(pptr - gptr)

RingInit ==
    /\ buffer_ = [i \in 0..(buf_size_ - 1) |-> 0]
    /\ gptr = 0 /\ egptr = 0
    /\ pptr = 0 /\ epptr = buf_size_ - 1
    /\ begin_ = 0
    /\ nBytes = 0
    /\ out = 0

setg(b, e) == gptr' = b /\ egptr' = e
Eof == out' = -1
------------------------------------------------------------------------------
Store(p) ==
    /\ buffer_' = [buffer_ EXCEPT ![p] = nBytes]
    /\ pptr' = p + 1
    /\ nBytes' = (nBytes + 1) % Bytes
    /\ out' = nBytes

\* Mutant of overflow: the free part is taken to end at the first byte kept.
overflowToBegin ==
    IF ppos = begin_ /\ size # 0 THEN Eof /\ UNCHANGED <<buffer_, pptr, epptr, nBytes>>
    ELSE /\ epptr' = IF ppos >= begin_ THEN buf_size_ ELSE begin_
         /\ Store(ppos)

\* overflow: the put area is used up; the free part, up to the byte before begin_, is next.
overflow ==
    LET pend == Masked(begin_ - 1)
    IN  IF ppos = pend THEN Eof /\ UNCHANGED <<buffer_, pptr, epptr, nBytes>>
        ELSE /\ epptr' = IF ppos > pend THEN buf_size_ ELSE pend
             /\ Store(ppos)

\* sputc.
PutByte ==
    /\ IF pptr < epptr THEN Store(pptr) /\ UNCHANGED epptr ELSE overflow
    /\ UNCHANGED <<begin_, gptr, egptr>>

\* sbumpc; underflow when the get area is used up: what was put since, up to the put
\* position or to the end of the ring.
GetByte ==
    /\ IF gptr < egptr THEN gptr' = gptr + 1 /\ out' = buffer_[gptr] /\ UNCHANGED egptr
       ELSE IF gpos = ppos THEN Eof /\ UNCHANGED <<gptr, egptr>>
       ELSE /\ setg(gpos + 1, IF gpos < ppos THEN ppos ELSE buf_size_)
            /\ out' = buffer_[gpos]
    /\ UNCHANGED <<buffer_, begin_, pptr, epptr, nBytes>>

\* consume: when the read position was dropped, it moves to the first byte kept.
Consume(n) ==
    LET b == IF n >= size THEN ppos ELSE Masked(begin_ + n)
        dropped == \/ ppos >= b /\ (gpos < b \/ gpos > ppos)
                   \/ ppos < b /\ gpos < b /\ gpos > ppos
    IN  /\ begin_' = b
        /\ IF dropped THEN setg(b, IF b <= ppos THEN ppos ELSE buf_size_)
           ELSE UNCHANGED <<gptr, egptr>>
        /\ UNCHANGED <<buffer_, pptr, epptr, nBytes, out>>

\* seekpos: a position of the ring among the bytes kept, or behind the last.
SeekPos(p) ==
    /\ IF \/ ppos >= begin_ /\ p >= begin_ /\ p <= ppos
          \/ ppos < begin_ /\ (p >= begin_ \/ p <= ppos)
       THEN /\ setg(p, IF p <= ppos THEN ppos ELSE buf_size_)
            /\ out' = p
       ELSE Eof /\ UNCHANGED <<gptr, egptr>>
    /\ UNCHANGED <<buffer_, begin_, pptr, epptr, nBytes>>

\* seekoff, from the first byte kept, the read position or the put position.
SeekOff(off) == \E from \in {begin_, gptr, pptr} : SeekPos(Masked(from + off))

RingNext ==
    \/ PutByte \/ GetByte
    \/ \E n \in 0..buf_size_ : Consume(n)
    \/ \E off \in {-1, 0, 1} : SeekOff(off)
    \/ \E p \in 0..(buf_size_ - 1) : SeekPos(p)

RingSpec == RingInit /\ [][RingNext]_ringVars
------------------------------------------------------------------------------
\* The bytes that are kept, and how many of them are before the read position.
Kept == [i \in 1..size |-> buffer_[Masked(begin_ + i - 1)]]
Read == Masked(gptr - begin_)

Queue == INSTANCE ByteQueue WITH
    Capacity <- buf_size_ - 1,
    Byte <- 0..(Bytes - 1),
    content <- Kept,
    pos <- Read,
    first <- begin_

\* What the stream says it has to read, and room for, is what it gives and takes.
SizesAgree ==
    /\ showmanyc = size - Read
    /\ size + freespace = buf_size_ - 1

\* Behind the areas of std::streambuf, the ring is the queue of ByteQueue: no byte is lost,
\* overwritten or read twice where an area ends, the ring wraps, the buffer is full or the
\* bytes under the read position are dropped (circular.cpp:43), and a position a call
\* returned leads back to its byte as long as that byte is kept (circular.cpp:142).
RingIsQueue == Queue!Spec /\ []SizesAgree
==============================================================================
