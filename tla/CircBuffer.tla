----------------------------- MODULE CircBuffer -----------------------------
(***************************************************************************)
(* circ_buffer.c: the circular buffer that holds what could not be sent.   *)
(* A write or a read that passes the end of the memory is done in two      *)
(* pieces.  begin = end says nothing: the buffer is empty or full, which   *)
(* data_size tells apart.                                                  *)
(***************************************************************************)
EXTENDS Integers, Sequences

CONSTANTS
  Bytes,     \* what is stored
  Size,      \* the size given to circ_buffer_init
  MaxLen     \* the largest number of bytes of one call

\* Calls move at least one byte and memory is asked for at least one.
ASSUME CircBufferAssumption ==
  /\ Size \in Nat \ {0}
  /\ MaxLen \in Nat

VARIABLES
  live,       \* between circ_buffer_init and circ_buffer_deinit
  buffer,     \* cb->buffer
  size,       \* cb->size
  data_size,  \* cb->data_size
  begin,      \* cb->begin
  end,        \* cb->end
  got,        \* the bytes the last call copied to the caller
  ret         \* the result of the last call

vars == << live, buffer, size, data_size, begin, end, got, ret >>

\* cb->buffer is NULL.
NoMemory == [i \in {} |-> 0]

\* The bytes of memory at cb->buffer
MemorySize == IF live THEN size ELSE 0

TypeOK ==
  /\ live \in BOOLEAN
  /\ size \in {0, Size}
  /\ buffer \in [0..(MemorySize - 1) -> Bytes]
  /\ data_size \in 0..size
  /\ begin \in Nat /\ (begin # 0 => begin < size)
  /\ end \in Nat /\ (end # 0 => end < size)
  /\ got \in Seq(Bytes)
  /\ ret \in {0, -1}

-----------------------------------------------------------------------------
\* memcpy(&dst[at], data, Len(data))
Memcpy(dst, at, data) ==
  [ i \in DOMAIN dst |->
      IF i \in at..(at + Len(data) - 1) THEN data[i - at + 1] ELSE dst[i] ]

\* The n bytes of the memory from position at on.
Slice(at, n) == [i \in 1..n |-> buffer[at + i - 1]]

-----------------------------------------------------------------------------
Init ==
  /\ live = FALSE
  /\ buffer = NoMemory
  /\ size = 0
  /\ data_size = 0 /\ begin = 0 /\ end = 0
  /\ got = << >> /\ ret = 0

\* circ_buffer_init, and circ_buffer_init_with_mem, which does not fail; what
\* the memory holds is whatever it held before
CircBufferInit ==
  /\ ~live
  /\ live' = TRUE
  /\ size' = Size
  /\ buffer' \in [0..(Size - 1) -> Bytes]
  /\ data_size' = 0 /\ begin' = 0 /\ end' = 0
  /\ got' = << >> /\ ret' = 0

\* circ_buffer_init when malloc fails: a buffer nothing fits into
CircBufferInitFails ==
  /\ ~live
  /\ live' = TRUE
  /\ size' = 0
  /\ buffer' = NoMemory
  /\ data_size' = 0 /\ begin' = 0 /\ end' = 0
  /\ got' = << >> /\ ret' = -1

\* circ_buffer_deinit gives the memory back and leaves the rest as it is; the
\* structure is not used again before the next init
CircBufferDeinit ==
  /\ live
  /\ live' = FALSE
  /\ buffer' = NoMemory
  /\ got' = << >> /\ ret' = 0
  /\ UNCHANGED << size, data_size, begin, end >>

Fail ==
  /\ ret' = -1
  /\ got' = << >>
  /\ UNCHANGED << live, buffer, size, data_size, begin, end >>

\* The memory after put copied data, in two pieces where it must wrap.
Stored(data) ==
  LET begin_len == size - end IN
  IF end + Len(data) > size
    THEN Memcpy(Memcpy(buffer, end, SubSeq(data, 1, begin_len)),
                0, SubSeq(data, begin_len + 1, Len(data)))
    ELSE Memcpy(buffer, end, data)

\* circ_buffer_put
CircBufferPut(data) ==
  /\ live
  /\ IF data_size + Len(data) > size
       THEN Fail
       ELSE /\ buffer' = Stored(data)
            /\ end' = (end + Len(data)) % size
            /\ data_size' = data_size + Len(data)
            /\ ret' = 0
            /\ got' = << >>
            /\ UNCHANGED << live, size, begin >>

\* A faulty variant: one byte too few counts as the room before the end.
CopiedOffByOne(n) ==
  LET begin_len == size - begin - 1 IN
  IF begin + n < size
    THEN Slice(begin, n)
    ELSE Slice(begin, begin_len) \o Slice(0, n - begin_len)

\* What get and peek copy to the caller.
Copied(n) ==
  LET begin_len == size - begin IN
  IF begin + n <= size
    THEN Slice(begin, n)
    ELSE Slice(begin, begin_len) \o Slice(0, n - begin_len)

\* A faulty variant: begin runs past the end of the memory.
DropUnwrapped(n) ==
  /\ begin' = begin + n
  /\ data_size' = data_size - n
  /\ ret' = 0
  /\ UNCHANGED << live, buffer, size, end >>

\* n bytes from begin on are given up
Drop(n) ==
  /\ begin' = (begin + n) % size
  /\ data_size' = data_size - n
  /\ ret' = 0
  /\ UNCHANGED << live, buffer, size, end >>

\* circ_buffer_get
CircBufferGet(n) ==
  /\ live
  /\ IF data_size - n < 0 THEN Fail ELSE Drop(n) /\ got' = Copied(n)

\* circ_buffer_advance
CircBufferAdvance(n) ==
  /\ live
  /\ IF data_size - n < 0 THEN Fail ELSE Drop(n) /\ got' = << >>

\* circ_buffer_peek
CircBufferPeek(n) ==
  /\ live
  /\ IF data_size - n < 0
       THEN Fail
       ELSE /\ got' = Copied(n)
            /\ ret' = 0
            /\ UNCHANGED << live, buffer, size, data_size, begin, end >>

\* circ_buffer_reset
CircBufferReset ==
  /\ live
  /\ data_size' = 0 /\ begin' = 0 /\ end' = 0
  /\ got' = << >> /\ ret' = 0
  /\ UNCHANGED << live, buffer, size >>

-----------------------------------------------------------------------------
Next ==
  \/ CircBufferInit \/ CircBufferInitFails \/ CircBufferDeinit \/ CircBufferReset
  \/ \E n \in 1..MaxLen :
       \/ \E data \in [1..n -> Bytes] : CircBufferPut(data)
       \/ CircBufferGet(n) \/ CircBufferAdvance(n) \/ CircBufferPeek(n)

Spec == Init /\ [][Next]_vars

-----------------------------------------------------------------------------
\* The index at which the next byte is stored is the one after the last byte
\* that is held, whichever of begin and end has wrapped; circ_buffer_is_full
\* and circ_buffer_is_empty rely on data_size for it.
IndicesAgree ==
  IF size = 0 THEN begin = 0 /\ end = 0 ELSE end = (begin + data_size) % size

\* The bytes held, in the order in which they were put.
Contents ==
  IF live THEN [i \in 1..data_size |-> buffer[(begin + i - 1) % size]] ELSE << >>

\* circ_buffer.c implements BoundedFifo: no byte is lost, repeated or
\* overtaken where the buffer wraps, and a call that fails changes nothing.
Fifo == INSTANCE BoundedFifo WITH capacity <- MemorySize, queue <- Contents

ImplementsFifo == Fifo!Spec
=============================================================================
