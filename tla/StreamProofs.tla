----------------------------- MODULE StreamProofs -----------------------------
(***************************************************************************)
(* The two ways bytes take through the library.  Going out they wait in    *)
(* the circular buffer, here for every size of it and every kind of data.  *)
(* Coming in they pass the telnet reader, here for every stream of data    *)
(* and commands, cut into chunks of any size.                              *)
(***************************************************************************)
EXTENDS CircBuffer, TelnetReader, Lemmas

\* The inductive invariant of the circular buffer.
IInv == TypeOK /\ IndicesAgree

-----------------------------------------------------------------------------
(* Positions.                                                              *)

\* An index of n bytes.
LEMMA Index ==
  ASSUME NEW n \in Nat, NEW k \in Nat, k < n
  PROVE  n \in Nat \ {0} /\ k \in 0..(n - 1)
OBVIOUS

\* The position k bytes behind begin.
LEMMA Behind ==
  ASSUME TypeOK, size # 0, NEW k \in 0..size
  PROVE  /\ (begin + k) % size = IF begin + k < size THEN begin + k ELSE begin + k - size
         /\ (begin + k) % size \in 0..(size - 1)
<1>1. size \in Nat \ {0} /\ begin \in 0..(size - 1)
  BY CircBufferAssumption DEF TypeOK
<1>2. (begin + k) % size = IF begin + k < size THEN begin + k ELSE begin + k - size
  BY <1>1, SumWrap
<1> QED BY <1>1, <1>2

\* A function over 1..n is a sequence of that length.
LEMMA FunctionIsSeq ==
  ASSUME NEW S, NEW n \in Nat, NEW f \in [1..n -> S]
  PROVE  f \in Seq(S) /\ Len(f) = n
<1>1. f \in Seq(S)
  BY SeqDef
<1>2. DOMAIN f = 1..n /\ DOMAIN f = 1..Len(f) /\ Len(f) \in Nat
  BY <1>1, LenProperties
<1>3. n <= Len(f)
  BY <1>2
<1>4. Len(f) <= n
  BY <1>2
<1> QED BY <1>1, <1>2, <1>3, <1>4

\* What the buffer holds.
LEMMA ContentsSeq ==
  ASSUME TypeOK, live
  PROVE  /\ Contents \in Seq(Bytes)
         /\ Len(Contents) = data_size
         /\ \A i \in 1..data_size : Contents[i] = buffer[(begin + (i - 1)) % size]
<1>1. data_size \in Nat
  BY CircBufferAssumption DEF TypeOK
<1>2. ASSUME NEW i \in 1..data_size
      PROVE  /\ begin + i - 1 = begin + (i - 1)
             /\ buffer[(begin + i - 1) % size] \in Bytes
  <2>1. size # 0 /\ i - 1 \in 0..size
    BY <1>1, CircBufferAssumption DEF TypeOK
  <2>2. begin + i - 1 = begin + (i - 1)
    BY <1>1 DEF TypeOK
  <2>3. (begin + (i - 1)) % size \in 0..(size - 1)
    BY <2>1, Behind
  <2> QED BY <2>2, <2>3 DEF TypeOK, MemorySize
<1>3. Contents \in [1..data_size -> Bytes]
  BY <1>2 DEF Contents
<1>4. \A i \in 1..data_size : Contents[i] = buffer[(begin + (i - 1)) % size]
  BY <1>2 DEF Contents
<1> QED BY <1>1, <1>3, <1>4, FunctionIsSeq

\* The same after a step.
LEMMA ContentsAfter ==
  ASSUME TypeOK', live'
  PROVE  /\ Contents' \in Seq(Bytes)
         /\ Len(Contents') = data_size'
         /\ \A i \in 1..data_size' : Contents'[i] = buffer'[(begin' + (i - 1)) % size']
<1>1. data_size' \in Nat
  BY CircBufferAssumption DEF TypeOK
<1>2. ASSUME NEW i \in 1..data_size'
      PROVE  /\ begin' + i - 1 = begin' + (i - 1)
             /\ buffer'[(begin' + i - 1) % size'] \in Bytes
  <2>1. /\ size' \in Nat \ {0} /\ begin' \in 0..(size' - 1) /\ i - 1 \in 0..size'
    <3>1. data_size' \in 0..size' /\ size' \in Nat /\ begin' \in Nat /\ (begin' # 0 => begin' < size')
      BY CircBufferAssumption DEF TypeOK
    <3>2. size' \in Nat /\ size' # 0 /\ i - 1 \in 0..size'
      BY <1>1, <3>1
    <3>3. size' \in Nat \ {0}
      BY <3>2
    <3>4. begin' \in Nat /\ begin' < size'
      BY <3>1, <3>2
    <3>5. begin' \in 0..(size' - 1)
      BY <3>2, <3>4, Index
    <3> QED BY <3>2, <3>3, <3>5
  <2>2. begin' + i - 1 = begin' + (i - 1)
    BY <2>1, <1>1
  <2>3. (begin' + (i - 1)) % size' \in 0..(size' - 1)
    BY <2>1, SumWrapRange
  <2> QED BY <2>2, <2>3 DEF TypeOK, MemorySize
<1>3. Contents' \in [1..data_size' -> Bytes]
  BY <1>2 DEF Contents
<1>4. \A i \in 1..data_size' : Contents'[i] = buffer'[(begin' + (i - 1)) % size']
  BY <1>2 DEF Contents
<1> QED BY <1>1, <1>3, <1>4, FunctionIsSeq

-----------------------------------------------------------------------------
(* Copying in and out.                                                     *)

\* What the memory holds after put: data from end on, wrapping, and what it
\* held before everywhere else.
LEMMA StoredValue ==
  ASSUME TypeOK, live, size # 0, NEW data \in Seq(Bytes), Len(data) <= size
  PROVE  /\ Stored(data) \in [0..(size - 1) -> Bytes]
         /\ \A j \in 0..(size - 1) :
              Stored(data)[j] =
                IF j >= end /\ j < end + Len(data) THEN data[j - end + 1]
                ELSE IF j + size < end + Len(data) THEN data[j + size - end + 1]
                ELSE buffer[j]
<1> DEFINE n == Len(data)
           first == SubSeq(data, 1, size - end)
           rest == SubSeq(data, size - end + 1, n)
<1>1. /\ size \in Nat \ {0} /\ end \in 0..(size - 1) /\ n \in Nat /\ n <= size
      /\ buffer \in [0..(size - 1) -> Bytes]
  BY LenProperties, CircBufferAssumption DEF TypeOK, MemorySize
<1>2. \A i \in 1..n : data[i] \in Bytes
  BY ElementOfSeq
<1>3. CASE end + n <= size
  <2>1. Stored(data) = Memcpy(buffer, end, data)
    BY <1>1, <1>3 DEF Stored
  <2>2. \A j \in 0..(size - 1) :
          Stored(data)[j] = IF j \in end..(end + n - 1) THEN data[j - end + 1] ELSE buffer[j]
    BY <2>1, <1>1 DEF Memcpy
  <2>3. Stored(data) \in [0..(size - 1) -> Bytes]
    <3>1. \A j \in end..(end + n - 1) : j - end + 1 \in 1..n
      BY <1>1
    <3> QED BY <2>1, <3>1, <1>1, <1>2 DEF Memcpy
  <2>4. ASSUME NEW j \in 0..(size - 1)
        PROVE  /\ j \in end..(end + n - 1) <=> j >= end /\ j < end + n
               /\ ~(j + size < end + n)
    BY <1>1, <1>3
  <2> QED BY <2>2, <2>3, <2>4
<1>4. CASE end + n > size
  <2>1. Stored(data) = Memcpy(Memcpy(buffer, end, first), 0, rest)
    BY <1>1, <1>4 DEF Stored
  <2>2. /\ Len(first) = size - end
        /\ \A i \in 1..(size - end) : first[i] = data[i]
    <3>1. \A i \in 1..(size - end) : data[i] \in Bytes
      BY <1>1, <1>2, <1>4
    <3>2. /\ Len(first) = IF 1 <= size - end THEN (size - end) - 1 + 1 ELSE 0
          /\ \A i \in 1..((size - end) - 1 + 1) : first[i] = data[1 + i - 1]
      BY <3>1, <1>1, SubSeqProperties
    <3> QED BY <3>2, <1>1
  <2>3. /\ Len(rest) = n - (size - end)
        /\ \A i \in 1..(n - (size - end)) : rest[i] = data[size - end + i]
    <3>1. \A i \in (size - end + 1)..n : data[i] \in Bytes
      BY <1>1, <1>2
    <3>2. /\ Len(rest) = IF size - end + 1 <= n THEN n - (size - end + 1) + 1 ELSE 0
          /\ \A i \in 1..(n - (size - end + 1) + 1) : rest[i] = data[(size - end + 1) + i - 1]
      <4>1. size - end + 1 \in Int /\ n \in Int
        BY <1>1
      <4> HIDE DEF n
      <4> QED BY <3>1, <4>1, SubSeqProperties
    <3>3. size - end + 1 <= n /\ n - (size - end + 1) + 1 = n - (size - end)
      BY <1>1, <1>4
    <3>4. \A i \in 1..(n - (size - end)) : (size - end + 1) + i - 1 = size - end + i
      BY <1>1
    <3> HIDE DEF rest
    <3> QED BY <3>2, <3>3, <3>4
  <2> HIDE DEF first, rest
  <2> DEFINE one == Memcpy(buffer, end, first)
  <2>4. /\ DOMAIN one = 0..(size - 1)
        /\ \A j \in 0..(size - 1) : one[j] = IF j >= end THEN data[j - end + 1] ELSE buffer[j]
    <3>1. \A j \in 0..(size - 1) :
            one[j] = IF j \in end..(end + (size - end) - 1) THEN first[j - end + 1] ELSE buffer[j]
      BY <2>2, <1>1 DEF Memcpy
    <3>2. \A j \in 0..(size - 1) :
            /\ j \in end..(end + (size - end) - 1) <=> j >= end
            /\ j >= end => j - end + 1 \in 1..(size - end)
      BY <1>1
    <3> QED BY <3>1, <3>2, <2>2, <1>1 DEF Memcpy
  <2> HIDE DEF one
  <2>5. /\ DOMAIN Stored(data) = 0..(size - 1)
        /\ \A j \in 0..(size - 1) :
             Stored(data)[j] = IF j < n - (size - end) THEN data[size - end + j + 1] ELSE one[j]
    <3>1. Stored(data) = Memcpy(one, 0, rest)
      BY <2>1 DEF one
    <3>2. \A j \in 0..(size - 1) :
            Stored(data)[j] = IF j \in 0..(0 + (n - (size - end)) - 1) THEN rest[j - 0 + 1] ELSE one[j]
      BY <3>1, <2>3, <2>4 DEF Memcpy
    <3>3. \A j \in 0..(size - 1) :
            /\ j \in 0..(0 + (n - (size - end)) - 1) <=> j < n - (size - end)
            /\ j < n - (size - end) =>
                 /\ j - 0 + 1 \in 1..(n - (size - end))
                 /\ size - end + (j - 0 + 1) = size - end + j + 1
      BY <1>1
    <3> QED BY <3>1, <3>2, <3>3, <2>3, <2>4 DEF Memcpy
  <2>6. ASSUME NEW j \in 0..(size - 1)
        PROVE  /\ Stored(data)[j] =
                    IF j >= end /\ j < end + n THEN data[j - end + 1]
                    ELSE IF j + size < end + n THEN data[j + size - end + 1]
                    ELSE buffer[j]
               /\ Stored(data)[j] \in Bytes
    <3>1. CASE j >= end
      <4>1. ~(j < n - (size - end)) /\ j < end + n /\ j - end + 1 \in 1..n
        BY <3>1, <1>1, <1>4
      <4> QED BY <4>1, <3>1, <2>4, <2>5, <1>2
    <3>2. CASE j < end /\ j + size < end + n
      <4>1. /\ j < n - (size - end) /\ ~(j >= end) /\ j + size - end + 1 \in 1..n
            /\ size - end + j + 1 = j + size - end + 1
        BY <3>2, <1>1, <1>4
      <4> QED BY <4>1, <3>2, <2>5, <1>2
    <3>3. CASE j < end /\ ~(j + size < end + n)
      <4>1. ~(j < n - (size - end)) /\ ~(j >= end)
        BY <3>3, <1>1, <1>4
      <4> QED BY <4>1, <3>3, <2>4, <2>5, <1>1
    <3> QED BY <3>1, <3>2, <3>3, <1>1
  <2>7. Stored(data) \in [0..(size - 1) -> Bytes]
    <3>1. Stored(data) = [j \in 0..(size - 1) |-> Stored(data)[j]]
      BY <2>1, <2>5 DEF Memcpy
    <3> QED BY <3>1, <2>6
  <2> QED BY <2>6, <2>7
<1> QED BY <1>1, <1>3, <1>4

\* get and peek copy the bytes that were put first, in order.
LEMMA CopiedValue ==
  ASSUME TypeOK, live, NEW n \in 1..data_size
  PROVE  Copied(n) = SubSeq(Contents, 1, n)
<1>1. /\ size \in Nat \ {0} /\ begin \in 0..(size - 1) /\ data_size \in Nat
      /\ n \in Nat /\ n <= data_size /\ n <= size /\ buffer \in [0..(size - 1) -> Bytes]
  BY CircBufferAssumption DEF TypeOK, MemorySize
<1>2. /\ SubSeq(Contents, 1, n) \in Seq(Bytes)
      /\ Len(SubSeq(Contents, 1, n)) = n
      /\ \A i \in 1..n : SubSeq(Contents, 1, n)[i] = buffer[(begin + (i - 1)) % size]
  <2>1. \A i \in 1..n : Contents[i] \in Bytes /\ Contents[i] = buffer[(begin + (i - 1)) % size]
    <3>1. \A i \in 1..n : i \in 1..data_size
      BY <1>1
    <3> QED BY <3>1, <1>1, ContentsSeq, ElementOfSeq
  <2>2. /\ SubSeq(Contents, 1, n) \in Seq(Bytes)
        /\ Len(SubSeq(Contents, 1, n)) = IF 1 <= n THEN n - 1 + 1 ELSE 0
        /\ \A i \in 1..(n - 1 + 1) : SubSeq(Contents, 1, n)[i] = Contents[1 + i - 1]
    BY <2>1, <1>1, SubSeqProperties
  <2>3. n - 1 + 1 = n /\ 1 <= n /\ \A i \in 1..n : 1 + i - 1 = i
    BY <1>1
  <2>4. Len(SubSeq(Contents, 1, n)) = n
    BY <2>2, <2>3
  <2>5. \A i \in 1..n : SubSeq(Contents, 1, n)[i] = Contents[i]
    BY <2>2, <2>3
  <2> QED BY <2>1, <2>2, <2>4, <2>5
<1>3. \A i \in 1..n : (begin + (i - 1)) % size =
                         IF begin + (i - 1) < size THEN begin + (i - 1) ELSE begin + (i - 1) - size
  <2>1. \A i \in 1..n : i - 1 \in 0..size
    BY <1>1
  <2> QED BY <2>1, <1>1, Behind
<1>4. CASE begin + n <= size
  <2>1. Copied(n) = [i \in 1..n |-> buffer[begin + i - 1]]
    BY <1>4 DEF Copied, Slice
  <2>2. \A i \in 1..n : /\ (begin + (i - 1)) % size = begin + i - 1
                        /\ begin + i - 1 \in 0..(size - 1)
    BY <1>1, <1>3, <1>4
  <2>3. Copied(n) \in [1..n -> Bytes]
    BY <2>1, <2>2, <1>1
  <2>4. Copied(n) \in Seq(Bytes) /\ Len(Copied(n)) = n
    BY <2>3, <1>1, FunctionIsSeq
  <2>5. \A i \in 1..n : Copied(n)[i] = SubSeq(Contents, 1, n)[i]
    BY <2>1, <2>2, <1>2
  <2> QED BY <2>4, <2>5, <1>2, SeqEqual
<1>5. CASE begin + n > size
  <2> DEFINE m == size - begin
             a == Slice(begin, m)
             b == Slice(0, n - m)
  <2>0. m \in Nat /\ m >= 1 /\ n - m \in Nat /\ m < n
    BY <1>1, <1>5
  <2>1. Copied(n) = a \o b
    BY <1>1, <1>5 DEF Copied
  <2>2. a \in Seq(Bytes) /\ Len(a) = m /\ \A i \in 1..m : a[i] = buffer[begin + i - 1]
    <3>1. \A i \in 1..m : begin + i - 1 \in 0..(size - 1)
      BY <1>1
    <3>2. a \in [1..m -> Bytes]
      BY <3>1, <1>1 DEF Slice
    <3> QED BY <3>2, <2>0, FunctionIsSeq DEF Slice
  <2>3. b \in Seq(Bytes) /\ Len(b) = n - m /\ \A i \in 1..(n - m) : b[i] = buffer[0 + i - 1]
    <3>1. \A i \in 1..(n - m) : 0 + i - 1 \in 0..(size - 1)
      BY <1>1
    <3>2. b \in [1..(n - m) -> Bytes]
      BY <3>1, <1>1 DEF Slice
    <3> QED BY <3>2, <2>0, FunctionIsSeq DEF Slice
  <2> HIDE DEF a, b
  <2>4. /\ a \o b \in Seq(Bytes)
        /\ Len(a \o b) = m + (n - m)
        /\ \A i \in 1..(m + (n - m)) : (a \o b)[i] = IF i <= m THEN a[i] ELSE b[i - m]
    BY <2>2, <2>3, ConcatProperties
  <2>5. m + (n - m) = n
    BY <1>1
  <2>6. ASSUME NEW i \in 1..n
        PROVE  (a \o b)[i] = SubSeq(Contents, 1, n)[i]
    <3>1. CASE i <= m
      <4>1. i \in 1..m /\ (begin + (i - 1)) % size = begin + i - 1
        BY <3>1, <1>1, <1>3
      <4> QED BY <4>1, <3>1, <2>2, <2>4, <2>5, <1>2
    <3>2. CASE ~(i <= m)
      <4>1. i - m \in 1..(n - m) /\ (begin + (i - 1)) % size = 0 + (i - m) - 1
        BY <3>2, <1>1, <1>3
      <4> QED BY <4>1, <3>2, <2>3, <2>4, <2>5, <1>2
    <3> QED BY <3>1, <3>2
  <2> QED BY <2>1, <2>4, <2>5, <2>6, <1>2, SeqEqual
<1> QED BY <1>1, <1>4, <1>5

-----------------------------------------------------------------------------
(* The invariant.                                                          *)

\* A put that succeeds.
LEMMA PutKeepsIndices ==
  ASSUME IInv, NEW n \in 1..MaxLen, NEW data \in [1..n -> Bytes],
         CircBufferPut(data), ~(data_size + Len(data) > size)
  PROVE  /\ IInv' /\ live /\ live'
         /\ size # 0 /\ data \in Seq(Bytes) /\ Len(data) = n
         /\ size' = size /\ begin' = begin /\ data_size' = data_size + n
         /\ buffer' = Stored(data) /\ end = (begin + data_size) % size
<1>1. n \in Nat /\ n >= 1
  BY CircBufferAssumption
<1>2. data \in Seq(Bytes) /\ Len(data) = n
  BY <1>1, FunctionIsSeq
<1>3. /\ size \in Nat \ {0} /\ begin \in 0..(size - 1) /\ end \in 0..(size - 1)
      /\ data_size \in Nat /\ data_size + n <= size /\ n <= size
  BY <1>1, <1>2, CircBufferAssumption DEF IInv, TypeOK
<1>4. /\ live /\ buffer' = Stored(data) /\ end' = (end + n) % size
      /\ data_size' = data_size + n /\ ret' = 0 /\ got' = << >>
      /\ UNCHANGED << live, size, begin >>
  BY <1>2 DEF CircBufferPut
<1>5. Stored(data) \in [0..(size - 1) -> Bytes]
  BY <1>2, <1>3, <1>4, StoredValue DEF IInv
<1>6. end' \in 0..(size - 1)
  <2>1. n \in 0..size
    BY <1>1, <1>3
  <2> QED BY <2>1, <1>3, <1>4, SumWrapRange
<1>7. << >> \in Seq(Bytes)
  BY EmptySeq
<1>8. TypeOK'
  BY <1>3, <1>4, <1>5, <1>6, <1>7 DEF IInv, TypeOK, MemorySize
<1>9. end = (begin + data_size) % size
  BY <1>3 DEF IInv, IndicesAgree
<1>10. end' = (begin + (data_size + n)) % size
  <2>1. data_size \in 0..size /\ data_size + n \in 0..size /\ n \in 0..size
    BY <1>1, <1>3
  <2>2. end = IF begin + data_size < size THEN begin + data_size ELSE begin + data_size - size
    BY <2>1, <1>3, <1>9, SumWrap
  <2>3. (end + n) % size = IF end + n < size THEN end + n ELSE end + n - size
    BY <2>1, <1>3, SumWrap
  <2>4. (begin + (data_size + n)) % size =
          IF begin + (data_size + n) < size THEN begin + (data_size + n)
          ELSE begin + (data_size + n) - size
    BY <2>1, <1>3, SumWrap
  <2> DEFINE u == (end + n) % size
             v == (begin + (data_size + n)) % size
  <2>5. u = IF end + n < size THEN end + n ELSE end + n - size
    BY <2>3
  <2>6. v = IF begin + (data_size + n) < size THEN begin + (data_size + n)
            ELSE begin + (data_size + n) - size
    BY <2>4
  <2> HIDE DEF u, v
  <2>7. u = v
    BY <2>2, <2>5, <2>6, <1>1, <1>3
  <2> QED BY <2>7, <1>4 DEF u, v
<1>11. IndicesAgree'
  BY <1>3, <1>4, <1>10 DEF IndicesAgree
<1> QED BY <1>2, <1>3, <1>4, <1>8, <1>9, <1>11 DEF IInv

\* Giving up bytes at the front.
LEMMA DropKeepsIndices ==
  ASSUME IInv, NEW n \in 1..MaxLen, Drop(n), ~(data_size - n < 0), got' \in Seq(Bytes)
  PROVE  /\ IInv'
         /\ n \in 1..data_size /\ size # 0
         /\ size' = size /\ buffer' = buffer /\ data_size' = data_size - n
         /\ begin' = (begin + n) % size
<1>1. /\ size \in Nat \ {0} /\ begin \in 0..(size - 1) /\ end \in 0..(size - 1)
      /\ data_size \in Nat /\ n \in Nat /\ n >= 1 /\ n <= data_size /\ data_size <= size
  BY CircBufferAssumption DEF IInv, TypeOK
<1>2. /\ begin' = (begin + n) % size /\ data_size' = data_size - n /\ ret' = 0
      /\ UNCHANGED << live, buffer, size, end >>
  BY DEF Drop
<1>3. begin' \in 0..(size - 1)
  <2>1. n \in 0..size
    BY <1>1
  <2> QED BY <2>1, <1>1, <1>2, SumWrapRange
<1>4. TypeOK'
  BY <1>1, <1>2, <1>3 DEF IInv, TypeOK, MemorySize
<1>5. end = (begin' + (data_size - n)) % size
  <2>1. data_size \in 0..size /\ data_size - n \in 0..size /\ n \in 0..size
    BY <1>1
  <2>2. end = IF begin + data_size < size THEN begin + data_size ELSE begin + data_size - size
    <3>1. end = (begin + data_size) % size
      BY <1>1 DEF IInv, IndicesAgree
    <3> QED BY <3>1, <2>1, <1>1, SumWrap
  <2>3. begin' = IF begin + n < size THEN begin + n ELSE begin + n - size
    BY <2>1, <1>1, <1>2, SumWrap
  <2> DEFINE v == (begin' + (data_size - n)) % size
  <2>4. v = IF begin' + (data_size - n) < size THEN begin' + (data_size - n)
            ELSE begin' + (data_size - n) - size
    BY <2>1, <1>1, <1>3, SumWrap
  <2> HIDE DEF v
  <2>5. end = v
    BY <2>2, <2>3, <2>4, <1>1
  <2> QED BY <2>5 DEF v
<1>6. IndicesAgree'
  BY <1>1, <1>2, <1>5 DEF IndicesAgree
<1> QED BY <1>1, <1>2, <1>4, <1>6 DEF IInv

\* An operation that fails changes no index.
LEMMA FailKeepsIndices ==
  ASSUME IInv, Fail
  PROVE  IInv' /\ Contents' = Contents
<1>1. << >> \in Seq(Bytes)
  BY EmptySeq
<1> QED BY <1>1 DEF IInv, Fail, TypeOK, MemorySize, IndicesAgree, Contents

\* circ_buffer_deinit leaves the indices as they are.
LEMMA DeinitKeepsIndices ==
  ASSUME IInv, CircBufferDeinit
  PROVE  IInv'
<1>1. << >> \in Seq(Bytes) /\ NoMemory \in [0..(0 - 1) -> Bytes]
  BY EmptySeq DEF NoMemory
<1>2. TypeOK'
  BY <1>1 DEF CircBufferDeinit, IInv, TypeOK, MemorySize
<1>3. IndicesAgree'
  BY DEF CircBufferDeinit, IInv, IndicesAgree
<1> QED BY <1>2, <1>3 DEF IInv

\* The initialisations and circ_buffer_reset leave the buffer empty.
LEMMA ClearKeepsIndices ==
  ASSUME IInv, CircBufferInit \/ CircBufferInitFails \/ CircBufferReset
  PROVE  IInv'
<1>1. << >> \in Seq(Bytes) /\ NoMemory \in [0..(0 - 1) -> Bytes]
  BY EmptySeq DEF NoMemory
<1>2. /\ data_size' = 0 /\ begin' = 0 /\ end' = 0 /\ got' = << >> /\ ret' \in {0, -1}
      /\ size' \in {0, Size} /\ buffer' \in [0..(MemorySize' - 1) -> Bytes] /\ live' \in BOOLEAN
  BY <1>1 DEF CircBufferInit, CircBufferInitFails, CircBufferReset, IInv, TypeOK, MemorySize
<1>3. size' \in Nat /\ 0 \in 0..size' /\ begin' = 0 /\ data_size' = 0
  BY <1>2, CircBufferAssumption
<1>4. TypeOK'
  BY <1>1, <1>2, <1>3 DEF TypeOK
<1>5. size' # 0 => (begin' + data_size') % size' = 0
  <2> SUFFICES ASSUME size' # 0 PROVE (begin' + data_size') % size' = 0
    OBVIOUS
  <2>1. size' \in Nat \ {0} /\ begin' \in 0..(size' - 1) /\ data_size' \in 0..size'
    <3>1. 0 < size'
      BY <1>3
    <3>2. size' \in Nat \ {0}
      BY <1>3
    <3>3. begin' \in 0..(size' - 1)
      BY <1>3, <3>1, Index
    <3> QED BY <1>3, <3>2, <3>3
  <2>2. begin' + data_size' = 0 /\ begin' + data_size' < size'
    BY <1>3, <2>1
  <2>3. (begin' + data_size') % size' =
          IF begin' + data_size' < size' THEN begin' + data_size' ELSE begin' + data_size' - size'
    BY <2>1, SumWrap
  <2> QED BY <2>2, <2>3
<1> QED BY <1>2, <1>4, <1>5 DEF IInv, IndicesAgree

\* What peek and get copy has the right type.
LEMMA CopiedType ==
  ASSUME IInv, live, NEW n \in 1..MaxLen, ~(data_size - n < 0)
  PROVE  n \in 1..data_size /\ Copied(n) = SubSeq(Contents, 1, n) /\ Copied(n) \in Seq(Bytes)
<1>1. n \in 1..data_size /\ data_size \in Nat
  BY CircBufferAssumption DEF IInv, TypeOK
<1>2. Copied(n) = SubSeq(Contents, 1, n)
  BY <1>1, CopiedValue DEF IInv
<1>3. \A i \in 1..n : Contents[i] \in Bytes
  <2>1. \A i \in 1..n : i \in 1..data_size
    BY <1>1
  <2> QED BY <2>1, ContentsSeq, ElementOfSeq DEF IInv
<1>4. SubSeq(Contents, 1, n) \in Seq(Bytes)
  BY <1>1, <1>3, SubSeqProperties
<1> QED BY <1>1, <1>2, <1>4

\* The buffer before its initialisation.
LEMMA InitTypeOK ==
  ASSUME Init
  PROVE  TypeOK
<1>1. << >> \in Seq(Bytes) /\ NoMemory \in [0..(0 - 1) -> Bytes]
  BY EmptySeq DEF NoMemory
<1>2. buffer \in [0..(MemorySize - 1) -> Bytes]
  BY <1>1 DEF Init, MemorySize
<1>3. data_size \in 0..size
  BY DEF Init
<1>4. got \in Seq(Bytes) /\ live \in BOOLEAN
  BY <1>1 DEF Init
<1> QED BY <1>2, <1>3, <1>4 DEF Init, TypeOK

\* The indices of circ_buffer.c agree in every state.
THEOREM InvariantHolds == Spec => []IInv
<1>1. Init => IInv
  <2> SUFFICES ASSUME Init PROVE IInv
    OBVIOUS
  <2>1. TypeOK
    BY InitTypeOK
  <2> QED BY <2>1 DEF Init, IInv, IndicesAgree
<1>2. IInv /\ [Next]_vars => IInv'
  <2> SUFFICES ASSUME IInv, [Next]_vars PROVE IInv'
    OBVIOUS
  <2>1. CASE CircBufferInit \/ CircBufferInitFails \/ CircBufferDeinit \/ CircBufferReset
    BY <2>1, ClearKeepsIndices, DeinitKeepsIndices
  <2>2. ASSUME NEW n \in 1..MaxLen, NEW data \in [1..n -> Bytes], CircBufferPut(data)
        PROVE  IInv'
    <3>1. CASE data_size + Len(data) > size
      BY <3>1, <2>2, FailKeepsIndices DEF CircBufferPut
    <3>2. CASE ~(data_size + Len(data) > size)
      BY <3>2, <2>2, PutKeepsIndices
    <3> QED BY <3>1, <3>2
  <2>3. ASSUME NEW n \in 1..MaxLen, CircBufferGet(n) \/ CircBufferAdvance(n)
        PROVE  IInv'
    <3>1. CASE data_size - n < 0
      BY <3>1, <2>3, FailKeepsIndices DEF CircBufferGet, CircBufferAdvance
    <3>2. CASE ~(data_size - n < 0)
      <4>1. got' \in Seq(Bytes) /\ Drop(n)
        BY <3>2, <2>3, CopiedType, EmptySeq DEF CircBufferGet, CircBufferAdvance
      <4> QED BY <4>1, <3>2, DropKeepsIndices
    <3> QED BY <3>1, <3>2
  <2>4. ASSUME NEW n \in 1..MaxLen, CircBufferPeek(n) PROVE IInv'
    <3>1. CASE data_size - n < 0
      BY <3>1, <2>4, FailKeepsIndices DEF CircBufferPeek
    <3>2. CASE ~(data_size - n < 0)
      <4>1. Copied(n) \in Seq(Bytes)
        BY <3>2, <2>4, CopiedType DEF CircBufferPeek
      <4> QED BY <4>1, <3>2, <2>4 DEF CircBufferPeek, IInv, TypeOK, MemorySize, IndicesAgree
    <3> QED BY <3>1, <3>2
  <2>5. CASE UNCHANGED vars
    BY <2>5 DEF vars, IInv, TypeOK, MemorySize, IndicesAgree
  <2> QED BY <2>1, <2>2, <2>3, <2>4, <2>5 DEF Next
<1> QED BY <1>1, <1>2, PTL DEF Spec

\* The variables of circ_buffer.c keep their types: no index leaves the
\* memory.
THEOREM TypeCorrect == Spec => []TypeOK
<1>1. IInv => TypeOK
  BY DEF IInv
<1> QED BY <1>1, InvariantHolds, PTL

\* end is begin + data_size, wrapped, in every state.
THEOREM IndicesStayInStep == Spec => []IndicesAgree
<1>1. IInv => IndicesAgree
  BY DEF IInv
<1> QED BY <1>1, InvariantHolds, PTL

-----------------------------------------------------------------------------
(* The refinement.                                                         *)

\* After a step that leaves the buffer empty it holds the empty sequence.
LEMMA EmptyContentsAfter ==
  ASSUME TypeOK', live', data_size' = 0
  PROVE  Contents' = << >>
<1>1. Contents' \in Seq(Bytes) /\ Len(Contents') = 0
  BY ContentsAfter
<1> QED BY <1>1, EmptySeq

\* put appends.
LEMMA PutAppends ==
  ASSUME IInv, NEW n \in 1..MaxLen, NEW data \in [1..n -> Bytes],
         CircBufferPut(data), ~(data_size + Len(data) > size)
  PROVE  Contents' = Contents \o data
<1>1. /\ IInv' /\ live /\ live'
      /\ size # 0 /\ data \in Seq(Bytes) /\ Len(data) = n
      /\ size' = size /\ begin' = begin /\ data_size' = data_size + n
      /\ buffer' = Stored(data) /\ end = (begin + data_size) % size
  BY PutKeepsIndices
<1>2. /\ size \in Nat \ {0} /\ begin \in 0..(size - 1) /\ end \in 0..(size - 1)
      /\ data_size \in Nat /\ data_size + n <= size /\ n \in Nat /\ n >= 1
  BY <1>1, CircBufferAssumption DEF IInv, TypeOK
<1>3. /\ Contents \in Seq(Bytes) /\ Len(Contents) = data_size
      /\ \A i \in 1..data_size : Contents[i] = buffer[(begin + (i - 1)) % size]
  BY <1>1, ContentsSeq DEF IInv
<1>4. /\ Contents' \in Seq(Bytes) /\ Len(Contents') = data_size + n
      /\ \A i \in 1..(data_size + n) : Contents'[i] = Stored(data)[(begin + (i - 1)) % size]
  BY <1>1, ContentsAfter DEF IInv
<1>5. /\ Contents \o data \in Seq(Bytes)
      /\ Len(Contents \o data) = data_size + n
      /\ \A i \in 1..(data_size + n) :
           (Contents \o data)[i] = IF i <= data_size THEN Contents[i] ELSE data[i - data_size]
  BY <1>1, <1>3, ConcatProperties
<1>6. \A j \in 0..(size - 1) :
        Stored(data)[j] =
          IF j >= end /\ j < end + n THEN data[j - end + 1]
          ELSE IF j + size < end + n THEN data[j + size - end + 1]
          ELSE buffer[j]
  <2>1. Len(data) <= size
    BY <1>1, <1>2
  <2> QED BY <2>1, <1>1, StoredValue DEF IInv
<1>7. end = IF begin + data_size < size THEN begin + data_size ELSE begin + data_size - size
  <2>1. data_size \in 0..size
    BY <1>2
  <2> QED BY <2>1, <1>1, <1>2, SumWrap
<1>8. ASSUME NEW i \in 1..(data_size + n)
      PROVE  Contents'[i] = (Contents \o data)[i]
  <2> DEFINE j == (begin + (i - 1)) % size
  <2>1. i - 1 \in 0..size
    BY <1>2
  <2>2. /\ j = IF begin + (i - 1) < size THEN begin + (i - 1) ELSE begin + (i - 1) - size
        /\ j \in 0..(size - 1)
    BY <2>1, <1>1, Behind DEF IInv
  <2>3. Contents'[i] = Stored(data)[j]
    BY <1>4
  <2>4. i \in 1..data_size => Contents[i] = buffer[j]
    BY <1>3
  <2> HIDE DEF j
  <2>5. CASE i <= data_size
    <3>1. ~(j >= end /\ j < end + n) /\ ~(j + size < end + n)
      BY <2>2, <2>5, <1>2, <1>7
    <3>2. i \in 1..data_size
      BY <2>5, <1>2
    <3>3. Stored(data)[j] = buffer[j]
      BY <3>1, <2>2, <1>6
    <3> QED BY <3>2, <3>3, <2>3, <2>4, <2>5, <1>5
  <2>6. CASE ~(i <= data_size)
    <3>1. CASE j >= end /\ j < end + n
      <4>1. j - end + 1 = i - data_size
        BY <3>1, <2>2, <2>6, <1>2, <1>7
      <4>2. Stored(data)[j] = data[j - end + 1]
        BY <3>1, <2>2, <1>6
      <4> QED BY <4>1, <4>2, <2>3, <2>6, <1>5
    <3>2. CASE ~(j >= end /\ j < end + n)
      <4>1. j + size < end + n /\ j + size - end + 1 = i - data_size
        BY <3>2, <2>2, <2>6, <1>2, <1>7
      <4>2. Stored(data)[j] = data[j + size - end + 1]
        BY <3>2, <4>1, <2>2, <1>6
      <4> QED BY <4>1, <4>2, <2>3, <2>6, <1>5
    <3> QED BY <3>1, <3>2
  <2> QED BY <2>5, <2>6
<1> QED BY <1>4, <1>5, <1>8, SeqEqual

\* get and advance take from the front.
LEMMA DropTakes ==
  ASSUME IInv, live, NEW n \in 1..MaxLen, Drop(n), ~(data_size - n < 0), got' \in Seq(Bytes)
  PROVE  Contents' = SubSeq(Contents, n + 1, Len(Contents))
<1>1. /\ IInv' /\ live'
      /\ n \in 1..data_size /\ size # 0
      /\ size' = size /\ buffer' = buffer /\ data_size' = data_size - n
      /\ begin' = (begin + n) % size
  BY DropKeepsIndices DEF Drop
<1>2. /\ size \in Nat \ {0} /\ begin \in 0..(size - 1) /\ begin' \in 0..(size - 1)
      /\ data_size \in Nat /\ data_size <= size /\ n \in Nat /\ n >= 1 /\ n <= data_size
  BY <1>1, CircBufferAssumption DEF IInv, TypeOK
<1>3. /\ Contents \in Seq(Bytes) /\ Len(Contents) = data_size
      /\ \A i \in 1..data_size : Contents[i] = buffer[(begin + (i - 1)) % size]
  BY <1>1, ContentsSeq DEF IInv
<1>4. /\ Contents' \in Seq(Bytes) /\ Len(Contents') = data_size - n
      /\ \A i \in 1..(data_size - n) : Contents'[i] = buffer[(begin' + (i - 1)) % size]
  BY <1>1, ContentsAfter DEF IInv
<1>5. /\ SubSeq(Contents, n + 1, data_size) \in Seq(Bytes)
      /\ Len(SubSeq(Contents, n + 1, data_size)) = data_size - n
      /\ \A i \in 1..(data_size - n) : SubSeq(Contents, n + 1, data_size)[i] = Contents[n + i]
  <2>1. \A i \in (n + 1)..data_size : Contents[i] \in Bytes
    <3>1. \A i \in (n + 1)..data_size : i \in 1..data_size
      BY <1>2
    <3> QED BY <3>1, <1>3, ElementOfSeq
  <2>2. n + 1 \in Int /\ data_size \in Int
    BY <1>2
  <2>3. /\ SubSeq(Contents, n + 1, data_size) \in Seq(Bytes)
        /\ Len(SubSeq(Contents, n + 1, data_size)) =
             IF n + 1 <= data_size THEN data_size - (n + 1) + 1 ELSE 0
        /\ \A i \in 1..(data_size - (n + 1) + 1) :
             SubSeq(Contents, n + 1, data_size)[i] = Contents[(n + 1) + i - 1]
    BY <2>1, <2>2, SubSeqProperties, SMTT(60)
  <2>4. /\ data_size - (n + 1) + 1 = data_size - n
        /\ ~(n + 1 <= data_size) => data_size - n = 0
        /\ \A i \in 1..(data_size - n) : (n + 1) + i - 1 = n + i
    BY <1>2
  <2> QED BY <2>3, <2>4
<1>6. begin' = IF begin + n < size THEN begin + n ELSE begin + n - size
  <2>1. n \in 0..size
    BY <1>2
  <2> QED BY <2>1, <1>1, <1>2, SumWrap
<1>7. ASSUME NEW i \in 1..(data_size - n)
      PROVE  Contents'[i] = SubSeq(Contents, n + 1, data_size)[i]
  <2> DEFINE j == (begin' + (i - 1)) % size
             k == (begin + ((n + i) - 1)) % size
  <2>1. i - 1 \in 0..size /\ (n + i) - 1 \in 0..size /\ n + i \in 1..data_size
    BY <1>2
  <2>2. j = IF begin' + (i - 1) < size THEN begin' + (i - 1) ELSE begin' + (i - 1) - size
    BY <2>1, <1>2, SumWrap
  <2>3. k = IF begin + ((n + i) - 1) < size THEN begin + ((n + i) - 1)
            ELSE begin + ((n + i) - 1) - size
    BY <2>1, <1>2, SumWrap
  <2>4. Contents'[i] = buffer[j] /\ Contents[n + i] = buffer[k]
    BY <2>1, <1>3, <1>4
  <2> HIDE DEF j, k
  <2>5. j = k
    BY <2>1, <2>2, <2>3, <1>2, <1>6
  <2> QED BY <2>4, <2>5, <1>5
<1>8. Contents' = SubSeq(Contents, n + 1, data_size)
  BY <1>4, <1>5, <1>7, SeqEqual
<1> QED BY <1>3, <1>8

\* circ_buffer.c implements BoundedFifo, where the buffer wraps and where it
\* is full or empty.
THEOREM Refinement == Spec => ImplementsFifo
<1>1. Init => Fifo!Init
  <2> SUFFICES ASSUME Init PROVE Fifo!Init
    OBVIOUS
  <2>1. Contents = << >> /\ MemorySize = 0
    BY DEF Init, Contents, MemorySize
  <2> QED BY <2>1 DEF Init, Fifo!Init
<1>2. IInv /\ IInv' /\ [Next]_vars => [Fifo!Next]_(Fifo!vars)
  <2> SUFFICES ASSUME IInv, IInv', [Next]_vars PROVE [Fifo!Next]_(Fifo!vars)
    OBVIOUS
  <2>1. CASE CircBufferInit \/ CircBufferInitFails \/ CircBufferDeinit \/ CircBufferReset
    <3>1. CircBufferInit \/ CircBufferInitFails \/ CircBufferReset => Contents' = << >>
      BY EmptyContentsAfter DEF IInv, CircBufferInit, CircBufferInitFails, CircBufferReset
    <3>2. CircBufferInit => Fifo!Create(Size)
      BY <3>1, CircBufferAssumption DEF CircBufferInit, MemorySize, Fifo!Create
    <3>3. CircBufferInitFails => Fifo!Create(0)
      BY <3>1 DEF CircBufferInitFails, MemorySize, Fifo!Create
    <3>4. CircBufferDeinit => Fifo!Destroy
      BY DEF CircBufferDeinit, Contents, MemorySize, Fifo!Destroy
    <3>5. CircBufferReset => Fifo!Reset
      BY <3>1 DEF CircBufferReset, MemorySize, Fifo!Reset
    <3> QED BY <2>1, <3>2, <3>3, <3>4, <3>5 DEF Fifo!Next
  <2>2. live => Len(Contents) = data_size /\ MemorySize = size
    BY ContentsSeq DEF IInv, MemorySize
  <2>3. Fail => Fifo!Fail
    BY FailKeepsIndices DEF Fail, MemorySize, Fifo!Fail
  <2>4. ASSUME NEW n \in 1..MaxLen, NEW data \in [1..n -> Bytes], CircBufferPut(data)
        PROVE  Fifo!Put(data)
    <3>1. CASE data_size + Len(data) > size
      BY <3>1, <2>2, <2>3, <2>4 DEF CircBufferPut, Fifo!Put
    <3>2. CASE ~(data_size + Len(data) > size)
      <4>1. Contents' = Contents \o data
        BY <3>2, <2>4, PutAppends
      <4> QED BY <4>1, <3>2, <2>2, <2>4 DEF CircBufferPut, MemorySize, Fifo!Put
    <3> QED BY <3>1, <3>2
  <2>5. ASSUME NEW n \in 1..MaxLen, CircBufferGet(n)
        PROVE  Fifo!Get(n)
    <3>0. n \in Int /\ data_size \in Int
      BY CircBufferAssumption DEF IInv, TypeOK
    <3>1. CASE data_size - n < 0
      <4>1. live /\ Fifo!Fail
        BY <3>1, <2>3, <2>5 DEF CircBufferGet
      <4>2. n > Len(Contents)
        BY <4>1, <3>0, <3>1, <2>2
      <4> QED BY <4>1, <4>2 DEF Fifo!Get, Fifo!Take
    <3>2. CASE ~(data_size - n < 0)
      <4>1. Copied(n) = SubSeq(Contents, 1, n) /\ Copied(n) \in Seq(Bytes)
        BY <3>2, <2>5, CopiedType DEF CircBufferGet
      <4>2. Drop(n) /\ got' = Copied(n) /\ live
        BY <3>2, <2>5 DEF CircBufferGet
      <4>3. Contents' = SubSeq(Contents, n + 1, Len(Contents))
        BY <4>1, <4>2, <3>2, DropTakes
      <4> QED BY <3>0, <4>1, <4>2, <4>3, <3>2, <2>2 DEF Drop, MemorySize, Fifo!Get, Fifo!Take
    <3> QED BY <3>1, <3>2
  <2>6. ASSUME NEW n \in 1..MaxLen, CircBufferAdvance(n)
        PROVE  Fifo!Advance(n)
    <3>0. n \in Int /\ data_size \in Int
      BY CircBufferAssumption DEF IInv, TypeOK
    <3>1. CASE data_size - n < 0
      <4>1. live /\ Fifo!Fail
        BY <3>1, <2>3, <2>6 DEF CircBufferAdvance
      <4>2. n > Len(Contents)
        BY <4>1, <3>0, <3>1, <2>2
      <4> QED BY <4>1, <4>2 DEF Fifo!Advance, Fifo!Take
    <3>2. CASE ~(data_size - n < 0)
      <4>1. Drop(n) /\ got' = << >> /\ live /\ got' \in Seq(Bytes)
        BY <3>2, <2>6, EmptySeq DEF CircBufferAdvance
      <4>2. Contents' = SubSeq(Contents, n + 1, Len(Contents))
        BY <4>1, <3>2, DropTakes
      <4> QED BY <3>0, <4>1, <4>2, <3>2, <2>2 DEF Drop, MemorySize, Fifo!Advance, Fifo!Take
    <3> QED BY <3>1, <3>2
  <2>7. ASSUME NEW n \in 1..MaxLen, CircBufferPeek(n)
        PROVE  Fifo!Peek(n)
    <3>0. n \in Int /\ data_size \in Int
      BY CircBufferAssumption DEF IInv, TypeOK
    <3>1. CASE data_size - n < 0
      <4>1. live /\ Fifo!Fail
        BY <3>1, <2>3, <2>7 DEF CircBufferPeek
      <4>2. n > Len(Contents)
        BY <4>1, <3>0, <3>1, <2>2
      <4> QED BY <4>1, <4>2 DEF Fifo!Peek
    <3>2. CASE ~(data_size - n < 0)
      <4>1. Copied(n) = SubSeq(Contents, 1, n)
        BY <3>2, <2>7, CopiedType DEF CircBufferPeek
      <4>2. /\ live /\ got' = Copied(n) /\ ret' = 0
            /\ UNCHANGED << live, buffer, size, data_size, begin, end >>
        BY <3>2, <2>7 DEF CircBufferPeek
      <4>3. Contents' = Contents
        BY <4>2 DEF Contents
      <4> QED BY <3>0, <4>1, <4>2, <4>3, <3>2, <2>2 DEF MemorySize, Fifo!Peek
    <3> QED BY <3>1, <3>2
  <2>8. CASE UNCHANGED vars
    BY <2>8 DEF vars, Fifo!vars, Contents, MemorySize
  <2> QED BY <2>1, <2>4, <2>5, <2>6, <2>7, <2>8 DEF Next, Fifo!Next
<1> QED BY <1>1, <1>2, InvariantHolds, PTL DEF Spec, ImplementsFifo, Fifo!Spec
-----------------------------------------------------------------------------
(* Runs of the telnet reader.                                              *)

\* r is the run of the machine m over the bytes s.
IsRun(r, m, s) ==
  /\ r \in [0..Len(s) -> Machine]
  /\ r[0] = m
  /\ \A i \in 1..Len(s) : r[i] = Fed(r[i - 1], s[i])

\* m when it has told k bytes more.
Later(m, k) == [ state |-> m.state, ndx |-> m.ndx, told |-> m.told + k ]

\* The machine at its start.
AtStart(n) == [ state |-> "start", ndx |-> n, told |-> 0 ]

-----------------------------------------------------------------------------
(* The machine.                                                            *)

\* The codes telnet.h names are codes; "none" is not.
LEMMA CodesKnown ==
  /\ { "IAC", "SE", "SB", "DO", "NOP" } \subseteq Codes
  /\ "none" \notin Codes
BY TelnetAssumption DEF Codes

\* Feeding keeps the machine a machine.
LEMMA FedType ==
  ASSUME NEW m \in Machine, NEW b \in Codes
  PROVE  /\ Fed(m, b) \in Machine
         /\ StateAfter(m, b) \in States
         /\ NdxAfter(m, b) \in 0..BufferSize
<1>1. StateAfter(m, b) \in States
  BY DEF StateAfter, States, Machine
<1>2. NdxAfter(m, b) \in 0..BufferSize
  BY TelnetAssumption DEF NdxAfter, Machine
<1>3. m.told \in Nat /\ m.told + 1 \in Nat
  BY DEF Machine
<1> QED BY <1>1, <1>2, <1>3 DEF Fed, Machine

\* What is in the machine that was fed.
LEMMA FedFields ==
  ASSUME NEW m, NEW b
  PROVE  /\ Fed(m, b).state = StateAfter(m, b)
         /\ Fed(m, b).ndx = NdxAfter(m, b)
         /\ Tells(m, b) => Fed(m, b).told = m.told + 1
         /\ ~Tells(m, b) => Fed(m, b).told = m.told
BY DEF Fed

\* A machine that has told more is a machine.
LEMMA LaterType ==
  ASSUME NEW m \in Machine, NEW k \in Nat
  PROVE  /\ Later(m, k) \in Machine
         /\ Later(m, k).state = m.state
         /\ Later(m, k).ndx = m.ndx
         /\ Later(m, k).told = m.told + k
BY DEF Later, Machine

\* What the machine does does not depend on how much it has told.
LEMMA FedLater ==
  ASSUME NEW m \in Machine, NEW b \in Codes, NEW k \in Nat
  PROVE  /\ Later(m, k) \in Machine
         /\ Later(m, k).state = m.state
         /\ Later(m, k).ndx = m.ndx
         /\ Later(m, k).told = m.told + k
         /\ Tells(Later(m, k), b) = Tells(m, b)
         /\ Fed(Later(m, k), b) = Later(Fed(m, b), k)
<1>1. /\ Later(m, k) \in Machine
      /\ Later(m, k).state = m.state
      /\ Later(m, k).ndx = m.ndx
      /\ Later(m, k).told = m.told + k
  BY LaterType
<1>2. Tells(Later(m, k), b) = Tells(m, b)
  BY <1>1 DEF Tells
<1>3. StateAfter(Later(m, k), b) = StateAfter(m, b)
  BY <1>1 DEF StateAfter
<1>4. NdxAfter(Later(m, k), b) = NdxAfter(m, b)
  BY <1>1 DEF NdxAfter
<1>5. m.told \in Nat
  BY DEF Machine
<1>6. CASE Tells(m, b)
  BY <1>1, <1>2, <1>3, <1>4, <1>5, <1>6 DEF Fed, Later
<1>7. CASE ~Tells(m, b)
  BY <1>1, <1>2, <1>3, <1>4, <1>5, <1>7 DEF Fed, Later
<1> QED BY <1>1, <1>2, <1>6, <1>7

-----------------------------------------------------------------------------
(* Runs.                                                                   *)

\* Every machine has a run over every sequence of bytes.
LEMMA RunExists ==
  ASSUME NEW m \in Machine, NEW s \in Seq(Codes)
  PROVE  \E r : IsRun(r, m, s)
<1> DEFINE step == [i \in 1..Len(s) |-> [q \in Machine |-> Fed(q, s[i])]]
<1>1. Len(s) \in Nat /\ \A i \in 1..Len(s) : s[i] \in Codes
  BY LenProperties, ElementOfSeq
<1>2. step \in [1..Len(s) -> [Machine -> Machine]]
  BY <1>1, FedType
<1>3. PICK r : Follows(r, Machine, Len(s), m, step)
  <2> HIDE DEF step
  <2>1. Len(s) \in Nat
    BY <1>1
  <2> QED BY <2>1, <1>2, StepsExist
<1>4. ASSUME NEW i \in 1..Len(s) PROVE r[i] = Fed(r[i - 1], s[i])
  <2>1. i - 1 \in 0..Len(s)
    BY <1>1
  <2>2. r[i] = step[i][r[i - 1]] /\ r[i - 1] \in Machine
    BY <2>1, <1>3 DEF Follows
  <2> QED BY <2>2
<1> QED BY <1>3, <1>4 DEF IsRun, Follows

\* Run is the one run there is.
LEMMA RunIsTheRun ==
  ASSUME NEW m \in Machine, NEW s \in Seq(Codes), NEW r, IsRun(r, m, s)
  PROVE  Run(m, s) = r
<1> DEFINE Eq(f) == f = [i \in 0..Len(s) |-> IF i = 0 THEN m ELSE Fed(f[i - 1], s[i])]
<1>0. Len(s) \in Nat
  BY LenProperties
<1>1. Run(m, s) = CHOOSE f : Eq(f)
  BY DEF Run
<1>2. Eq(r)
  <2>1. \A i \in 0..Len(s) : r[i] = IF i = 0 THEN m ELSE Fed(r[i - 1], s[i])
    BY <1>0 DEF IsRun
  <2>2. r = [i \in 0..Len(s) |-> r[i]]
    BY DEF IsRun
  <2> QED BY <2>1, <2>2
<1>3. ASSUME NEW f, Eq(f) PROVE f = r
  <2> DEFINE Not == { i \in Nat : i <= Len(s) /\ f[i] # r[i] }
  <2>1. \A i \in 0..Len(s) : f[i] = IF i = 0 THEN m ELSE Fed(f[i - 1], s[i])
    BY <1>3
  <2>2. Not = {}
    <3> SUFFICES ASSUME Not # {} PROVE FALSE
      OBVIOUS
    <3> Not \in SUBSET Nat
      OBVIOUS
    <3>1. PICK i \in Not : \A g \in Not : i <= g
      BY LeastExists
    <3>2. i # 0
      BY <3>1, <2>1, <1>0 DEF IsRun
    <3>3. i - 1 \in Nat /\ i - 1 \notin Not /\ i \in 1..Len(s) /\ i \in 0..Len(s) /\ i - 1 <= Len(s)
      BY <3>1, <3>2, <1>0
    <3>4. f[i - 1] = r[i - 1]
      BY <3>3
    <3>5. f[i] = Fed(f[i - 1], s[i])
      BY <2>1, <3>2, <3>3
    <3>6. r[i] = Fed(r[i - 1], s[i])
      BY <3>3 DEF IsRun
    <3> QED BY <3>1, <3>4, <3>5, <3>6
  <2>3. \A i \in 0..Len(s) : f[i] = r[i]
    BY <2>2
  <2>4. DOMAIN f = 0..Len(s) /\ f = [i \in 0..Len(s) |-> f[i]]
    BY <1>3
  <2>5. r = [i \in 0..Len(s) |-> r[i]]
    BY DEF IsRun
  <2> QED BY <2>3, <2>4, <2>5
<1>4. Eq(CHOOSE f : Eq(f))
  BY <1>2
<1> QED BY <1>1, <1>3, <1>4

\* What Run is.
LEMMA RunIs ==
  ASSUME NEW m \in Machine, NEW s \in Seq(Codes)
  PROVE  IsRun(Run(m, s), m, s)
BY RunExists, RunIsTheRun
-----------------------------------------------------------------------------
(* What a run delivers.                                                    *)

\* Nothing to come, nothing untold.
LEMMA NothingDelivers ==
  ASSUME NEW n \in 0..BufferSize
  PROVE  Delivers(Run(AtStart(n), << >>), << >>, << >>)
<1>1. AtStart(n) \in Machine
  BY DEF AtStart, Machine, States
<1>2. Run(AtStart(n), << >>)[0] = AtStart(n)
  BY <1>1, RunIs, EmptySeq DEF IsRun
<1>3. AtStart(n).state = "start" /\ AtStart(n).told = 0
  BY DEF AtStart
<1> QED BY <1>2, <1>3 DEF Delivers

\* A machine to which nothing is to come stands at its start and owes nothing.
LEMMA NothingLeft ==
  ASSUME NEW m \in Machine, m.told = 0, NEW data \in Seq(Codes),
         Delivers(Run(m, << >>), << >>, data)
  PROVE  m.state = "start" /\ data = << >>
<1>1. Run(m, << >>)[0] = m
  BY RunIs, EmptySeq DEF IsRun
<1>2. m.state = "start" /\ m.told = Len(data)
  BY <1>1 DEF Delivers
<1> QED BY <1>2, EmptySeq

\* The first byte of what is to come.
LEMMA FirstDelivers ==
  ASSUME NEW m \in Machine, m.told = 0, NEW s \in Seq(Codes), s # << >>,
         NEW data \in Seq(Codes), Delivers(Run(m, s), s, data),
         NEW next \in Machine, next.told = 0,
         next.state = StateAfter(m, Head(s)), next.ndx = NdxAfter(m, Head(s))
  PROVE  /\ Tells(m, Head(s)) =>
              /\ data # << >> /\ Head(data) = Head(s)
              /\ Delivers(Run(next, Tail(s)), Tail(s), Tail(data))
         /\ ~Tells(m, Head(s)) => Delivers(Run(next, Tail(s)), Tail(s), data)
<1> DEFINE t == Tail(s)
           k == IF Tells(m, s[1]) THEN 1 ELSE 0
           q == Run(next, t)
           r == [i \in 0..Len(s) |-> IF i = 0 THEN m ELSE Later(q[i - 1], k)]
<1>1. /\ Len(s) \in Nat /\ Len(s) # 0 /\ Head(s) = s[1] /\ s[1] \in Codes
      /\ t \in Seq(Codes) /\ Len(t) = Len(s) - 1
      /\ \A i \in 1..Len(s) : s[i] \in Codes
      /\ \A i \in 1..Len(t) : t[i] = s[i + 1]
  BY LenProperties, ElementOfSeq, HeadTailProperties, EmptySeq
<1>2. /\ q \in [0..Len(t) -> Machine] /\ q[0] = next
      /\ \A i \in 1..Len(t) : q[i] = Fed(q[i - 1], t[i])
  BY <1>1, RunIs DEF IsRun
<1> HIDE DEF q, t
<1>3. \A i \in 1..Len(s) : i - 1 \in 0..Len(t) /\ q[i - 1] \in Machine /\ Later(q[i - 1], k) \in Machine
  <2> SUFFICES ASSUME NEW i \in 1..Len(s)
               PROVE  i - 1 \in 0..Len(t) /\ q[i - 1] \in Machine /\ Later(q[i - 1], k) \in Machine
    OBVIOUS
  <2>1. i - 1 \in 0..Len(t)
    BY <1>1
  <2>2. q[i - 1] \in Machine
    BY <2>1, <1>2
  <2> QED BY <2>1, <2>2, LaterType
<1>4. r \in [0..Len(s) -> Machine] /\ r[0] = m /\ \A i \in 1..Len(s) : r[i] = Later(q[i - 1], k)
  BY <1>1, <1>3
<1> HIDE DEF r
<1>5. ASSUME NEW i \in 1..Len(s) PROVE r[i] = Fed(r[i - 1], s[i])
  <2>1. CASE i = 1
    <3>1. r[1] = Later(next, k)
      BY <1>1, <1>2, <1>4
    <3>2. Fed(m, s[1]) = Later(next, k)
      BY <1>1 DEF Fed, Later
    <3> QED BY <2>1, <3>1, <3>2, <1>4
  <2>2. CASE i # 1
    <3>1. i - 1 \in 1..Len(s) /\ i - 1 \in 1..Len(t) /\ (i - 1) + 1 = i /\ i - 2 \in 0..Len(t) /\ (i - 1) - 1 = i - 2
      BY <2>2, <1>1
    <3>2. q[i - 1] = Fed(q[i - 2], s[i])
      BY <3>1, <1>1, <1>2
    <3>3. r[i - 1] = Later(q[i - 2], k)
      BY <3>1, <1>4
    <3>4. q[i - 2] \in Machine /\ s[i] \in Codes /\ k \in Nat
      BY <3>1, <1>1, <1>2
    <3>5. Fed(Later(q[i - 2], k), s[i]) = Later(Fed(q[i - 2], s[i]), k)
      BY <3>4, FedLater
    <3>6. Fed(r[i - 1], s[i]) = Later(q[i - 1], k)
      BY <3>2, <3>3, <3>5
    <3> QED BY <3>6, <1>4
  <2> QED BY <2>1, <2>2
<1>6. Run(m, s) = r
  BY <1>4, <1>5, RunIsTheRun DEF IsRun
<1>7. /\ \A i \in 1..Len(s) : Tells(r[i - 1], s[i]) => r[i].told <= Len(data) /\ s[i] = data[r[i].told]
      /\ r[Len(s)].state = "start"
      /\ r[Len(s)].told = Len(data)
  BY <1>6 DEF Delivers
<1>8. q[Len(t)] \in Machine /\ q[Len(t)].state = "start" /\ q[Len(t)].told + k = Len(data)
  <2>1. r[Len(s)] = Later(q[Len(t)], k) /\ q[Len(t)] \in Machine
    BY <1>1, <1>3, <1>4
  <2> QED BY <2>1, <1>7 DEF Later
<1>9. ASSUME NEW i \in 1..Len(t), Tells(q[i - 1], t[i])
      PROVE  /\ q[i].told \in Nat \ {0} /\ q[i].told + k <= Len(data)
             /\ t[i] = data[q[i].told + k]
  <2>1. /\ i + 1 \in 1..Len(s) /\ (i + 1) - 1 = i /\ i \in 1..Len(s) /\ i - 1 \in 0..Len(t)
        /\ s[i + 1] = t[i]
    BY <1>1
  <2>2. q[i - 1] \in Machine /\ t[i] \in Codes /\ k \in Nat
    BY <2>1, <1>1, <1>2
  <2> HIDE DEF k
  <2>3. r[i + 1] = Later(q[i], k) /\ r[i] = Later(q[i - 1], k)
    BY <2>1, <1>4
  <2>4. Tells(r[i], s[i + 1])
    <3>1. Tells(Later(q[i - 1], k), t[i]) = Tells(q[i - 1], t[i])
      BY <2>2, FedLater
    <3> QED BY <3>1, <2>1, <2>3, <1>9
  <2>5. r[i + 1].told = q[i].told + k
    BY <2>3 DEF Later
  <2>6. q[i].told = q[i - 1].told + 1
    BY <1>2, <1>9, FedFields
  <2>7. q[i].told \in Nat \ {0}
    BY <2>2, <2>6 DEF Machine
  <2> QED BY <2>1, <2>4, <2>5, <2>7, <1>7
<1>10. Len(data) \in Nat /\ \A j \in 1..Len(data) : data[j] \in Codes
  BY LenProperties, ElementOfSeq
<1>11. ASSUME Tells(m, s[1])
       PROVE  data # << >> /\ Head(data) = s[1] /\ Delivers(q, t, Tail(data))
  <2>1. k = 1
    BY <1>11
  <2>2. 1 \in 1..Len(s) /\ r[1 - 1] = m /\ r[1] = Later(next, 1)
    BY <1>1, <1>2, <1>4, <2>1
  <2>3. r[1].told = 1
    BY <2>2 DEF Later
  <2>4. 1 <= Len(data) /\ s[1] = data[1]
    BY <1>7, <2>2, <2>3, <1>11
  <2>5. data # << >>
    BY <2>4, EmptySeq
  <2>6. /\ Head(data) = data[1] /\ Len(Tail(data)) = Len(data) - 1
        /\ \A j \in 1..Len(Tail(data)) : Tail(data)[j] = data[j + 1]
    BY <2>5, HeadTailProperties
  <2>7. ASSUME NEW i \in 1..Len(t), Tells(q[i - 1], t[i])
        PROVE  q[i].told <= Len(Tail(data)) /\ t[i] = Tail(data)[q[i].told]
    <3>1. /\ q[i].told \in Nat \ {0} /\ q[i].told + 1 <= Len(data)
          /\ t[i] = data[q[i].told + 1]
      BY <1>9, <2>7, <2>1
    <3>2. q[i].told \in 1..Len(Tail(data))
      BY <3>1, <2>6, <1>10
    <3> QED BY <3>1, <3>2, <2>6
  <2>8. q[Len(t)].told = Len(Tail(data))
    <3>1. q[Len(t)].told \in Nat
      BY <1>8 DEF Machine
    <3> QED BY <3>1, <1>8, <1>10, <2>1, <2>6
  <2> QED BY <2>4, <2>5, <2>6, <2>7, <2>8, <1>8 DEF Delivers
<1>12. ASSUME ~Tells(m, s[1]) PROVE Delivers(q, t, data)
  <2>1. k = 0
    BY <1>12
  <2>2. ASSUME NEW i \in 1..Len(t), Tells(q[i - 1], t[i])
        PROVE  q[i].told <= Len(data) /\ t[i] = data[q[i].told]
    <3>1. /\ q[i].told \in Nat \ {0} /\ q[i].told + 0 <= Len(data)
          /\ t[i] = data[q[i].told + 0]
      BY <1>9, <2>2, <2>1
    <3> QED BY <3>1
  <2>3. q[Len(t)].told = Len(data)
    BY <1>8, <1>10, <2>1 DEF Machine
  <2> QED BY <2>2, <2>3, <1>8 DEF Delivers
<1> QED BY <1>1, <1>11, <1>12 DEF q, t
\* What is sent once everything before it has been delivered is delivered
\* after it, if the machine does so from its start, whatever its buffer holds.
LEMMA DeliveredAfter ==
  ASSUME NEW m \in Machine, NEW s \in Seq(Codes), NEW data \in Seq(Codes),
         Delivers(Run(m, s), s, data),
         NEW t \in Seq(Codes), NEW more \in Seq(Codes),
         \A n \in 0..BufferSize : Delivers(Run(AtStart(n), t), t, more)
  PROVE  Delivers(Run(m, s \o t), s \o t, data \o more)
<1> DEFINE u == s \o t
           all == data \o more
           p == Run(m, s)
           n == p[Len(s)].ndx
           k == Len(data)
           q == Run(AtStart(n), t)
           r == [i \in 0..Len(u) |-> IF i <= Len(s) THEN p[i] ELSE Later(q[i - Len(s)], k)]
<1>1. /\ Len(s) \in Nat /\ Len(t) \in Nat /\ u \in Seq(Codes) /\ Len(u) = Len(s) + Len(t)
      /\ \A i \in 1..Len(u) : u[i] \in Codes
      /\ \A i \in 1..Len(s) : u[i] = s[i] /\ s[i] \in Codes
      /\ \A i \in 1..Len(t) : u[i + Len(s)] = t[i] /\ t[i] \in Codes
  BY LenProperties, ElementOfSeq, ConcatProperties
<1>2. /\ k \in Nat /\ Len(more) \in Nat /\ Len(all) = k + Len(more)
      /\ \A i \in 1..k : all[i] = data[i]
      /\ \A i \in 1..Len(more) : all[i + k] = more[i]
  BY LenProperties, ElementOfSeq, ConcatProperties
<1>3. /\ p \in [0..Len(s) -> Machine] /\ p[0] = m
      /\ \A i \in 1..Len(s) : p[i] = Fed(p[i - 1], s[i])
  BY RunIs DEF IsRun
<1>4. /\ \A i \in 1..Len(s) : Tells(p[i - 1], s[i]) => p[i].told <= k /\ s[i] = data[p[i].told]
      /\ p[Len(s)].state = "start" /\ p[Len(s)].told = k /\ p[Len(s)] \in Machine
  BY <1>1, <1>3 DEF Delivers
<1>5. n \in 0..BufferSize /\ AtStart(n) \in Machine /\ p[Len(s)] = Later(AtStart(n), k)
  <2>1. n \in 0..BufferSize /\ 0 + k = k
    BY <1>2, <1>4 DEF Machine
  <2> QED BY <2>1, <1>4 DEF Machine, States, AtStart, Later
<1>6. /\ q \in [0..Len(t) -> Machine] /\ q[0] = AtStart(n)
      /\ \A i \in 1..Len(t) : q[i] = Fed(q[i - 1], t[i])
  BY <1>5, RunIs DEF IsRun
<1>7. /\ \A i \in 1..Len(t) : Tells(q[i - 1], t[i]) =>
              q[i].told <= Len(more) /\ t[i] = more[q[i].told]
      /\ q[Len(t)].state = "start" /\ q[Len(t)].told = Len(more)
  BY <1>5 DEF Delivers
<1> HIDE DEF p, q, u, all, n, k
<1>8. \A i \in 0..Len(t) : Later(q[i], k) \in Machine
  <2> SUFFICES ASSUME NEW i \in 0..Len(t) PROVE Later(q[i], k) \in Machine
    OBVIOUS
  <2>1. q[i] \in Machine
    BY <1>6
  <2> QED BY <2>1, <1>2, LaterType
<1>9. r \in [0..Len(u) -> Machine]
  <2> SUFFICES ASSUME NEW i \in 0..Len(u)
               PROVE  (IF i <= Len(s) THEN p[i] ELSE Later(q[i - Len(s)], k)) \in Machine
    OBVIOUS
  <2>1. CASE i <= Len(s)
    <3>1. i \in 0..Len(s)
      BY <2>1, <1>1
    <3> QED BY <2>1, <3>1, <1>3
  <2>2. CASE ~(i <= Len(s))
    <3>1. i - Len(s) \in 0..Len(t)
      BY <2>2, <1>1
    <3> QED BY <2>2, <3>1, <1>8
  <2> QED BY <2>1, <2>2
<1>10. /\ \A i \in 0..Len(s) : r[i] = p[i]
       /\ \A i \in 0..Len(t) : r[i + Len(s)] = Later(q[i], k)
  <2>1. \A i \in 0..Len(s) : r[i] = p[i]
    BY <1>1
  <2>2. ASSUME NEW i \in 0..Len(t) PROVE r[i + Len(s)] = Later(q[i], k)
    <3>1. CASE i = 0
      <4>1. i + Len(s) = Len(s) /\ Len(s) \in 0..Len(s)
        BY <3>1, <1>1
      <4> QED BY <2>1, <4>1, <3>1, <1>5, <1>6
    <3>2. CASE i # 0
      <4>1. i + Len(s) \in 0..Len(u) /\ ~(i + Len(s) <= Len(s)) /\ (i + Len(s)) - Len(s) = i
        BY <3>2, <1>1
      <4> QED BY <4>1
    <3> QED BY <3>1, <3>2
  <2> QED BY <2>1, <2>2
<1> HIDE DEF r
<1>11. ASSUME NEW i \in 1..Len(s) PROVE r[i - 1] = p[i - 1] /\ r[i] = p[i] /\ u[i] = s[i]
  <2>1. i - 1 \in 0..Len(s) /\ i \in 0..Len(s)
    BY <1>1
  <2> QED BY <2>1, <1>10, <1>1
<1>12. ASSUME NEW i \in 1..Len(t)
       PROVE  /\ q[i - 1] \in Machine /\ t[i] \in Codes /\ u[i + Len(s)] = t[i]
              /\ r[(i + Len(s)) - 1] = Later(q[i - 1], k)
              /\ r[i + Len(s)] = Later(q[i], k)
  <2>1. i - 1 \in 0..Len(t) /\ i \in 0..Len(t) /\ (i + Len(s)) - 1 = (i - 1) + Len(s)
    BY <1>1
  <2> QED BY <2>1, <1>10, <1>6, <1>1
<1>13. \A i \in 1..Len(u) : i \in 1..Len(s) \/ (i - Len(s) \in 1..Len(t) /\ (i - Len(s)) + Len(s) = i)
  BY <1>1
<1>14. ASSUME NEW i \in 1..Len(u) PROVE r[i] = Fed(r[i - 1], u[i])
  <2>1. CASE i \in 1..Len(s)
    BY <2>1, <1>11, <1>3
  <2>2. CASE i - Len(s) \in 1..Len(t) /\ (i - Len(s)) + Len(s) = i
    <3> DEFINE j == i - Len(s)
    <3> j \in 1..Len(t) /\ j + Len(s) = i
      BY <2>2
    <3> HIDE DEF j
    <3>1. /\ q[j - 1] \in Machine /\ t[j] \in Codes /\ u[i] = t[j]
          /\ r[i - 1] = Later(q[j - 1], k) /\ r[i] = Later(q[j], k)
      BY <1>12
    <3>2. Fed(Later(q[j - 1], k), t[j]) = Later(Fed(q[j - 1], t[j]), k)
      BY <3>1, <1>2, FedLater
    <3>3. q[j] = Fed(q[j - 1], t[j])
      BY <1>6
    <3> QED BY <3>1, <3>2, <3>3
  <2> QED BY <2>1, <2>2, <1>13
<1>15. Run(m, u) = r
  <2>1. r[0] = m
    BY <1>1, <1>3, <1>10
  <2> QED BY <2>1, <1>1, <1>9, <1>14, RunIsTheRun DEF IsRun
<1>16. ASSUME NEW i \in 1..Len(u), Tells(r[i - 1], u[i])
       PROVE  r[i].told <= Len(all) /\ u[i] = all[r[i].told]
  <2>1. CASE i \in 1..Len(s)
    <3>1. p[i].told <= k /\ s[i] = data[p[i].told] /\ r[i] = p[i] /\ u[i] = s[i]
      BY <2>1, <1>16, <1>11, <1>4
    <3>2. i - 1 \in 0..Len(s)
      BY <2>1, <1>1
    <3>3. p[i - 1].told \in Nat
      BY <3>2, <1>3 DEF Machine
    <3>4. p[i].told = p[i - 1].told + 1
      <4>1. p[i] = Fed(p[i - 1], s[i]) /\ Tells(p[i - 1], s[i])
        BY <2>1, <1>16, <1>11, <1>3
      <4> QED BY <4>1, FedFields
    <3>5. p[i].told \in 1..k
      <4>1. k \in Nat /\ p[i].told <= k
        BY <3>1, <1>2
      <4> QED BY <4>1, <3>3, <3>4
    <3> QED BY <3>1, <3>5, <1>2
  <2>2. CASE i - Len(s) \in 1..Len(t) /\ (i - Len(s)) + Len(s) = i
    <3> DEFINE j == i - Len(s)
    <3> j \in 1..Len(t) /\ j + Len(s) = i
      BY <2>2
    <3> HIDE DEF j
    <3>1. /\ q[j - 1] \in Machine /\ t[j] \in Codes /\ u[i] = t[j]
          /\ r[i - 1] = Later(q[j - 1], k) /\ r[i] = Later(q[j], k)
      BY <1>12
    <3>2. Tells(Later(q[j - 1], k), t[j]) = Tells(q[j - 1], t[j])
      BY <3>1, <1>2, FedLater
    <3>3. Tells(q[j - 1], t[j])
      BY <3>1, <3>2, <1>16
    <3>4. q[j].told <= Len(more) /\ t[j] = more[q[j].told]
      BY <3>3, <1>7
    <3>5. q[j] = Fed(q[j - 1], t[j])
      BY <1>6
    <3>6. q[j].told = q[j - 1].told + 1
      BY <3>3, <3>5, FedFields
    <3>7. q[j - 1].told \in Nat
      BY <3>1 DEF Machine
    <3>8. q[j].told \in 1..Len(more)
      <4>1. Len(more) \in Nat
        BY <1>2
      <4>2. q[j].told \in Nat /\ q[j].told >= 1
        BY <3>6, <3>7
      <4>3. q[j].told <= Len(more)
        BY <3>4
      <4> QED BY <4>1, <4>2, <4>3
    <3>9. r[i].told = q[j].told + k
      BY <3>1 DEF Later
    <3>10. all[q[j].told + k] = more[q[j].told] /\ q[j].told + k <= Len(all)
      <4>1. /\ k \in Nat /\ Len(more) \in Nat /\ Len(all) = k + Len(more)
            /\ q[j].told \in Nat /\ q[j].told <= Len(more)
        BY <3>8, <1>2
      <4>2. q[j].told + k <= Len(all)
        BY <4>1
      <4>3. all[q[j].told + k] = more[q[j].told]
        BY <3>8, <1>2
      <4> QED BY <4>2, <4>3
    <3> QED BY <3>1, <3>4, <3>9, <3>10
  <2> QED BY <2>1, <2>2, <1>13
<1>17. r[Len(u)].state = "start" /\ r[Len(u)].told = Len(all)
  <2>1. r[Len(u)] = Later(q[Len(t)], k)
    <3>1. Len(t) \in 0..Len(t) /\ Len(u) = Len(t) + Len(s)
      BY <1>1
    <3> QED BY <3>1, <1>10
  <2>2. Len(more) + k = Len(all)
    BY <1>2
  <2> QED BY <2>1, <2>2, <1>7 DEF Later
<1> QED BY <1>15, <1>16, <1>17 DEF Delivers, u, all
-----------------------------------------------------------------------------
(* What the peer sends.                                                    *)

\* The machine at its start, told nothing.
LEMMA AtStartType ==
  ASSUME NEW n \in 0..BufferSize
  PROVE  /\ AtStart(n) \in Machine
         /\ AtStart(n).state = "start" /\ AtStart(n).ndx = n /\ AtStart(n).told = 0
BY DEF AtStart, Machine, States

\* A data byte is delivered.
LEMMA PlainDelivers ==
  ASSUME NEW n \in 0..BufferSize, NEW b \in Plain
  PROVE  /\ << b >> \in Seq(Codes)
         /\ Delivers(Run(AtStart(n), << b >>), << b >>, << b >>)
<1> DEFINE s == << b >>
           r == Run(AtStart(n), s)
<1>1. b \in Codes /\ b # "IAC" /\ s \in Seq(Codes) /\ Len(s) = 1 /\ s[1] = b
  BY TelnetAssumption DEF Codes
<1>2. r[0] = AtStart(n) /\ r[1] = Fed(AtStart(n), b)
  <2>1. IsRun(r, AtStart(n), s)
    BY <1>1, AtStartType, RunIs
  <2> QED BY <2>1, <1>1 DEF IsRun
<1> HIDE DEF r
<1>3. Tells(AtStart(n), b) /\ StateAfter(AtStart(n), b) = "start"
  BY <1>1, AtStartType DEF Tells, StateAfter
<1>4. r[1].state = "start" /\ r[1].told = 1
  BY <1>2, <1>3, FedFields, AtStartType
<1>5. Delivers(r, s, s)
  BY <1>1, <1>4 DEF Delivers
<1> QED BY <1>1, <1>5 DEF r

\* An escaped 255 is delivered as one.
LEMMA EscapeDelivers ==
  ASSUME NEW n \in 0..BufferSize
  PROVE  /\ << "IAC", "IAC" >> \in Seq(Codes) /\ << "IAC" >> \in Seq(Codes)
         /\ Delivers(Run(AtStart(n), << "IAC", "IAC" >>), << "IAC", "IAC" >>, << "IAC" >>)
<1> DEFINE s == << "IAC", "IAC" >>
           data == << "IAC" >>
           r == Run(AtStart(n), s)
<1>1. /\ "IAC" \in Codes /\ s \in Seq(Codes) /\ Len(s) = 2 /\ s[1] = "IAC" /\ s[2] = "IAC"
      /\ data \in Seq(Codes) /\ Len(data) = 1 /\ data[1] = "IAC"
  BY CodesKnown
<1>2. r[0] = AtStart(n) /\ r[1] = Fed(r[0], "IAC") /\ r[2] = Fed(r[1], "IAC")
  <2>1. IsRun(r, AtStart(n), s)
    BY <1>1, AtStartType, RunIs
  <2> QED BY <2>1, <1>1 DEF IsRun
<1> HIDE DEF r
<1>3. ~Tells(r[0], "IAC") /\ StateAfter(r[0], "IAC") = "rx_iac"
  BY <1>2, AtStartType DEF Tells, StateAfter
<1>4. r[1].state = "rx_iac" /\ r[1].told = 0
  BY <1>2, <1>3, FedFields, AtStartType
<1>5. Tells(r[1], "IAC") /\ StateAfter(r[1], "IAC") = "start"
  BY <1>4 DEF Tells, StateAfter
<1>6. r[2].state = "start" /\ r[2].told = 1
  BY <1>2, <1>4, <1>5, FedFields
<1>7. ASSUME NEW i \in 1..2, Tells(r[i - 1], s[i]) PROVE r[i].told <= 1 /\ s[i] = data[r[i].told]
  <2>1. CASE i = 1
    BY <2>1, <1>1, <1>3, <1>7
  <2>2. CASE i = 2
    BY <2>2, <1>1, <1>6
  <2> QED BY <2>1, <2>2
<1>8. Delivers(r, s, data)
  BY <1>1, <1>6, <1>7 DEF Delivers
<1> QED BY <1>1, <1>8 DEF r

\* A command the reader does not know is dropped.
LEMMA UnknownDelivers ==
  ASSUME NEW n \in 0..BufferSize
  PROVE  /\ << "IAC", "NOP" >> \in Seq(Codes)
         /\ Delivers(Run(AtStart(n), << "IAC", "NOP" >>), << "IAC", "NOP" >>, << >>)
<1> DEFINE s == << "IAC", "NOP" >>
           data == << >>
           r == Run(AtStart(n), s)
<1>1. /\ "IAC" \in Codes /\ "NOP" \in Codes /\ s \in Seq(Codes) /\ Len(s) = 2
      /\ s[1] = "IAC" /\ s[2] = "NOP" /\ Len(data) = 0
  BY CodesKnown
<1>2. r[0] = AtStart(n) /\ r[1] = Fed(r[0], "IAC") /\ r[2] = Fed(r[1], "NOP")
  <2>1. IsRun(r, AtStart(n), s)
    BY <1>1, AtStartType, RunIs
  <2> QED BY <2>1, <1>1 DEF IsRun
<1> HIDE DEF r
<1>3. ~Tells(r[0], "IAC") /\ StateAfter(r[0], "IAC") = "rx_iac"
  BY <1>2, AtStartType DEF Tells, StateAfter
<1>4. r[1].state = "rx_iac" /\ r[1].told = 0
  BY <1>2, <1>3, FedFields, AtStartType
<1>5. ~Tells(r[1], "NOP") /\ StateAfter(r[1], "NOP") = "start"
  BY <1>4 DEF Tells, StateAfter
<1>6. r[2].state = "start" /\ r[2].told = 0
  BY <1>2, <1>4, <1>5, FedFields
<1>7. \A i \in 1..2 : ~Tells(r[i - 1], s[i])
  <2> SUFFICES ASSUME NEW i \in 1..2 PROVE ~Tells(r[i - 1], s[i])
    OBVIOUS
  <2>1. i = 1 \/ i = 2
    OBVIOUS
  <2> QED BY <2>1, <1>1, <1>3, <1>5
<1>8. Delivers(r, s, data)
  BY <1>1, <1>6, <1>7 DEF Delivers
<1> QED BY <1>1, <1>8 DEF r

\* A command with an option is dropped, whatever the option.
LEMMA OptionDelivers ==
  ASSUME NEW n \in 0..BufferSize, NEW o \in Option
  PROVE  /\ << "IAC", "DO", o >> \in Seq(Codes)
         /\ Delivers(Run(AtStart(n), << "IAC", "DO", o >>), << "IAC", "DO", o >>, << >>)
<1> DEFINE s == << "IAC", "DO", o >>
           data == << >>
           r == Run(AtStart(n), s)
<1>1. /\ "IAC" \in Codes /\ "DO" \in Codes /\ o \in Codes /\ s \in Seq(Codes) /\ Len(s) = 3
      /\ s[1] = "IAC" /\ s[2] = "DO" /\ s[3] = o /\ Len(data) = 0
  BY CodesKnown DEF Option
<1>2. r[0] = AtStart(n) /\ r[1] = Fed(r[0], "IAC") /\ r[2] = Fed(r[1], "DO") /\ r[3] = Fed(r[2], o)
  <2>1. IsRun(r, AtStart(n), s)
    BY <1>1, AtStartType, RunIs
  <2> QED BY <2>1, <1>1 DEF IsRun
<1> HIDE DEF r
<1>3. ~Tells(r[0], "IAC") /\ StateAfter(r[0], "IAC") = "rx_iac"
  BY <1>2, AtStartType DEF Tells, StateAfter
<1>4. r[1].state = "rx_iac" /\ r[1].told = 0
  BY <1>2, <1>3, FedFields, AtStartType
<1>5. ~Tells(r[1], "DO") /\ StateAfter(r[1], "DO") = "rx_do_dont_will_wont"
  BY <1>4 DEF Tells, StateAfter
<1>6. r[2].state = "rx_do_dont_will_wont" /\ r[2].told = 0
  BY <1>2, <1>4, <1>5, FedFields
<1>7. ~Tells(r[2], o) /\ StateAfter(r[2], o) = "start"
  BY <1>6 DEF Tells, StateAfter
<1>8. r[3].state = "start" /\ r[3].told = 0
  BY <1>2, <1>6, <1>7, FedFields
<1>9. \A i \in 1..3 : ~Tells(r[i - 1], s[i])
  <2> SUFFICES ASSUME NEW i \in 1..3 PROVE ~Tells(r[i - 1], s[i])
    OBVIOUS
  <2>1. i = 1 \/ i = 2 \/ i = 3
    OBVIOUS
  <2> QED BY <2>1, <1>1, <1>3, <1>5, <1>7
<1>10. Delivers(r, s, data)
  BY <1>1, <1>8, <1>9 DEF Delivers
<1> QED BY <1>1, <1>10 DEF r

\* A subnegotiation whose payload fits the buffer is dropped.
LEMMA SubnegotiationDelivers ==
  ASSUME NEW n \in 0..BufferSize, NEW p \in Payload
  PROVE  LET s == << "IAC", "SB" >> \o p \o << "IAC", "SE" >>
         IN  s \in Seq(Codes) /\ Delivers(Run(AtStart(n), s), s, << >>)
<1> DEFINE head == << "IAC", "SB" >>
           tail == << "IAC", "SE" >>
           s == head \o p \o tail
           data == << >>
           stage(i) == IF i = 0 \/ i = Len(p) + 4 THEN "start"
                       ELSE IF i = 1 THEN "rx_iac"
                       ELSE IF i = Len(p) + 3 THEN "wait_for_se" ELSE "rx_sb"
           held(i) == IF i < 2 THEN n ELSE IF i <= Len(p) + 2 THEN i - 2 ELSE Len(p)
           r == [i \in 0..Len(s) |-> [ state |-> stage(i), ndx |-> held(i), told |-> 0 ]]
<1>1. p \in Seq(Codes) /\ Len(p) \in 0..BufferSize /\ \A i \in 1..Len(p) : p[i] \in Codes \ { "IAC" }
  <2>1. PICK k \in 0..BufferSize : p \in [1..k -> Codes \ { "IAC" }]
    BY DEF Payload
  <2>2. k \in Nat
    BY TelnetAssumption
  <2>3. p \in Seq(Codes \ { "IAC" })
    BY <2>1, <2>2, SeqDef
  <2>4. Len(p) = k
    BY <2>1, <2>2, <2>3, LenProperties
  <2>5. p \in Seq(Codes)
    BY <2>3, SeqMonotonic
  <2> QED BY <2>1, <2>4, <2>5
<1>2. /\ head \in Seq(Codes) /\ Len(head) = 2 /\ head[1] = "IAC" /\ head[2] = "SB"
      /\ tail \in Seq(Codes) /\ Len(tail) = 2 /\ tail[1] = "IAC" /\ tail[2] = "SE"
  BY CodesKnown
<1>3. /\ s \in Seq(Codes) /\ Len(s) = Len(p) + 4 /\ Len(p) \in Nat
      /\ s[1] = "IAC" /\ s[2] = "SB" /\ s[Len(p) + 3] = "IAC" /\ s[Len(p) + 4] = "SE"
      /\ \A i \in 3..(Len(p) + 2) : s[i] = p[i - 2] /\ s[i] # "IAC"
  <2>0. Len(p) \in Nat
    BY <1>1, LenProperties
  <2> HIDE DEF head, tail
  <2>1. /\ head \o p \in Seq(Codes) /\ Len(head \o p) = Len(p) + 2
        /\ (head \o p)[1] = "IAC" /\ (head \o p)[2] = "SB"
        /\ \A i \in 3..(Len(p) + 2) : (head \o p)[i] = p[i - 2]
    <3>1. /\ head \o p \in Seq(Codes) /\ Len(head \o p) = 2 + Len(p)
          /\ \A i \in 1..(2 + Len(p)) : (head \o p)[i] = IF i <= 2 THEN head[i] ELSE p[i - 2]
      <4>1. head \in Seq(Codes) /\ p \in Seq(Codes)
        BY <1>1, <1>2
      <4>2. /\ head \o p \in Seq(Codes) /\ Len(head \o p) = Len(head) + Len(p)
            /\ \A i \in 1..(Len(head) + Len(p)) :
                 (head \o p)[i] = IF i <= Len(head) THEN head[i] ELSE p[i - Len(head)]
        BY <4>1, ConcatProperties
      <4> QED BY <4>2, <1>2
    <3>2. 1 \in 1..(2 + Len(p)) /\ 2 \in 1..(2 + Len(p)) /\ 2 + Len(p) = Len(p) + 2
      BY <2>0
    <3>3. (head \o p)[1] = "IAC" /\ (head \o p)[2] = "SB"
      BY <3>1, <3>2, <1>2
    <3>4. ASSUME NEW i \in 3..(Len(p) + 2) PROVE (head \o p)[i] = p[i - 2]
      <4>1. i \in 1..(2 + Len(p)) /\ ~(i <= 2)
        BY <2>0
      <4> QED BY <4>1, <3>1
    <3> QED BY <3>1, <3>2, <3>3, <3>4
  <2> DEFINE front == head \o p
  <2> HIDE DEF front
  <2>2. /\ front \o tail \in Seq(Codes) /\ Len(front \o tail) = Len(front) + 2
        /\ \A i \in 1..(Len(front) + 2) : (front \o tail)[i] =
              IF i <= Len(front) THEN front[i] ELSE tail[i - Len(front)]
    BY <2>1, <1>2, ConcatProperties DEF front
  <2>3. s = front \o tail
    BY DEF front
  <2> HIDE DEF s
  <2>4. s \in Seq(Codes) /\ Len(s) = Len(p) + 4
    BY <2>0, <2>1, <2>2, <2>3 DEF front
  <2>5. \A i \in 1..(Len(p) + 2) : s[i] = front[i]
    BY <2>0, <2>1, <2>2, <2>3 DEF front
  <2>6. s[Len(p) + 3] = "IAC" /\ s[Len(p) + 4] = "SE"
    <3>1. Len(front) = Len(p) + 2
      BY <2>1 DEF front
    <3>2. s[Len(p) + 3] = tail[1] /\ s[Len(p) + 4] = tail[2]
      BY <2>0, <2>2, <2>3, <3>1
    <3> QED BY <3>2, <1>2
  <2>7. s[1] = "IAC" /\ s[2] = "SB"
    BY <2>0, <2>1, <2>5 DEF front
  <2>8. ASSUME NEW i \in 3..(Len(p) + 2) PROVE s[i] = p[i - 2] /\ s[i] # "IAC"
    <3>1. i \in 1..(Len(p) + 2) /\ i - 2 \in 1..Len(p)
      BY <2>0
    <3> QED BY <3>1, <2>1, <2>5, <1>1 DEF front
  <2> QED BY <2>0, <2>4, <2>6, <2>7, <2>8
<1> HIDE DEF s, head, tail
<1>4. \A i \in 0..Len(s) : stage(i) \in States /\ held(i) \in 0..BufferSize
  BY <1>1, <1>3, TelnetAssumption DEF States
<1>5. r \in [0..Len(s) -> Machine]
  BY <1>4 DEF Machine
<1>6. /\ \A i \in 0..Len(s) : r[i].state = stage(i) /\ r[i].ndx = held(i) /\ r[i].told = 0
      /\ \A i \in 0..Len(s) : r[i] = [ state |-> stage(i), ndx |-> held(i), told |-> 0 ]
  OBVIOUS
<1>7. r[0] = AtStart(n)
  BY <1>3, <1>6 DEF AtStart
<1> HIDE DEF r
<1>8. ASSUME NEW i \in 1..Len(s)
      PROVE  ~Tells(r[i - 1], s[i]) /\ r[i] = Fed(r[i - 1], s[i])
  <2>1. /\ i \in 0..Len(s) /\ i - 1 \in 0..Len(s)
        /\ r[i - 1].state = stage(i - 1) /\ r[i - 1].ndx = held(i - 1) /\ r[i - 1].told = 0
    BY <1>3, <1>6
  <2>2. /\ ~Tells(r[i - 1], s[i])
        /\ StateAfter(r[i - 1], s[i]) = stage(i)
        /\ NdxAfter(r[i - 1], s[i]) = held(i)
    <3>1. CASE i = 1
      BY <3>1, <2>1, <1>1, <1>3 DEF Tells, StateAfter, NdxAfter
    <3>2. CASE i = 2
      BY <3>2, <2>1, <1>1, <1>3 DEF Tells, StateAfter, NdxAfter
    <3>3. CASE i \in 3..(Len(p) + 2)
      <4>1. /\ stage(i - 1) = "rx_sb" /\ stage(i) = "rx_sb" /\ held(i - 1) = i - 3 /\ held(i) = (i - 3) + 1
            /\ i - 3 < BufferSize
        BY <3>3, <1>1, <1>3, TelnetAssumption
      <4>2. s[i] # "IAC"
        BY <3>3, <1>3
      <4> HIDE DEF stage, held
      <4> QED BY <4>1, <4>2, <2>1 DEF Tells, StateAfter, NdxAfter
    <3>4. CASE i = Len(p) + 3
      <4>1. stage(i - 1) = "rx_sb" /\ stage(i) = "wait_for_se" /\ held(i - 1) = Len(p) /\ held(i) = Len(p)
        BY <3>4, <1>1, <1>3, TelnetAssumption
      <4>2. s[i] = "IAC"
        BY <3>4, <1>3
      <4> HIDE DEF stage, held
      <4> QED BY <4>1, <4>2, <2>1 DEF Tells, StateAfter, NdxAfter
    <3>5. CASE i = Len(p) + 4
      <4>1. stage(i - 1) = "wait_for_se" /\ stage(i) = "start" /\ held(i - 1) = Len(p) /\ held(i) = Len(p)
        BY <3>5, <1>1, <1>3, TelnetAssumption
      <4> HIDE DEF stage, held
      <4> QED BY <4>1, <2>1 DEF Tells, StateAfter, NdxAfter
    <3>6. i = 1 \/ i = 2 \/ i \in 3..(Len(p) + 2) \/ i = Len(p) + 3 \/ i = Len(p) + 4
      BY <1>3
    <3> QED BY <3>1, <3>2, <3>3, <3>4, <3>5, <3>6
  <2>3. r[i] = [ state |-> stage(i), ndx |-> held(i), told |-> 0 ]
    BY <2>1, <1>6
  <2> HIDE DEF stage, held
  <2> QED BY <2>1, <2>2, <2>3 DEF Fed
<1>9. AtStart(n) \in Machine
  BY AtStartType
<1>10. Run(AtStart(n), s) = r
  BY <1>3, <1>5, <1>7, <1>8, <1>9, RunIsTheRun DEF IsRun
<1>11. Len(s) \in 0..Len(s) /\ stage(Len(s)) = "start"
  BY <1>3
<1>12. r[Len(s)].state = "start" /\ r[Len(s)].told = Len(data)
  BY <1>6, <1>11
<1>13. Delivers(r, s, data)
  BY <1>8, <1>12 DEF Delivers
<1> QED BY <1>3, <1>10, <1>13 DEF s, head, tail
-----------------------------------------------------------------------------
(* The inductive invariant of the reader.                                  *)

\* The front of two sequences, one after the other, is the front of the first.
LEMMA FrontOfConcat ==
  ASSUME NEW S, NEW s \in Seq(S), s # << >>, NEW t \in Seq(S)
  PROVE  /\ s \o t # << >> /\ Head(s \o t) = Head(s)
         /\ Tail(s \o t) = Tail(s) \o t
<1> DEFINE all == s \o t
           a == Tail(all)
           b == Tail(s) \o t
<1>1. /\ Len(s) \in Nat \ {0} /\ Len(t) \in Nat
      /\ all \in Seq(S) /\ Len(all) = Len(s) + Len(t)
      /\ \A i \in 1..(Len(s) + Len(t)) : all[i] = IF i <= Len(s) THEN s[i] ELSE t[i - Len(s)]
  BY ConcatProperties, EmptySeq, LenProperties
<1>2. all # << >> /\ all[1] = s[1]
  BY <1>1, EmptySeq
<1> HIDE DEF all
<1>3. /\ Head(all) = all[1] /\ Head(s) = s[1]
      /\ a \in Seq(S) /\ Len(a) = Len(all) - 1 /\ \A i \in 1..Len(a) : a[i] = all[i + 1]
      /\ Tail(s) \in Seq(S) /\ Len(Tail(s)) = Len(s) - 1
      /\ \A i \in 1..Len(Tail(s)) : Tail(s)[i] = s[i + 1]
  BY <1>1, <1>2, HeadTailProperties
<1>4. /\ b \in Seq(S) /\ Len(b) = (Len(s) - 1) + Len(t)
      /\ \A i \in 1..((Len(s) - 1) + Len(t)) :
           b[i] = IF i <= Len(s) - 1 THEN Tail(s)[i] ELSE t[i - (Len(s) - 1)]
  BY <1>3, ConcatProperties
<1> HIDE DEF a, b
<1>5. Len(a) = Len(b)
  BY <1>1, <1>3, <1>4
<1>6. ASSUME NEW i \in 1..Len(a) PROVE a[i] = b[i]
  <2>1. /\ i \in 1..((Len(s) - 1) + Len(t)) /\ i + 1 \in 1..(Len(s) + Len(t))
        /\ (i + 1) - Len(s) = i - (Len(s) - 1) /\ (i + 1 <= Len(s) <=> i <= Len(s) - 1)
    BY <1>1, <1>3
  <2>2. a[i] = IF i + 1 <= Len(s) THEN s[i + 1] ELSE t[(i + 1) - Len(s)]
    BY <2>1, <1>1, <1>3
  <2>3. CASE i <= Len(s) - 1
    <3>1. i \in 1..Len(Tail(s))
      BY <2>3, <1>1, <1>3
    <3> QED BY <2>1, <2>2, <2>3, <3>1, <1>3, <1>4
  <2>4. CASE ~(i <= Len(s) - 1)
    BY <2>1, <2>2, <2>4, <1>4
  <2> QED BY <2>3, <2>4
<1>7. a = b
  BY <1>3, <1>4, <1>5, <1>6, SeqEqual
<1> QED BY <1>2, <1>3, <1>7 DEF all, a, b

\* What is said of the open connection.
Explained == Delivers(Run(Now, Coming), Coming, Untold)

\* What the machine is fed, what its user is told and the machine itself are
\* what the lemmas above are about.
LEMMA ComingTypes ==
  ASSUME TelnetIInv
  PROVE  /\ Coming \in Seq(Codes) /\ Untold \in Seq(Codes)
         /\ Now \in Machine /\ Now.told = 0 /\ Now.state = state /\ Now.ndx = buf_ndx
<1>1. TelnetTypeOK
  BY DEF TelnetIInv
<1>2. Coming \in Seq(Codes)
  BY <1>1, ConcatProperties DEF TelnetTypeOK, Coming
<1>3. telling # "none" /\ ~stopping => owed # << >>
  BY DEF TelnetIInv, DataInOrder
<1>4. Untold \in Seq(Codes)
  BY <1>1, <1>3, HeadTailProperties DEF TelnetTypeOK, Untold
<1>5. Now \in Machine
  BY <1>1 DEF TelnetTypeOK, Now, Machine
<1> QED BY <1>2, <1>4, <1>5 DEF Now

\* The peer's bytes are delivered after what was under way.
LEMMA SendKeeps ==
  ASSUME TelnetIInv, NEW bytes \in Seq(Codes), NEW data \in Seq(Codes), Send(bytes, data),
         \A n \in 0..BufferSize : Delivers(Run(AtStart(n), bytes), bytes, data)
  PROVE  TelnetIInv'
<1> USE DEF Send
<1>1. TelnetTypeOK /\ wire \o bytes \in Seq(Codes) /\ owed \o data \in Seq(Codes)
  BY ConcatProperties DEF TelnetIInv, TelnetTypeOK
<1>2. TelnetTypeOK'
  BY <1>1 DEF TelnetTypeOK
<1>3. Delivers(Run(Now, Coming \o bytes), Coming \o bytes, Untold \o data)
  BY ComingTypes, DeliveredAfter DEF TelnetIInv
<1>4. Coming' = Coming \o bytes
  <2>1. CASE stopping
    BY <2>1 DEF Coming
  <2>2. CASE ~stopping
    <3>1. Coming = chunk \o wire /\ Coming' = chunk \o (wire \o bytes)
      BY <2>2 DEF Coming
    <3>2. chunk \in Seq(Codes) /\ wire \in Seq(Codes)
      BY <1>1 DEF TelnetTypeOK
    <3> HIDE DEF Send
    <3>3. (chunk \o wire) \o bytes = chunk \o (wire \o bytes)
      BY <3>2, ConcatAssociative
    <3> QED BY <3>1, <3>3
  <2> QED BY <2>1, <2>2
<1>5. /\ Untold' = Untold \o data
      /\ owed # << >> => owed \o data # << >> /\ Head(owed \o data) = Head(owed)
  <2>1. owed \in Seq(Codes)
    BY <1>1 DEF TelnetTypeOK
  <2>2. owed # << >> => /\ owed \o data # << >> /\ Head(owed \o data) = Head(owed)
                        /\ Tail(owed \o data) = Tail(owed) \o data
    BY <2>1, FrontOfConcat
  <2>3. telling # "none" /\ ~stopping => owed # << >>
    BY DEF TelnetIInv, DataInOrder
  <2>4. CASE telling # "none" /\ ~stopping
    BY <2>2, <2>3, <2>4 DEF Untold
  <2>5. CASE ~(telling # "none" /\ ~stopping)
    BY <2>5 DEF Untold
  <2> QED BY <2>2, <2>4, <2>5
<1>6. Now' = Now
  BY DEF Now
<1>7. Explained'
  BY <1>3, <1>4, <1>5, <1>6 DEF Explained
<1>8. DataInOrder'
  BY <1>5 DEF TelnetIInv, DataInOrder
<1> QED BY <1>2, <1>7, <1>8 DEF TelnetIInv, Explained, InLoop
\* What a read moves from the wire to the chunk is fed in the same order.
LEMMA ReadKeeps ==
  ASSUME TelnetIInv, Read
  PROVE  TelnetIInv'
<1> USE DEF Read, InLoop
<1>1. PICK n \in 1..Room : n <= Len(wire) /\ chunk' = SubSeq(wire, 1, n) /\ wire' = SubSeq(wire, n + 1, Len(wire))
  OBVIOUS
<1>2. wire \in Seq(Codes) /\ Len(wire) \in Nat /\ n \in 1..Len(wire) /\ n <= RxSize /\ n \in Nat
  BY <1>1, LenProperties, TelnetAssumption DEF TelnetIInv, TelnetTypeOK, Room
<1>3. /\ SubSeq(wire, 1, n) \in Seq(Codes) /\ Len(SubSeq(wire, 1, n)) = n
      /\ SubSeq(wire, n + 1, Len(wire)) \in Seq(Codes)
      /\ SubSeq(wire, 1, n) \o SubSeq(wire, n + 1, Len(wire)) = wire
  <2>1. /\ 1 \in 1..(Len(wire) + 1) /\ n \in (1 - 1)..Len(wire) /\ Len(wire) \in n..Len(wire)
        /\ \A i \in 1..Len(wire) : wire[i] \in Codes
    BY <1>2, ElementOfSeq
  <2>2. SubSeq(wire, 1, n) \in Seq(Codes) /\ Len(SubSeq(wire, 1, n)) = n
    BY <1>2, <2>1, SubSeqProperties
  <2>3. SubSeq(wire, n + 1, Len(wire)) \in Seq(Codes)
    BY <1>2, <2>1, SubSeqProperties
  <2>4. SubSeq(wire, 1, n) \o SubSeq(wire, n + 1, Len(wire)) = SubSeq(wire, 1, Len(wire))
    BY <1>2, <2>1, ConcatAdjacentSubSeq
  <2>5. SubSeq(wire, 1, Len(wire)) = wire
    BY <1>2, SubSeqFull
  <2> QED BY <2>2, <2>3, <2>4, <2>5
<1>4. TelnetTypeOK'
  BY <1>1, <1>2, <1>3 DEF TelnetIInv, TelnetTypeOK
<1>5. ~stopping
  BY DEF TelnetIInv
<1>6. Coming = wire
  BY <1>5, <1>2, ConcatEmptySeq DEF Coming
<1>7. Coming' = wire
  BY <1>1, <1>3, <1>5 DEF Coming
<1>8. Now' = Now /\ Untold' = Untold
  BY DEF Now, Untold
<1>9. Explained'
  BY <1>6, <1>7, <1>8 DEF TelnetIInv, Explained
<1> QED BY <1>4, <1>9 DEF TelnetIInv, Explained, DataInOrder

\* Each state's handler does what Fed says of it.
LEMMA FeedIsFed ==
  ASSUME TelnetIInv, Feed
  PROVE  /\ chunk # << >> /\ telling = "none" /\ d \in Codes
         /\ state' = StateAfter(Now, d) /\ buf_ndx' = NdxAfter(Now, d)
         /\ telling' = IF Tells(Now, d) THEN d ELSE "none"
         /\ telling' # "none" => state' = "start"
<1>1. chunk # << >> /\ telling = "none"
  BY DEF Feed, Start, RxIac, RxOption, RxSb, WaitForSe, Feeding
<1>2. d \in Codes
  BY <1>1, HeadTailProperties DEF d, TelnetIInv, TelnetTypeOK
<1>3. Now.state = state /\ Now.ndx = buf_ndx /\ buf_ndx \in 0..BufferSize
  BY DEF Now, TelnetIInv, TelnetTypeOK
<1> USE DEF MoveTo, DataBack, Feeding, StateAfter, NdxAfter, Tells
<1>4. CASE Start
  BY <1>1, <1>2, <1>3, <1>4 DEF Start
<1>5. CASE RxIac
  BY <1>1, <1>2, <1>3, <1>5 DEF RxIac, AfterDiscard
<1>6. CASE RxOption
  BY <1>1, <1>2, <1>3, <1>6 DEF RxOption
<1>7. CASE RxSb
  BY <1>1, <1>2, <1>3, <1>7, TelnetAssumption DEF RxSb
<1>8. CASE WaitForSe
  BY <1>1, <1>2, <1>3, <1>8 DEF WaitForSe
<1>9. Start \/ RxIac \/ RxOption \/ RxSb \/ WaitForSe
  BY DEF Feed
<1>10. /\ state' = StateAfter(Now, d) /\ buf_ndx' = NdxAfter(Now, d)
       /\ telling' = IF Tells(Now, d) THEN d ELSE "none"
       /\ telling' # "none" => state' = "start"
  BY <1>4, <1>5, <1>6, <1>7, <1>8, <1>9
<1> QED BY <1>1, <1>2, <1>10

\* A byte that is fed is data that is owed next, or part of a command.
LEMMA FeedKeeps ==
  ASSUME TelnetIInv, Feed
  PROVE  TelnetIInv'
<1>1. /\ chunk # << >> /\ telling = "none" /\ d \in Codes
      /\ state' = StateAfter(Now, d) /\ buf_ndx' = NdxAfter(Now, d)
      /\ telling' = IF Tells(Now, d) THEN d ELSE "none"
      /\ telling' # "none" => state' = "start"
  BY FeedIsFed
<1>2. ~stopping /\ conn # "nobody" /\ cb = conn /\ TelnetTypeOK
  BY <1>1 DEF TelnetIInv, InLoop
<1>3. /\ chunk' = Tail(chunk)
      /\ UNCHANGED << wire, owed, listener, cb, conn, stopping >>
  BY DEF Feed
<1>4. /\ chunk \in Seq(Codes) /\ wire \in Seq(Codes) /\ owed \in Seq(Codes)
      /\ Tail(chunk) \in Seq(Codes) /\ Len(Tail(chunk)) <= RxSize
  <2>1. chunk \in Seq(Codes) /\ wire \in Seq(Codes) /\ owed \in Seq(Codes) /\ Len(chunk) <= RxSize
    BY <1>2 DEF TelnetTypeOK
  <2>2. Tail(chunk) \in Seq(Codes) /\ Len(Tail(chunk)) = Len(chunk) - 1 /\ Len(chunk) \in Nat
    BY <2>1, <1>1, HeadTailProperties, LenProperties
  <2> QED BY <2>1, <2>2, TelnetAssumption
<1>5. Now \in Machine /\ Now.told = 0 /\ Coming \in Seq(Codes)
  BY ComingTypes
<1>6. /\ state' \in States /\ buf_ndx' \in 0..BufferSize /\ telling' \in Codes \cup { "none" }
  BY <1>1, <1>5, FedType
<1>7. TelnetTypeOK'
  BY <1>2, <1>3, <1>4, <1>6 DEF TelnetTypeOK
<1>8. Coming = chunk \o wire /\ Coming' = Tail(chunk) \o wire
  BY <1>2, <1>3 DEF Coming
<1>9. Coming # << >> /\ Head(Coming) = d /\ Tail(Coming) = Coming'
  BY <1>1, <1>4, <1>8, FrontOfConcat DEF d
<1>10. Untold = owed
  BY <1>1 DEF Untold
<1>11. Delivers(Run(Now, Coming), Coming, owed)
  BY <1>2, <1>10 DEF TelnetIInv
<1>12. /\ Now' \in Machine /\ (Now').told = 0
       /\ (Now').state = StateAfter(Now, d) /\ (Now').ndx = NdxAfter(Now, d)
  BY <1>1, <1>6 DEF Now, Machine
<1>13. /\ Tells(Now, d) => /\ owed # << >> /\ Head(owed) = d
                           /\ Delivers(Run(Now', Coming'), Coming', Tail(owed))
       /\ ~Tells(Now, d) => Delivers(Run(Now', Coming'), Coming', owed)
  <2>1. /\ Tells(Now, Head(Coming)) =>
               /\ owed # << >> /\ Head(owed) = Head(Coming)
               /\ Delivers(Run(Now', Tail(Coming)), Tail(Coming), Tail(owed))
        /\ ~Tells(Now, Head(Coming)) => Delivers(Run(Now', Tail(Coming)), Tail(Coming), owed)
    BY <1>4, <1>5, <1>9, <1>11, <1>12, FirstDelivers
  <2> QED BY <2>1, <1>9
<1>14. CASE Tells(Now, d)
  <2>1. telling' = d /\ d # "none"
    BY <1>1, <1>14, CodesKnown
  <2>2. Untold' = Tail(owed)
    BY <2>1, <1>2, <1>3 DEF Untold
  <2>3. Explained'
    BY <2>2, <1>13, <1>14 DEF Explained
  <2>4. DataInOrder'
    BY <2>1, <1>2, <1>3, <1>13, <1>14 DEF DataInOrder
  <2> QED BY <2>1, <2>3, <2>4, <1>1, <1>2, <1>3, <1>7 DEF TelnetIInv, Explained
<1>15. CASE ~Tells(Now, d)
  <2>1. telling' = "none"
    BY <1>1, <1>15
  <2>2. Untold' = owed
    BY <2>1, <1>3 DEF Untold
  <2>3. Explained'
    BY <2>2, <1>13, <1>15 DEF Explained
  <2>4. DataInOrder'
    BY <2>1 DEF DataInOrder
  <2> QED BY <2>1, <2>3, <2>4, <1>1, <1>2, <1>3, <1>7 DEF TelnetIInv, Explained
<1> QED BY <1>14, <1>15
\* A new connection begins with nothing under way and the machine at its
\* start, also when it is opened in a callback of the one before.
LEMMA OpenKeeps ==
  ASSUME TelnetIInv, Connect \/ Accept
  PROVE  TelnetIInv'
<1>1. /\ conn = "nobody" /\ wire = << >> /\ owed = << >> /\ TelnetTypeOK
      /\ ~stopping => InLoop
  BY DEF TelnetIInv, Connect, Accept
<1>2. /\ state' = "start" /\ buf_ndx' = 0
      /\ UNCHANGED << wire, owed, listener, chunk, telling, stopping >>
  BY DEF Connect, Accept, ConnectionInit, InitialState
<1>3. cb' \in Users /\ conn' \in { cb', "nobody" }
  BY <1>1 DEF Connect, Accept, AcceptedCallback, Users, TelnetTypeOK
<1>4. Coming' = << >> /\ Untold' = << >>
  <2>1. CASE stopping
    BY <2>1, <1>1, <1>2 DEF Coming, Untold
  <2>2. CASE ~stopping
    BY <2>2, <1>1, <1>2, ConcatEmptySeq, EmptySeq DEF Coming, Untold, InLoop
  <2> QED BY <2>1, <2>2
<1>5. 0 \in 0..BufferSize
  BY TelnetAssumption
<1>6. Now' = AtStart(0)
  BY <1>2 DEF Now, AtStart
<1>7. Explained'
  BY <1>4, <1>5, <1>6, NothingDelivers DEF Explained
<1>8. TelnetTypeOK'
  BY <1>1, <1>2, <1>3, <1>5 DEF TelnetTypeOK, States
<1>9. telling' # "none" => stopping'
  BY <1>1, <1>2 DEF InLoop
<1>10. stopping' => telling' # "none"
  BY <1>2 DEF TelnetIInv
<1> QED BY <1>1, <1>2, <1>3, <1>7, <1>8, <1>9, <1>10 DEF TelnetIInv, Explained, DataInOrder, InLoop

\* The rest of what the user does, and the end of a connection in the loop.
LEMMA UserKeeps ==
  ASSUME TelnetIInv, Bind \/ UserContinues \/ UserCloses \/ UserStops \/ Close
  PROVE  TelnetIInv'
<1>1. CASE Bind
  <2>1. /\ Coming' = Coming /\ Untold' = Untold /\ Now' = Now
        /\ UNCHANGED << wire, owed, cb, conn, chunk, state, buf_ndx, telling, stopping >>
        /\ listener' = "server"
    BY <1>1 DEF Bind, Coming, Untold, Now
  <2>2. Explained <=> Explained'
    BY <2>1 DEF Explained
  <2> QED BY <2>1, <2>2 DEF TelnetIInv, TelnetTypeOK, DataInOrder, InLoop, Explained
<1>2. CASE UserContinues
  <2>1. /\ telling # "none" /\ ~stopping /\ owed # << >> /\ owed \in Seq(Codes)
    BY <1>2 DEF UserContinues, TelnetIInv, DataInOrder, TelnetTypeOK
  <2>2. /\ owed' = Tail(owed) /\ Tail(owed) \in Seq(Codes) /\ telling' = "none"
        /\ UNCHANGED << wire, listener, cb, conn, chunk, state, buf_ndx, stopping >>
    BY <1>2, <2>1, HeadTailProperties DEF UserContinues
  <2>3. Coming' = Coming /\ Untold' = Untold /\ Now' = Now
    BY <2>1, <2>2 DEF Coming, Untold, Now
  <2>4. Explained <=> Explained'
    BY <2>3 DEF Explained
  <2>5. conn # "nobody"
    BY <2>1 DEF TelnetIInv, InLoop
  <2> QED BY <2>1, <2>2, <2>4, <2>5 DEF TelnetIInv, TelnetTypeOK, DataInOrder, Explained
<1>3. CASE UserCloses
  BY <1>3, EmptySeq DEF UserCloses, Closed, TelnetIInv, TelnetTypeOK, DataInOrder, Users
<1>4. CASE UserStops
  <2>1. /\ stopping /\ telling' = "none" /\ stopping' = FALSE /\ chunk' = << >>
        /\ UNCHANGED << wire, owed, listener, cb, conn, state, buf_ndx >>
    BY <1>4 DEF UserStops, LoopStops
  <2>2. Coming' = << >> \o wire /\ Coming = wire /\ Untold' = owed /\ Untold = owed /\ Now' = Now
    BY <2>1 DEF Coming, Untold, Now
  <2>3. wire \in Seq(Codes) /\ << >> \o wire = wire
    BY ConcatEmptySeq DEF TelnetIInv, TelnetTypeOK
  <2>4. Explained <=> Explained'
    BY <2>2, <2>3 DEF Explained
  <2>5. TelnetTypeOK'
    <3>1. << >> \in Seq(Codes) /\ Len(<< >>) <= RxSize
      BY EmptySeq, TelnetAssumption
    <3> QED BY <2>1, <3>1 DEF TelnetIInv, TelnetTypeOK
  <2> QED BY <2>1, <2>4, <2>5 DEF TelnetIInv, DataInOrder, InLoop, Explained
<1>5. CASE Close
  BY <1>5, EmptySeq DEF Close, Closed, TelnetIInv, TelnetTypeOK, DataInOrder, Users, InLoop
<1> QED BY <1>1, <1>2, <1>3, <1>4, <1>5

\* Whatever the peer sends is of the kinds above.
LEMMA PeerKeeps ==
  ASSUME TelnetIInv, Peer
  PROVE  TelnetIInv'
<1>0. << >> \in Seq(Codes)
  BY EmptySeq
<1>1. ASSUME NEW b \in Plain, Send(<< b >>, << b >>) PROVE TelnetIInv'
  <2>1. 0 \in 0..BufferSize
    BY TelnetAssumption
  <2> QED BY <2>1, <1>1, PlainDelivers, SendKeeps
<1>2. CASE Send(<< "IAC", "IAC" >>, << "IAC" >>)
  <2>1. 0 \in 0..BufferSize
    BY TelnetAssumption
  <2> QED BY <2>1, <1>2, EscapeDelivers, SendKeeps
<1>3. CASE Send(<< "IAC", "NOP" >>, << >>)
  <2>1. 0 \in 0..BufferSize
    BY TelnetAssumption
  <2> QED BY <2>1, <1>0, <1>3, UnknownDelivers, SendKeeps
<1>4. ASSUME NEW o \in Option, Send(<< "IAC", "DO", o >>, << >>) PROVE TelnetIInv'
  <2>1. 0 \in 0..BufferSize
    BY TelnetAssumption
  <2> QED BY <2>1, <1>0, <1>4, OptionDelivers, SendKeeps
<1>5. ASSUME NEW p \in Payload, Send(<< "IAC", "SB" >> \o p \o << "IAC", "SE" >>, << >>) PROVE TelnetIInv'
  <2> DEFINE s == << "IAC", "SB" >> \o p \o << "IAC", "SE" >>
  <2>1. 0 \in 0..BufferSize
    BY TelnetAssumption
  <2>2. s \in Seq(Codes) /\ \A n \in 0..BufferSize : Delivers(Run(AtStart(n), s), s, << >>)
    BY <2>1, SubnegotiationDelivers
  <2>3. Send(s, << >>)
    BY <1>5
  <2> HIDE DEF s
  <2> QED BY <2>2, <2>3, <1>0, SendKeeps
<1> QED BY <1>1, <1>2, <1>3, <1>4, <1>5 DEF Peer

\* The invariant: what is still to be fed of an open connection is what its
\* user is still to be told, in its order, and ends the machine's command.
THEOREM TelnetInvariantHolds == TelnetSpec => []TelnetIInv
<1>1. TelnetInit => TelnetIInv
  <2>1. << >> \in Seq(Codes) /\ Len(<< >>) <= RxSize /\ 0 \in 0..BufferSize
    BY EmptySeq, TelnetAssumption
  <2> QED BY <2>1 DEF TelnetInit, TelnetIInv, TelnetTypeOK, DataInOrder, InLoop, States
<1>2. TelnetIInv /\ [TelnetNext]_telnetVars => TelnetIInv'
  <2> SUFFICES ASSUME TelnetIInv, [TelnetNext]_telnetVars PROVE TelnetIInv'
    OBVIOUS
  <2>1. CASE TelnetNext
    BY <2>1, OpenKeeps, UserKeeps, PeerKeeps, ReadKeeps, FeedKeeps DEF TelnetNext
  <2>2. CASE UNCHANGED telnetVars
    <3>1. Coming' = Coming /\ Untold' = Untold /\ Now' = Now
      BY <2>2 DEF telnetVars, Coming, Untold, Now
    <3>2. Explained <=> Explained'
      BY <3>1 DEF Explained
    <3> QED BY <2>2, <3>2 DEF telnetVars, TelnetIInv, TelnetTypeOK, DataInOrder, InLoop, Explained
  <2> QED BY <2>1, <2>2
<1> QED BY <1>1, <1>2, PTL DEF TelnetSpec

\* The types.
THEOREM TelnetTypeCorrect == TelnetSpec => []TelnetTypeOK
<1>1. TelnetIInv => TelnetTypeOK
  BY DEF TelnetIInv
<1> QED BY <1>1, TelnetInvariantHolds, PTL

\* The user is told what the peer sent, in order, and nothing else, for
\* chunks and a subnegotiation buffer of every size.
THEOREM DataStaysInOrder == TelnetSpec => []DataInOrder
<1>1. TelnetIInv => DataInOrder
  BY DEF TelnetIInv
<1> QED BY <1>1, TelnetInvariantHolds, PTL

\* Nothing that was fed is kept from the user.
THEOREM NothingIsHeldBack == TelnetSpec => []NothingHeldBack
<1>1. TelnetIInv => NothingHeldBack
  <2> SUFFICES ASSUME TelnetIInv, conn # "nobody", wire = << >>, InLoop
               PROVE  owed = << >> /\ state = "start"
    BY DEF NothingHeldBack
  <2>1. ~stopping
    BY DEF TelnetIInv, InLoop
  <2>2. Coming = << >>
    BY <2>1, ConcatEmptySeq, EmptySeq DEF Coming, InLoop
  <2>3. Untold = owed
    BY DEF Untold, InLoop
  <2>4. /\ Now \in Machine /\ Now.told = 0 /\ Now.state = state /\ owed \in Seq(Codes)
    BY <2>3, ComingTypes
  <2>5. Delivers(Run(Now, << >>), << >>, owed)
    BY <2>2, <2>3 DEF TelnetIInv
  <2> QED BY <2>4, <2>5, NothingLeft
<1> QED BY <1>1, TelnetInvariantHolds, PTL
=============================================================================
