---------------------------- MODULE BufferProofs ----------------------------
(***************************************************************************)
(* Proofs about Buffer, for every byte set, initial size, header reserve   *)
(* and extrabuf size.  The lemmas say what each function of the class does *)
(* to a well-formed object; the invariant follows action by action.        *)
(***************************************************************************)
EXTENDS Buffer, SequenceTheorems, TLAPS

\* The part of TypeOK about one object.
Good(b) ==
    /\ b.size \in Nat
    /\ b.reader \in Nat /\ b.writer \in Nat
    /\ b.reader <= b.writer /\ b.writer <= b.size
    /\ CheapPrepend <= b.size
    /\ b.mem \in [0..(b.size - 1) -> Byte]

\* A well-formed object holds a sequence of Readable(b) bytes.
LEMMA ContentsType ==
    ASSUME NEW b, Good(b)
    PROVE  /\ Contents(b) \in Seq(Byte)
           /\ Len(Contents(b)) = Readable(b)
           /\ Readable(b) \in Nat /\ Writable(b) \in Nat
           /\ \A i \in 1..Readable(b) : Contents(b)[i] = b.mem[b.reader + i - 1]
<1>1. Readable(b) \in Nat /\ Writable(b) \in Nat
  BY DEF Good, Readable, Writable
<1>2. \A i \in 1..Readable(b) : b.reader + i - 1 \in 0..(b.size - 1)
  BY DEF Good, Readable
<1>3. \A i \in 1..Readable(b) : b.mem[b.reader + i - 1] \in Byte
  BY <1>2 DEF Good
<1>4. Contents(b) \in [1..Readable(b) -> Byte]
  BY <1>3 DEF Contents
<1> QED BY <1>1, <1>4 DEF Contents

\* std::copy into the vector keeps the vector's shape.
LEMMA CopyInType ==
    ASSUME NEW n \in Nat, NEW mem \in [0..(n - 1) -> Byte], NEW at \in Nat,
           NEW d \in Seq(Byte)
    PROVE  /\ CopyIn(mem, at, d) \in [0..(n - 1) -> Byte]
           /\ \A i \in 0..(n - 1) : CopyIn(mem, at, d)[i] =
                IF at <= i /\ i < at + Len(d) THEN d[i - at + 1] ELSE mem[i]
<1>1. \A i \in 0..(n - 1) : at <= i /\ i < at + Len(d) => i - at + 1 \in 1..Len(d)
  OBVIOUS
<1>2. \A i \in 1..Len(d) : d[i] \in Byte
  OBVIOUS
<1> QED BY <1>1, <1>2 DEF CopyIn

\* hasWritten() after writing d at beginWrite() makes d readable at the end.
LEMMA WriteBackAppends ==
    ASSUME NEW b, Good(b), NEW d \in Seq(Byte), Len(d) <= Writable(b)
    PROVE  LET c == WriteBack(b, d)
           IN  /\ Good(c)
               /\ Contents(c) = Contents(b) \o d
               /\ c.size = b.size /\ c.reader = b.reader
               /\ c.writer = b.writer + Len(d)
<1> DEFINE c == WriteBack(b, d)
<1>1. /\ c.mem = CopyIn(b.mem, b.writer, d)
      /\ c.size = b.size /\ c.reader = b.reader /\ c.writer = b.writer + Len(d)
  BY DEF WriteBack, Object
<1>a. b.size \in Nat /\ b.writer \in Nat /\ b.mem \in [0..(b.size - 1) -> Byte]
  BY DEF Good
<1>b. /\ CopyIn(b.mem, b.writer, d) \in [0..(b.size - 1) -> Byte]
      /\ \A i \in 0..(b.size - 1) : CopyIn(b.mem, b.writer, d)[i] =
            IF b.writer <= i /\ i < b.writer + Len(d) THEN d[i - b.writer + 1] ELSE b.mem[i]
  BY <1>a, CopyInType
<1>2. /\ c.mem \in [0..(b.size - 1) -> Byte]
      /\ \A i \in 0..(b.size - 1) : c.mem[i] =
            IF b.writer <= i /\ i < b.writer + Len(d) THEN d[i - b.writer + 1] ELSE b.mem[i]
  BY <1>1, <1>b
<1> HIDE DEF c
<1>3. Good(c)
  BY <1>1, <1>2 DEF Good, Writable
<1>4. Contents(c) = Contents(b) \o d
  <2>1. /\ Contents(b) \in Seq(Byte) /\ Len(Contents(b)) = Readable(b)
        /\ \A i \in 1..Readable(b) : Contents(b)[i] = b.mem[b.reader + i - 1]
    BY ContentsType
  <2>2. /\ Contents(c) \in Seq(Byte) /\ Len(Contents(c)) = Readable(c)
        /\ \A i \in 1..Readable(c) : Contents(c)[i] = c.mem[b.reader + i - 1]
    BY <1>1, <1>3, ContentsType
  <2>3. Readable(c) = Readable(b) + Len(d)
    BY <1>1 DEF Readable, Good
  <2>4. ASSUME NEW i \in 1..Readable(c)
        PROVE  Contents(c)[i] = (Contents(b) \o d)[i]
    <3> DEFINE k == b.reader + i - 1
    <3>1. k \in 0..(b.size - 1)
      BY <1>1, <1>3, SMTT(30) DEF Good, Readable
    <3>2. Contents(c)[i] = c.mem[k]
      BY <2>2
    <3>3. CASE i <= Readable(b)
      <4>1. k < b.writer
        BY <3>3 DEF Readable, Good
      <4> HIDE DEF k
      <4>2. c.mem[k] = b.mem[k]
        BY <1>2, <3>1, <4>1 DEF Good
      <4>3. (Contents(b) \o d)[i] = Contents(b)[i]
        BY <2>1, <3>3
      <4> QED BY <2>1, <3>2, <3>3, <4>2, <4>3 DEF k
    <3>4. CASE ~(i <= Readable(b))
      <4>1. /\ b.writer <= k /\ k < b.writer + Len(d)
            /\ k - b.writer + 1 = i - Readable(b)
        BY <2>3, <3>4 DEF Readable, Good
      <4> HIDE DEF k
      <4>2. c.mem[k] = d[k - b.writer + 1]
        BY <1>2, <3>1, <4>1
      <4>3. (Contents(b) \o d)[i] = d[i - Readable(b)]
        BY <2>1, <2>3, <3>4 DEF Readable, Good
      <4> QED BY <3>2, <4>1, <4>2, <4>3
    <3> QED BY <3>3, <3>4
  <2>5. Contents(b) \o d \in Seq(Byte) /\ Len(Contents(b) \o d) = Readable(c)
    BY <2>1, <2>3
  <2> QED BY <2>2, <2>4, <2>5, SeqEqual
<1> QED BY <1>1, <1>3, <1>4 DEF c

\* Growing the vector keeps the object's contents and makes the room asked for.
LEMMA ResizeKeeps ==
    ASSUME NEW b, Good(b), NEW len \in Nat, Writable(b) < len
    PROVE  LET c == Resize(b, len)
           IN  /\ Good(c)
               /\ Contents(c) = Contents(b)
               /\ Writable(c) = len
               /\ c.reader = b.reader /\ c.writer = b.writer
               /\ c.size = b.writer + len
<1> DEFINE c == Resize(b, len)
           m == [i \in 0..(b.writer + len - 1) |-> IF i < b.size THEN b.mem[i] ELSE Zero]
<1>1. /\ c.mem = m /\ c.size = b.writer + len
      /\ c.reader = b.reader /\ c.writer = b.writer
  BY DEF Resize, Object
<1>2. Zero \in Byte
  BY BufferAssumption
<1>3. m \in [0..(b.writer + len - 1) -> Byte]
  BY <1>2 DEF Good
<1>4. b.size <= b.writer + len
  BY DEF Good, Writable
<1>6. \A i \in 0..(b.size - 1) : c.mem[i] = b.mem[i]
  BY <1>1, <1>4 DEF Good
<1> HIDE DEF c, m
<1>a. c.mem \in [0..(c.size - 1) -> Byte]
  BY <1>1, <1>3 DEF Good
<1>b. c.size \in Nat /\ b.writer <= c.size /\ CheapPrepend <= c.size
  BY <1>1, <1>4, BufferAssumption, SMTT(30) DEF Good
<1>5. Good(c)
  BY <1>1, <1>a, <1>b DEF Good
<1>7. Contents(c) = Contents(b)
  <2>1. /\ Contents(b) \in Seq(Byte) /\ Len(Contents(b)) = Readable(b)
        /\ \A i \in 1..Readable(b) : Contents(b)[i] = b.mem[b.reader + i - 1]
    BY ContentsType
  <2>2. /\ Contents(c) \in Seq(Byte) /\ Len(Contents(c)) = Readable(c)
        /\ \A i \in 1..Readable(c) : Contents(c)[i] = c.mem[c.reader + i - 1]
    BY <1>5, ContentsType
  <2>3. Readable(c) = Readable(b)
    BY <1>1 DEF Readable
  <2>4. \A i \in 1..Readable(b) : b.reader + i - 1 \in 0..(b.size - 1)
    BY DEF Good, Readable
  <2>5. \A i \in 1..Len(Contents(c)) : Contents(c)[i] = Contents(b)[i]
    BY <1>1, <1>6, <2>1, <2>2, <2>3, <2>4, SMTT(30)
  <2> QED BY <2>1, <2>2, <2>3, <2>5, SeqEqual
<1>8. Writable(c) = len
  BY <1>1 DEF Writable, Good
<1> QED BY <1>1, <1>5, <1>7, <1>8 DEF c

\* Moving the readable bytes behind the reserve keeps them, given room there.
LEMMA MoveToFrontKeeps ==
    ASSUME NEW b, Good(b), CheapPrepend <= b.reader
    PROVE  LET c == MoveToFront(b)
           IN  /\ Good(c)
               /\ Contents(c) = Contents(b)
               /\ c.reader = CheapPrepend /\ c.writer = CheapPrepend + Readable(b)
               /\ c.size = b.size
<1> DEFINE c == MoveToFront(b)
           s == Contents(b)
<1>1. /\ c.mem = CopyIn(b.mem, CheapPrepend, s) /\ c.size = b.size
      /\ c.reader = CheapPrepend /\ c.writer = CheapPrepend + Readable(b)
  BY DEF MoveToFront, Object
<1>2. /\ s \in Seq(Byte) /\ Len(s) = Readable(b) /\ Readable(b) \in Nat
  BY ContentsType
<1>3. /\ b.size \in Nat /\ CheapPrepend \in Nat /\ b.mem \in [0..(b.size - 1) -> Byte]
  BY BufferAssumption DEF Good
<1> HIDE DEF s
<1>4. /\ CopyIn(b.mem, CheapPrepend, s) \in [0..(b.size - 1) -> Byte]
      /\ \A i \in 0..(b.size - 1) : CopyIn(b.mem, CheapPrepend, s)[i] =
            IF CheapPrepend <= i /\ i < CheapPrepend + Len(s)
            THEN s[i - CheapPrepend + 1] ELSE b.mem[i]
  BY <1>2, <1>3, CopyInType
<1> HIDE DEF c
<1>5. CheapPrepend + Readable(b) <= b.size
  BY <1>3 DEF Good, Readable
<1>6. Good(c)
  BY <1>1, <1>2, <1>3, <1>4, <1>5 DEF Good
<1>7. Readable(c) = Readable(b)
  BY <1>1, <1>2, <1>3 DEF Readable
<1>8. /\ Contents(c) \in Seq(Byte) /\ Len(Contents(c)) = Readable(b)
      /\ \A i \in 1..Readable(b) : Contents(c)[i] = c.mem[CheapPrepend + i - 1]
  BY <1>1, <1>6, <1>7, ContentsType
<1>9. ASSUME NEW i \in 1..Readable(b)
      PROVE  Contents(c)[i] = s[i]
  <2> DEFINE k == CheapPrepend + i - 1
  <2>1. /\ k \in 0..(b.size - 1)
        /\ CheapPrepend <= k /\ k < CheapPrepend + Len(s)
        /\ k - CheapPrepend + 1 = i
    BY <1>2, <1>3, <1>5
  <2>2. Contents(c)[i] = c.mem[k]
    BY <1>8
  <2> HIDE DEF k
  <2>3. c.mem[k] = s[k - CheapPrepend + 1]
    BY <1>1, <1>4, <2>1
  <2> QED BY <2>1, <2>2, <2>3
<1>10. Contents(c) = s
  BY <1>2, <1>8, <1>9, SeqEqual
<1> QED BY <1>1, <1>6, <1>10 DEF c, s

\* What ensureWriteAbleBytes(len) promises, and what it may cost.
LEMMA EnsureMakesRoom ==
    ASSUME NEW b, Good(b), NEW len \in Nat
    PROVE  LET c == EnsureWriteAble(b, len)
           IN  /\ Good(c)
               /\ Contents(c) = Contents(b)
               /\ len <= Writable(c)
               /\ c.reader = b.reader \/ c.reader = CheapPrepend
               /\ c.size = b.size \/ c.size <= CheapPrepend + 2 * (Readable(b) + len)
<1>0. CheapPrepend \in Nat
  BY BufferAssumption
<1>1. CASE Writable(b) >= len
  BY <1>1 DEF EnsureWriteAble, Good, Writable
<1>2. CASE Writable(b) < len /\ Writable(b) + Prependable(b) < len + CheapPrepend
  <2>1. EnsureWriteAble(b, len) = Resize(b, len)
    BY <1>2 DEF EnsureWriteAble, MakeSpace
  <2>2. b.writer + len <= CheapPrepend + 2 * (Readable(b) + len)
    BY <1>0, <1>2, SMTT(30) DEF Good, Readable, Writable, Prependable
  <2> QED BY <1>2, <2>1, <2>2, ResizeKeeps
<1>3. CASE Writable(b) < len /\ ~(Writable(b) + Prependable(b) < len + CheapPrepend)
  <2>1. EnsureWriteAble(b, len) = MoveToFront(b)
    BY <1>3 DEF EnsureWriteAble, MakeSpace
  <2>2. CheapPrepend <= b.reader
    BY <1>0, <1>3 DEF Good, Writable, Prependable
  <2>3. b.size - (CheapPrepend + Readable(b)) >= len
    BY <1>0, <1>3 DEF Good, Readable, Writable, Prependable
  <2> QED BY <2>1, <2>2, <2>3, MoveToFrontKeeps DEF Writable
<1>4. Writable(b) \in Nat
  BY ContentsType
<1> QED BY <1>1, <1>2, <1>3, <1>4

\* append(): the bytes go to the end.
LEMMA AppendToAppends ==
    ASSUME NEW b, Good(b), NEW d \in Seq(Byte)
    PROVE  LET c == AppendTo(b, d)
           IN  /\ Good(c)
               /\ Contents(c) = Contents(b) \o d
               /\ c.reader = b.reader \/ c.reader = CheapPrepend
               /\ c.size = b.size \/ c.size <= CheapPrepend + 2 * (Readable(b) + Len(d))
<1> DEFINE e == EnsureWriteAble(b, Len(d))
<1>1. Len(d) \in Nat
  OBVIOUS
<1>2. /\ Good(e) /\ Contents(e) = Contents(b) /\ Len(d) <= Writable(e)
      /\ e.reader = b.reader \/ e.reader = CheapPrepend
      /\ e.size = b.size \/ e.size <= CheapPrepend + 2 * (Readable(b) + Len(d))
  BY <1>1, EnsureMakesRoom
<1>3. AppendTo(b, d) = WriteBack(e, d)
  BY DEF AppendTo
<1> HIDE DEF e
<1> QED BY <1>2, <1>3, WriteBackAppends

\* Concatenation is associative.
LEMMA BytesAssociative ==
    ASSUME NEW s \in Seq(Byte), NEW t \in Seq(Byte), NEW u \in Seq(Byte)
    PROVE  (s \o t) \o u = s \o (t \o u)
BY ConcatAssociative

\* A sequence is its first n elements followed by the others.
LEMMA SplitAt ==
    ASSUME NEW d \in Seq(Byte), NEW n \in Nat, n <= Len(d)
    PROVE  SubSeq(d, 1, n) \o SubSeq(d, n + 1, Len(d)) = d
<1> DEFINE s == SubSeq(d, 1, n)
           t == SubSeq(d, n + 1, Len(d))
<1>1. /\ s \in Seq(Byte) /\ Len(s) = n /\ \A i \in 1..n : s[i] = d[i]
  OBVIOUS
<1>2. /\ t \in Seq(Byte) /\ Len(t) = Len(d) - n
      /\ \A i \in 1..(Len(d) - n) : t[i] = d[n + i]
  OBVIOUS
<1> HIDE DEF s, t
<1>3. s \o t \in Seq(Byte) /\ Len(s \o t) = Len(d)
  BY <1>1, <1>2
<1>4. \A i \in 1..Len(d) : (s \o t)[i] = d[i]
  BY <1>1, <1>2
<1> QED BY <1>3, <1>4, SeqEqual DEF s, t

\* readFd(): the bytes go to the end although readv() scattered them.
LEMMA ScatterAppends ==
    ASSUME NEW b, Good(b), NEW d \in Seq(Byte)
    PROVE  LET c == Scatter(b, d)
           IN  /\ Good(c)
               /\ Contents(c) = Contents(b) \o d
               /\ c.reader = b.reader \/ c.reader = CheapPrepend
               /\ c.size = b.size \/ c.size <= CheapPrepend + 2 * (Readable(b) + Len(d))
<1> DEFINE d1 == SubSeq(d, 1, Writable(b))
           d2 == SubSeq(d, Writable(b) + 1, Len(d))
           e == WriteBack(b, d1)
<1>1. Writable(b) \in Nat /\ Len(d) \in Nat /\ Readable(b) \in Nat
  BY ContentsType
<1>2. CASE Len(d) <= Writable(b)
  BY <1>2, WriteBackAppends DEF Scatter
<1>3. CASE Writable(b) < Len(d)
  <2>1. d1 \in Seq(Byte) /\ Len(d1) = Writable(b)
    BY <1>1, <1>3
  <2>2. d2 \in Seq(Byte) /\ Len(d2) = Len(d) - Writable(b)
    BY <1>1, <1>3
  <2>3. d1 \o d2 = d
    <3>1. Writable(b) <= Len(d)
      BY <1>1, <1>3
    <3> QED BY <1>1, <3>1, SplitAt
  <2>4. Scatter(b, d) = AppendTo(e, d2)
    BY <1>1, <1>3 DEF Scatter
  <2> HIDE DEF d1, d2
  <2>5. /\ Good(e) /\ Contents(e) = Contents(b) \o d1
        /\ e.size = b.size /\ e.reader = b.reader
        /\ e.writer = b.writer + Writable(b)
    BY <1>1, <2>1, WriteBackAppends
  <2> HIDE DEF e
  <2>6. Readable(e) + Len(d2) = Readable(b) + Len(d)
    BY <1>1, <2>2, <2>5, SMTT(30) DEF Readable, Good
  <2>7. /\ Good(AppendTo(e, d2))
        /\ Contents(AppendTo(e, d2)) = (Contents(b) \o d1) \o d2
        /\ AppendTo(e, d2).reader = e.reader \/ AppendTo(e, d2).reader = CheapPrepend
        /\ \/ AppendTo(e, d2).size = e.size
           \/ AppendTo(e, d2).size <= CheapPrepend + 2 * (Readable(e) + Len(d2))
    BY <2>2, <2>5, AppendToAppends
  <2>8. (Contents(b) \o d1) \o d2 = Contents(b) \o d
    <3>1. Contents(b) \in Seq(Byte)
      BY ContentsType
    <3>2. (Contents(b) \o d1) \o d2 = Contents(b) \o (d1 \o d2)
      BY <2>1, <2>2, <3>1, BytesAssociative
    <3> QED BY <2>3, <3>2
  <2> QED BY <2>4, <2>5, <2>6, <2>7, <2>8
<1> QED BY <1>1, <1>2, <1>3
-----------------------------------------------------------------------------
BufferInv == TypeOK /\ ReadableIsQueue /\ HeaderRoom /\ MemoryBounded

\* What the calls' arguments are.
LEMMA DataType ==
    ASSUME NEW d \in Data
    PROVE  d \in Seq(Byte) /\ Len(d) \in Nat
BY BufferAssumption DEF Data

\* What the invariant says of the object.
LEMMA InvFacts ==
    ASSUME BufferInv
    PROVE  /\ Good(buf) /\ queue \in Seq(Byte) /\ Contents(buf) = queue
           /\ Len(queue) = Readable(buf) /\ Readable(buf) \in Nat
           /\ CheapPrepend \in Nat /\ InitialSize \in Nat
           /\ pushed \in Nat /\ pushed <= CheapPrepend /\ peak \in Nat
<1>1. Good(buf)
  BY DEF BufferInv, TypeOK, Good
<1>2. CheapPrepend \in Nat /\ InitialSize \in Nat
  BY BufferAssumption
<1>3. queue \in Seq(Byte) /\ Contents(buf) = queue
  BY DEF BufferInv, TypeOK, ReadableIsQueue
<1>4. Len(queue) = Readable(buf) /\ Readable(buf) \in Nat
  BY <1>1, <1>3, ContentsType
<1>5. pushed \in Nat /\ pushed <= CheapPrepend /\ peak \in Nat
  BY <1>2 DEF BufferInv, TypeOK
<1> QED BY <1>1, <1>2, <1>3, <1>4, <1>5

\* The arithmetic of growing: from a vector of s bytes to one of t.
LEMMA Growth ==
    ASSUME NEW c \in Nat, NEW i \in Nat, NEW p \in Nat, NEW q \in Nat,
           NEW s \in Nat, NEW t \in Nat, NEW k \in Nat,
           s <= c + Larger(i, 2 * p), p <= q, k <= q,
           t = s \/ t <= c + i \/ t <= c + 2 * k
    PROVE  t <= c + Larger(i, 2 * q)
BY DEF Larger

\* A call that asks for room for n bytes and leaves a well-formed object that
\* holds the new queue preserves the invariant, if it grew no more than
\* makeSpace() does and kept the header room.
LEMMA CallPreserves ==
    ASSUME BufferInv, NEW n \in Nat, Needs(n),
           Good(buf'), queue' \in Seq(Byte), Contents(buf') = queue',
           pushed' \in 0..CheapPrepend,
           \/ buf'.reader + pushed' >= buf.reader + pushed
           \/ buf'.reader = CheapPrepend
           \/ pushed' = CheapPrepend,
           \/ buf'.size = buf.size
           \/ buf'.size <= CheapPrepend + InitialSize
           \/ buf'.size <= CheapPrepend + 2 * (Len(queue) + n)
    PROVE  BufferInv'
<1>1. peak' \in Nat /\ peak <= peak' /\ Len(queue) + n <= peak'
  BY InvFacts DEF Needs, Larger
<1>2. TypeOK'
  BY <1>1, InvFacts, SMTT(30) DEF TypeOK, Good
<1>3. /\ buf.reader \in Nat /\ buf.size \in Nat /\ pushed \in Nat /\ peak \in Nat
      /\ buf'.reader \in Nat /\ buf'.size \in Nat /\ pushed' \in Nat
      /\ CheapPrepend \in Nat /\ InitialSize \in Nat /\ Len(queue) \in Nat
  BY InvFacts DEF Good
<1>4. HeaderRoom'
  <2>1. buf.reader + pushed >= CheapPrepend
    BY DEF BufferInv, HeaderRoom
  <2>2. buf'.reader + pushed' >= CheapPrepend
    BY <1>3, <2>1
  <2> QED BY <2>2 DEF HeaderRoom
<1>5. MemoryBounded'
  <2>1. buf.size <= CheapPrepend + Larger(InitialSize, 2 * peak)
    BY DEF BufferInv, MemoryBounded
  <2>2. buf'.size <= CheapPrepend + Larger(InitialSize, 2 * peak')
    <3> DEFINE k == Len(queue) + n
    <3>1. k \in Nat /\ k <= peak'
      BY <1>1, <1>3
    <3>2. \/ buf'.size = buf.size
          \/ buf'.size <= CheapPrepend + InitialSize
          \/ buf'.size <= CheapPrepend + 2 * k
      OBVIOUS
    <3> HIDE DEF k
    <3> QED BY <1>1, <1>3, <2>1, <3>1, <3>2, Growth
  <2> QED BY <2>2 DEF MemoryBounded
<1> QED BY <1>2, <1>4, <1>5 DEF BufferInv, ReadableIsQueue

\* A call that needs no room and leaves peak alone.
LEMMA TakePreserves ==
    ASSUME BufferInv, UNCHANGED peak,
           Good(buf'), queue' \in Seq(Byte), Contents(buf') = queue',
           pushed' \in 0..CheapPrepend,
           buf'.reader + pushed' >= CheapPrepend,
           buf'.size = buf.size
    PROVE  BufferInv'
<1> USE InvFacts
<1>1. TypeOK' /\ HeaderRoom' /\ MemoryBounded'
  BY DEF BufferInv, TypeOK, HeaderRoom, MemoryBounded, Good
<1> QED BY <1>1 DEF BufferInv, ReadableIsQueue

\* retrieveAll() preserves the invariant.
LEMMA EmptiedPreserves ==
    ASSUME BufferInv, buf' = Emptied(buf), queue' = <<>>, pushed' = 0, peak' = peak
    PROVE  BufferInv'
<1>1. /\ buf'.mem = buf.mem /\ buf'.size = buf.size
      /\ buf'.reader = CheapPrepend /\ buf'.writer = CheapPrepend
  BY DEF Emptied, Object
<1>2. Good(buf')
  BY <1>1, InvFacts DEF Good
<1>3. Contents(buf') \in Seq(Byte) /\ Len(Contents(buf')) = 0
  BY <1>1, <1>2, InvFacts, ContentsType DEF Readable
<1>4. Contents(buf') = queue'
  BY <1>3
<1>5. queue' \in Seq(Byte) /\ pushed' \in 0..CheapPrepend /\ buf'.reader + pushed' >= CheapPrepend
  BY <1>1, InvFacts
<1> QED BY <1>1, <1>2, <1>4, <1>5, TakePreserves

\* A new Buffer is well formed and empty.
LEMMA NewBufferGood ==
    /\ Good(NewBuffer) /\ Contents(NewBuffer) = <<>> /\ Readable(NewBuffer) = 0
    /\ NewBuffer.reader = CheapPrepend /\ NewBuffer.size = CheapPrepend + InitialSize
<1>1. CheapPrepend \in Nat /\ InitialSize \in Nat /\ Zero \in Byte
  BY BufferAssumption
<1>2. Good(NewBuffer) /\ Readable(NewBuffer) = 0
      /\ NewBuffer.reader = CheapPrepend /\ NewBuffer.size = CheapPrepend + InitialSize
  BY <1>1 DEF NewBuffer, Object, Good, Readable
<1>3. Contents(NewBuffer) \in Seq(Byte) /\ Len(Contents(NewBuffer)) = 0
  BY <1>2, ContentsType
<1> QED BY <1>2, <1>3

\* The elements of a subsequence.
LEMMA SubSeqBytes ==
    ASSUME NEW q \in Seq(Byte), NEW m \in Nat, NEW n \in Nat, m <= n, n <= Len(q)
    PROVE  /\ SubSeq(q, m + 1, n) \in Seq(Byte)
           /\ Len(SubSeq(q, m + 1, n)) = n - m
           /\ \A i \in 1..(n - m) : SubSeq(q, m + 1, n)[i] = q[m + i]
OBVIOUS

\* The readable bytes seen through other indices are a part of them.
LEMMA Shorter ==
    ASSUME NEW b, Good(b), NEW lo \in Nat, NEW hi \in Nat,
           b.reader <= lo, lo <= hi, hi <= b.writer
    PROVE  LET c == Object(b.mem, b.size, lo, hi)
               s == SubSeq(Contents(b), lo - b.reader + 1, hi - b.reader)
           IN  Good(c) /\ Contents(c) = s /\ s \in Seq(Byte)
<1> DEFINE c == Object(b.mem, b.size, lo, hi)
           q == Contents(b)
           s == SubSeq(q, lo - b.reader + 1, hi - b.reader)
<1>1. c.mem = b.mem /\ c.size = b.size /\ c.reader = lo /\ c.writer = hi
  BY DEF Object
<1>2. Good(c)
  BY <1>1 DEF Good
<1>3. /\ q \in Seq(Byte) /\ Len(q) = Readable(b) /\ Readable(b) \in Nat
      /\ \A i \in 1..Readable(b) : q[i] = b.mem[b.reader + i - 1]
  BY ContentsType
<1>4. /\ b.reader \in Nat /\ b.writer \in Nat /\ Readable(b) = b.writer - b.reader
  BY DEF Good, Readable
<1> HIDE DEF q
<1>5. /\ s \in Seq(Byte) /\ Len(s) = hi - lo
      /\ \A i \in 1..(hi - lo) : s[i] = q[lo - b.reader + i]
  <2> DEFINE m == lo - b.reader
             n == hi - b.reader
  <2>1. m \in Nat /\ n \in Nat /\ m <= n /\ n <= Len(q) /\ n - m = hi - lo
    BY <1>3, <1>4
  <2> HIDE DEF m, n
  <2>2. /\ SubSeq(q, m + 1, n) \in Seq(Byte) /\ Len(SubSeq(q, m + 1, n)) = n - m
        /\ \A i \in 1..(n - m) : SubSeq(q, m + 1, n)[i] = q[m + i]
    BY <1>3, <2>1, SubSeqBytes
  <2> QED BY <2>1, <2>2 DEF m, n
<1> HIDE DEF c, s
<1>6. /\ Contents(c) \in Seq(Byte) /\ Len(Contents(c)) = hi - lo
      /\ \A i \in 1..(hi - lo) : Contents(c)[i] = b.mem[lo + i - 1]
  BY <1>1, <1>2, ContentsType DEF Readable
<1>7. ASSUME NEW i \in 1..(hi - lo)
      PROVE  Contents(c)[i] = s[i]
  <2>1. /\ lo - b.reader + i \in 1..Readable(b)
        /\ b.reader + (lo - b.reader + i) - 1 = lo + i - 1
    BY <1>4
  <2>2. q[lo - b.reader + i] = b.mem[b.reader + (lo - b.reader + i) - 1]
    BY <1>3, <2>1
  <2> QED BY <1>5, <1>6, <2>1, <2>2
<1>8. Contents(c) = s
  BY <1>5, <1>6, <1>7, SeqEqual
<1> QED BY <1>2, <1>5, <1>8 DEF c, s, q

\* prepend(): the bytes go to the front.
LEMMA PrependPushes ==
    ASSUME NEW b, Good(b), NEW d \in Seq(Byte), Len(d) <= Prependable(b)
    PROVE  LET c == Object(CopyIn(b.mem, b.reader - Len(d), d),
                           b.size, b.reader - Len(d), b.writer)
           IN  Good(c) /\ Contents(c) = d \o Contents(b)
<1> DEFINE at == b.reader - Len(d)
           c == Object(CopyIn(b.mem, at, d), b.size, at, b.writer)
           q == Contents(b)
<1>1. /\ c.mem = CopyIn(b.mem, at, d) /\ c.size = b.size
      /\ c.reader = at /\ c.writer = b.writer
  BY DEF Object
<1>m. b.mem \in [0..(b.size - 1) -> Byte]
  BY DEF Good
<1>2. /\ b.size \in Nat /\ b.reader \in Nat
      /\ b.writer \in Nat /\ b.reader <= b.writer /\ b.writer <= b.size
      /\ at \in Nat /\ at + Len(d) = b.reader /\ Len(d) \in Nat /\ at <= b.reader
  BY DEF Good, Prependable
<1> HIDE DEF at
<1>3. /\ CopyIn(b.mem, at, d) \in [0..(b.size - 1) -> Byte]
      /\ \A i \in 0..(b.size - 1) : CopyIn(b.mem, at, d)[i] =
            IF at <= i /\ i < at + Len(d) THEN d[i - at + 1] ELSE b.mem[i]
  BY <1>2, <1>m, CopyInType, ZenonT(40)
<1> HIDE DEF c
<1>4. Good(c)
  BY <1>1, <1>2, <1>3 DEF Good
<1>5. /\ q \in Seq(Byte) /\ Len(q) = Readable(b) /\ Readable(b) \in Nat
      /\ \A i \in 1..Readable(b) : q[i] = b.mem[b.reader + i - 1]
  BY ContentsType
<1> HIDE DEF q
<1>6. Readable(c) = Len(d) + Readable(b) /\ Readable(b) = b.writer - b.reader
  BY <1>1, <1>2 DEF Readable
<1>7. /\ Contents(c) \in Seq(Byte) /\ Len(Contents(c)) = Readable(c)
      /\ \A i \in 1..Readable(c) : Contents(c)[i] = c.mem[at + i - 1]
  BY <1>1, <1>4, ContentsType
<1>8. ASSUME NEW i \in 1..Readable(c)
      PROVE  Contents(c)[i] = (d \o q)[i]
  <2> DEFINE k == at + i - 1
  <2>1. k \in 0..(b.size - 1) /\ k \in Nat
    BY <1>2, <1>5, <1>6
  <2>2. Contents(c)[i] = c.mem[k]
    BY <1>7
  <2>3. CASE i <= Len(d)
    <3>1. at <= k /\ k < at + Len(d) /\ k - at + 1 = i
      BY <1>2, <2>3
    <3> HIDE DEF k
    <3>2. c.mem[k] = d[k - at + 1]
      BY <1>1, <1>3, <2>1, <3>1
    <3>3. (d \o q)[i] = d[i]
      BY <1>5, <2>3
    <3> QED BY <2>2, <3>1, <3>2, <3>3
  <2>4. CASE ~(i <= Len(d))
    <3>a. i \in Nat /\ Readable(b) \in Nat /\ i <= Len(d) + Readable(b)
      BY <1>2, <1>5, <1>6
    <3>b. i - Len(d) \in 1..Readable(b)
      BY <1>2, <2>4, <3>a
    <3>1. /\ ~(k < at + Len(d)) /\ i - Len(d) \in 1..Readable(b)
          /\ b.reader + (i - Len(d)) - 1 = k
      BY <1>2, <2>4, <3>a, <3>b
    <3> HIDE DEF k
    <3>2. c.mem[k] = b.mem[k]
      BY <1>1, <1>3, <2>1, <3>1
    <3>3. (d \o q)[i] = q[i - Len(d)]
      BY <1>5, <1>6, <2>4
    <3>4. q[i - Len(d)] = b.mem[b.reader + (i - Len(d)) - 1]
      BY <1>5, <3>1
    <3> QED BY <2>2, <3>1, <3>2, <3>3, <3>4
  <2> QED BY <2>3, <2>4
<1>9. d \o q \in Seq(Byte) /\ Len(d \o q) = Readable(c)
  BY <1>5, <1>6
<1>10. Contents(c) = d \o q
  BY <1>7, <1>8, <1>9, SeqEqual
<1> QED BY <1>4, <1>10 DEF c, q, at
-----------------------------------------------------------------------------
\* The invariant holds of a new Buffer and every call preserves it.
LEMMA InvInductive ==
    /\ Init => BufferInv
    /\ BufferInv /\ [Next]_vars => BufferInv'
<1>1. Init => BufferInv
  <2>1. CheapPrepend \in Nat /\ InitialSize \in Nat
    BY BufferAssumption
  <2> QED BY <2>1, NewBufferGood
      DEF Init, BufferInv, TypeOK, Good, ReadableIsQueue, HeaderRoom, MemoryBounded, Larger
<1>2. ASSUME BufferInv, [Next]_vars
      PROVE  BufferInv'
  <2>0. /\ Good(buf) /\ queue \in Seq(Byte) /\ Contents(buf) = queue
        /\ Len(queue) = Readable(buf) /\ Readable(buf) \in Nat
        /\ CheapPrepend \in Nat /\ InitialSize \in Nat
        /\ pushed \in Nat /\ pushed <= CheapPrepend /\ peak \in Nat
    BY <1>2, InvFacts
  <2>n. /\ buf.reader \in Nat /\ buf.writer \in Nat /\ buf.reader <= buf.writer
        /\ Readable(buf) = buf.writer - buf.reader
        /\ buf.reader + pushed >= CheapPrepend
    BY <1>2, <2>0 DEF Good, Readable, BufferInv, HeaderRoom
  <2>1. ASSUME NEW d \in Data, AppendBytes(d)
        PROVE  BufferInv'
    <3>1. d \in Seq(Byte) /\ Len(d) \in Nat
      BY DataType
    <3>2. /\ Good(buf') /\ Contents(buf') = queue \o d
          /\ buf'.reader = buf.reader \/ buf'.reader = CheapPrepend
          /\ buf'.size = buf.size \/ buf'.size <= CheapPrepend + 2 * (Len(queue) + Len(d))
      BY <2>0, <2>1, <3>1, AppendToAppends DEF AppendBytes
    <3>3. Needs(Len(d)) /\ queue' = queue \o d /\ queue' \in Seq(Byte) /\ pushed' = pushed
      BY <2>0, <2>1, <3>1 DEF AppendBytes
    <3>4. \/ buf'.reader + pushed' >= buf.reader + pushed
          \/ buf'.reader = CheapPrepend
      BY <2>0, <2>n, <3>2, <3>3
    <3> QED BY <1>2, <2>0, <3>1, <3>2, <3>3, <3>4, CallPreserves
  <2>2. ASSUME NEW d \in Data, HasWritten(d)
        PROVE  BufferInv'
    <3>1. d \in Seq(Byte) /\ Len(d) \in Nat
      BY DataType
    <3>2. /\ Good(buf') /\ Contents(buf') = queue \o d
          /\ buf'.reader = buf.reader /\ buf'.size = buf.size
      BY <2>0, <2>2, <3>1, WriteBackAppends DEF HasWritten
    <3>3. Needs(Len(d)) /\ queue' = queue \o d /\ queue' \in Seq(Byte) /\ pushed' = pushed
      BY <2>0, <2>2, <3>1 DEF HasWritten
    <3>4. buf'.reader + pushed' >= buf.reader + pushed
      BY <2>0, <2>n, <3>2, <3>3
    <3> QED BY <1>2, <2>0, <3>1, <3>2, <3>3, <3>4, CallPreserves
  <2>3. ASSUME NEW d \in Data, Prepend(d)
        PROVE  BufferInv'
    <3>1. d \in Seq(Byte) /\ Len(d) \in Nat
      BY DataType
    <3>2. Good(buf') /\ Contents(buf') = d \o queue
      BY <2>0, <2>3, <3>1, PrependPushes DEF Prepend
    <3>3. /\ Needs(Len(d)) /\ queue' = d \o queue /\ queue' \in Seq(Byte)
          /\ pushed' = Smaller(CheapPrepend, pushed + Len(d))
          /\ buf'.reader = buf.reader - Len(d) /\ buf'.size = buf.size
      BY <2>0, <2>3, <3>1 DEF Prepend, Object
    <3>4. pushed' \in 0..CheapPrepend
      BY <2>0, <3>1, <3>3 DEF Smaller
    <3>5. buf'.reader + pushed' >= buf.reader + pushed \/ pushed' = CheapPrepend
      BY <2>0, <2>n, <3>1, <3>3 DEF Smaller
    <3> QED BY <1>2, <2>0, <3>1, <3>2, <3>3, <3>4, <3>5, CallPreserves
  <2>4. ASSUME NEW d \in Data, ReadFd(d)
        PROVE  BufferInv'
    <3>1. d \in Seq(Byte) /\ Len(d) \in Nat
      BY DataType
    <3>2. /\ Good(buf') /\ Contents(buf') = queue \o d
          /\ buf'.reader = buf.reader \/ buf'.reader = CheapPrepend
          /\ buf'.size = buf.size \/ buf'.size <= CheapPrepend + 2 * (Len(queue) + Len(d))
      BY <2>0, <2>4, <3>1, ScatterAppends DEF ReadFd
    <3>3. Needs(Len(d)) /\ queue' = queue \o d /\ queue' \in Seq(Byte) /\ pushed' = pushed
      BY <2>0, <2>4, <3>1 DEF ReadFd
    <3>4. \/ buf'.reader + pushed' >= buf.reader + pushed
          \/ buf'.reader = CheapPrepend
      BY <2>0, <2>n, <3>2, <3>3
    <3> QED BY <1>2, <2>0, <3>1, <3>2, <3>3, <3>4, CallPreserves
  <2>5. ASSUME NEW len \in 0..MaxData, EnsureWriteAbleBytes(len)
        PROVE  BufferInv'
    <3>1. len \in Nat
      BY BufferAssumption
    <3>2. /\ Good(buf') /\ Contents(buf') = queue
          /\ buf'.reader = buf.reader \/ buf'.reader = CheapPrepend
          /\ buf'.size = buf.size \/ buf'.size <= CheapPrepend + 2 * (Len(queue) + len)
      BY <2>0, <2>5, <3>1, EnsureMakesRoom DEF EnsureWriteAbleBytes
    <3>3. Needs(len) /\ queue' = queue /\ pushed' = pushed
      BY <2>5 DEF EnsureWriteAbleBytes
    <3>4. \/ buf'.reader + pushed' >= buf.reader + pushed
          \/ buf'.reader = CheapPrepend
      BY <2>0, <2>n, <3>2, <3>3
    <3> QED BY <1>2, <2>0, <3>1, <3>2, <3>3, <3>4, CallPreserves
  <2>6. ASSUME NEW len \in 0..MaxData, UnWrite(len)
        PROVE  BufferInv'
    <3>1. len \in Nat /\ len <= Readable(buf)
      BY <2>6, BufferAssumption DEF UnWrite
    <3> DEFINE hi == buf.writer - len
    <3>2. hi \in Nat /\ buf.reader <= hi /\ hi <= buf.writer
      BY <2>n, <3>1
    <3>3. buf.reader - buf.reader + 1 = 1 /\ hi - buf.reader = Len(queue) - len
      BY <2>0, <2>n, <3>1
    <3>4. /\ buf' = Object(buf.mem, buf.size, buf.reader, hi)
          /\ queue' = SubSeq(queue, 1, Len(queue) - len)
          /\ pushed' = pushed /\ peak' = peak
      BY <2>6 DEF UnWrite
    <3> HIDE DEF hi
    <3>a. LET c == Object(buf.mem, buf.size, buf.reader, hi)
              s == SubSeq(Contents(buf), buf.reader - buf.reader + 1, hi - buf.reader)
          IN  Good(c) /\ Contents(c) = s /\ s \in Seq(Byte)
      <4>1. Good(buf) /\ buf.reader \in Nat /\ buf.reader <= buf.reader
        BY <2>0, <2>n
      <4> QED BY <3>2, <4>1, Shorter, Zenon
    <3>5. /\ Good(buf') /\ queue' \in Seq(Byte) /\ Contents(buf') = queue'
      BY <2>0, <3>3, <3>4, <3>a
    <3>6. buf'.reader = buf.reader /\ buf'.size = buf.size
      BY <3>4 DEF Object
    <3> QED BY <1>2, <2>0, <2>n, <3>4, <3>5, <3>6, TakePreserves
  <2>7. RetrieveAll => BufferInv'
    <3> SUFFICES ASSUME RetrieveAll PROVE BufferInv'
      OBVIOUS
    <3>1. buf' = Emptied(buf) /\ queue' = <<>> /\ pushed' = 0 /\ peak' = peak
      BY DEF RetrieveAll
    <3> QED BY <1>2, <3>1, EmptiedPreserves
  <2>8. ASSUME NEW n \in 0..MaxData, Retrieve(n)
        PROVE  BufferInv'
    <3>1. n \in Nat /\ n <= Readable(buf)
      BY <2>8, BufferAssumption DEF Retrieve
    <3>2. queue' = SubSeq(queue, n + 1, Len(queue)) /\ peak' = peak
      BY <2>8 DEF Retrieve
    <3>3. CASE n < Readable(buf)
      <4> DEFINE lo == buf.reader + n
      <4>1. lo \in Nat /\ buf.reader <= lo /\ lo <= buf.writer
        BY <2>n, <3>1
      <4>2. lo - buf.reader + 1 = n + 1 /\ buf.writer - buf.reader = Len(queue)
        BY <2>0, <2>n, <3>1
      <4>3. buf' = Object(buf.mem, buf.size, lo, buf.writer) /\ pushed' = pushed
        BY <2>8, <3>3 DEF Retrieve
      <4> HIDE DEF lo
      <4>4. Good(buf') /\ queue' \in Seq(Byte) /\ Contents(buf') = queue'
        <5>1. LET c == Object(buf.mem, buf.size, lo, buf.writer)
                  s == SubSeq(Contents(buf), lo - buf.reader + 1, buf.writer - buf.reader)
              IN  Good(c) /\ Contents(c) = s /\ s \in Seq(Byte)
          <6>1. Good(buf) /\ buf.writer \in Nat /\ buf.writer <= buf.writer
            BY <2>0, <2>n
          <6> QED BY <4>1, <6>1, Shorter, Zenon
        <5> QED BY <2>0, <3>2, <4>2, <4>3, <5>1
      <4>5. buf'.reader = lo /\ buf'.size = buf.size
        BY <4>3 DEF Object
      <4>6. buf'.reader + pushed' >= CheapPrepend
        BY <2>0, <2>n, <4>1, <4>3, <4>5
      <4> QED BY <1>2, <2>0, <3>2, <4>3, <4>4, <4>5, <4>6, TakePreserves
    <3>4. CASE ~(n < Readable(buf))
      <4>1. buf' = Emptied(buf) /\ pushed' = 0
        BY <2>8, <3>4 DEF Retrieve
      <4>2. n = Len(queue)
        BY <2>0, <3>1, <3>4
      <4>3. queue' = <<>>
        BY <2>0, <3>2, <4>2, SubSeqEmpty
      <4> QED BY <1>2, <3>2, <4>1, <4>3, EmptiedPreserves
    <3> QED BY <3>3, <3>4
  <2>9. ASSUME NEW reserve \in 0..MaxData, Shrink(reserve)
        PROVE  BufferInv'
    <3> DEFINE e == EnsureWriteAble(NewBuffer, Readable(buf) + reserve)
    <3>1. reserve \in Nat /\ Readable(buf) + reserve \in Nat
      BY <2>0, BufferAssumption
    <3>2. /\ Good(e) /\ Contents(e) = <<>> /\ Readable(buf) + reserve <= Writable(e)
          /\ e.reader = CheapPrepend
          /\ \/ e.size = CheapPrepend + InitialSize
             \/ e.size <= CheapPrepend + 2 * (0 + (Readable(buf) + reserve))
      BY <3>1, EnsureMakesRoom, NewBufferGood
    <3>3. buf' = AppendTo(e, queue) /\ Needs(reserve) /\ queue' = queue /\ pushed' = pushed
      BY <2>0, <2>9 DEF Shrink
    <3> HIDE DEF e
    <3>w. Writable(e) \in Nat
      BY <3>2, ContentsType
    <3>6. Len(queue) <= Writable(e) /\ ~(Writable(e) < Len(queue))
      BY <2>0, <3>1, <3>2, <3>w
    <3>4. EnsureWriteAble(e, Len(queue)) = e
      BY <3>6 DEF EnsureWriteAble
    <3>5. buf' = WriteBack(e, queue)
      BY <3>3, <3>4 DEF AppendTo
    <3>7. /\ Good(buf') /\ Contents(buf') = <<>> \o queue
          /\ buf'.reader = CheapPrepend /\ buf'.size = e.size
      BY <2>0, <3>2, <3>5, <3>6, WriteBackAppends
    <3>8. <<>> \o queue = queue
      BY <2>0
    <3>9. \/ buf'.size <= CheapPrepend + InitialSize
          \/ buf'.size <= CheapPrepend + 2 * (Len(queue) + reserve)
      BY <2>0, <3>1, <3>2, <3>7
    <3> QED BY <1>2, <2>0, <3>1, <3>3, <3>7, <3>8, <3>9, CallPreserves
  <2>10. CASE UNCHANGED vars
    BY <1>2, <2>10 DEF BufferInv, TypeOK, ReadableIsQueue, HeaderRoom, MemoryBounded, vars
  <2> QED BY <1>2, <2>1, <2>2, <2>3, <2>4, <2>5, <2>6, <2>7, <2>8, <2>9, <2>10 DEF Next
<1> QED BY <1>1, <1>2

\* The vector and its indices stay well formed under every sequence of calls.
THEOREM TypeCorrect == Spec => []TypeOK
<1>1. BufferInv => TypeOK
  BY DEF BufferInv
<1> QED BY <1>1, InvInductive, PTL DEF Spec

\* A Buffer is a byte queue: the readable bytes are those put in and not taken
\* out, in order, whatever makeSpace(), readFd() and shrink() did to the vector.
THEOREM BufferIsQueue == Spec => []ReadableIsQueue
<1>1. BufferInv => ReadableIsQueue
  BY DEF BufferInv
<1> QED BY <1>1, InvInductive, PTL DEF Spec

\* The cCheapPrepend bytes in front of the contents are there when a codec
\* prepends its header.
THEOREM HeaderRoomKept == Spec => []HeaderRoom
<1>1. BufferInv => HeaderRoom
  BY DEF BufferInv
<1> QED BY <1>1, InvInductive, PTL DEF Spec

\* makeSpace() never grows the vector past twice the most room ever needed.
THEOREM MemoryStaysBounded == Spec => []MemoryBounded
<1>1. BufferInv => MemoryBounded
  BY DEF BufferInv
<1> QED BY <1>1, InvInductive, PTL DEF Spec
=============================================================================
