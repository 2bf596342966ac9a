------------------------------- MODULE Buffer -------------------------------
(***************************************************************************)
(* netlib::Buffer (net/Buffer.h, net/Buffer.cc): the growable byte buffer  *)
(* a TcpConnection reads into and queues its unsent output in.             *)
(*                                                                         *)
(* One vector is split by two indices into a prependable area, the         *)
(* readable bytes and a writable area.  The callers see none of it: to     *)
(* them a Buffer is a queue of bytes, kept here in the history variable    *)
(* queue, that each operation changes in the obvious way.  The operators   *)
(* on buf are the code; that the readable bytes are the queue is the       *)
(* property.                                                               *)
(***************************************************************************)
EXTENDS Integers, Sequences

CONSTANTS
    Byte,            \* the byte values; resize() fills with Zero
    Zero,
    InitialSize,     \* cInitialSize
    CheapPrepend,    \* cCheapPrepend
    ExtraSize,       \* sizeof extrabuf in readFd()
    MaxData,         \* bound: bytes in one call
    MaxReadable      \* bound: readable bytes plus the space asked for

ASSUME BufferAssumption ==
    /\ Zero \in Byte
    /\ {InitialSize, CheapPrepend, ExtraSize, MaxData, MaxReadable} \subseteq Nat

VARIABLES
    buf,       \* the object: [mem |-> _buffer, size, reader, writer]
    queue,     \* history: the bytes put in and not taken out
    pushed,    \* history: bytes prepended since it was last emptied (capped)
    peak       \* history: the most room a caller ever needed at once

vars == <<buf, queue, pushed, peak>>

Data == UNION {[1..n -> Byte] : n \in 0..MaxData}
Larger(x, y) == IF x < y THEN y ELSE x
Smaller(x, y) == IF x < y THEN x ELSE y
-----------------------------------------------------------------------------
(* The object                                                              *)

Object(mem, size, reader, writer) ==
    [mem |-> mem, size |-> size, reader |-> reader, writer |-> writer]

NewBuffer ==
    Object([i \in 0..(CheapPrepend + InitialSize - 1) |-> Zero],
           CheapPrepend + InitialSize, CheapPrepend, CheapPrepend)

Readable(b) == b.writer - b.reader
Writable(b) == b.size - b.writer
Prependable(b) == b.reader

\* toString(): the bytes from peek() to beginWrite()
Contents(b) == [i \in 1..Readable(b) |-> b.mem[b.reader + i - 1]]

\* std::copy(d, d + len, begin() + at)
CopyIn(mem, at, d) ==
    [i \in DOMAIN mem |->
        IF at <= i /\ i < at + Len(d) THEN d[i - at + 1] ELSE mem[i]]

\* _buffer.resize(_writerIndex + len)
Resize(b, len) ==
    Object([i \in 0..(b.writer + len - 1) |-> IF i < b.size THEN b.mem[i] ELSE Zero],
           b.writer + len, b.reader, b.writer)

\* Mutant: the readable bytes move over the reserved header.
MoveToFrontMutant(b) ==
    Object(CopyIn(b.mem, 0, Contents(b)), b.size, 0, Readable(b))

\* The readable bytes move down to the end of the reserved header.
MoveToFront(b) ==
    Object(CopyIn(b.mem, CheapPrepend, Contents(b)),
           b.size, CheapPrepend, CheapPrepend + Readable(b))

\* Mutant: the bytes already read are never reused.
MakeSpaceMutantGrow(b, len) == Resize(b, len)

MakeSpace(b, len) ==
    IF Writable(b) + Prependable(b) < len + CheapPrepend
    THEN Resize(b, len)
    ELSE MoveToFront(b)

EnsureWriteAble(b, len) == IF Writable(b) < len THEN MakeSpace(b, len) ELSE b

\* What the caller wrote at beginWrite(), made readable by hasWritten().
WriteBack(b, d) ==
    Object(CopyIn(b.mem, b.writer, d), b.size, b.reader, b.writer + Len(d))

AppendTo(b, d) == WriteBack(EnsureWriteAble(b, Len(d)), d)

\* Mutant: _writerIndex is not moved to the end before extrabuf is appended.
ScatterMutant(b, d) ==
    LET room == Writable(b)
    IN  IF Len(d) <= room THEN WriteBack(b, d)
        ELSE AppendTo(b, SubSeq(d, room + 1, Len(d)))

\* readv() scatters into the writable area and extrabuf; what went to
\* extrabuf is appended once the writable area is full.
Scatter(b, d) ==
    LET room == Writable(b)
    IN  IF Len(d) <= room
        THEN WriteBack(b, d)
        ELSE AppendTo(WriteBack(b, SubSeq(d, 1, room)), SubSeq(d, room + 1, Len(d)))

Emptied(b) == Object(b.mem, b.size, CheapPrepend, CheapPrepend)
-----------------------------------------------------------------------------
Init ==
    /\ buf = NewBuffer
    /\ queue = <<>>
    /\ pushed = 0
    /\ peak = 0

\* The caller needs room for n bytes beside the readable ones.
Needs(n) ==
    /\ Len(queue) + n <= MaxReadable
    /\ peak' = Larger(peak, Len(queue) + n)

AppendBytes(d) ==
    /\ Needs(Len(d))
    /\ buf' = AppendTo(buf, d)
    /\ queue' = queue \o d
    /\ UNCHANGED pushed

EnsureWriteAbleBytes(len) ==
    /\ Needs(len)
    /\ buf' = EnsureWriteAble(buf, len)
    /\ UNCHANGED <<queue, pushed>>

\* assert(len <= writeAbleBytes()) obliges the caller
HasWritten(d) ==
    /\ Len(d) <= Writable(buf)
    /\ Needs(Len(d))
    /\ buf' = WriteBack(buf, d)
    /\ queue' = queue \o d
    /\ UNCHANGED pushed

\* assert(len <= readAbleBytes()) obliges the caller
UnWrite(len) ==
    /\ len <= Readable(buf)
    /\ buf' = Object(buf.mem, buf.size, buf.reader, buf.writer - len)
    /\ queue' = SubSeq(queue, 1, Len(queue) - len)
    /\ UNCHANGED <<pushed, peak>>

\* retrieve(), and with it retrieveUntil(), retrieveAsString() and readIntN()
Retrieve(n) ==
    /\ n <= Readable(buf)
    /\ IF n < Readable(buf)
       THEN /\ buf' = Object(buf.mem, buf.size, buf.reader + n, buf.writer)
            /\ UNCHANGED pushed
       ELSE /\ buf' = Emptied(buf)
            /\ pushed' = 0
    /\ queue' = SubSeq(queue, n + 1, Len(queue))
    /\ UNCHANGED peak

RetrieveAll ==
    /\ buf' = Emptied(buf)
    /\ queue' = <<>>
    /\ pushed' = 0
    /\ UNCHANGED peak

\* assert(len <= prependAbleBytes()) obliges the caller
Prepend(d) ==
    /\ Len(d) <= Prependable(buf)
    /\ Needs(Len(d))
    /\ buf' = Object(CopyIn(buf.mem, buf.reader - Len(d), d),
                     buf.size, buf.reader - Len(d), buf.writer)
    /\ queue' = d \o queue
    /\ pushed' = Smaller(CheapPrepend, pushed + Len(d))

\* A new Buffer takes the contents and is swapped in.
Shrink(reserve) ==
    /\ Needs(reserve)
    /\ buf' = AppendTo(EnsureWriteAble(NewBuffer, Readable(buf) + reserve), Contents(buf))
    /\ UNCHANGED <<queue, pushed>>

\* The kernel returns d; the error return (n < 0) changes nothing.
ReadFd(d) ==
    /\ Len(d) <= Writable(buf) + (IF Writable(buf) < ExtraSize THEN ExtraSize ELSE 0)
    /\ Needs(Len(d))
    /\ buf' = Scatter(buf, d)
    /\ queue' = queue \o d
    /\ UNCHANGED pushed

Next ==
    \/ \E d \in Data : AppendBytes(d)
    \/ \E d \in Data : HasWritten(d)
    \/ \E d \in Data : Prepend(d)
    \/ \E d \in Data : ReadFd(d)
    \/ \E n \in 0..MaxData : EnsureWriteAbleBytes(n)
    \/ \E n \in 0..MaxData : UnWrite(n)
    \/ \E n \in 0..MaxData : Retrieve(n)
    \/ \E n \in 0..MaxData : Shrink(n)
    \/ RetrieveAll

Spec == Init /\ [][Next]_vars
-----------------------------------------------------------------------------
(* The vector and the indices stay well formed: the indices are int in     *)
(* the code, every offset the code dereferences lies inside the vector,    *)
(* and the three areas never overlap.                                      *)
TypeOK ==
    /\ buf.size \in Nat
    /\ buf.reader \in 0..buf.writer
    /\ buf.writer \in 0..buf.size
    /\ CheapPrepend <= buf.size
    /\ buf.mem \in [0..(buf.size - 1) -> Byte]
    /\ queue \in Seq(Byte)
    /\ pushed \in 0..CheapPrepend
    /\ peak \in Nat

(* Whatever was appended, prepended, read from a socket, taken back, moved *)
(* inside the vector or copied to another one by shrink(), the readable    *)
(* bytes are the bytes put in and not yet taken out, in order.             *)
ReadableIsQueue == Contents(buf) = queue

(* The header room a codec relies on: as long as fewer than cCheapPrepend  *)
(* bytes were prepended since the buffer was last emptied, prepending the  *)
(* rest of them needs no copy; no growth, move or partial retrieve() takes *)
(* the reserve away.                                                       *)
HeaderRoom == buf.reader + pushed >= CheapPrepend

(* Memory follows demand: makeSpace() reuses the bytes already read before *)
(* it grows the vector, so the vector never outgrows twice the most room   *)
(* any caller needed, however long the buffer is used and however reads    *)
(* and writes alternate.                                                   *)
MemoryBounded ==
    buf.size <= CheapPrepend + Larger(InitialSize, 2 * peak)
=============================================================================
