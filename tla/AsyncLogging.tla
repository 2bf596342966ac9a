---------------------------- MODULE AsyncLogging ----------------------------
(* The asynchronous log back end: netlib/base/AsyncLogging (front buffers   *)
(* filled by any thread under _mutex, one writer thread that swaps them     *)
(* out), LogFile (rolling by size and by period) and AppendFile (stdio).    *)
(* A message is its number; its length is 1, or too long for any buffer.    *)
(* A buffer is the sequence of its messages.                                *)
EXTENDS Integers, Sequences, SequencesExt

CONSTANTS
  NoBuffer,      \* a null unique_ptr
  Cap,           \* cLargeBuffer, in messages of length 1
  Keep,          \* 25: the buffers the writer accepts in one batch
  RollSize,      \* _rollSize
  CheckEveryN,   \* _checkEveryN
  Period,        \* _cRollPerSeconds
  FlushInterval, \* _flushInterval of the file
  MaxMsgs,       \* bound: calls of append()
  MaxTime        \* bound: seconds that pass

ASSUME LogConstants == /\ {Cap, Keep, Period} \subseteq Nat \ {0, 1} /\ CheckEveryN \in Nat \ {0}
                       /\ {RollSize, FlushInterval, MaxMsgs, MaxTime} \subseteq Nat
                       /\ NoBuffer \notin Seq(Nat)

VARIABLES
  running,       \* _running
  owner,         \* the thread of start() and stop()
  pc,            \* the writer thread, at the next step of threadFunc()
  cur, next,     \* _currentBuffer, _nextBuffer
  full,          \* _buffers
  nb1, nb2,      \* newBuffer1, newBuffer2
  batch, done,   \* buffersToWrite, and how many of them are written
  file,          \* LogFile: bytes, count, lastRoll, lastFlush, startOfPeriod
  now,           \* time(NULL)
  output,        \* history: what the files hold, oldest first (0: a notice)
  flushed,       \* history: how much of it left the stdio buffer
  sent,          \* history: calls of append()
  gone,          \* history: messages given up: too long, dropped, write error
  late           \* history: appends in a row to a file of an older period

buffers == <<cur, next, full, nb1, nb2, batch>>
disk == <<file, output, flushed, late>>
vars == <<running, owner, pc, buffers, done, disk, now, sent, gone>>

Notice == 0

PeriodOf(t) == (t \div Period) * Period

-----------------------------------------------------------------------------
(* LogFile and AppendFile, as functions of the disk's state d.              *)

Disk == [file |-> file, output |-> output, flushed |-> flushed, late |-> late]

SetDisk(d) == /\ file' = d.file /\ output' = d.output
              /\ flushed' = d.flushed /\ late' = d.late

(* AppendFile::flush(); also what fclose() of ~AppendFile does.             *)
Flush(d) == [d EXCEPT !.flushed = Len(d.output)]

(* LogFile::rollFile(): one file per second, named after it.                *)
RollFile(d, t) ==
  IF t > d.file.lastRoll
  THEN [Flush(d) EXCEPT
          !.file = [bytes |-> 0, count |-> d.file.count, lastRoll |-> t,
                    lastFlush |-> t, startOfPeriod |-> PeriodOf(t)],
          !.late = 0]
  ELSE d

(* AppendFile::append(): n of the messages of buf reach the stream, k of    *)
(* them are counted; fewer than all only after a stream error.              *)
AppendFile(d, buf, n, k, t) ==
  [d EXCEPT !.output = @ \o SubSeq(buf, 1, n),
            !.file.bytes = @ + k,
            !.late = IF PeriodOf(t) # d.file.startOfPeriod THEN @ + 1 ELSE 0]

LogFileAppendMutantCount(d, buf, n, k, t) ==
  LET a == AppendFile(d, buf, n, k, t)
      c == [a EXCEPT !.file.count = @ + 1]
  IN  IF a.file.bytes > RollSize THEN RollFile(a, t)
      ELSE IF c.file.count <= CheckEveryN THEN c
      ELSE RollFile([c EXCEPT !.file.count = 0], t)

(* LogFile::append(): roll when too large; every CheckEveryN other appends  *)
(* roll into a new period, or flush when the last flush is old.             *)
LogFileAppend(d, buf, n, k, t) ==
  LET a == AppendFile(d, buf, n, k, t)
      c == [a EXCEPT !.file.count = @ + 1]
      z == [a EXCEPT !.file.count = 0]
  IN  IF a.file.bytes > RollSize THEN RollFile(a, t)
      ELSE IF c.file.count < CheckEveryN THEN c
      ELSE IF PeriodOf(t) # z.file.startOfPeriod THEN RollFile(z, t)
      ELSE IF t - z.file.lastFlush > FlushInterval
           THEN [Flush(z) EXCEPT !.file.lastFlush = t]
           ELSE z

(* One call of LogFile::append(), which may meet a stream error; the        *)
(* messages of dropped are given up in the same step.                       *)
Output(buf, dropped) ==
  \E n \in 0..Len(buf) : \E k \in 0..n :
    /\ (n = Len(buf) => k = n)
    /\ SetDisk(LogFileAppend(Disk, buf, n, k, now))
    /\ gone' = (gone \cup ToSet(SubSeq(buf, n + 1, Len(buf))) \cup dropped) \ {Notice}

-----------------------------------------------------------------------------
(* Clock, owner and the threads that log.                                   *)

Init ==
  /\ running = FALSE /\ owner = "created" /\ pc = "none"
  /\ cur = <<>> /\ next = <<>> /\ full = <<>>
  /\ nb1 = NoBuffer /\ nb2 = NoBuffer /\ batch = <<>> /\ done = 0
  /\ file = [bytes |-> 0, count |-> 0, lastRoll |-> 0, lastFlush |-> 0, startOfPeriod |-> 0]
  /\ now = 1 /\ output = <<>> /\ flushed = 0 /\ sent = 0 /\ gone = {} /\ late = 0

Tick == /\ now < MaxTime
        /\ now' = now + 1
        /\ UNCHANGED <<running, owner, pc, buffers, done, disk, sent, gone>>

(* start(): the flag is set before the thread exists.                       *)
Start == /\ owner = "created"
         /\ running' = TRUE /\ owner' = "starting" /\ pc' = "born"
         /\ UNCHANGED <<buffers, done, disk, now, sent, gone>>

(* stop() and ~AsyncLogging up to the join. The notify() is made without    *)
(* the lock; a writer that misses it returns from its wait by the timeout,  *)
(* so it changes nothing that Collect does not already allow.               *)
Stop == /\ owner = "started"
        /\ running' = FALSE /\ owner' = "joining"
        /\ UNCHANGED <<pc, buffers, done, disk, now, sent, gone>>

Join == /\ owner = "joining" /\ pc = "over"
        /\ owner' = "stopped"
        /\ UNCHANGED <<running, pc, buffers, done, disk, now, sent, gone>>

(* append(): FixedBuffer::append() checks the room again and ignores a      *)
(* message that does not fit even an empty buffer.                          *)
AppendMsg(len) ==
  /\ sent < MaxMsgs /\ sent' = sent + 1
  /\ LET put(b) == IF Cap - Len(b) > len THEN Append(b, sent') ELSE b
         fits == Cap - Len(cur) > len
     IN  /\ full' = IF fits THEN full ELSE Append(full, cur)
         /\ next' = IF fits THEN next ELSE NoBuffer
         /\ cur' = put(IF fits THEN cur ELSE IF next # NoBuffer THEN next ELSE <<>>)
         /\ gone' = IF sent' \in ToSet(cur') THEN gone ELSE gone \cup {sent'}
  /\ UNCHANGED <<running, owner, pc, nb1, nb2, batch, done, disk, now>>

-----------------------------------------------------------------------------
(* threadFunc()                                                             *)

(* From countDown() to the loop, the constructor of the LogFile included;   *)
(* start() waits for the latch.                                             *)
Begin == /\ pc = "born"
         /\ owner' = "started" /\ pc' = "loop"
         /\ nb1' = <<>> /\ nb2' = <<>>
         /\ SetDisk(RollFile(Disk, now))
         /\ UNCHANGED <<running, cur, next, full, batch, done, now, sent, gone>>

(* while(_running): into the critical section, or out of the loop.          *)
Enter == /\ pc = "loop"
         /\ pc' = IF running THEN "swap" ELSE "last"
         /\ UNCHANGED <<running, owner, buffers, done, disk, now, sent, gone>>

CollectMutantSpare ==
  /\ pc = "swap"
  /\ batch' = Append(full, cur) /\ full' = <<>>
  /\ cur' = nb1 /\ nb1' = NoBuffer
  /\ next' = nb2 /\ nb2' = NoBuffer
  /\ pc' = IF Len(batch') > Keep THEN "drop" ELSE "write"
  /\ UNCHANGED <<running, owner, done, disk, now, sent, gone>>

(* The critical section. With _buffers empty it waits first; the wait ends  *)
(* by a notify, the timeout or spuriously, and nothing is tested again.     *)
Collect ==
  /\ pc = "swap"
  /\ batch' = Append(full, cur) /\ full' = <<>>
  /\ cur' = nb1 /\ nb1' = NoBuffer
  /\ next' = IF next = NoBuffer THEN nb2 ELSE next
  /\ nb2' = IF next = NoBuffer THEN NoBuffer ELSE nb2
  /\ pc' = IF Len(batch') > Keep THEN "drop" ELSE "write"
  /\ UNCHANGED <<running, owner, done, disk, now, sent, gone>>

(* Too many buffers: a notice is written and all but the first two go.      *)
Drop == /\ pc = "drop"
        /\ Output(<<Notice>>, UNION {ToSet(batch[i]) : i \in 3..Len(batch)})
        /\ batch' = SubSeq(batch, 1, 2) /\ pc' = "write"
        /\ UNCHANGED <<running, owner, cur, next, full, nb1, nb2, done, now, sent>>

Write == /\ pc = "write" /\ done < Len(batch)
         /\ Output(batch[done + 1], {})
         /\ done' = done + 1
         /\ UNCHANGED <<running, owner, pc, buffers, now, sent>>

RecycleMutantReset ==
  /\ pc = "write" /\ done = Len(batch)
  /\ nb1' = IF nb1 = NoBuffer THEN Last(batch) ELSE nb1
  /\ nb2' = IF nb2 = NoBuffer THEN <<>> ELSE nb2
  /\ batch' = <<>> /\ done' = 0 /\ pc' = "flush"
  /\ UNCHANGED <<running, owner, cur, next, full, disk, now, sent, gone>>

(* The written buffers become the spares again, emptied by reset().         *)
Recycle ==
  /\ pc = "write" /\ done = Len(batch)
  /\ nb1' = IF nb1 = NoBuffer THEN <<>> ELSE nb1
  /\ nb2' = IF nb2 = NoBuffer THEN <<>> ELSE nb2
  /\ batch' = <<>> /\ done' = 0 /\ pc' = "flush"
  /\ UNCHANGED <<running, owner, cur, next, full, disk, now, sent, gone>>

FlushFileMutantNone == /\ pc \in {"flush", "last"}
                       /\ pc' = IF pc = "flush" THEN "loop" ELSE "over"
                       /\ UNCHANGED <<running, owner, buffers, done, disk, now, sent, gone>>

(* output.flush(), at the end of each round and after the loop.             *)
FlushFile == /\ pc \in {"flush", "last"}
             /\ SetDisk(Flush(Disk))
             /\ pc' = IF pc = "flush" THEN "loop" ELSE "over"
             /\ UNCHANGED <<running, owner, buffers, done, now, sent, gone>>

Writer == Begin \/ Enter \/ Collect \/ Drop \/ Write \/ Recycle \/ FlushFile

Next == Tick \/ Start \/ Stop \/ Join \/ Writer \/ \E len \in {1, Cap} : AppendMsg(len)

(* The writer thread and the joining owner are scheduled; nothing is owed   *)
(* by the threads that log, by the clock or by the caller of stop().        *)
Spec == Init /\ [][Next]_vars /\ WF_vars(Writer) /\ WF_vars(Join)

-----------------------------------------------------------------------------
(* The messages in a buffer or file; and that they are in the order of their *)
(* calls, within each of a sequence of buffers and from one to the next.    *)
Messages(b) == ToSet(b) \ {Notice}

Ordered(bs) ==
  /\ \A i \in DOMAIN bs : \A p, q \in DOMAIN bs[i] :
       p < q /\ bs[i][p] # Notice /\ bs[i][q] # Notice => bs[i][p] < bs[i][q]
  /\ \A i, j \in DOMAIN bs : i < j =>
       \A m \in Messages(bs[i]) : \A n \in Messages(bs[j]) : m < n

(* Where messages are, oldest first.                                        *)
Held == <<output>> \o SubSeq(batch, done + 1, Len(batch)) \o full \o <<cur>>

(* The files, the buffers being written and the front buffers together hold *)
(* every message ever appended exactly once and in order, but for those     *)
(* given up: append(), the swap and the recycling of written buffers        *)
(* neither lose, duplicate nor reorder a message, after stop() included.    *)
LogIntact == /\ UNION {Messages(Held[i]) : i \in DOMAIN Held} = (1..sent) \ gone
             /\ Ordered(Held)

Missing(b) == IF b = NoBuffer THEN 1 ELSE 0

(* The assertions of threadFunc(): each round starts with two empty spares  *)
(* and ends with enough written buffers to replace the ones it used; the    *)
(* front buffer is never null, so append() may dereference it.              *)
SparesSuffice ==
  /\ cur # NoBuffer
  /\ pc = "born" => running
  /\ pc = "swap" => nb1 = <<>> /\ nb2 = <<>> /\ batch = <<>>
  /\ pc = "write" => Missing(nb1) + Missing(nb2) <= Len(batch)

(* LogFile::append() rolls in time: a file grows past _rollSize only in the *)
(* second it was opened, when no other name is to be had, and takes fewer   *)
(* than _checkEveryN appends of a later period than its own.                *)
RollKeepsUp ==
  [][/\ file' # file /\ file'.bytes > RollSize => now = file'.lastRoll
     /\ late' < CheckEveryN]_vars

(* A message appended while the log runs leaves the process or is given up, *)
(* unless stop() comes first; and stop() returns, although its notify() may *)
(* be lost.                                                                 *)
LogProgress ==
  /\ \A m \in 1..MaxMsgs :
       (m <= sent /\ running) ~> (~running \/ m \in gone \/ m \in ToSet(SubSeq(output, 1, flushed)))
  /\ owner = "joining" ~> owner = "stopped"
=============================================================================
