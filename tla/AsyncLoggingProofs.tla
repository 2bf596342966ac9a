------------------------- MODULE AsyncLoggingProofs -------------------------
(***************************************************************************)
(* Proofs about AsyncLogging for any size of the buffers, of a batch and   *)
(* of a file, any period and any number of messages.                       *)
(***************************************************************************)
EXTENDS AsyncLogging, SequenceTheorems, TLAPS

Message == Nat \ {Notice}
Buffer == Seq(Message)
Spare == {NoBuffer, <<>>}

FileType == [bytes : Nat, count : Nat, lastRoll : Nat, lastFlush : Nat, startOfPeriod : Int]
DiskType == [file : FileType, output : Seq(Nat), flushed : Nat, late : Nat]

(* What LogFile keeps between two calls at time t: the file was opened in the
   past and knows its period, the count of _checkEveryN has not run out, and
   every append to a file of an older period was counted.                   *)
DiskOK(d, t) == /\ d \in DiskType
                /\ d.flushed <= Len(d.output)
                /\ d.file.lastRoll <= t /\ d.file.startOfPeriod = PeriodOf(d.file.lastRoll)
                /\ d.file.count < CheckEveryN /\ d.late <= d.file.count

TypeOK == /\ running \in BOOLEAN
          /\ owner \in {"created", "starting", "started", "joining", "stopped"}
          /\ pc \in {"none", "born", "loop", "swap", "drop", "write", "flush", "last", "over"}
          /\ cur \in Buffer /\ next \in Spare /\ full \in Seq(Buffer)
          /\ nb1 \in Spare /\ nb2 \in Spare
          /\ batch \in Seq(Buffer) /\ done \in 0..Len(batch)
          /\ now \in Nat /\ sent \in Nat /\ gone \subseteq Message
          /\ DiskOK(Disk, now)

(* Where the buffers are.  A front end without a spare has filled a buffer, so
   the batch that takes the writer's second spare has two buffers to give back;
   Keep > 1 lets the drop of old buffers leave those two.                   *)
SparesInv == /\ pc = "born" => running /\ owner = "starting"
             /\ pc = "none" <=> owner = "created"
             /\ next = NoBuffer => full # <<>>
             /\ pc \in {"none", "born"} => batch = <<>>
             /\ pc \in {"loop", "swap", "flush", "last", "over"} =>
                  nb1 = <<>> /\ nb2 = <<>> /\ batch = <<>>
             /\ pc \in {"drop", "write"} =>
                  Len(batch) >= 1 /\ (nb2 = NoBuffer => Len(batch) >= 2)
             /\ pc = "drop" => Len(batch) > 2 /\ done = 0

LogInv == TypeOK /\ SparesInv

-----------------------------------------------------------------------------
(* The functions of LogFile and AppendFile.                                *)

(* The start of a period is a number. *)
LEMMA PeriodOfType == ASSUME NEW t \in Nat PROVE PeriodOf(t) \in Int
<1>1. Period \in Int /\ Period > 0
  BY LogConstants
<1>2. t \div Period \in Int
  BY <1>1
<1> QED
  BY <1>1, <1>2 DEF PeriodOf

(* The first period starts at 0. *)
LEMMA PeriodOfZero == PeriodOf(0) = 0
<1>1. Period \in Nat /\ Period > 0
  BY LogConstants
<1>2. 0 \div Period = 0
  BY <1>1
<1> QED
  BY <1>1, <1>2 DEF PeriodOf

(* AppendFile::flush() touches only what is flushed. *)
LEMMA FlushFacts ==
  ASSUME NEW d \in DiskType
  PROVE  /\ Flush(d) \in DiskType
         /\ Flush(d).file = d.file /\ Flush(d).output = d.output /\ Flush(d).late = d.late
         /\ Flush(d).flushed = Len(d.output)
BY DEF Flush, DiskType

(* Replacing the file's counters changes nothing else. *)
LEMMA SetFileFacts ==
  ASSUME NEW d \in DiskType, NEW f \in FileType
  PROVE  LET e == [d EXCEPT !.file = f]
         IN  /\ e \in DiskType
             /\ e.file = f /\ e.output = d.output /\ e.flushed = d.flushed /\ e.late = d.late
BY DEF DiskType

(* LogFile::rollFile() opens a new, empty file unless this second has one. *)
LEMMA RollFileFacts ==
  ASSUME NEW d \in DiskType, NEW t \in Nat
  PROVE  LET r == RollFile(d, t)
         IN  /\ r \in DiskType /\ r.output = d.output /\ r.file.count = d.file.count
             /\ t > d.file.lastRoll => /\ r.file.bytes = 0 /\ r.file.lastRoll = t
                                       /\ r.file.startOfPeriod = PeriodOf(t)
                                       /\ r.late = 0 /\ r.flushed = Len(d.output)
             /\ ~(t > d.file.lastRoll) => r = d
<1> DEFINE e == Flush(d)
           f == [bytes |-> 0, count |-> d.file.count, lastRoll |-> t, lastFlush |-> t,
                 startOfPeriod |-> PeriodOf(t)]
           r == [e EXCEPT !.file = f, !.late = 0]
<1>1. f \in FileType
  BY PeriodOfType DEF FileType, DiskType
<1>2. e \in DiskType /\ e.output = d.output /\ e.flushed = Len(d.output)
  BY FlushFacts
<1>3. /\ r \in DiskType /\ r.output = d.output /\ r.file = f /\ r.late = 0
      /\ r.flushed = Len(d.output)
  BY <1>1, <1>2 DEF DiskType
<1>4. CASE t > d.file.lastRoll
  <2>1. RollFile(d, t) = r
    BY <1>4 DEF RollFile
  <2> QED
    BY <1>3, <1>4, <2>1
<1>5. CASE ~(t > d.file.lastRoll)
  BY <1>5 DEF RollFile
<1> QED
  BY <1>4, <1>5

(* AppendFile::append() adds what reached the stream to the output, and counts
   an append to a file of an older period. *)
LEMMA AppendFileFacts ==
  ASSUME NEW d \in DiskType, NEW buf \in Seq(Nat), NEW t \in Nat,
         NEW n \in 0..Len(buf), NEW k \in 0..n
  PROVE  LET a == AppendFile(d, buf, n, k, t)
         IN  /\ a \in DiskType
             /\ a.output = d.output \o SubSeq(buf, 1, n)
             /\ a.flushed = d.flushed
             /\ a.file.bytes = d.file.bytes + k
             /\ a.file.count = d.file.count /\ a.file.lastRoll = d.file.lastRoll
             /\ a.file.lastFlush = d.file.lastFlush
             /\ a.file.startOfPeriod = d.file.startOfPeriod
             /\ a.late = IF PeriodOf(t) # d.file.startOfPeriod THEN d.late + 1 ELSE 0
<1>1. SubSeq(buf, 1, n) \in Seq(Nat)
  OBVIOUS
<1>2. d.output \o SubSeq(buf, 1, n) \in Seq(Nat)
  BY <1>1 DEF DiskType
<1> DEFINE f == [d.file EXCEPT !.bytes = d.file.bytes + k]
           l == IF PeriodOf(t) # d.file.startOfPeriod THEN d.late + 1 ELSE 0
           a == [d EXCEPT !.output = d.output \o SubSeq(buf, 1, n), !.file = f, !.late = l]
<1>3. AppendFile(d, buf, n, k, t) = a
  BY DEF AppendFile, DiskType
<1>4. d.file \in FileType /\ d.late \in Nat /\ k \in Nat
  BY DEF DiskType
<1>5. /\ f \in FileType
      /\ f.bytes = d.file.bytes + k
      /\ f.count = d.file.count /\ f.lastRoll = d.file.lastRoll
      /\ f.lastFlush = d.file.lastFlush
      /\ f.startOfPeriod = d.file.startOfPeriod
  <2>1. d.file.bytes + k \in Nat
    BY <1>4 DEF FileType
  <2> QED
    BY <1>4, <2>1 DEF FileType
<1>6. l \in Nat
  BY <1>4
<1> HIDE DEF f, l
<1>7. /\ a \in DiskType
      /\ a.output = d.output \o SubSeq(buf, 1, n)
      /\ a.flushed = d.flushed /\ a.file = f /\ a.late = l
  BY <1>2, <1>5, <1>6 DEF DiskType
<1> QED
  BY <1>3, <1>5, <1>7 DEF l

(* LogFile::append() keeps what LogFile relies on; and when the file is larger
   than _rollSize after it, it was opened in this very second. *)
LEMMA LogFileAppendOK ==
  ASSUME NEW d, NEW t \in Nat, DiskOK(d, t), NEW buf \in Seq(Nat),
         NEW n \in 0..Len(buf), NEW k \in 0..n
  PROVE  LET r == LogFileAppend(d, buf, n, k, t)
         IN  /\ DiskOK(r, t)
             /\ r.output = d.output \o SubSeq(buf, 1, n)
             /\ r.file.bytes > RollSize => t = r.file.lastRoll
<1> DEFINE a == AppendFile(d, buf, n, k, t)
           c == [a EXCEPT !.file.count = @ + 1]
           z == [a EXCEPT !.file.count = 0]
           r == LogFileAppend(d, buf, n, k, t)
           Good(x) == /\ DiskOK(x, t)
                      /\ x.output = d.output \o SubSeq(buf, 1, n)
                      /\ x.file.bytes > RollSize => t = x.file.lastRoll
<1> SUFFICES Good(r)
  OBVIOUS
<1>1. d \in DiskType
  BY DEF DiskOK
<1>2. /\ a \in DiskType
      /\ a.output = d.output \o SubSeq(buf, 1, n)
      /\ a.flushed = d.flushed
      /\ a.file.bytes = d.file.bytes + k
      /\ a.file.count = d.file.count /\ a.file.lastRoll = d.file.lastRoll
      /\ a.file.lastFlush = d.file.lastFlush
      /\ a.file.startOfPeriod = d.file.startOfPeriod
      /\ a.late = IF PeriodOf(t) # d.file.startOfPeriod THEN d.late + 1 ELSE 0
  BY <1>1, AppendFileFacts
<1> HIDE DEF a
<1>3. /\ c \in DiskType /\ c.output = a.output /\ c.flushed = a.flushed /\ c.late = a.late
      /\ c.file = [a.file EXCEPT !.count = a.file.count + 1]
  <2> DEFINE f == [a.file EXCEPT !.count = a.file.count + 1]
  <2>1. a.file \in FileType
    BY <1>2 DEF DiskType
  <2>2. f \in FileType
    BY <2>1, SMTT(30) DEF FileType
  <2>3. c = [a EXCEPT !.file = f]
    BY <1>2 DEF DiskType
  <2> QED
    BY <1>2, <2>2, <2>3, SetFileFacts
<1>4. /\ z \in DiskType /\ z.output = a.output /\ z.flushed = a.flushed /\ z.late = a.late
      /\ z.file = [a.file EXCEPT !.count = 0]
  <2> DEFINE f == [a.file EXCEPT !.count = 0]
  <2>1. f \in FileType
    BY <1>2 DEF DiskType, FileType
  <2>2. z = [a EXCEPT !.file = f]
    BY <1>2 DEF DiskType
  <2> QED
    BY <1>2, <2>1, <2>2, SetFileFacts
<1>5. a.flushed <= Len(a.output)
  BY <1>1, <1>2 DEF DiskOK, DiskType
<1>6. /\ d.file \in FileType /\ a.file \in FileType /\ d.late \in Nat
      /\ d.file.lastRoll <= t /\ d.file.startOfPeriod = PeriodOf(d.file.lastRoll)
      /\ d.file.count < CheckEveryN /\ d.late <= d.file.count
      /\ CheckEveryN \in Nat \ {0} /\ RollSize \in Nat
      /\ t \in Nat /\ PeriodOf(t) \in Int
  BY <1>1, <1>2, PeriodOfType, LogConstants DEF DiskOK, DiskType
<1>7. r = IF a.file.bytes > RollSize THEN RollFile(a, t)
          ELSE IF c.file.count < CheckEveryN THEN c
          ELSE IF PeriodOf(t) # z.file.startOfPeriod THEN RollFile(z, t)
          ELSE IF t - z.file.lastFlush > FlushInterval
               THEN [Flush(z) EXCEPT !.file.lastFlush = t]
               ELSE z
  BY DEF LogFileAppend, a
<1> HIDE DEF c, z, r
<1>8. /\ a.file.bytes \in Nat /\ a.file.count \in Nat /\ a.file.lastRoll \in Nat
      /\ d.file.lastRoll \in Nat /\ d.file.count \in Nat
      /\ c.file \in FileType /\ z.file \in FileType
      /\ c.file.bytes = a.file.bytes /\ c.file.count = a.file.count + 1
      /\ c.file.lastRoll = a.file.lastRoll /\ c.file.startOfPeriod = a.file.startOfPeriod
      /\ z.file.bytes = a.file.bytes /\ z.file.count = 0
      /\ z.file.lastRoll = a.file.lastRoll /\ z.file.startOfPeriod = a.file.startOfPeriod
  <2>1. /\ c.file.bytes = a.file.bytes /\ c.file.count = a.file.count + 1
        /\ c.file.lastRoll = a.file.lastRoll /\ c.file.startOfPeriod = a.file.startOfPeriod
    BY <1>3, <1>6 DEF FileType
  <2>2. /\ z.file.bytes = a.file.bytes /\ z.file.count = 0
        /\ z.file.lastRoll = a.file.lastRoll /\ z.file.startOfPeriod = a.file.startOfPeriod
    BY <1>4, <1>6 DEF FileType
  <2>3. c.file \in FileType /\ z.file \in FileType
    BY <1>3, <1>4 DEF DiskType
  <2>4. /\ a.file.bytes \in Nat /\ a.file.count \in Nat /\ a.file.lastRoll \in Nat
        /\ d.file.lastRoll \in Nat /\ d.file.count \in Nat
    BY <1>6 DEF FileType
  <2> QED
    BY <2>1, <2>2, <2>3, <2>4
<1>9. ASSUME r \in DiskType, r.output = a.output, r.flushed <= Len(r.output),
              r.file.lastRoll <= t, r.file.startOfPeriod = PeriodOf(r.file.lastRoll),
              r.file.count < CheckEveryN, r.late <= r.file.count,
              r.file.bytes > RollSize => t = r.file.lastRoll
      PROVE  Good(r)
  <2>1. DiskOK(r, t)
    BY <1>9 DEF DiskOK
  <2> QED
    BY <1>2, <1>9, <2>1
<1>10. CASE a.file.bytes > RollSize
  <2>1. r = RollFile(a, t)
    BY <1>7, <1>10
  <2>2. CASE t > a.file.lastRoll
    <3>1. /\ r \in DiskType /\ r.output = a.output /\ r.file.count = a.file.count
          /\ r.file.bytes = 0 /\ r.file.lastRoll = t
          /\ r.file.startOfPeriod = PeriodOf(t)
          /\ r.late = 0 /\ r.flushed = Len(a.output)
      BY <1>2, <2>1, <2>2, RollFileFacts
    <3>2. r.flushed <= Len(r.output) /\ r.file.lastRoll <= t /\ ~(r.file.bytes > RollSize)
      BY <1>4, <1>6, <3>1 DEF DiskType
    <3>3. r.file.count < CheckEveryN /\ r.late <= r.file.count
      BY <1>2, <1>6, <1>8, <3>1
    <3>4. r.file.startOfPeriod = PeriodOf(r.file.lastRoll)
      BY <3>1
    <3> QED
      BY <1>9, <3>1, <3>2, <3>3, <3>4, Zenon
  <2>3. CASE ~(t > a.file.lastRoll)
    <3>1. a.file.lastRoll = t
      BY <1>2, <1>6, <1>8, <2>3
    <3>2. a.late = 0
      BY <3>1, <1>2, <1>6
    <3>3. r = a
      BY <1>2, <2>1, <2>3, RollFileFacts
    <3>4. a.file.lastRoll <= t /\ a.file.startOfPeriod = PeriodOf(a.file.lastRoll)
      BY <1>2, <1>6, <3>1
    <3>5. a.file.count < CheckEveryN /\ a.late <= a.file.count
      BY <1>2, <1>6, <1>8, <3>2
    <3>6. r \in DiskType /\ r.output = a.output /\ r.flushed <= Len(r.output)
      BY <1>2, <1>5, <3>3
    <3>7. /\ r.file.lastRoll <= t /\ r.file.startOfPeriod = PeriodOf(r.file.lastRoll)
          /\ r.file.count < CheckEveryN /\ r.late <= r.file.count /\ t = r.file.lastRoll
      BY <3>1, <3>3, <3>4, <3>5
    <3> QED
      BY <1>9, <3>6, <3>7, Zenon
  <2> QED
    BY <2>2, <2>3
<1>11. CASE a.file.bytes <= RollSize /\ c.file.count < CheckEveryN
  <2>1. r = c
    BY <1>6, <1>7, <1>8, <1>11
  <2>2. c.file.lastRoll <= t /\ c.file.startOfPeriod = PeriodOf(c.file.lastRoll)
    BY <1>2, <1>6, <1>8
  <2>3. c.late <= c.file.count
    BY <1>2, <1>3, <1>6, <1>8, SMTT(30)
  <2>4. ~(c.file.bytes > RollSize)
    BY <1>6, <1>8, <1>11
  <2>5. r \in DiskType /\ r.output = a.output /\ r.flushed <= Len(r.output)
    BY <1>3, <1>5, <2>1
  <2>6. /\ r.file.lastRoll <= t /\ r.file.startOfPeriod = PeriodOf(r.file.lastRoll)
        /\ r.file.count < CheckEveryN /\ r.late <= r.file.count /\ ~(r.file.bytes > RollSize)
    BY <1>11, <2>1, <2>2, <2>3, <2>4
  <2> QED
    BY <1>9, <2>5, <2>6, Zenon
<1>12. CASE a.file.bytes <= RollSize /\ c.file.count >= CheckEveryN
  <2>1. 0 < CheckEveryN /\ ~(z.file.bytes > RollSize) /\ ~(c.file.count < CheckEveryN)
    BY <1>6, <1>8, <1>12, SMTT(30)
  <2>2. z.file.lastRoll <= t /\ z.file.startOfPeriod = PeriodOf(z.file.lastRoll)
    BY <1>2, <1>6, <1>8
  <2>3. CASE PeriodOf(t) # z.file.startOfPeriod
    <3>1. r = RollFile(z, t)
      BY <1>6, <1>7, <1>8, <1>12, <2>1, <2>3
    <3>2. t > z.file.lastRoll
      BY <1>8, <2>2, <2>3
    <3>3. /\ r \in DiskType /\ r.output = z.output /\ r.file.count = z.file.count
          /\ r.file.bytes = 0 /\ r.file.lastRoll = t
          /\ r.file.startOfPeriod = PeriodOf(t)
          /\ r.late = 0 /\ r.flushed = Len(z.output)
      BY <1>4, <3>1, <3>2, RollFileFacts
    <3>4. r.flushed <= Len(r.output) /\ r.file.lastRoll <= t /\ ~(r.file.bytes > RollSize)
      BY <1>4, <1>6, <3>3 DEF DiskType
    <3>5. r.file.count < CheckEveryN /\ r.late <= r.file.count
      BY <1>8, <2>1, <3>3
    <3>6. r.output = a.output /\ r.file.startOfPeriod = PeriodOf(r.file.lastRoll)
      BY <1>4, <3>3
    <3> QED
      BY <1>9, <3>3, <3>4, <3>5, <3>6, Zenon
  <2>4. PeriodOf(t) = z.file.startOfPeriod => a.late = 0
    BY <1>2, <1>8
  <2>5. CASE PeriodOf(t) = z.file.startOfPeriod /\ t - z.file.lastFlush > FlushInterval
    <3> DEFINE e == Flush(z)
               f == [z.file EXCEPT !.lastFlush = t]
    <3>1. r = [e EXCEPT !.file.lastFlush = t]
      BY <1>6, <1>7, <1>8, <1>12, <2>1, <2>5
    <3>2. /\ e \in DiskType /\ e.file = z.file /\ e.output = z.output /\ e.late = z.late
          /\ e.flushed = Len(z.output)
      BY <1>4, FlushFacts
    <3> HIDE DEF e
    <3>3. f \in FileType /\ f.bytes = z.file.bytes /\ f.count = z.file.count
          /\ f.lastRoll = z.file.lastRoll /\ f.startOfPeriod = z.file.startOfPeriod
      BY <1>6, <1>8 DEF FileType
    <3>4. r = [e EXCEPT !.file = f]
      BY <3>1, <3>2 DEF DiskType
    <3> HIDE DEF f
    <3>5. /\ r \in DiskType /\ r.file = f /\ r.output = z.output
          /\ r.late = z.late /\ r.flushed = Len(z.output)
      BY <3>2, <3>3, <3>4, SetFileFacts
    <3>6. r.flushed <= Len(r.output)
      BY <1>4, <3>5 DEF DiskType
    <3>7. r.late = 0 /\ r.file.count = 0
      BY <1>4, <1>8, <2>4, <2>5, <3>3, <3>5
    <3>8. r.output = a.output /\ r.file.lastRoll <= t /\ r.file.startOfPeriod = PeriodOf(r.file.lastRoll)
      BY <1>4, <2>2, <3>3, <3>5
    <3>9. r.file.count < CheckEveryN /\ r.late <= r.file.count /\ ~(r.file.bytes > RollSize)
      BY <2>1, <3>3, <3>5, <3>7
    <3> QED
      BY <1>9, <3>5, <3>6, <3>8, <3>9, Zenon
  <2>6. CASE PeriodOf(t) = z.file.startOfPeriod /\ ~(t - z.file.lastFlush > FlushInterval)
    <3>1. r = z
      BY <1>6, <1>7, <1>8, <1>12, <2>1, <2>6
    <3>2. z.late = 0 /\ z.file.count = 0
      BY <1>4, <1>8, <2>4, <2>6
    <3>3. z.flushed <= Len(z.output) /\ z.late <= z.file.count
      BY <1>4, <1>5, <3>2
    <3>4. r \in DiskType /\ r.output = a.output /\ r.flushed <= Len(r.output)
      BY <1>4, <3>1, <3>3
    <3>5. /\ r.file.lastRoll <= t /\ r.file.startOfPeriod = PeriodOf(r.file.lastRoll)
          /\ r.file.count < CheckEveryN /\ r.late <= r.file.count /\ ~(r.file.bytes > RollSize)
      BY <2>1, <2>2, <3>1, <3>2, <3>3
    <3> QED
      BY <1>9, <3>4, <3>5, Zenon
  <2> QED
    BY <2>3, <2>5, <2>6
<1>13. /\ a.file.bytes > RollSize \/ a.file.bytes <= RollSize
       /\ c.file.count < CheckEveryN \/ c.file.count >= CheckEveryN
  BY <1>6, <1>8, SMTT(30)
<1> QED
  BY <1>10, <1>11, <1>12, <1>13
-----------------------------------------------------------------------------
(* The state of the disk, as the record the functions above work on. *)
LEMMA DiskFields ==
  Disk.file = file /\ Disk.output = output /\ Disk.flushed = flushed /\ Disk.late = late
BY DEF Disk

(* An action that stores a disk leaves that disk. *)
LEMMA SetDiskSets ==
  ASSUME NEW r \in DiskType, SetDisk(r)
  PROVE  Disk' = r
<1>1. r = [file |-> r.file, output |-> r.output, flushed |-> r.flushed, late |-> r.late]
  BY DEF DiskType
<1> QED
  BY <1>1 DEF SetDisk, Disk

(* What holds of a disk at some time holds later. *)
LEMMA DiskAges ==
  ASSUME NEW d, NEW t \in Nat, NEW u \in Nat, t <= u, DiskOK(d, t)
  PROVE  DiskOK(d, u)
<1>1. d.file.lastRoll \in Nat
  BY DEF DiskOK, DiskType, FileType
<1> QED
  BY <1>1 DEF DiskOK

(* The disk is fine after LogFile::rollFile() and LogFile::flush(). *)
LEMMA RollFlushOK ==
  ASSUME NEW d, NEW t \in Nat, DiskOK(d, t)
  PROVE  /\ DiskOK(RollFile(d, t), t) /\ DiskOK(Flush(d), t)
         /\ RollFile(d, t).output = d.output /\ Flush(d).output = d.output
         /\ RollFile(d, t).file # d.file => RollFile(d, t).file.bytes = 0
         /\ Flush(d).file = d.file
<1>1. /\ d \in DiskType /\ d.file.count \in Nat /\ d.late \in Nat /\ Len(d.output) \in Nat
      /\ d.file.lastRoll \in Nat
  BY DEF DiskOK, DiskType, FileType
<1>2. DiskOK(Flush(d), t) /\ Flush(d).file = d.file /\ Flush(d).output = d.output
  BY <1>1, FlushFacts DEF DiskOK
<1> DEFINE r == RollFile(d, t)
<1>3. CASE t > d.file.lastRoll
  <2>1. /\ r \in DiskType /\ r.output = d.output /\ r.file.count = d.file.count
        /\ r.file.bytes = 0 /\ r.file.lastRoll = t /\ r.file.startOfPeriod = PeriodOf(t)
        /\ r.late = 0 /\ r.flushed = Len(d.output)
    BY <1>1, <1>3, RollFileFacts
  <2> HIDE DEF r
  <2>2. DiskOK(r, t)
    BY <1>1, <2>1 DEF DiskOK
  <2> QED
    BY <1>2, <2>1, <2>2 DEF r
<1>4. CASE ~(t > d.file.lastRoll)
  BY <1>1, <1>2, <1>4, RollFileFacts
<1> QED
  BY <1>3, <1>4

(* One LogFile::append() in its action: the disk stays fine, a part of the
   buffer is written and the rest given up. *)
LEMMA OutputFacts ==
  ASSUME now \in Nat, DiskOK(Disk, now), gone \subseteq Message,
         NEW buf \in Seq(Nat), NEW dropped \in SUBSET Nat,
         Output(buf, dropped), now' = now
  PROVE  /\ DiskOK(Disk', now')
         /\ gone' \subseteq Message
         /\ file'.bytes > RollSize => now = file'.lastRoll
         /\ \E n \in 0..Len(buf) :
              /\ output' = output \o SubSeq(buf, 1, n)
              /\ gone' = (gone \cup ToSet(SubSeq(buf, n + 1, Len(buf))) \cup dropped) \ {Notice}
<1>0. PICK n \in 0..Len(buf) : \E k \in 0..n :
        /\ SetDisk(LogFileAppend(Disk, buf, n, k, now))
        /\ gone' = (gone \cup ToSet(SubSeq(buf, n + 1, Len(buf))) \cup dropped) \ {Notice}
  BY Zenon DEF Output
<1>1. PICK k \in 0..n :
        /\ SetDisk(LogFileAppend(Disk, buf, n, k, now))
        /\ gone' = (gone \cup ToSet(SubSeq(buf, n + 1, Len(buf))) \cup dropped) \ {Notice}
  BY <1>0
<1> DEFINE r == LogFileAppend(Disk, buf, n, k, now)
<1>2. /\ DiskOK(r, now) /\ r.output = output \o SubSeq(buf, 1, n)
      /\ r.file.bytes > RollSize => now = r.file.lastRoll
  BY LogFileAppendOK, DiskFields
<1> HIDE DEF r
<1>3. Disk' = r /\ file' = r.file /\ output' = r.output
  <2>1. r \in DiskType
    BY <1>2 DEF DiskOK
  <2> QED
    BY <1>1, <2>1, SetDiskSets DEF SetDisk, r
<1>4. n + 1 \in Nat \ {0} /\ Len(buf) \in Nat
  OBVIOUS
<1>5. \A i \in 1..Len(SubSeq(buf, n + 1, Len(buf))) : SubSeq(buf, n + 1, Len(buf))[i] \in Nat
  BY <1>4
<1>6. ToSet(SubSeq(buf, n + 1, Len(buf))) \subseteq Nat
  BY <1>4, <1>5 DEF ToSet
<1>7. gone' \subseteq Message
  BY <1>1, <1>6 DEF Message
<1> QED
  BY <1>1, <1>2, <1>3, <1>7
-----------------------------------------------------------------------------
(* The elements of a sequence. *)
LEMMA ToSetFacts ==
  ASSUME NEW S, NEW s \in Seq(S), NEW x \in S
  PROVE  /\ ToSet(s) \subseteq S
         /\ x \in ToSet(Append(s, x))
         /\ ToSet(Append(s, x)) = ToSet(s) \cup {x}
         /\ ToSet(<<>>) = {}
<1>1. \A i \in 1..Len(s) : s[i] \in S
  OBVIOUS
<1>2. ToSet(s) = {s[i] : i \in 1..Len(s)}
  BY DEF ToSet
<1>3. /\ DOMAIN Append(s, x) = 1..(Len(s) + 1) /\ Len(s) \in Nat
      /\ Append(s, x)[Len(s) + 1] = x
      /\ \A i \in 1..Len(s) : Append(s, x)[i] = s[i]
  BY AppendProperties
<1>4. ToSet(Append(s, x)) = {Append(s, x)[i] : i \in 1..(Len(s) + 1)}
  BY <1>3 DEF ToSet
<1>5. ToSet(Append(s, x)) \subseteq ToSet(s) \cup {x}
  <2> SUFFICES ASSUME NEW i \in 1..(Len(s) + 1) PROVE Append(s, x)[i] \in ToSet(s) \cup {x}
    BY <1>4
  <2>1. CASE i = Len(s) + 1
    BY <1>3, <2>1
  <2>2. CASE i \in 1..Len(s)
    BY <1>2, <1>3, <2>2
  <2> QED
    BY <1>3, <2>1, <2>2
<1>6. x \in ToSet(Append(s, x))
  BY <1>3, <1>4
<1>7. ToSet(s) \subseteq ToSet(Append(s, x))
  <2> SUFFICES ASSUME NEW i \in 1..Len(s) PROVE s[i] \in ToSet(Append(s, x))
    BY <1>2
  <2>1. i \in 1..(Len(s) + 1) /\ Append(s, x)[i] = s[i]
    BY <1>3
  <2> QED
    BY <1>4, <2>1
<1>8. ToSet(<<>>) = {}
  BY DEF ToSet
<1> QED
  BY <1>1, <1>2, <1>5, <1>6, <1>7, <1>8

(* append(): the message goes to the end of the front buffer, or to a fresh one
   with the old one queued, or is given up because no buffer can hold it. *)
LEMMA AppendMsgCases ==
  ASSUME TypeOK, NEW len \in {1, Cap}, AppendMsg(len)
  PROVE  \/ /\ cur' = Append(cur, sent + 1) /\ UNCHANGED <<full, next, gone>>
         \/ /\ full' = Append(full, cur) /\ next' = NoBuffer
            /\ cur' = <<sent + 1>> /\ gone' = gone
         \/ /\ full' = Append(full, cur) /\ next' = NoBuffer
            /\ cur' = <<>> /\ gone' = gone \cup {sent + 1}
<1>0. cur \in Seq(Message) /\ sent \in Nat /\ Cap \in Nat
  BY LogConstants DEF TypeOK, Buffer
<1>1. /\ cur \in Buffer /\ next \in {NoBuffer, <<>>} /\ sent + 1 \in Message
      /\ sent' = sent + 1 /\ Cap \in Nat /\ len \in Nat /\ Len(cur) \in Nat
  BY <1>0 DEF TypeOK, Buffer, Message, Notice, AppendMsg, Spare
<1>2. CASE Cap - Len(cur) > len
  <2>1. cur' = Append(cur, sent + 1) /\ UNCHANGED <<full, next>>
    BY <1>1, <1>2 DEF AppendMsg
  <2>2. sent' \in ToSet(cur')
    BY <1>1, <2>1, ToSetFacts DEF Buffer
  <2> QED
    BY <2>1, <2>2 DEF AppendMsg
<1>3. CASE ~(Cap - Len(cur) > len)
  <2>1. full' = Append(full, cur) /\ next' = NoBuffer
    BY <1>3 DEF AppendMsg
  <2>2. (IF next # NoBuffer THEN next ELSE <<>>) = <<>>
    BY <1>1
  <2>3. cur' = IF Cap - Len(<<>>) > len THEN Append(<<>>, sent + 1) ELSE <<>>
    BY <1>1, <1>3, <2>2 DEF AppendMsg
  <2>4. CASE Cap - Len(<<>>) > len
    <3>1. cur' = <<sent + 1>>
      BY <2>3, <2>4
    <3>2. sent' \in ToSet(cur')
      BY <1>1, <3>1 DEF ToSet
    <3> QED
      BY <2>1, <3>1, <3>2 DEF AppendMsg
  <2>5. CASE ~(Cap - Len(<<>>) > len)
    <3>1. cur' = <<>>
      BY <2>3, <2>5
    <3>2. sent' \notin ToSet(cur')
      BY <3>1 DEF ToSet
    <3> QED
      BY <1>1, <2>1, <3>1, <3>2 DEF AppendMsg
  <2> QED
    BY <2>4, <2>5
<1> QED
  BY <1>2, <1>3

(* What the writer gives to LogFile::append(), and what it drops, are messages. *)
LEMMA WrittenType ==
  ASSUME TypeOK, done < Len(batch)
  PROVE  batch[done + 1] \in Buffer /\ batch[done + 1] \in Seq(Nat)
<1>1. batch[done + 1] \in Seq(Message)
  BY DEF TypeOK, Buffer
<1> QED
  BY <1>1 DEF Message, Buffer

(* The same of the buffers that are dropped. *)
LEMMA DroppedType ==
  ASSUME TypeOK
  PROVE  UNION {ToSet(batch[i]) : i \in 3..Len(batch)} \in SUBSET Nat
<1>1. ASSUME NEW i \in 3..Len(batch) PROVE ToSet(batch[i]) \subseteq Nat
  <2>1. batch[i] \in Seq(Message)
    BY DEF Buffer, TypeOK
  <2> QED
    BY <2>1 DEF ToSet, Message
<1> QED
  BY <1>1

(* Every step keeps the types and the places of the buffers. *)
LEMMA LogInductive == LogInv /\ [Next]_vars => LogInv'
<1> SUFFICES ASSUME LogInv, [Next]_vars PROVE LogInv'
  OBVIOUS
<1>1. /\ TypeOK /\ SparesInv /\ NoBuffer # <<>> /\ <<>> \in Buffer /\ <<>> \in Seq(Buffer)
      /\ Keep \in Nat /\ Keep > 1
  <2>0. <<>> \in Seq(Nat)
    OBVIOUS
  <2>1. NoBuffer # <<>>
    BY <2>0, LogConstants, Zenon
  <2>2. Keep \in Nat \ {0, 1}
    BY LogConstants
  <2>3. <<>> \in Seq(Message) /\ <<>> \in Seq(Seq(Message))
    OBVIOUS
  <2> QED
    BY <2>1, <2>2, <2>3 DEF LogInv, Buffer
<1>2. ASSUME UNCHANGED disk, now' = now PROVE DiskOK(Disk, now)'
  BY <1>1, <1>2 DEF disk, Disk, TypeOK
<1>3. CASE UNCHANGED vars
  <2>1. DiskOK(Disk, now)'
    BY <1>2, <1>3 DEF vars
  <2> QED
    BY <1>1, <1>3, <2>1 DEF LogInv, TypeOK, SparesInv, vars, buffers
<1>4. CASE Tick
  <2>1. DiskOK(Disk, now')
    BY <1>1, <1>4, DiskAges DEF Tick, TypeOK
  <2>2. Disk' = Disk
    BY <1>4 DEF Tick, disk, Disk
  <2> QED
    BY <1>1, <1>4, <2>1, <2>2 DEF LogInv, TypeOK, SparesInv, Tick, buffers
<1>5. CASE Start
  BY <1>1, <1>2, <1>5 DEF LogInv, TypeOK, SparesInv, Start, buffers
<1>6. CASE Stop
  BY <1>1, <1>2, <1>6 DEF LogInv, TypeOK, SparesInv, Stop, buffers
<1>7. CASE Join
  BY <1>1, <1>2, <1>7 DEF LogInv, TypeOK, SparesInv, Join, buffers
<1>8. CASE Enter
  BY <1>1, <1>2, <1>8 DEF LogInv, TypeOK, SparesInv, Enter, buffers
<1>9. CASE Begin
  <2>1. DiskOK(Disk, now)'
    <3> DEFINE r == RollFile(Disk, now)
    <3>1. DiskOK(r, now) /\ now' = now /\ SetDisk(r)
      BY <1>1, <1>9, RollFlushOK DEF TypeOK, Begin
    <3>2. Disk' = r
      BY <3>1, SetDiskSets DEF DiskOK
    <3> QED
      BY <3>1, <3>2
  <2> QED
    BY <1>1, <1>9, <2>1 DEF LogInv, TypeOK, SparesInv, Begin, Spare
<1>10. CASE FlushFile
  <2>1. DiskOK(Disk, now)'
    <3> DEFINE r == Flush(Disk)
    <3>1. DiskOK(r, now) /\ now' = now /\ SetDisk(r)
      BY <1>1, <1>10, RollFlushOK DEF TypeOK, FlushFile
    <3>2. Disk' = r
      BY <3>1, SetDiskSets DEF DiskOK
    <3> QED
      BY <3>1, <3>2
  <2> QED
    BY <1>1, <1>10, <2>1 DEF LogInv, TypeOK, SparesInv, FlushFile, buffers
<1>11. CASE Recycle
  BY <1>1, <1>2, <1>11 DEF LogInv, TypeOK, SparesInv, Recycle, Spare
<1>12. CASE Collect
  <2>1. /\ batch' \in Seq(Buffer) /\ Len(batch') = Len(full) + 1 /\ Len(full) \in Nat
        /\ full # <<>> => Len(full) >= 1
    BY <1>1, <1>12 DEF TypeOK, Collect
  <2>2. cur' = <<>> /\ nb1' = NoBuffer /\ done' = 0 /\ full' = <<>>
    BY <1>1, <1>12 DEF TypeOK, SparesInv, Collect
  <2>3. /\ next' = <<>> /\ nb2' \in Spare
        /\ nb2' = NoBuffer => Len(batch') >= 2
    BY <1>1, <1>12, <2>1 DEF TypeOK, SparesInv, Collect, Spare
  <2> QED
    BY <1>1, <1>2, <1>12, <2>1, <2>2, <2>3 DEF LogInv, TypeOK, SparesInv, Collect, Spare
<1>13. CASE Drop
  <2>1. /\ batch' = SubSeq(batch, 1, 2) /\ Len(batch) > 2 /\ Len(batch) \in Nat
        /\ batch \in Seq(Buffer)
    BY <1>1, <1>13 DEF TypeOK, SparesInv, Drop
  <2>2. batch' \in Seq(Buffer) /\ Len(batch') = 2
    BY <2>1
  <2>3. DiskOK(Disk', now') /\ gone' \subseteq Message
    <3>1. <<Notice>> \in Seq(Nat)
      BY DEF Notice
    <3>2. UNION {ToSet(batch[i]) : i \in 3..Len(batch)} \in SUBSET Nat
      BY <1>1, DroppedType
    <3> QED
      BY <1>1, <1>13, <3>1, <3>2, OutputFacts DEF TypeOK, Drop
  <2> QED
    BY <1>1, <1>13, <2>1, <2>2, <2>3 DEF LogInv, TypeOK, SparesInv, Drop
<1>14. CASE Write
  <2>1. DiskOK(Disk', now') /\ gone' \subseteq Message
    <3>1. batch[done + 1] \in Seq(Nat)
      BY <1>1, <1>14, WrittenType DEF Write
    <3> QED
      BY <1>1, <1>14, <3>1, OutputFacts DEF TypeOK, Write
  <2> QED
    BY <1>1, <1>14, <2>1 DEF LogInv, TypeOK, SparesInv, Write, buffers
<1>15. ASSUME NEW len \in {1, Cap}, AppendMsg(len) PROVE LogInv'
  <2>1. /\ sent' = sent + 1 /\ sent + 1 \in Message
        /\ UNCHANGED <<running, owner, pc, nb1, nb2, batch, done, disk, now>>
    BY <1>1, <1>15 DEF TypeOK, AppendMsg, Message, Notice
  <2>2. DiskOK(Disk, now)'
    BY <1>2, <2>1
  <2>3. cur' \in Buffer /\ full' \in Seq(Buffer) /\ gone' \subseteq Message
    <3>1. /\ Append(cur, sent + 1) \in Buffer /\ <<sent + 1>> \in Buffer
          /\ Append(full, cur) \in Seq(Buffer)
      BY <1>1, <2>1 DEF TypeOK, Buffer
    <3>2. gone \subseteq Message /\ gone \cup {sent + 1} \subseteq Message
      BY <1>1, <2>1 DEF TypeOK
    <3> QED
      BY <1>1, <1>15, <3>1, <3>2, AppendMsgCases DEF TypeOK
  <2>4. next' \in Spare /\ (next' = NoBuffer => full' # <<>>)
    BY <1>1, <1>15, <2>1, AppendMsgCases DEF TypeOK, SparesInv, Spare
  <2> QED
    BY <1>1, <2>1, <2>2, <2>3, <2>4 DEF LogInv, TypeOK, SparesInv
<1> QED
  BY <1>3, <1>4, <1>5, <1>6, <1>7, <1>8, <1>9, <1>10, <1>11, <1>12, <1>13, <1>14, <1>15
     DEF Next, Writer

(* The invariant holds in every reachable state. *)
THEOREM LogInvariant == Spec => []LogInv
<1>1. Init => LogInv
  <2> SUFFICES ASSUME Init PROVE LogInv
    OBVIOUS
  <2>1. <<>> \in Seq(Message) /\ <<>> \in Seq(Seq(Message)) /\ <<>> \in Seq(Nat)
    OBVIOUS
  <2>2. NoBuffer # <<>>
    BY <2>1, LogConstants, Zenon
  <2>3. DiskOK(Disk, now)
    <3>1. file \in FileType /\ flushed = 0 /\ late = 0 /\ output = <<>> /\ now = 1
      BY DEF Init, FileType
    <3>2. Disk \in DiskType
      BY <2>1, <3>1 DEF Disk, DiskType
    <3>3. file.lastRoll <= now /\ file.startOfPeriod = PeriodOf(file.lastRoll)
      BY PeriodOfZero DEF Init
    <3>4. file.count < CheckEveryN /\ late <= file.count
      BY LogConstants DEF Init
    <3> QED
      BY <3>1, <3>2, <3>3, <3>4, DiskFields DEF DiskOK
  <2>4. TypeOK
    <3>1. cur \in Buffer /\ full \in Seq(Buffer) /\ batch \in Seq(Buffer)
      BY <2>1 DEF Init, Buffer
    <3>2. done \in 0..Len(batch)
      BY DEF Init
    <3>3. next \in Spare /\ nb1 \in Spare /\ nb2 \in Spare
      BY Zenon DEF Init, Spare
    <3> QED
      BY <2>3, <3>1, <3>2, <3>3 DEF Init, TypeOK
  <2> QED
    BY <2>2, <2>4 DEF Init, LogInv, SparesInv
<1> QED
  BY <1>1, LogInductive, PTL DEF Spec

(* threadFunc(): its assertions hold, and append() never dereferences a null
   _currentBuffer, for buffers, batches and bursts of any size. *)
THEOREM SparesAlwaysSuffice == Spec => []SparesSuffice
<1>1. LogInv => SparesSuffice
  <2> SUFFICES ASSUME LogInv PROVE SparesSuffice
    OBVIOUS
  <2>1. TypeOK /\ SparesInv
    BY DEF LogInv
  <2>2. cur # NoBuffer
    <3>1. cur \in Seq(Nat)
      <4>1. cur \in Seq(Message)
        BY <2>1 DEF TypeOK, Buffer
      <4> QED
        BY <4>1 DEF Message
    <3> QED
      BY <3>1, LogConstants, Zenon
  <2>3. pc = "write" => Missing(nb1) + Missing(nb2) <= Len(batch)
    <3> HAVE pc = "write"
    <3>1. Len(batch) \in Nat /\ Len(batch) >= 1 /\ (nb2 = NoBuffer => Len(batch) >= 2)
      BY <2>1 DEF TypeOK, SparesInv
    <3>2. Missing(nb1) \in {0, 1} /\ Missing(nb2) = IF nb2 = NoBuffer THEN 1 ELSE 0
      BY DEF Missing
    <3> QED
      BY <3>1, <3>2
  <2> QED
    BY <2>1, <2>2, <2>3 DEF SparesSuffice, SparesInv
<1> QED
  BY <1>1, LogInvariant, PTL

-----------------------------------------------------------------------------
(* LogFile::append() and rollFile(): whatever the clock does between two
   appends, a file that grows past _rollSize was opened in the current second,
   and fewer than _checkEveryN appends in a row go to a file of an older
   period. *)
THEOREM FilesRollInTime == Spec => RollKeepsUp
<1> DEFINE Sized == file' # file /\ file'.bytes > RollSize => now = file'.lastRoll
           A == Sized /\ late' < CheckEveryN
<1>1. LogInv /\ LogInv' /\ [Next]_vars => [A]_vars
  <2> SUFFICES ASSUME LogInv, LogInv', Next PROVE A
    BY DEF vars
  <2>1. late' < CheckEveryN
    <3>1. DiskOK(Disk', now')
      BY DEF LogInv, TypeOK
    <3>2. /\ Disk'.late = late' /\ Disk'.late <= Disk'.file.count
          /\ Disk'.file.count < CheckEveryN
          /\ Disk'.late \in Nat /\ Disk'.file.count \in Nat
      BY <3>1, DiskFields DEF DiskOK, DiskType, FileType, Disk
    <3>3. CheckEveryN \in Nat
      BY LogConstants
    <3> QED
      BY <3>2, <3>3
  <2>2. TypeOK /\ SparesInv
    BY DEF LogInv
  <2>3. CASE UNCHANGED file
    BY <2>1, <2>3
  <2>4. CASE Begin
    <3> DEFINE r == RollFile(Disk, now)
    <3>1. file' = r.file /\ DiskOK(Disk, now) /\ now \in Nat /\ Disk.file = file
      BY <2>2, <2>4, DiskFields DEF Begin, SetDisk, TypeOK
    <3>2. r.file # file => r.file.bytes = 0
      BY <3>1, RollFlushOK
    <3>3. ~(0 > RollSize)
      BY LogConstants
    <3> QED
      BY <2>1, <3>1, <3>2, <3>3
  <2>5. CASE FlushFile
    <3>1. file' = Flush(Disk).file /\ DiskOK(Disk, now) /\ now \in Nat
      BY <2>2, <2>5 DEF FlushFile, SetDisk, TypeOK
    <3>2. file' = file
      BY <3>1, RollFlushOK, DiskFields
    <3> QED
      BY <2>1, <3>2
  <2>6. CASE Drop
    <3>1. <<Notice>> \in Seq(Nat)
      BY DEF Notice
    <3>2. UNION {ToSet(batch[i]) : i \in 3..Len(batch)} \in SUBSET Nat
      BY <2>2, DroppedType
    <3> QED
      BY <2>1, <2>2, <2>6, <3>1, <3>2, OutputFacts DEF TypeOK, Drop
  <2>7. CASE Write
    <3>1. batch[done + 1] \in Seq(Nat)
      BY <2>2, <2>7, WrittenType DEF Write
    <3> QED
      BY <2>1, <2>2, <2>7, <3>1, OutputFacts DEF TypeOK, Write
  <2>8. ASSUME NEW len \in {1, Cap}, AppendMsg(len) PROVE UNCHANGED file
    BY <2>8 DEF AppendMsg, disk
  <2>9. CASE Tick \/ Start \/ Stop \/ Join \/ Enter \/ Collect \/ Recycle
    BY <2>3, <2>9 DEF Tick, Start, Stop, Join, Enter, Collect, Recycle, disk
  <2> QED
    BY <2>3, <2>4, <2>5, <2>6, <2>7, <2>8, <2>9 DEF Next, Writer
<1> QED
  BY <1>1, LogInvariant, PTL DEF Spec, RollKeepsUp
-----------------------------------------------------------------------------
(* Ordered sequences of buffers. *)
Text == Seq(Nat)

Sorted(b) == \A p, q \in DOMAIN b : p < q /\ b[p] # Notice /\ b[q] # Notice => b[p] < b[q]
Precedes(b, c) == \A m \in Messages(b) : \A n \in Messages(c) : m < n
All(bs) == UNION {Messages(bs[i]) : i \in DOMAIN bs}

(* Ordered in terms of its buffers. *)
LEMMA OrderedParts ==
  ASSUME NEW H \in Seq(Text)
  PROVE  /\ Ordered(H) <=> /\ \A i \in 1..Len(H) : Sorted(H[i])
                           /\ \A i, j \in 1..Len(H) : i < j => Precedes(H[i], H[j])
         /\ \A m : m \in All(H) <=> \E i \in 1..Len(H) : m \in Messages(H[i])
<1>1. DOMAIN H = 1..Len(H)
  OBVIOUS
<1> QED
  BY <1>1, Zenon DEF Ordered, Sorted, Precedes, All

(* Messages of a text are numbers. *)
LEMMA MessagesType ==
  ASSUME NEW b \in Text
  PROVE  /\ Messages(b) \subseteq Nat
         /\ \A m : m \in Messages(b) <=> \E p \in 1..Len(b) : m = b[p] /\ m # Notice
BY DEF Messages, ToSet, Text

(* A message newer than all in a buffer goes to its end. *)
LEMMA AppendSorted ==
  ASSUME NEW b \in Text, NEW m \in Message, Sorted(b), \A x \in Messages(b) : x < m
  PROVE  /\ Append(b, m) \in Text /\ Sorted(Append(b, m))
         /\ \A x : x \in Messages(Append(b, m)) <=> x \in Messages(b) \/ x = m
<1> DEFINE c == Append(b, m)
<1>1. /\ c \in Text /\ Len(c) = Len(b) + 1 /\ Len(b) \in Nat /\ c[Len(b) + 1] = m
      /\ \A p \in 1..Len(b) : c[p] = b[p]
      /\ DOMAIN c = 1..(Len(b) + 1) /\ DOMAIN b = 1..Len(b)
  BY DEF Text, Message
<1> HIDE DEF c
<1>2. \A x : x \in Messages(c) <=> x \in Messages(b) \/ x = m
  <2>1. \A p \in 1..Len(c) : p \in 1..Len(b) \/ p = Len(b) + 1
    BY <1>1
  <2>2. \A p \in 1..Len(b) : p \in 1..Len(c)
    BY <1>1
  <2>3. Len(b) + 1 \in 1..Len(c) /\ m # Notice
    BY <1>1 DEF Message
  <2> QED
    BY <1>1, <2>1, <2>2, <2>3, MessagesType
<1>3. Sorted(c)
  <2> SUFFICES ASSUME NEW p \in 1..(Len(b) + 1), NEW q \in 1..(Len(b) + 1), p < q,
                      c[p] # Notice, c[q] # Notice
               PROVE  c[p] < c[q]
    BY <1>1 DEF Sorted
  <2>1. p \in 1..Len(b) /\ c[p] = b[p]
    BY <1>1
  <2>2. CASE q = Len(b) + 1
    <3>1. b[p] \in Messages(b)
      BY <2>1, MessagesType
    <3> QED
      BY <1>1, <2>1, <2>2, <3>1
  <2>3. CASE q \in 1..Len(b)
    BY <1>1, <2>1, <2>3 DEF Sorted
  <2> QED
    BY <1>1, <2>2, <2>3
<1> QED
  BY <1>1, <1>2, <1>3 DEF c

(* Writing the first n messages of a buffer behind older output. *)
LEMMA JoinSorted ==
  ASSUME NEW o \in Text, NEW b \in Text, NEW n \in 0..Len(b),
         Sorted(o), Sorted(b), Precedes(o, b)
  PROVE  LET c == o \o SubSeq(b, 1, n)
             G == ToSet(SubSeq(b, n + 1, Len(b))) \ {Notice}
         IN  /\ c \in Text /\ Sorted(c)
             /\ Messages(c) \cup G = Messages(o) \cup Messages(b)
             /\ Messages(c) \cap G = {}
             /\ G \subseteq Messages(b)
<1> DEFINE a == SubSeq(b, 1, n)
           t == SubSeq(b, n + 1, Len(b))
           c == o \o a
           G == ToSet(t) \ {Notice}
<1>1. /\ a \in Text /\ Len(a) = n /\ \A p \in 1..n : a[p] = b[p]
      /\ n \in Nat /\ Len(b) \in Nat /\ Len(o) \in Nat /\ n <= Len(b)
  BY DEF Text
<1>2. /\ t \in Text /\ Len(t) = Len(b) - n
      /\ \A p \in 1..(Len(b) - n) : t[p] = b[n + p]
  BY DEF Text
<1> HIDE DEF a, t
<1>3. /\ c \in Text /\ Len(c) = Len(o) + n
      /\ \A p \in 1..Len(o) : c[p] = o[p]
      /\ \A p \in 1..n : c[Len(o) + p] = b[p]
  <2>1. /\ o \o a \in Seq(Nat) /\ Len(o \o a) = Len(o) + Len(a)
        /\ \A i \in 1..(Len(o) + Len(a)) :
             (o \o a)[i] = IF i <= Len(o) THEN o[i] ELSE a[i - Len(o)]
    BY <1>1, ConcatProperties DEF Text
  <2>2. \A p \in 1..Len(o) : p \in 1..(Len(o) + Len(a)) /\ p <= Len(o)
    BY <1>1
  <2>3. \A p \in 1..n : /\ Len(o) + p \in 1..(Len(o) + Len(a)) /\ ~(Len(o) + p <= Len(o))
                        /\ Len(o) + p - Len(o) = p
    BY <1>1
  <2> QED
    BY <1>1, <2>1, <2>2, <2>3 DEF Text
<1> HIDE DEF c
<1>4. \A x : x \in G <=> \E p \in (n + 1)..Len(b) : x = b[p] /\ x # Notice
  <2>1. \A x : x \in G <=> \E p \in 1..(Len(b) - n) : x = t[p] /\ x # Notice
    <3>1. G = Messages(t)
      BY DEF Messages
    <3> HIDE DEF G
    <3> QED
      BY <1>2, <3>1, MessagesType
  <2>2. \A p \in 1..(Len(b) - n) : n + p \in (n + 1)..Len(b)
    BY <1>1
  <2>3. \A p \in (n + 1)..Len(b) : p - n \in 1..(Len(b) - n) /\ n + (p - n) = p
    BY <1>1
  <2> HIDE DEF G
  <2>4. \A x : (\E p \in 1..(Len(b) - n) : x = t[p]) <=> (\E p \in (n + 1)..Len(b) : x = b[p])
    BY <1>2, <2>2, <2>3
  <2> QED
    BY <2>1, <2>4, ZenonT(40)
<1>5. \A x : x \in Messages(c) <=> \/ x \in Messages(o)
                                   \/ \E p \in 1..n : x = b[p] /\ x # Notice
  <2>1. \A p \in 1..Len(c) : p \in 1..Len(o) \/ (p - Len(o) \in 1..n /\ Len(o) + (p - Len(o)) = p)
    BY <1>1, <1>3
  <2>2. \A p \in 1..Len(o) : p \in 1..Len(c)
    BY <1>1, <1>3
  <2>3. \A p \in 1..n : Len(o) + p \in 1..Len(c)
    BY <1>1, <1>3
  <2>4. ASSUME NEW x, x \in Messages(c)
        PROVE  x \in Messages(o) \/ \E p \in 1..n : x = b[p] /\ x # Notice
    <3>1. PICK p \in 1..Len(c) : x = c[p] /\ x # Notice
      BY <1>3, <2>4, MessagesType
    <3>2. CASE p \in 1..Len(o)
      BY <1>3, <3>1, <3>2, MessagesType
    <3>3. CASE p - Len(o) \in 1..n /\ Len(o) + (p - Len(o)) = p
      BY <1>3, <3>1, <3>3
    <3> QED
      BY <2>1, <3>2, <3>3
  <2>5. ASSUME NEW x \in Messages(o) PROVE x \in Messages(c)
    <3>1. PICK p \in 1..Len(o) : x = o[p] /\ x # Notice
      BY MessagesType
    <3> QED
      BY <1>3, <2>2, <3>1, MessagesType
  <2>6. ASSUME NEW p \in 1..n, b[p] # Notice PROVE b[p] \in Messages(c)
    <3>1. Len(o) + p \in 1..Len(c) /\ c[Len(o) + p] = b[p]
      BY <1>3, <2>3
    <3> QED
      BY <1>3, <2>6, <3>1, MessagesType
  <2> QED
    BY <2>4, <2>5, <2>6
<1>6. Sorted(c)
  <2>0. DOMAIN c = 1..Len(c) /\ DOMAIN o = 1..Len(o) /\ DOMAIN b = 1..Len(b)
    BY <1>3 DEF Text
  <2> SUFFICES ASSUME NEW p \in 1..Len(c), NEW q \in 1..Len(c), p < q,
                      c[p] # Notice, c[q] # Notice
               PROVE  c[p] < c[q]
    BY <2>0 DEF Sorted
  <2>1. CASE q <= Len(o)
    <3>1. p \in 1..Len(o) /\ q \in 1..Len(o)
      BY <1>1, <1>3, <2>1
    <3> QED
      BY <1>3, <2>0, <3>1 DEF Sorted
  <2>2. CASE p > Len(o)
    <3>1. p - Len(o) \in 1..n /\ q - Len(o) \in 1..n /\ p - Len(o) < q - Len(o)
      BY <1>1, <1>3, <2>2
    <3>2. c[p] = b[p - Len(o)] /\ c[q] = b[q - Len(o)]
      BY <1>1, <1>3, <3>1
    <3>3. p - Len(o) \in 1..Len(b) /\ q - Len(o) \in 1..Len(b)
      BY <1>1, <3>1
    <3> QED
      BY <2>0, <3>1, <3>2, <3>3 DEF Sorted
  <2>3. CASE p <= Len(o) /\ q > Len(o)
    <3>1. p \in 1..Len(o) /\ c[p] = o[p]
      BY <1>1, <1>3, <2>3
    <3>2. q - Len(o) \in 1..n /\ q - Len(o) \in 1..Len(b) /\ c[q] = b[q - Len(o)]
      BY <1>1, <1>3, <2>3
    <3>3. c[p] \in Messages(o) /\ c[q] \in Messages(b)
      BY <3>1, <3>2, MessagesType
    <3> QED
      BY <3>3 DEF Precedes
  <2> QED
    BY <1>1, <1>3, <2>1, <2>2, <2>3
<1>7. Messages(c) \cap G = {}
  <2> SUFFICES ASSUME NEW x, x \in Messages(c), x \in G PROVE FALSE
    OBVIOUS
  <2>1. PICK q \in (n + 1)..Len(b) : x = b[q] /\ x # Notice
    BY <1>4
  <2>2. q \in 1..Len(b) /\ b[q] \in Nat /\ x \in Messages(b)
    BY <1>1, <2>1, MessagesType DEF Text
  <2>3. CASE x \in Messages(o)
    BY <2>1, <2>2, <2>3 DEF Precedes
  <2>4. ASSUME NEW p \in 1..n, x = b[p] PROVE FALSE
    <3>1. p \in 1..Len(b) /\ p < q /\ DOMAIN b = 1..Len(b)
      BY <1>1, <2>1 DEF Text
    <3>2. b[p] < b[q]
      BY <2>1, <2>2, <2>4, <3>1 DEF Sorted
    <3> QED
      BY <2>1, <2>2, <2>4, <3>2
  <2> QED
    BY <1>5, <2>3, <2>4
<1>8. \A x : x \in Messages(b) <=> \/ \E p \in 1..n : x = b[p] /\ x # Notice
                                   \/ x \in G
  <2>1. \A p \in 1..Len(b) : p \in 1..n \/ p \in (n + 1)..Len(b)
    BY <1>1
  <2>2. \A p \in 1..n : p \in 1..Len(b)
    BY <1>1
  <2>3. \A p \in (n + 1)..Len(b) : p \in 1..Len(b)
    BY <1>1
  <2> QED
    BY <1>4, <2>1, <2>2, <2>3, MessagesType
<1>9. Messages(c) \cup G = Messages(o) \cup Messages(b) /\ G \subseteq Messages(b)
  <2> HIDE DEF G
  <2> QED
    BY <1>5, <1>8
<1> QED
  BY <1>3, <1>6, <1>7, <1>9 DEF a, t, c

(* An empty buffer behind the others changes nothing. *)
LEMMA GrowEmpty ==
  ASSUME NEW H \in Seq(Text), Ordered(H)
  PROVE  LET K == Append(H, <<>>)
         IN  K \in Seq(Text) /\ Ordered(K) /\ All(K) = All(H)
<1> DEFINE K == Append(H, <<>>)
<1>1. <<>> \in Text
  BY DEF Text
<1>2. /\ K \in Seq(Text) /\ Len(K) = Len(H) + 1 /\ Len(H) \in Nat
      /\ \A i \in 1..Len(H) : K[i] = H[i] /\ i \in 1..Len(K)
      /\ K[Len(H) + 1] = <<>>
      /\ \A i \in 1..Len(K) : i \in 1..Len(H) \/ i = Len(H) + 1
  BY <1>1
<1> HIDE DEF K
<1>3. Messages(<<>>) = {} /\ Sorted(<<>>)
  BY DEF Messages, ToSet, Sorted
<1>4. \A i \in 1..Len(K) : Sorted(K[i])
  BY <1>2, <1>3, OrderedParts
<1>5. ASSUME NEW i \in 1..Len(K), NEW j \in 1..Len(K), i < j PROVE Precedes(K[i], K[j])
  <2>1. CASE j = Len(H) + 1
    BY <1>2, <1>3, <2>1 DEF Precedes
  <2>2. CASE j \in 1..Len(H)
    <3>1. i \in 1..Len(H)
      BY <1>2, <1>5, <2>2
    <3> QED
      BY <1>2, <1>5, <2>2, <3>1, OrderedParts
  <2> QED
    BY <1>2, <2>1, <2>2
<1>6. All(K) = All(H)
  <2>1. \A m : m \in All(K) <=> m \in All(H)
    BY <1>2, <1>3, OrderedParts
  <2> QED
    BY <2>1
<1> QED
  BY <1>2, <1>4, <1>5, <1>6, OrderedParts DEF K

(* append(): a new message goes to the end of the last buffer. *)
LEMMA GrowLast ==
  ASSUME NEW H \in Seq(Text), Ordered(H), Len(H) >= 1,
         NEW m \in Message, \A x \in All(H) : x < m,
         NEW K \in Seq(Text), Len(K) = Len(H),
         \A i \in 1..(Len(H) - 1) : K[i] = H[i],
         K[Len(H)] = Append(H[Len(H)], m)
  PROVE  Ordered(K) /\ All(K) = All(H) \cup {m}
<1> DEFINE n == Len(H)
<1>1. /\ n \in Nat /\ n \in 1..n /\ H[n] \in Text
      /\ \A i \in 1..n : i = n \/ i \in 1..(n - 1)
      /\ \A i \in 1..(n - 1) : i \in 1..n
  OBVIOUS
<1> HIDE DEF n
<1>2. /\ \A i \in 1..n : Sorted(H[i]) /\ \A x \in Messages(H[i]) : x < m
      /\ \A i, j \in 1..n : i < j => Precedes(H[i], H[j])
  BY OrderedParts DEF n
<1>3. /\ Sorted(K[n])
      /\ \A x : x \in Messages(K[n]) <=> x \in Messages(H[n]) \/ x = m
  BY <1>1, <1>2, AppendSorted DEF n
<1>4. \A i \in 1..(n - 1) : K[i] = H[i]
  BY DEF n
<1>5. \A i \in 1..n : Sorted(K[i])
  BY <1>1, <1>2, <1>3, <1>4
<1>6. ASSUME NEW i \in 1..n, NEW j \in 1..n, i < j PROVE Precedes(K[i], K[j])
  <2>1. i \in 1..(n - 1) /\ K[i] = H[i]
    BY <1>1, <1>4, <1>6
  <2>2. CASE j = n
    BY <1>2, <1>3, <1>6, <2>1, <2>2 DEF Precedes
  <2>3. CASE j \in 1..(n - 1)
    BY <1>2, <1>4, <1>6, <2>1, <2>3
  <2> QED
    BY <1>1, <2>2, <2>3
<1>7. All(K) = All(H) \cup {m}
  <2>1. \A x : x \in All(K) <=> \E i \in 1..n : x \in Messages(K[i])
    BY OrderedParts DEF n
  <2>2. \A x : x \in All(H) <=> \E i \in 1..n : x \in Messages(H[i])
    BY OrderedParts DEF n
  <2>3. \A i \in 1..n : \A x : x \in Messages(K[i]) <=> x \in Messages(H[i]) \/ (i = n /\ x = m)
    BY <1>1, <1>3, <1>4
  <2>4. \A x : x \in All(K) <=> x \in All(H) \/ x = m
    BY <1>1, <2>1, <2>2, <2>3
  <2> QED
    BY <2>4
<1> QED
  BY <1>5, <1>6, <1>7, OrderedParts DEF n

(* LogFile::append(): the oldest buffer goes behind the output, all but the
   messages G that a stream error keeps from it. *)
LEMMA WriteFirst ==
  ASSUME NEW H \in Seq(Text), Ordered(H), Len(H) >= 2,
         NEW n \in 0..Len(H[2]),
         NEW K \in Seq(Text), Len(K) = Len(H) - 1,
         K[1] = H[1] \o SubSeq(H[2], 1, n),
         \A i \in 2..Len(K) : K[i] = H[i + 1]
  PROVE  LET G == ToSet(SubSeq(H[2], n + 1, Len(H[2]))) \ {Notice}
         IN  Ordered(K) /\ All(K) = All(H) \ G
<1> DEFINE G == ToSet(SubSeq(H[2], n + 1, Len(H[2]))) \ {Notice}
<1>1. /\ Len(H) \in Nat /\ 1 \in 1..Len(H) /\ 2 \in 1..Len(H) /\ H[1] \in Text /\ H[2] \in Text
      /\ 1 \in 1..Len(K)
      /\ \A i \in 1..Len(K) : i = 1 \/ i \in 2..Len(K)
      /\ \A i \in 2..Len(K) : i + 1 \in 1..Len(H) /\ i \in 1..Len(K) /\ 2 < i + 1
      /\ \A i \in 1..Len(H) : i = 1 \/ i = 2 \/ (i - 1 \in 2..Len(K) /\ (i - 1) + 1 = i)
  OBVIOUS
<1>2. /\ \A i \in 1..Len(H) : Sorted(H[i])
      /\ \A i, j \in 1..Len(H) : i < j => Precedes(H[i], H[j])
  BY OrderedParts
<1>3. Precedes(H[1], H[2])
  BY <1>1, <1>2
<1>4. /\ Sorted(K[1])
      /\ Messages(K[1]) \cup G = Messages(H[1]) \cup Messages(H[2])
      /\ Messages(K[1]) \cap G = {}
      /\ G \subseteq Messages(H[2])
  BY <1>1, <1>2, <1>3, JoinSorted
<1> HIDE DEF G
<1>5. \A i \in 1..Len(K) : Sorted(K[i])
  BY <1>1, <1>2, <1>4
<1>6. ASSUME NEW i \in 1..Len(K), NEW j \in 1..Len(K), i < j PROVE Precedes(K[i], K[j])
  <2>1. j \in 2..Len(K) /\ K[j] = H[j + 1] /\ j + 1 \in 1..Len(H)
    BY <1>1, <1>6
  <2>2. CASE i = 1
    <3>1. Precedes(H[1], H[j + 1]) /\ Precedes(H[2], H[j + 1])
      BY <1>1, <1>2, <2>1
    <3> QED
      BY <1>4, <2>1, <2>2, <3>1 DEF Precedes
  <2>3. CASE i \in 2..Len(K)
    <3>1. i + 1 \in 1..Len(H) /\ i + 1 < j + 1 /\ K[i] = H[i + 1]
      BY <1>1, <1>6, <2>3
    <3> QED
      BY <1>2, <2>1, <3>1
  <2> QED
    BY <1>1, <2>2, <2>3
<1>7. \A x : x \in All(K) <=> \E i \in 1..Len(K) : x \in Messages(K[i])
  BY OrderedParts
<1>8. \A x : x \in All(H) <=> \E i \in 1..Len(H) : x \in Messages(H[i])
  BY OrderedParts
<1>9. ASSUME NEW x \in All(K) PROVE x \in All(H) /\ x \notin G
  <2>1. PICK i \in 1..Len(K) : x \in Messages(K[i])
    BY <1>7
  <2>2. CASE i = 1
    BY <1>1, <1>4, <1>8, <2>1, <2>2
  <2>3. CASE i \in 2..Len(K)
    <3>1. x \in Messages(H[i + 1]) /\ i + 1 \in 1..Len(H) /\ 2 < i + 1 /\ H[i + 1] \in Text
      BY <1>1, <2>1, <2>3
    <3>2. Precedes(H[2], H[i + 1])
      BY <1>1, <1>2, <3>1
    <3>3. x \in Nat
      BY <3>1, MessagesType
    <3>4. x \notin G
      BY <1>4, <3>1, <3>2, <3>3 DEF Precedes
    <3> QED
      BY <1>8, <3>1, <3>4
  <2> QED
    BY <1>1, <2>2, <2>3
<1>10. ASSUME NEW x \in All(H), x \notin G PROVE x \in All(K)
  <2>1. PICK i \in 1..Len(H) : x \in Messages(H[i])
    BY <1>8
  <2>2. CASE i = 1 \/ i = 2
    BY <1>1, <1>4, <1>7, <1>10, <2>1, <2>2
  <2>3. CASE i - 1 \in 2..Len(K) /\ (i - 1) + 1 = i
    BY <1>1, <1>7, <2>1, <2>3
  <2> QED
    BY <1>1, <2>2, <2>3
<1>11. All(K) = All(H) \ G
  BY <1>9, <1>10
<1>12. Ordered(K)
  BY <1>5, <1>6, OrderedParts
<1> QED
  BY <1>11, <1>12 DEF G

(* K is H without its buffers 4 to 3 + k; and the messages in those. *)
Cut(H, K, k) == /\ Len(H) >= 3 + k /\ Len(K) = Len(H) - k
                /\ Sorted(K[1]) /\ Messages(K[1]) = Messages(H[1])
                /\ K[2] = H[2] /\ K[3] = H[3]
                /\ \A i \in 4..Len(K) : K[i] = H[i + k]

CutOut(H, k) == UNION {Messages(H[i]) : i \in 4..(3 + k)}

(* threadFunc(): the buffers 4 to 3 + k of the chain are dropped; a notice in
   the output changes none of its messages. *)
LEMMA DropMiddle ==
  ASSUME NEW H \in Seq(Text), Ordered(H), NEW k \in Nat,
         NEW K \in Seq(Text), Cut(H, K, k)
  PROVE  Ordered(K) /\ All(K) = All(H) \ CutOut(H, k)
<1> DEFINE G == CutOut(H, k)
<1>0. /\ Len(H) >= 3 + k /\ Len(K) = Len(H) - k
      /\ Sorted(K[1]) /\ Messages(K[1]) = Messages(H[1]) /\ K[2] = H[2] /\ K[3] = H[3]
      /\ \A i \in 4..Len(K) : K[i] = H[i + k]
      /\ G = UNION {Messages(H[i]) : i \in 4..(3 + k)}
  BY DEF Cut, CutOut
<1> USE <1>0
<1> HIDE DEF G
<1> DEFINE g(i) == IF i <= 3 THEN i ELSE i + k
<1>1. /\ Len(H) \in Nat /\ Len(K) \in Nat /\ 3 \in 1..Len(K)
      /\ \A i \in 1..Len(K) : i = 1 \/ i = 2 \/ i = 3 \/ i \in 4..Len(K)
      /\ \A i \in 1..Len(K) : g(i) \in 1..Len(H) /\ g(i) \notin 4..(3 + k)
      /\ \A i, j \in 1..Len(K) : i < j => g(i) < g(j)
  OBVIOUS
<1>2. \A i \in 1..Len(K) : Messages(K[i]) = Messages(H[g(i)])
  <2> SUFFICES ASSUME NEW i \in 1..Len(K) PROVE Messages(K[i]) = Messages(H[g(i)])
    OBVIOUS
  <2>1. CASE i \in 4..Len(K)
    BY <2>1
  <2>2. CASE i = 1
    BY <2>2
  <2>3. CASE i = 2
    BY <2>3
  <2>4. CASE i = 3
    BY <2>4
  <2> QED
    BY <1>1, <2>1, <2>2, <2>3, <2>4
<1>3. \A i \in 1..Len(H) : i \in 4..(3 + k) \/ \E j \in 1..Len(K) : i = g(j)
  <2> SUFFICES ASSUME NEW i \in 1..Len(H), i \notin 4..(3 + k) PROVE \E j \in 1..Len(K) : i = g(j)
    OBVIOUS
  <2>1. CASE i <= 3
    BY <1>1, <2>1
  <2>2. CASE i > 3 + k
    <3>1. i - k \in 1..Len(K) /\ ~(i - k <= 3) /\ (i - k) + k = i
      BY <1>1, <2>2
    <3> QED
      BY <3>1
  <2> QED
    BY <1>1, <2>1, <2>2
<1>4. /\ \A i \in 1..Len(H) : Sorted(H[i])
      /\ \A i, j \in 1..Len(H) : i < j => Precedes(H[i], H[j])
      /\ \A x : x \in All(H) <=> \E i \in 1..Len(H) : x \in Messages(H[i])
      /\ \A x : x \in All(K) <=> \E i \in 1..Len(K) : x \in Messages(K[i])
  BY OrderedParts
<1>5. \A i \in 1..Len(K) : Sorted(K[i])
  BY <1>1, <1>4
<1> HIDE DEF g
<1>6. ASSUME NEW i \in 1..Len(K), NEW j \in 1..Len(K), i < j PROVE Precedes(K[i], K[j])
  <2>1. Precedes(H[g(i)], H[g(j)])
    BY <1>1, <1>4, <1>6
  <2> QED
    BY <1>2, <2>1 DEF Precedes
<1>7. ASSUME NEW x \in All(K) PROVE x \in All(H) /\ x \notin G
  <2>1. PICK i \in 1..Len(K) : x \in Messages(K[i])
    BY <1>4
  <2>2. x \in Messages(H[g(i)]) /\ g(i) \in 1..Len(H) /\ g(i) \notin 4..(3 + k) /\ g(i) \in Int
    BY <1>1, <1>2, <2>1
  <2>3. ASSUME NEW j \in 4..(3 + k), x \in Messages(H[j]) PROVE FALSE
    <3>1. j \in 1..Len(H) /\ (j < g(i) \/ g(i) < j) /\ H[j] \in Text
      BY <1>1, <2>2
    <3>2. Precedes(H[j], H[g(i)]) \/ Precedes(H[g(i)], H[j])
      BY <1>4, <2>2, <3>1
    <3>3. x \in Nat /\ x < x
      BY <2>2, <2>3, <3>1, <3>2, MessagesType DEF Precedes
    <3> QED
      BY <3>3
  <2> QED
    BY <1>4, <2>2, <2>3
<1>8. ASSUME NEW x \in All(H), x \notin G PROVE x \in All(K)
  <2>1. PICK i \in 1..Len(H) : x \in Messages(H[i])
    BY <1>4
  <2>2. i \notin 4..(3 + k)
    BY <1>8, <2>1
  <2> QED
    BY <1>2, <1>3, <1>4, <2>1, <2>2
<1>9. All(K) = All(H) \ G
  BY <1>7, <1>8
<1> QED
  BY <1>5, <1>6, <1>9, OrderedParts DEF G

-----------------------------------------------------------------------------
(* The elements of a concatenation. *)
LEMMA ConcatAt ==
  ASSUME NEW S, NEW s \in Seq(S), NEW t \in Seq(S)
  PROVE  /\ s \o t \in Seq(S) /\ Len(s \o t) = Len(s) + Len(t)
         /\ \A i \in 1..Len(s) : (s \o t)[i] = s[i]
         /\ \A i \in 1..Len(t) : (s \o t)[Len(s) + i] = t[i]
<1>1. Len(s) \in Nat /\ Len(t) \in Nat
  OBVIOUS
<1>2. /\ s \o t \in Seq(S) /\ Len(s \o t) = Len(s) + Len(t)
      /\ \A i \in 1..(Len(s) + Len(t)) :
           (s \o t)[i] = IF i <= Len(s) THEN s[i] ELSE t[i - Len(s)]
  BY ConcatProperties
<1>3. ASSUME NEW i \in 1..Len(s) PROVE (s \o t)[i] = s[i]
  <2>1. i \in 1..(Len(s) + Len(t)) /\ i <= Len(s)
    BY <1>1
  <2> QED
    BY <1>2, <2>1
<1>4. ASSUME NEW i \in 1..Len(t) PROVE (s \o t)[Len(s) + i] = t[i]
  <2>1. /\ Len(s) + i \in 1..(Len(s) + Len(t)) /\ ~(Len(s) + i <= Len(s))
        /\ Len(s) + i - Len(s) = i
    BY <1>1
  <2> QED
    BY <1>2, <2>1
<1> QED
  BY <1>2, <1>3, <1>4

(* Held as a function of the variables: output, batch, done, full and cur. *)
ChainOf(o, B, d, f, c) == <<o>> \o SubSeq(B, d + 1, Len(B)) \o f \o <<c>>

Links(H, o, B, d, f, c) ==
  LET w == Len(B) - d
  IN  /\ H \in Seq(Text) /\ Len(H) = 2 + w + Len(f) /\ H[1] = o
      /\ \A i \in 1..w : H[1 + i] = B[d + i]
      /\ \A i \in 1..Len(f) : H[1 + w + i] = f[i]
      /\ H[2 + w + Len(f)] = c

(* Where each buffer is in Held. *)
LEMMA Chain ==
  ASSUME NEW o \in Text, NEW B \in Seq(Buffer), NEW d \in 0..Len(B),
         NEW f \in Seq(Buffer), NEW c \in Buffer
  PROVE  Links(ChainOf(o, B, d, f, c), o, B, d, f, c)
<1> DEFINE w == Len(B) - d
           a == SubSeq(B, d + 1, Len(B))
           H1 == <<o>> \o a
           H2 == H1 \o f
           H == H2 \o <<c>>
<1>1. Buffer \subseteq Text
  BY DEF Buffer, Text, Message
<1>2. B \in Seq(Text) /\ f \in Seq(Text) /\ c \in Text /\ Len(f) \in Nat /\ Len(B) \in Nat
      /\ d \in Nat /\ d <= Len(B) /\ w \in Nat
  BY <1>1
<1>3. a \in Seq(Text) /\ Len(a) = w /\ \A i \in 1..w : a[i] = B[d + i]
  BY <1>2
<1>4. <<o>> \in Seq(Text) /\ Len(<<o>>) = 1 /\ <<o>>[1] = o
  OBVIOUS
<1>5. <<c>> \in Seq(Text) /\ Len(<<c>>) = 1 /\ <<c>>[1] = c
  BY <1>2
<1> HIDE DEF a, w
<1>6. /\ H1 \in Seq(Text) /\ Len(H1) = 1 + w /\ H1[1] = o
      /\ \A i \in 1..w : H1[1 + i] = a[i]
  <2>1. /\ H1 \in Seq(Text) /\ Len(H1) = Len(<<o>>) + Len(a)
        /\ \A i \in 1..Len(<<o>>) : H1[i] = <<o>>[i]
        /\ \A i \in 1..Len(a) : H1[Len(<<o>>) + i] = a[i]
    <3>1. <<o>> \in Seq(Text) /\ a \in Seq(Text)
      BY <1>3, <1>4
    <3> QED
      BY <3>1, ConcatAt
  <2>2. 1 \in 1..Len(<<o>>)
    BY <1>4
  <2> HIDE DEF H1
  <2> QED
    BY <1>3, <1>4, <2>1, <2>2
<1> HIDE DEF H1
<1>7. /\ H2 \in Seq(Text) /\ Len(H2) = 1 + w + Len(f)
      /\ \A i \in 1..(1 + w) : H2[i] = H1[i]
      /\ \A i \in 1..Len(f) : H2[1 + w + i] = f[i]
  <2>1. /\ H2 \in Seq(Text) /\ Len(H2) = Len(H1) + Len(f)
        /\ \A i \in 1..Len(H1) : H2[i] = H1[i]
        /\ \A i \in 1..Len(f) : H2[Len(H1) + i] = f[i]
    <3>1. H1 \in Seq(Text) /\ f \in Seq(Text)
      BY <1>2, <1>6
    <3> QED
      BY <3>1, ConcatAt
  <2> HIDE DEF H2
  <2> QED
    BY <1>6, <2>1
<1> HIDE DEF H2
<1>8. /\ H \in Seq(Text) /\ Len(H) = 1 + w + Len(f) + 1
      /\ \A i \in 1..(1 + w + Len(f)) : H[i] = H2[i]
      /\ H[1 + w + Len(f) + 1] = c
  <2>1. /\ H \in Seq(Text) /\ Len(H) = Len(H2) + Len(<<c>>)
        /\ \A i \in 1..Len(H2) : H[i] = H2[i]
        /\ \A i \in 1..Len(<<c>>) : H[Len(H2) + i] = <<c>>[i]
    BY <1>5, <1>7, ConcatAt
  <2> HIDE DEF H
  <2>2. 1 \in 1..Len(<<c>>)
    BY <1>5
  <2> QED
    BY <1>5, <1>7, <2>1, <2>2
<1> HIDE DEF H
<1>9. /\ 2 + w + Len(f) = 1 + w + Len(f) + 1
      /\ 1 \in 1..(1 + w) /\ 1 \in 1..(1 + w + Len(f))
      /\ \A i \in 1..w : 1 + i \in 1..(1 + w) /\ 1 + i \in 1..(1 + w + Len(f))
      /\ \A i \in 1..Len(f) : 1 + w + i \in 1..(1 + w + Len(f))
  BY <1>2
<1>10. Len(H) = 2 + w + Len(f) /\ H[1] = o /\ H[2 + w + Len(f)] = c
  BY <1>6, <1>7, <1>8, <1>9
<1>11. \A i \in 1..w : H[1 + i] = B[d + i]
  <2> SUFFICES ASSUME NEW i \in 1..w PROVE H[1 + i] = B[d + i]
    OBVIOUS
  <2>1. H[1 + i] = H1[1 + i]
    BY <1>7, <1>8, <1>9
  <2> QED
    BY <1>3, <1>6, <2>1
<1>12. \A i \in 1..Len(f) : H[1 + w + i] = f[i]
  BY <1>7, <1>8, <1>9
<1> QED
  BY <1>8, <1>10, <1>11, <1>12 DEF H, H1, H2, a, w, ChainOf, Links

(* Two sequences with the same elements are the same. *)
LEMMA SameSeq ==
  ASSUME NEW S, NEW s \in Seq(S), NEW t \in Seq(S), Len(s) = Len(t),
         \A i \in 1..Len(s) : s[i] = t[i]
  PROVE  s = t
OBVIOUS

(* What LogIntact says, in the terms of the lemmas above. *)
LEMMA IntactMeans == LogIntact <=> All(Held) = (1..sent) \ gone /\ Ordered(Held)
BY DEF LogIntact, All

(* No message is given up before it is appended: without this the message of the
   next append() might already be counted as gone. *)
IntactInv == LogIntact /\ gone \subseteq 1..sent

(* The places of a chain with w buffers to write and f in _buffers. *)
LEMMA Places ==
  ASSUME NEW w \in Nat, NEW f \in Nat, NEW i \in 1..(2 + w + f)
  PROVE  \/ i = 1
         \/ i - 1 \in 1..w /\ 1 + (i - 1) = i
         \/ i - 1 - w \in 1..f /\ 1 + w + (i - 1 - w) = i
         \/ i = 2 + w + f
OBVIOUS

(* append(), the swap, the writing and the recycling of buffers each turn the
   chain of buffers into one that holds the same messages in the same order,
   but for the new message and those given up. *)
LEMMA IntactInductive == LogInv /\ LogInv' /\ IntactInv /\ [Next]_vars => IntactInv'
<1> SUFFICES ASSUME LogInv, LogInv', IntactInv, [Next]_vars PROVE IntactInv'
  OBVIOUS
<1> DEFINE H == Held
           K == Held'
           w == Len(batch) - done
           v == Len(batch') - done'
           Goal == Ordered(K) /\ All(K) = (1..sent') \ gone' /\ gone' \subseteq 1..sent'
<1>1. TypeOK /\ SparesInv /\ output \in Text
  BY DEF LogInv, TypeOK, DiskOK, DiskType, Disk, Text
<1>2. TypeOK' /\ SparesInv' /\ output' \in Text
  BY DEF LogInv, TypeOK, DiskOK, DiskType, Disk, Text
<1>3. /\ H \in Seq(Text) /\ Len(H) = 2 + w + Len(full) /\ H[1] = output
      /\ \A i \in 1..w : H[1 + i] = batch[done + i]
      /\ \A i \in 1..Len(full) : H[1 + w + i] = full[i]
      /\ H[2 + w + Len(full)] = cur
  <2>1. /\ output \in Text /\ batch \in Seq(Buffer) /\ done \in 0..Len(batch)
        /\ full \in Seq(Buffer) /\ cur \in Buffer
    BY <1>1 DEF TypeOK
  <2>2. H = ChainOf(output, batch, done, full, cur)
    BY DEF Held, ChainOf
  <2> HIDE DEF H
  <2>3. Links(H, output, batch, done, full, cur)
    BY <2>1, <2>2, Chain
  <2> QED
    BY <2>3 DEF Links
<1>4. /\ K \in Seq(Text) /\ Len(K) = 2 + v + Len(full') /\ K[1] = output'
      /\ \A i \in 1..v : K[1 + i] = batch'[done' + i]
      /\ \A i \in 1..Len(full') : K[1 + v + i] = full'[i]
      /\ K[2 + v + Len(full')] = cur'
  <2>1. /\ output' \in Text /\ batch' \in Seq(Buffer) /\ done' \in 0..Len(batch')
        /\ full' \in Seq(Buffer) /\ cur' \in Buffer
    BY <1>2 DEF TypeOK
  <2>2. K = ChainOf(output', batch', done', full', cur')
    BY DEF Held, ChainOf
  <2> HIDE DEF K
  <2>3. Links(K, output', batch', done', full', cur')
    BY <2>1, <2>2, Chain
  <2> QED
    BY <2>3 DEF Links
<1>5. Ordered(H) /\ All(H) = (1..sent) \ gone /\ gone \subseteq 1..sent
  BY IntactMeans DEF IntactInv
<1> SUFFICES Goal
  BY DEF IntactInv, LogIntact, All
<1>6. /\ Len(full) \in Nat /\ Len(full') \in Nat /\ sent \in Nat
      /\ Len(batch) \in Nat /\ Len(batch') \in Nat /\ done \in Nat /\ done' \in Nat
      /\ w \in Nat /\ v \in Nat
  BY <1>1, <1>2 DEF TypeOK
<1>7. ASSUME UNCHANGED <<output, batch, done, full, cur, sent, gone>> PROVE Goal
  <2>1. K = H
    BY <1>7 DEF Held
  <2> QED
    BY <1>5, <1>7, <2>1
<1>8. CASE UNCHANGED vars
  BY <1>7, <1>8 DEF vars, buffers, disk
<1>9. CASE Tick \/ Start \/ Stop \/ Join \/ Enter
  BY <1>7, <1>9 DEF Tick, Start, Stop, Join, Enter, buffers, disk
<1>10. CASE Begin
  <2>1. output' = output
    BY <1>1, <1>10, RollFlushOK, DiskFields DEF Begin, SetDisk, TypeOK
  <2> QED
    BY <1>7, <1>10, <2>1 DEF Begin
<1>11. CASE FlushFile
  <2>1. output' = output
    BY <1>1, <1>11, RollFlushOK, DiskFields DEF FlushFile, SetDisk, TypeOK
  <2> QED
    BY <1>7, <1>11, <2>1 DEF FlushFile, buffers
<1> DEFINE E == Append(H, <<>>)
<1>12. /\ E \in Seq(Text) /\ Ordered(E) /\ All(E) = All(H)
       /\ Len(E) = Len(H) + 1 /\ E[Len(H) + 1] = <<>>
       /\ \A i \in 1..Len(H) : E[i] = H[i]
  <2>1. <<>> \in Text
    BY DEF Text
  <2> QED
    BY <1>3, <1>5, <2>1, GrowEmpty
<1> HIDE DEF H, K, w, v, E
<1>13. CASE Recycle
  <2>1. /\ UNCHANGED <<output, full, cur, sent, gone>> /\ w = 0 /\ v = 0
    BY <1>6, <1>13 DEF Recycle, disk, w, v
  <2>2. \A i \in 1..Len(H) : K[i] = H[i]
    <3> SUFFICES ASSUME NEW i \in 1..Len(H) PROVE K[i] = H[i]
      OBVIOUS
    <3>1. CASE i = 1
      BY <1>3, <1>4, <2>1, <3>1
    <3>2. CASE i - 1 \in 1..Len(full) /\ 1 + 0 + (i - 1) = i
      <4>1. K[1 + v + (i - 1)] = full'[i - 1] /\ H[1 + w + (i - 1)] = full[i - 1]
        BY <1>3, <1>4, <2>1, <3>2
      <4> QED
        BY <2>1, <3>2, <4>1
    <3>3. CASE i = 2 + w + Len(full)
      BY <1>3, <1>4, <2>1, <3>3
    <3> QED
      BY <1>3, <1>6, <2>1, <3>1, <3>2, <3>3
  <2>3. K = H
    BY <1>3, <1>4, <2>1, <2>2, SameSeq
  <2> QED
    BY <1>5, <2>1, <2>3
<1>14. ASSUME Len(K) = Len(H) + 1, \A i \in 1..Len(H) : K[i] = H[i], cur' = <<>>
       PROVE  K = E
  <2>1. K[Len(H) + 1] = <<>>
    BY <1>3, <1>4, <1>6, <1>14
  <2>2. \A i \in 1..Len(K) : i \in 1..Len(H) \/ i = Len(H) + 1
    <3>1. Len(H) \in Nat /\ Len(K) = Len(H) + 1
      BY <1>3, <1>6, <1>14
    <3> QED
      BY <3>1
  <2>3. \A i \in 1..Len(K) : K[i] = E[i]
    BY <1>12, <1>14, <2>1, <2>2
  <2> QED
    BY <1>4, <1>12, <1>14, <2>3, SameSeq
<1>15. CASE Collect
  <2>1. /\ batch' = Append(full, cur) /\ full' = <<>> /\ cur' = <<>> /\ done' = done
        /\ batch = <<>> /\ UNCHANGED <<output, sent, gone>>
    BY <1>1, <1>15 DEF Collect, SparesInv, disk
  <2>2. done = 0 /\ w = 0 /\ v = Len(full) + 1 /\ Len(full') = 0
    BY <1>1, <1>6, <2>1 DEF w, v, TypeOK
  <2>3. /\ batch'[Len(full) + 1] = cur
        /\ \A i \in 1..Len(full) : batch'[i] = full[i]
    BY <1>1, <2>1 DEF TypeOK
  <2>4. \A i \in 1..Len(H) : K[i] = H[i]
    <3> SUFFICES ASSUME NEW i \in 1..Len(H) PROVE K[i] = H[i]
      OBVIOUS
    <3>1. CASE i = 1
      BY <1>3, <1>4, <2>1, <3>1
    <3>2. CASE i - 1 \in 1..Len(full) /\ 1 + (i - 1) = i
      <4>1. i - 1 \in 1..v /\ 0 + (i - 1) = i - 1 /\ 1 + 0 + (i - 1) = i
        BY <1>6, <2>2, <3>2
      <4>2. K[1 + (i - 1)] = batch'[done' + (i - 1)] /\ H[1 + w + (i - 1)] = full[i - 1]
        BY <1>3, <1>4, <3>2, <4>1
      <4> QED
        BY <2>1, <2>2, <2>3, <3>2, <4>1, <4>2
    <3>3. CASE i = 2 + Len(full)
      <4>1. v \in 1..v /\ 1 + v = i /\ 2 + w + Len(full) = i /\ 0 + v = v
        BY <1>6, <2>2, <3>3
      <4>2. K[1 + v] = batch'[done' + v]
        BY <1>4, <4>1
      <4> QED
        BY <1>3, <2>1, <2>2, <2>3, <4>1, <4>2
    <3> QED
      BY <1>3, <1>6, <2>2, <3>1, <3>2, <3>3
  <2>5. K = E
    BY <1>3, <1>4, <1>6, <1>14, <2>1, <2>2, <2>4
  <2> QED
    BY <1>5, <1>12, <2>1, <2>5
<1>16. ASSUME NEW len \in {1, Cap}, AppendMsg(len) PROVE Goal
  <2> DEFINE m == sent + 1
  <2>1. /\ sent' = m /\ m \in Message /\ v = w
        /\ UNCHANGED <<batch, done, output>>
    BY <1>1, <1>16 DEF AppendMsg, Message, Notice, TypeOK, disk, v, w
  <2>2. 1..m = (1..sent) \cup {m} /\ m \notin 1..sent
    BY <1>6
  <2>3. \A x \in All(H) : x < m
    BY <1>5, <1>6
  <2> HIDE DEF m
  <2>4. ASSUME full' = Append(full, cur) PROVE Len(K) = Len(H) + 1 /\ \A i \in 1..Len(H) : K[i] = H[i]
    <3>1. Len(full') = Len(full) + 1 /\ full'[Len(full) + 1] = cur
          /\ \A i \in 1..Len(full) : full'[i] = full[i] /\ i \in 1..Len(full')
      BY <1>1, <2>4 DEF TypeOK
    <3>2. Len(full) + 1 \in 1..Len(full') /\ 1 + v + (Len(full) + 1) = 2 + w + Len(full)
      <4>1. Len(full') = Len(full) + 1
        BY <3>1
      <4>2. v = w
        BY <2>1
      <4> QED
        BY <1>6, <4>1, <4>2
    <3>3. Len(K) = Len(H) + 1
      BY <1>3, <1>4, <1>6, <2>1, <3>1
    <3> SUFFICES ASSUME NEW i \in 1..Len(H) PROVE K[i] = H[i]
      BY <3>3
    <3>4. CASE i = 1
      BY <1>3, <1>4, <2>1, <3>4
    <3>5. CASE i - 1 \in 1..w /\ 1 + (i - 1) = i
      <4>1. K[1 + (i - 1)] = batch'[done' + (i - 1)] /\ H[1 + (i - 1)] = batch[done + (i - 1)]
        BY <1>3, <1>4, <2>1, <3>5
      <4> QED
        BY <2>1, <3>5, <4>1
    <3>6. CASE i - 1 - w \in 1..Len(full) /\ 1 + w + (i - 1 - w) = i
      <4>1. K[1 + v + (i - 1 - w)] = full'[i - 1 - w] /\ H[1 + w + (i - 1 - w)] = full[i - 1 - w]
        BY <1>3, <1>4, <3>1, <3>6
      <4> QED
        BY <2>1, <3>1, <3>6, <4>1
    <3>7. CASE i = 2 + w + Len(full)
      <4>1. K[1 + v + (Len(full) + 1)] = full'[Len(full) + 1]
        BY <1>4, <3>2
      <4> QED
        BY <1>3, <3>1, <3>2, <3>7, <4>1
    <3>8. i \in 1..(2 + w + Len(full))
      BY <1>3
    <3> QED
      BY <1>6, <3>4, <3>5, <3>6, <3>7, <3>8, Places
  <2>5. CASE cur' = Append(cur, m) /\ UNCHANGED <<full, next, gone>>
    <3>1. Len(K) = Len(H) /\ Len(H) >= 1 /\ Len(H) = 2 + w + Len(full)
      BY <1>3, <1>4, <1>6, <2>1, <2>5
    <3>2. K[Len(H)] = Append(H[Len(H)], m)
      BY <1>3, <1>4, <2>1, <2>5, <3>1
    <3>3. \A i \in 1..(Len(H) - 1) : K[i] = H[i]
      <4> SUFFICES ASSUME NEW i \in 1..(Len(H) - 1) PROVE K[i] = H[i]
        OBVIOUS
      <4>1. i \in 1..(2 + w + Len(full)) /\ i # 2 + w + Len(full)
        BY <1>6, <3>1
      <4>2. \/ i = 1
            \/ i - 1 \in 1..w /\ 1 + (i - 1) = i
            \/ i - 1 - w \in 1..Len(full) /\ 1 + w + (i - 1 - w) = i
        BY <1>6, <4>1, Places
      <4>3. CASE i = 1
        BY <1>3, <1>4, <2>1, <4>3
      <4>4. CASE i - 1 \in 1..w /\ 1 + (i - 1) = i
        <5>1. K[1 + (i - 1)] = batch'[done' + (i - 1)] /\ H[1 + (i - 1)] = batch[done + (i - 1)]
          BY <1>3, <1>4, <2>1, <4>4
        <5> QED
          BY <2>1, <4>4, <5>1
      <4>5. CASE i - 1 - w \in 1..Len(full) /\ 1 + w + (i - 1 - w) = i
        <5>1. K[1 + v + (i - 1 - w)] = full'[i - 1 - w] /\ H[1 + w + (i - 1 - w)] = full[i - 1 - w]
          BY <1>3, <1>4, <2>5, <4>5
        <5> QED
          BY <2>1, <2>5, <4>5, <5>1
      <4> QED
        BY <4>2, <4>3, <4>4, <4>5
    <3>4. Ordered(K) /\ All(K) = All(H) \cup {m}
      BY <1>3, <1>4, <1>5, <2>1, <2>3, <3>1, <3>2, <3>3, GrowLast
    <3> QED
      BY <1>5, <2>1, <2>2, <2>5, <3>4
  <2>6. CASE full' = Append(full, cur) /\ cur' = <<m>> /\ gone' = gone
    <3>1. Len(K) = Len(E) /\ Len(E) = Len(H) + 1 /\ Len(H) \in Nat
      BY <1>3, <1>12, <2>4, <2>6
    <3>2. \A i \in 1..(Len(E) - 1) : K[i] = E[i]
      BY <1>12, <2>4, <2>6, <3>1
    <3>3. K[Len(E)] = Append(E[Len(E)], m)
      <4>1. K[Len(K)] = <<m>>
        BY <1>4, <2>6
      <4> QED
        BY <1>12, <3>1, <4>1
    <3>4. \A x \in All(E) : x < m
      BY <1>12, <2>3
    <3>5. Ordered(K) /\ All(K) = All(E) \cup {m}
      <4>1. K \in Seq(Text) /\ E \in Seq(Text) /\ Ordered(E) /\ m \in Message
        BY <1>4, <1>12, <2>1
      <4>2. Len(E) >= 1
        BY <3>1
      <4> QED
        BY <3>1, <3>2, <3>3, <3>4, <4>1, <4>2, GrowLast
    <3> QED
      BY <1>5, <1>12, <2>1, <2>2, <2>6, <3>5
  <2>7. CASE full' = Append(full, cur) /\ cur' = <<>> /\ gone' = gone \cup {m}
    <3>1. K = E
      BY <1>14, <2>4, <2>7
    <3> QED
      BY <1>5, <1>12, <2>1, <2>2, <2>7, <3>1
  <2> QED
    BY <1>1, <1>16, <2>5, <2>6, <2>7, AppendMsgCases DEF m
<1>17. CASE Write
  <2> DEFINE b == batch[done + 1]
  <2>1. /\ b \in Seq(Nat) /\ w >= 1 /\ v = w - 1 /\ sent' = sent
        /\ UNCHANGED <<batch, full, cur>> /\ done' = done + 1
    BY <1>1, <1>6, <1>17, WrittenType DEF Write, buffers, w, v
  <2>2. PICK n \in 0..Len(b) :
          /\ output' = output \o SubSeq(b, 1, n)
          /\ gone' = (gone \cup ToSet(SubSeq(b, n + 1, Len(b))) \cup {}) \ {Notice}
    BY <1>1, <1>17, <2>1, OutputFacts DEF TypeOK, Write
  <2>3. /\ Len(H) >= 2 /\ Len(K) = Len(H) - 1 /\ 1 \in 1..w /\ H[2] = b
    <3>1. 1 \in 1..w /\ 1 + 1 = 2
      BY <1>6, <2>1
    <3>2. H[1 + 1] = batch[done + 1]
      BY <1>3, <3>1
    <3> QED
      BY <1>3, <1>4, <1>6, <2>1, <3>1, <3>2
  <2> HIDE DEF b
  <2>4. K[1] = H[1] \o SubSeq(H[2], 1, n)
    BY <1>3, <1>4, <2>2, <2>3
  <2>5. \A i \in 2..Len(K) : K[i] = H[i + 1]
    <3> SUFFICES ASSUME NEW i \in 2..Len(K) PROVE K[i] = H[i + 1]
      OBVIOUS
    <3>1. i \in 1..(2 + v + Len(full)) /\ i # 1
      BY <1>4, <1>6, <2>1
    <3>2. CASE i - 1 \in 1..v /\ 1 + (i - 1) = i
      <4>1. /\ i \in 1..w /\ (done + 1) + (i - 1) = done + i /\ 1 + i = i + 1
        BY <1>6, <2>1, <3>2
      <4>2. K[1 + (i - 1)] = batch'[done' + (i - 1)] /\ H[1 + i] = batch[done + i]
        BY <1>3, <1>4, <3>2, <4>1
      <4> QED
        BY <2>1, <3>2, <4>1, <4>2
    <3>3. CASE i - 1 - v \in 1..Len(full) /\ 1 + v + (i - 1 - v) = i
      <4>1. 1 + w + (i - 1 - v) = i + 1
        BY <1>6, <2>1, <3>3
      <4>2. K[1 + v + (i - 1 - v)] = full'[i - 1 - v] /\ H[1 + w + (i - 1 - v)] = full[i - 1 - v]
        BY <1>3, <1>4, <2>1, <3>3
      <4> QED
        BY <2>1, <3>3, <4>1, <4>2
    <3>4. CASE i = 2 + v + Len(full)
      <4>1. 2 + w + Len(full) = i + 1
        BY <1>6, <2>1, <3>4
      <4> QED
        BY <1>3, <1>4, <2>1, <3>4, <4>1
    <3> QED
      BY <1>6, <3>1, <3>2, <3>3, <3>4, Places
  <2> DEFINE G == ToSet(SubSeq(H[2], n + 1, Len(H[2]))) \ {Notice}
  <2>6. Ordered(K) /\ All(K) = All(H) \ G
    BY <1>3, <1>4, <1>5, <2>2, <2>3, <2>4, <2>5, WriteFirst
  <2>7. gone' = gone \cup G
    BY <1>1, <2>2, <2>3 DEF TypeOK, Message
  <2>8. G \subseteq All(H)
    <3>1. Precedes(H[1], H[2]) /\ Sorted(H[1]) /\ Sorted(H[2]) /\ H[1] \in Text /\ H[2] \in Text
          /\ 2 \in 1..Len(H)
      BY <1>3, <1>5, <2>3, OrderedParts
    <3>2. G \subseteq Messages(H[2])
      BY <2>2, <2>3, <3>1, JoinSorted
    <3> QED
      BY <1>3, <3>1, <3>2, OrderedParts
  <2> HIDE DEF G
  <2> QED
    BY <1>5, <2>1, <2>6, <2>7, <2>8
<1>18. CASE Drop
  <2> DEFINE k == Len(batch) - 2
             N == <<Notice>>
             D == UNION {ToSet(batch[i]) : i \in 3..Len(batch)}
             G == CutOut(H, k)
  <2>1. /\ N \in Text /\ Len(N) = 1 /\ N[1] = Notice
    BY DEF Text, Notice
  <2>2. D \in SUBSET Nat
    BY <1>1, DroppedType
  <2>3. /\ Len(batch) > 2 /\ done = 0 /\ batch' = SubSeq(batch, 1, 2)
        /\ UNCHANGED <<full, cur, done, sent>>
    BY <1>1, <1>18 DEF Drop, SparesInv
  <2>4. PICK n \in 0..Len(N) :
          /\ output' = output \o SubSeq(N, 1, n)
          /\ gone' = (gone \cup ToSet(SubSeq(N, n + 1, Len(N))) \cup D) \ {Notice}
    BY <1>1, <1>18, <2>1, <2>2, OutputFacts DEF TypeOK, Drop, Text
  <2>5. /\ k \in Nat /\ k >= 1 /\ w = 2 + k /\ v = 2
        /\ Len(batch') = 2 /\ batch'[1] = batch[1] /\ batch'[2] = batch[2]
    BY <1>1, <1>6, <2>3 DEF TypeOK, w, v
  <2> HIDE DEF N, D, k
  <2>6. Messages(N) = {} /\ Sorted(N)
    <3>1. \A p \in 1..Len(N) : N[p] = Notice
      BY <2>1
    <3>2. DOMAIN N = 1..Len(N)
      BY <2>1 DEF Text
    <3> QED
      BY <2>1, <3>1, <3>2, MessagesType DEF Sorted
  <2>7. /\ Sorted(K[1]) /\ Messages(K[1]) = Messages(H[1])
        /\ ToSet(SubSeq(N, n + 1, Len(N))) \ {Notice} = {}
    <3>1. H[1] \in Text /\ Sorted(H[1])
      <4>1. 1 \in 1..Len(H)
        BY <1>3, <1>6
      <4> QED
        BY <1>3, <1>5, <4>1, OrderedParts
    <3>2. Precedes(H[1], N)
      BY <2>6 DEF Precedes
    <3>3. K[1] = H[1] \o SubSeq(N, 1, n)
      BY <1>3, <1>4, <2>4
    <3> QED
      <4> DEFINE g == ToSet(SubSeq(N, n + 1, Len(N))) \ {Notice}
                 c == H[1] \o SubSeq(N, 1, n)
      <4>1. /\ Sorted(c) /\ Messages(c) \cup g = Messages(H[1]) \cup Messages(N)
            /\ g \subseteq Messages(N)
        BY <2>1, <2>4, <2>6, <3>1, <3>2, JoinSorted
      <4> HIDE DEF g, c
      <4>2. g = {} /\ Messages(c) = Messages(H[1])
        BY <2>6, <4>1
      <4> QED
        BY <3>3, <4>1, <4>2 DEF g, c
  <2>8. /\ Len(H) >= 3 + k /\ Len(K) = Len(H) - k
        /\ 1 \in 1..v /\ 2 \in 1..v /\ 1 \in 1..w /\ 2 \in 1..w
    BY <1>3, <1>4, <1>6, <2>3, <2>5
  <2>9. K[2] = H[2] /\ K[3] = H[3]
    <3>1. K[1 + 1] = batch'[done' + 1] /\ K[1 + 2] = batch'[done' + 2]
      BY <1>4, <2>8
    <3>2. H[1 + 1] = batch[done + 1] /\ H[1 + 2] = batch[done + 2]
      BY <1>3, <2>8
    <3> QED
      BY <2>3, <2>5, <3>1, <3>2
  <2>10. \A i \in 4..Len(K) : K[i] = H[i + k]
    <3> SUFFICES ASSUME NEW i \in 4..Len(K) PROVE K[i] = H[i + k]
      OBVIOUS
    <3>1. CASE i = 4 + Len(full)
      BY <1>3, <1>4, <1>6, <2>3, <2>5, <3>1
    <3>2. CASE i - 3 \in 1..Len(full)
      <4>1. K[1 + v + (i - 3)] = full[i - 3] /\ H[1 + w + (i - 3)] = full[i - 3]
        BY <1>3, <1>4, <2>3, <3>2
      <4>2. 1 + v + (i - 3) = i /\ 1 + w + (i - 3) = i + k
        BY <1>6, <2>5
      <4> QED
        BY <4>1, <4>2
    <3> QED
      BY <1>4, <1>6, <2>3, <2>5, <3>1, <3>2
  <2>11. Ordered(K) /\ All(K) = All(H) \ G
    <3>1. K \in Seq(Text) /\ H \in Seq(Text) /\ Ordered(H) /\ k \in Nat
      BY <1>3, <1>4, <1>5, <2>5
    <3>2. Cut(H, K, k)
      BY <2>7, <2>8, <2>9, <2>10 DEF Cut
    <3> QED
      BY <3>1, <3>2, DropMiddle
  <2>12. G = D \ {Notice}
    <3>1. \A i \in 3..Len(batch) : i + 1 \in 4..(3 + k) /\ i \in 1..w /\ 1 + i = i + 1
      BY <1>6, <2>5 DEF k
    <3>2. \A i \in 4..(3 + k) : i - 1 \in 3..Len(batch) /\ i - 1 + 1 = i
      BY <1>6, <2>5 DEF k
    <3>3. \A i \in 3..Len(batch) : H[i + 1] = batch[i]
      <4> SUFFICES ASSUME NEW i \in 3..Len(batch) PROVE H[i + 1] = batch[i]
        OBVIOUS
      <4>1. H[1 + i] = batch[done + i] /\ 0 + i = i
        BY <1>3, <3>1
      <4> QED
        BY <2>3, <3>1, <4>1
    <3>4. ASSUME NEW x \in G PROVE x \in D \ {Notice}
      <4>1. PICK i \in 4..(3 + k) : x \in Messages(H[i])
        BY DEF CutOut
      <4>2. i - 1 \in 3..Len(batch) /\ x \in Messages(batch[i - 1])
        BY <3>2, <3>3, <4>1
      <4> QED
        BY <4>2 DEF D, Messages
    <3>5. ASSUME NEW x \in D, x # Notice PROVE x \in G
      <4>1. PICK i \in 3..Len(batch) : x \in ToSet(batch[i])
        BY DEF D
      <4>2. i + 1 \in 4..(3 + k) /\ x \in Messages(H[i + 1])
        BY <3>1, <3>3, <3>5, <4>1 DEF Messages
      <4> QED
        BY <4>2 DEF CutOut
    <3> QED
      BY <3>4, <3>5
  <2>13. G \subseteq All(H)
    <3>1. \A i \in 4..(3 + k) : i \in 1..Len(H)
      BY <1>3, <1>6, <2>5, <2>8
    <3>2. \A x : x \in All(H) <=> \E i \in 1..Len(H) : x \in Messages(H[i])
      BY <1>3, OrderedParts
    <3> QED
      BY <3>1, <3>2 DEF CutOut
  <2> HIDE DEF G
  <2>14. gone' = gone \cup G
    BY <1>1, <2>4, <2>7, <2>12 DEF TypeOK, Message
  <2> QED
    BY <1>5, <2>3, <2>11, <2>13, <2>14
<1> QED
  BY <1>8, <1>9, <1>10, <1>11, <1>13, <1>15, <1>16, <1>17, <1>18 DEF Next, Writer

(* Whatever the sizes of buffers, batches and files and whatever writes fail,
   no message is lost, duplicated or reordered between append() and the disk
   but those given up: too long, dropped in a burst, or met by a stream error. *)
THEOREM LogStaysIntact == Spec => []LogIntact
<1>1. Init => IntactInv
  <2> SUFFICES ASSUME Init PROVE IntactInv
    OBVIOUS
  <2>1. /\ output = <<>> /\ batch = <<>> /\ done = 0 /\ full = <<>> /\ cur = <<>>
        /\ sent = 0 /\ gone = {}
    BY DEF Init
  <2>2. <<>> \in Text /\ <<>> \in Seq(Text) /\ <<>> \in Seq(Buffer) /\ <<>> \in Buffer
        /\ 0 \in 0..Len(<<>>)
    BY DEF Text, Buffer
  <2>3. Held = ChainOf(<<>>, <<>>, 0, <<>>, <<>>)
    BY <2>1 DEF Held, ChainOf
  <2>4. Links(Held, <<>>, <<>>, 0, <<>>, <<>>)
    BY <2>2, <2>3, Chain
  <2> DEFINE H == Held
  <2> HIDE DEF H
  <2>5. H \in Seq(Text) /\ Len(H) = 2 /\ H[1] = <<>> /\ H[2] = <<>>
    BY <2>4 DEF Links, H
  <2>6. \A i \in 1..Len(H) : H[i] = <<>>
    BY <2>5
  <2>7. Messages(<<>>) = {} /\ Sorted(<<>>)
    BY DEF Messages, ToSet, Sorted
  <2>8. All(H) = {} /\ Ordered(H)
    BY <2>5, <2>6, <2>7, OrderedParts DEF Precedes
  <2> QED
    BY <2>1, <2>8, IntactMeans DEF IntactInv, H
<1>2. IntactInv => LogIntact
  BY DEF IntactInv
<1> QED
  BY <1>1, <1>2, LogInvariant, IntactInductive, PTL DEF Spec
=============================================================================
