------------------------------- MODULE Logger -------------------------------
(* The log front end: netlib/base/Logging (a line is stamped when the       *)
(* Logger is built and output when it is destroyed, the stamp cached per    *)
(* thread and second) and LogStream (the line's buffer), on a clock that    *)
(* walks through the calendar. The clock checks Date and TimeZone on each   *)
(* day it passes.                                                           *)
EXTENDS TimeZone, SequencesExt, FiniteSets

CONSTANTS
  Threads,
  NoZone, NoLine,
  Zones,      \* the zones setTimeZone() is given
  Years,      \* bound: the years on whose first day the clock may start
  Ends,       \* bound: the times <<days since the epoch, second>> at which it stops
  Secs,       \* bound: the seconds of the day the clock stops at
  LogTimes,   \* bound: the times <<days since the epoch, second>> at which threads use the log
  Room,       \* cSmallBuffer
  NullText,   \* a null const char*
  Messages,   \* what is logged: level, length of a text, a number and a pointer after it
  MaxLines    \* bound: Logger objects built

TRACE == 0
DEBUG == 1
INFO == 2
WARN == 3
FATAL == 5

(* The local time type in force after transition k of zone z.               *)
TypeAfter(z, k) == IF k = 0 THEN z.types[1] ELSE z.types[z.trans[k].idx]

(* Two changes are more than an hour apart, for any clock that shows them.  *)
HourApart(a, b) == a.gmt + 3600 < b.gmt /\ a.local + 3600 < b.local

(* A zone as readTimeZoneFile() leaves it when the file holds a type and    *)
(* its changes in the order of time.                                        *)
ZoneTable(z) ==
  /\ z.types \in Seq([offset : Int, dst : BOOLEAN]) /\ z.types # <<>>
  /\ z.trans \in Seq([gmt : Int, local : Int, idx : DOMAIN z.types])
  /\ \A i \in DOMAIN z.trans : /\ z.trans[i].local = z.trans[i].gmt + TypeAfter(z, i).offset
                               /\ i > 1 => HourApart(z.trans[i - 1], z.trans[i])

ASSUME LoggerConstants ==
  /\ 0 \in Secs /\ Secs \subseteq 0..(SecondsPerDay - 1)
  /\ \A y \in Years : y \in Int /\ y > -4713    \* Julian days are not negative
  /\ \A m \in Messages : m.level \in 0..FATAL /\ m.text \in Nat \cup {NullText}
                        /\ m.number \in Int /\ m.pointer \in Nat
  /\ Room \in Nat
  /\ <<0, 0>> \notin LogTimes    \* t_lastSecond starts as this second: its stamp is empty
  /\ NoZone \notin Zones
  /\ \A z \in Zones : ZoneTable(z)

VARIABLES
  date, days, sec,  \* the clock: calendar date, the same in days since 1970, second of the day
  zone,             \* g_logTimeZone
  level,            \* g_logLevel
  cache,            \* t_lastSecond and t_time of each thread
  held,             \* the Logger object of each thread, not yet destroyed
  line,             \* the last line given to g_outPut
  aborted,
  built,            \* history: Logger objects built
  switched          \* history: setTimeZone() was called during this second

clock == <<date, days, sec>>
vars == <<clock, zone, level, cache, held, line, aborted, built, switched>>

Now == days * SecondsPerDay + sec

-----------------------------------------------------------------------------
(* LogStream. A stream is the room used and the pieces that fitted.         *)

Digit(lsd) == IF lsd < 0 THEN -lsd ELSE lsd    \* zero[lsd] of "9876543210123456789"

(* The loop of convert() and convertHex(): at least one digit, the least    *)
(* significant first, and then reversed.                                    *)
DigitsIn(base) ==
  LET digits[i \in Int] == Append(IF CDiv(i, base) = 0 THEN <<>> ELSE digits[CDiv(i, base)],
                                  Digit(CMod(i, base)))
  IN  digits

Convert(v) == [neg |-> v < 0, digits |-> DigitsIn(10)[v]]

ConvertHex(v) == [neg |-> FALSE, digits |-> DigitsIn(16)[v]]

Length(n) == Len(n.digits) + (IF n.neg THEN 1 ELSE 0)

ASSUME IntegersHave64Bits ==
  \A m \in Messages : Length(Convert(m.number)) <= 20 /\ Length(ConvertHex(m.pointer)) <= 16

(* FixedBuffer::add() after a piece whose bytes were written up to end.     *)
Add(s, name, len, end) ==
  [used |-> s.used + len, pieces |-> Append(s.pieces, name), top |-> Max({s.top, end})]

(* FixedBuffer::append(), which ignores what does not fit, as the text      *)
(* operators << use it.                                                     *)
PutText(s, name, len) ==
  IF Room - s.used > len THEN Add(s, name, len, s.used + len) ELSE s

(* formatInteger(): cMaxNumericSize bytes must be free; convert() ends the  *)
(* digits with a NUL, which the next piece overwrites.                      *)
PutNumber(s, name, v) ==
  LET len == Length(Convert(v))
  IN  IF Room - s.used >= 32 THEN Add(s, name, len, s.used + len + 1) ELSE s

(* operator<< of a C string: a null pointer is logged as (null).            *)
PutCString(s, name, len) == PutText(s, name, IF len = NullText THEN 6 ELSE len)

(* operator<< of a pointer: 0x, the digits and their NUL.                   *)
PutPointer(s, name, p) ==
  LET len == 2 + Length(ConvertHex(p))
  IN  IF Room - s.used >= 32 THEN Add(s, name, len, s.used + len + 1) ELSE s

EmptyStream == [used |-> 0, pieces |-> <<>>, top |-> 0]

-----------------------------------------------------------------------------
Leap(y) == y % 4 = 0 /\ (y % 100 # 0 \/ y % 400 = 0)
DaysIn(y, m) == CASE m \in {4, 6, 9, 11} -> 30
                  [] m = 2 -> IF Leap(y) THEN 29 ELSE 28
                  [] OTHER -> 31

(* Days from 1 January 1970 to 1 January of y, by counting leap years.      *)
DaysTo(y) == 365 * (y - 1970) + Cardinality({k \in 1970..(y - 1) : Leap(k)})
                              - Cardinality({k \in y..1969 : Leap(k)})

Init == /\ \E y \in Years : date = [year |-> y, month |-> 1, day |-> 1] /\ days = DaysTo(y)
        /\ sec = 0 /\ zone = NoZone /\ level \in {TRACE, DEBUG, INFO}
        /\ cache = [t \in Threads |-> [second |-> 0, shown |-> NoLine]]
        /\ held = [t \in Threads |-> NoLine]
        /\ line = NoLine /\ aborted = FALSE /\ built = 0 /\ switched = FALSE

Tomorrow(d) ==
  IF d.day < DaysIn(d.year, d.month) THEN [d EXCEPT !.day = @ + 1]
  ELSE IF d.month < 12 THEN [year |-> d.year, month |-> d.month + 1, day |-> 1]
  ELSE [year |-> d.year + 1, month |-> 1, day |-> 1]

(* The next second the clock stops at.                                      *)
Tick == /\ ~aborted /\ <<days, sec>> \notin Ends
        /\ LET later == {s \in Secs : s > sec}
           IN  IF later # {} THEN sec' = Min(later) /\ UNCHANGED <<date, days>>
               ELSE date' = Tomorrow(date) /\ days' = days + 1 /\ sec' = 0
        /\ switched' = FALSE
        /\ UNCHANGED <<zone, level, cache, held, line, aborted, built>>

(* Logger::setTimeZone() and setLogLevel()                                  *)
SetTimeZone == /\ ~aborted /\ <<days, sec>> \in LogTimes
               /\ \E z \in Zones : zone' = z
               /\ switched' = TRUE
               /\ UNCHANGED <<clock, level, cache, held, line, aborted, built>>

SetLogLevel == /\ ~aborted /\ <<days, sec>> \in LogTimes
               /\ \E m \in Messages : level' = m.level
               /\ UNCHANGED <<clock, zone, cache, held, line, aborted, built, switched>>

FormatTimeMutantMinute(c) ==
  IF CDiv(Now, 60) # CDiv(c.second, 60)
  THEN [second |-> Now,
        shown |-> IF zone = NoZone THEN Gmtime(Now)
                  ELSE LET tm == ToLocalTime(zone, Now) IN [day |-> tm.day, hms |-> tm.hms]]
  ELSE c

(* Logger::Impl::formatTime(): the text of the stamp, made once per second. *)
FormatTime(c) ==
  IF Now # c.second
  THEN [second |-> Now,
        shown |-> IF zone = NoZone THEN Gmtime(Now)
                  ELSE LET tm == ToLocalTime(zone, Now) IN [day |-> tm.day, hms |-> tm.hms]]
  ELSE c

(* The level test of the macros LOG_TRACE to LOG_SYSFATAL.                  *)
Enabled(l) == l >= WARN \/ level <= l

(* LOG_x << text << number << pointer: the test, the Logger and its operands.    *)
Build(t) ==
  /\ ~aborted /\ <<days, sec>> \in LogTimes /\ held[t] = NoLine /\ built < MaxLines
  /\ \E m \in Messages :
       /\ Enabled(m.level)
       /\ LET c == FormatTime(cache[t])
              s1 == PutText(EmptyStream, "time", 17)
              s2 == PutText(s1, "microseconds", IF zone = NoZone THEN 9 ELSE 8)
              s3 == PutText(PutText(s2, "tid", 6), "level", 6)
              s4 == IF m.level < INFO THEN PutText(PutText(s3, "func", 8), "space", 1) ELSE s3
          IN  /\ cache' = [cache EXCEPT ![t] = c]
              /\ held' = [held EXCEPT ![t] =
                   [at |-> Now, zone |-> IF switched THEN {} ELSE {zone}, shown |-> c.shown, message |-> m,
                    stream |-> PutPointer(PutNumber(PutCString(s4, "text", m.text), "number", m.number),
                                         "pointer", m.pointer)]]
  /\ built' = built + 1
  /\ UNCHANGED <<clock, zone, level, line, aborted, switched>>

(* ~Logger(): finish(), the output and, after a FATAL line, abort().        *)
Finish(t) ==
  /\ ~aborted /\ held[t] # NoLine
  /\ LET s == PutText(PutText(PutText(held[t].stream, "dash", 3), "file", 9), "colon", 1)
     IN  line' = [held[t] EXCEPT !.stream = PutText(PutNumber(s, "line", 134), "newline", 1)]
  /\ held' = [held EXCEPT ![t] = NoLine]
  /\ aborted' = (held[t].message.level = FATAL)
  /\ UNCHANGED <<clock, zone, level, cache, built, switched>>

Next == Tick \/ SetTimeZone \/ SetLogLevel \/ \E t \in Threads : Build(t) \/ Finish(t)

Spec == Init /\ [][Next]_vars

-----------------------------------------------------------------------------
Epoch == 2440588    \* the Julian day of 1 January 1970

Hms(s) == [hour |-> s \div 3600, min |-> (s \div 60) % 60, sec |-> s % 60]

(* What a clock in zone z shows at instant t.                               *)
Shown(z, t) ==
  LET past == IF z = NoZone THEN {} ELSE {i \in DOMAIN z.trans : z.trans[i].gmt <= t}
      offset == CASE z = NoZone -> 0
                  [] z # NoZone /\ past = {} -> z.types[1].offset
                  [] OTHER -> z.types[z.trans[Max(past)].idx].offset
  IN  [day |-> (t + offset) \div SecondsPerDay, hms |-> Hms((t + offset) % SecondsPerDay)]

(* What fromLocalTime() takes for granted of an instant: its time is not    *)
(* shown again after the next change of zone z, or that change puts clocks  *)
(* back by the hour, from daylight saving to standard time.                 *)
Tellable(z, t) ==
  \A i \in DOMAIN z.trans :
    LET before == TypeAfter(z, i - 1)
        after == TypeAfter(z, i)
    IN  (i > 1 => z.trans[i - 1].gmt <= t) /\ t < z.trans[i].gmt =>
          \/ t + before.offset < z.trans[i].local
          \/ after.offset = before.offset - 3600 /\ before.dst /\ ~after.dst

(* The conversions of this second: toUtcTime() gives the calendar's fields, *)
(* toLocalTime() the clock of each zone, fromUtcTime() brings back the      *)
(* instant, and so does fromLocalTime() where it can tell.                  *)
InstantAgrees ==
  /\ ToUtcTime(Now) = [date |-> date, hms |-> Hms(sec), wday |-> (days + 4) % 7,
                       yday |-> days - DaysTo(date.year)]
  /\ FromUtcTime(date, Hms(sec)) = Now
  /\ \A z \in Zones : LET tm == ToLocalTime(z, Now)
                      IN  /\ [day |-> tm.day, hms |-> tm.hms] = Shown(z, Now)
                          /\ Tellable(z, Now) => FromLocalTime(z, tm) = Now

(* On each day from 1900 to 2500 the clock passes, Date computes the day's  *)
(* number, its inverse and its weekday as counting days does; and on each   *)
(* second it stops at, before 1970 and around the changes of daylight       *)
(* saving included, the conversions of time agree with it. (The years of    *)
(* these are those whose seconds fit TLC's integers.)                       *)
CalendarAgrees ==
  LET julian == GetJulianDayNumber(date.year, date.month, date.day)
  IN  /\ julian = Epoch + days
      /\ GetYearMonthDay(julian) = date
      /\ WeekDay(julian) = (days + 4) % 7
      /\ date.year \in 1902..2037 => InstantAgrees

(* The number that digits are read as, below zero because the least integer *)
(* has no opposite.                                                         *)
Read(digits, base) ==
  LET upTo[i \in 0..Len(digits)] == IF i = 0 THEN 0 ELSE base * upTo[i - 1] - digits[i]
  IN  upTo[Len(digits)]

Value(n, base) == IF n.neg THEN Read(n.digits, base) ELSE -Read(n.digits, base)

(* A line that is output shows the instant its Logger was built, although   *)
(* its stamp is cached and other threads log and set zones in between; only *)
(* setTimeZone() in that very second leaves it open in which zone. The      *)
(* numbers in it read back as those logged, nothing was written past the    *)
(* buffer, and only a full buffer keeps it from ending with a newline.      *)
LinesAreTrue ==
  line # NoLine =>
    /\ \A z \in line.zone : line.shown = Shown(z, line.at)
    /\ LET n == Convert(line.message.number)
           h == ConvertHex(line.message.pointer)
       IN  /\ n.digits # <<>> /\ Value(n, 10) = line.message.number
           /\ h.digits # <<>> /\ Value(h, 16) = line.message.pointer
    /\ line.stream.top <= Room
    /\ Last(line.stream.pieces) = "newline" \/ Room - line.stream.used <= 1
=============================================================================
