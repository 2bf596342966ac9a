------------------------------ MODULE TimeZone ------------------------------
(* netlib/base/Date and netlib/base/TimeZone: conversions between an        *)
(* instant, a calendar date and local time. No state: a zone is the record  *)
(* of the table read from a zone file.                                      *)
EXTENDS Integers, Sequences, FiniteSetsExt

(* / and % of C++ truncate toward zero.                                     *)
CDiv(a, b) == IF a >= 0 \/ a % b = 0 THEN a \div b ELSE a \div b + 1
CMod(a, b) == a - b * CDiv(a, b)

SecondsPerDay == 24 * 60 * 60

-----------------------------------------------------------------------------
(* Date                                                                     *)

GetJulianDayNumber(year, month, day) ==
  LET a == CDiv(14 - month, 12)
      y == year + 4800 - a
      m == month + 12 * a - 3
  IN  day + CDiv(153 * m + 2, 5) + y * 365 + CDiv(y, 4) - CDiv(y, 100) + CDiv(y, 400) - 32045

GetYearMonthDay(julian) ==
  LET a == julian + 32044
      b == CDiv(4 * a + 3, 146097)
      c == a - CDiv(b * 146097, 4)
      d == CDiv(4 * c + 3, 1461)
      e == c - CDiv(d * 1461, 4)
      m == CDiv(5 * e + 2, 153)
  IN  [year |-> b * 100 + d - 4800 + CDiv(m, 10),
       month |-> m + 3 - 12 * CDiv(m, 10),
       day |-> e - CDiv(153 * m + 2, 5) + 1]

JulianDayOf1970 == GetJulianDayNumber(1970, 1, 1)

WeekDay(julian) == CMod(julian + 1, 7)

-----------------------------------------------------------------------------
(* UTC                                                                      *)

FillHMS(seconds) == [hour |-> CDiv(CDiv(seconds, 60), 60),
                     min  |-> CMod(CDiv(seconds, 60), 60),
                     sec  |-> CMod(seconds, 60)]

ToUtcTimeMutantNegative(t) ==
  LET julian == CDiv(t, SecondsPerDay) + JulianDayOf1970
      ymd == GetYearMonthDay(julian)
  IN  [date |-> ymd, hms |-> FillHMS(CMod(t, SecondsPerDay)), wday |-> WeekDay(julian),
       yday |-> julian - GetJulianDayNumber(ymd.year, 1, 1)]

(* An instant before 1970 leaves a negative remainder, borrowed from a day. *)
ToUtcTime(t) ==
  LET r == CMod(t, SecondsPerDay)
      q == CDiv(t, SecondsPerDay)
      julian == (IF r < 0 THEN q - 1 ELSE q) + JulianDayOf1970
      ymd == GetYearMonthDay(julian)
  IN  [date |-> ymd,
       hms |-> FillHMS(IF r < 0 THEN r + SecondsPerDay ELSE r),
       wday |-> WeekDay(julian),
       yday |-> julian - GetJulianDayNumber(ymd.year, 1, 1)]

FromUtcTime(date, hms) ==
  (GetJulianDayNumber(date.year, date.month, date.day) - JulianDayOf1970) * SecondsPerDay
    + hms.hour * 3600 + hms.min * 60 + hms.sec

-----------------------------------------------------------------------------
(* Zones. A file holds the instants of its changes, the type in force after *)
(* each, and the types; cut tells the section a short file ends in, and of  *)
(* one that ends in its types, types are those before the cut.              *)

Transition(t, l, idx) == [gmt |-> t, local |-> l, idx |-> idx]

(* readTimeZoneFile(): a file that is missing, no zone file or too short is *)
(* reported on stderr only, and what was read so far is the zone.           *)
ReadTimeZoneFile(f) ==
  LET types == IF f.cut \in {"head", "times"} THEN <<>> ELSE f.types
  IN  [types |-> types,
       trans |-> IF f.cut \in {"head", "times", "types"} THEN <<>>
                 ELSE [i \in DOMAIN f.times |->
                        Transition(f.times[i], f.times[i] + types[f.idx[i]].offset, f.idx[i])]]

(* TimeZone(int eastOfUtc, ...)                                             *)
FixedZone(east) == [types |-> <<[offset |-> east, dst |-> FALSE]>>, trans |-> <<>>]

(* Comp::operator() and Comp::equal().                                      *)
Less(a, b, gmt) == IF gmt THEN a.gmt < b.gmt ELSE a.local < b.local
Equal(a, b, gmt) == IF gmt THEN a.gmt = b.gmt ELSE a.local = b.local

(* std::lower_bound: the first element not less than x, or the end.         *)
LowerBound(s, x, gmt) == Min({i \in DOMAIN s : ~Less(s[i], x, gmt)} \cup {Len(s) + 1})

FindLocalTime(zone, sentry, gmt) ==
  IF zone.trans = <<>> \/ Less(sentry, Head(zone.trans), gmt) THEN Head(zone.types)
  ELSE LET i == LowerBound(zone.trans, sentry, gmt)
           j == IF i <= Len(zone.trans) /\ Equal(sentry, zone.trans[i], gmt) THEN i ELSE i - 1
       IN  zone.types[zone.trans[j].idx]

(* gmtime_r() and timegm(); only the day, not its calendar date, is needed. *)
Gmtime(t) == [day |-> t \div SecondsPerDay, hms |-> FillHMS(t % SecondsPerDay)]
Timegm(tm) == tm.day * SecondsPerDay + tm.hms.hour * 3600 + tm.hms.min * 60 + tm.hms.sec

ToLocalTime(zone, t) ==
  LET local == FindLocalTime(zone, Transition(t, 0, 0), TRUE)
      g == Gmtime(t + local.offset)
  IN  [day |-> g.day, hms |-> g.hms, dst |-> local.dst]

(* fromLocalTime(): a daylight-saving time in the hour that clocks repeat   *)
(* is looked up as standard time; the second look corrects it.              *)
FromLocalTime(zone, tm) ==
  LET seconds == Timegm(tm)
      local == FindLocalTime(zone, Transition(0, seconds, 0), FALSE)
      try == ToLocalTime(zone, seconds - local.offset)
      repeated == /\ tm.dst /\ ~try.dst
                  /\ try.hms.hour = tm.hms.hour /\ try.hms.min = tm.hms.min
  IN  (IF repeated THEN seconds - 3600 ELSE seconds) - local.offset
=============================================================================
