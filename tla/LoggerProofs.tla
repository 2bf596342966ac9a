---------------------------- MODULE LoggerProofs ----------------------------
(***************************************************************************)
(* Proofs about Logger for any threads, zones, messages, years and size of *)
(* the buffer: the conversions of Date and TimeZone agree with a calendar  *)
(* that counts the days one by one, and a line says when and what was      *)
(* logged.  The parts, in the order of the file:                           *)
(*   - Date: getYearMonthDay() undoes getJulianDayNumber(); tomorrow has   *)
(*     the next number; the number of the first day of a year;             *)
(*   - UTC: an instant, split into a day and its second, and back;         *)
(*   - TimeZone: the search for the type in force, toLocalTime(), and      *)
(*     fromLocalTime() as its inverse;                                     *)
(*   - the digits of convert() and convertHex(), and reading them;         *)
(*   - the stream of a line, its stamp and the line.                       *)
(* Facts about all numbers are proved by looking at the least number that  *)
(* would break them (LeastNumber).                                         *)
(***************************************************************************)
EXTENDS Logger, FiniteSetTheorems, WellFoundedInduction, TLAPS

(* A date the calendar has, from the year the algorithm of Date is meant for. *)
Valid(d) == /\ d.year \in Int /\ d.year > -4800 /\ d.month \in 1..12
            /\ d.day \in 1..DaysIn(d.year, d.month)
            /\ d = [year |-> d.year, month |-> d.month, day |-> d.day]

-----------------------------------------------------------------------------
(* Division. *)

(* On numbers that are not negative the division of C++ is that of integers. *)
LEMMA CDivFacts ==
  ASSUME NEW a \in Int, NEW b \in Nat, b > 0
  PROVE  a >= 0 => CDiv(a, b) = a \div b
BY DEF CDiv

(* The length of a month. *)
LEMMA DaysInFacts ==
  ASSUME NEW y \in Int, NEW m \in 1..12
  PROVE  /\ m \in {1, 3, 5, 7, 8, 10, 12} => DaysIn(y, m) = 31
         /\ m \in {4, 6, 9, 11} => DaysIn(y, m) = 30
         /\ m = 2 /\ Leap(y) => DaysIn(y, m) = 29
         /\ m = 2 /\ ~Leap(y) => DaysIn(y, m) = 28
BY DEF DaysIn

(* The leap years from the year 1 to Y, and the days before a month of a year that begins in March. *)
Leaps(Y) == Y \div 4 - Y \div 100 + Y \div 400
Before(M) == (153 * M + 2) \div 5

(* The number of a day: Y is the year that begins in March, M its month. *)
LEMMA JulianFacts ==
  ASSUME NEW y \in Int, y > -4800, NEW m \in 1..12, NEW d \in Int,
         NEW Y \in Int, Y = IF m > 2 THEN y + 4800 ELSE y + 4799,
         NEW M \in Int, M = IF m > 2 THEN m - 3 ELSE m + 9
  PROVE  GetJulianDayNumber(y, m, d) =
           d + Before(M) + 365 * Y + Leaps(Y) - 32045
<1>1. CDiv(14 - m, 12) = IF m > 2 THEN 0 ELSE 1
  BY DEF CDiv
<1>2. CDiv(153 * M + 2, 5) = (153 * M + 2) \div 5
  BY DEF CDiv
<1>3. CDiv(Y, 4) = Y \div 4 /\ CDiv(Y, 100) = Y \div 100 /\ CDiv(Y, 400) = Y \div 400
  BY DEF CDiv
<1>4. y + 4800 - CDiv(14 - m, 12) = Y /\ m + 12 * CDiv(14 - m, 12) - 3 = M
  BY <1>1
<1>5. GetJulianDayNumber(y, m, d) =
        d + CDiv(153 * M + 2, 5) + Y * 365 + CDiv(Y, 4) - CDiv(Y, 100) + CDiv(Y, 400) - 32045
  BY <1>4 DEF GetJulianDayNumber
<1> QED BY <1>2, <1>3, <1>5 DEF Before, Leaps

(* The number of the first day of a year. *)
LEMMA NewYear ==
  ASSUME NEW y \in Int, y > -4800
  PROVE  GetJulianDayNumber(y, 1, 1) = 1 + Before(10) + 365 * (y + 4799) + Leaps(y + 4799) - 32045
<1> DEFINE Y == y + 4799
<1>1. CDiv(14 - 1, 12) = 1 /\ CDiv(153 * 10 + 2, 5) = Before(10)
  BY DEF CDiv, Before
<1>2. CDiv(Y, 4) - CDiv(Y, 100) + CDiv(Y, 400) = Leaps(Y)
  BY DEF CDiv, Leaps
<1>3. y + 4800 - 1 = Y /\ 1 + 12 * 1 - 3 = 10
  OBVIOUS
<1>4. GetJulianDayNumber(y, 1, 1) =
        1 + CDiv(153 * 10 + 2, 5) + Y * 365 + CDiv(Y, 4) - CDiv(Y, 100) + CDiv(Y, 400) - 32045
  BY <1>1, <1>3 DEF GetJulianDayNumber
<1>5. CDiv(Y, 4) \in Int /\ CDiv(Y, 100) \in Int /\ CDiv(Y, 400) \in Int /\ Before(10) \in Int /\ Y \in Int
  BY DEF CDiv, Before
<1> HIDE DEF Y
<1>6. GetJulianDayNumber(y, 1, 1) = 1 + Before(10) + 365 * Y + Leaps(Y) - 32045
  BY <1>1, <1>2, <1>4, <1>5
<1> QED BY <1>6 DEF Y

(* Day E of the year Y that begins in March, as a day of all time and of its century. *)
DayOfTime(Y, E) == E + 365 * Y + Leaps(Y)
DayOfCentury(Y, E) == 365 * (Y % 100) + (Y % 100) \div 4 + E

(* From a day of all time to its century and the day of that, and on to its year and back. *)
CenturyInverse(Y, E) ==
  /\ (4 * DayOfTime(Y, E) + 3) \div 146097 = Y \div 100
  /\ DayOfTime(Y, E) - (146097 * (Y \div 100)) \div 4 = DayOfCentury(Y, E)
  /\ (4 * DayOfCentury(Y, E) + 3) \div 1461 = Y % 100
  /\ DayOfCentury(Y, E) - (1461 * (Y % 100)) \div 4 = E
  /\ DayOfTime(Y, E) \in Nat /\ DayOfCentury(Y, E) \in Nat

(* A century and a year of it: the days before them, and back. *)
LEMMA CenturyFacts ==
  ASSUME NEW Y \in Nat, NEW E \in 0..365, E = 365 => Leap(Y + 1)
  PROVE  CenturyInverse(Y, E)
<1> DEFINE C == Y \div 100
           R == Y % 100
           Q == C \div 4
           S == C % 4
           U == R \div 4
           V == R % 4
           A == E + 365 * Y + Y \div 4 - Y \div 100 + Y \div 400
           X == 365 * R + U + E
<1>1. C \in Nat /\ R \in 0..99 /\ Y = 100 * C + R
  <2>1. R = Y - 100 * C /\ C \in Nat /\ R >= 0 /\ R <= 99 /\ R \in Int
    OBVIOUS
  <2> QED BY <2>1
<1>2. Q \in Nat /\ S \in 0..3 /\ C = 4 * Q + S
  <2> HIDE DEF C
  <2>1. S = C - 4 * Q /\ Q \in Nat /\ S >= 0 /\ S <= 3 /\ S \in Int
    BY <1>1
  <2> QED BY <1>1, <2>1
<1>3. U \in 0..24 /\ V \in 0..3 /\ R = 4 * U + V
  <2> HIDE DEF R
  <2>1. V = R - 4 * U /\ U \in Nat /\ V >= 0 /\ V <= 3 /\ V \in Int
    BY <1>1
  <2> QED BY <1>1, <2>1
<1>4. Y \div 4 = 25 * C + U /\ Y \div 400 = Q
  <2> HIDE DEF C, R, Q, S, U, V
  <2>1. Y = 400 * Q + 100 * S + R /\ 0 <= 100 * S + R /\ 100 * S + R < 400
    BY <1>1, <1>2
  <2>2. Y = 4 * (25 * C + U) + V
    BY <1>1, <1>3
  <2> QED BY <1>1, <1>2, <1>3, <2>1, <2>2
<1>5. E = 365 => V = 3 /\ (R = 99 => S = 3)
  <2> SUFFICES ASSUME E = 365 PROVE V = 3 /\ (R = 99 => S = 3)
    OBVIOUS
  <2>1. (Y + 1) % 4 = 0 /\ ((Y + 1) % 100 # 0 \/ (Y + 1) % 400 = 0)
    BY DEF Leap
  <2> HIDE DEF C, R, Q, S, U, V
  <2>2. Y + 1 = 4 * (25 * C + U) + V + 1
    BY <1>1, <1>3
  <2>3. V = 3
    BY <1>1, <1>3, <2>1, <2>2
  <2>4. ASSUME R = 99 PROVE S = 3
    <3>1. (Y + 1) % 100 = 0
      BY <1>1, <2>4
    <3>2. (Y + 1) % 400 = 0
      BY <2>1, <3>1
    <3>3. Y + 1 = 400 * Q + 100 * (S + 1)
      BY <1>1, <1>2, <2>4
    <3> QED BY <1>2, <3>2, <3>3
  <2> QED BY <2>3, <2>4
<1>6. A = 36524 * C + Q + X
  <2>1. A = E + 365 * Y + Y \div 4 - C + Y \div 400
    OBVIOUS
  <2> HIDE DEF C, R, Q, S, U, V, A
  <2> QED BY <1>1, <1>2, <1>3, <1>4, <2>1
<1>7. (4 * A + 3) \div 146097 = C
  <2> HIDE DEF C, R, Q, S, U, V, A
  <2>1. 4 * A + 3 = 146097 * C + (4 * X + 3 - S)
    BY <1>1, <1>2, <1>3, <1>6
  <2>2. 0 <= 4 * X + 3 - S /\ 4 * X + 3 - S < 146097
    BY <1>1, <1>2, <1>3, <1>5
  <2>3. 4 * X + 3 - S \in Int
    BY <1>1, <1>2, <1>3
  <2> HIDE DEF X
  <2>4. 4 * A + 3 \in Int
    BY <1>1, <2>1, <2>3
  <2> QED BY <1>1, <2>1, <2>2, <2>3, <2>4
<1>8. A - (146097 * C) \div 4 = X
  <2> HIDE DEF C, R, Q, S, U, V, A
  <2>1. 146097 * C = 4 * (36524 * C + Q) + S
    BY <1>1, <1>2
  <2>2. (146097 * C) \div 4 = 36524 * C + Q
    BY <1>1, <1>2, <2>1
  <2> QED BY <1>1, <1>2, <1>3, <1>6, <2>2
<1>9. (4 * X + 3) \div 1461 = R
  <2> HIDE DEF C, R, Q, S, U, V, A
  <2>1. 4 * X + 3 = 1461 * R + (4 * E + 3 - V) /\ 0 <= 4 * E + 3 - V /\ 4 * E + 3 - V < 1461
    BY <1>1, <1>3, <1>5
  <2> QED BY <1>1, <1>3, <2>1
<1>10. X - (1461 * R) \div 4 = E
  <2> HIDE DEF C, R, Q, S, U, V, A
  <2>1. 1461 * R = 4 * (365 * R + U) + V
    BY <1>1, <1>3
  <2> QED BY <1>1, <1>3, <2>1
<1>11. A \in Nat /\ X \in Nat
  <2> HIDE DEF C, R, Q, S, U, V, A
  <2> QED BY <1>1, <1>2, <1>3, <1>6
<1>12. DayOfTime(Y, E) = A /\ DayOfCentury(Y, E) = X
  BY DEF DayOfTime, DayOfCentury, Leaps
<1> HIDE DEF A, X
<1> QED BY <1>7, <1>8, <1>9, <1>10, <1>11, <1>12 DEF CenturyInverse

(* A month of the year that begins in March, by the day of that year. *)
MonthInverse(M, d, E) ==
  /\ E \in 0..365 /\ (E = 365 => M = 11 /\ d = 29)
  /\ (5 * E + 2) \div 153 = M
  /\ M \div 10 = IF M < 10 THEN 0 ELSE 1

(* The day of the year that begins in March gives back the month, as getYearMonthDay() computes it. *)
LEMMA MonthFacts ==
  ASSUME NEW M \in 0..11, NEW d \in 1..31, M \in {1, 3, 6, 8} => d <= 30, M = 11 => d <= 29,
         NEW E \in Int, E = d - 1 + (153 * M + 2) \div 5
  PROVE  MonthInverse(M, d, E)
<1>1. (153 * M + 2) \div 5 = CASE M = 0 -> 0 [] M = 1 -> 31 [] M = 2 -> 61 [] M = 3 -> 92 [] M = 4 -> 122
                               [] M = 5 -> 153 [] M = 6 -> 184 [] M = 7 -> 214 [] M = 8 -> 245
                               [] M = 9 -> 275 [] M = 10 -> 306 [] M = 11 -> 337
  OBVIOUS
<1>2. E \in 0..365 /\ (E = 365 => M = 11 /\ d = 29)
  BY <1>1
<1>3. 0 <= 5 * E + 2 - 153 * M /\ 5 * E + 2 - 153 * M < 153
  BY <1>1
<1>4. (5 * E + 2) \div 153 = M
  BY <1>3
<1> QED BY <1>2, <1>4 DEF MonthInverse

(* The year that begins in March, and where a valid date is in it. *)
LEMMA MarchFacts ==
  ASSUME NEW d, Valid(d),
         NEW Y, Y = IF d.month > 2 THEN d.year + 4800 ELSE d.year + 4799,
         NEW M, M = IF d.month > 2 THEN d.month - 3 ELSE d.month + 9
  PROVE  /\ Y \in Nat /\ M \in 0..11 /\ d.day \in 1..31
         /\ M \in {1, 3, 6, 8} => d.day <= 30
         /\ M = 11 => d.day <= 29
         /\ M = 11 /\ d.day = 29 => Leap(Y + 1)
         /\ d.year = Y - 4800 + (IF M < 10 THEN 0 ELSE 1)
         /\ d.month = M + 3 - 12 * (IF M < 10 THEN 0 ELSE 1)
<1>1. /\ d.year \in Int /\ d.year > -4800 /\ d.month \in 1..12 /\ d.day \in 1..DaysIn(d.year, d.month)
  BY DEF Valid
<1>2. /\ d.month \in {1, 3, 5, 7, 8, 10, 12} => d.day \in 1..31
      /\ d.month \in {4, 6, 9, 11} => d.day \in 1..30
      /\ d.month = 2 => d.day \in 1..29 /\ (d.day = 29 => Leap(d.year))
  BY <1>1, DaysInFacts
<1>3. Y \in Nat /\ M \in 0..11
  BY <1>1
<1>4. d.day \in 1..31 /\ (M \in {1, 3, 6, 8} => d.day <= 30) /\ (M = 11 => d.day <= 29 /\ d.month = 2)
  BY <1>1, <1>2
<1>5. ASSUME M = 11, d.day = 29 PROVE Leap(Y + 1)
  <2>1. Leap(d.year) /\ Y + 1 = d.year + 4800
    BY <1>1, <1>2, <1>4, <1>5
  <2> QED BY <1>1, <2>1 DEF Leap
<1>6. /\ d.year = Y - 4800 + (IF M < 10 THEN 0 ELSE 1)
      /\ d.month = M + 3 - 12 * (IF M < 10 THEN 0 ELSE 1)
  BY <1>1
<1> QED BY <1>3, <1>4, <1>5, <1>6

(* getYearMonthDay() undoes getJulianDayNumber(), on every date of the calendar. *)
LEMMA DateInverse ==
  ASSUME NEW d, Valid(d)
  PROVE  GetYearMonthDay(GetJulianDayNumber(d.year, d.month, d.day)) = d
<1> DEFINE Y == IF d.month > 2 THEN d.year + 4800 ELSE d.year + 4799
           M == IF d.month > 2 THEN d.month - 3 ELSE d.month + 9
           F == (153 * M + 2) \div 5
           E == d.day - 1 + F
           J == GetJulianDayNumber(d.year, d.month, d.day)
           A == DayOfTime(Y, E)
           X == DayOfCentury(Y, E)
<1>1. /\ Y \in Nat /\ M \in 0..11 /\ d.day \in 1..31
      /\ M \in {1, 3, 6, 8} => d.day <= 30
      /\ M = 11 => d.day <= 29
      /\ M = 11 /\ d.day = 29 => Leap(Y + 1)
      /\ d.year = Y - 4800 + (IF M < 10 THEN 0 ELSE 1)
      /\ d.month = M + 3 - 12 * (IF M < 10 THEN 0 ELSE 1)
  BY MarchFacts
<1>2. d = [year |-> d.year, month |-> d.month, day |-> d.day]
  BY DEF Valid
<1>3. J = d.day + F + 365 * Y + Leaps(Y) - 32045
  <2>1. J = d.day + Before(M) + 365 * Y + Leaps(Y) - 32045
    BY <1>1, JulianFacts DEF Valid
  <2> QED BY <2>1 DEF Before
<1> HIDE DEF Y, M, J
<1>4. F \in Nat /\ E \in Int
  BY <1>1
<1>5. E \in 0..365 /\ (E = 365 => Leap(Y + 1)) /\ (5 * E + 2) \div 153 = M /\ M \div 10 = IF M < 10 THEN 0 ELSE 1
  <2>1. E = d.day - 1 + (153 * M + 2) \div 5
    OBVIOUS
  <2> HIDE DEF E, F
  <2>2. MonthInverse(M, d.day, E)
    <3>1. M \in 0..11 /\ d.day \in 1..31 /\ (M \in {1, 3, 6, 8} => d.day <= 30) /\ (M = 11 => d.day <= 29)
      BY <1>1
    <3> QED BY <1>4, <2>1, <3>1, MonthFacts
  <2> QED BY <1>1, <2>2 DEF MonthInverse
<1>6. J + 32044 = A /\ J \in Int
  <2> HIDE DEF F
  <2> QED BY <1>1, <1>3, <1>4 DEF DayOfTime, Leaps
<1> HIDE DEF E, F
<1>7. /\ (4 * A + 3) \div 146097 = Y \div 100
      /\ A - (146097 * (Y \div 100)) \div 4 = X
      /\ (4 * X + 3) \div 1461 = Y % 100
      /\ X - (1461 * (Y % 100)) \div 4 = E
      /\ A \in Nat /\ X \in Nat
  <2>1. CenturyInverse(Y, E)
    BY <1>1, <1>5, CenturyFacts
  <2> QED BY <2>1 DEF CenturyInverse
<1> DEFINE C == Y \div 100
           R == Y % 100
<1>8. C \in Nat /\ R \in Nat /\ R = Y - 100 * C
  BY <1>1
<1> HIDE DEF A, X, C, R
<1>9. /\ CDiv(4 * A + 3, 146097) = C /\ CDiv(C * 146097, 4) = (146097 * C) \div 4
      /\ CDiv(4 * X + 3, 1461) = R /\ CDiv(R * 1461, 4) = (1461 * R) \div 4
      /\ CDiv(5 * E + 2, 153) = M /\ CDiv(153 * M + 2, 5) = F /\ CDiv(M, 10) = M \div 10
  BY <1>1, <1>5, <1>7, <1>8 DEF CDiv, C, R, F
<1>10. /\ A - CDiv(C * 146097, 4) = X /\ X - CDiv(R * 1461, 4) = E
  BY <1>7, <1>9 DEF C, R
<1>11. GetYearMonthDay(J) = [year |-> C * 100 + R - 4800 + CDiv(M, 10),
                             month |-> M + 3 - 12 * CDiv(M, 10),
                             day |-> E - CDiv(153 * M + 2, 5) + 1]
  BY <1>6, <1>9, <1>10 DEF GetYearMonthDay
<1>12. /\ C * 100 + R - 4800 + CDiv(M, 10) = d.year /\ M + 3 - 12 * CDiv(M, 10) = d.month
  BY <1>1, <1>5, <1>8, <1>9 DEF C, R
<1>13. E - CDiv(153 * M + 2, 5) + 1 = d.day
  BY <1>1, <1>4, <1>9 DEF E
<1> QED BY <1>2, <1>11, <1>12, <1>13 DEF J

-----------------------------------------------------------------------------
(* Days counted one by one. *)

(* A year adds one to the leap years, or nothing. *)
LEMMA LeapStep ==
  ASSUME NEW Y \in Int
  PROVE  /\ Leaps(Y) \in Int
         /\ Leap(Y + 1) => Leaps(Y + 1) = Leaps(Y) + 1
         /\ ~Leap(Y + 1) => Leaps(Y + 1) = Leaps(Y)
<1> DEFINE Four == Y \div 4
           Hundred == Y \div 100
           FourHundred == Y \div 400
           a == (Y + 1) % 4
           b == (Y + 1) % 100
           c == (Y + 1) % 400
<1>1. Four \in Int /\ Hundred \in Int /\ FourHundred \in Int
  OBVIOUS
<1>2. (Y + 1) \div 4 = IF a = 0 THEN Four + 1 ELSE Four
  OBVIOUS
<1>3. (Y + 1) \div 100 = IF b = 0 THEN Hundred + 1 ELSE Hundred
  OBVIOUS
<1>4. (Y + 1) \div 400 = IF c = 0 THEN FourHundred + 1 ELSE FourHundred
  OBVIOUS
<1>5. (c = 0 => b = 0) /\ (b = 0 => a = 0)
  OBVIOUS
<1>6. Leap(Y + 1) <=> a = 0 /\ (b # 0 \/ c = 0)
  BY DEF Leap
<1>7. Leaps(Y) = Four - Hundred + FourHundred
  BY DEF Leaps
<1>8. Leaps(Y + 1) = (Y + 1) \div 4 - (Y + 1) \div 100 + (Y + 1) \div 400
  BY DEF Leaps
<1> HIDE DEF Four, Hundred, FourHundred, a, b, c
<1> QED BY <1>1, <1>2, <1>3, <1>4, <1>5, <1>6, <1>7, <1>8

(* The rule of leap years repeats after 400 years. *)
LEMMA LeapPeriod ==
  ASSUME NEW y \in Int
  PROVE  Leap(y + 4800) <=> Leap(y)
BY DEF Leap

(* The next day of the calendar has the next number. *)
LEMMA TomorrowFacts ==
  ASSUME NEW d, Valid(d)
  PROVE  /\ Valid(Tomorrow(d))
         /\ GetJulianDayNumber(Tomorrow(d).year, Tomorrow(d).month, Tomorrow(d).day)
              = GetJulianDayNumber(d.year, d.month, d.day) + 1
<1> DEFINE y == d.year
           m == d.month
           n == d.day
           J(yy, mm, nn) == GetJulianDayNumber(yy, mm, nn)
<1>1. y \in Int /\ y > -4800 /\ m \in 1..12 /\ n \in 1..DaysIn(y, m) /\ DaysIn(y, m) \in 28..31 /\ n \in Int
      /\ d = [year |-> y, month |-> m, day |-> n]
  BY DaysInFacts DEF Valid
<1>2. ASSUME NEW yy \in Int, yy > -4800, NEW mm \in 1..12
      PROVE  DaysIn(yy, mm) \in 28..31
  BY DaysInFacts
<1>3. CASE n < DaysIn(y, m)
  <2>1. Tomorrow(d) = [year |-> y, month |-> m, day |-> n + 1]
    BY <1>1, <1>3 DEF Tomorrow
  <2>2. Valid([year |-> y, month |-> m, day |-> n + 1])
    BY <1>1, <1>3 DEF Valid
  <2> DEFINE Y == IF m > 2 THEN y + 4800 ELSE y + 4799
             M == IF m > 2 THEN m - 3 ELSE m + 9
  <2>3. Y \in Int /\ M \in Int /\ Leaps(Y) \in Int /\ Before(M) \in Int
    BY <1>1, LeapStep DEF Before
  <2>4. /\ J(y, m, n) = n + Before(M) + 365 * Y + Leaps(Y) - 32045
        /\ J(y, m, n + 1) = n + 1 + Before(M) + 365 * Y + Leaps(Y) - 32045
    BY <1>1, <2>3, JulianFacts
  <2> HIDE DEF Y, M, J
  <2>5. J(y, m, n + 1) = J(y, m, n) + 1
    BY <1>1, <2>3, <2>4
  <2> QED BY <2>1, <2>2, <2>5 DEF J
<1>4. CASE n = DaysIn(y, m) /\ m < 12
  <2>1. Tomorrow(d) = [year |-> y, month |-> m + 1, day |-> 1]
    BY <1>1, <1>4 DEF Tomorrow
  <2>2. Valid([year |-> y, month |-> m + 1, day |-> 1])
    <3>1. m + 1 \in 1..12 /\ DaysIn(y, m + 1) \in 28..31
      BY <1>1, <1>2, <1>4
    <3> QED BY <1>1, <3>1 DEF Valid
  <2>3. CASE m = 2
    <3> DEFINE Y == y + 4799
    <3>1. J(y, m, n) = n + Before(11) + 365 * Y + Leaps(Y) - 32045
      BY <1>1, <2>3, JulianFacts
    <3>2. J(y, m + 1, 1) = 1 + Before(0) + 365 * (Y + 1) + Leaps(Y + 1) - 32045
      BY <1>1, <2>3, JulianFacts
    <3>3. Before(11) = 337 /\ Before(0) = 0 /\ Y \in Int /\ Y + 1 = y + 4800
      BY <1>1 DEF Before
    <3>4. (Leap(Y + 1) <=> Leap(y)) /\ (Leap(y) => n = 29) /\ (~Leap(y) => n = 28)
      BY <1>1, <1>4, <2>3, <3>3, LeapPeriod, DaysInFacts
    <3> HIDE DEF Y, J
    <3>5. J(y, m + 1, 1) = J(y, m, n) + 1
      BY <3>1, <3>2, <3>3, <3>4, LeapStep
    <3> QED BY <2>1, <2>2, <3>5 DEF J
  <2>4. CASE m # 2
    <3> DEFINE Y == IF m > 2 THEN y + 4800 ELSE y + 4799
               M == IF m > 2 THEN m - 3 ELSE m + 9
    <3>1. Y \in Int /\ M \in 0..10 /\ M # 9 /\ Leaps(Y) \in Int
      BY <1>1, <1>4, <2>4, LeapStep
    <3>2. J(y, m, n) = n + Before(M) + 365 * Y + Leaps(Y) - 32045
      BY <1>1, <3>1, JulianFacts
    <3>3. J(y, m + 1, 1) = 1 + Before(M + 1) + 365 * Y + Leaps(Y) - 32045
      <4>1. /\ Y = IF m + 1 > 2 THEN y + 4800 ELSE y + 4799
            /\ M + 1 = IF m + 1 > 2 THEN (m + 1) - 3 ELSE (m + 1) + 9
        BY <1>1, <2>4
      <4> HIDE DEF Y, M
      <4> QED BY <1>1, <1>4, <3>1, <4>1, JulianFacts
    <3>4. Before(M + 1) = Before(M) + n
      <4>1. (M \in {1, 3, 6, 8} => n = 30) /\ (M \in {0, 2, 4, 5, 7, 10} => n = 31)
        BY <1>1, <1>4, <2>4, DaysInFacts
      <4> HIDE DEF M
      <4> QED BY <3>1, <4>1 DEF Before
    <3>5. n \in Int /\ Before(M) \in Int
      BY <1>1, <3>1 DEF Before
    <3> HIDE DEF Y, M, J
    <3>6. J(y, m + 1, 1) = J(y, m, n) + 1
      BY <3>1, <3>2, <3>3, <3>4, <3>5
    <3> QED BY <2>1, <2>2, <3>6 DEF J
  <2> QED BY <2>3, <2>4
<1>5. CASE n = DaysIn(y, m) /\ m = 12
  <2>1. Tomorrow(d) = [year |-> y + 1, month |-> 1, day |-> 1]
    BY <1>1, <1>5 DEF Tomorrow
  <2>2. Valid([year |-> y + 1, month |-> 1, day |-> 1])
    BY <1>1, <1>2 DEF Valid
  <2> DEFINE Y == y + 4800
  <2>3. J(y, m, n) = n + Before(9) + 365 * Y + Leaps(Y) - 32045
    BY <1>1, <1>5, JulianFacts
  <2>4. J(y + 1, 1, 1) = 1 + Before(10) + 365 * Y + Leaps(Y) - 32045
    <3>1. y + 1 \in Int /\ y + 1 > -4800 /\ Y = (y + 1) + 4799
      BY <1>1
    <3> HIDE DEF Y, J
    <3> QED BY <3>1, NewYear DEF J
  <2>5. Before(9) = 275 /\ Before(10) = 306 /\ n = 31 /\ Y \in Int
    BY <1>1, <1>5, DaysInFacts DEF Before
  <2> HIDE DEF Y, J
  <2>6. J(y + 1, 1, 1) = J(y, m, n) + 1
    BY <2>3, <2>4, <2>5, LeapStep
  <2> QED BY <2>1, <2>2, <2>6 DEF J
<1> QED BY <1>1, <1>3, <1>4, <1>5

(* Some number of a set of natural numbers is the least. *)
LEMMA LeastNumber ==
  ASSUME NEW W \in SUBSET Nat, W # {}
  PROVE  \E w \in W : \A k \in W : w <= k
<1> DEFINE R == {p \in Nat \X Nat : p[1] < p[2]}
<1>1. IsWellFoundedOn(R, Nat)
  BY NatLessThanWellFounded, Zenon DEF OpToRel
<1>2. PICK w \in W : \A k \in W : ~(<<k, w>> \in R)
  <2> HIDE DEF R
  <2> QED BY <1>1, WFMin
<1>3. ASSUME NEW k \in W PROVE w <= k
  <2>1. k \in Nat /\ w \in Nat
    OBVIOUS
  <2>2. k < w => <<k, w>> \in R
    BY <2>1
  <2> QED BY <1>2, <2>1, <2>2
<1> QED BY <1>3

(* The least of a set of natural numbers and the greatest of a bounded one. *)
LEMMA MinFacts ==
  ASSUME NEW W \in SUBSET Nat, W # {}
  PROVE  Min(W) \in W /\ \A k \in W : Min(W) <= k
BY LeastNumber DEF Min

(* Max finds the greatest number of a set that has a bound. *)
LEMMA MaxFacts ==
  ASSUME NEW n \in Nat, NEW W \in SUBSET 0..n, W # {}
  PROVE  Max(W) \in W /\ \A k \in W : Max(W) >= k
<1> DEFINE V == {k \in 0..n : n - k \in W}
<1>1. V \in SUBSET Nat /\ V # {}
  <2>1. PICK k \in W : TRUE
    OBVIOUS
  <2>2. k \in 0..n /\ n - (n - k) = k /\ n - k \in 0..n
    OBVIOUS
  <2> QED BY <2>1, <2>2
<1>2. PICK v \in V : \A k \in V : v <= k
  BY <1>1, LeastNumber
<1>3. n - v \in W
  BY <1>2
<1>4. ASSUME NEW k \in W PROVE n - v >= k
  <2>1. k \in 0..n /\ n - (n - k) = k /\ n - k \in 0..n
    OBVIOUS
  <2>2. n - k \in V
    BY <2>1
  <2> QED BY <1>2, <2>1, <2>2
<1>5. \E x \in W : \A k \in W : x >= k
  BY <1>3, <1>4
<1> QED BY <1>5 DEF Max

(* DaysTo() of the next year, forwards and backwards from 1970. *)
LEMMA DaysToStep ==
  ASSUME NEW y \in Int
  PROVE  /\ DaysTo(y) \in Int
         /\ Leap(y) => DaysTo(y + 1) = DaysTo(y) + 366
         /\ ~Leap(y) => DaysTo(y + 1) = DaysTo(y) + 365
<1> DEFINE S(yy) == {k \in 1970..(yy - 1) : Leap(k)}
           T(yy) == {k \in yy..1969 : Leap(k)}
<1>1. ASSUME NEW yy \in Int
      PROVE  /\ IsFiniteSet(S(yy)) /\ IsFiniteSet(T(yy))
             /\ Cardinality(S(yy)) \in Nat /\ Cardinality(T(yy)) \in Nat
             /\ DaysTo(yy) = 365 * (yy - 1970) + Cardinality(S(yy)) - Cardinality(T(yy))
  <2>1. IsFiniteSet(1970..(yy - 1)) /\ IsFiniteSet(yy..1969)
    BY FS_Interval
  <2>2. S(yy) \in SUBSET (1970..(yy - 1)) /\ T(yy) \in SUBSET (yy..1969)
    OBVIOUS
  <2>3. IsFiniteSet(S(yy)) /\ IsFiniteSet(T(yy))
    BY <2>1, <2>2, FS_Subset
  <2> QED BY <2>3, FS_CardinalityType DEF DaysTo
<1>2. CASE y >= 1970
  <2>1. T(y) = {} /\ T(y + 1) = {}
    BY <1>2
  <2>2. Leap(y) => S(y + 1) = S(y) \cup {y}
    BY <1>2
  <2>3. ~Leap(y) => S(y + 1) = S(y)
    BY <1>2
  <2>4. y \notin S(y) /\ y \in Int
    OBVIOUS
  <2>5. Leap(y) => Cardinality(S(y + 1)) = Cardinality(S(y)) + 1
    <3> HIDE DEF S, T
    <3>1. IsFiniteSet(S(y))
      BY <1>1, <2>4
    <3>2. Cardinality(S(y) \cup {y}) = Cardinality(S(y)) + 1
      BY <2>4, <3>1, FS_AddElement
    <3> QED BY <2>2, <3>2
  <2>6. ~Leap(y) => Cardinality(S(y + 1)) = Cardinality(S(y))
    <3> HIDE DEF S, T
    <3> QED BY <2>3
  <2>7. Cardinality(T(y)) = 0 /\ Cardinality(T(y + 1)) = 0
    BY <2>1, FS_EmptySet
  <2>8. y + 1 \in Int
    OBVIOUS
  <2> HIDE DEF S, T
  <2> QED BY <1>1, <2>5, <2>6, <2>7, <2>8
<1>3. CASE y < 1970
  <2>1. S(y) = {} /\ S(y + 1) = {}
    BY <1>3
  <2>2. Leap(y) => T(y) = T(y + 1) \cup {y}
    BY <1>3
  <2>3. ~Leap(y) => T(y) = T(y + 1)
    BY <1>3
  <2>4. y \notin T(y + 1) /\ y + 1 \in Int
    OBVIOUS
  <2>5. Leap(y) => Cardinality(T(y)) = Cardinality(T(y + 1)) + 1
    <3> HIDE DEF S, T
    <3>1. IsFiniteSet(T(y + 1))
      BY <1>1, <2>4
    <3>2. Cardinality(T(y + 1) \cup {y}) = Cardinality(T(y + 1)) + 1
      BY <2>4, <3>1, FS_AddElement
    <3> QED BY <2>2, <3>2
  <2>6. ~Leap(y) => Cardinality(T(y)) = Cardinality(T(y + 1))
    <3> HIDE DEF S, T
    <3> QED BY <2>3
  <2>7. Cardinality(S(y)) = 0 /\ Cardinality(S(y + 1)) = 0
    BY <2>1, FS_EmptySet
  <2> HIDE DEF S, T
  <2> QED BY <1>1, <2>4, <2>5, <2>6, <2>7
<1> QED BY <1>2, <1>3

(* DaysTo() in closed form, by induction on the distance to 1970. *)
LEMMA DaysToIs ==
  ASSUME NEW y \in Int
  PROVE  DaysTo(y) = 365 * (y - 1970) + Leaps(y - 1) - 477
<1> DEFINE Ok(k) == DaysTo(k) = 365 * (k - 1970) + Leaps(k - 1) - 477
           W == {n \in Nat : ~Ok(1970 + n) \/ ~Ok(1970 - n)}
<1>1. Ok(1970)
  <2>1. {k \in 1970..(1970 - 1) : Leap(k)} = {} /\ {k \in 1970..1969 : Leap(k)} = {}
    OBVIOUS
  <2>2. Cardinality({k \in 1970..(1970 - 1) : Leap(k)}) = 0 /\ Cardinality({k \in 1970..1969 : Leap(k)}) = 0
    BY <2>1, FS_EmptySet
  <2>3. DaysTo(1970) = 0
    BY <2>2 DEF DaysTo
  <2>4. Leaps(1970 - 1) = 477
    BY DEF Leaps
  <2> QED BY <2>3, <2>4
<1>2. ASSUME NEW k \in Int PROVE Ok(k) <=> Ok(k + 1)
  <2>1. k - 1 \in Int /\ (k - 1) + 1 = k /\ k + 1 \in Int /\ (k + 1) - 1 = k
    OBVIOUS
  <2>2. /\ DaysTo(k) \in Int /\ DaysTo(k + 1) \in Int
        /\ Leap(k) => DaysTo(k + 1) = DaysTo(k) + 366
        /\ ~Leap(k) => DaysTo(k + 1) = DaysTo(k) + 365
    BY <2>1, DaysToStep
  <2>3. /\ Leaps(k - 1) \in Int /\ Leaps(k) \in Int
        /\ Leap(k) => Leaps(k) = Leaps(k - 1) + 1
        /\ ~Leap(k) => Leaps(k) = Leaps(k - 1)
    <3>1. /\ Leaps(k - 1) \in Int /\ Leaps(k) \in Int
          /\ Leap((k - 1) + 1) => Leaps((k - 1) + 1) = Leaps(k - 1) + 1
          /\ ~Leap((k - 1) + 1) => Leaps((k - 1) + 1) = Leaps(k - 1)
      BY <2>1, LeapStep
    <3> QED BY <2>1, <3>1
  <2>4. Leaps((k + 1) - 1) = Leaps(k)
    BY <2>1
  <2> QED BY <2>2, <2>3, <2>4
<1> HIDE DEF Ok
<1>3. W = {}
  <2> SUFFICES ASSUME W # {} PROVE FALSE
    OBVIOUS
  <2>1. PICK n \in W : \A k \in W : n <= k
    <3>1. W \in SUBSET Nat
      OBVIOUS
    <3> HIDE DEF W
    <3> QED BY <3>1, LeastNumber
  <2>2. n # 0 /\ n \in Nat
    BY <1>1, <2>1
  <2>3. n - 1 \in Nat /\ n - 1 \notin W
    BY <2>1, <2>2
  <2>4. Ok(1970 + (n - 1)) /\ Ok(1970 - (n - 1))
    BY <2>3
  <2>5. /\ 1970 + (n - 1) \in Int /\ (1970 + (n - 1)) + 1 = 1970 + n
        /\ 1970 - n \in Int /\ (1970 - n) + 1 = 1970 - (n - 1)
    BY <2>2
  <2>6. Ok(1970 + n) /\ Ok(1970 - n)
    BY <1>2, <2>4, <2>5
  <2> QED BY <2>1, <2>6
<1>4. CASE y >= 1970
  <2>1. y - 1970 \in Nat /\ 1970 + (y - 1970) = y
    BY <1>4
  <2>2. y - 1970 \notin W
    <3> HIDE DEF W
    <3> QED BY <1>3
  <2>3. Ok(y)
    BY <2>1, <2>2
  <2> QED BY <2>3 DEF Ok
<1>5. CASE y < 1970
  <2>1. 1970 - y \in Nat /\ 1970 - (1970 - y) = y
    BY <1>5
  <2>2. 1970 - y \notin W
    <3> HIDE DEF W
    <3> QED BY <1>3
  <2>3. Ok(y)
    BY <2>1, <2>2
  <2> QED BY <2>3 DEF Ok
<1> QED BY <1>4, <1>5

(* The number of the first day of a year, in days from 1970. *)
LEMMA NewYearIs ==
  ASSUME NEW y \in Int, y > -4800
  PROVE  GetJulianDayNumber(y, 1, 1) = Epoch + DaysTo(y)
<1> DEFINE Y == y - 1
<1>1. Y \in Int /\ y + 4799 = Y + 4800 /\ y - 1970 = Y - 1969
  OBVIOUS
<1>2. Leaps(Y + 4800) = Leaps(Y) + 1164 /\ Leaps(Y) \in Int
  <2> HIDE DEF Y
  <2>1. (Y + 4800) \div 4 = Y \div 4 + 1200 /\ Y \div 4 \in Int
    BY <1>1
  <2>2. (Y + 4800) \div 100 = Y \div 100 + 48 /\ Y \div 100 \in Int
    BY <1>1
  <2>3. (Y + 4800) \div 400 = Y \div 400 + 12 /\ Y \div 400 \in Int
    BY <1>1
  <2> QED BY <2>1, <2>2, <2>3 DEF Leaps
<1>3. Before(10) = 306
  BY DEF Before
<1>4. GetJulianDayNumber(y, 1, 1) = 1 + 306 + 365 * (y + 4799) + Leaps(Y + 4800) - 32045
  BY <1>1, <1>3, NewYear
<1>5. DaysTo(y) = 365 * (y - 1970) + Leaps(Y) - 477
  BY DaysToIs
<1> HIDE DEF Y
<1> QED BY SMT, <1>1, <1>2, <1>4, <1>5 DEF Epoch

(* The Julian day of 1970 is a number; its value stays hidden where it does not matter. *)
LEMMA EpochType == Epoch \in Nat
BY SMT DEF Epoch

(* kJulianDayOf1970, which Date computes, is the day the calendar is counted from. *)
LEMMA JulianDay1970 == JulianDayOf1970 = Epoch
<1>1. DaysTo(1970) = 0
  <2>1. Leaps(1970 - 1) = 477
    BY DEF Leaps
  <2> QED BY <2>1, DaysToIs
<1> QED BY <1>1, NewYearIs, EpochType DEF JulianDayOf1970

-----------------------------------------------------------------------------
(* UTC. *)

(* The length of a day, stated away from the ranges it would be expanded in. *)
LEMMA DayIs == SecondsPerDay = 86400
BY SMT DEF SecondsPerDay

(* The length of a day is a number. *)
LEMMA DayType == SecondsPerDay \in Nat
BY SMT DEF SecondsPerDay

(* A second before the end of the day is at most 86399. *)
LEMMA DayBound ==
  ASSUME NEW s \in Int, s <= SecondsPerDay - 1
  PROVE  s <= 86399
BY SMT, DayIs

(* The seconds of a day, as inequalities the solver can use. *)
LEMMA DayRange ==
  ASSUME NEW s \in 0..(SecondsPerDay - 1)
  PROVE  s \in Nat /\ s \in Int /\ 0 <= s /\ s <= 86399
<1>1. s \in Nat /\ s \in Int /\ 0 <= s /\ s <= SecondsPerDay - 1
  BY SMT, DayType
<1> QED BY <1>1, DayBound

(* Whole days are a whole number of seconds. *)
LEMMA DayTimes ==
  ASSUME NEW q \in Int
  PROVE  q * SecondsPerDay \in Int
BY SMT, DayIs

(* The second of a day, written as hours, minutes and seconds, and back. *)
LEMMA HmsFacts ==
  ASSUME NEW s \in 0..(SecondsPerDay - 1)
  PROVE  /\ FillHMS(s) = Hms(s)
         /\ Hms(s).hour \in 0..23 /\ Hms(s).min \in 0..59 /\ Hms(s).sec \in 0..59
         /\ s = Hms(s).hour * 3600 + Hms(s).min * 60 + Hms(s).sec
<1> DEFINE m == s \div 60
           h == m \div 60
<1>1. s \in Nat /\ s <= 86399
  BY DayRange
<1>2. m \in Nat /\ s % 60 = s - 60 * m /\ s % 60 \in 0..59 /\ m <= 1439
  BY <1>1
<1>3. s \div 3600 = h
  BY <1>1
<1>4. CDiv(s, 60) = m /\ CMod(s, 60) = s % 60
  BY <1>1, <1>2 DEF CDiv, CMod
<1> HIDE DEF m
<1>5. h \in 0..23 /\ m % 60 = m - 60 * h /\ m % 60 \in 0..59
  BY <1>2
<1>6. CDiv(m, 60) = h /\ CMod(m, 60) = m % 60
  BY <1>2, <1>5 DEF CDiv, CMod
<1>7. Hms(s) = [hour |-> h, min |-> m % 60, sec |-> s % 60]
  BY <1>3 DEF Hms, m
<1>8. FillHMS(s) = Hms(s)
  BY <1>4, <1>6, <1>7 DEF FillHMS
<1> DEFINE a == s % 60
           b == m % 60
<1>9. /\ Hms(s).hour = h /\ Hms(s).min = b /\ Hms(s).sec = a
  BY <1>7
<1>10. a = s - 60 * m /\ b = m - 60 * h /\ a \in 0..59 /\ b \in 0..59 /\ h \in 0..23
  BY <1>2, <1>5
<1> HIDE DEF h, a, b
<1>11. s = h * 3600 + b * 60 + a
  BY <1>1, <1>2, <1>10
<1> QED BY <1>8, <1>9, <1>10, <1>11

(* Splitting an instant into a day and its second, as the division of C++ does before and after 1970. *)
LEMMA SplitDay ==
  ASSUME NEW q \in Int, NEW s \in Int, 0 <= s, s <= 86399,
         NEW t \in Int, t = q * SecondsPerDay + s
  PROVE  /\ t \div SecondsPerDay = q /\ t % SecondsPerDay = s
         /\ (IF CMod(t, SecondsPerDay) < 0 THEN CDiv(t, SecondsPerDay) - 1 ELSE CDiv(t, SecondsPerDay)) = q
         /\ (IF CMod(t, SecondsPerDay) < 0 THEN CMod(t, SecondsPerDay) + SecondsPerDay
             ELSE CMod(t, SecondsPerDay)) = s
<1>1. SecondsPerDay = 86400
  BY DayIs
<1>2. t = q * 86400 + s
  BY SMT, DayIs
<1>3. s \in Int /\ 0 <= s /\ s <= 86399
  OBVIOUS
<1>4. t \div 86400 = q
  BY SMT, <1>2, <1>3
<1>5. t % 86400 = t - 86400 * (t \div 86400)
  BY SMT
<1>6. t % 86400 = s
  BY SMT, <1>2, <1>3, <1>4, <1>5
<1>7. CASE t >= 0 \/ s = 0
  <2>1. CDiv(t, 86400) = q
    BY SMT, <1>4, <1>6, <1>7 DEF CDiv
  <2>2. CMod(t, 86400) = s
    <3>1. CMod(t, 86400) = t - 86400 * q
      BY SMT, <2>1 DEF CMod
    <3> QED BY SMT, <1>2, <1>3, <3>1
  <2>3. ~(s < 0)
    BY <1>3
  <2> QED BY SMTT(30), <1>1, <1>4, <1>6, <2>1, <2>2, <2>3
<1>8. CASE t < 0 /\ s # 0
  <2>1. CDiv(t, 86400) = q + 1
    BY SMT, <1>4, <1>6, <1>8 DEF CDiv
  <2>2. CMod(t, 86400) = s - 86400
    <3>1. CMod(t, 86400) = t - 86400 * (q + 1)
      BY SMT, <2>1 DEF CMod
    <3> QED BY SMT, <1>2, <1>3, <3>1
  <2>3. s - 86400 < 0
    BY <1>3
  <2> QED BY SMTT(30), <1>1, <1>3, <1>4, <1>6, <2>1, <2>2, <2>3
<1> QED BY SMT, <1>3, <1>7, <1>8

(* The same for a second that is known to be one of a day. *)
LEMMA SplitFacts ==
  ASSUME NEW q \in Int, NEW s \in 0..(SecondsPerDay - 1),
         NEW t \in Int, t = q * SecondsPerDay + s
  PROVE  /\ t \div SecondsPerDay = q /\ t % SecondsPerDay = s
         /\ (IF CMod(t, SecondsPerDay) < 0 THEN CDiv(t, SecondsPerDay) - 1 ELSE CDiv(t, SecondsPerDay)) = q
         /\ (IF CMod(t, SecondsPerDay) < 0 THEN CMod(t, SecondsPerDay) + SecondsPerDay
             ELSE CMod(t, SecondsPerDay)) = s
<1>1. s \in Int /\ 0 <= s /\ s <= 86399
  BY DayRange
<1> QED BY <1>1, SplitDay

(* An instant and its calendar date: Date and the conversions of UTC agree with counting days. *)
LEMMA UtcFacts ==
  ASSUME NEW d, Valid(d), NEW n \in Int, n >= -Epoch, NEW s \in 0..(SecondsPerDay - 1),
         GetJulianDayNumber(d.year, d.month, d.day) = Epoch + n,
         NEW t \in Int, t = n * SecondsPerDay + s
  PROVE  /\ GetYearMonthDay(Epoch + n) = d
         /\ WeekDay(Epoch + n) = (n + 4) % 7
         /\ ToUtcTime(t) = [date |-> d, hms |-> Hms(s), wday |-> (n + 4) % 7, yday |-> n - DaysTo(d.year)]
         /\ FromUtcTime(d, Hms(s)) = t
<1>1. GetYearMonthDay(Epoch + n) = d
  BY DateInverse, Zenon
<1>2. WeekDay(Epoch + n) = (n + 4) % 7
  <2> DEFINE k == Epoch + n + 1
             j == k \div 7
  <2>1. k \in Nat /\ k = (n + 4) + 7 * 348655
    BY SMT DEF Epoch
  <2> HIDE DEF k
  <2>2. j \in Int /\ k % 7 = k - 7 * j /\ k % 7 = (n + 4) % 7
    BY <2>1
  <2>3. CDiv(k, 7) = j
    BY <2>1 DEF CDiv
  <2>4. CMod(k, 7) = k - 7 * j
    BY <2>3 DEF CMod
  <2>5. WeekDay(Epoch + n) = CMod(k, 7)
    BY DEF WeekDay, k
  <2> QED BY <2>2, <2>4, <2>5
<1>3. GetJulianDayNumber(d.year, 1, 1) = Epoch + DaysTo(d.year) /\ DaysTo(d.year) \in Int
  BY NewYearIs, DaysToStep DEF Valid
<1>4. FillHMS(s) = Hms(s)
  BY HmsFacts
<1>5. ToUtcTime(t) = [date |-> d, hms |-> Hms(s), wday |-> (n + 4) % 7, yday |-> n - DaysTo(d.year)]
  <2> DEFINE r == CMod(t, SecondsPerDay)
             q == CDiv(t, SecondsPerDay)
             julian == (IF r < 0 THEN q - 1 ELSE q) + JulianDayOf1970
             ymd == GetYearMonthDay(julian)
  <2>1. (IF r < 0 THEN q - 1 ELSE q) = n /\ (IF r < 0 THEN r + SecondsPerDay ELSE r) = s
    BY SplitFacts
  <2>2. ToUtcTime(t) = [date |-> ymd,
                        hms |-> FillHMS(IF r < 0 THEN r + SecondsPerDay ELSE r),
                        wday |-> WeekDay(julian),
                        yday |-> julian - GetJulianDayNumber(ymd.year, 1, 1)]
    BY Zenon DEF ToUtcTime
  <2>3. julian = Epoch + n
    <3>1. julian = n + Epoch
      BY <2>1, JulianDay1970, Zenon
    <3> HIDE DEF julian
    <3> QED BY <3>1, EpochType
  <2> HIDE DEF julian, r, q
  <2>4. ymd = d
    BY <1>1, <2>3
  <2>5. WeekDay(julian) = (n + 4) % 7
    BY <1>2, <2>3
  <2>6. julian - GetJulianDayNumber(ymd.year, 1, 1) = n - DaysTo(d.year)
    BY <1>3, <2>3, <2>4, EpochType
  <2> HIDE DEF ymd
  <2> QED BY <1>4, <2>1, <2>2, <2>4, <2>5, <2>6
<1>6. FromUtcTime(d, Hms(s)) = t
  <2>1. s = Hms(s).hour * 3600 + Hms(s).min * 60 + Hms(s).sec
    BY HmsFacts
  <2>2. Hms(s).hour \in Int /\ Hms(s).min \in Int /\ Hms(s).sec \in Int
    BY HmsFacts
  <2>3. FromUtcTime(d, Hms(s)) = n * SecondsPerDay + Hms(s).hour * 3600 + Hms(s).min * 60 + Hms(s).sec
    BY JulianDay1970, EpochType DEF FromUtcTime
  <2>4. n * SecondsPerDay \in Int
    BY DayTimes
  <2> QED BY <2>1, <2>2, <2>3, <2>4
<1> QED BY <1>1, <1>2, <1>5, <1>6

-----------------------------------------------------------------------------
(* Zones. *)

(* What Comp compares two transitions by. *)
Key(x, gmt) == IF gmt THEN x.gmt ELSE x.local

(* Numbers of which each is less than the next are in order. *)
LEMMA Ascending ==
  ASSUME NEW n \in Nat, NEW f, \A i \in 1..n : f[i] \in Int,
         \A i \in 1..n : i > 1 => f[i - 1] < f[i]
  PROVE  \A i, j \in 1..n : i < j => f[i] < f[j]
<1> SUFFICES ASSUME NEW i \in 1..n PROVE \A j \in 1..n : i < j => f[i] < f[j]
  OBVIOUS
<1> DEFINE W == {j \in 1..n : i < j /\ ~(f[i] < f[j])}
<1>1. W = {}
  <2> SUFFICES ASSUME W # {} PROVE FALSE
    OBVIOUS
  <2>1. W \in SUBSET Nat
    OBVIOUS
  <2>2. PICK j \in W : \A k \in W : j <= k
    <3> HIDE DEF W
    <3> QED BY <2>1, LeastNumber
  <2>3. j \in 1..n /\ i < j /\ ~(f[i] < f[j]) /\ j > 1 /\ j - 1 \in 1..n
    BY <2>2
  <2>4. j - 1 \notin W
    BY <2>2, <2>3
  <2>5. i = j - 1 \/ f[i] < f[j - 1]
    BY <2>3, <2>4
  <2>6. f[j - 1] < f[j] /\ f[j - 1] \in Int /\ f[j] \in Int /\ f[i] \in Int
    BY <2>3
  <2> QED BY <2>3, <2>5, <2>6
<1> QED BY <1>1

(* findLocalTime() finds the type after the last transition that is not later than the one it is given. *)
LEMMA FindFacts ==
  ASSUME NEW z, ZoneTable(z), NEW gmt \in BOOLEAN, NEW sentry, Key(sentry, gmt) \in Int,
         \A i, j \in DOMAIN z.trans : i < j => Key(z.trans[i], gmt) < Key(z.trans[j], gmt),
         NEW k \in 0..Len(z.trans),
         k > 0 => Key(z.trans[k], gmt) <= Key(sentry, gmt),
         k < Len(z.trans) => Key(sentry, gmt) < Key(z.trans[k + 1], gmt)
  PROVE  FindLocalTime(z, sentry, gmt) = TypeAfter(z, k)
<1> DEFINE n == Len(z.trans)
           x == Key(sentry, gmt)
           f(i) == Key(z.trans[i], gmt)
<1>1. n \in Nat /\ DOMAIN z.trans = 1..n /\ (z.trans = <<>> <=> n = 0)
  BY DEF ZoneTable
<1>2. \A i \in 1..n : f(i) \in Int
  <2> SUFFICES ASSUME NEW i \in 1..n PROVE f(i) \in Int
    OBVIOUS
  <2>1. z.trans[i] \in [gmt : Int, local : Int, idx : DOMAIN z.types]
    <3> DEFINE R == [gmt : Int, local : Int, idx : DOMAIN z.types]
    <3>1. z.trans \in Seq(R)
      BY DEF ZoneTable
    <3> HIDE DEF R
    <3>2. z.trans[i] \in R
      BY <1>1, <3>1
    <3> QED BY <3>2 DEF R
  <2>2. z.trans[i].gmt \in Int /\ z.trans[i].local \in Int
    BY <2>1
  <2> QED BY <2>2 DEF Key
<1>3. \A a, b : (Less(a, b, gmt) <=> Key(a, gmt) < Key(b, gmt)) /\ (Equal(a, b, gmt) <=> Key(a, gmt) = Key(b, gmt))
  BY DEF Less, Equal, Key
<1>4. CASE k = 0
  <2>1. z.trans = <<>> \/ Less(sentry, Head(z.trans), gmt)
    <3> SUFFICES ASSUME z.trans # <<>> PROVE Less(sentry, Head(z.trans), gmt)
      OBVIOUS
    <3>1. n > 0 /\ Head(z.trans) = z.trans[1]
      BY <1>1 DEF ZoneTable
    <3>2. x < f(1)
      BY <1>1, <1>4, <3>1
    <3> QED BY <1>3, <3>1, <3>2
  <2>2. Head(z.types) = z.types[1]
    BY DEF ZoneTable
  <2> QED BY <1>4, <2>1, <2>2 DEF FindLocalTime, TypeAfter
<1>5. CASE k > 0
  <2>1. z.trans # <<>> /\ n >= 1 /\ Head(z.trans) = z.trans[1] /\ k \in 1..n
    BY <1>1, <1>5 DEF ZoneTable
  <2>2. ~Less(sentry, Head(z.trans), gmt)
    <3>1. f(1) <= f(k) /\ f(k) <= x /\ f(1) \in Int /\ f(k) \in Int /\ x \in Int
      <4>1. k = 1 \/ 1 < k
        BY <2>1
      <4>2. 1 < k => f(1) < f(k)
        BY <1>1, <2>1
      <4>3. f(1) \in Int /\ f(k) \in Int /\ x \in Int
        BY <1>2, <2>1
      <4>4. f(k) <= x
        BY <1>5
      <4> HIDE DEF f, x
      <4> QED BY <4>1, <4>2, <4>3, <4>4
    <3>2. ~(x < f(1))
      <4> HIDE DEF f, x
      <4> QED BY <3>1
    <3> QED BY <1>3, <2>1, <3>2
  <2> DEFINE V == {i \in DOMAIN z.trans : ~Less(z.trans[i], sentry, gmt)} \cup {Len(z.trans) + 1}
             lb == IF f(k) = x THEN k ELSE k + 1
  <2>3. lb \in V
    <3>1. CASE f(k) = x
      <4>1. ~(f(k) < x) /\ k \in DOMAIN z.trans
        BY <1>1, <1>2, <2>1, <3>1
      <4> QED BY <1>3, <3>1, <4>1
    <3>2. CASE f(k) # x /\ k < n
      <4>1. k + 1 \in 1..n
        BY <1>1, <2>1, <3>2
      <4>2. x < f(k + 1)
        BY <3>2
      <4>3. ~(f(k + 1) < x) /\ k + 1 \in DOMAIN z.trans
        BY <1>1, <1>2, <4>1, <4>2
      <4> QED BY <1>3, <3>2, <4>3
    <3>3. CASE f(k) # x /\ k = n
      BY <3>3
    <3> QED BY <1>1, <2>1, <3>1, <3>2, <3>3
  <2>4. ASSUME NEW i \in V PROVE lb <= i
    <3>1. CASE i = n + 1
      BY <1>1, <2>1, <3>1
    <3>2. CASE i \in 1..n /\ ~Less(z.trans[i], sentry, gmt)
      <4>1. ~(f(i) < x) /\ f(i) \in Int /\ f(k) \in Int /\ x \in Int
        BY <1>2, <1>3, <2>1, <3>2
      <4>2. i < k => f(i) < f(k)
        BY <1>1, <2>1, <3>2
      <4>3. f(k) <= x
        BY <1>5
      <4>4. i = k => f(i) = f(k)
        OBVIOUS
      <4>5. i \in Int /\ k \in Int
        BY <2>1, <3>2
      <4> HIDE DEF f, x
      <4> QED BY <4>1, <4>2, <4>3, <4>4, <4>5
    <3> QED BY <1>1, <3>1, <3>2
  <2>5. LowerBound(z.trans, sentry, gmt) = lb
    <3>1. V \in SUBSET Nat /\ V # {}
      BY <1>1
    <3>2. LowerBound(z.trans, sentry, gmt) = Min(V)
      BY Zenon DEF LowerBound
    <3>3. lb \in Nat
      BY <2>1
    <3> HIDE DEF V, lb
    <3>4. Min(V) \in V /\ \A i \in V : Min(V) <= i
      BY <3>1, MinFacts
    <3>5. Min(V) <= lb /\ lb <= Min(V) /\ Min(V) \in Nat
      BY <2>3, <2>4, <3>1, <3>4
    <3> QED BY <3>2, <3>3, <3>5
  <2>6. (IF lb <= Len(z.trans) /\ Equal(sentry, z.trans[lb], gmt) THEN lb ELSE lb - 1) = k
    <3>1. CASE f(k) = x
      BY <1>1, <1>3, <2>1, <3>1
    <3>2. CASE f(k) # x
      <4>1. lb = k + 1 /\ lb - 1 = k /\ k + 1 \in Nat
        BY <2>1, <3>2
      <4>2. k + 1 <= n => x # f(k + 1)
        <5> SUFFICES ASSUME k + 1 <= n PROVE x # f(k + 1)
          OBVIOUS
        <5>1. x < f(k + 1) /\ f(k + 1) \in Int /\ x \in Int
          BY <1>1, <1>2, <2>1
        <5> HIDE DEF f, x
        <5> QED BY <5>1
      <4>3. ~(lb <= Len(z.trans) /\ Equal(sentry, z.trans[lb], gmt))
        BY <1>3, <4>1, <4>2
      <4> HIDE DEF lb
      <4> QED BY <4>1, <4>3
    <3> QED BY <3>1, <3>2
  <2> HIDE DEF lb
  <2>7. FindLocalTime(z, sentry, gmt) = z.types[z.trans[k].idx]
    BY <2>1, <2>2, <2>5, <2>6 DEF FindLocalTime
  <2> QED BY <1>5, <2>7 DEF TypeAfter
<1> QED BY <1>4, <1>5

(* What a zone table holds. *)
LEMMA ZoneFacts ==
  ASSUME NEW z, ZoneTable(z)
  PROVE  /\ Len(z.trans) \in Nat /\ DOMAIN z.trans = 1..Len(z.trans)
         /\ \A i \in 1..Len(z.trans) :
              /\ z.trans[i].gmt \in Int /\ z.trans[i].local \in Int /\ z.trans[i].idx \in DOMAIN z.types
              /\ z.trans[i].local = z.trans[i].gmt + TypeAfter(z, i).offset
         /\ \A k \in 0..Len(z.trans) : TypeAfter(z, k).offset \in Int /\ TypeAfter(z, k).dst \in BOOLEAN
         /\ \A i, j \in DOMAIN z.trans : i < j => z.trans[i].gmt < z.trans[j].gmt
         /\ \A i \in 1..Len(z.trans) : i > 1 => HourApart(z.trans[i - 1], z.trans[i])
<1> DEFINE R == [gmt : Int, local : Int, idx : DOMAIN z.types]
           S == [offset : Int, dst : BOOLEAN]
           n == Len(z.trans)
<1>1. z.trans \in Seq(R) /\ z.types \in Seq(S) /\ z.types # <<>>
  BY DEF ZoneTable
<1>2. n \in Nat /\ DOMAIN z.trans = 1..n
  <2> HIDE DEF R
  <2> QED BY <1>1
<1>3. ASSUME NEW i \in 1..n
      PROVE  z.trans[i].gmt \in Int /\ z.trans[i].local \in Int /\ z.trans[i].idx \in DOMAIN z.types
  <2>1. z.trans[i] \in R
    <3> HIDE DEF R
    <3> QED BY <1>1, <1>2
  <2> QED BY <2>1
<1>4. \A i \in 1..n : z.trans[i].local = z.trans[i].gmt + TypeAfter(z, i).offset
  BY <1>2 DEF ZoneTable
<1>5. ASSUME NEW k \in 0..n
      PROVE  TypeAfter(z, k).offset \in Int /\ TypeAfter(z, k).dst \in BOOLEAN
  <2>1. ASSUME NEW i \in DOMAIN z.types PROVE z.types[i] \in S
    <3> HIDE DEF S
    <3> QED BY <1>1
  <2>2. 1 \in DOMAIN z.types
    <3> HIDE DEF S
    <3> QED BY <1>1
  <2>3. TypeAfter(z, k) \in S
    <3> HIDE DEF S
    <3> QED BY <1>2, <1>3, <2>1, <2>2 DEF TypeAfter
  <2> QED BY <2>3
<1>6. \A i \in 1..n : i > 1 => HourApart(z.trans[i - 1], z.trans[i])
  BY <1>2 DEF ZoneTable
<1>7. \A i, j \in 1..n : i < j => z.trans[i].gmt < z.trans[j].gmt
  <2> DEFINE f == [i \in 1..n |-> z.trans[i].gmt]
  <2>1. \A i \in 1..n : f[i] \in Int
    BY <1>3
  <2>2. \A i \in 1..n : i > 1 => f[i - 1] < f[i]
    <3> SUFFICES ASSUME NEW i \in 1..n, i > 1 PROVE f[i - 1] < f[i]
      OBVIOUS
    <3>1. i - 1 \in 1..n
      BY <1>2
    <3>2. z.trans[i - 1].gmt + 3600 < z.trans[i].gmt
      BY <1>6 DEF HourApart
    <3>3. f[i - 1] = z.trans[i - 1].gmt /\ f[i] = z.trans[i].gmt
      BY <3>1
    <3> HIDE DEF f
    <3> QED BY <1>3, <3>1, <3>2, <3>3
  <2>3. \A i \in 1..n : f[i] = z.trans[i].gmt
    OBVIOUS
  <2> HIDE DEF f
  <2>4. \A i, j \in 1..n : i < j => f[i] < f[j]
    BY <1>2, <2>1, <2>2, Ascending
  <2> QED BY <2>3, <2>4
<1> QED BY <1>2, <1>3, <1>4, <1>5, <1>6, <1>7

(* Transition k is the last one at or before instant t. *)
InForce(z, t, k) ==
  /\ k \in 0..Len(z.trans)
  /\ k > 0 => z.trans[k].gmt <= t
  /\ k < Len(z.trans) => t < z.trans[k + 1].gmt

(* The day an instant falls on, and the second of that day. *)
DayOf(t) == t \div SecondsPerDay
SecondOf(t) == t % SecondsPerDay

(* There is one at every instant, and the offset that Shown() adds is of the type after it. *)
LEMMA InForceFacts ==
  ASSUME NEW z, ZoneTable(z), NEW t \in Int
  PROVE  \E k \in 0..Len(z.trans) :
           /\ InForce(z, t, k)
           /\ z # NoZone =>
                Shown(z, t) = [day |-> DayOf(t + TypeAfter(z, k).offset),
                               hms |-> Hms(SecondOf(t + TypeAfter(z, k).offset))]
<1> DEFINE n == Len(z.trans)
           past == {i \in DOMAIN z.trans : z.trans[i].gmt <= t}
           k == IF past = {} THEN 0 ELSE Max(past)
<1>1. n \in Nat /\ DOMAIN z.trans = 1..n /\ (\A i \in 1..n : z.trans[i].gmt \in Int)
  BY ZoneFacts
<1>2. past # {} => Max(past) \in past /\ \A i \in past : Max(past) >= i
  <2>1. past \in SUBSET 0..n
    BY <1>1
  <2> HIDE DEF past
  <2> QED BY <1>1, <2>1, MaxFacts
<1>3. k \in 0..n /\ (k > 0 => z.trans[k].gmt <= t)
  <2>1. CASE past = {}
    BY <1>1, <2>1
  <2>2. CASE past # {}
    <3>1. Max(past) \in 1..n /\ z.trans[Max(past)].gmt <= t
      BY <1>1, <1>2, <2>2
    <3> HIDE DEF past
    <3> QED BY <2>2, <3>1
  <2> QED BY <2>1, <2>2
<1>4. ASSUME k < n PROVE t < z.trans[k + 1].gmt
  <2>1. k + 1 \in 1..n
    BY <1>1, <1>3, <1>4
  <2>2. k + 1 \notin past
    <3>1. CASE past = {}
      <4> HIDE DEF past
      <4> QED BY <3>1
    <3>2. CASE past # {}
      <4>1. \A i \in past : k >= i
        BY <1>2, <3>2
      <4>2. ~(k >= k + 1)
        BY <1>3
      <4> HIDE DEF past, k
      <4> QED BY <4>1, <4>2
    <3> QED BY <3>1, <3>2
  <2>3. ~(z.trans[k + 1].gmt <= t) /\ z.trans[k + 1].gmt \in Int
    <3> HIDE DEF k
    <3> QED BY <1>1, <2>1, <2>2
  <2> HIDE DEF k
  <2> QED BY <2>3
<1>5. InForce(z, t, k)
  BY <1>3, <1>4 DEF InForce
<1>6. ASSUME z # NoZone
      PROVE  Shown(z, t) = [day |-> DayOf(t + TypeAfter(z, k).offset),
                            hms |-> Hms(SecondOf(t + TypeAfter(z, k).offset))]
  <2>1. (CASE z = NoZone -> 0
           [] z # NoZone /\ past = {} -> z.types[1].offset
           [] OTHER -> z.types[z.trans[Max(past)].idx].offset) = TypeAfter(z, k).offset
    <3>1. CASE past = {}
      <4> HIDE DEF past
      <4> QED BY <1>6, <3>1 DEF TypeAfter
    <3>2. CASE past # {}
      <4>1. Max(past) \in 1..n
        BY <1>1, <1>2, <3>2
      <4> HIDE DEF past
      <4> QED BY <1>6, <3>2, <4>1 DEF TypeAfter
    <3> QED BY <3>1, <3>2
  <2>2. (IF z = NoZone THEN {} ELSE {i \in DOMAIN z.trans : z.trans[i].gmt <= t}) = past
    BY <1>6
  <2> HIDE DEF past
  <2> QED BY <2>1, <2>2 DEF Shown, DayOf, SecondOf
<1> HIDE DEF k
<1> QED BY <1>3, <1>5, <1>6

(* Any instant is a day and a second of it. *)
LEMMA DayAndSecond ==
  ASSUME NEW t \in Int
  PROVE  /\ DayOf(t) \in Int /\ SecondOf(t) \in 0..(SecondsPerDay - 1)
         /\ t = DayOf(t) * SecondsPerDay + SecondOf(t)
         /\ FillHMS(SecondOf(t)) = Hms(SecondOf(t))
<1> DEFINE q == t \div 86400
           s == t % 86400
<1>1. q \in Int /\ s \in Int /\ 0 <= s /\ s <= 86399
  BY SMT
<1>2. s = t - 86400 * q
  BY SMT
<1>3. DayOf(t) = q /\ SecondOf(t) = s
  BY SMT DEF SecondsPerDay, DayOf, SecondOf
<1> HIDE DEF q, s
<1>4. t = q * SecondsPerDay + s
  BY SMT, <1>1, <1>2 DEF SecondsPerDay
<1>5. s \in 0..(SecondsPerDay - 1)
  <2>1. SecondsPerDay - 1 \in Int /\ s <= SecondsPerDay - 1
    BY SMT, <1>1 DEF SecondsPerDay
  <2> QED BY <1>1, <2>1
<1>6. FillHMS(s) = Hms(s)
  BY <1>5, HmsFacts
<1> QED BY <1>1, <1>3, <1>4, <1>5, <1>6

(* timegm() is the inverse of gmtime_r(), as toLocalTime() writes the time. *)
LEMMA TimegmFacts ==
  ASSUME NEW t \in Int, NEW dst
  PROVE  Timegm([day |-> DayOf(t), hms |-> Hms(SecondOf(t)), dst |-> dst]) = t
<1> DEFINE q == DayOf(t)
           s == SecondOf(t)
           h == Hms(s)
<1>1. q \in Int /\ s \in 0..(SecondsPerDay - 1) /\ t = q * SecondsPerDay + s
  BY DayAndSecond
<1> HIDE DEF q, s
<1>2. h.hour \in Int /\ h.min \in Int /\ h.sec \in Int /\ s = h.hour * 3600 + h.min * 60 + h.sec
  BY <1>1, HmsFacts
<1>3. q * SecondsPerDay \in Int
  BY <1>1, DayTimes
<1> HIDE DEF h
<1>4. Timegm([day |-> q, hms |-> h, dst |-> dst]) = q * SecondsPerDay + h.hour * 3600 + h.min * 60 + h.sec
  BY DEF Timegm
<1>5. Timegm([day |-> q, hms |-> h, dst |-> dst]) = t
  BY <1>1, <1>2, <1>3, <1>4
<1> QED BY <1>5 DEF q, s, h

(* toLocalTime() uses the type in force. *)
LEMMA LocalTimeFacts ==
  ASSUME NEW z, ZoneTable(z), NEW t \in Int, NEW k, InForce(z, t, k)
  PROVE  ToLocalTime(z, t) = [day |-> DayOf(t + TypeAfter(z, k).offset),
                              hms |-> Hms(SecondOf(t + TypeAfter(z, k).offset)),
                              dst |-> TypeAfter(z, k).dst]
<1> DEFINE sentry == Transition(t, 0, 0)
           o == TypeAfter(z, k).offset
<1>1. Key(sentry, TRUE) = t
  BY DEF Key, Transition
<1>2. \A x : Key(x, TRUE) = x.gmt
  BY DEF Key
<1>3. k \in 0..Len(z.trans) /\ o \in Int /\ Len(z.trans) \in Nat
  BY ZoneFacts DEF InForce
<1>4. FindLocalTime(z, sentry, TRUE) = TypeAfter(z, k)
  <2>1. \A i, j \in DOMAIN z.trans : i < j => Key(z.trans[i], TRUE) < Key(z.trans[j], TRUE)
    BY <1>2, ZoneFacts
  <2>2. /\ k > 0 => Key(z.trans[k], TRUE) <= Key(sentry, TRUE)
        /\ k < Len(z.trans) => Key(sentry, TRUE) < Key(z.trans[k + 1], TRUE)
    BY <1>1, <1>2 DEF InForce
  <2>3. Key(sentry, TRUE) \in Int
    BY <1>1
  <2> HIDE DEF sentry
  <2> QED BY <1>3, <2>1, <2>2, <2>3, FindFacts
<1>5. t + o \in Int
  BY <1>3
<1>6. Gmtime(t + o) = [day |-> DayOf(t + o), hms |-> Hms(SecondOf(t + o))]
  <2> HIDE DEF o
  <2> QED BY <1>5, DayAndSecond DEF Gmtime, DayOf, SecondOf
<1>7. ToLocalTime(z, t) = [day |-> Gmtime(t + o).day, hms |-> Gmtime(t + o).hms, dst |-> TypeAfter(z, k).dst]
  BY <1>4 DEF ToLocalTime
<1>8. Gmtime(t + o).day = DayOf(t + o) /\ Gmtime(t + o).hms = Hms(SecondOf(t + o))
  <2> HIDE DEF o
  <2> QED BY <1>6
<1> QED BY <1>7, <1>8

(* fromLocalTime(): try is the second look. *)
Repeated(tm, try) == tm.dst /\ ~try.dst /\ try.hms.hour = tm.hms.hour /\ try.hms.min = tm.hms.min
GoesBack(z, tm, try, L, offset) ==
  /\ Repeated(tm, try) => FromLocalTime(z, tm) = L - 3600 - offset
  /\ ~Repeated(tm, try) => FromLocalTime(z, tm) = L - offset

(* What fromLocalTime() returns, once its two searches are known. *)
LEMMA FromLocalTimeFacts ==
  ASSUME NEW z, NEW tm, NEW L, Timegm(tm) = L,
         NEW type, FindLocalTime(z, Transition(0, L, 0), FALSE) = type,
         NEW try, ToLocalTime(z, L - type.offset) = try
  PROVE  GoesBack(z, tm, try, L, type.offset)
<1> DEFINE seconds == Timegm(tm)
           local == FindLocalTime(z, Transition(0, seconds, 0), FALSE)
           second == ToLocalTime(z, seconds - local.offset)
<1>1. FromLocalTime(z, tm) = (IF Repeated(tm, second) THEN seconds - 3600 ELSE seconds) - local.offset
  BY DEF FromLocalTime, Repeated
<1>2. seconds = L
  OBVIOUS
<1>3. local = type
  BY <1>2, Zenon
<1>4. second = try
  BY <1>2, <1>3, Zenon
<1> HIDE DEF seconds, local, second
<1> QED BY <1>1, <1>2, <1>3, <1>4 DEF GoesBack

(* fromLocalTime() brings back the instant that toLocalTime() was given, in the hour of daylight saving
   that clocks repeat too. *)
LEMMA RoundTrip ==
  ASSUME NEW z, ZoneTable(z), NEW t \in Int, Tellable(z, t)
  PROVE  FromLocalTime(z, ToLocalTime(z, t)) = t
<1> DEFINE n == Len(z.trans)
           o(i) == TypeAfter(z, i).offset
           g(i) == z.trans[i].gmt
           l(i) == z.trans[i].local
<1>1. n \in Nat /\ DOMAIN z.trans = 1..n
  BY ZoneFacts
<1>2. \A i \in 1..n : g(i) \in Int /\ l(i) \in Int /\ l(i) = g(i) + o(i)
  BY ZoneFacts
<1>3. \A i \in 0..n : o(i) \in Int /\ TypeAfter(z, i).dst \in BOOLEAN
  BY ZoneFacts
<1>4. \A i \in 1..n : i > 1 => HourApart(z.trans[i - 1], z.trans[i])
  BY ZoneFacts
<1>5. PICK k \in 0..n : InForce(z, t, k)
  BY InForceFacts
<1>6. (k > 0 => g(k) <= t) /\ (k < n => t < g(k + 1))
  BY <1>5 DEF InForce
<1> DEFINE L == t + o(k)
           tm == [day |-> DayOf(L), hms |-> Hms(SecondOf(L)), dst |-> TypeAfter(z, k).dst]
           sentry == Transition(0, L, 0)
<1>7. ToLocalTime(z, t) = tm
  BY <1>5, LocalTimeFacts
<1>8. L \in Int
  BY <1>3
<1>9. Timegm(tm) = L
  <2> HIDE DEF L
  <2> QED BY <1>8, TimegmFacts
<1>10. \A i, j \in 1..n : i < j => l(i) < l(j)
  <2> DEFINE f == [i \in 1..n |-> l(i)]
  <2>1. \A i \in 1..n : f[i] = l(i) /\ f[i] \in Int
    BY <1>2
  <2>2. ASSUME NEW i \in 1..n, i > 1 PROVE f[i - 1] < f[i]
    <3>1. i - 1 \in 1..n
      BY <1>1, <2>2
    <3>3. l(i - 1) + 3600 < l(i)
      BY <1>4, <2>2 DEF HourApart
    <3>2. f[i - 1] = l(i - 1) /\ f[i] = l(i) /\ f[i - 1] \in Int /\ f[i] \in Int
      BY <2>1, <3>1
    <3> HIDE DEF f, l
    <3> QED BY <3>2, <3>3
  <2> HIDE DEF f, l
  <2>3. \A i, j \in 1..n : i < j => f[i] < f[j]
    BY <1>1, <2>1, <2>2, Ascending
  <2> QED BY <2>1, <2>3
<1>11. ASSUME NEW j \in 0..n, j > 0 => l(j) <= L, j < n => L < l(j + 1)
       PROVE  FindLocalTime(z, sentry, FALSE) = TypeAfter(z, j)
  <2>1. Key(sentry, FALSE) = L
    BY DEF Key, Transition
  <2>2. \A i : Key(z.trans[i], FALSE) = l(i)
    BY DEF Key
  <2> HIDE DEF sentry, L, l
  <2>3. \A i, i2 \in DOMAIN z.trans : i < i2 => Key(z.trans[i], FALSE) < Key(z.trans[i2], FALSE)
    BY <1>1, <1>10, <2>2
  <2>4. /\ j > 0 => Key(z.trans[j], FALSE) <= Key(sentry, FALSE)
        /\ j < Len(z.trans) => Key(sentry, FALSE) < Key(z.trans[j + 1], FALSE)
    BY <1>11, <2>1, <2>2
  <2>5. Key(sentry, FALSE) \in Int
    BY <1>8, <2>1
  <2> QED BY <1>11, <2>3, <2>4, <2>5, FindFacts
<1>12. ASSUME NEW j \in 0..n, FindLocalTime(z, sentry, FALSE) = TypeAfter(z, j),
              NEW try, ToLocalTime(z, L - o(j)) = try
       PROVE  GoesBack(z, tm, try, L, o(j))
  <2> DEFINE type == TypeAfter(z, j)
  <2>1. FindLocalTime(z, Transition(0, L, 0), FALSE) = type /\ ToLocalTime(z, L - type.offset) = try
    BY <1>12
  <2> HIDE DEF tm, L, type
  <2>2. GoesBack(z, tm, try, L, type.offset)
    BY <1>9, <2>1, FromLocalTimeFacts
  <2> QED BY <2>2 DEF type
<1>13. k > 0 => l(k) <= L
  <2> SUFFICES ASSUME k > 0 PROVE l(k) <= L
    OBVIOUS
  <2>1. k \in 1..n
    BY <1>1
  <2>2. l(k) = g(k) + o(k) /\ g(k) \in Int /\ o(k) \in Int /\ g(k) <= t
    BY <1>2, <1>3, <1>6, <2>1
  <2> HIDE DEF l, g, o
  <2> QED BY <2>2
<1>14. CASE k < n => L < l(k + 1)
  <2>1. FindLocalTime(z, sentry, FALSE) = TypeAfter(z, k)
    BY <1>11, <1>13, <1>14
  <2>2. L - o(k) = t
    BY <1>3
  <2>3. ToLocalTime(z, L - o(k)) = tm
    BY <1>7, <2>2
  <2>4. ~Repeated(tm, tm)
    <3> HIDE DEF tm
    <3> QED BY DEF Repeated
  <2>5. FromLocalTime(z, tm) = L - o(k)
    <3> HIDE DEF tm, L, o, sentry
    <3>1. GoesBack(z, tm, tm, L, o(k))
      BY <1>12, <2>1, <2>3
    <3> QED BY <2>4, <3>1 DEF GoesBack
  <2> QED BY <1>7, <2>2, <2>5
<1>15. CASE k < n /\ l(k + 1) <= L
  <2>1. k + 1 \in 1..n /\ k + 1 \in 0..n /\ k \in 0..n /\ (k + 1) - 1 = k
    BY <1>1, <1>15
  <2>2. /\ g(k + 1) \in Int /\ l(k + 1) = g(k + 1) + o(k + 1) /\ o(k + 1) \in Int /\ o(k) \in Int
        /\ t < g(k + 1) /\ l(k + 1) <= t + o(k)
    BY <1>2, <1>3, <1>6, <1>15, <2>1
  <2>3. o(k + 1) = o(k) - 3600 /\ TypeAfter(z, k).dst /\ ~TypeAfter(z, k + 1).dst
    <3>1. k + 1 > 1 => g(k) <= t
      BY <1>6, <2>1
    <3>2. \/ t + o(k) < l(k + 1)
          \/ o(k + 1) = o(k) - 3600 /\ TypeAfter(z, k).dst /\ ~TypeAfter(z, k + 1).dst
      <4> DEFINE i == k + 1
      <4>1. i \in DOMAIN z.trans /\ i - 1 = k /\ t < z.trans[i].gmt /\ (i > 1 => z.trans[i - 1].gmt <= t)
        BY <1>1, <2>1, <2>2, <3>1
      <4> HIDE DEF i
      <4>2. \/ t + o(i - 1) < l(i)
            \/ o(i) = o(i - 1) - 3600 /\ TypeAfter(z, i - 1).dst /\ ~TypeAfter(z, i).dst
        BY <4>1 DEF Tellable
      <4> QED BY <4>1, <4>2 DEF i
    <3>3. ~(t + o(k) < l(k + 1))
      <4> HIDE DEF o, g, l
      <4> QED BY <2>2
    <3> QED BY <3>2, <3>3
  <2>4. k + 1 < n => /\ g(k + 2) \in Int /\ g(k + 1) + 3600 < g(k + 2)
                     /\ l(k + 2) \in Int /\ l(k + 1) + 3600 < l(k + 2)
    <3> SUFFICES ASSUME k + 1 < n
                 PROVE  /\ g(k + 2) \in Int /\ g(k + 1) + 3600 < g(k + 2)
                        /\ l(k + 2) \in Int /\ l(k + 1) + 3600 < l(k + 2)
      OBVIOUS
    <3>1. k + 2 \in 1..n /\ k + 2 > 1 /\ (k + 2) - 1 = k + 1
      BY <1>1, <2>1
    <3>2. g(k + 2) \in Int /\ l(k + 2) \in Int
      BY <1>2, <3>1
    <3>3. g(k + 1) + 3600 < g(k + 2) /\ l(k + 1) + 3600 < l(k + 2)
      BY <1>4, <3>1 DEF HourApart
    <3> QED BY <3>2, <3>3
  <2>5. k + 1 < n => L < l((k + 1) + 1)
    <3>1. (k + 1) + 1 = k + 2
      BY <2>1
    <3>2. k + 1 < n => t + o(k) < l(k + 2)
      <4> HIDE DEF o, g, l
      <4> QED BY SMTT(30), <2>2, <2>3, <2>4
    <3> QED BY <3>1, <3>2
  <2>6. FindLocalTime(z, sentry, FALSE) = TypeAfter(z, k + 1)
    <3> HIDE DEF sentry, L, l
    <3> QED BY <1>11, <1>15, <2>1, <2>5
  <2>7. L - o(k + 1) = t + 3600
    <3> HIDE DEF o
    <3> QED BY <2>2, <2>3 DEF L
  <2>8. InForce(z, t + 3600, k + 1)
    <3>1. g(k + 1) <= t + 3600 /\ (k + 1 < n => t + 3600 < g(k + 2))
      <4> HIDE DEF o, g, l
      <4> QED BY SMTT(30), <2>2, <2>3, <2>4
    <3>2. (k + 1) + 1 = k + 2
      BY <2>1
    <3> QED BY <2>1, <3>1, <3>2 DEF InForce
  <2> DEFINE try == [day |-> DayOf(L), hms |-> Hms(SecondOf(L)), dst |-> TypeAfter(z, k + 1).dst]
  <2>9. ToLocalTime(z, L - o(k + 1)) = try
    <3>1. (t + 3600) + o(k + 1) = L /\ t + 3600 \in Int
      <4> HIDE DEF o
      <4> QED BY <2>2, <2>3 DEF L
    <3>2. ToLocalTime(z, t + 3600) = [day |-> DayOf((t + 3600) + o(k + 1)),
                                      hms |-> Hms(SecondOf((t + 3600) + o(k + 1))),
                                      dst |-> TypeAfter(z, k + 1).dst]
      BY <2>8, <3>1, LocalTimeFacts
    <3> HIDE DEF L, o
    <3> QED BY <2>7, <3>1, <3>2
  <2>10. tm.dst /\ ~try.dst /\ try.hms = tm.hms
    <3> HIDE DEF L
    <3> QED BY <2>3
  <2>11. Repeated(tm, try)
    <3> HIDE DEF tm, try
    <3> QED BY <2>10 DEF Repeated
  <2>12. FromLocalTime(z, tm) = L - 3600 - o(k + 1)
    <3> HIDE DEF tm, try, L, o, sentry
    <3>1. GoesBack(z, tm, try, L, o(k + 1))
      BY <1>12, <2>1, <2>6, <2>9
    <3> QED BY <2>11, <3>1 DEF GoesBack
  <2>13. L - 3600 - o(k + 1) = t
    <3> HIDE DEF o
    <3> QED BY <2>2, <2>3 DEF L
  <2> QED BY <1>7, <2>12, <2>13
<1>16. k < n => l(k + 1) \in Int
  BY <1>1, <1>2
<1>17. (k < n => L < l(k + 1)) \/ (k < n /\ l(k + 1) <= L)
  <2> HIDE DEF L, l
  <2> QED BY <1>8, <1>16
<1> QED BY <1>14, <1>15, <1>17

-----------------------------------------------------------------------------
(* The clock. *)

(* The inductive invariant of the clock: it shows a date of the calendar and counts its days. *)
ClockInv ==
  /\ Valid(date) /\ days \in Int /\ days >= -Epoch
  /\ GetJulianDayNumber(date.year, date.month, date.day) = Epoch + days
  /\ sec \in Secs /\ sec \in 0..(SecondsPerDay - 1)

(* The first day of a year has a number that is not negative. *)
LEMMA NewYearFacts ==
  ASSUME NEW y \in Years
  PROVE  y \in Int /\ y > -4800 /\ DaysTo(y) \in Int /\ DaysTo(y) >= -Epoch
<1>1. y \in Int /\ y > -4713
  BY LoggerConstants
<1>2. y > -4800 /\ DaysTo(y) \in Int
  BY <1>1, DaysToStep
<1> DEFINE Y == y - 1
           a == Y \div 4
           b == Y \div 100
           c == Y \div 400
<1>3. DaysTo(y) = 365 * (y - 1970) + (a - b + c) - 477
  BY <1>1, DaysToIs DEF Leaps
<1>4. Y \in Int /\ Y > -4714 /\ y = Y + 1
  BY <1>1
<1> HIDE DEF Y
<1>5. a \in Int /\ 4 * a <= Y /\ Y <= 4 * a + 3
  BY <1>4
<1>6. b \in Int /\ 100 * b <= Y /\ Y <= 100 * b + 99
  BY <1>4
<1>7. c \in Int /\ 400 * c <= Y /\ Y <= 400 * c + 399
  BY <1>4
<1> HIDE DEF a, b, c
<1>8. DaysTo(y) >= -Epoch
  BY SMT, <1>3, <1>4, <1>5, <1>6, <1>7 DEF Epoch
<1> QED BY <1>1, <1>2, <1>8

(* The clock starts on the first day of a year: date and day agree. *)
LEMMA ClockInit ==
  ASSUME Init
  PROVE  ClockInv
<1>1. PICK y \in Years : date = [year |-> y, month |-> 1, day |-> 1] /\ days = DaysTo(y)
  BY DEF Init
<1>2. y \in Int /\ y > -4800 /\ DaysTo(y) \in Int /\ DaysTo(y) >= -Epoch
  BY NewYearFacts
<1>3. Valid(date)
  BY <1>1, <1>2, DaysInFacts DEF Valid
<1>4. GetJulianDayNumber(date.year, date.month, date.day) = Epoch + days
  BY <1>1, <1>2, NewYearIs
<1>5. sec \in Secs /\ sec \in 0..(SecondsPerDay - 1)
  BY LoggerConstants DEF Init
<1> QED BY <1>1, <1>2, <1>3, <1>4, <1>5 DEF ClockInv

(* A tick moves the date and the day together. *)
LEMMA ClockStep ==
  ASSUME ClockInv, [Next]_vars
  PROVE  ClockInv'
<1>1. CASE Tick
  <2> DEFINE later == {s \in Secs : s > sec}
  <2>1. Secs \subseteq 0..(SecondsPerDay - 1) /\ 0 \in Secs
    BY LoggerConstants
  <2>2. CASE later # {}
    <3>1. later \in SUBSET Nat
      <4> SUFFICES ASSUME NEW s \in Secs PROVE s \in Nat
        OBVIOUS
      <4>1. s \in 0..(SecondsPerDay - 1)
        BY <2>1
      <4> QED BY <4>1, DayType
    <3>2. Min(later) \in later
      <4> HIDE DEF later
      <4> QED BY <2>2, <3>1, MinFacts
    <3>3. sec' = Min(later) /\ date' = date /\ days' = days
      BY <1>1, <2>2 DEF Tick
    <3>4. sec' \in Secs /\ sec' \in 0..(SecondsPerDay - 1)
      BY <2>1, <3>2, <3>3
    <3> QED BY <3>3, <3>4 DEF ClockInv
  <2>3. CASE later = {}
    <3>1. date' = Tomorrow(date) /\ days' = days + 1 /\ sec' = 0
      BY <1>1, <2>3 DEF Tick
    <3>2. Valid(date')
      BY <3>1, TomorrowFacts DEF ClockInv
    <3>3. GetJulianDayNumber(date'.year, date'.month, date'.day) = Epoch + days'
      <4>1. GetJulianDayNumber(date'.year, date'.month, date'.day) = (Epoch + days) + 1
        BY <3>1, TomorrowFacts DEF ClockInv
      <4> QED BY <3>1, <4>1, EpochType DEF ClockInv
    <3>4. days' \in Int /\ days' >= -Epoch
      BY <3>1, EpochType DEF ClockInv
    <3>5. sec' \in Secs /\ sec' \in 0..(SecondsPerDay - 1)
      BY <2>1, <3>1
    <3> QED BY <3>2, <3>3, <3>4, <3>5 DEF ClockInv
  <2> QED BY <2>2, <2>3
<1>2. ASSUME UNCHANGED clock PROVE ClockInv'
  BY <1>2 DEF clock, ClockInv
<1>3. ~Tick => UNCHANGED clock
  BY DEF Next, vars, clock, SetTimeZone, SetLogLevel, Build, Finish
<1> QED BY <1>1, <1>2, <1>3

(* Where the clock stands, Date and TimeZone agree with it. *)
LEMMA ClockAgrees ==
  ASSUME ClockInv
  PROVE  CalendarAgrees /\ InstantAgrees
<1> DEFINE julian == GetJulianDayNumber(date.year, date.month, date.day)
<1>1. Now \in Int /\ Now = days * SecondsPerDay + sec /\ days \in Int /\ sec \in 0..(SecondsPerDay - 1)
  <2>1. days \in Int /\ sec \in 0..(SecondsPerDay - 1)
    BY DEF ClockInv
  <2> QED BY <2>1, DayType DEF Now
<1>2. /\ GetYearMonthDay(Epoch + days) = date
      /\ WeekDay(Epoch + days) = (days + 4) % 7
      /\ ToUtcTime(Now) = [date |-> date, hms |-> Hms(sec), wday |-> (days + 4) % 7,
                           yday |-> days - DaysTo(date.year)]
      /\ FromUtcTime(date, Hms(sec)) = Now
  BY <1>1, UtcFacts DEF ClockInv
<1>3. ASSUME NEW z \in Zones
      PROVE  LET tm == ToLocalTime(z, Now)
             IN  /\ [day |-> tm.day, hms |-> tm.hms] = Shown(z, Now)
                 /\ Tellable(z, Now) => FromLocalTime(z, tm) = Now
  <2>1. ZoneTable(z) /\ z # NoZone
    BY LoggerConstants
  <2> DEFINE t == Now
  <2>2. t \in Int
    BY <1>1
  <2> HIDE DEF t
  <2>3. PICK k \in 0..Len(z.trans) :
          /\ InForce(z, t, k)
          /\ Shown(z, t) = [day |-> DayOf(t + TypeAfter(z, k).offset),
                            hms |-> Hms(SecondOf(t + TypeAfter(z, k).offset))]
    BY <2>1, <2>2, InForceFacts
  <2>4. ToLocalTime(z, t) = [day |-> DayOf(t + TypeAfter(z, k).offset),
                             hms |-> Hms(SecondOf(t + TypeAfter(z, k).offset)),
                             dst |-> TypeAfter(z, k).dst]
    BY <2>1, <2>2, <2>3, LocalTimeFacts
  <2>5. [day |-> ToLocalTime(z, t).day, hms |-> ToLocalTime(z, t).hms] = Shown(z, t)
    BY <2>3, <2>4
  <2>6. Tellable(z, t) => FromLocalTime(z, ToLocalTime(z, t)) = t
    BY <2>1, <2>2, RoundTrip
  <2> QED BY <2>5, <2>6 DEF t
<1>4. julian = Epoch + days
  BY DEF ClockInv
<1>5. GetYearMonthDay(julian) = date /\ WeekDay(julian) = (days + 4) % 7
  BY <1>2, <1>4
<1>6. InstantAgrees
  BY <1>2, <1>3 DEF InstantAgrees
<1> QED BY <1>4, <1>5, <1>6 DEF CalendarAgrees

(* The date the clock shows is the one its count of days stands for. *)
LEMMA ClockInvariant == Spec => []ClockInv
<1>1. Init => ClockInv
  BY ClockInit
<1>2. ClockInv /\ [Next]_vars => ClockInv'
  BY ClockStep
<1> QED BY <1>1, <1>2, PTL DEF Spec

(* On every day of the clock Date computes the day's number, its inverse and its weekday as counting
   days does, and in the years the run can check the conversions of time agree with it too: for any
   zones and years. *)
THEOREM CalendarAlwaysAgrees == Spec => []CalendarAgrees
<1>1. ClockInv => CalendarAgrees
  BY ClockAgrees
<1> QED BY <1>1, ClockInvariant, PTL

(* In every second of every year toUtcTime() gives the fields of the calendar and toLocalTime() the
   clock of every zone, fromUtcTime() brings back the instant, and so does fromLocalTime() unless a
   change other than the hour of daylight saving shows the same time again: the part of CalendarAgrees
   that the run checks from 1902 to 2037 only, without the years. *)
THEOREM InstantsAlwaysAgree == Spec => []InstantAgrees
<1>1. ClockInv => InstantAgrees
  BY ClockAgrees
<1> QED BY <1>1, ClockInvariant, PTL

-----------------------------------------------------------------------------
(* The digits of a number. *)

(* One turn of the loop of convert() and convertHex(). *)
DigitsStep(base, f, i) ==
  Append(IF CDiv(i, base) = 0 THEN <<>> ELSE f[CDiv(i, base)], Digit(CMod(i, base)))

(* The quotient of a turn is nearer to zero, and keeps the sign. *)
LEMMA QuotientFacts ==
  ASSUME NEW base \in {10, 16}, NEW i \in Int
  PROVE  /\ CDiv(i, base) \in Int /\ CMod(i, base) \in Int
         /\ i = base * CDiv(i, base) + CMod(i, base)
         /\ i = 0 => CDiv(i, base) = 0
         /\ i > 0 => CDiv(i, base) >= 0 /\ CDiv(i, base) < i
         /\ i < 0 => CDiv(i, base) <= 0 /\ CDiv(i, base) > i
         /\ i >= 0 => CMod(i, base) >= 0
         /\ i <= 0 => CMod(i, base) <= 0
<1>1. CASE base = 10
  <2> DEFINE q == CDiv(i, 10)
  <2>1. /\ q \in Int /\ (i >= 0 => 10 * q <= i /\ i <= 10 * q + 9)
        /\ (i < 0 => 10 * q >= i /\ i >= 10 * q - 9)
    BY DEF CDiv
  <2>2. CMod(i, 10) = i - 10 * q
    BY DEF CMod
  <2> HIDE DEF q
  <2>3. /\ q \in Int /\ i - 10 * q \in Int /\ i = 10 * q + (i - 10 * q)
        /\ (i = 0 => q = 0) /\ (i > 0 => q >= 0 /\ q < i) /\ (i < 0 => q <= 0 /\ q > i)
        /\ (i >= 0 => i - 10 * q >= 0) /\ (i <= 0 => i - 10 * q <= 0)
    BY <2>1
  <2> QED BY <1>1, <2>2, <2>3 DEF q
<1>2. CASE base = 16
  <2> DEFINE q == CDiv(i, 16)
  <2>1. /\ q \in Int /\ (i >= 0 => 16 * q <= i /\ i <= 16 * q + 15)
        /\ (i < 0 => 16 * q >= i /\ i >= 16 * q - 15)
    BY DEF CDiv
  <2>2. CMod(i, 16) = i - 16 * q
    BY DEF CMod
  <2> HIDE DEF q
  <2>3. /\ q \in Int /\ i - 16 * q \in Int /\ i = 16 * q + (i - 16 * q)
        /\ (i = 0 => q = 0) /\ (i > 0 => q >= 0 /\ q < i) /\ (i < 0 => q <= 0 /\ q > i)
        /\ (i >= 0 => i - 16 * q >= 0) /\ (i <= 0 => i - 16 * q <= 0)
    BY <2>1
  <2> QED BY <1>2, <2>2, <2>3 DEF q
<1> QED BY <1>1, <1>2

(* The quotient by the base is nearer to zero: the loop of convert() ends. *)
LEMMA QuotientSize ==
  ASSUME NEW base \in {10, 16}, NEW i \in Int
  PROVE  /\ CDiv(i, base) \in Int
         /\ i = 0 => CDiv(i, base) = 0
         /\ i > 0 => CDiv(i, base) >= 0 /\ CDiv(i, base) < i
         /\ i < 0 => CDiv(i, base) <= 0 /\ CDiv(i, base) > i
<1> DEFINE q == CDiv(i, base)
<1>1. /\ q \in Int
      /\ i = 0 => q = 0
      /\ i > 0 => q >= 0 /\ q < i
      /\ i < 0 => q <= 0 /\ q > i
  BY QuotientFacts
<1> QED BY <1>1

(* The digits of the numbers from -n to n. *)
DigitsTo(f, n, base) == f = [i \in (-n)..n |-> DigitsStep(base, f, i)]

(* Two such functions agree. *)
LEMMA DigitsAgree ==
  ASSUME NEW base \in {10, 16}, NEW n \in Nat, NEW m \in Nat, n <= m,
         NEW f, DigitsTo(f, n, base), NEW g, DigitsTo(g, m, base), NEW i \in (-n)..n
  PROVE  f[i] = g[i]
<1> DEFINE W == {k \in 0..n : f[k] # g[k] \/ f[-k] # g[-k]}
<1>1. \A j \in (-n)..n : f[j] = DigitsStep(base, f, j)
  BY Zenon DEF DigitsTo
<1>2. \A j \in (-m)..m : g[j] = DigitsStep(base, g, j)
  BY Zenon DEF DigitsTo
<1>3. W = {}
  <2> SUFFICES ASSUME W # {} PROVE FALSE
    OBVIOUS
  <2>1. W \in SUBSET Nat
    OBVIOUS
  <2>2. PICK k \in W : \A x \in W : k <= x
    <3> HIDE DEF W
    <3> QED BY <2>1, LeastNumber
  <2>3. k \in 0..n /\ (f[k] # g[k] \/ f[-k] # g[-k])
    BY <2>2
  <2>4. ASSUME NEW j \in Int, j = k \/ j = -k PROVE f[j] = g[j]
    <3> DEFINE q == CDiv(j, base)
    <3>1. q \in Int /\ (q = 0 \/ (-k < q /\ q < k))
      BY <2>3, <2>4, QuotientSize
    <3>2. CASE q = 0
      <4>1. DigitsStep(base, f, j) = DigitsStep(base, g, j)
        BY <3>2 DEF DigitsStep
      <4>2. j \in (-n)..n /\ j \in (-m)..m
        BY <2>3, <2>4
      <4> QED BY <1>1, <1>2, <4>1, <4>2
    <3>3. CASE q # 0
      <4> HIDE DEF q
      <4>1. ASSUME q > 0 PROVE f[q] = g[q]
        <5>1. q \in Nat /\ q < k /\ q \in 0..n
          BY <2>3, <3>1, <4>1
        <5>2. q \notin W
          BY <2>2, <2>3, <5>1
        <5> QED BY <5>1, <5>2
      <4>2. ASSUME q < 0 PROVE f[q] = g[q]
        <5>1. -q \in Nat /\ -q < k /\ -q \in 0..n /\ -(-q) = q
          BY <2>3, <3>1, <4>2
        <5>2. -q \notin W
          BY <2>2, <2>3, <5>1
        <5> QED BY <5>1, <5>2
      <4>3. f[q] = g[q]
        BY <3>1, <3>3, <4>1, <4>2
      <4>4. DigitsStep(base, f, j) = DigitsStep(base, g, j)
        BY <4>3 DEF DigitsStep, q
      <4>5. j \in (-n)..n /\ j \in (-m)..m
        BY <2>3, <2>4
      <4> QED BY <1>1, <1>2, <4>4, <4>5
    <3> QED BY <3>2, <3>3
  <2>5. k \in Int /\ -k \in Int
    BY <2>3
  <2> QED BY <2>3, <2>4, <2>5
<1>4. CASE i >= 0
  <2>1. i \in 0..n /\ i \notin W
    <3>1. i \in 0..n
      BY <1>4
    <3> HIDE DEF W
    <3> QED BY <1>3, <3>1
  <2> QED BY <2>1
<1>5. CASE i < 0
  <2>1. -i \in 0..n /\ -i \notin W /\ -(-i) = i
    <3>1. -i \in 0..n /\ -(-i) = i
      BY <1>5
    <3> HIDE DEF W
    <3> QED BY <1>3, <3>1
  <2> QED BY <2>1
<1> QED BY <1>4, <1>5

(* There is such a function for every n. *)
LEMMA DigitsToExists ==
  ASSUME NEW base \in {10, 16}, NEW n \in Nat
  PROVE  \E f : DigitsTo(f, n, base)
<1> DEFINE W == {k \in Nat : ~ \E f : DigitsTo(f, k, base)}
<1>1. W = {}
  <2> SUFFICES ASSUME W # {} PROVE FALSE
    OBVIOUS
  <2>1. W \in SUBSET Nat
    OBVIOUS
  <2>2. PICK k \in W : \A x \in W : k <= x
    <3> HIDE DEF W
    <3> QED BY <2>1, LeastNumber
  <2>3. k \in Nat /\ ~ \E f : DigitsTo(f, k, base)
    BY <2>2
  <2>4. CASE k = 0
    <3> DEFINE f == [i \in (-0)..0 |-> Append(<<>>, Digit(CMod(i, base)))]
    <3>1. \A i \in (-0)..0 : CDiv(i, base) = 0
      BY QuotientSize
    <3>2. f = [i \in (-0)..0 |-> DigitsStep(base, f, i)]
      BY <3>1 DEF DigitsStep
    <3> HIDE DEF f
    <3>3. DigitsTo(f, 0, base)
      BY <3>2, Zenon DEF DigitsTo
    <3> QED BY <2>3, <2>4, <3>3
  <2>5. CASE k # 0
    <3>1. k - 1 \in Nat /\ k - 1 \notin W
      BY <2>2, <2>3, <2>5
    <3>2. PICK f : DigitsTo(f, k - 1, base)
      BY <3>1
    <3> DEFINE D == (-(k - 1))..(k - 1)
               g == [i \in (-k)..k |-> DigitsStep(base, f, i)]
    <3>3. \A i \in D : f[i] = DigitsStep(base, f, i)
      BY <3>2, Zenon DEF DigitsTo
    <3>4. \A i \in D : i \in (-k)..k
      BY <2>3, <2>5
    <3>5. \A i \in D : g[i] = f[i]
      <4> HIDE DEF D
      <4> QED BY <3>3, <3>4
    <3>6. ASSUME NEW i \in (-k)..k PROVE DigitsStep(base, g, i) = DigitsStep(base, f, i)
      <4>1. CDiv(i, base) = 0 \/ CDiv(i, base) \in D
        BY <2>3, <2>5, QuotientSize
      <4> HIDE DEF g, D
      <4> QED BY <3>5, <4>1 DEF DigitsStep
    <3>7. g = [i \in (-k)..k |-> DigitsStep(base, g, i)]
      <4>1. g = [i \in (-k)..k |-> DigitsStep(base, f, i)]
        OBVIOUS
      <4> HIDE DEF g
      <4> QED BY <3>6, <4>1
    <3> HIDE DEF g
    <3>8. DigitsTo(g, k, base)
      BY <3>7, Zenon DEF DigitsTo
    <3> QED BY <2>3, <3>8
  <2> QED BY <2>4, <2>5
<1> QED BY <1>1

(* The recursive definition of the digits is one. *)
LEMMA DigitsDef ==
  ASSUME NEW base \in {10, 16}
  PROVE  DigitsIn(base) = [i \in Int |-> DigitsStep(base, DigitsIn(base), i)]
<1> DEFINE Size(i) == IF i < 0 THEN -i ELSE i
           A(i) == CHOOSE f : DigitsTo(f, Size(i), base)
           F == [i \in Int |-> A(i)[i]]
<1>1. ASSUME NEW i \in Int PROVE DigitsTo(A(i), Size(i), base)
  <2>1. Size(i) \in Nat
    OBVIOUS
  <2> HIDE DEF Size
  <2> QED BY <2>1, DigitsToExists
<1> HIDE DEF A
<1>2. ASSUME NEW i \in Int PROVE F[i] = DigitsStep(base, F, i)
  <2> DEFINE q == CDiv(i, base)
  <2>1. F[i] = A(i)[i]
    OBVIOUS
  <2>2. A(i)[i] = DigitsStep(base, A(i), i)
    <3>1. i \in (-Size(i))..Size(i)
      OBVIOUS
    <3> HIDE DEF Size
    <3>2. A(i) = [j \in (-Size(i))..Size(i) |-> DigitsStep(base, A(i), j)]
      BY <1>1, Zenon DEF DigitsTo
    <3> QED BY <3>1, <3>2, Zenon
  <2>3. q \in Int /\ Size(q) \in Nat /\ Size(i) \in Nat /\ Size(q) <= Size(i) /\ q \in (-Size(q))..Size(q)
    BY QuotientSize
  <2> HIDE DEF q, Size
  <2>4. A(q)[q] = A(i)[q]
    BY <1>1, <2>3, DigitsAgree
  <2>5. F[q] = A(i)[q]
    BY <2>3, <2>4
  <2> HIDE DEF F
  <2>6. DigitsStep(base, A(i), i) = DigitsStep(base, F, i)
    BY <2>5 DEF DigitsStep, q
  <2> QED BY <2>1, <2>2, <2>6
<1>3. F = [i \in Int |-> DigitsStep(base, F, i)]
  <2>1. F = [i \in Int |-> F[i]]
    OBVIOUS
  <2> HIDE DEF F
  <2> QED BY <1>2, <2>1
<1> HIDE DEF F
<1> QED BY <1>3 DEF DigitsIn, DigitsStep

(* One digit more of Read(), and Read() up to digit n. *)
ReadStep(digits, base, f, i) == IF i = 0 THEN 0 ELSE base * f[i - 1] - digits[i]
ReadTo(digits, base, n, f) == f = [i \in 0..n |-> ReadStep(digits, base, f, i)]

(* There is such a function, its values are integers, and one for fewer or other digits agrees with it
   as far as the digits do. *)
LEMMA ReadToExists ==
  ASSUME NEW base \in Int, NEW digits \in Seq(Int), NEW n \in 0..Len(digits)
  PROVE  \E f : ReadTo(digits, base, n, f)
<1> DEFINE W == {k \in 0..Len(digits) : ~ \E f : ReadTo(digits, base, k, f)}
<1>1. W = {}
  <2> SUFFICES ASSUME W # {} PROVE FALSE
    OBVIOUS
  <2>1. W \in SUBSET Nat
    OBVIOUS
  <2>2. PICK k \in W : \A x \in W : k <= x
    <3> HIDE DEF W
    <3> QED BY <2>1, LeastNumber
  <2>3. k \in 0..Len(digits) /\ ~ \E f : ReadTo(digits, base, k, f)
    BY <2>2
  <2>4. CASE k = 0
    <3> DEFINE f == [i \in 0..0 |-> 0]
    <3>1. \A i \in 0..0 : i = 0
      OBVIOUS
    <3>2. f = [i \in 0..0 |-> ReadStep(digits, base, f, i)]
      BY <3>1 DEF ReadStep
    <3> HIDE DEF f
    <3>3. ReadTo(digits, base, 0, f)
      BY <3>2, Zenon DEF ReadTo
    <3> QED BY <2>3, <2>4, <3>3
  <2>5. CASE k # 0
    <3>1. k - 1 \in 0..Len(digits) /\ k - 1 \notin W
      <4>1. Len(digits) \in Nat /\ k \in Nat /\ k <= Len(digits)
        BY <2>3
      <4>2. k - 1 \in 0..Len(digits) /\ ~(k <= k - 1)
        BY <2>5, <4>1
      <4> HIDE DEF W
      <4> QED BY <2>2, <4>2
    <3>2. PICK f : ReadTo(digits, base, k - 1, f)
      BY <3>1
    <3> DEFINE g == [i \in 0..k |-> ReadStep(digits, base, f, i)]
    <3>3. \A i \in 0..(k - 1) : f[i] = ReadStep(digits, base, f, i)
      BY <3>2, Zenon DEF ReadTo
    <3>4. \A i \in 0..(k - 1) : i \in 0..k /\ g[i] = f[i]
      <4>1. \A i \in 0..(k - 1) : i \in 0..k
        BY <2>3
      <4>2. \A i \in 0..k : g[i] = ReadStep(digits, base, f, i)
        OBVIOUS
      <4> HIDE DEF g
      <4> QED BY <3>3, <4>1, <4>2
    <3>5. ASSUME NEW i \in 0..k PROVE ReadStep(digits, base, g, i) = ReadStep(digits, base, f, i)
      <4>1. i = 0 \/ i - 1 \in 0..(k - 1)
        BY <2>3
      <4> HIDE DEF g
      <4> QED BY <3>4, <4>1 DEF ReadStep
    <3>6. g = [i \in 0..k |-> ReadStep(digits, base, g, i)]
      <4>1. g = [i \in 0..k |-> ReadStep(digits, base, f, i)]
        OBVIOUS
      <4> HIDE DEF g
      <4> QED BY <3>5, <4>1
    <3> HIDE DEF g
    <3>7. ReadTo(digits, base, k, g)
      BY <3>6, Zenon DEF ReadTo
    <3> QED BY <2>3, <3>7
  <2> QED BY <2>4, <2>5
<1>2. n \notin W
  <2> HIDE DEF W
  <2> QED BY <1>1
<1> QED BY <1>2

(* Two readings of digits that start alike agree as far as they do. *)
LEMMA ReadToFacts ==
  ASSUME NEW base \in Int, NEW n \in Nat, NEW m \in Nat, n <= m,
         NEW s, NEW t, \A i \in 1..n : s[i] = t[i] /\ s[i] \in Int,
         NEW f, ReadTo(s, base, n, f), NEW g, ReadTo(t, base, m, g)
  PROVE  \A i \in 0..n : f[i] = g[i] /\ f[i] \in Int
<1> DEFINE W == {k \in 0..n : ~(f[k] = g[k] /\ f[k] \in Int)}
<1>1. \A i \in 0..n : f[i] = ReadStep(s, base, f, i)
  BY Zenon DEF ReadTo
<1>2. \A i \in 0..n : g[i] = ReadStep(t, base, g, i)
  <2>1. \A i \in 0..m : g[i] = ReadStep(t, base, g, i)
    BY Zenon DEF ReadTo
  <2>2. \A i \in 0..n : i \in 0..m
    OBVIOUS
  <2> QED BY <2>1, <2>2
<1>3. W = {}
  <2> SUFFICES ASSUME W # {} PROVE FALSE
    OBVIOUS
  <2>1. W \in SUBSET Nat
    OBVIOUS
  <2>2. PICK k \in W : \A x \in W : k <= x
    <3> HIDE DEF W
    <3> QED BY <2>1, LeastNumber
  <2>3. k \in 0..n /\ ~(f[k] = g[k] /\ f[k] \in Int)
    BY <2>2
  <2>4. CASE k = 0
    <3>1. f[0] = ReadStep(s, base, f, 0) /\ g[0] = ReadStep(t, base, g, 0)
      BY <1>1, <1>2, <2>3, <2>4
    <3>2. f[0] = 0 /\ g[0] = 0
      BY <3>1 DEF ReadStep
    <3> QED BY <2>3, <2>4, <3>2
  <2>5. CASE k # 0
    <3>1. k - 1 \in 0..n /\ k \in 1..n /\ k - 1 \notin W
      BY <2>2, <2>3, <2>5
    <3>2. f[k - 1] = g[k - 1] /\ f[k - 1] \in Int
      BY <3>1
    <3>3. f[k] = ReadStep(s, base, f, k) /\ g[k] = ReadStep(t, base, g, k)
      BY <1>1, <1>2, <2>3
    <3>4. f[k] = base * f[k - 1] - s[k] /\ g[k] = base * g[k - 1] - t[k]
      BY <2>5, <3>3 DEF ReadStep
    <3>5. s[k] = t[k] /\ s[k] \in Int
      BY <3>1
    <3>6. f[k] = g[k]
      BY <3>2, <3>4, <3>5
    <3>7. base * f[k - 1] \in Int
      BY <3>2
    <3>8. f[k] \in Int
      BY <3>4, <3>5, <3>7
    <3> QED BY <2>3, <3>6, <3>8
  <2> QED BY <2>4, <2>5
<1> HIDE DEF W
<1>4. \A i \in 0..n : i \notin W
  BY <1>3
<1> QED BY <1>4 DEF W

(* Read() of no digits, and of one more. *)
LEMMA ReadFacts ==
  ASSUME NEW base \in Int
  PROVE  /\ Read(<<>>, base) = 0
         /\ \A s \in Seq(Int), d \in Int :
              Read(s, base) \in Int /\ Read(Append(s, d), base) = base * Read(s, base) - d
<1> DEFINE F(s) == CHOOSE f : ReadTo(s, base, Len(s), f)
<1>1. ASSUME NEW s \in Seq(Int)
      PROVE  ReadTo(s, base, Len(s), F(s)) /\ Read(s, base) = F(s)[Len(s)]
  <2>1. Len(s) \in 0..Len(s)
    OBVIOUS
  <2>2. ReadTo(s, base, Len(s), F(s))
    BY <2>1, ReadToExists
  <2>3. Read(s, base) = F(s)[Len(s)]
    BY DEF Read, ReadTo, ReadStep
  <2> QED BY <2>2, <2>3
<1> HIDE DEF F
<1>2. Read(<<>>, base) = 0
  <2>1. <<>> \in Seq(Int) /\ Len(<<>>) = 0
    OBVIOUS
  <2>2. ReadTo(<<>>, base, 0, F(<<>>)) /\ Read(<<>>, base) = F(<<>>)[0]
    BY <1>1, <2>1
  <2>3. F(<<>>)[0] = ReadStep(<<>>, base, F(<<>>), 0)
    <3>1. 0 \in 0..0
      OBVIOUS
    <3>2. F(<<>>) = [i \in 0..0 |-> ReadStep(<<>>, base, F(<<>>), i)]
      BY <2>2, Zenon DEF ReadTo
    <3> QED BY <3>1, <3>2, Zenon
  <2> QED BY <2>2, <2>3 DEF ReadStep
<1>3. ASSUME NEW s \in Seq(Int), NEW d \in Int
      PROVE  Read(s, base) \in Int /\ Read(Append(s, d), base) = base * Read(s, base) - d
  <2> DEFINE n == Len(s)
             t == Append(s, d)
  <2>1. t \in Seq(Int) /\ Len(t) = n + 1 /\ n \in Nat /\ n + 1 \in Nat /\ t[n + 1] = d
        /\ \A i \in 1..n : s[i] = t[i] /\ s[i] \in Int
    OBVIOUS
  <2> HIDE DEF t
  <2>2. ReadTo(s, base, n, F(s)) /\ Read(s, base) = F(s)[n]
    BY <1>1
  <2>3. ReadTo(t, base, n + 1, F(t)) /\ Read(t, base) = F(t)[n + 1]
    BY <1>1, <2>1
  <2> HIDE DEF n
  <2>4. n <= n + 1 /\ n \in 0..n /\ n + 1 \in 0..(n + 1) /\ n + 1 # 0 /\ (n + 1) - 1 = n
    BY <2>1
  <2>5. F(s)[n] = F(t)[n] /\ F(s)[n] \in Int
    <3>1. \A i \in 0..n : F(s)[i] = F(t)[i] /\ F(s)[i] \in Int
      BY <2>1, <2>2, <2>3, <2>4, ReadToFacts
    <3> QED BY <2>4, <3>1
  <2>6. F(t)[n + 1] = ReadStep(t, base, F(t), n + 1)
    <3>1. F(t) = [i \in 0..(n + 1) |-> ReadStep(t, base, F(t), i)]
      BY <2>3, Zenon DEF ReadTo
    <3> QED BY <2>4, <3>1, Zenon
  <2>7. ReadStep(t, base, F(t), n + 1) = base * F(t)[n] - d
    BY <2>1, <2>4 DEF ReadStep
  <2> QED BY <2>2, <2>3, <2>5, <2>6, <2>7 DEF t
<1> QED BY <1>2, <1>3

(* What convert() and convertHex() write reads back as the number, below zero. *)
LEMMA DigitsRead ==
  ASSUME NEW base \in {10, 16}, NEW i \in Int
  PROVE  /\ DigitsIn(base)[i] \in Seq(Int) /\ DigitsIn(base)[i] # <<>>
         /\ Read(DigitsIn(base)[i], base) = IF i < 0 THEN i ELSE -i
<1> DEFINE D == DigitsIn(base)
           Ok(k) == D[k] \in Seq(Int) /\ D[k] # <<>> /\ Read(D[k], base) = IF k < 0 THEN k ELSE -k
           W == {k \in Nat : ~Ok(k) \/ ~Ok(-k)}
<1>1. \A k \in Int : D[k] = DigitsStep(base, D, k)
  <2>1. D = [k \in Int |-> DigitsStep(base, D, k)]
    BY DigitsDef
  <2> HIDE DEF D
  <2> QED BY <2>1
<1> HIDE DEF D
<1>2. base \in Int
  OBVIOUS
<1>3. ASSUME NEW j \in Int, CDiv(j, base) # 0 => Ok(CDiv(j, base)) PROVE Ok(j)
  <2> DEFINE q == CDiv(j, base)
             r == CMod(j, base)
             s == IF q = 0 THEN <<>> ELSE D[q]
  <2>1. q \in Int /\ r \in Int /\ j = base * q + r /\ (j = 0 => q = 0)
        /\ (j > 0 => q >= 0) /\ (j < 0 => q <= 0) /\ (j >= 0 => r >= 0) /\ (j <= 0 => r <= 0)
    BY QuotientFacts
  <2>2. D[j] = Append(s, Digit(r))
    BY <1>1 DEF DigitsStep
  <2>3. s \in Seq(Int) /\ Read(s, base) = IF q < 0 THEN q ELSE -q
    BY <1>2, <1>3, ReadFacts
  <2> HIDE DEF q, r, s
  <2>4. Digit(r) \in Int /\ Digit(r) = IF j < 0 THEN -r ELSE r
    BY <2>1 DEF Digit
  <2>5. D[j] \in Seq(Int) /\ D[j] # <<>>
    BY <2>2, <2>3, <2>4
  <2>6. Read(D[j], base) = base * Read(s, base) - Digit(r)
    <3> DEFINE d == Digit(r)
    <3>1. d \in Int /\ D[j] = Append(s, d)
      BY <2>2, <2>4
    <3> HIDE DEF d
    <3>2. Read(Append(s, d), base) = base * Read(s, base) - d
      BY <1>2, <2>3, <3>1, ReadFacts
    <3> QED BY <3>1, <3>2 DEF d
  <2>7. Read(D[j], base) = IF j < 0 THEN j ELSE -j
    <3>1. CASE j >= 0
      <4>1. Read(s, base) = -q /\ Digit(r) = r
        BY <2>1, <2>3, <2>4, <3>1
      <4>2. base * (-q) - r = -(base * q + r)
        BY <1>2, <2>1
      <4> QED BY <2>1, <2>6, <3>1, <4>1, <4>2
    <3>2. CASE j < 0
      <4>1. Read(s, base) = q /\ Digit(r) = -r
        BY <2>1, <2>3, <2>4, <3>2
      <4>2. base * q - (-r) = base * q + r
        BY <1>2, <2>1
      <4> QED BY <2>1, <2>6, <3>2, <4>1, <4>2
    <3> QED BY <3>1, <3>2
  <2> QED BY <2>5, <2>7
<1> HIDE DEF Ok
<1>4. W = {}
  <2> SUFFICES ASSUME W # {} PROVE FALSE
    OBVIOUS
  <2>1. W \in SUBSET Nat
    OBVIOUS
  <2>2. PICK k \in W : \A x \in W : k <= x
    <3> HIDE DEF W
    <3> QED BY <2>1, LeastNumber
  <2>3. k \in Nat /\ (~Ok(k) \/ ~Ok(-k))
    BY <2>2
  <2>4. ASSUME NEW j \in Int, j = k \/ j = -k PROVE Ok(j)
    <3> DEFINE q == CDiv(j, base)
    <3>1. q \in Int /\ (q = 0 \/ (-k < q /\ q < k))
      BY <2>3, <2>4, QuotientSize
    <3>2. q # 0 => Ok(q)
      <4> HIDE DEF q
      <4>1. ASSUME q > 0 PROVE Ok(q)
        <5>1. q \in Nat /\ q < k
          BY <3>1, <4>1
        <5>2. q \notin W
          BY <2>2, <2>3, <5>1
        <5> QED BY <5>1, <5>2
      <4>2. ASSUME q < 0 PROVE Ok(q)
        <5>1. -q \in Nat /\ -q < k /\ -(-q) = q
          BY <2>3, <3>1, <4>2
        <5>2. -q \notin W
          BY <2>2, <2>3, <5>1
        <5> QED BY <5>1, <5>2
      <4> QED BY <3>1, <4>1, <4>2
    <3> QED BY <1>3, <3>2
  <2>5. k \in Int /\ -k \in Int
    BY <2>3
  <2> QED BY <2>3, <2>4, <2>5
<1>5. Ok(i)
  <2>1. CASE i >= 0
    <3>1. i \in Nat /\ i \notin W
      <4>1. i \in Nat
        BY <2>1
      <4> HIDE DEF W
      <4> QED BY <1>4, <4>1
    <3> QED BY <3>1
  <2>2. CASE i < 0
    <3>1. -i \in Nat /\ -i \notin W /\ -(-i) = i
      <4>1. -i \in Nat /\ -(-i) = i
        BY <2>2
      <4> HIDE DEF W
      <4> QED BY <1>4, <4>1
    <3> QED BY <3>1
  <2> QED BY <2>1, <2>2
<1> QED BY <1>5 DEF Ok, D

-----------------------------------------------------------------------------
(* The stream of a line. *)

PieceNames == {"time", "microseconds", "tid", "level", "func", "space", "text", "number", "pointer",
               "dash", "file", "colon", "line", "newline"}

(* Nothing was written past the buffer. *)
StreamOk(s) ==
  /\ s.used \in Nat /\ s.used <= Room /\ s.top \in Nat /\ s.top <= Room
  /\ s.pieces \in Seq(PieceNames)

(* A converted number is as long as its digits, and one longer with its sign. *)
LEMMA LengthType ==
  ASSUME NEW n, Len(n.digits) \in Nat
  PROVE  Length(n) \in Nat /\ Length(n) <= Len(n.digits) + 1
<1>1. CASE n.neg
  BY <1>1 DEF Length
<1>2. CASE ~n.neg
  BY <1>2 DEF Length
<1> QED BY <1>1, <1>2

(* Both conversions write the digits of the same loop. *)
LEMMA ConvertDigits ==
  ASSUME NEW v
  PROVE  Convert(v).digits = DigitsIn(10)[v] /\ ConvertHex(v).digits = DigitsIn(16)[v]
BY DEF Convert, ConvertHex

(* How long what convert() and convertHex() write is. *)
LEMMA LengthFacts ==
  /\ \A m \in Messages : Length(Convert(m.number)) \in 0..20 /\ Length(ConvertHex(m.pointer)) \in 0..16
  /\ Length(Convert(134)) \in 0..20
<1>1. ASSUME NEW base \in {10, 16}, NEW i \in Int PROVE Len(DigitsIn(base)[i]) \in Nat
  BY DigitsRead
<1>2. ASSUME NEW m \in Messages
      PROVE  Length(Convert(m.number)) \in 0..20 /\ Length(ConvertHex(m.pointer)) \in 0..16
  <2>1. m.number \in Int /\ m.pointer \in Int
    BY LoggerConstants
  <2>2. Len(DigitsIn(10)[m.number]) \in Nat /\ Len(DigitsIn(16)[m.pointer]) \in Nat
    BY <1>1, <2>1
  <2>3. Length(Convert(m.number)) \in Nat /\ Length(ConvertHex(m.pointer)) \in Nat
    BY <2>2, ConvertDigits, LengthType
  <2>4. Length(Convert(m.number)) <= 20 /\ Length(ConvertHex(m.pointer)) <= 16
    BY IntegersHave64Bits
  <2> QED BY <2>3, <2>4
<1>3. Length(Convert(134)) \in 0..20
  <2> DEFINE D == DigitsIn(10)
  <2>1. D = [i \in Int |-> DigitsStep(10, D, i)]
    BY DigitsDef
  <2> HIDE DEF D
  <2>2. \A i \in Int : D[i] = Append(IF CDiv(i, 10) = 0 THEN <<>> ELSE D[CDiv(i, 10)], Digit(CMod(i, 10)))
    BY <2>1 DEF DigitsStep
  <2>3. CDiv(134, 10) = 13 /\ CDiv(13, 10) = 1 /\ CDiv(1, 10) = 0
    BY DEF CDiv
  <2>4. \A i \in Int : Digit(CMod(i, 10)) \in Int
    <3> SUFFICES ASSUME NEW i \in Int PROVE Digit(CMod(i, 10)) \in Int
      OBVIOUS
    <3>1. CMod(i, 10) \in Int
      BY QuotientFacts
    <3> QED BY <3>1 DEF Digit
  <2>5. D[1] = Append(<<>>, Digit(CMod(1, 10))) /\ D[13] = Append(D[1], Digit(CMod(13, 10)))
        /\ D[134] = Append(D[13], Digit(CMod(134, 10)))
    BY <2>2, <2>3
  <2>6. D[1] \in Seq(Int) /\ Len(D[1]) = 1
    BY <2>4, <2>5
  <2>7. D[13] \in Seq(Int) /\ Len(D[13]) = 2
    BY <2>4, <2>5, <2>6
  <2>8. Len(D[134]) = 3
    BY <2>4, <2>5, <2>7
  <2>9. Len(Convert(134).digits) = 3
    BY <2>8, ConvertDigits DEF D
  <2> DEFINE n == Convert(134)
  <2>10. Len(n.digits) = 3 /\ Len(n.digits) \in Nat
    BY <2>9
  <2> HIDE DEF n
  <2>11. Length(n) \in Nat /\ Length(n) <= 4
    <3>1. Length(n) \in Nat /\ Length(n) <= Len(n.digits) + 1
      BY <2>10, LengthType
    <3> QED BY <2>10, <3>1
  <2> QED BY <2>11 DEF n
<1> QED BY <1>2, <1>3

(* The buffer has a size. *)
LEMMA RoomType == Room \in Nat
BY LoggerConstants

(* A piece that ends within the buffer keeps the stream sound. *)
LEMMA AddOk ==
  ASSUME NEW s, StreamOk(s), NEW name \in PieceNames, NEW len \in Nat, NEW end \in Nat,
         s.used + len <= Room, end <= Room
  PROVE  StreamOk(Add(s, name, len, end))
<1>1. Max({s.top, end}) \in Nat /\ Max({s.top, end}) <= Room
  <2>1. s.top \in 0..Room /\ end \in 0..Room /\ Room \in Nat
    BY LoggerConstants DEF StreamOk
  <2>2. {s.top, end} \in SUBSET 0..Room /\ {s.top, end} # {}
    BY <2>1
  <2>3. Max({s.top, end}) \in {s.top, end}
    BY <2>1, <2>2, MaxFacts
  <2> QED BY <2>1, <2>3
<1>2. /\ Add(s, name, len, end).used = s.used + len
      /\ Add(s, name, len, end).top = Max({s.top, end})
      /\ Add(s, name, len, end).pieces = Append(s.pieces, name)
  BY DEF Add
<1>3. s.used \in Nat /\ s.pieces \in Seq(PieceNames)
  BY DEF StreamOk
<1>4. Append(s.pieces, name) \in Seq(PieceNames) /\ s.used + len \in Nat
  BY <1>3
<1> QED BY <1>1, <1>2, <1>4 DEF StreamOk

(* A text is appended whole and within the buffer, or not at all. *)
LEMMA PutTextOk ==
  ASSUME NEW s, StreamOk(s), NEW name \in PieceNames, NEW len \in Nat
  PROVE  StreamOk(PutText(s, name, len))
<1>1. CASE Room - s.used > len
  <2>1. s.used + len \in Nat /\ s.used + len <= Room
    BY <1>1, LoggerConstants DEF StreamOk
  <2> QED BY <1>1, <2>1, AddOk DEF PutText
<1>2. CASE ~(Room - s.used > len)
  BY <1>2 DEF PutText
<1> QED BY <1>1, <1>2

(* A number is appended only where its 32 bytes are free: it ends within the buffer. *)
LEMMA PutNumberOk ==
  ASSUME NEW s, StreamOk(s), NEW name \in PieceNames, NEW v, Length(Convert(v)) \in 0..20
  PROVE  StreamOk(PutNumber(s, name, v))
<1> DEFINE len == Length(Convert(v))
<1>1. CASE Room - s.used >= 32
  <2>1. PutNumber(s, name, v) = Add(s, name, len, s.used + len + 1)
    BY <1>1 DEF PutNumber
  <2> HIDE DEF len
  <2>2. len \in 0..20
    BY DEF len
  <2>3. len \in Nat /\ s.used + len + 1 \in Nat /\ s.used + len <= Room /\ s.used + len + 1 <= Room
    <3>1. s.used \in Nat /\ Room \in Nat
      BY RoomType DEF StreamOk
    <3> QED BY <1>1, <2>2, <3>1
  <2> QED BY <2>1, <2>3, AddOk
<1>2. CASE ~(Room - s.used >= 32)
  BY <1>2 DEF PutNumber
<1> QED BY <1>1, <1>2

(* The same for a pointer. *)
LEMMA PutPointerOk ==
  ASSUME NEW s, StreamOk(s), NEW name \in PieceNames, NEW v, Length(ConvertHex(v)) \in 0..16
  PROVE  StreamOk(PutPointer(s, name, v))
<1> DEFINE len == 2 + Length(ConvertHex(v))
<1>1. CASE Room - s.used >= 32
  <2>1. PutPointer(s, name, v) = Add(s, name, len, s.used + len + 1)
    BY <1>1 DEF PutPointer
  <2>2. len \in 2..18
    OBVIOUS
  <2> HIDE DEF len
  <2>3. len \in Nat /\ s.used + len + 1 \in Nat /\ s.used + len <= Room /\ s.used + len + 1 <= Room
    <3>1. s.used \in Nat /\ Room \in Nat
      BY RoomType DEF StreamOk
    <3> QED BY <1>1, <2>2, <3>1
  <2> QED BY <2>1, <2>3, AddOk
<1>2. CASE ~(Room - s.used >= 32)
  BY <1>2 DEF PutPointer
<1> QED BY <1>1, <1>2

-----------------------------------------------------------------------------
(* The stamp of a line. *)

(* A stamp that was made in this second, and in no zone but the present one, shows it. *)
CacheOk(c) ==
  /\ c.second \in Int
  /\ c.second # 0 => c.second <= Now
  /\ c.second = Now /\ Now # 0 /\ ~switched => c.shown = Shown(zone, Now)

HeldOk(l) ==
  /\ l = [at |-> l.at, zone |-> l.zone, shown |-> l.shown, message |-> l.message, stream |-> l.stream]
  /\ \A z \in l.zone : l.shown = Shown(z, l.at)
  /\ l.message \in Messages
  /\ StreamOk(l.stream)

LineOk(l) ==
  /\ HeldOk(l)
  /\ Last(l.stream.pieces) = "newline" \/ Room - l.stream.used <= 1

(* The inductive invariant of the lines: besides the last line, what the clock, the zone, the caches and
   the lines that are being written must satisfy for it to be true. *)
LineInv ==
  /\ ClockInv
  /\ zone \in Zones \cup {NoZone}
  /\ DOMAIN cache = Threads /\ \A t \in Threads : CacheOk(cache[t])
  /\ DOMAIN held = Threads /\ \A t \in Threads : held[t] # NoLine => HeldOk(held[t])
  /\ line # NoLine => LineOk(line)

(* formatTime() writes what the clock of the zone shows, now or earlier in this second. *)
LEMMA FormatTimeFacts ==
  ASSUME LineInv, NEW t \in Threads, Now # 0
  PROVE  /\ FormatTime(cache[t]).second = Now
         /\ ~switched => FormatTime(cache[t]).shown = Shown(zone, Now)
<1> DEFINE c == cache[t]
<1>1. Now \in Int
  BY DayType DEF LineInv, ClockInv, Now
<1>2. CacheOk(c)
  BY DEF LineInv
<1>3. CASE Now = c.second
  BY <1>2, <1>3 DEF FormatTime, CacheOk
<1>4. CASE Now # c.second /\ zone = NoZone
  <2> DEFINE n == Now
  <2>1. FormatTime(c) = [second |-> n, shown |-> Gmtime(n)]
    BY <1>4 DEF FormatTime
  <2>2. n \in Int
    BY <1>1
  <2> HIDE DEF n
  <2>3. Gmtime(n) = [day |-> DayOf(n), hms |-> Hms(SecondOf(n))]
    BY <2>2, DayAndSecond DEF Gmtime, DayOf, SecondOf
  <2>4. Shown(NoZone, n) = [day |-> DayOf(n), hms |-> Hms(SecondOf(n))]
    <3>1. Shown(NoZone, n) = [day |-> DayOf(n + 0), hms |-> Hms(SecondOf(n + 0))]
      BY DEF Shown, DayOf, SecondOf
    <3>2. n + 0 = n
      BY <2>2
    <3> QED BY <3>1, <3>2
  <2>5. FormatTime(c).second = n /\ FormatTime(c).shown = Gmtime(n)
    BY <2>1
  <2> QED BY <1>4, <2>3, <2>4, <2>5 DEF n
<1>5. CASE Now # c.second /\ zone \in Zones
  <2> DEFINE n == Now
             tm == ToLocalTime(zone, n)
  <2>1. zone # NoZone /\ ZoneTable(zone)
    BY <1>5, LoggerConstants
  <2>2. FormatTime(c) = [second |-> n, shown |-> [day |-> tm.day, hms |-> tm.hms]]
    BY <1>5, <2>1 DEF FormatTime
  <2>3. n \in Int
    BY <1>1
  <2> HIDE DEF n
  <2>4. [day |-> tm.day, hms |-> tm.hms] = Shown(zone, n)
    <3>1. PICK k \in 0..Len(zone.trans) :
            /\ InForce(zone, n, k)
            /\ Shown(zone, n) = [day |-> DayOf(n + TypeAfter(zone, k).offset),
                                 hms |-> Hms(SecondOf(n + TypeAfter(zone, k).offset))]
      BY <2>1, <2>3, InForceFacts
    <3>2. tm = [day |-> DayOf(n + TypeAfter(zone, k).offset),
                hms |-> Hms(SecondOf(n + TypeAfter(zone, k).offset)),
                dst |-> TypeAfter(zone, k).dst]
      BY <2>1, <2>3, <3>1, LocalTimeFacts
    <3> HIDE DEF tm
    <3> QED BY <3>1, <3>2
  <2> HIDE DEF tm
  <2>5. FormatTime(c).second = n /\ FormatTime(c).shown = [day |-> tm.day, hms |-> tm.hms]
    BY <2>2
  <2> QED BY <2>4, <2>5 DEF n
<1> QED BY <1>3, <1>4, <1>5 DEF LineInv

(* Threads log only after the first second of 1970 or before it. *)
LEMMA LogTimeFacts ==
  ASSUME ClockInv, <<days, sec>> \in LogTimes
  PROVE  Now # 0 /\ Now \in Int
<1>1. days \in Int /\ sec \in Int /\ 0 <= sec /\ sec <= 86399
  BY DayRange DEF ClockInv
<1>2. Now \in Int
  BY <1>1, DayType DEF Now
<1>3. ASSUME Now = 0 PROVE FALSE
  <2>1. days * 86400 + sec = 0
    BY SMT, <1>1, <1>3 DEF Now, SecondsPerDay
  <2>2. days = 0 /\ sec = 0
    BY SMT, <1>1, <2>1
  <2> QED BY <2>2, LoggerConstants
<1> QED BY <1>2, <1>3

(* The clock only goes forward. *)
LEMMA TickForward ==
  ASSUME ClockInv, Tick
  PROVE  Now \in Int /\ Now' \in Int /\ Now' > Now
<1>1. days \in Int /\ sec \in Int /\ 0 <= sec /\ sec <= 86399
  BY DayRange DEF ClockInv
<1>2. \/ days' = days /\ sec' \in Int /\ sec' > sec
      \/ days' = days + 1 /\ sec' = 0
  <2> DEFINE later == {s \in Secs : s > sec}
  <2>1. CASE later # {}
    <3>1. later \in SUBSET Nat
      <4> SUFFICES ASSUME NEW s \in Secs PROVE s \in Nat
        OBVIOUS
      <4>1. s \in 0..(SecondsPerDay - 1)
        BY LoggerConstants
      <4> QED BY <4>1, DayType
    <3>2. sec' = Min(later) /\ days' = days
      BY <2>1 DEF Tick
    <3>3. Min(later) \in later
      <4> HIDE DEF later
      <4> QED BY <2>1, <3>1, MinFacts
    <3>4. Min(later) \in Int /\ Min(later) > sec
      BY <3>1, <3>3
    <3> HIDE DEF later
    <3> QED BY <3>2, <3>4
  <2>2. CASE later = {}
    BY <2>2 DEF Tick
  <2> QED BY <2>1, <2>2
<1>3. Now = days * 86400 + sec /\ Now' = days' * 86400 + sec'
  BY SMT, <1>1, <1>2 DEF Now, SecondsPerDay
<1> QED BY SMT, <1>1, <1>2, <1>3

(* No line has been started: nothing is held and the stamp is the one of no second. *)
LEMMA LineInit ==
  ASSUME Init
  PROVE  LineInv
<1>1. ClockInv
  BY ClockInit
<1>2. Now \in Int
  BY <1>1, DayType DEF ClockInv, Now
<1>3. DOMAIN cache = Threads /\ \A t \in Threads : cache[t].second = 0
  BY DEF Init
<1>4. \A t \in Threads : CacheOk(cache[t])
  BY <1>2, <1>3 DEF CacheOk
<1>5. DOMAIN held = Threads /\ \A t \in Threads : held[t] = NoLine
  BY DEF Init
<1>6. zone = NoZone /\ line = NoLine
  BY DEF Init
<1> QED BY <1>1, <1>3, <1>4, <1>5, <1>6 DEF LineInv

(* The stream of a line when its Logger is built. *)
LEMMA BuiltStream ==
  ASSUME NEW m \in Messages, NEW b \in Nat
  PROVE  LET s1 == PutText(EmptyStream, "time", 17)
             s2 == PutText(s1, "microseconds", b)
             s3 == PutText(PutText(s2, "tid", 6), "level", 6)
             s4 == IF m.level < INFO THEN PutText(PutText(s3, "func", 8), "space", 1) ELSE s3
         IN  StreamOk(PutPointer(PutNumber(PutCString(s4, "text", m.text), "number", m.number),
                                 "pointer", m.pointer))
<1> DEFINE s1 == PutText(EmptyStream, "time", 17)
           s2 == PutText(s1, "microseconds", b)
           s3a == PutText(s2, "tid", 6)
           s3 == PutText(s3a, "level", 6)
           s4a == PutText(s3, "func", 8)
           s4b == PutText(s4a, "space", 1)
           s4 == IF m.level < INFO THEN s4b ELSE s3
           s5 == PutCString(s4, "text", m.text)
           s6 == PutNumber(s5, "number", m.number)
<1>0. 17 \in Nat /\ 6 \in Nat /\ 8 \in Nat /\ 1 \in Nat
  OBVIOUS
<1>s. /\ "time" \in PieceNames /\ "microseconds" \in PieceNames /\ "tid" \in PieceNames /\ "level" \in PieceNames
      /\ "func" \in PieceNames /\ "space" \in PieceNames /\ "text" \in PieceNames /\ "number" \in PieceNames /\ "pointer" \in PieceNames
  BY DEF PieceNames
<1>1. StreamOk(EmptyStream)
  BY LoggerConstants DEF StreamOk, EmptyStream
<1>2. StreamOk(s1)
  BY <1>0, <1>s, <1>1, PutTextOk
<1> HIDE DEF s1
<1>3. StreamOk(s2)
  BY <1>0, <1>s, <1>2, PutTextOk
<1> HIDE DEF s2
<1>4. StreamOk(s3a)
  BY <1>0, <1>s, <1>3, PutTextOk
<1> HIDE DEF s3a
<1>5. StreamOk(s3)
  BY <1>0, <1>s, <1>4, PutTextOk
<1> HIDE DEF s3
<1>6. StreamOk(s4a)
  BY <1>0, <1>s, <1>5, PutTextOk
<1> HIDE DEF s4a
<1>7. StreamOk(s4b)
  BY <1>0, <1>s, <1>6, PutTextOk
<1> HIDE DEF s4b
<1>8. StreamOk(s4)
  BY <1>5, <1>7
<1> HIDE DEF s4
<1>9. StreamOk(s5)
  <2> DEFINE len == IF m.text = NullText THEN 6 ELSE m.text
  <2>1. len \in Nat
    BY LoggerConstants
  <2>2. s5 = PutText(s4, "text", len)
    BY DEF PutCString
  <2> HIDE DEF len, s5
  <2>3. StreamOk(PutText(s4, "text", len))
    BY <1>0, <1>s, <1>8, <2>1, PutTextOk
  <2> QED BY <2>2, <2>3
<1> HIDE DEF s5
<1>10. StreamOk(s6)
  BY <1>0, <1>s, <1>9, LengthFacts, PutNumberOk
<1> HIDE DEF s6
<1>11. StreamOk(PutPointer(s6, "pointer", m.pointer))
  BY <1>0, <1>s, <1>10, LengthFacts, PutPointerOk
<1> QED BY <1>11 DEF s6, s5, s4, s4b, s4a, s3, s3a, s2, s1

(* The end of a line. *)
LEMMA FinishedStream ==
  ASSUME NEW s0, StreamOk(s0)
  PROVE  LET s == PutText(PutText(PutText(s0, "dash", 3), "file", 9), "colon", 1)
             e == PutText(PutNumber(s, "line", 134), "newline", 1)
         IN  StreamOk(e) /\ (Last(e.pieces) = "newline" \/ Room - e.used <= 1)
<1> DEFINE s1 == PutText(s0, "dash", 3)
           s2 == PutText(s1, "file", 9)
           s3 == PutText(s2, "colon", 1)
           s4 == PutNumber(s3, "line", 134)
           e == PutText(s4, "newline", 1)
<1>0. 3 \in Nat /\ 9 \in Nat /\ 1 \in Nat
  OBVIOUS
<1>s. /\ "dash" \in PieceNames /\ "file" \in PieceNames /\ "colon" \in PieceNames /\ "line" \in PieceNames /\ "newline" \in PieceNames
  BY DEF PieceNames
<1>1. StreamOk(s1)
  BY <1>0, <1>s, PutTextOk
<1> HIDE DEF s1
<1>2. StreamOk(s2)
  BY <1>0, <1>s, <1>1, PutTextOk
<1> HIDE DEF s2
<1>3. StreamOk(s3)
  BY <1>0, <1>s, <1>2, PutTextOk
<1> HIDE DEF s3
<1>4. StreamOk(s4)
  <2>1. Length(Convert(134)) \in 0..20
    BY LengthFacts
  <2> QED BY <1>0, <1>s, <1>3, <2>1, PutNumberOk
<1> HIDE DEF s4
<1>5. StreamOk(e)
  BY <1>0, <1>s, <1>4, PutTextOk
<1>6. Last(e.pieces) = "newline" \/ Room - e.used <= 1
  <2>1. s4.used \in Nat /\ s4.pieces \in Seq(PieceNames) /\ Room \in Nat
    BY <1>4, LoggerConstants DEF StreamOk
  <2>2. CASE Room - s4.used > 1
    <3>1. e.pieces = Append(s4.pieces, "newline")
      BY <2>2 DEF PutText, Add
    <3> HIDE DEF e
    <3>2. Last(e.pieces) = "newline"
      BY <2>1, <3>1 DEF Last
    <3> QED BY <3>2
  <2>3. CASE ~(Room - s4.used > 1)
    <3>1. e = s4
      BY <2>3 DEF PutText
    <3> HIDE DEF e
    <3> QED BY <2>1, <2>3, <3>1
  <2> QED BY <2>2, <2>3
<1> HIDE DEF e
<1> QED BY <1>5, <1>6 DEF e, s4, s3, s2, s1

(* The constructor of Logger and the operators << keep the invariant. *)
LEMMA BuildLine ==
  ASSUME LineInv, NEW t \in Threads, Build(t)
  PROVE  LineInv'
<1> DEFINE c == FormatTime(cache[t])
<1>1. ClockInv /\ <<days, sec>> \in LogTimes
  BY DEF LineInv, Build
<1>2. Now # 0 /\ Now \in Int
  BY <1>1, LogTimeFacts
<1>3. c.second = Now /\ (~switched => c.shown = Shown(zone, Now))
  BY <1>2, FormatTimeFacts
<1>4. UNCHANGED <<clock, zone, level, line, aborted, switched>>
  BY DEF Build
<1>5. Now' = Now
  BY <1>4 DEF clock, Now
<1>6. PICK m \in Messages :
        LET b == IF zone = NoZone THEN 9 ELSE 8
            s1 == PutText(EmptyStream, "time", 17)
            s2 == PutText(s1, "microseconds", b)
            s3 == PutText(PutText(s2, "tid", 6), "level", 6)
            s4 == IF m.level < INFO THEN PutText(PutText(s3, "func", 8), "space", 1) ELSE s3
        IN  /\ cache' = [cache EXCEPT ![t] = c]
            /\ held' = [held EXCEPT ![t] =
                 [at |-> Now, zone |-> IF switched THEN {} ELSE {zone}, shown |-> c.shown, message |-> m,
                  stream |-> PutPointer(PutNumber(PutCString(s4, "text", m.text), "number", m.number),
                                       "pointer", m.pointer)]]
  BY Zenon DEF Build
<1>7. PICK stream : /\ StreamOk(stream)
                    /\ held' = [held EXCEPT ![t] =
                         [at |-> Now, zone |-> IF switched THEN {} ELSE {zone}, shown |-> c.shown,
                          message |-> m, stream |-> stream]]
  <2> DEFINE b == IF zone = NoZone THEN 9 ELSE 8
  <2>1. b \in Nat
    OBVIOUS
  <2> HIDE DEF b, c
  <2> QED BY <1>6, <2>1, BuiltStream DEF b
<1>8. cache' = [cache EXCEPT ![t] = c]
  BY <1>6, Zenon
<1> HIDE DEF c
<1>9. ClockInv'
  BY <1>1, <1>4 DEF ClockInv, clock
<1>10. DOMAIN cache' = Threads /\ \A u \in Threads : CacheOk(cache[u])'
  <2>1. DOMAIN cache = Threads /\ \A u \in Threads : CacheOk(cache[u])
    BY DEF LineInv
  <2>2. DOMAIN cache' = Threads /\ \A u \in Threads : cache'[u] = IF u = t THEN c ELSE cache[u]
    BY <1>8, <2>1
  <2>3. zone' = zone /\ switched' = switched
    BY <1>4
  <2>4. ASSUME NEW u \in Threads, u # t PROVE CacheOk(cache[u])'
    <3>1. Shown(zone', Now') = Shown(zone, Now)
      BY <1>5, <2>3
    <3> QED BY <1>5, <2>1, <2>2, <2>3, <2>4, <3>1 DEF CacheOk
  <2>5. CacheOk(cache[t])'
    <3>1. Shown(zone', Now') = Shown(zone, Now)
      BY <1>5, <2>3
    <3>2. cache'[t] = c
      BY <2>2
    <3> QED BY <1>2, <1>3, <1>5, <2>3, <3>1, <3>2 DEF CacheOk
  <2> QED BY <2>2, <2>4, <2>5
<1>11. DOMAIN held' = Threads /\ \A u \in Threads : held'[u] # NoLine => HeldOk(held'[u])
  <2> DEFINE l == [at |-> Now, zone |-> IF switched THEN {} ELSE {zone}, shown |-> c.shown,
                   message |-> m, stream |-> stream]
  <2>1. DOMAIN held = Threads /\ \A u \in Threads : held[u] # NoLine => HeldOk(held[u])
    BY DEF LineInv
  <2>2. DOMAIN held' = Threads /\ \A u \in Threads : held'[u] = IF u = t THEN l ELSE held[u]
    BY <1>7, <2>1
  <2>3. HeldOk(l)
    <3> DEFINE zs == IF switched THEN {} ELSE {zone}
               n == Now
    <3>1. l.at = n /\ l.zone = zs /\ l.shown = c.shown /\ l.message = m /\ l.stream = stream
      OBVIOUS
    <3>2. l = [at |-> l.at, zone |-> l.zone, shown |-> l.shown, message |-> l.message, stream |-> l.stream]
      BY <3>1
    <3>3. \A z \in zs : c.shown = Shown(z, n)
      BY <1>3
    <3> HIDE DEF l, zs, n
    <3> QED BY <1>7, <3>1, <3>2, <3>3 DEF HeldOk
  <2> HIDE DEF l
  <2> QED BY <2>1, <2>2, <2>3
<1>12. zone' = zone /\ line' = line
  BY <1>4
<1>13. zone \in Zones \cup {NoZone} /\ (line # NoLine => LineOk(line))
  BY DEF LineInv
<1>14. (line # NoLine => LineOk(line))'
  BY <1>12, <1>13 DEF LineOk, HeldOk, StreamOk
<1>15. (\A u \in Threads : held[u] # NoLine => HeldOk(held[u]))'
  BY <1>11 DEF HeldOk, StreamOk
<1> QED BY <1>9, <1>10, <1>11, <1>12, <1>13, <1>14, <1>15 DEF LineInv

(* finish() and the output of the line keep the invariant. *)
LEMMA FinishLine ==
  ASSUME LineInv, NEW t \in Threads, Finish(t)
  PROVE  LineInv'
<1> DEFINE l == held[t]
           s == PutText(PutText(PutText(l.stream, "dash", 3), "file", 9), "colon", 1)
           e == PutText(PutNumber(s, "line", 134), "newline", 1)
<1>1. HeldOk(l)
  BY DEF LineInv, Finish
<1>2. StreamOk(l.stream)
  BY <1>1 DEF HeldOk
<1>3. StreamOk(e) /\ (Last(e.pieces) = "newline" \/ Room - e.used <= 1)
  <2> DEFINE s0 == l.stream
  <2> HIDE DEF l
  <2> QED BY <1>2, FinishedStream
<1>4. line' = [l EXCEPT !.stream = e] /\ held' = [held EXCEPT ![t] = NoLine]
      /\ UNCHANGED <<clock, zone, level, cache, built, switched>>
  BY DEF Finish
<1> HIDE DEF e
<1>5. LineOk(line')
  <2>1. l = [at |-> l.at, zone |-> l.zone, shown |-> l.shown, message |-> l.message, stream |-> l.stream]
    BY <1>1 DEF HeldOk
  <2>2. \A a, b, c, d, x : [[at |-> a, zone |-> b, shown |-> c, message |-> d, stream |-> x] EXCEPT !.stream = e]
                             = [at |-> a, zone |-> b, shown |-> c, message |-> d, stream |-> e]
    OBVIOUS
  <2>3. line' = [at |-> l.at, zone |-> l.zone, shown |-> l.shown, message |-> l.message, stream |-> e]
    <3> HIDE DEF l
    <3> QED BY <1>4, <2>1, <2>2
  <2>4. line'.at = l.at /\ line'.zone = l.zone /\ line'.shown = l.shown /\ line'.message = l.message
        /\ line'.stream = e
    BY <2>3
  <2>5. (\A z \in l.zone : l.shown = Shown(z, l.at)) /\ l.message \in Messages
    BY <1>1 DEF HeldOk
  <2> HIDE DEF l
  <2>6. line' = [at |-> line'.at, zone |-> line'.zone, shown |-> line'.shown, message |-> line'.message,
                 stream |-> line'.stream]
    BY <2>3, <2>4
  <2>7. HeldOk(line')
    BY <1>3, <2>4, <2>5, <2>6 DEF HeldOk
  <2> QED BY <1>3, <2>4, <2>7 DEF LineOk
<1>6. Now' = Now /\ zone' = zone /\ switched' = switched /\ cache' = cache
  BY <1>4 DEF clock, Now
<1>7. ClockInv'
  BY <1>4 DEF LineInv, ClockInv, clock
<1>8. DOMAIN held' = Threads /\ \A u \in Threads : held'[u] # NoLine => HeldOk(held'[u])
  BY <1>4 DEF LineInv
<1>9. (\A u \in Threads : CacheOk(cache[u]))'
  <2>1. Shown(zone', Now') = Shown(zone, Now)
    BY <1>6
  <2> QED BY <1>6, <2>1 DEF LineInv, CacheOk
<1>10. (\A u \in Threads : held[u] # NoLine => HeldOk(held[u]))'
  BY <1>8 DEF HeldOk, StreamOk
<1>11. (line # NoLine => LineOk(line))'
  BY <1>5 DEF LineOk, HeldOk, StreamOk
<1> QED BY <1>6, <1>7, <1>8, <1>9, <1>10, <1>11 DEF LineInv

(* Every step keeps the invariant. *)
LEMMA LineStep ==
  ASSUME LineInv, [Next]_vars
  PROVE  LineInv'
<1>1. ClockInv'
  BY ClockStep DEF LineInv
<1>2. ASSUME cache' = cache, held' = held, line' = line, zone' \in Zones \cup {NoZone},
             \A u \in Threads : CacheOk(cache[u])'
      PROVE  LineInv'
  <2>1. (\A u \in Threads : held[u] # NoLine => HeldOk(held[u]))'
    BY <1>2 DEF LineInv, HeldOk, StreamOk
  <2>2. (line # NoLine => LineOk(line))'
    BY <1>2 DEF LineInv, LineOk, HeldOk, StreamOk
  <2>3. DOMAIN cache' = Threads /\ DOMAIN held' = Threads
    BY <1>2 DEF LineInv
  <2> QED BY <1>1, <1>2, <2>1, <2>2, <2>3 DEF LineInv
<1>3. CASE Tick
  <2>1. Now \in Int /\ Now' \in Int /\ Now' > Now
    BY <1>3, TickForward DEF LineInv
  <2>2. cache' = cache /\ held' = held /\ line' = line /\ zone' = zone
    BY <1>3 DEF Tick
  <2>3. ASSUME NEW u \in Threads PROVE CacheOk(cache[u])'
    <3>1. CacheOk(cache[u])
      BY DEF LineInv
    <3>2. cache[u].second \in Int /\ (cache[u].second # 0 => cache[u].second <= Now)
      BY <3>1 DEF CacheOk
    <3>3. cache[u].second # 0 => cache[u].second <= Now' /\ cache[u].second # Now'
      BY <2>1, <3>2
    <3> QED BY <2>2, <3>2, <3>3 DEF CacheOk
  <2> QED BY <1>2, <2>2, <2>3 DEF LineInv
<1>4. CASE SetTimeZone
  <2>1. cache' = cache /\ held' = held /\ line' = line /\ zone' \in Zones /\ switched' = TRUE /\ Now' = Now
    BY <1>4 DEF SetTimeZone, clock, Now
  <2>2. \A u \in Threads : CacheOk(cache[u])'
    BY <2>1 DEF LineInv, CacheOk
  <2> QED BY <1>2, <2>1, <2>2
<1>5. CASE SetLogLevel \/ UNCHANGED vars
  <2>1. cache' = cache /\ held' = held /\ line' = line /\ zone' = zone /\ switched' = switched /\ Now' = Now
    BY <1>5 DEF SetLogLevel, clock, vars, Now
  <2>2. \A u \in Threads : CacheOk(cache[u])'
    <3>1. Shown(zone', Now') = Shown(zone, Now)
      BY <2>1
    <3> QED BY <2>1, <3>1 DEF LineInv, CacheOk
  <2> QED BY <1>2, <2>1, <2>2 DEF LineInv
<1>6. CASE \E t \in Threads : Build(t)
  BY <1>6, BuildLine
<1>7. CASE \E t \in Threads : Finish(t)
  BY <1>7, FinishLine
<1> QED BY <1>3, <1>4, <1>5, <1>6, <1>7 DEF Next

(* A line that satisfies the invariant is true. *)
LEMMA LineTrue ==
  ASSUME LineInv
  PROVE  LinesAreTrue
<1> SUFFICES ASSUME line # NoLine
             PROVE  /\ \A z \in line.zone : line.shown = Shown(z, line.at)
                    /\ LET n == Convert(line.message.number)
                           h == ConvertHex(line.message.pointer)
                       IN  /\ n.digits # <<>> /\ Value(n, 10) = line.message.number
                           /\ h.digits # <<>> /\ Value(h, 16) = line.message.pointer
                    /\ line.stream.top <= Room
                    /\ Last(line.stream.pieces) = "newline" \/ Room - line.stream.used <= 1
  BY Zenon DEF LinesAreTrue
<1>1. LineOk(line)
  BY DEF LineInv
<1>2. /\ \A z \in line.zone : line.shown = Shown(z, line.at)
      /\ line.message \in Messages /\ line.stream.top <= Room
      /\ Last(line.stream.pieces) = "newline" \/ Room - line.stream.used <= 1
  BY <1>1 DEF LineOk, HeldOk, StreamOk
<1> DEFINE v == line.message.number
           w == line.message.pointer
<1>3. v \in Int /\ w \in Nat
  BY <1>2, LoggerConstants
<1> HIDE DEF v, w
<1>4. Convert(v).digits # <<>> /\ Value(Convert(v), 10) = v
  <2> DEFINE n == Convert(v)
             r == Read(DigitsIn(10)[v], 10)
  <2>1. n.digits = DigitsIn(10)[v]
    BY ConvertDigits
  <2>2. DigitsIn(10)[v] # <<>> /\ r = IF v < 0 THEN v ELSE -v
    BY <1>3, DigitsRead
  <2>3. n.neg <=> v < 0
    BY DEF Convert
  <2> HIDE DEF n, r
  <2>4. Value(n, 10) = IF n.neg THEN r ELSE -r
    BY <2>1 DEF Value, r
  <2>5. Value(n, 10) = v
    BY <1>3, <2>2, <2>3, <2>4
  <2> QED BY <2>1, <2>2, <2>5 DEF n
<1>5. ConvertHex(w).digits # <<>> /\ Value(ConvertHex(w), 16) = w
  <2> DEFINE n == ConvertHex(w)
             r == Read(DigitsIn(16)[w], 16)
  <2>1. n.digits = DigitsIn(16)[w]
    BY ConvertDigits
  <2>2. DigitsIn(16)[w] # <<>> /\ r = IF w < 0 THEN w ELSE -w
    BY <1>3, DigitsRead
  <2>3. ~n.neg
    BY DEF ConvertHex
  <2> HIDE DEF n, r
  <2>4. Value(n, 16) = -r
    BY <2>1, <2>3 DEF Value, r
  <2>5. Value(n, 16) = w
    BY <1>3, <2>2, <2>4
  <2> QED BY <2>1, <2>2, <2>5 DEF n
<1> QED BY <1>2, <1>4, <1>5 DEF v, w

(* A line that is output shows the instant its Logger was built, in the zone that was set, although the
   stamp is cached; the numbers in it read back as those logged, nothing was written past the buffer and
   only a full buffer keeps it from ending with a newline: for any number of threads, zones, times and
   messages, and any size of the buffer. *)
THEOREM LinesAlwaysTrue == Spec => []LinesAreTrue
<1>1. Init => LineInv
  BY LineInit
<1>2. LineInv /\ [Next]_vars => LineInv'
  BY LineStep
<1>3. LineInv => LinesAreTrue
  BY LineTrue
<1> QED BY <1>1, <1>2, <1>3, PTL DEF Spec
=============================================================================
