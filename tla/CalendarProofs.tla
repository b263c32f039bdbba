---------------------------- MODULE CalendarProofs ----------------------------
(*****************************************************************************)
(* What is proved of the calendar arithmetic of src/hw_rtc.c, for every date *)
(* from 2000 to 2099 and for days, hours, minutes and seconds of any length. *)
(*                                                                           *)
(* The months that HW_RTC_GetCalendarValue counts by halves of days and two  *)
(* tables of corrections are those of the calendar, so that its value counts *)
(* every tick (NextTickIsNext); two calendars are equal if their values are  *)
(* (SameValue); and the fields of an alarm less than a month ahead match the *)
(* calendar then and not before (AlarmAhead).                                *)
(*****************************************************************************)
EXTENDS Calendar, TLAPS

(*****************************************************************************)
(* Products, quotients and remainders                                        *)
(*****************************************************************************)

(* Products of integers, where a prover needs them term by term.            *)
LEMMA Product ==
  ASSUME NEW a \in Int, NEW b \in Int, NEW n \in Int
  PROVE  /\ a * n \in Int
         /\ (a + b) * n = a * n + b * n
         /\ (a - b) * n = a * n - b * n
         /\ a * n = n * a
  OBVIOUS

(* A product keeps an order.                                                *)
LEMMA ProductOrder ==
  ASSUME NEW a \in Int, NEW b \in Int, NEW n \in Nat, a <= b
  PROVE  a * n <= b * n
  OBVIOUS

(* A product by a positive number keeps a strict order.                     *)
LEMMA ProductStrict ==
  ASSUME NEW a \in Int, NEW b \in Int, NEW n \in Nat \ {0}, a < b
  PROVE  a * n < b * n
<1>1. (a + 1) * n <= b * n
  BY ProductOrder
<1>2. (a + 1) * n = a * n + n /\ a * n \in Int /\ b * n \in Int
  OBVIOUS
<1> QED BY <1>1, <1>2

(* A quotient and its remainder are unique.                                 *)
LEMMA Euclid ==
  ASSUME NEW n \in Nat \ {0}, NEW q \in Int, NEW r \in 0..(n - 1),
         NEW p \in Int, NEW s \in 0..(n - 1), q * n + r = p * n + s
  PROVE  q = p /\ r = s
  OBVIOUS

(* A number from its quotient and its remainder.                            *)
LEMMA DivMod ==
  ASSUME NEW a \in Int, NEW n \in Nat \ {0}
  PROVE  /\ a \div n \in Int
         /\ a % n \in 0..(n - 1)
         /\ a = (a \div n) * n + (a % n)
  OBVIOUS

(* Quotients and remainders of natural numbers.                             *)
LEMMA DivModNat ==
  ASSUME NEW a \in Nat, NEW n \in Nat \ {0}
  PROVE  /\ a \div n \in Nat
         /\ (a \div n) * n <= a
         /\ a < (a \div n) * n + n
         /\ a % n \in Nat
         /\ a % n <= a
  OBVIOUS

(* The remainder and the quotient of a number that is given by them.        *)
LEMMA ModIs ==
  ASSUME NEW n \in Nat \ {0}, NEW q \in Int, NEW r \in 0..(n - 1)
  PROVE  (q * n + r) % n = r /\ (q * n + r) \div n = q
<1>1. q * n + r \in Int
  OBVIOUS
<1>2. PICK p \in Int, s \in 0..(n - 1) :
        p = (q * n + r) \div n /\ s = (q * n + r) % n /\ q * n + r = p * n + s
  BY <1>1, DivMod
<1>3. q * n + r = p * n + s
  BY <1>2
<1>4. q = p /\ r = s
  BY <1>3, Euclid, Zenon
<1> QED BY <1>2, <1>4

(* Quotients in order: what is multiplied is.                                *)
LEMMA CancelProduct ==
  ASSUME NEW a \in Int, NEW b \in Int, NEW n \in Nat \ {0}, a * n < b * n
  PROVE  a < b
<1>1. ~(b <= a)
  BY ProductOrder
<1> QED BY <1>1

(* Names for a quotient and its remainder.                                  *)
LEMMA Quotient ==
  ASSUME NEW a \in Nat, NEW n \in Nat \ {0}
  PROVE  \E q \in Nat, r \in 0..(n - 1) : q = a \div n /\ r = a % n /\ a = q * n + r
<1> DEFINE q == a \div n
           r == a % n
<1>1. q \in Nat
  BY DivModNat
<1>2. r \in 0..(n - 1) /\ a = q * n + r
  BY DivMod
<1> HIDE DEF q, r
<1>3. q = a \div n /\ r = a % n
  BY DEF q, r
<1> QED BY <1>1, <1>2, <1>3

(* Remainders of remainders, as HW_RTC_StartWakeUpAlarm takes them.          *)
LEMMA NestedMod ==
  ASSUME NEW q \in Nat, NEW n \in Nat \ {0}, NEW k \in Nat \ {0}
  PROVE  (q % (n * k)) % n = q % n
<1> DEFINE d == q \div (n * k)
           r == q % (n * k)
           e == r \div n
           s == r % n
<1>1. n * k \in Nat \ {0}
  OBVIOUS
<1>2. d \in Int /\ r \in 0..((n * k) - 1) /\ q = d * (n * k) + r
  <2> DEFINE p == n * k
  <2>1. p \in Nat \ {0}
    BY <1>1
  <2> HIDE DEF p
  <2>2. (q \div p) \in Int /\ (q % p) \in 0..(p - 1) /\ q = (q \div p) * p + (q % p)
    BY <2>1, DivMod
  <2> QED BY <2>2 DEF p
<1>3. r \in Nat
  BY <1>1, <1>2
<1> HIDE DEF d, r
<1>4. e \in Int /\ s \in 0..(n - 1) /\ r = e * n + s
  BY <1>3
<1> HIDE DEF e, s
<1>5. d * (n * k) = (d * k) * n
  BY <1>2
<1>6. d * k + e \in Int
  BY <1>2, <1>4
<1>7. (d * k + e) * n = (d * k) * n + e * n
  <2>1. d * k \in Int
    BY <1>2
  <2> QED BY <1>4, <2>1, Product
<1>8. (d * k) * n \in Int /\ e * n \in Int
  BY <1>2, <1>4
<1>9. q = (d * k + e) * n + s
  BY <1>2, <1>4, <1>5, <1>7, <1>8
<1>10. ((d * k + e) * n + s) % n = s
  BY <1>4, <1>6, ModIs, Zenon
<1> QED BY <1>9, <1>10 DEF r, s

(* Rounding down twice loses less than rounding up once adds.                *)
LEMMA FloorOfFloor ==
  ASSUME NEW r \in Nat, NEW m \in Nat \ {0}, NEW n \in Nat \ {0}, NEW t \in Nat \ {0},
         NEW f \in Nat, NEW g \in Nat, NEW h \in Nat, NEW c \in Nat,
         f * t <= r * n, r * n < f * t + t,
         g * n <= f * m, f * m < g * n + n,
         h * t <= r * m, r * m < h * t + t,
         m <= c * n
  PROVE  h - g \in 0..c
<1>1. g < h + 1
  <2>1. (f * t) * m <= (r * n) * m
    <3>1. f * t \in Int /\ r * n \in Int /\ m \in Nat
      OBVIOUS
    <3> QED BY <3>1, ProductOrder
  <2>2. (g * n) * t <= (f * m) * t
    <3>1. g * n \in Int /\ f * m \in Int /\ t \in Nat
      OBVIOUS
    <3> QED BY <3>1, ProductOrder
  <2>3. (r * m) * n < (h * t + t) * n
    <3>1. r * m \in Int /\ h * t + t \in Int
      OBVIOUS
    <3> QED BY <3>1, ProductStrict
  <2>4. /\ (f * t) * m = (f * m) * t
        /\ (r * n) * m = (r * m) * n
        /\ (g * n) * t = (g * t) * n
        /\ (h * t + t) * n = ((h + 1) * t) * n
    OBVIOUS
  <2>5. /\ (f * m) * t \in Int /\ (r * m) * n \in Int /\ (g * t) * n \in Int
        /\ ((h + 1) * t) * n \in Int
    OBVIOUS
  <2>6. (g * t) * n < ((h + 1) * t) * n
    BY <2>1, <2>2, <2>3, <2>4, <2>5
  <2>7. g * t < (h + 1) * t
    <3>1. g * t \in Int /\ (h + 1) * t \in Int
      OBVIOUS
    <3> QED BY <2>6, <3>1, CancelProduct
  <2>8. g \in Int /\ h + 1 \in Int
    OBVIOUS
  <2> QED BY <2>7, <2>8, CancelProduct
<1>2. h < g + 1 + c
  <2>1. (r * n) * m < (f * t + t) * m
    <3>1. r * n \in Int /\ f * t + t \in Int
      OBVIOUS
    <3> QED BY <3>1, ProductStrict
  <2>2. (f * m + m) * t < (g * n + n + c * n) * t
    <3>1. f * m + m \in Int /\ g * n + n + c * n \in Int /\ f * m + m < g * n + n + c * n
      <4>1. f * m \in Int /\ g * n \in Int /\ c * n \in Int
        OBVIOUS
      <4> QED BY <4>1
    <3> QED BY <3>1, ProductStrict
  <2>3. /\ (f * t + t) * m = (f * m + m) * t
        /\ (r * n) * m = (r * m) * n
        /\ (g * n + n + c * n) * t = ((g + 1 + c) * t) * n
    OBVIOUS
  <2>4. (h * t) * n <= (r * m) * n
    <3>1. h * t \in Int /\ r * m \in Int /\ n \in Nat
      OBVIOUS
    <3> QED BY <3>1, ProductOrder
  <2>5. /\ (f * m + m) * t \in Int /\ (r * m) * n \in Int /\ (h * t) * n \in Int
        /\ ((g + 1 + c) * t) * n \in Int
    OBVIOUS
  <2>6. (h * t) * n < ((g + 1 + c) * t) * n
    BY <2>1, <2>2, <2>3, <2>4, <2>5
  <2>7. h * t < (g + 1 + c) * t
    <3>1. h * t \in Int /\ (g + 1 + c) * t \in Int
      OBVIOUS
    <3> QED BY <2>6, <3>1, CancelProduct
  <2>8. h \in Int /\ g + 1 + c \in Int
    OBVIOUS
  <2> QED BY <2>7, <2>8, CancelProduct
<1> QED BY <1>1, <1>2

(*****************************************************************************)
(* Days                                                                      *)
(*****************************************************************************)

(* The lengths of a second, a minute, an hour and a day are positive.       *)
LEMMA Sizes ==
  /\ PREDIV_S \in Nat
  /\ TicksPerSecond \in Nat \ {0}
  /\ TicksPerSecond = PREDIV_S + 1
  /\ SECONDS_IN_1MINUTE \in Nat \ {0, 1}
  /\ MINUTES_IN_1HOUR \in Nat \ {0}
  /\ HOURS_IN_1DAY \in Nat \ {0}
  /\ SECONDS_IN_1HOUR \in Nat \ {0, 1}
  /\ SECONDS_IN_1DAY \in Nat \ {0, 1}
  /\ TicksPerDay \in Nat \ {0}
<1>1. ASSUME NEW a \in Nat \ {0, 1}, NEW b \in Nat \ {0} PROVE a * b \in Nat \ {0, 1}
  BY <1>1
<1>2. ASSUME NEW a \in Nat \ {0}, NEW b \in Nat \ {0} PROVE a * b \in Nat \ {0}
  BY <1>2
<1>3. SECONDS_IN_1HOUR \in Nat \ {0, 1}
  BY <1>1, CalendarAssumption DEF SECONDS_IN_1HOUR
<1>4. SECONDS_IN_1DAY \in Nat \ {0, 1}
  BY <1>1, <1>3, CalendarAssumption DEF SECONDS_IN_1DAY
<1>5. TicksPerSecond \in Nat \ {0} /\ TicksPerSecond = PREDIV_S + 1
  BY CalendarAssumption DEF TicksPerSecond
<1>6. TicksPerDay \in Nat \ {0}
  BY <1>2, <1>4, <1>5 DEF TicksPerDay
<1> QED BY <1>3, <1>4, <1>5, <1>6, CalendarAssumption

(* Days of a year before a month. *)
DaysBefore(year, month) ==
  (IF IsLeap(year) /\ month > 2 THEN 1 ELSE 0)
    + <<0, 31, 59, 90, 120, 151, 181, 212, 243, 273, 304, 334>>[month]

(* The months of 30.5 days, as HW_RTC_GetCalendarValue corrects them by its *)
(* two bit tables, are those of the calendar.                               *)
LEMMA Corrections ==
  ASSUME NEW y \in 0..99, NEW m \in 1..12
  PROVE  DIVC((m - 1) * 61, 2) - MonthCorrection(y, m) = DaysBefore(y, m)
<1>1. m = 1 => 4^(m - 1) = 1        BY 4^0 = 1
<1>2. m = 2 => 4^(m - 1) = 4        BY 2 - 1 = 1, 4^1 = 4
<1>3. m = 3 => 4^(m - 1) = 16       BY 3 - 1 = 2, 4^2 = 16
<1>4. m = 4 => 4^(m - 1) = 64       BY 4 - 1 = 3, 4^3 = 64
<1>5. m = 5 => 4^(m - 1) = 256      BY 5 - 1 = 4, 4^4 = 256
<1>6. m = 6 => 4^(m - 1) = 1024     BY 6 - 1 = 5, 4^5 = 1024
<1>7. m = 7 => 4^(m - 1) = 4096     BY 7 - 1 = 6, 4^6 = 4096
<1>8. m = 8 => 4^(m - 1) = 16384    BY 8 - 1 = 7, 4^7 = 16384
<1>9. m = 9 => 4^(m - 1) = 65536    BY 9 - 1 = 8, 4^8 = 65536
<1>10. m = 10 => 4^(m - 1) = 262144  BY 10 - 1 = 9, 4^9 = 262144
<1>11. m = 11 => 4^(m - 1) = 1048576 BY 11 - 1 = 10, 4^10 = 1048576
<1>12. m = 12 => 4^(m - 1) = 4194304 BY 12 - 1 = 11, 4^11 = 4194304
<1>13. m \in {1, 2, 3, 4, 5, 6, 7, 8, 9, 10, 11, 12}
  OBVIOUS
<1> QED
  BY <1>1, <1>2, <1>3, <1>4, <1>5, <1>6, <1>7, <1>8, <1>9, <1>10, <1>11, <1>12, <1>13
  DEF MonthCorrection, DAYS_IN_MONTH_CORRECTION_LEAP, DAYS_IN_MONTH_CORRECTION_NORM,
      DIVC, DaysBefore, IsLeap

(* Days before a year. *)
LEMMA Years ==
  ASSUME NEW y \in 0..99
  PROVE  /\ DIVC(1461 * y, 4) = 365 * y + ((y + 3) \div 4)
         /\ DIVC(1461 * y, 4) \in Nat
  BY DEF DIVC

(* Days since 2000-01-01 of a date.                                         *)
DateDays(y, m, d) == 365 * y + ((y + 3) \div 4) + DaysBefore(y, m) + d - 1

(* HW_RTC_GetCalendarValue counts the days of a date that the calendar      *)
(* shows.                                                                   *)
LEMMA DaysOf ==
  ASSUME NEW c \in Calendars
  PROVE  /\ Days(c) = DateDays(c.Year, c.Month, c.Date)
         /\ c.Year \in 0..99
         /\ c.Month \in 1..12
         /\ c.Date \in 1..31
         /\ c.Date <= DaysInMonth(c.Year, c.Month)
  BY Corrections, Years DEF Days, DateDays, Calendars, Fields
MonthStart(y, m) == DateDays(y, m, 1)

(* A month has 28 days or more.                                             *)
LEMMA MonthSizes ==
  ASSUME NEW y \in 0..99, NEW m \in 1..12
  PROVE  DaysBefore(y, m) \in Nat /\ DaysInMonth(y, m) \in 28..31
<1>1. m \in {1, 2, 3, 4, 5, 6, 7, 8, 9, 10, 11, 12}
  OBVIOUS
<1> QED BY <1>1 DEF DaysBefore, DaysInMonth, IsLeap

(* The months of a year fill it.                                            *)
LEMMA YearEdges ==
  ASSUME NEW y \in 0..99
  PROVE  /\ DaysBefore(y, 1) = 0
         /\ DaysBefore(y, 12) + DaysInMonth(y, 12) = IF IsLeap(y) THEN 366 ELSE 365
  BY DEF DaysBefore, DaysInMonth, IsLeap

(* No month ends after its year.                                            *)
LEMMA MonthsInYear ==
  ASSUME NEW y \in 0..99, NEW m \in 1..12
  PROVE  DaysBefore(y, m) + DaysInMonth(y, m) <= IF IsLeap(y) THEN 366 ELSE 365
<1>1. m \in {1, 2, 3, 4, 5, 6, 7, 8, 9, 10, 11, 12}
  OBVIOUS
<1> QED BY <1>1 DEF DaysBefore, DaysInMonth, IsLeap

(* A month of a year starts where the one before ends, or later.            *)
LEMMA LaterMonths ==
  ASSUME NEW y \in 0..99, NEW m \in 1..12, NEW n \in 1..12, m < n
  PROVE  /\ DaysBefore(y, m) + DaysInMonth(y, m) <= DaysBefore(y, n)
         /\ n = m + 1 => DaysBefore(y, n) = DaysBefore(y, m) + DaysInMonth(y, m)
<1>1. m \in {1, 2, 3, 4, 5, 6, 7, 8, 9, 10, 11, 12}
  OBVIOUS
<1>2. n \in {1, 2, 3, 4, 5, 6, 7, 8, 9, 10, 11, 12}
  OBVIOUS
<1> QED BY <1>1, <1>2 DEF DaysBefore, DaysInMonth, IsLeap

(* A year starts where the one before ends, or later.                       *)
LEMMA YearsInOrder ==
  ASSUME NEW y \in 0..99
  PROVE  /\ y < 99 => ((y + 1 + 3) \div 4) = ((y + 3) \div 4) + (IF IsLeap(y) THEN 1 ELSE 0)
         /\ \A x \in 0..99 : y < x =>
              ((x + 3) \div 4) >= ((y + 3) \div 4) + (IF IsLeap(y) THEN 1 ELSE 0)
  BY DEF IsLeap

(* The months of all years are in order, without gap or overlap.            *)
LEMMA MonthsInOrder ==
  ASSUME NEW y \in 0..99, NEW m \in 1..12, NEW x \in 0..99, NEW n \in 1..12,
         12 * y + m < 12 * x + n
  PROVE  /\ MonthStart(y, m) \in Int
         /\ MonthStart(x, n) >= MonthStart(y, m) + DaysInMonth(y, m)
         /\ 12 * x + n = 12 * y + m + 1
              => MonthStart(x, n) = MonthStart(y, m) + DaysInMonth(y, m)
<1>1. CASE x = y
  <2>1. m < n
    BY <1>1
  <2>2. DaysBefore(y, m) + DaysInMonth(y, m) <= DaysBefore(y, n)
    BY <2>1, LaterMonths
  <2>3. n = m + 1 => DaysBefore(y, n) = DaysBefore(y, m) + DaysInMonth(y, m)
    BY <2>1, LaterMonths
  <2>4. DaysBefore(y, m) \in Nat /\ DaysBefore(y, n) \in Nat /\ DaysInMonth(y, m) \in 28..31
    BY MonthSizes
  <2> QED BY <1>1, <2>1, <2>2, <2>3, <2>4 DEF MonthStart, DateDays
<1>2. CASE x # y
  <2>1. y < x
    BY <1>2
  <2>2. ((x + 3) \div 4) >= ((y + 3) \div 4) + (IF IsLeap(y) THEN 1 ELSE 0)
    BY <2>1, YearsInOrder
  <2>3. DaysBefore(y, m) + DaysInMonth(y, m) <= IF IsLeap(y) THEN 366 ELSE 365
    BY MonthsInYear
  <2>4. DaysBefore(y, m) \in Nat /\ DaysBefore(x, n) \in Nat /\ DaysInMonth(y, m) \in 28..31
    BY MonthSizes
  <2>5. MonthStart(x, n) >= MonthStart(y, m) + DaysInMonth(y, m)
    BY <2>1, <2>2, <2>3, <2>4 DEF MonthStart, DateDays
  <2>6. ASSUME 12 * x + n = 12 * y + m + 1
        PROVE  MonthStart(x, n) = MonthStart(y, m) + DaysInMonth(y, m)
    <3>1. x = y + 1 /\ m = 12 /\ n = 1
      BY <2>1, <2>6
    <3>2. ((y + 1 + 3) \div 4) = ((y + 3) \div 4) + (IF IsLeap(y) THEN 1 ELSE 0)
      BY <3>1, YearsInOrder
    <3>3. DaysBefore(y, m) + DaysInMonth(y, m) = IF IsLeap(y) THEN 366 ELSE 365
      BY <3>1, YearEdges
    <3>4. DaysBefore(x, n) = 0
      BY <3>1, YearEdges
    <3> QED BY <3>1, <3>2, <3>3, <3>4, <2>4 DEF MonthStart, DateDays
  <2>7. MonthStart(y, m) \in Int
    BY <2>4 DEF MonthStart, DateDays
  <2> QED BY <2>5, <2>6, <2>7
<1> QED BY <1>1, <1>2

(* Between a month and the next but one there are 28 days or more.          *)
LEMMA MonthAfterNext ==
  ASSUME NEW y \in 0..99, NEW m \in 1..12, NEW x \in 0..99, NEW n \in 1..12,
         12 * y + m + 1 < 12 * x + n
  PROVE  MonthStart(x, n) >= MonthStart(y, m) + DaysInMonth(y, m) + 28
<1>1. PICK z \in 0..99, k \in 1..12 : 12 * z + k = 12 * y + m + 1
  <2>1. CASE m < 12
    <3>1. y \in 0..99 /\ m + 1 \in 1..12 /\ 12 * y + (m + 1) = 12 * y + m + 1
      BY <2>1
    <3> QED BY <3>1
  <2>2. CASE m = 12
    <3>1. y + 1 \in 0..99 /\ 1 \in 1..12 /\ 12 * (y + 1) + 1 = 12 * y + m + 1
      BY <2>2
    <3> QED BY <3>1
  <2> QED BY <2>1, <2>2
<1>2. MonthStart(z, k) = MonthStart(y, m) + DaysInMonth(y, m)
  <2>1. 12 * y + m < 12 * z + k
    BY <1>1
  <2> QED BY <1>1, <2>1, MonthsInOrder
<1>3. MonthStart(x, n) >= MonthStart(z, k) + DaysInMonth(z, k) /\ MonthStart(z, k) \in Int
  <2>1. 12 * z + k < 12 * x + n
    BY <1>1
  <2> QED BY <2>1, MonthsInOrder
<1>4. DaysInMonth(z, k) \in 28..31 /\ DaysBefore(x, n) \in Nat /\ DaysBefore(y, m) \in Nat
  BY MonthSizes
<1>5. DaysInMonth(y, m) \in 28..31
  BY MonthSizes
<1>6. MonthStart(x, n) \in Int /\ MonthStart(y, m) \in Int
  BY <1>4 DEF MonthStart, DateDays
<1> QED BY <1>2, <1>3, <1>4, <1>5, <1>6

(* The days of a date from the start of its month.                          *)
LEMMA DaysFromMonth ==
  ASSUME NEW c \in Calendars
  PROVE  /\ Days(c) = MonthStart(c.Year, c.Month) + c.Date - 1
         /\ MonthStart(c.Year, c.Month) \in Nat
         /\ Days(c) \in Nat
<1>1. PICK y \in 0..99, m \in 1..12 : y = c.Year /\ m = c.Month
  BY DaysOf
<1>2. Days(c) = DateDays(y, m, c.Date) /\ c.Date \in 1..31
  BY <1>1, DaysOf
<1>3. DaysBefore(y, m) \in Nat
  BY MonthSizes
<1> QED BY <1>1, <1>2, <1>3 DEF MonthStart, DateDays

(* The next month of a year starts where the month ends...                  *)
LEMMA NextMonth ==
  ASSUME NEW y \in 0..99, NEW m \in 1..12, NEW n \in 1..12, n = m + 1
  PROVE  MonthStart(y, n) = MonthStart(y, m) + DaysInMonth(y, m)
<1>1. 12 * y + m < 12 * y + n /\ 12 * y + n = 12 * y + m + 1
  OBVIOUS
<1> QED BY <1>1, MonthsInOrder

(* ...and so does the next year.                                            *)
LEMMA NextYear ==
  ASSUME NEW y \in 0..99, NEW z \in 0..99, z = y + 1
  PROVE  MonthStart(z, 1) = MonthStart(y, 12) + DaysInMonth(y, 12)
<1>1. 12 * y + 12 < 12 * z + 1 /\ 12 * z + 1 = 12 * y + 12 + 1 /\ 12 \in 1..12 /\ 1 \in 1..12
  OBVIOUS
<1> QED BY <1>1, MonthsInOrder

(* A month is before another one, the same, the next one, or a later one.    *)
LEMMA MonthsApart ==
  ASSUME NEW y \in 0..99, NEW m \in 1..12, NEW z \in 0..99, NEW n \in 1..12
  PROVE  \/ MonthStart(z, n) + DaysInMonth(z, n) <= MonthStart(y, m)
         \/ z = y /\ n = m
         \/ MonthStart(z, n) = MonthStart(y, m) + DaysInMonth(y, m)
         \/ MonthStart(z, n) >= MonthStart(y, m) + DaysInMonth(y, m) + 28
<1>1. CASE 12 * z + n < 12 * y + m
  BY <1>1, MonthsInOrder
<1>2. CASE 12 * z + n = 12 * y + m
  BY <1>2
<1>3. CASE 12 * z + n = 12 * y + m + 1
  <2>1. 12 * y + m < 12 * z + n
    BY <1>3
  <2> QED BY <2>1, <1>3, MonthsInOrder
<1>4. CASE 12 * y + m + 1 < 12 * z + n
  BY <1>4, MonthAfterNext
<1>5. \/ 12 * z + n < 12 * y + m
      \/ 12 * z + n = 12 * y + m
      \/ 12 * z + n = 12 * y + m + 1
      \/ 12 * y + m + 1 < 12 * z + n
  OBVIOUS
<1> QED BY <1>1, <1>2, <1>3, <1>4, <1>5

(* The date some days, less than 28, after a date.                           *)
LEMMA DateAfter ==
  ASSUME NEW a \in Calendars, NEW x \in Calendars, NEW k \in 0..27, Days(x) = Days(a) + k
  PROVE  /\ DaysInMonth(a.Year, a.Month) \in 28..31
         /\ \/ /\ x.Year = a.Year
               /\ x.Month = a.Month
               /\ x.Date = a.Date + k
               /\ a.Date + k <= DaysInMonth(a.Year, a.Month)
            \/ /\ x.Date = a.Date + k - DaysInMonth(a.Year, a.Month)
               /\ a.Date + k > DaysInMonth(a.Year, a.Month)
<1>1. PICK y \in 0..99, m \in 1..12, d \in 1..31 : y = a.Year /\ m = a.Month /\ d = a.Date
  BY DaysOf
<1>2. PICK z \in 0..99, n \in 1..12, e \in 1..31 : z = x.Year /\ n = x.Month /\ e = x.Date
  BY DaysOf
<1>3. d <= DaysInMonth(y, m) /\ e <= DaysInMonth(z, n)
  BY <1>1, <1>2, DaysOf
<1>4. Days(a) = MonthStart(y, m) + d - 1 /\ MonthStart(y, m) \in Nat
  BY <1>1, DaysFromMonth
<1>5. Days(x) = MonthStart(z, n) + e - 1 /\ MonthStart(z, n) \in Nat
  BY <1>2, DaysFromMonth
<1>6. MonthStart(z, n) + e = MonthStart(y, m) + d + k
  BY <1>4, <1>5
<1>7. DaysInMonth(y, m) \in 28..31 /\ DaysInMonth(z, n) \in 28..31
  BY MonthSizes
<1>8. \/ z = y /\ n = m
      \/ MonthStart(z, n) = MonthStart(y, m) + DaysInMonth(y, m)
  <2>1. ~(MonthStart(z, n) + DaysInMonth(z, n) <= MonthStart(y, m))
    BY <1>3, <1>4, <1>5, <1>6, <1>7
  <2>2. ~(MonthStart(z, n) >= MonthStart(y, m) + DaysInMonth(y, m) + 28)
    BY <1>3, <1>4, <1>5, <1>6, <1>7
  <2> QED BY <2>1, <2>2, MonthsApart
<1>9. CASE z = y /\ n = m
  <2>1. e = d + k
    BY <1>4, <1>6, <1>9
  <2>2. d + k <= DaysInMonth(y, m)
    BY <2>1, <1>3, <1>9
  <2> QED BY <2>1, <2>2, <1>1, <1>2, <1>7, <1>9
<1>10. CASE MonthStart(z, n) = MonthStart(y, m) + DaysInMonth(y, m)
  <2>1. e = d + k - DaysInMonth(y, m)
    BY <1>4, <1>6, <1>7, <1>10
  <2>2. d + k > DaysInMonth(y, m)
    BY <2>1, <1>7
  <2> QED BY <2>1, <2>2, <1>1, <1>2, <1>7
<1> QED BY <1>8, <1>9, <1>10

(*****************************************************************************)
(* Ticks                                                                     *)
(*****************************************************************************)

(* The time of the day of c on another day.                                  *)
OnDate(y, m, d, c) ==
  [Year |-> y, Month |-> m, Date |-> d, Hours |-> c.Hours, Minutes |-> c.Minutes,
   Seconds |-> c.Seconds, SubSeconds |-> c.SubSeconds]

(* Two calendars of the same time of the day.                               *)
SameTime(c, x) ==
  /\ x.Hours = c.Hours
  /\ x.Minutes = c.Minutes
  /\ x.Seconds = c.Seconds
  /\ x.SubSeconds = c.SubSeconds

(* The three cases of the end of a day.                                     *)
LEMMA NextDayByDate ==
  ASSUME NEW c \in Fields, DaysInMonth(c.Year, c.Month) \in Nat
  PROVE  NextDay(c) =
           IF c.Date < DaysInMonth(c.Year, c.Month) THEN OnDate(c.Year, c.Month, c.Date + 1, c)
           ELSE IF c.Month < 12 THEN OnDate(c.Year, c.Month + 1, 1, c)
           ELSE OnDate((c.Year + 1) % 100, 1, 1, c)
<1>1. CASE c.Date < DaysInMonth(c.Year, c.Month)
  BY <1>1 DEF Fields, OnDate, NextDay
<1>2. CASE ~(c.Date < DaysInMonth(c.Year, c.Month)) /\ c.Month < 12
  <2>1. NextDay(c) = [c EXCEPT !.Date = 1, !.Month = @ + 1]
    BY <1>2 DEF NextDay, Fields
  <2> QED BY <1>2, <2>1 DEF Fields, OnDate
<1>3. CASE ~(c.Date < DaysInMonth(c.Year, c.Month)) /\ ~(c.Month < 12)
  <2>1. NextDay(c) = [c EXCEPT !.Date = 1, !.Month = 1, !.Year = (c.Year + 1) % 100]
    BY <1>3 DEF NextDay, Fields
  <2> QED BY <1>3, <2>1 DEF Fields, OnDate
<1> QED BY <1>1, <1>2, <1>3

(* The days of a calendar that is given by its date.                        *)
LEMMA DaysOnDate ==
  ASSUME NEW c, NEW y, NEW m, NEW d, OnDate(y, m, d, c) \in Calendars
  PROVE  Days(OnDate(y, m, d, c)) = MonthStart(y, m) + d - 1
<1>1. Days(OnDate(y, m, d, c)) =
        MonthStart(OnDate(y, m, d, c).Year, OnDate(y, m, d, c).Month)
          + OnDate(y, m, d, c).Date - 1
  BY DaysFromMonth
<1>2. /\ OnDate(y, m, d, c).Year = y
      /\ OnDate(y, m, d, c).Month = m
      /\ OnDate(y, m, d, c).Date = d
  BY DEF OnDate
<1> QED BY <1>1, <1>2

(* The hardware counts every day until 2100, over the ends of months, years *)
(* and leap years.                                                          *)
LEMMA NextDayIsNext ==
  ASSUME NEW c \in Calendars, Days(c) < 36524
  PROVE  /\ NextDay(c) \in Calendars
         /\ Days(NextDay(c)) = Days(c) + 1
         /\ SameTime(c, NextDay(c))
<1>1. PICK y \in 0..99, m \in 1..12 : y = c.Year /\ m = c.Month
  BY DaysOf
<1> DEFINE d == c.Date
<1>2. /\ Days(c) = MonthStart(y, m) + d - 1 /\ MonthStart(y, m) \in Nat
      /\ d \in 1..31 /\ d <= DaysInMonth(y, m)
  BY <1>1, DaysFromMonth, DaysOf
<1>3. DaysInMonth(y, m) \in 28..31
  BY MonthSizes
<1>4. c \in Fields
  BY DEF Calendars
<1>5. CASE d < DaysInMonth(y, m)
  <2>1. PICK e \in 1..31 : e = d + 1 /\ e <= DaysInMonth(y, m)
    BY <1>2, <1>3, <1>5
  <2>2. NextDay(c) = OnDate(y, m, e, c)
    BY <1>1, <1>3, <1>4, <1>5, <2>1, NextDayByDate
  <2>3. OnDate(y, m, e, c) \in Calendars
    BY <1>4, <2>1 DEF Calendars, Fields, OnDate
  <2>3a. Days(OnDate(y, m, e, c)) = MonthStart(y, m) + e - 1
    BY <2>3, DaysOnDate
  <2>4. Days(NextDay(c)) = Days(c) + 1
    BY <1>2, <2>1, <2>2, <2>3a
  <2> QED BY <2>2, <2>3, <2>4 DEF SameTime, OnDate
<1>6. CASE ~(d < DaysInMonth(y, m)) /\ m < 12
  <2>1. PICK n \in 1..12 : n = m + 1
    BY <1>6
  <2>2. NextDay(c) = OnDate(y, n, 1, c)
    BY <1>1, <1>3, <1>4, <1>6, <2>1, NextDayByDate
  <2>3. 1 \in 1..31 /\ 1 <= DaysInMonth(y, n)
    BY MonthSizes
  <2>4. OnDate(y, n, 1, c) \in Calendars
    BY <1>4, <2>3 DEF Calendars, Fields, OnDate
  <2>4a. Days(OnDate(y, n, 1, c)) = MonthStart(y, n) + 1 - 1
    BY <2>4, DaysOnDate
  <2>5. MonthStart(y, n) = MonthStart(y, m) + DaysInMonth(y, m)
    BY <2>1, NextMonth
  <2>6. Days(NextDay(c)) = Days(c) + 1
    BY <1>2, <1>3, <1>6, <2>2, <2>4a, <2>5
  <2> QED BY <2>2, <2>4, <2>6 DEF SameTime, OnDate
<1>7. CASE ~(d < DaysInMonth(y, m)) /\ ~(m < 12)
  <2>1. m = 12
    BY <1>7
  <2>2. y < 99
    <3>1. SUFFICES ASSUME y = 99 PROVE FALSE
      OBVIOUS
    <3>2. DaysInMonth(99, 12) = 31 /\ MonthStart(99, 12) = 36494
      BY DEF MonthStart, DateDays, DaysBefore, DaysInMonth, IsLeap
    <3> QED BY <3>1, <3>2, <2>1, <1>2, <1>7
  <2>3. PICK z \in 0..99 : z = y + 1
    BY <2>2
  <2>4. NextDay(c) = OnDate(z, 1, 1, c)
    <3>1. (y + 1) % 100 = z
      BY <2>3
    <3> QED BY <1>1, <1>3, <1>4, <1>7, <3>1, NextDayByDate
  <2>5. 1 \in 1..31 /\ 1 \in 1..12 /\ 1 <= DaysInMonth(z, 1)
    BY MonthSizes
  <2>6. OnDate(z, 1, 1, c) \in Calendars
    BY <1>4, <2>5 DEF Calendars, Fields, OnDate
  <2>6a. Days(OnDate(z, 1, 1, c)) = MonthStart(z, 1) + 1 - 1
    BY <2>6, DaysOnDate
  <2>7. MonthStart(z, 1) = MonthStart(y, m) + DaysInMonth(y, m)
    BY <2>1, <2>3, NextYear
  <2>8. Days(NextDay(c)) = Days(c) + 1
    BY <1>2, <1>3, <1>7, <2>4, <2>6a, <2>7
  <2> QED BY <2>4, <2>6, <2>8 DEF SameTime, OnDate
<1> QED BY <1>5, <1>6, <1>7

(* Seconds since 2000-01-01.                                                 *)
SecondsOf(c) == Days(c) * SECONDS_IN_1DAY + SecondOfDay(c)

(* The time of a day is within it.                                          *)
LEMMA TimeFields ==
  ASSUME NEW c \in Calendars
  PROVE  /\ c.Hours \in 0..(HOURS_IN_1DAY - 1)
         /\ c.Minutes \in 0..(MINUTES_IN_1HOUR - 1)
         /\ c.Seconds \in 0..(SECONDS_IN_1MINUTE - 1)
         /\ c.SubSeconds \in 0..PREDIV_S
         /\ c.Minutes * SECONDS_IN_1MINUTE \in Nat
         /\ c.Minutes * SECONDS_IN_1MINUTE <= SECONDS_IN_1HOUR - SECONDS_IN_1MINUTE
         /\ c.Hours * SECONDS_IN_1HOUR \in Nat
         /\ c.Hours * SECONDS_IN_1HOUR <= SECONDS_IN_1DAY - SECONDS_IN_1HOUR
         /\ SecondOfDay(c) \in 0..(SECONDS_IN_1DAY - 1)
         /\ SecondsOf(c) \in Nat
         /\ CalendarValue(c) \in Nat
<1>1. /\ c.Hours \in 0..(HOURS_IN_1DAY - 1)
      /\ c.Minutes \in 0..(MINUTES_IN_1HOUR - 1)
      /\ c.Seconds \in 0..(SECONDS_IN_1MINUTE - 1)
      /\ c.SubSeconds \in 0..PREDIV_S
  BY DEF Calendars, Fields
<1>2. /\ c.Minutes * SECONDS_IN_1MINUTE \in Nat
      /\ c.Minutes * SECONDS_IN_1MINUTE <= SECONDS_IN_1HOUR - SECONDS_IN_1MINUTE
  <2>1. (MINUTES_IN_1HOUR - 1) * SECONDS_IN_1MINUTE = SECONDS_IN_1HOUR - SECONDS_IN_1MINUTE
    BY Sizes DEF SECONDS_IN_1HOUR
  <2>2. /\ 0 * SECONDS_IN_1MINUTE <= c.Minutes * SECONDS_IN_1MINUTE
        /\ c.Minutes * SECONDS_IN_1MINUTE <= (MINUTES_IN_1HOUR - 1) * SECONDS_IN_1MINUTE
    BY <1>1, Sizes, ProductOrder
  <2> QED BY <2>1, <2>2, <1>1, Sizes
<1>3. /\ c.Hours * SECONDS_IN_1HOUR \in Nat
      /\ c.Hours * SECONDS_IN_1HOUR <= SECONDS_IN_1DAY - SECONDS_IN_1HOUR
  <2>1. (HOURS_IN_1DAY - 1) * SECONDS_IN_1HOUR = SECONDS_IN_1DAY - SECONDS_IN_1HOUR
    BY Sizes DEF SECONDS_IN_1DAY
  <2>2. /\ 0 * SECONDS_IN_1HOUR <= c.Hours * SECONDS_IN_1HOUR
        /\ c.Hours * SECONDS_IN_1HOUR <= (HOURS_IN_1DAY - 1) * SECONDS_IN_1HOUR
    BY <1>1, Sizes, ProductOrder
  <2> QED BY <2>1, <2>2, <1>1, Sizes
<1>4. SecondOfDay(c) \in 0..(SECONDS_IN_1DAY - 1)
  BY <1>1, <1>2, <1>3, Sizes DEF SecondOfDay
<1>5. Days(c) * SECONDS_IN_1DAY \in Nat
  BY DaysFromMonth, Sizes
<1>6. SecondsOf(c) \in Nat
  BY <1>4, <1>5, Sizes DEF SecondsOf
<1>7. SecondsOf(c) * TicksPerSecond \in Nat
  BY <1>6, Sizes
<1>8. CalendarValue(c) \in Nat
  BY <1>1, <1>7, Sizes DEF CalendarValue, SecondsOf
<1> QED BY <1>1, <1>2, <1>3, <1>4, <1>6, <1>8

(* What setting one field of the time does to the seconds.                  *)
LEMMA SetTime ==
  ASSUME NEW c \in Calendars
  PROVE  /\ \A h \in 0..(HOURS_IN_1DAY - 1) :
              /\ [c EXCEPT !.Hours = h] \in Calendars
              /\ SecondsOf([c EXCEPT !.Hours = h])
                   = SecondsOf(c) - c.Hours * SECONDS_IN_1HOUR + h * SECONDS_IN_1HOUR
         /\ \A m \in 0..(MINUTES_IN_1HOUR - 1) :
              /\ [c EXCEPT !.Minutes = m] \in Calendars
              /\ SecondsOf([c EXCEPT !.Minutes = m])
                   = SecondsOf(c) - c.Minutes * SECONDS_IN_1MINUTE + m * SECONDS_IN_1MINUTE
         /\ \A s \in 0..(SECONDS_IN_1MINUTE - 1) :
              /\ [c EXCEPT !.Seconds = s] \in Calendars
              /\ SecondsOf([c EXCEPT !.Seconds = s]) = SecondsOf(c) - c.Seconds + s
         /\ \A u \in 0..PREDIV_S :
              /\ [c EXCEPT !.SubSeconds = u] \in Calendars
              /\ SecondsOf([c EXCEPT !.SubSeconds = u]) = SecondsOf(c)
<1>1. /\ c \in Fields
      /\ Days(c) * SECONDS_IN_1DAY \in Int
      /\ c.Seconds \in Int
      /\ c.Minutes * SECONDS_IN_1MINUTE \in Int
      /\ c.Hours * SECONDS_IN_1HOUR \in Int
  BY TimeFields, DaysFromMonth, Sizes DEF Calendars
<1>2. ASSUME NEW h \in 0..(HOURS_IN_1DAY - 1)
      PROVE  /\ [c EXCEPT !.Hours = h] \in Calendars
             /\ SecondsOf([c EXCEPT !.Hours = h])
                  = SecondsOf(c) - c.Hours * SECONDS_IN_1HOUR + h * SECONDS_IN_1HOUR
  <2> DEFINE x == [c EXCEPT !.Hours = h]
  <2>1. x \in Calendars
    BY DEF Calendars, Fields
  <2>2. Days(x) = Days(c)
    BY <1>1 DEF Days, Fields
  <2>3. x.Seconds = c.Seconds /\ x.Minutes = c.Minutes /\ x.Hours = h
    BY <1>1 DEF Fields
  <2>4. h * SECONDS_IN_1HOUR \in Int
    BY Sizes
  <2> HIDE DEF x
  <2> QED BY <2>1, <2>2, <2>3, <2>4, <1>1 DEF SecondsOf, SecondOfDay, x
<1>3. ASSUME NEW m \in 0..(MINUTES_IN_1HOUR - 1)
      PROVE  /\ [c EXCEPT !.Minutes = m] \in Calendars
             /\ SecondsOf([c EXCEPT !.Minutes = m])
                  = SecondsOf(c) - c.Minutes * SECONDS_IN_1MINUTE + m * SECONDS_IN_1MINUTE
  <2> DEFINE x == [c EXCEPT !.Minutes = m]
  <2>1. x \in Calendars
    BY DEF Calendars, Fields
  <2>2. Days(x) = Days(c)
    BY <1>1 DEF Days, Fields
  <2>3. x.Seconds = c.Seconds /\ x.Minutes = m /\ x.Hours = c.Hours
    BY <1>1 DEF Fields
  <2>4. m * SECONDS_IN_1MINUTE \in Int
    BY Sizes
  <2> HIDE DEF x
  <2> QED BY <2>1, <2>2, <2>3, <2>4, <1>1 DEF SecondsOf, SecondOfDay, x
<1>4. ASSUME NEW s \in 0..(SECONDS_IN_1MINUTE - 1)
      PROVE  /\ [c EXCEPT !.Seconds = s] \in Calendars
             /\ SecondsOf([c EXCEPT !.Seconds = s]) = SecondsOf(c) - c.Seconds + s
  <2> DEFINE x == [c EXCEPT !.Seconds = s]
  <2>1. x \in Calendars
    BY DEF Calendars, Fields
  <2>2. Days(x) = Days(c)
    BY <1>1 DEF Days, Fields
  <2>3. x.Seconds = s /\ x.Minutes = c.Minutes /\ x.Hours = c.Hours
    BY <1>1 DEF Fields
  <2>4. s \in Int
    BY Sizes
  <2> HIDE DEF x
  <2> QED BY <2>1, <2>2, <2>3, <2>4, <1>1 DEF SecondsOf, SecondOfDay, x
<1>5. ASSUME NEW u \in 0..PREDIV_S
      PROVE  /\ [c EXCEPT !.SubSeconds = u] \in Calendars
             /\ SecondsOf([c EXCEPT !.SubSeconds = u]) = SecondsOf(c)
  <2> DEFINE x == [c EXCEPT !.SubSeconds = u]
  <2>1. x \in Calendars
    BY DEF Calendars, Fields
  <2>2. Days(x) = Days(c)
    BY <1>1 DEF Days, Fields
  <2>3. x.Seconds = c.Seconds /\ x.Minutes = c.Minutes /\ x.Hours = c.Hours
    BY <1>1 DEF Fields
  <2> HIDE DEF x
  <2> QED BY <2>1, <2>2, <2>3, <1>1 DEF SecondsOf, SecondOfDay, x
<1> QED BY <1>2, <1>3, <1>4, <1>5

(* The seconds before 2100.                                                 *)
Seconds2100 == 36525 * SECONDS_IN_1DAY

(* The end of an hour carries.                                              *)
LEMMA NextHourIsNext ==
  ASSUME NEW c \in Calendars, SecondsOf(c) + SECONDS_IN_1HOUR < Seconds2100
  PROVE  /\ NextHour(c) \in Calendars
         /\ SecondsOf(NextHour(c)) = SecondsOf(c) + SECONDS_IN_1HOUR
         /\ NextHour(c).SubSeconds = c.SubSeconds
<1>1. c \in Fields /\ c.Hours \in 0..(HOURS_IN_1DAY - 1) /\ SecondsOf(c) \in Nat
  BY TimeFields DEF Calendars
<1>2. CASE c.Hours < HOURS_IN_1DAY - 1
  <2>1. PICK h \in 0..(HOURS_IN_1DAY - 1) : h = c.Hours + 1
    BY <1>1, <1>2, Sizes
  <2>2. NextHour(c) = [c EXCEPT !.Hours = h]
    BY <2>1, <1>1, <1>2 DEF NextHour, Fields
  <2>3. /\ NextHour(c) \in Calendars
        /\ SecondsOf(NextHour(c)) = SecondsOf(c) - c.Hours * SECONDS_IN_1HOUR + h * SECONDS_IN_1HOUR
    BY <2>2, SetTime
  <2>4. h * SECONDS_IN_1HOUR = c.Hours * SECONDS_IN_1HOUR + SECONDS_IN_1HOUR
    BY <2>1, <1>1, Sizes
  <2>5. NextHour(c).SubSeconds = c.SubSeconds
    BY <2>2, <1>1 DEF Fields
  <2>6. c.Hours * SECONDS_IN_1HOUR \in Int
    BY <1>1, Sizes
  <2> QED BY <2>3, <2>4, <2>5, <2>6, <1>1, Sizes
<1>3. CASE ~(c.Hours < HOURS_IN_1DAY - 1)
  <2> DEFINE x == [c EXCEPT !.Hours = 0]
  <2>1. 0 \in 0..(HOURS_IN_1DAY - 1) /\ c.Hours = HOURS_IN_1DAY - 1
    BY <1>1, <1>3, Sizes
  <2>2. /\ x \in Calendars
        /\ SecondsOf(x) = SecondsOf(c) - c.Hours * SECONDS_IN_1HOUR + 0 * SECONDS_IN_1HOUR
    BY <2>1, SetTime
  <2>3. c.Hours * SECONDS_IN_1HOUR = SECONDS_IN_1DAY - SECONDS_IN_1HOUR
    BY <2>1, Sizes DEF SECONDS_IN_1DAY
  <2>4. NextHour(c) = NextDay(x)
    BY <1>3 DEF NextHour
  <2>5. x.SubSeconds = c.SubSeconds
    BY <1>1 DEF Fields
  <2> HIDE DEF x
  <2>6. SecondsOf(x) = SecondsOf(c) - SECONDS_IN_1DAY + SECONDS_IN_1HOUR
    BY <2>2, <2>3, <1>1, Sizes
  <2>7. Days(x) \in Nat /\ SecondOfDay(x) \in 0..(SECONDS_IN_1DAY - 1)
    BY <2>2, DaysFromMonth, TimeFields
  <2>8. Days(x) < 36524
    <3>1. SUFFICES ASSUME 36524 <= Days(x) PROVE FALSE
      BY <2>7
    <3>2. 36524 * SECONDS_IN_1DAY <= Days(x) * SECONDS_IN_1DAY
      BY <3>1, <2>7, Sizes, ProductOrder
    <3>3. Days(x) * SECONDS_IN_1DAY \in Int
      BY <2>7, Sizes
    <3> QED BY <3>2, <3>3, <2>6, <2>7, <1>1, Sizes DEF SecondsOf, Seconds2100
  <2>9. /\ NextDay(x) \in Calendars
        /\ Days(NextDay(x)) = Days(x) + 1
        /\ SameTime(x, NextDay(x))
    BY <2>2, <2>8, NextDayIsNext
  <2>10. SecondOfDay(NextDay(x)) = SecondOfDay(x)
    BY <2>9 DEF SameTime, SecondOfDay
  <2>11. (Days(x) + 1) * SECONDS_IN_1DAY = Days(x) * SECONDS_IN_1DAY + SECONDS_IN_1DAY
    BY <2>7, Sizes
  <2>12. Days(x) * SECONDS_IN_1DAY \in Int
    BY <2>7, Sizes
  <2>13. SecondsOf(NextDay(x)) = SecondsOf(x) + SECONDS_IN_1DAY
    BY <2>7, <2>9, <2>10, <2>11, <2>12, Sizes DEF SecondsOf
  <2>14. NextDay(x).SubSeconds = c.SubSeconds
    BY <2>5, <2>9 DEF SameTime
  <2> QED BY <2>4, <2>6, <2>9, <2>13, <2>14, <1>1, Sizes
<1> QED BY <1>2, <1>3

(* The end of a minute carries.                                             *)
LEMMA NextMinuteIsNext ==
  ASSUME NEW c \in Calendars, SecondsOf(c) + SECONDS_IN_1MINUTE < Seconds2100
  PROVE  /\ NextMinute(c) \in Calendars
         /\ SecondsOf(NextMinute(c)) = SecondsOf(c) + SECONDS_IN_1MINUTE
         /\ NextMinute(c).SubSeconds = c.SubSeconds
<1>1. c \in Fields /\ c.Minutes \in 0..(MINUTES_IN_1HOUR - 1) /\ SecondsOf(c) \in Nat
  BY TimeFields DEF Calendars
<1>2. CASE c.Minutes < MINUTES_IN_1HOUR - 1
  <2>1. PICK m \in 0..(MINUTES_IN_1HOUR - 1) : m = c.Minutes + 1
    BY <1>1, <1>2, Sizes
  <2>2. NextMinute(c) = [c EXCEPT !.Minutes = m]
    BY <2>1, <1>1, <1>2 DEF NextMinute, Fields
  <2>3. /\ NextMinute(c) \in Calendars
        /\ SecondsOf(NextMinute(c))
             = SecondsOf(c) - c.Minutes * SECONDS_IN_1MINUTE + m * SECONDS_IN_1MINUTE
    BY <2>2, SetTime
  <2>4. m * SECONDS_IN_1MINUTE = c.Minutes * SECONDS_IN_1MINUTE + SECONDS_IN_1MINUTE
    BY <2>1, <1>1, Sizes
  <2>5. NextMinute(c).SubSeconds = c.SubSeconds
    BY <2>2, <1>1 DEF Fields
  <2>6. c.Minutes * SECONDS_IN_1MINUTE \in Int
    BY <1>1, Sizes
  <2> QED BY <2>3, <2>4, <2>5, <2>6, <1>1, Sizes
<1>3. CASE ~(c.Minutes < MINUTES_IN_1HOUR - 1)
  <2> DEFINE x == [c EXCEPT !.Minutes = 0]
  <2>1. 0 \in 0..(MINUTES_IN_1HOUR - 1) /\ c.Minutes = MINUTES_IN_1HOUR - 1
    BY <1>1, <1>3, Sizes
  <2>2. /\ x \in Calendars
        /\ SecondsOf(x) = SecondsOf(c) - c.Minutes * SECONDS_IN_1MINUTE + 0 * SECONDS_IN_1MINUTE
    BY <2>1, SetTime
  <2>3. c.Minutes * SECONDS_IN_1MINUTE = SECONDS_IN_1HOUR - SECONDS_IN_1MINUTE
    BY <2>1, Sizes DEF SECONDS_IN_1HOUR
  <2>4. NextMinute(c) = NextHour(x)
    BY <1>3 DEF NextMinute
  <2>5. x.SubSeconds = c.SubSeconds
    BY <1>1 DEF Fields
  <2> HIDE DEF x
  <2>6. SecondsOf(x) = SecondsOf(c) - SECONDS_IN_1HOUR + SECONDS_IN_1MINUTE
    BY <2>2, <2>3, <1>1, Sizes
  <2>7. SecondsOf(x) + SECONDS_IN_1HOUR < Seconds2100
    BY <2>6, <1>1, Sizes
  <2>8. /\ NextHour(x) \in Calendars
        /\ SecondsOf(NextHour(x)) = SecondsOf(x) + SECONDS_IN_1HOUR
        /\ NextHour(x).SubSeconds = x.SubSeconds
    BY <2>2, <2>7, NextHourIsNext
  <2> QED BY <2>4, <2>5, <2>6, <2>8, <1>1, Sizes
<1> QED BY <1>2, <1>3

(* The end of a second carries.                                             *)
LEMMA NextSecondIsNext ==
  ASSUME NEW c \in Calendars, SecondsOf(c) + 1 < Seconds2100
  PROVE  /\ NextSecond(c) \in Calendars
         /\ SecondsOf(NextSecond(c)) = SecondsOf(c) + 1
         /\ NextSecond(c).SubSeconds = c.SubSeconds
<1>1. c \in Fields /\ c.Seconds \in 0..(SECONDS_IN_1MINUTE - 1) /\ SecondsOf(c) \in Nat
  BY TimeFields DEF Calendars
<1>2. CASE c.Seconds < SECONDS_IN_1MINUTE - 1
  <2>1. PICK s \in 0..(SECONDS_IN_1MINUTE - 1) : s = c.Seconds + 1
    BY <1>1, <1>2, Sizes
  <2>2. NextSecond(c) = [c EXCEPT !.Seconds = s]
    BY <2>1, <1>1, <1>2 DEF NextSecond, Fields
  <2>3. NextSecond(c) \in Calendars /\ SecondsOf(NextSecond(c)) = SecondsOf(c) - c.Seconds + s
    BY <2>2, SetTime
  <2>4. NextSecond(c).SubSeconds = c.SubSeconds
    BY <2>2, <1>1 DEF Fields
  <2> QED BY <2>1, <2>3, <2>4, <1>1, Sizes
<1>3. CASE ~(c.Seconds < SECONDS_IN_1MINUTE - 1)
  <2> DEFINE x == [c EXCEPT !.Seconds = 0]
  <2>1. 0 \in 0..(SECONDS_IN_1MINUTE - 1) /\ c.Seconds = SECONDS_IN_1MINUTE - 1
    BY <1>1, <1>3, Sizes
  <2>2. x \in Calendars /\ SecondsOf(x) = SecondsOf(c) - c.Seconds + 0
    BY <2>1, SetTime
  <2>3. NextSecond(c) = NextMinute(x)
    BY <1>3 DEF NextSecond
  <2>4. x.SubSeconds = c.SubSeconds
    BY <1>1 DEF Fields
  <2> HIDE DEF x
  <2>5. SecondsOf(x) = SecondsOf(c) - SECONDS_IN_1MINUTE + 1
    BY <2>1, <2>2, <1>1, Sizes
  <2>6. SecondsOf(x) + SECONDS_IN_1MINUTE < Seconds2100
    BY <2>5, <1>1, Sizes
  <2>7. /\ NextMinute(x) \in Calendars
        /\ SecondsOf(NextMinute(x)) = SecondsOf(x) + SECONDS_IN_1MINUTE
        /\ NextMinute(x).SubSeconds = x.SubSeconds
    BY <2>2, <2>6, NextMinuteIsNext
  <2> QED BY <2>3, <2>4, <2>5, <2>7, <1>1, Sizes
<1> QED BY <1>2, <1>3

(* The value of a calendar in whole seconds and ticks.                      *)
LEMMA ValueOf ==
  ASSUME NEW c \in Calendars
  PROVE  /\ CalendarValue(c) = SecondsOf(c) * TicksPerSecond + (PREDIV_S - c.SubSeconds)
         /\ PREDIV_S - c.SubSeconds \in 0..(TicksPerSecond - 1)
         /\ SecondsOf(c) \in Nat
         /\ SecondsOf(c) * TicksPerSecond \in Nat
<1>1. CalendarValue(c) = SecondsOf(c) * TicksPerSecond + (PREDIV_S - c.SubSeconds)
  BY DEF CalendarValue, SecondsOf
<1>2. SecondsOf(c) \in Nat /\ c.SubSeconds \in 0..PREDIV_S
  BY TimeFields
<1>3. SecondsOf(c) * TicksPerSecond \in Nat
  BY <1>2, Sizes
<1> QED BY <1>1, <1>2, <1>3, Sizes

(* The calendar counts every tick.                                           *)
LEMMA NextTickIsNext ==
  ASSUME NEW c \in Calendars, CalendarValue(c) + 1 < 36525 * TicksPerDay
  PROVE  /\ NextTick(c) \in Calendars
         /\ CalendarValue(NextTick(c)) = CalendarValue(c) + 1
<1>1. c \in Fields /\ c.SubSeconds \in 0..PREDIV_S
  BY TimeFields DEF Calendars
<1>2. CASE c.SubSeconds > 0
  <2>1. PICK u \in 0..PREDIV_S : u = c.SubSeconds - 1
    BY <1>1, <1>2, Sizes
  <2>2. NextTick(c) = [c EXCEPT !.SubSeconds = u]
    BY <2>1, <1>1, <1>2 DEF NextTick, Fields
  <2>3. NextTick(c) \in Calendars /\ SecondsOf(NextTick(c)) = SecondsOf(c)
    BY <2>2, SetTime
  <2>4. NextTick(c).SubSeconds = u
    BY <2>2, <1>1 DEF Fields
  <2>5. CalendarValue(NextTick(c)) = SecondsOf(c) * TicksPerSecond + (PREDIV_S - u)
    BY <2>3, <2>4, ValueOf
  <2> QED BY <2>1, <2>3, <2>5, <1>1, ValueOf, Sizes
<1>3. CASE ~(c.SubSeconds > 0)
  <2> DEFINE x == [c EXCEPT !.SubSeconds = PREDIV_S]
  <2>1. PREDIV_S \in 0..PREDIV_S /\ c.SubSeconds = 0
    BY <1>1, <1>3, Sizes
  <2>2. x \in Calendars /\ SecondsOf(x) = SecondsOf(c)
    BY <2>1, SetTime
  <2>3. NextTick(c) = NextSecond(x)
    BY <1>3 DEF NextTick
  <2>4. x.SubSeconds = PREDIV_S
    BY <1>1 DEF Fields
  <2> HIDE DEF x
  <2>5. CalendarValue(c) = SecondsOf(c) * TicksPerSecond + PREDIV_S /\ SecondsOf(c) \in Nat
    BY <2>1, ValueOf, Sizes
  <2>6. (SecondsOf(c) + 1) * TicksPerSecond = SecondsOf(c) * TicksPerSecond + TicksPerSecond
    BY <2>5, Sizes
  <2>7. SecondsOf(x) + 1 < Seconds2100
    <3>1. SUFFICES ASSUME Seconds2100 <= SecondsOf(c) + 1 PROVE FALSE
      BY <2>2, <2>5, Sizes DEF Seconds2100
    <3>2. Seconds2100 * TicksPerSecond <= (SecondsOf(c) + 1) * TicksPerSecond
      BY <3>1, <2>5, Sizes, ProductOrder DEF Seconds2100
    <3>3. Seconds2100 * TicksPerSecond = 36525 * TicksPerDay
      BY Sizes DEF Seconds2100, TicksPerDay
    <3>4. SecondsOf(c) * TicksPerSecond \in Int /\ 36525 * TicksPerDay \in Int
      BY <2>5, Sizes
    <3> QED BY <3>2, <3>3, <3>4, <2>5, <2>6, Sizes
  <2>8. /\ NextSecond(x) \in Calendars
        /\ SecondsOf(NextSecond(x)) = SecondsOf(x) + 1
        /\ NextSecond(x).SubSeconds = x.SubSeconds
    BY <2>2, <2>7, NextSecondIsNext
  <2>9. CalendarValue(NextSecond(x))
          = (SecondsOf(c) + 1) * TicksPerSecond + (PREDIV_S - PREDIV_S)
    BY <2>2, <2>4, <2>8, ValueOf
  <2>10. SecondsOf(c) * TicksPerSecond \in Int
    BY <2>5, Sizes
  <2> QED BY <2>3, <2>5, <2>6, <2>8, <2>9, <2>10, Sizes
<1> QED BY <1>2, <1>3

(*****************************************************************************)
(* Values of calendars                                                       *)
(*****************************************************************************)

(* A second of the day has one hour, minute and second.                     *)
LEMMA SameSecond ==
  ASSUME NEW a \in Calendars, NEW x \in Calendars, SecondOfDay(a) = SecondOfDay(x)
  PROVE  a.Hours = x.Hours /\ a.Minutes = x.Minutes /\ a.Seconds = x.Seconds
<1> DEFINE A == a.Seconds + a.Minutes * SECONDS_IN_1MINUTE
           X == x.Seconds + x.Minutes * SECONDS_IN_1MINUTE
<1>1. /\ a.Seconds \in 0..(SECONDS_IN_1MINUTE - 1) /\ x.Seconds \in 0..(SECONDS_IN_1MINUTE - 1)
      /\ a.Minutes \in Int /\ x.Minutes \in Int
      /\ a.Hours \in Int /\ x.Hours \in Int
      /\ a.Minutes * SECONDS_IN_1MINUTE \in Nat /\ x.Minutes * SECONDS_IN_1MINUTE \in Nat
      /\ a.Hours * SECONDS_IN_1HOUR \in Nat /\ x.Hours * SECONDS_IN_1HOUR \in Nat
      /\ a.Minutes * SECONDS_IN_1MINUTE <= SECONDS_IN_1HOUR - SECONDS_IN_1MINUTE
      /\ x.Minutes * SECONDS_IN_1MINUTE <= SECONDS_IN_1HOUR - SECONDS_IN_1MINUTE
  BY TimeFields, Sizes
<1>2. A \in 0..(SECONDS_IN_1HOUR - 1) /\ X \in 0..(SECONDS_IN_1HOUR - 1)
  BY <1>1, Sizes
<1>3. a.Hours * SECONDS_IN_1HOUR + A = x.Hours * SECONDS_IN_1HOUR + X
  BY <1>1 DEF SecondOfDay
<1> HIDE DEF A, X
<1>4. a.Hours = x.Hours /\ A = X
  <2>1. SECONDS_IN_1HOUR \in Nat \ {0}
    BY Sizes
  <2>2. a.Hours \in Int /\ x.Hours \in Int
    BY <1>1
  <2> QED BY <2>1, <2>2, <1>2, <1>3, Euclid, Zenon
<1>5. a.Minutes * SECONDS_IN_1MINUTE + a.Seconds = x.Minutes * SECONDS_IN_1MINUTE + x.Seconds
  BY <1>1, <1>4 DEF A, X
<1>6. a.Minutes = x.Minutes /\ a.Seconds = x.Seconds
  <2>1. SECONDS_IN_1MINUTE \in Nat \ {0}
    BY Sizes
  <2>2. a.Minutes \in Int /\ x.Minutes \in Int
    BY <1>1
  <2>3. a.Seconds \in 0..(SECONDS_IN_1MINUTE - 1) /\ x.Seconds \in 0..(SECONDS_IN_1MINUTE - 1)
    BY <1>1
  <2> QED BY <2>1, <2>2, <2>3, <1>5, Euclid, Zenon
<1> QED BY <1>4, <1>6

(* The day, the second of the day and the sub-second of a value.             *)
LEMMA SameParts ==
  ASSUME NEW a \in Calendars, NEW x \in Calendars, NEW k \in Int,
         CalendarValue(x) = CalendarValue(a) + k * TicksPerDay
  PROVE  /\ Days(x) = Days(a) + k
         /\ a.Hours = x.Hours
         /\ a.Minutes = x.Minutes
         /\ a.Seconds = x.Seconds
         /\ a.SubSeconds = x.SubSeconds
<1>1. /\ SecondsOf(a) \in Nat /\ SecondsOf(x) \in Nat
      /\ a.SubSeconds \in 0..PREDIV_S /\ x.SubSeconds \in 0..PREDIV_S
      /\ SecondOfDay(a) \in 0..(SECONDS_IN_1DAY - 1) /\ SecondOfDay(x) \in 0..(SECONDS_IN_1DAY - 1)
      /\ Days(a) \in Nat /\ Days(x) \in Nat
  BY TimeFields, DaysFromMonth
<1>2. k * TicksPerDay = (k * SECONDS_IN_1DAY) * TicksPerSecond /\ k * SECONDS_IN_1DAY \in Int
  BY Sizes DEF TicksPerDay
<1>3. (SecondsOf(a) + k * SECONDS_IN_1DAY) * TicksPerSecond
        = SecondsOf(a) * TicksPerSecond + (k * SECONDS_IN_1DAY) * TicksPerSecond
  BY <1>1, <1>2, Sizes, Product
<1>4. /\ SecondsOf(a) * TicksPerSecond \in Int
      /\ (k * SECONDS_IN_1DAY) * TicksPerSecond \in Int
      /\ SecondsOf(x) * TicksPerSecond \in Int
  BY <1>1, <1>2, Sizes
<1>5. SecondsOf(x) * TicksPerSecond + (PREDIV_S - x.SubSeconds)
        = (SecondsOf(a) + k * SECONDS_IN_1DAY) * TicksPerSecond + (PREDIV_S - a.SubSeconds)
  BY <1>1, <1>2, <1>3, <1>4, ValueOf, Sizes
<1>6. /\ PREDIV_S - x.SubSeconds = PREDIV_S - a.SubSeconds
      /\ SecondsOf(x) = SecondsOf(a) + k * SECONDS_IN_1DAY
  <2>1. /\ PREDIV_S - x.SubSeconds \in 0..(TicksPerSecond - 1)
        /\ PREDIV_S - a.SubSeconds \in 0..(TicksPerSecond - 1)
    BY ValueOf
  <2>2. SecondsOf(a) + k * SECONDS_IN_1DAY \in Int /\ SecondsOf(x) \in Int
    BY <1>1, <1>2
  <2> QED BY <2>1, <2>2, <1>5, Sizes, Euclid
<1>7. (Days(a) + k) * SECONDS_IN_1DAY = Days(a) * SECONDS_IN_1DAY + k * SECONDS_IN_1DAY
  BY <1>1, Sizes, Product
<1>8. Days(x) * SECONDS_IN_1DAY + SecondOfDay(x) = (Days(a) + k) * SECONDS_IN_1DAY + SecondOfDay(a)
  <2>1. Days(a) * SECONDS_IN_1DAY \in Int /\ Days(x) * SECONDS_IN_1DAY \in Int
    BY <1>1, Sizes
  <2> QED BY <2>1, <1>1, <1>2, <1>6, <1>7 DEF SecondsOf
<1>9. Days(x) = Days(a) + k /\ SecondOfDay(x) = SecondOfDay(a)
  <2>1. SECONDS_IN_1DAY \in Nat \ {0}
    BY Sizes
  <2>2. Days(x) \in Int /\ Days(a) + k \in Int
    BY <1>1
  <2>3. /\ SecondOfDay(a) \in 0..(SECONDS_IN_1DAY - 1)
        /\ SecondOfDay(x) \in 0..(SECONDS_IN_1DAY - 1)
    BY <1>1
  <2> QED BY <2>1, <2>2, <2>3, <1>8, Euclid, Zenon
<1> QED BY <1>1, <1>6, <1>9, SameSecond, Sizes

(* Calendars of the same value are the same.                                 *)
LEMMA SameValue ==
  ASSUME NEW a \in Calendars, NEW x \in Calendars, CalendarValue(x) = CalendarValue(a)
  PROVE  x = a
<1>1. CalendarValue(x) = CalendarValue(a) + 0 * TicksPerDay
  BY TimeFields, Sizes
<1>2. /\ Days(x) = Days(a) + 0
      /\ a.Hours = x.Hours
      /\ a.Minutes = x.Minutes
      /\ a.Seconds = x.Seconds
      /\ a.SubSeconds = x.SubSeconds
  BY <1>1, SameParts
<1>3. 0 \in 0..27 /\ a.Date + 0 <= DaysInMonth(a.Year, a.Month)
  BY DaysOf
<1>4. x.Year = a.Year /\ x.Month = a.Month /\ x.Date = a.Date + 0
  BY <1>2, <1>3, DateAfter, DaysOf
<1>5. a.Date + 0 = a.Date
  BY DaysOf
<1>6. a \in Fields /\ x \in Fields
  BY DEF Calendars
<1> QED BY <1>2, <1>4, <1>5, <1>6 DEF Fields

(* Of two calendars less than a second apart.                                *)
LEMMA WithinSecond ==
  ASSUME NEW a \in Calendars, NEW x \in Calendars, NEW n \in 0..PREDIV_S,
         CalendarValue(x) = CalendarValue(a) + n
  PROVE  /\ SecondsOf(x) = SecondsOf(a) \/ SecondsOf(x) = SecondsOf(a) + 1
         /\ x.SubSeconds = a.SubSeconds => n = 0
<1>1. /\ CalendarValue(x) = SecondsOf(x) * TicksPerSecond + (PREDIV_S - x.SubSeconds)
      /\ CalendarValue(a) = SecondsOf(a) * TicksPerSecond + (PREDIV_S - a.SubSeconds)
  BY ValueOf
<1>2. PICK p \in Nat, q \in Nat : p = SecondsOf(x) /\ q = SecondsOf(a)
  BY ValueOf
<1>3. PICK r \in 0..PREDIV_S, s \in 0..PREDIV_S :
        r = PREDIV_S - x.SubSeconds /\ s = PREDIV_S - a.SubSeconds
  BY ValueOf, Sizes
<1>4. p * TicksPerSecond + r = q * TicksPerSecond + s + n
  BY <1>1, <1>2, <1>3
<1>5. p * TicksPerSecond \in Int /\ q * TicksPerSecond \in Int
  BY Sizes
<1>6. (q + 2) * TicksPerSecond = q * TicksPerSecond + 2 * TicksPerSecond
  BY Sizes
<1>7. (p + 1) * TicksPerSecond = p * TicksPerSecond + TicksPerSecond
  BY Sizes
<1>8. p * TicksPerSecond < (q + 2) * TicksPerSecond
  BY <1>4, <1>5, <1>6, Sizes
<1>9. q * TicksPerSecond < (p + 1) * TicksPerSecond
  BY <1>4, <1>5, <1>7, Sizes
<1>10. p < q + 2 /\ q < p + 1
  <2>1. p \in Int /\ q \in Int /\ q + 2 \in Int /\ p + 1 \in Int
    OBVIOUS
  <2> QED BY <1>8, <1>9, <2>1, Sizes, CancelProduct
<1>11. p = q \/ p = q + 1
  BY <1>10
<1>12. ASSUME x.SubSeconds = a.SubSeconds PROVE n = 0
  <2>1. r = s
    BY <1>3, <1>12
  <2>2. p * TicksPerSecond = q * TicksPerSecond + n
    BY <1>4, <1>5, <2>1, Sizes
  <2>3. p # q + 1
    <3>1. (q + 1) * TicksPerSecond = q * TicksPerSecond + TicksPerSecond
      BY Sizes
    <3> QED BY <2>2, <3>1, <1>5, Sizes
  <2>4. p = q
    BY <1>11, <2>3
  <2> QED BY <2>2, <2>4, <1>5, Sizes
<1> QED BY <1>2, <1>11, <1>12

(* The date of a calendar, as ReadDate keeps it.                            *)
DateOf(c) == [f \in {"Year", "Month", "Date"} |-> c[f]]

(* The same day has the same date, the next one another.                    *)
LEMMA DateSameOrNext ==
  ASSUME NEW a \in Calendars, NEW x \in Calendars
  PROVE  /\ Days(x) = Days(a) => x.Date = a.Date /\ DateOf(x) = DateOf(a)
         /\ Days(x) = Days(a) + 1 => x.Date # a.Date
<1>1. ASSUME Days(x) = Days(a) PROVE x.Date = a.Date /\ DateOf(x) = DateOf(a)
  <2>1. 0 \in 0..27 /\ Days(x) = Days(a) + 0 /\ a.Date + 0 <= DaysInMonth(a.Year, a.Month)
    BY <1>1, DaysOf, DaysFromMonth
  <2>2. x.Year = a.Year /\ x.Month = a.Month /\ x.Date = a.Date + 0
    BY <2>1, DateAfter, DaysOf
  <2>3. x.Date = a.Date
    BY <2>2, DaysOf
  <2> QED BY <2>2, <2>3 DEF DateOf
<1>2. ASSUME Days(x) = Days(a) + 1 PROVE x.Date # a.Date
  <2>1. 1 \in 0..27
    OBVIOUS
  <2>2. /\ DaysInMonth(a.Year, a.Month) \in 28..31
        /\ x.Date = a.Date + 1 \/ x.Date = a.Date + 1 - DaysInMonth(a.Year, a.Month)
    BY <2>1, <1>2, DateAfter
  <2>3. a.Date \in 1..31
    BY DaysOf
  <2> QED BY <2>2, <2>3
<1> QED BY <1>1, <1>2

(* The ticks of c since the start of its day.                                *)
TickOfDay(c) == SecondOfDay(c) * TicksPerSecond + (PREDIV_S - c.SubSeconds)

(* The value of a calendar in whole days and ticks.                         *)
LEMMA DayValue ==
  ASSUME NEW c \in Calendars
  PROVE  /\ CalendarValue(c) = Days(c) * TicksPerDay + TickOfDay(c)
         /\ TickOfDay(c) \in 0..(TicksPerDay - 1)
         /\ Days(c) \in Nat
         /\ Days(c) * TicksPerDay \in Nat
<1>1. Days(c) \in Nat
  BY DaysFromMonth
<1>2. SecondOfDay(c) \in 0..(SECONDS_IN_1DAY - 1) /\ c.SubSeconds \in 0..PREDIV_S
  BY TimeFields
<1>3. CalendarValue(c) = (Days(c) * SECONDS_IN_1DAY + SecondOfDay(c)) * TicksPerSecond
                            + (PREDIV_S - c.SubSeconds)
  BY DEF CalendarValue
<1>4. SecondOfDay(c) \in Nat
  BY <1>2, Sizes
<1>5. (Days(c) * SECONDS_IN_1DAY + SecondOfDay(c)) * TicksPerSecond
        = Days(c) * TicksPerDay + SecondOfDay(c) * TicksPerSecond
  <2> DEFINE a == Days(c)
             b == SecondOfDay(c)
  <2>1. a \in Nat /\ b \in Nat
    BY <1>1, <1>4
  <2> HIDE DEF a, b
  <2>2. (a * SECONDS_IN_1DAY + b) * TicksPerSecond
          = a * (SECONDS_IN_1DAY * TicksPerSecond) + b * TicksPerSecond
    BY <2>1, Sizes
  <2> QED BY <2>2 DEF a, b, TicksPerDay
<1>6. Days(c) * TicksPerDay \in Nat /\ SecondOfDay(c) * TicksPerSecond \in Nat
  BY <1>1, <1>4, Sizes
<1>7. PREDIV_S - c.SubSeconds \in 0..PREDIV_S
  BY <1>2, Sizes
<1>8. SecondOfDay(c) * TicksPerSecond <= TicksPerDay - TicksPerSecond
  <2>1. SECONDS_IN_1DAY - 1 \in Int /\ SecondOfDay(c) <= SECONDS_IN_1DAY - 1
    BY <1>2, <1>4, Sizes
  <2>2. SecondOfDay(c) * TicksPerSecond <= (SECONDS_IN_1DAY - 1) * TicksPerSecond
    BY <1>4, <2>1, Sizes, ProductOrder
  <2>3. (SECONDS_IN_1DAY - 1) * TicksPerSecond = TicksPerDay - TicksPerSecond
    BY Sizes DEF TicksPerDay
  <2> QED BY <2>2, <2>3
<1>9. TickOfDay(c) \in 0..(TicksPerDay - 1)
  BY <1>6, <1>7, <1>8, Sizes DEF TickOfDay
<1> QED BY <1>1, <1>3, <1>5, <1>6, <1>7, <1>9 DEF TickOfDay

(*****************************************************************************)
(* Alarms                                                                    *)
(*****************************************************************************)

(* The date of c at the time of the day of the alarm.                        *)
AlarmTime(c, timeout) ==
  [Year |-> c.Year, Month |-> c.Month, Date |-> c.Date,
   Hours |-> AlarmHours(c, timeout) % HOURS_IN_1DAY,
   Minutes |-> AlarmMinutes(c, timeout) % MINUTES_IN_1HOUR,
   Seconds |-> AlarmSeconds(c, timeout) % SECONDS_IN_1MINUTE,
   SubSeconds |-> PREDIV_S - (AlarmTicks(c, timeout) % TicksPerSecond)]

(* The carries of HW_RTC_StartWakeUpAlarm add up: the time of the alarm,    *)
(* some days after c, is that of c and the timeout.                         *)
LEMMA AlarmParts ==
  ASSUME NEW c \in Calendars, NEW timeout \in Nat
  PROVE  /\ AlarmTime(c, timeout) \in Calendars
         /\ Days(AlarmTime(c, timeout)) = Days(c)
         /\ AlarmDays(c, timeout) - c.Date \in Nat
         /\ CalendarValue(AlarmTime(c, timeout)) + (AlarmDays(c, timeout) - c.Date) * TicksPerDay
              = CalendarValue(c) + timeout
<1>1. PICK q \in Nat, r \in 0..(TicksPerSecond - 1) :
        /\ q = timeout \div TicksPerSecond
        /\ r = timeout % TicksPerSecond
        /\ timeout = q * TicksPerSecond + r
  <2>1. TicksPerSecond \in Nat \ {0}
    BY Sizes
  <2>2. timeout \in Nat
    OBVIOUS
  <2> QED BY <2>1, <2>2, Quotient, Zenon
<1>2. PICK d \in Nat, q1 \in 0..(SECONDS_IN_1DAY - 1) :
        /\ d = q \div SECONDS_IN_1DAY
        /\ q1 = q % SECONDS_IN_1DAY
        /\ q = d * SECONDS_IN_1DAY + q1
  <2>1. SECONDS_IN_1DAY \in Nat \ {0}
    BY Sizes
  <2>2. q \in Nat
    BY <1>1
  <2> QED BY <2>1, <2>2, Quotient, Zenon
<1>3. PICK hh \in Nat, q2 \in 0..(SECONDS_IN_1HOUR - 1) :
        /\ hh = q1 \div SECONDS_IN_1HOUR
        /\ q2 = q % SECONDS_IN_1HOUR
        /\ q1 = hh * SECONDS_IN_1HOUR + q2
  <2> DEFINE hh == q1 \div SECONDS_IN_1HOUR
             q2 == q1 % SECONDS_IN_1HOUR
  <2>1. hh \in Nat /\ q2 \in 0..(SECONDS_IN_1HOUR - 1) /\ q1 = hh * SECONDS_IN_1HOUR + q2
    BY Sizes
  <2> HIDE DEF hh, q2
  <2>2. hh = q1 \div SECONDS_IN_1HOUR /\ q2 = q1 % SECONDS_IN_1HOUR
    BY DEF hh, q2
  <2>3. (q % SECONDS_IN_1DAY) % SECONDS_IN_1HOUR = q % SECONDS_IN_1HOUR
    BY Sizes, NestedMod DEF SECONDS_IN_1DAY
  <2>4. q2 = q % SECONDS_IN_1HOUR
    BY <1>2, <2>2, <2>3
  <2> QED BY <2>1, <2>2, <2>4
<1>4. PICK mm \in Nat, ss \in 0..(SECONDS_IN_1MINUTE - 1) :
        /\ mm = q2 \div SECONDS_IN_1MINUTE
        /\ ss = q % SECONDS_IN_1MINUTE
        /\ q2 = mm * SECONDS_IN_1MINUTE + ss
  <2> DEFINE mm == q2 \div SECONDS_IN_1MINUTE
             ss == q2 % SECONDS_IN_1MINUTE
  <2>1. mm \in Nat /\ ss \in 0..(SECONDS_IN_1MINUTE - 1) /\ q2 = mm * SECONDS_IN_1MINUTE + ss
    BY Sizes
  <2> HIDE DEF mm, ss
  <2>2. mm = q2 \div SECONDS_IN_1MINUTE /\ ss = q2 % SECONDS_IN_1MINUTE
    BY DEF mm, ss
  <2>3. (q % SECONDS_IN_1HOUR) % SECONDS_IN_1MINUTE = q % SECONDS_IN_1MINUTE
    BY Sizes, NestedMod DEF SECONDS_IN_1HOUR
  <2>4. ss = q % SECONDS_IN_1MINUTE
    BY <1>3, <2>2, <2>3
  <2> QED BY <2>1, <2>2, <2>4
<1>5. /\ c.Hours \in Nat /\ c.Minutes \in Nat /\ c.Seconds \in Nat
      /\ c.SubSeconds \in 0..PREDIV_S
      /\ c \in Fields
  BY TimeFields, Sizes DEF Calendars
<1>6. PICK at \in Nat : at = AlarmTicks(c, timeout) /\ at = (PREDIV_S - c.SubSeconds) + r
  BY <1>1, <1>5, Sizes DEF AlarmTicks
<1>7. PICK c1 \in Nat, u \in 0..(TicksPerSecond - 1) :
        c1 = at \div TicksPerSecond /\ u = at % TicksPerSecond /\ at = c1 * TicksPerSecond + u
  <2>1. TicksPerSecond \in Nat \ {0}
    BY Sizes
  <2>2. at \in Nat
    BY <1>6
  <2> QED BY <2>1, <2>2, Quotient, Zenon
<1>8. PICK as \in Nat : as = AlarmSeconds(c, timeout) /\ as = c.Seconds + ss + c1
  <2>1. AlarmSeconds(c, timeout) = c.Seconds + ss + c1
    BY <1>1, <1>4, <1>6, <1>7 DEF AlarmSeconds
  <2>2. c.Seconds + ss + c1 \in Nat
    <3>1. ss \in Nat
      BY <1>4, Sizes
    <3> QED BY <1>5, <1>7, <3>1
  <2> QED BY <2>1, <2>2
<1>9. PICK c2 \in Nat, s \in 0..(SECONDS_IN_1MINUTE - 1) :
        /\ c2 = as \div SECONDS_IN_1MINUTE
        /\ s = as % SECONDS_IN_1MINUTE
        /\ as = c2 * SECONDS_IN_1MINUTE + s
  <2>1. SECONDS_IN_1MINUTE \in Nat \ {0}
    BY Sizes
  <2>2. as \in Nat
    BY <1>8
  <2> QED BY <2>1, <2>2, Quotient, Zenon
<1>10. PICK am \in Nat : am = AlarmMinutes(c, timeout) /\ am = c.Minutes + mm + c2
  <2>1. AlarmMinutes(c, timeout) = c.Minutes + mm + c2
    BY <1>1, <1>3, <1>4, <1>8, <1>9 DEF AlarmMinutes
  <2>2. c.Minutes \in Nat /\ mm \in Nat /\ c2 \in Nat
    BY <1>4, <1>5, <1>9
  <2>3. c.Minutes + mm + c2 \in Nat
    BY <2>2
  <2> QED BY <2>1, <2>3
<1>11. PICK c3 \in Nat, m \in 0..(MINUTES_IN_1HOUR - 1) :
        c3 = am \div MINUTES_IN_1HOUR /\ m = am % MINUTES_IN_1HOUR /\ am = c3 * MINUTES_IN_1HOUR + m
  <2>1. MINUTES_IN_1HOUR \in Nat \ {0}
    BY Sizes
  <2>2. am \in Nat
    BY <1>10
  <2> QED BY <2>1, <2>2, Quotient, Zenon
<1>12. PICK ah \in Nat : ah = AlarmHours(c, timeout) /\ ah = c.Hours + hh + c3
  <2>1. AlarmHours(c, timeout) = c.Hours + hh + c3
    BY <1>1, <1>2, <1>3, <1>10, <1>11 DEF AlarmHours
  <2>2. c.Hours + hh + c3 \in Nat
    BY <1>3, <1>5, <1>11
  <2> QED BY <2>1, <2>2
<1>13. PICK c4 \in Nat, h \in 0..(HOURS_IN_1DAY - 1) :
        c4 = ah \div HOURS_IN_1DAY /\ h = ah % HOURS_IN_1DAY /\ ah = c4 * HOURS_IN_1DAY + h
  <2>1. HOURS_IN_1DAY \in Nat \ {0}
    BY Sizes
  <2>2. ah \in Nat
    BY <1>12
  <2> QED BY <2>1, <2>2, Quotient, Zenon
<1>14. AlarmDays(c, timeout) - c.Date = d + c4
  <2>1. AlarmDays(c, timeout) = c.Date + d + c4
    BY <1>1, <1>2, <1>12, <1>13 DEF AlarmDays
  <2>2. c.Date \in Int
    BY DaysOf
  <2> QED BY <2>1, <2>2
<1> DEFINE x == AlarmTime(c, timeout)
<1>15. x = [Year |-> c.Year, Month |-> c.Month, Date |-> c.Date, Hours |-> h, Minutes |-> m,
            Seconds |-> s, SubSeconds |-> PREDIV_S - u]
  BY <1>6, <1>7, <1>8, <1>9, <1>10, <1>11, <1>12, <1>13 DEF AlarmTime
<1>16. PREDIV_S - u \in 0..PREDIV_S
  BY <1>7, Sizes
<1>17. x \in Calendars
  <2>1. c.Year \in 0..99 /\ c.Month \in 1..12 /\ c.Date \in 1..31
        /\ c.Date <= DaysInMonth(c.Year, c.Month)
    BY DaysOf
  <2>2. x \in Fields
    <3>1. h \in 0..(HOURS_IN_1DAY - 1)
      BY <1>13
    <3>2. m \in 0..(MINUTES_IN_1HOUR - 1)
      BY <1>11
    <3>3. s \in 0..(SECONDS_IN_1MINUTE - 1)
      BY <1>9
    <3> HIDE DEF x
    <3> QED BY <1>15, <1>16, <2>1, <3>1, <3>2, <3>3 DEF Fields
  <2>3. x.Date = c.Date /\ x.Year = c.Year /\ x.Month = c.Month
    BY <1>15
  <2> HIDE DEF x
  <2> QED BY <2>1, <2>2, <2>3 DEF Calendars
<1>18. /\ x.Hours = h /\ x.Minutes = m /\ x.Seconds = s /\ x.SubSeconds = PREDIV_S - u
       /\ x.Year = c.Year /\ x.Month = c.Month /\ x.Date = c.Date
  BY <1>15
<1> HIDE DEF x
<1>19. Days(x) = Days(c)
  BY <1>18 DEF Days
<1>20. /\ c2 * SECONDS_IN_1MINUTE \in Nat
       /\ m * SECONDS_IN_1MINUTE \in Nat
       /\ c.Minutes * SECONDS_IN_1MINUTE \in Nat
       /\ mm * SECONDS_IN_1MINUTE \in Nat
       /\ c3 * SECONDS_IN_1HOUR \in Nat
  <2>1. m \in Nat /\ SECONDS_IN_1MINUTE \in Nat /\ SECONDS_IN_1HOUR \in Nat
    BY <1>11, Sizes
  <2>2. c2 \in Nat /\ c.Minutes \in Nat /\ mm \in Nat /\ c3 \in Nat
    BY <1>4, <1>5, <1>9, <1>11
  <2> QED BY <2>1, <2>2
<1>21. /\ h * SECONDS_IN_1HOUR \in Nat
       /\ c.Hours * SECONDS_IN_1HOUR \in Nat
       /\ hh * SECONDS_IN_1HOUR \in Nat
       /\ c4 * SECONDS_IN_1DAY \in Nat
       /\ d * SECONDS_IN_1DAY \in Nat
  BY <1>2, <1>3, <1>5, <1>13, Sizes
<1>22. c.Minutes * SECONDS_IN_1MINUTE + mm * SECONDS_IN_1MINUTE + c2 * SECONDS_IN_1MINUTE
         = c3 * SECONDS_IN_1HOUR + m * SECONDS_IN_1MINUTE
  <2>1. (c.Minutes + mm + c2) * SECONDS_IN_1MINUTE
          = c.Minutes * SECONDS_IN_1MINUTE + mm * SECONDS_IN_1MINUTE + c2 * SECONDS_IN_1MINUTE
    <3>1. c.Minutes \in Nat
      BY <1>5
    <3>2. mm \in Nat
      BY <1>4
    <3>3. c2 \in Nat
      BY <1>9
    <3>4. SECONDS_IN_1MINUTE \in Nat
      BY Sizes
    <3> QED BY <3>1, <3>2, <3>3, <3>4
  <2>2. (c3 * MINUTES_IN_1HOUR + m) * SECONDS_IN_1MINUTE
          = c3 * SECONDS_IN_1HOUR + m * SECONDS_IN_1MINUTE
    BY <1>11, Sizes DEF SECONDS_IN_1HOUR
  <2>3. c.Minutes + mm + c2 = c3 * MINUTES_IN_1HOUR + m
    BY <1>10, <1>11
  <2> QED BY <2>1, <2>2, <2>3
<1>23. c.Hours * SECONDS_IN_1HOUR + hh * SECONDS_IN_1HOUR + c3 * SECONDS_IN_1HOUR
         = c4 * SECONDS_IN_1DAY + h * SECONDS_IN_1HOUR
  <2>1. (c.Hours + hh + c3) * SECONDS_IN_1HOUR
          = c.Hours * SECONDS_IN_1HOUR + hh * SECONDS_IN_1HOUR + c3 * SECONDS_IN_1HOUR
    <3>1. c.Hours \in Nat
      BY <1>5
    <3>2. hh \in Nat
      BY <1>3
    <3>3. c3 \in Nat
      BY <1>11
    <3>4. SECONDS_IN_1HOUR \in Nat
      BY Sizes
    <3> QED BY <3>1, <3>2, <3>3, <3>4
  <2>2. (c4 * HOURS_IN_1DAY + h) * SECONDS_IN_1HOUR
          = c4 * SECONDS_IN_1DAY + h * SECONDS_IN_1HOUR
    BY <1>13, Sizes DEF SECONDS_IN_1DAY
  <2>3. c.Hours + hh + c3 = c4 * HOURS_IN_1DAY + h
    BY <1>12, <1>13
  <2> QED BY <2>1, <2>2, <2>3
<1>24. (d + c4) * SECONDS_IN_1DAY = d * SECONDS_IN_1DAY + c4 * SECONDS_IN_1DAY
  <2>1. d \in Nat
    BY <1>2
  <2>2. c4 \in Nat
    BY <1>13
  <2>3. SECONDS_IN_1DAY \in Nat
    BY Sizes
  <2> QED BY <2>1, <2>2, <2>3
<1>25. SecondOfDay(c) + q + c1 = SecondOfDay(x) + (d + c4) * SECONDS_IN_1DAY
  <2>1. SecondOfDay(c) = c.Seconds + c.Minutes * SECONDS_IN_1MINUTE + c.Hours * SECONDS_IN_1HOUR
    BY DEF SecondOfDay
  <2>2. SecondOfDay(x) = s + m * SECONDS_IN_1MINUTE + h * SECONDS_IN_1HOUR
    BY <1>18 DEF SecondOfDay
  <2>3. q = d * SECONDS_IN_1DAY + (hh * SECONDS_IN_1HOUR + (mm * SECONDS_IN_1MINUTE + ss))
    BY <1>2, <1>3, <1>4
  <2>4. c.Seconds + ss + c1 = c2 * SECONDS_IN_1MINUTE + s
    BY <1>8, <1>9
  <2>5. c.Seconds \in Nat /\ ss \in Nat /\ c1 \in Nat /\ s \in Nat
    <3>1. ss \in Nat
      BY <1>4, Sizes
    <3>2. s \in Nat
      <4>1. s \in 0..(SECONDS_IN_1MINUTE - 1)
        BY <1>9
      <4> QED BY <4>1, Sizes
    <3> QED BY <1>5, <1>7, <3>1, <3>2
  <2> DEFINE A == c.Minutes * SECONDS_IN_1MINUTE
             B == mm * SECONDS_IN_1MINUTE
             C == c2 * SECONDS_IN_1MINUTE
             E == m * SECONDS_IN_1MINUTE
             F == c3 * SECONDS_IN_1HOUR
             G == c.Hours * SECONDS_IN_1HOUR
             I == hh * SECONDS_IN_1HOUR
             J == h * SECONDS_IN_1HOUR
             K == c4 * SECONDS_IN_1DAY
             L == d * SECONDS_IN_1DAY
             N == (d + c4) * SECONDS_IN_1DAY
  <2>6. /\ A \in Nat /\ B \in Nat /\ C \in Nat /\ E \in Nat /\ F \in Nat
        /\ G \in Nat /\ I \in Nat /\ J \in Nat /\ K \in Nat /\ L \in Nat
    BY <1>20, <1>21
  <2>7. A + B + C = F + E /\ G + I + F = K + J /\ N = L + K
    BY <1>22, <1>23, <1>24
  <2>8. /\ SecondOfDay(c) = c.Seconds + A + G
        /\ SecondOfDay(x) = s + E + J
        /\ q = L + (I + (B + ss))
        /\ c.Seconds + ss + c1 = C + s
    BY <2>1, <2>2, <2>3, <2>4
  <2> HIDE DEF A, B, C, E, F, G, I, J, K, L, N
  <2>9. SecondOfDay(c) + q + c1 = SecondOfDay(x) + N
    BY <2>5, <2>6, <2>7, <2>8
  <2> QED BY <2>9 DEF N
<1>26. CalendarValue(x) + (d + c4) * TicksPerDay = CalendarValue(c) + timeout
  <2> DEFINE K == (d + c4) * SECONDS_IN_1DAY
  <2>1. /\ SecondsOf(c) \in Nat /\ SecondsOf(x) \in Nat
        /\ CalendarValue(c) = SecondsOf(c) * TicksPerSecond + (PREDIV_S - c.SubSeconds)
        /\ CalendarValue(x) = SecondsOf(x) * TicksPerSecond + (PREDIV_S - x.SubSeconds)
    BY <1>17, ValueOf
  <2>2. K \in Nat
    BY <1>21, <1>24
  <2>3. SecondsOf(c) + q + c1 = SecondsOf(x) + K
    <3>1. Days(c) * SECONDS_IN_1DAY \in Nat
      BY DaysFromMonth, Sizes
    <3>2. SecondOfDay(c) \in Nat /\ SecondOfDay(x) \in Nat
      BY <1>17, TimeFields, Sizes
    <3>3. /\ SecondsOf(c) = Days(c) * SECONDS_IN_1DAY + SecondOfDay(c)
          /\ SecondsOf(x) = Days(c) * SECONDS_IN_1DAY + SecondOfDay(x)
      BY <1>19 DEF SecondsOf
    <3>4. SecondOfDay(c) + q + c1 = SecondOfDay(x) + K
      BY <1>25
    <3> HIDE DEF K
    <3> QED BY <1>1, <1>7, <2>2, <3>1, <3>2, <3>3, <3>4
  <2>4. (d + c4) * TicksPerDay = K * TicksPerSecond
    BY <1>2, <1>13, Sizes DEF TicksPerDay
  <2> HIDE DEF K
  <2>5. (SecondsOf(c) + q + c1) * TicksPerSecond
          = SecondsOf(c) * TicksPerSecond + q * TicksPerSecond + c1 * TicksPerSecond
    <3>1. SecondsOf(c) \in Nat
      BY <2>1
    <3>2. q \in Nat
      BY <1>1
    <3>3. c1 \in Nat
      BY <1>7
    <3>4. TicksPerSecond \in Nat
      BY Sizes
    <3> QED BY <3>1, <3>2, <3>3, <3>4
  <2>6. (SecondsOf(x) + K) * TicksPerSecond = SecondsOf(x) * TicksPerSecond + K * TicksPerSecond
    BY <2>1, <2>2, Sizes
  <2>7. PREDIV_S - x.SubSeconds = u /\ PREDIV_S - c.SubSeconds \in Nat
    <3>1. u \in Int
      BY <1>7, Sizes
    <3> QED BY <1>5, <1>18, <3>1, Sizes
  <2>8. (PREDIV_S - c.SubSeconds) + r = c1 * TicksPerSecond + u
    BY <1>6, <1>7
  <2>9. /\ SecondsOf(c) * TicksPerSecond \in Nat /\ q * TicksPerSecond \in Nat
        /\ c1 * TicksPerSecond \in Nat /\ SecondsOf(x) * TicksPerSecond \in Nat
        /\ K * TicksPerSecond \in Nat
    BY <1>1, <1>7, <2>1, <2>2, Sizes
  <2> DEFINE a == SecondsOf(c) * TicksPerSecond
             b == q * TicksPerSecond
             e == c1 * TicksPerSecond
             f == SecondsOf(x) * TicksPerSecond
             g == K * TicksPerSecond
             w == PREDIV_S - c.SubSeconds
  <2>10. a + b + e = f + g
    BY <2>3, <2>5, <2>6
  <2>11. /\ a \in Nat /\ b \in Nat /\ e \in Nat /\ f \in Nat /\ g \in Nat /\ w \in Nat
         /\ CalendarValue(c) = a + w /\ CalendarValue(x) = f + u
         /\ timeout = b + r /\ w + r = e + u /\ (d + c4) * TicksPerDay = g
    BY <1>1, <2>1, <2>4, <2>7, <2>8, <2>9
  <2>12. r \in Nat /\ u \in Nat
    BY <1>1, <1>7, Sizes
  <2> HIDE DEF a, b, e, f, g, w
  <2> QED BY <2>10, <2>11, <2>12
<1> QED BY <1>2, <1>13, <1>14, <1>17, <1>19, <1>26 DEF x

(* What the hardware compares, field by field.                              *)
LEMMA MatchesIs ==
  ASSUME NEW c \in Calendars, NEW x \in Calendars, NEW timeout \in Nat
  PROVE  Matches(AlarmAt(c, timeout), x) <=>
           /\ x.Date = AlarmDate(c, timeout)
           /\ x.Hours = AlarmTime(c, timeout).Hours
           /\ x.Minutes = AlarmTime(c, timeout).Minutes
           /\ x.Seconds = AlarmTime(c, timeout).Seconds
           /\ x.SubSeconds = AlarmTime(c, timeout).SubSeconds
<1> DEFINE alarmed == AlarmAt(c, timeout)
<1>1. DOMAIN alarmed = {"Date", "Hours", "Minutes", "Seconds", "SubSeconds"}
  BY DEF AlarmAt
<1>2. /\ alarmed["Date"] = AlarmDate(c, timeout)
      /\ alarmed["Hours"] = AlarmTime(c, timeout).Hours
      /\ alarmed["Minutes"] = AlarmTime(c, timeout).Minutes
      /\ alarmed["Seconds"] = AlarmTime(c, timeout).Seconds
      /\ alarmed["SubSeconds"] = AlarmTime(c, timeout).SubSeconds
  BY DEF AlarmAt, AlarmTime
<1> HIDE DEF alarmed
<1>3. Matches(alarmed, x) <=>
        /\ alarmed["Date"] = x["Date"]
        /\ alarmed["Hours"] = x["Hours"]
        /\ alarmed["Minutes"] = x["Minutes"]
        /\ alarmed["Seconds"] = x["Seconds"]
        /\ alarmed["SubSeconds"] = x["SubSeconds"]
  BY <1>1 DEF Matches
<1>4. Matches(AlarmAt(c, timeout), x) <=> Matches(alarmed, x)
  BY DEF alarmed
<1> QED BY <1>2, <1>3, <1>4

(* The date of an alarm less than a month ahead.                            *)
LEMMA AlarmDateIs ==
  ASSUME NEW c \in Calendars, NEW timeout \in Nat, NEW k \in 0..27,
         AlarmDays(c, timeout) = c.Date + k
  PROVE  AlarmDate(c, timeout) =
           IF c.Date + k > DaysInMonth(c.Year, c.Month)
           THEN c.Date + k - DaysInMonth(c.Year, c.Month) ELSE c.Date + k
<1> DEFINE n == DaysInMonth(c.Year, c.Month)
<1>1. n \in 28..31 /\ c.Date \in 1..31 /\ c.Date <= n
  BY DaysOf, MonthSizes
<1>2. AlarmDate(c, timeout) =
        IF AlarmDays(c, timeout) > n THEN AlarmDays(c, timeout) % n ELSE AlarmDays(c, timeout)
  BY DEF AlarmDate
<1> HIDE DEF n
<1>3. ASSUME c.Date + k > n PROVE (c.Date + k) % n = c.Date + k - n
  <2>1. n \in Nat \ {0}
    BY <1>1
  <2>4. c.Date + k - n \in 0..(n - 1)
    BY <1>1, <1>3
  <2>5. 1 \in Int
    OBVIOUS
  <2>2. 1 * n + (c.Date + k - n) = c.Date + k
    BY <1>1
  <2>3. (1 * n + (c.Date + k - n)) % n = c.Date + k - n
    BY <2>1, <2>4, <2>5, ModIs, Zenon
  <2> QED BY <2>2, <2>3
<1>4. AlarmDate(c, timeout) = IF c.Date + k > n THEN c.Date + k - n ELSE c.Date + k
  BY <1>2, <1>3
<1> QED BY <1>4 DEF n

(* The days are a number.                                                   *)
LEMMA AlarmDaysOf ==
  ASSUME NEW c \in Calendars, NEW timeout \in Nat
  PROVE  AlarmDays(c, timeout) \in Int
<1>1. /\ c.Hours \in Nat /\ c.Minutes \in Nat /\ c.Seconds \in Nat
      /\ c.SubSeconds \in 0..PREDIV_S /\ c.Date \in Int
  BY TimeFields, DaysOf, Sizes
<1>2. AlarmTicks(c, timeout) \in Int
  BY <1>1, Sizes DEF AlarmTicks
<1>3. AlarmSeconds(c, timeout) \in Int
  BY <1>1, <1>2, Sizes DEF AlarmSeconds
<1>4. AlarmMinutes(c, timeout) \in Int
  BY <1>1, <1>3, Sizes DEF AlarmMinutes
<1>5. AlarmHours(c, timeout) \in Int
  BY <1>1, <1>4, Sizes DEF AlarmHours
<1> QED BY <1>1, <1>5, Sizes DEF AlarmDays

(* An alarm less than a month after c matches then, and not before.          *)
LEMMA AlarmAhead ==
  ASSUME NEW c \in Calendars, NEW x \in Calendars, NEW timeout \in Nat,
         timeout < 27 * TicksPerDay, CalendarValue(c) <= CalendarValue(x),
         CalendarValue(x) <= CalendarValue(c) + timeout
  PROVE  Matches(AlarmAt(c, timeout), x) <=> CalendarValue(x) = CalendarValue(c) + timeout
<1> DEFINE a == AlarmTime(c, timeout)
           n == AlarmDays(c, timeout) - c.Date
           length == DaysInMonth(c.Year, c.Month)
<1>1. /\ a \in Calendars
      /\ Days(a) = Days(c)
      /\ n \in Nat
      /\ CalendarValue(a) + n * TicksPerDay = CalendarValue(c) + timeout
  BY AlarmParts
<1>2. a.Year = c.Year /\ a.Month = c.Month /\ a.Date = c.Date
  BY DEF AlarmTime
<1>3. Matches(AlarmAt(c, timeout), x) <=>
        /\ x.Date = AlarmDate(c, timeout)
        /\ x.Hours = a.Hours
        /\ x.Minutes = a.Minutes
        /\ x.Seconds = a.Seconds
        /\ x.SubSeconds = a.SubSeconds
  BY MatchesIs
<1>4. c.Date \in 1..31 /\ c.Date <= length /\ length \in 28..31
  BY DaysOf, MonthSizes
<1>5. AlarmDays(c, timeout) = c.Date + n
  <2>1. AlarmDays(c, timeout) \in Int
    BY AlarmDaysOf
  <2> QED BY <1>4, <2>1
<1> HIDE DEF a, n, length
<1>6. /\ CalendarValue(c) = Days(c) * TicksPerDay + TickOfDay(c)
      /\ CalendarValue(a) = Days(c) * TicksPerDay + TickOfDay(a)
      /\ CalendarValue(x) = Days(x) * TicksPerDay + TickOfDay(x)
      /\ Days(c) * TicksPerDay \in Nat /\ Days(x) * TicksPerDay \in Nat
      /\ Days(c) \in Nat /\ Days(x) \in Nat
  BY <1>1, DayValue
<1>7. /\ TickOfDay(c) \in Nat /\ TickOfDay(c) < TicksPerDay
      /\ TickOfDay(a) \in Nat /\ TickOfDay(a) < TicksPerDay
      /\ TickOfDay(x) \in Nat /\ TickOfDay(x) < TicksPerDay
  BY <1>1, DayValue, Sizes
<1>8. n * TicksPerDay \in Nat
  BY <1>1, Sizes
<1>9. n \in 0..27
  <2>1. n * TicksPerDay < 28 * TicksPerDay
    BY <1>1, <1>6, <1>7, <1>8, Sizes
  <2>2. n < 28
    <3>1. n \in Int /\ 28 \in Int
      BY <1>1
    <3> QED BY <2>1, <3>1, Sizes, CancelProduct
  <2> QED BY <1>1, <2>2
<1>10. AlarmDate(c, timeout) = IF c.Date + n > length THEN c.Date + n - length ELSE c.Date + n
  BY <1>5, <1>9, AlarmDateIs DEF length
<1>11. ASSUME NEW k \in 0..27, Days(x) = Days(a) + k
       PROVE  \/ x.Date = c.Date + k /\ c.Date + k <= length
              \/ x.Date = c.Date + k - length /\ c.Date + k > length
  BY <1>1, <1>2, <1>11, DateAfter DEF length
<1>12. ASSUME CalendarValue(x) = CalendarValue(c) + timeout
       PROVE  Matches(AlarmAt(c, timeout), x)
  <2>1. CalendarValue(x) = CalendarValue(a) + n * TicksPerDay
    BY <1>1, <1>12
  <2>2. n \in Int
    BY <1>1
  <2>3. /\ Days(x) = Days(a) + n
        /\ a.Hours = x.Hours
        /\ a.Minutes = x.Minutes
        /\ a.Seconds = x.Seconds
        /\ a.SubSeconds = x.SubSeconds
    BY <1>1, <2>1, <2>2, SameParts
  <2>4. \/ x.Date = c.Date + n /\ c.Date + n <= length
        \/ x.Date = c.Date + n - length /\ c.Date + n > length
    BY <1>9, <1>11, <2>3
  <2>5. x.Date = AlarmDate(c, timeout)
    BY <1>4, <1>9, <1>10, <2>4
  <2> QED BY <1>3, <2>3, <2>5
<1>13. ASSUME Matches(AlarmAt(c, timeout), x)
       PROVE  CalendarValue(x) = CalendarValue(c) + timeout
  <2>1. /\ SecondOfDay(x) = SecondOfDay(a) /\ x.SubSeconds = a.SubSeconds
        /\ x.Date = AlarmDate(c, timeout)
    BY <1>3, <1>13 DEF SecondOfDay
  <2>2. TickOfDay(x) = TickOfDay(a)
    BY <2>1 DEF TickOfDay
  <2>3. PICK k \in Int : Days(x) = Days(c) + k
    <3>1. Days(x) - Days(c) \in Int /\ Days(x) = Days(c) + (Days(x) - Days(c))
      BY <1>6
    <3> QED BY <3>1
  <2>4. Days(x) * TicksPerDay = Days(c) * TicksPerDay + k * TicksPerDay /\ k * TicksPerDay \in Int
    <3>1. Days(c) \in Int /\ TicksPerDay \in Int
      BY <1>6, Sizes
    <3>2. (Days(c) + k) * TicksPerDay = Days(c) * TicksPerDay + k * TicksPerDay
      BY <3>1, Product
    <3> QED BY <2>3, <3>1, <3>2
  <2>5. CalendarValue(x) = CalendarValue(a) + k * TicksPerDay
    BY <1>6, <1>7, <2>2, <2>4
  <2>6. (-1) * TicksPerDay < k * TicksPerDay
    BY <1>6, <1>7, <2>4, Sizes
  <2>7. k * TicksPerDay < (n + 1) * TicksPerDay
    <3>1. k * TicksPerDay <= n * TicksPerDay
      BY <1>1, <1>6, <1>7, <1>8, <2>4, <2>5
    <3>2. (n + 1) * TicksPerDay = n * TicksPerDay + TicksPerDay
      BY <1>1, Sizes
    <3> QED BY <1>8, <2>4, <3>1, <3>2, Sizes
  <2>8. TicksPerDay \in Nat \ {0} /\ -1 \in Int /\ n + 1 \in Int
    BY <1>1, Sizes
  <2>9. -1 < k /\ k < n + 1
    BY <2>6, <2>7, <2>8, CancelProduct
  <2>10. k \in 0..27
    BY <1>9, <2>9
  <2>11. \/ x.Date = c.Date + k /\ c.Date + k <= length
         \/ x.Date = c.Date + k - length /\ c.Date + k > length
    BY <1>1, <1>11, <2>3, <2>10
  <2>12. k = n
    BY <1>4, <1>9, <1>10, <2>1, <2>9, <2>10, <2>11
  <2> QED BY <1>1, <2>5, <2>12
<1> QED BY <1>12, <1>13

(* The fields that the hardware compares.                                    *)
AlarmRecords == [{"Date", "Hours", "Minutes", "Seconds", "SubSeconds"} -> Int]

(* A calendar that an alarm matches is not matched again for 28 days.        *)
LEMMA AlarmBehind ==
  ASSUME NEW a \in Calendars, NEW x \in Calendars, NEW fields,
         fields \in AlarmRecords,
         Matches(fields, a), Matches(fields, x),
         CalendarValue(a) <= CalendarValue(x),
         CalendarValue(x) < CalendarValue(a) + 28 * TicksPerDay
  PROVE  CalendarValue(x) = CalendarValue(a)
<1>1. /\ x.Date = a.Date
      /\ x.Hours = a.Hours
      /\ x.Minutes = a.Minutes
      /\ x.Seconds = a.Seconds
      /\ x.SubSeconds = a.SubSeconds
  <2>1. \A f \in {"Date", "Hours", "Minutes", "Seconds", "SubSeconds"} : a[f] = x[f]
    BY DEF Matches, AlarmRecords
  <2> QED BY <2>1
<1>2. TickOfDay(x) = TickOfDay(a)
  BY <1>1 DEF TickOfDay, SecondOfDay
<1>3. /\ CalendarValue(a) = Days(a) * TicksPerDay + TickOfDay(a)
      /\ CalendarValue(x) = Days(x) * TicksPerDay + TickOfDay(x)
      /\ Days(a) * TicksPerDay \in Nat /\ Days(x) * TicksPerDay \in Nat
      /\ Days(a) \in Nat /\ Days(x) \in Nat
      /\ TickOfDay(a) \in Nat
  BY DayValue, Sizes
<1>4. PICK k \in Int : Days(x) = Days(a) + k
  <2>1. Days(x) - Days(a) \in Int /\ Days(x) = Days(a) + (Days(x) - Days(a))
    BY <1>3
  <2> QED BY <2>1
<1>5. Days(x) * TicksPerDay = Days(a) * TicksPerDay + k * TicksPerDay /\ k * TicksPerDay \in Int
  <2>1. Days(a) \in Int /\ TicksPerDay \in Int
    BY <1>3, Sizes
  <2>2. (Days(a) + k) * TicksPerDay = Days(a) * TicksPerDay + k * TicksPerDay
    BY <2>1, Product
  <2> QED BY <1>4, <2>1, <2>2
<1>6. (-1) * TicksPerDay < k * TicksPerDay /\ k * TicksPerDay < 28 * TicksPerDay
  BY <1>2, <1>3, <1>5, Sizes
<1>7. TicksPerDay \in Nat \ {0} /\ -1 \in Int /\ 28 \in Int
  BY Sizes
<1>8. -1 < k /\ k < 28
  BY <1>6, <1>7, CancelProduct
<1>9. k \in 0..27
  BY <1>8
<1>10. k = 0
  <2>1. a.Date \in 1..31 /\ DaysInMonth(a.Year, a.Month) \in 28..31
    BY DaysOf, MonthSizes
  <2>2. \/ x.Date = a.Date + k
        \/ x.Date = a.Date + k - DaysInMonth(a.Year, a.Month)
    BY <1>4, <1>9, DateAfter
  <2> QED BY <1>1, <1>9, <2>1, <2>2
<1> QED BY <1>2, <1>3, <1>4, <1>10

(* The fields of an alarm.                                                  *)
LEMMA AlarmFields ==
  ASSUME NEW c \in Calendars, NEW timeout \in Nat
  PROVE  AlarmAt(c, timeout) \in AlarmRecords
<1>1. AlarmTime(c, timeout) \in Calendars
  BY AlarmParts
<1>2. /\ AlarmTime(c, timeout).Hours \in Int
      /\ AlarmTime(c, timeout).Minutes \in Int
      /\ AlarmTime(c, timeout).Seconds \in Int
      /\ AlarmTime(c, timeout).SubSeconds \in Int
  BY <1>1, TimeFields, Sizes
<1>3. AlarmDate(c, timeout) \in Int
  <2>1. AlarmDays(c, timeout) \in Int
    BY AlarmDaysOf
  <2>2. DaysInMonth(c.Year, c.Month) \in Nat \ {0}
    BY DaysOf, MonthSizes
  <2> QED BY <2>1, <2>2 DEF AlarmDate
<1>4. AlarmAt(c, timeout) =
        [Date |-> AlarmDate(c, timeout), Hours |-> AlarmTime(c, timeout).Hours,
         Minutes |-> AlarmTime(c, timeout).Minutes, Seconds |-> AlarmTime(c, timeout).Seconds,
         SubSeconds |-> AlarmTime(c, timeout).SubSeconds]
  BY DEF AlarmAt, AlarmTime
<1>5. /\ AlarmAt(c, timeout)["Date"] \in Int
      /\ AlarmAt(c, timeout)["Hours"] \in Int
      /\ AlarmAt(c, timeout)["Minutes"] \in Int
      /\ AlarmAt(c, timeout)["Seconds"] \in Int
      /\ AlarmAt(c, timeout)["SubSeconds"] \in Int
  BY <1>2, <1>3, <1>4
<1>6. /\ DOMAIN AlarmAt(c, timeout) = {"Date", "Hours", "Minutes", "Seconds", "SubSeconds"}
      /\ AlarmAt(c, timeout) = [f \in DOMAIN AlarmAt(c, timeout) |-> AlarmAt(c, timeout)[f]]
  BY DEF AlarmAt
<1> QED BY <1>5, <1>6 DEF AlarmRecords

(* An alarm that is asked for too late is one that the calendar has shown.  *)
LEMMA AlarmSet ==
  ASSUME NEW c \in Calendars, NEW timeout \in Nat, timeout < 27 * TicksPerDay,
         NEW x \in Calendars, NEW n \in Int, CalendarValue(c) <= CalendarValue(x),
         CalendarValue(c) + timeout = CalendarValue(x) + n,
         n <= 0 => \E a \in Calendars : CalendarValue(a) = CalendarValue(x) + n
  PROVE  \/ n > 0
         \/ /\ AlarmAt(c, timeout) \in AlarmRecords
            /\ \E a \in Calendars :
                 /\ CalendarValue(a) = CalendarValue(x) + n
                 /\ Matches(AlarmAt(c, timeout), a)
<1> SUFFICES ASSUME n <= 0
             PROVE  \E a \in Calendars :
                      /\ CalendarValue(a) = CalendarValue(x) + n
                      /\ Matches(AlarmAt(c, timeout), a)
  BY AlarmFields
<1>1. PICK a \in Calendars : CalendarValue(a) = CalendarValue(x) + n
  OBVIOUS
<1>2. CalendarValue(a) \in Nat /\ CalendarValue(c) \in Nat
  BY TimeFields
<1>3. CalendarValue(a) = CalendarValue(c) + timeout /\ CalendarValue(c) <= CalendarValue(a)
  BY <1>1, <1>2
<1>4. Matches(AlarmAt(c, timeout), a)
  BY <1>2, <1>3, AlarmAhead
<1> QED BY <1>1, <1>4
===============================================================================
