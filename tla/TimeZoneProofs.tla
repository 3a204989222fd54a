--------------------------- MODULE TimeZoneProofs ---------------------------
(***************************************************************************)
(* What holds of the calendar and of the time zones for every instant,     *)
(* every length of the day and every zone.                                 *)
(*                                                                         *)
(*   UtcTimes      BreakTime() follows the calendar, day after day, and    *)
(*                 FromUtcTime() undoes it.                                *)
(*   LocalTimes    a local time that is on the clocks is taken for an      *)
(*                 instant at which it is.                                 *)
(*   Preferences   of a skipped or repeated local time the instant is      *)
(*                 taken that postTransition asks for.                     *)
(*                                                                         *)
(* The last two are about zones whose transitions are far enough apart     *)
(* (WellFormed).  That a file gives the zone that was written to it is the *)
(* property LoadedAsWritten, which is left to TLC: what the folds over the *)
(* bytes yield takes an induction over their number.                       *)
(***************************************************************************)
EXTENDS TimeZone, SequenceTheorems, FiniteSetTheorems, WellFoundedInduction, TLAPS

-----------------------------------------------------------------------------
(* Days.  A day has, with the letters of getYearMonthDay(), a century b, a *)
(* year d of the century and a day e of the year, which begins in March.   *)

IsDay(b, d, e) ==
  /\ b \in Int /\ d \in 0..99 /\ e \in 0..365
  /\ e = 365 => d % 4 = 3 /\ (d = 99 => b % 4 = 3)

\* The number of a day, counted from the March of -4800.
NumberOf(b, d, e) == 36524 * b + b \div 4 + 365 * d + d \div 4 + e

\* The month of a day of the year, and the first day of a month.
MonthOf(e) == (5 * e + 2) \div 153
FirstOf(m) == (153 * m + 2) \div 5

DateOf(b, d, e) ==
  [day   |-> e - FirstOf(MonthOf(e)) + 1,
   month |-> MonthOf(e) + 3 - 12 * (MonthOf(e) \div 10),
   year  |-> 100 * b + d - 4800 + MonthOf(e) \div 10]

\* Division by four.
LEMMA QuotientBy4 ==
  ASSUME NEW n \in Int
  PROVE  \E q \in Int, s \in 0..3 : n = 4 * q + s /\ n \div 4 = q /\ n % 4 = s
<1>1. n = 4 * (n \div 4) + (n % 4) /\ n \div 4 \in Int /\ (n % 4) \in 0..3  BY SMT
<1> QED  BY <1>1

\* A century has 36524 days and a quarter.
LEMMA DaysOfCenturies ==
  ASSUME NEW b \in Int
  PROVE  (b * 146097) \div 4 = 36524 * b + b \div 4
  BY SMT

\* A year has 365 days and a quarter.
LEMMA DaysOfYears ==
  ASSUME NEW d \in Int
  PROVE  (1461 * d) \div 4 = 365 * d + d \div 4
  BY SMT

\* The century that Century() finds is the one that the day is in: less than
\* 36524 days of it have passed, or just as many in every fourth one.
LEMMA DayOfCentury ==
  ASSUME NEW a \in Int, NEW b \in Int, b = (4 * a + 3) \div 146097,
         NEW c \in Int, c = a - (36524 * b + b \div 4)
  PROVE  0 <= c /\ c <= 36524 /\ (c = 36524 => b % 4 = 3)
<1>1. 146097 * b <= 4 * a + 3 /\ 4 * a + 3 <= 146097 * b + 146096
  BY SMT
<1>2. PICK q \in Int, s \in 0..3 : b = 4 * q + s /\ b \div 4 = q /\ b % 4 = s
  BY QuotientBy4
<1>3. 4 * c = 4 * a - 146096 * b - 4 * q  BY <1>2, SMT
<1>4. s <= 4 * c + 3 /\ 4 * c + 3 <= 146096 + s
  BY <1>1, <1>2, <1>3, SMT
<1>5. 0 <= c /\ c <= 36524 /\ (c = 36524 => s = 3)  BY <1>4, SMT
<1> QED  BY <1>2, <1>5, SMT

\* The same of the year.
LEMMA YearOfCentury ==
  ASSUME NEW c \in Int, 0 <= c, c <= 36524, NEW d \in Int, d = (4 * c + 3) \div 1461,
         NEW e \in Int, e = c - (365 * d + d \div 4)
  PROVE  /\ d \in 0..99 /\ e \in 0..365
         /\ e = 365 => d % 4 = 3
         /\ d = 99 /\ e = 365 => c = 36524
<1>1. 1461 * d <= 4 * c + 3 /\ 4 * c + 3 <= 1461 * d + 1460
  BY SMT
<1>2. PICK q \in Int, s \in 0..3 : d = 4 * q + s /\ d \div 4 = q /\ d % 4 = s
  BY QuotientBy4
<1>3. 4 * e = 4 * c - 1460 * d - 4 * q  BY <1>2, SMT
<1>4. s <= 4 * e + 3 /\ 4 * e + 3 <= 1460 + s
  BY <1>1, <1>2, <1>3, SMT
<1>5. e \in 0..365 /\ (e = 365 => s = 3)  BY <1>4, SMT
<1>6. d \in 0..99  BY <1>1, SMT
<1>7. d = 99 => q = 24  BY <1>2, SMT
<1>8. d = 99 /\ e = 365 => c = 36524  BY <1>3, <1>7, SMT
<1> QED  BY <1>2, <1>5, <1>6, <1>8, SMT

\* Every day of a century is counted to it.
LEMMA CenturyOfDay ==
  ASSUME NEW b \in Int, NEW c \in Int, 0 <= c, c <= 36524, c = 36524 => b % 4 = 3
  PROVE  (4 * (36524 * b + b \div 4 + c) + 3) \div 146097 = b
  BY SMT

\* Every day of a year is counted to it.
LEMMA YearOfDay ==
  ASSUME NEW d \in 0..99, NEW e \in 0..365, e = 365 => d % 4 = 3
  PROVE  (4 * (365 * d + d \div 4 + e) + 3) \div 1461 = d
  BY SMT

\* Every number is the number of a day.
LEMMA EveryNumberIsOfADay ==
  ASSUME NEW a \in Int
  PROVE  \E b, d, e : IsDay(b, d, e) /\ a = NumberOf(b, d, e)
<1>1. PICK b \in Int : b = (4 * a + 3) \div 146097  BY SMT
<1>2. PICK c \in Int : c = a - (36524 * b + b \div 4)  BY SMT
<1>3. 0 <= c /\ c <= 36524 /\ (c = 36524 => b % 4 = 3)  BY <1>1, <1>2, DayOfCentury, SMT
<1>4. PICK d \in Int : d = (4 * c + 3) \div 1461  BY <1>3, SMT
<1>5. PICK e \in Int : e = c - (365 * d + d \div 4)  BY <1>3, SMT
<1>6. d \in 0..99 /\ e \in 0..365 /\ (e = 365 => d % 4 = 3) /\ (d = 99 /\ e = 365 => c = 36524)
  BY <1>3, <1>4, <1>5, YearOfCentury, SMT
<1>7. IsDay(b, d, e)  BY <1>3, <1>6, SMT DEF IsDay
<1>8. a = NumberOf(b, d, e)  BY <1>2, <1>5, SMT DEF NumberOf
<1> QED  BY <1>7, <1>8

\* getYearMonthDay() gives the date of the day that has the number.
LEMMA DateOfDay ==
  ASSUME NEW b, NEW d, NEW e, IsDay(b, d, e)
  PROVE  YearMonthDay(NumberOf(b, d, e) - 32044) = DateOf(b, d, e)
<1>1. b \in Int /\ d \in 0..99 /\ e \in 0..365  BY DEF IsDay
<1>2. PICK c \in Int : c = 365 * d + d \div 4 + e  BY <1>1, SMT
<1>3. 0 <= c /\ c <= 36524 /\ (c = 36524 => b % 4 = 3)
  <2>1. d <= 98 => d \div 4 <= 24 /\ 365 * d + d \div 4 + 365 < 36524  BY <1>1, SMT
  <2>2. d = 99 => 365 * d + d \div 4 = 36159  BY SMT
  <2>3. 0 <= c /\ c <= 36524 /\ (c = 36524 => d = 99 /\ e = 365)
    BY <1>1, <1>2, <2>1, <2>2, SMT
  <2> QED  BY <2>3, SMT DEF IsDay
<1>4. PICK a \in Int : a = NumberOf(b, d, e) /\ a = 36524 * b + b \div 4 + c
  BY <1>1, <1>2, SMT DEF NumberOf
<1>5. Century(a) = b
  <2>1. (4 * (36524 * b + b \div 4 + c) + 3) \div 146097 = b  BY <1>1, <1>3, CenturyOfDay
  <2>2. Century(a) = (4 * a + 3) \div 146097  BY DEF Century
  <2> QED  BY <1>4, <2>1, <2>2, SMT
<1>6. a - (b * 146097) \div 4 = c  BY <1>1, <1>4, DaysOfCenturies, SMT
<1>7. (4 * c + 3) \div 1461 = d  BY <1>1, <1>2, YearOfDay, SMT DEF IsDay
<1>8. c - (1461 * d) \div 4 = e  BY <1>1, <1>2, DaysOfYears, SMT
<1>9. a - 32044 + 32044 = a  BY SMT
<1>10. YearMonthDay(a - 32044) =
         LET m == (5 * e + 2) \div 153
         IN  [day   |-> e - (153 * m + 2) \div 5 + 1,
              month |-> m + 3 - 12 * (m \div 10),
              year  |-> b * 100 + d - 4800 + m \div 10]
  BY <1>5, <1>6, <1>7, <1>8, <1>9 DEF YearMonthDay
<1>11. b * 100 = 100 * b  BY <1>1, SMT
<1> QED  BY <1>4, <1>10, <1>11 DEF DateOf, MonthOf, FirstOf

\* A day of the year is in its month.
LEMMA MonthFound ==
  ASSUME NEW e \in 0..365
  PROVE  /\ MonthOf(e) \in 0..11
         /\ FirstOf(MonthOf(e)) <= e
         /\ MonthOf(e) # 11 => e < FirstOf(MonthOf(e) + 1)
  BY SMT DEF FirstOf, MonthOf

\* A day of the year is in no other month.
LEMMA MonthIs ==
  ASSUME NEW e \in 0..365, NEW m \in 0..11,
         FirstOf(m) <= e, m # 11 => e < FirstOf(m + 1)
  PROVE  MonthOf(e) = m
  BY SMT DEF FirstOf, MonthOf

\* February is the last month: it is longer in the years of 366 days.
LEMMA LeapYears ==
  ASSUME NEW b \in Int, NEW d \in 0..99
  PROVE  IsLeap(100 * b + d + 1 - 4800) <=> d % 4 = 3 /\ (d = 99 => b % 4 = 3)
<1> DEFINE year == 100 * b + d + 1 - 4800
<1>1. year % 4 = 0 <=> d % 4 = 3  BY SMT
<1>2. year % 100 = 0 <=> d = 99  BY SMT
<1>3. d = 99 => (year % 400 = 0 <=> b % 4 = 3)
  <2>1. PICK q \in Int, s \in 0..3 : b = 4 * q + s /\ b \div 4 = q /\ b % 4 = s
    BY QuotientBy4
  <2>2. d = 99 => year = 400 * (q - 12) + 100 * (s + 1)  BY <2>1, SMT
  <2>3. d = 99 => (year % 400 = 0 <=> s = 3)  BY <2>2, SMT
  <2> QED  BY <2>1, <2>3, SMT
<1>4. year % 4 = 0 /\ (year % 100 # 0 \/ year % 400 = 0) <=> d % 4 = 3 /\ (d = 99 => b % 4 = 3)
  BY <1>1, <1>2, <1>3, SMT
<1> QED  BY <1>4, Zenon DEF IsLeap

\* The other months have the length that the calendar gives them.
LEMMA LengthOfMonth ==
  ASSUME NEW m \in 0..10, NEW y
  PROVE  DaysIn(y, m + 3 - 12 * (m \div 10)) = FirstOf(m + 1) - FirstOf(m)
  BY SMT DEF DaysIn, FirstOf

\* getJulianDayNumber(), with its local variables y and m.
LEMMA JulianDayNumberIs ==
  ASSUME NEW year \in Int, NEW month \in Int, NEW day \in Int,
         NEW y \in Int, y = year + 4800 - (14 - month) \div 12,
         NEW m \in Int, m = month + 12 * ((14 - month) \div 12) - 3
  PROVE  JulianDayNumber(year, month, day) =
           day + FirstOf(m) + y * 365 + y \div 4 - y \div 100 + y \div 400 - 32045
  BY SMT DEF JulianDayNumber, FirstOf

\* getJulianDayNumber() of the date of a day is the number of the day.
LEMMA JulianDayOfDate ==
  ASSUME NEW b, NEW d, NEW e, IsDay(b, d, e)
  PROVE  LET date == DateOf(b, d, e)
         IN  JulianDayNumber(date.year, date.month, date.day) = NumberOf(b, d, e) - 32044
<1> DEFINE m == MonthOf(e)
           f == FirstOf(m)
           y == 100 * b + d
           year == 100 * b + d - 4800 + m \div 10
           month == m + 3 - 12 * (m \div 10)
<1>1. m \in 0..11  BY MonthFound DEF IsDay
<1>2. (14 - (m + 3 - 12 * (m \div 10))) \div 12 = m \div 10  BY <1>1, SMT
<1>3. FirstOf(m) \in Int  BY <1>1, SMT DEF FirstOf
<1>4. y \in Int  BY DEF IsDay
<1>5. y \div 4 = 25 * b + d \div 4  BY SMT DEF IsDay
<1>6. y \div 100 = b  BY SMT DEF IsDay
<1>7. y \div 400 = b \div 4  BY SMT DEF IsDay
<1>8. JulianDayNumber(year, month, e - f + 1)
        = e - f + 1 + FirstOf(m) + y * 365 + y \div 4 - y \div 100 + y \div 400 - 32045
  <2>1. y = year + 4800 - (14 - month) \div 12  BY <1>1, <1>2, SMT DEF IsDay
  <2>2. m = month + 12 * ((14 - month) \div 12) - 3  BY <1>1, <1>2, SMT
  <2>3. year \in Int /\ month \in Int /\ e - f + 1 \in Int /\ m \in Int
    BY <1>1, <1>3, SMT DEF IsDay
  <2> HIDE DEF m, y, f, year, month
  <2>. DEFINE day == e - f + 1
  <2>. day \in Int  BY <2>3
  <2>. HIDE DEF day
  <2>4. JulianDayNumber(year, month, day)
          = day + FirstOf(m) + y * 365 + y \div 4 - y \div 100 + y \div 400 - 32045
    BY <1>4, <2>1, <2>2, <2>3, JulianDayNumberIs
  <2> QED  BY <2>4 DEF day
<1>9. e - f + 1 + FirstOf(m) + y * 365 + y \div 4 - y \div 100 + y \div 400 - 32045
        = NumberOf(b, d, e) - 32044
  <2>. f \in Int /\ FirstOf(m) = f  BY <1>3
  <2> HIDE DEF f
  <2> QED  BY <1>5, <1>6, <1>7, SMT DEF NumberOf, IsDay
<1>10. /\ DateOf(b, d, e).year = year
       /\ DateOf(b, d, e).month = month /\ DateOf(b, d, e).day = e - f + 1
  BY SMT DEF DateOf
<1> HIDE DEF year, month, f
<1> QED  BY <1>8, <1>9, <1>10, SMT

\* The date of a day of a given month.
LEMMA DateIs ==
  ASSUME NEW b, NEW d, NEW e, NEW m, MonthOf(e) = m
  PROVE  DateOf(b, d, e) = [day |-> e - FirstOf(m) + 1, month |-> m + 3 - 12 * (m \div 10),
                            year |-> 100 * b + d - 4800 + m \div 10]
  BY DEF DateOf

\* NextDay() without EXCEPT.
LEMMA NextDayIs ==
  ASSUME NEW day \in Int, NEW month \in Int, NEW year \in Int
  PROVE  NextDay([day |-> day, month |-> month, year |-> year]) =
           IF day < DaysIn(year, month) THEN [day |-> day + 1, month |-> month, year |-> year]
           ELSE IF month < 12 THEN [day |-> 1, month |-> month + 1, year |-> year]
           ELSE [day |-> 1, month |-> 1, year |-> year + 1]
<1> DEFINE date == [day |-> day, month |-> month, year |-> year]
<1>1. /\ date.day = day /\ date.month = month /\ date.year = year
      /\ [year |-> year + 1, month |-> 1, day |-> 1] = [day |-> 1, month |-> 1, year |-> year + 1]
  BY SMT
<1>2. [date EXCEPT !.day = @ + 1] = [day |-> day + 1, month |-> month, year |-> year]
  BY SMT
<1>3. [date EXCEPT !.month = @ + 1, !.day = 1] = [day |-> 1, month |-> month + 1, year |-> year]
  <2>1. [date EXCEPT !.month = @ + 1, !.day = 1] = [[date EXCEPT !.month = @ + 1] EXCEPT !.day = 1]
   BY SMT
  <2>2. [date EXCEPT !.month = @ + 1] = [day |-> day, month |-> month + 1, year |-> year]
   BY SMT
  <2>3. [[day |-> day, month |-> month + 1, year |-> year] EXCEPT !.day = 1]
          = [day |-> 1, month |-> month + 1, year |-> year]
   BY SMT
  <2> QED  BY <2>1, <2>2, <2>3
<1> HIDE DEF date
<1>4. NextDay(date) = IF date.day < DaysIn(date.year, date.month) THEN [date EXCEPT !.day = @ + 1]
                      ELSE IF date.month < 12 THEN [date EXCEPT !.month = @ + 1, !.day = 1]
                      ELSE [year |-> date.year + 1, month |-> 1, day |-> 1]
  BY DEF NextDay
<1>5. NextDay(date) =
        IF day < DaysIn(year, month) THEN [day |-> day + 1, month |-> month, year |-> year]
           ELSE IF month < 12 THEN [day |-> 1, month |-> month + 1, year |-> year]
           ELSE [day |-> 1, month |-> 1, year |-> year + 1]
  BY <1>1, <1>2, <1>3, <1>4
<1> QED  BY <1>5 DEF date

\* The date of the next day is the next date: in the same month, in the next
\* month of the year, or in March, in the next year or century.
LEMMA NextDayFollows ==
  ASSUME NEW b, NEW d, NEW e, IsDay(b, d, e)
  PROVE  \E b2, d2, e2 : /\ IsDay(b2, d2, e2)
                         /\ NumberOf(b2, d2, e2) = NumberOf(b, d, e) + 1
                         /\ DateOf(b2, d2, e2) = NextDay(DateOf(b, d, e))
<1> DEFINE m == MonthOf(e)
           f == FirstOf(m)
           year == 100 * b + d - 4800 + m \div 10
           month == m + 3 - 12 * (m \div 10)
<1>1. /\ m \in 0..11 /\ f <= e /\ (m # 11 => e < FirstOf(m + 1))
      /\ b \in Int /\ d \in 0..99 /\ e \in 0..365
  BY MonthFound DEF IsDay
<1>2. DateOf(b, d, e) = [day |-> e - f + 1, month |-> month, year |-> year]
  BY Zenon DEF DateOf
<1>3. /\ m # 11 => DaysIn(year, month) = FirstOf(m + 1) - f
      /\ m = 11 => DaysIn(year, month) = IF IsLeap(year) THEN 29 ELSE 28
  <2>1. CASE m # 11  BY <1>1, <2>1, LengthOfMonth, SMT
  <2>2. CASE m = 11
    <3>1. month = 2  BY <2>2, SMT
    <3> QED  BY <2>2, <3>1, Zenon DEF DaysIn
  <2> QED  BY <2>1, <2>2
<1>4. m = 11 => f = 337 /\ month = 2  BY SMT DEF FirstOf
<1>5. m = 11 => (IsLeap(year) <=> d % 4 = 3 /\ (d = 99 => b % 4 = 3))
  <2>1. m = 11 => year = 100 * b + d + 1 - 4800  BY <1>1, SMT
  <2>2. m = 11 => (IsLeap(100 * b + d + 1 - 4800) <=> d % 4 = 3 /\ (d = 99 => b % 4 = 3))
    BY <1>1, LeapYears
  <2> HIDE DEF m, year
  <2> QED  BY <2>1, <2>2
<1>6. f \in Int /\ month \in Int /\ year \in Int  BY <1>1, SMT DEF FirstOf
<1>7. NextDay(DateOf(b, d, e)) =
        IF e - f + 1 < DaysIn(year, month)
        THEN [day |-> e - f + 1 + 1, month |-> month, year |-> year]
        ELSE IF month < 12 THEN [day |-> 1, month |-> month + 1, year |-> year]
        ELSE [day |-> 1, month |-> 1, year |-> year + 1]
  <2> e - f + 1 \in Int  BY <1>1, <1>6, SMT
  <2> HIDE DEF m, f, year, month
  <2> QED  BY <1>2, <1>6, NextDayIs
<1>8. CASE m # 11 /\ e + 1 = FirstOf(m + 1)
  <2>1. m + 1 \in 0..11 /\ e + 1 \in 0..364  BY <1>1, <1>8, SMT DEF FirstOf
  <2>2. m + 1 # 11 => e + 1 < FirstOf(m + 1 + 1)  BY <1>1, <1>8, SMT DEF FirstOf
  <2>3. MonthOf(e + 1) = m + 1
    <3>1. FirstOf(m + 1) <= e + 1  BY <1>1, <1>8, SMT
    <3> DEFINE m1 == m + 1
               e1 == e + 1
    <3>2. /\ m1 \in 0..11 /\ e1 \in 0..365 /\ FirstOf(m1) <= e1
          /\ m1 # 11 => e1 < FirstOf(m1 + 1)
      BY <2>1, <2>2, <3>1, SMT
    <3> HIDE DEF m1, e1
    <3>3. MonthOf(e1) = m1  BY <3>2, MonthIs
    <3> QED  BY <3>3 DEF m1, e1
  <2>4. IsDay(b, d, e + 1)  BY <1>1, <2>1, SMT DEF IsDay
  <2>5. NumberOf(b, d, e + 1) = NumberOf(b, d, e) + 1  BY <1>1, SMT DEF NumberOf
  <2>6. DateOf(b, d, e + 1) = [day |-> 1, month |-> m + 4 - 12 * ((m + 1) \div 10),
                               year |-> 100 * b + d - 4800 + (m + 1) \div 10]
    <3>1. e + 1 - FirstOf(m + 1) + 1 = 1  BY <1>1, <1>8, SMT
    <3> QED  BY <1>1, <1>8, <2>3, <3>1, SMT DEF DateOf
  <2>7. ~(e - f + 1 < DaysIn(year, month))  BY <1>1, <1>3, <1>6, <1>8, SMT
  <2>8. month < 12 => m + 4 - 12 * ((m + 1) \div 10) = month + 1 /\ (m + 1) \div 10 = m \div 10
    BY <1>1, <1>8, SMT
  <2>9. ~(month < 12) => m + 4 - 12 * ((m + 1) \div 10) = 1 /\ (m + 1) \div 10 = m \div 10 + 1
    BY <1>1, <1>8, SMT
  <2>10. NextDay(DateOf(b, d, e)) = DateOf(b, d, e + 1)
    <3>1. m + 4 - 12 * ((m + 1) \div 10) = month + 1 => 100 * b + d - 4800 + (m + 1) \div 10 = year
      BY <1>1, <1>8, SMT
    <3>2. CASE month < 12
      <4> HIDE DEF f, m, year, month
      <4> QED  BY <1>7, <2>6, <2>7, <2>8, <3>1, <3>2, SMT
    <3>3. CASE ~(month < 12)
      <4>1. 100 * b + d - 4800 + (m + 1) \div 10 = year + 1  BY <1>1, <1>6, <2>9, <3>3, SMT
      <4> HIDE DEF f, m, year, month
      <4> QED  BY <1>7, <2>6, <2>7, <2>9, <3>3, <4>1, SMT
    <3> QED  BY <3>2, <3>3
  <2> QED  BY <2>4, <2>5, <2>10
<1>9. CASE /\ m # 11 => e + 1 < FirstOf(m + 1)
           /\ m = 11 => IsDay(b, d, e + 1)
  <2>1. IsDay(b, d, e + 1)
    <3>1. m # 11 => e + 1 \in 0..364  BY <1>1, <1>9, SMT DEF FirstOf
    <3> QED  BY <1>1, <1>9, <3>1, SMT DEF IsDay
  <2>3. MonthOf(e + 1) = m
    <3>1. f <= e + 1 /\ e + 1 \in 0..365  BY <1>1, <1>6, <2>1, SMT DEF IsDay
    <3> HIDE DEF m
    <3> QED  BY <1>1, <1>9, <3>1, MonthIs, SMT
  <2>5. NumberOf(b, d, e + 1) = NumberOf(b, d, e) + 1  BY <1>1, SMT DEF NumberOf
  <2>6. DateOf(b, d, e + 1) = [day |-> e - f + 1 + 1, month |-> month, year |-> year]
    <3>1. e + 1 - f + 1 = e - f + 1 + 1  BY <1>1, <1>6, SMT
    <3>2. DateOf(b, d, e + 1) = [day |-> e + 1 - f + 1, month |-> month, year |-> year]
      <4> HIDE DEF m
      <4> QED  BY <1>1, <1>6, <2>3, DateIs
    <3> HIDE DEF f, month, year
    <3> QED  BY <3>1, <3>2, SMT
  <2>7. e - f + 1 < DaysIn(year, month)
    <3>1. CASE m # 11
      <4>1. DaysIn(year, month) = FirstOf(m + 1) - f /\ e + 1 < FirstOf(m + 1)  BY <1>3, <1>9, <3>1
      <4>2. FirstOf(m + 1) \in Int  BY <1>1, SMT DEF FirstOf
      <4> HIDE DEF f, m, year, month
      <4> QED  BY <1>1, <1>6, <4>1, <4>2, SMT
    <3>2. CASE m = 11
      <4>1. e - f + 1 <= 28 /\ (e - f + 1 = 28 => e = 364)  BY <1>1, <1>4, <2>1, <3>2, SMT DEF IsDay
      <4>2. e = 364 => IsLeap(year)  BY <1>5, <2>1, <3>2, SMT DEF IsDay
      <4> QED  BY <1>3, <1>1, <1>6, <3>2, <4>1, <4>2, SMT
    <3> QED  BY <3>1, <3>2
  <2>10. NextDay(DateOf(b, d, e)) = DateOf(b, d, e + 1)
    <3> HIDE DEF m, f, month, year
    <3> QED  BY <1>7, <2>6, <2>7, Zenon
  <2> QED  BY <2>1, <2>5, <2>10
<1>10. CASE m = 11 /\ ~IsDay(b, d, e + 1)
  <2>1. e = IF d % 4 = 3 /\ (d = 99 => b % 4 = 3) THEN 365 ELSE 364
    BY <1>1, <1>10, <1>4, SMT DEF IsDay
  <2>2. ~(e - f + 1 < DaysIn(year, month))
    BY <1>1, <1>3, <1>4, <1>5, <1>10, <2>1, SMT
  <2>3. NextDay(DateOf(b, d, e)) = [day |-> 1, month |-> 3, year |-> 100 * b + d + 1 - 4800]
    <3>1. year = 100 * b + d + 1 - 4800 /\ month = 2  BY <1>1, <1>10, SMT
    <3> HIDE DEF m, f, month, year
    <3>2. NextDay(DateOf(b, d, e)) = [day |-> 1, month |-> 3, year |-> year]
      <4>1. month < 12 /\ month + 1 = 3  BY <3>1, SMT
      <4> QED  BY <1>7, <2>2, <4>1, Zenon
    <3> QED  BY <3>1, <3>2, SMT
  <2>4. MonthOf(0) = 0 /\ FirstOf(0) = 0  BY SMT DEF MonthOf, FirstOf
  <2>5. ASSUME NEW b2 \in Int, NEW d2 \in Int
        PROVE  DateOf(b2, d2, 0) = [day |-> 1, month |-> 3, year |-> 100 * b2 + d2 - 4800]
    BY <2>4, SMT DEF DateOf
  <2>6. CASE d # 99
    <3>1. IsDay(b, d + 1, 0)  BY <1>1, <2>6, SMT DEF IsDay
    <3>2. NumberOf(b, d + 1, 0) = NumberOf(b, d, e) + 1
      <4>1. 365 * (d + 1) + (d + 1) \div 4 = 365 * d + d \div 4 + e + 1  BY <1>1, <2>1, <2>6, SMT
      <4> QED  BY <1>1, <4>1, SMT DEF NumberOf
    <3>3. DateOf(b, d + 1, 0) = NextDay(DateOf(b, d, e))
      <4>1. 100 * b + d + 1 - 4800 = 100 * b + (d + 1) - 4800  BY <1>1, SMT
      <4> QED  BY <1>1, <2>3, <2>5, <4>1, SMT
    <3> QED  BY <3>1, <3>2, <3>3
  <2>7. CASE d = 99
    <3>1. IsDay(b + 1, 0, 0)  BY <1>1, SMT DEF IsDay
    <3>2. NumberOf(b + 1, 0, 0) = NumberOf(b, d, e) + 1
      BY <1>1, <2>1, <2>7, SMT DEF NumberOf
    <3>3. DateOf(b + 1, 0, 0) = NextDay(DateOf(b, d, e))
      BY <1>1, <2>3, <2>5, <2>7, SMT
    <3> QED  BY <3>1, <3>2, <3>3
  <2> QED  BY <2>6, <2>7
<1> QED
  <2>1. m # 11 => e + 1 < FirstOf(m + 1) \/ e + 1 = FirstOf(m + 1)
    BY <1>1, SMT DEF FirstOf
  <2> QED  BY <1>8, <1>9, <1>10, <2>1

\* getYearMonthDay() goes from date to date as the calendar does, and
\* getJulianDayNumber() undoes it.
LEMMA CalendarFollows ==
  ASSUME NEW j \in Int, NEW date, date = YearMonthDay(j)
  PROVE  /\ JulianDayNumber(date.year, date.month, date.day) = j
         /\ YearMonthDay(j + 1) = NextDay(date)
<1>1. PICK a \in Int : a = j + 32044  BY SMT
<1>2. PICK b, d, e : IsDay(b, d, e) /\ a = NumberOf(b, d, e)  BY EveryNumberIsOfADay
<1>3. a - 32044 = j /\ (a + 1) - 32044 = j + 1  BY <1>1, SMT
<1>4. date = DateOf(b, d, e)  BY <1>2, <1>3, DateOfDay
<1>5. PICK b2, d2, e2 :
        /\ IsDay(b2, d2, e2)
        /\ NumberOf(b2, d2, e2) = NumberOf(b, d, e) + 1
        /\ DateOf(b2, d2, e2) = NextDay(DateOf(b, d, e))
  BY <1>2, NextDayFollows
<1>6. YearMonthDay(j + 1) = DateOf(b2, d2, e2)
  BY <1>2, <1>3, <1>5, DateOfDay
<1>7. JulianDayNumber(date.year, date.month, date.day) = a - 32044
  BY <1>2, <1>4, JulianDayOfDate
<1> QED  BY <1>3, <1>4, <1>5, <1>6, <1>7

\* Seconds are counted from 1970-01-01, whose number is 2440588.
LEMMA Epoch ==
  /\ JulianDayOf1970_01_01 = 2440588
  /\ YearMonthDay(JulianDayOf1970_01_01) = [year |-> 1970, month |-> 1, day |-> 1]
<1>1. JulianDayNumber(1970, 1, 1) = 2440588
  BY SMT DEF JulianDayNumber
<1>2. IsDay(67, 69, 306) /\ NumberOf(67, 69, 306) - 32044 = 2440588
  BY SMT DEF IsDay, NumberOf
<1>3. DateOf(67, 69, 306) = [year |-> 1970, month |-> 1, day |-> 1]
  BY SMT DEF DateOf, MonthOf, FirstOf
<1>4. YearMonthDay(2440588) = DateOf(67, 69, 306)
  BY <1>2, DateOfDay, SMT
<1> QED  BY <1>1, <1>3, <1>4, SMT DEF JulianDayOf1970_01_01

-----------------------------------------------------------------------------
(* UTC. *)

\* Division by any positive number.
LEMMA DivIs ==
  ASSUME NEW n \in Nat \ {0}, NEW x \in Nat
  PROVE  \E k \in Nat, r \in 0..(n - 1) : x = n * k + r /\ x \div n = k
<1>1. x \div n \in Nat /\ x % n \in 0..(n - 1) /\ x = n * (x \div n) + (x % n)
  BY SMT
<1> QED  BY <1>1

\* BreakTime() gives the day and the second that the instant is made of, also
\* before 1970, where the remainder of C++ is not positive.
LEMMA BreakTimeIs ==
  ASSUME NEW t \in Int, SecondsPerDay \in Nat \ {0}
  PROVE  \E days \in Int, s \in 0..(SecondsPerDay - 1) :
           t = SecondsPerDay * days + s /\ BreakTime(t) = DateTime(days, s)
<1> DEFINE n == SecondsPerDay
<1>1. CASE t >= 0
  <2>1. PICK k \in Nat, r \in 0..(n - 1) : t = n * k + r /\ t \div n = k
    BY <1>1, DivIs
  <2>2. Quotient(t, n) = k /\ Remainder(t, n) = r
    BY <1>1, <2>1, SMT DEF Quotient, Remainder
  <2>3. BreakTime(t) = DateTime(k, r)
    BY <2>1, <2>2 DEF BreakTime
  <2> QED  BY <2>1, <2>3
<1>2. CASE t < 0
  <2>1. PICK k \in Nat, r \in 0..(n - 1) : -t = n * k + r /\ (-t) \div n = k
    <3>1. -t \in Nat  BY <1>2
    <3> QED  BY <3>1, DivIs
  <2>2. Quotient(t, n) = -k
    BY <1>2, <2>1, SMT DEF Quotient
  <2>3. n * (-k) = -(n * k) /\ n * (-k - 1) = -(n * k) - n /\ n * k \in Int
    BY SMT
  <2>4. Remainder(t, n) = -r
    BY <2>1, <2>2, <2>3, SMT DEF Remainder
  <2>5. CASE r = 0
    <3>1. BreakTime(t) = DateTime(-k, 0)
      BY <2>2, <2>4, <2>5 DEF BreakTime
    <3>2. t = n * (-k) + 0  BY <2>1, <2>3, <2>5
    <3> QED  BY <3>1, <3>2
  <2>6. CASE r # 0
    <3>1. BreakTime(t) = DateTime(-k - 1, -r + n)
      BY <2>1, <2>2, <2>4, <2>6 DEF BreakTime
    <3>2. t = n * (-k - 1) + (-r + n) /\ -r + n \in 0..(n - 1)  BY <2>1, <2>3, <2>6
    <3> QED  BY <3>1, <3>2
  <2> QED  BY <2>5, <2>6
<1> QED  BY <1>1, <1>2

\* An instant is made of one day and second only.
LEMMA OneDay ==
  ASSUME NEW n \in Nat \ {0}, NEW k \in Int, NEW l \in Int,
         NEW r \in 0..(n - 1), NEW s \in 0..(n - 1),
         n * k + r = n * l + s
  PROVE  k = l /\ r = s
<1>1. n * (k - l) = s - r /\ k - l \in Int  BY SMT
<1> DEFINE i == k - l
<1>2. i \in Int /\ n * i = s - r  BY <1>1
<1> HIDE DEF i
<1>3. ~(i >= 1)
  <2>1. i >= 1 => n * i >= n  BY <1>2, SMT
  <2> QED  BY <1>2, <2>1
<1>4. ~(i <= -1)
  <2>1. i <= -1 => n * i <= -n  BY <1>2, SMT
  <2> QED  BY <1>2, <2>1
<1>5. i = 0  BY <1>2, <1>3, <1>4
<1>6. n * 0 = 0  OBVIOUS
<1> QED  BY <1>1, <1>2, <1>5, <1>6 DEF i

\* BreakTime() of a day and a second.
LEMMA BreakTimeOf ==
  ASSUME SecondsPerDay \in Nat \ {0}, NEW days \in Int, NEW s \in 0..(SecondsPerDay - 1)
  PROVE  BreakTime(SecondsPerDay * days + s) = DateTime(days, s)
<1> DEFINE n == SecondsPerDay
<1>1. n * days + s \in Int  BY SMT
<1>2. PICK l \in Int, r \in 0..(n - 1) :
        n * days + s = n * l + r /\ BreakTime(n * days + s) = DateTime(l, r)
  BY <1>1, BreakTimeIs
<1>3. l = days /\ r = s  BY <1>2, OneDay
<1> QED  BY <1>2, <1>3

\* FromUtcTime() undoes BreakTime().
LEMMA FromUtcTimeUndoes ==
  ASSUME SecondsPerDay \in Nat \ {0}, NEW t \in Int
  PROVE  FromUtcTime(BreakTime(t)) = t
<1> DEFINE n == SecondsPerDay
<1>1. PICK k \in Int, s \in 0..(n - 1) : t = n * k + s /\ BreakTime(t) = DateTime(k, s)
  BY BreakTimeIs
<1>2. PICK date : date = YearMonthDay(k + JulianDayOf1970_01_01)  OBVIOUS
<1>3. JulianDayOf1970_01_01 \in Int  BY Epoch
<1>4. JulianDayNumber(date.year, date.month, date.day) = k + JulianDayOf1970_01_01
  BY <1>2, <1>3, CalendarFollows
<1>5. BreakTime(t).date = date /\ BreakTime(t).second = s
  BY <1>2, <1>1 DEF DateTime
<1>6. FromUtcTime(BreakTime(t)) =
        (JulianDayNumber(BreakTime(t).date.year, BreakTime(t).date.month, BreakTime(t).date.day)
           - JulianDayOf1970_01_01) * n + BreakTime(t).second
  BY DEF FromUtcTime
<1>7. /\ BreakTime(t).date.year = date.year /\ BreakTime(t).date.month = date.month
      /\ BreakTime(t).date.day = date.day
  BY <1>5
<1>8. FromUtcTime(BreakTime(t)) = (k + JulianDayOf1970_01_01 - JulianDayOf1970_01_01) * n + s
  <2>1. FromUtcTime(BreakTime(t)) =
          (JulianDayNumber(date.year, date.month, date.day) - JulianDayOf1970_01_01) * n
            + BreakTime(t).second
    BY <1>6, <1>7
  <2>2. JulianDayNumber(date.year, date.month, date.day) - JulianDayOf1970_01_01
          = k + JulianDayOf1970_01_01 - JulianDayOf1970_01_01
    BY <1>3, <1>4
  <2> QED  BY <1>5, <2>1, <2>2
<1>9. k + JulianDayOf1970_01_01 - JulianDayOf1970_01_01 = k  BY <1>3
<1>10. k * n = n * k  BY SMT
<1> QED  BY <1>1, <1>8, <1>9, <1>10

\* UtcTimesFollowCalendar of one instant.
LEMMA UtcFollows ==
  ASSUME SecondsPerDay \in Nat \ {0}, NEW t \in Int
  PROVE  /\ t = 0 => BreakTime(t) = [date |-> [year |-> 1970, month |-> 1, day |-> 1],
                                    second |-> 0]
         /\ BreakTime(t + 1) = NextSecond(BreakTime(t))
         /\ FromUtcTime(BreakTime(t)) = t
<1> DEFINE n == SecondsPerDay
<1>1. PICK k \in Int, s \in 0..(n - 1) : t = n * k + s /\ BreakTime(t) = DateTime(k, s)
  BY BreakTimeIs
<1>2. JulianDayOf1970_01_01 \in Int  BY Epoch
<1>3. BreakTime(t) = [date |-> YearMonthDay(k + JulianDayOf1970_01_01), second |-> s]
  BY <1>1 DEF DateTime
<1>4. BreakTime(t + 1) = NextSecond(BreakTime(t))
  <2>1. CASE s + 1 < n
    <3>1. t + 1 = n * k + (s + 1) /\ s + 1 \in 0..(n - 1)  BY <1>1, <2>1
    <3>2. BreakTime(t + 1) = DateTime(k, s + 1)  BY <3>1, BreakTimeOf
    <3>3. [[date |-> YearMonthDay(k + JulianDayOf1970_01_01), second |-> s] EXCEPT !.second = @ + 1]
           = DateTime(k, s + 1)
      BY DEF DateTime
    <3> QED  BY <1>3, <2>1, <3>2, <3>3 DEF NextSecond
  <2>2. CASE ~(s + 1 < n)
    <3>1. n * (k + 1) = n * k + n  BY SMT
    <3>2. t + 1 = n * (k + 1) + 0 /\ 0 \in 0..(n - 1)  BY <1>1, <2>2, <3>1
    <3>3. BreakTime(t + 1) = DateTime(k + 1, 0)  BY <3>2, BreakTimeOf
    <3>4. (k + 1) + JulianDayOf1970_01_01 = (k + JulianDayOf1970_01_01) + 1  BY <1>2
    <3>5. YearMonthDay((k + 1) + JulianDayOf1970_01_01)
            = NextDay(YearMonthDay(k + JulianDayOf1970_01_01))
      BY <1>2, <3>4, CalendarFollows
    <3> QED  BY <1>3, <2>2, <3>3, <3>5 DEF NextSecond, DateTime
  <2> QED  BY <2>1, <2>2
<1>5. t = 0 => BreakTime(t) = [date |-> [year |-> 1970, month |-> 1, day |-> 1], second |-> 0]
  <2>1. n * 0 + 0 = 0  OBVIOUS
  <2>2. BreakTime(0) = DateTime(0, 0)  BY <2>1, BreakTimeOf
  <2>3. 0 + JulianDayOf1970_01_01 = JulianDayOf1970_01_01  BY <1>2
  <2> QED  BY <2>2, <2>3, Epoch DEF DateTime
<1> QED  BY <1>4, <1>5, FromUtcTimeUndoes

-----------------------------------------------------------------------------
(* Sorted keys. *)

\* Every set of numbers has a least one.
LEMMA LeastNumber == ASSUME NEW T \in SUBSET Nat, T # {}
  PROVE  \E x \in T : \A y \in T : x <= y
<1>1. PICK x \in T : \A y \in T : ~(<<y, x>> \in OpToRel(<, Nat))
  BY WFMin, NatLessThanWellFounded
<1>2. \A y \in T : <<y, x>> \in OpToRel(<, Nat) <=> y < x
  BY DEF OpToRel
<1>3. \A y \in T : ~(y < x)  BY <1>1, <1>2, Zenon
<1>4. \A y \in T : x <= y  BY <1>3
<1> QED  BY <1>4

\* Keys that increase from one to the next increase altogether: take the least
\* position of which it is wrong.
LEMMA SortedIsMonotone ==
  ASSUME NEW keys, NEW n \in Nat,
         \A k \in 1..n : keys[k] \in Int,
         \A k \in 2..n : keys[k - 1] < keys[k]
  PROVE  \A i, j \in 1..n : i < j => keys[i] < keys[j]
<1> DEFINE Wrong == {j \in 1..n : \E i \in 1..n : i < j /\ ~(keys[i] < keys[j])}
<1> SUFFICES ASSUME Wrong # {} PROVE  FALSE
  <2>1. ASSUME Wrong = {}, NEW i \in 1..n, NEW j \in 1..n, i < j PROVE  keys[i] < keys[j]
    <3>1. j \notin Wrong  BY <2>1, Zenon
    <3> QED  BY <2>1, <3>1
  <2> QED  BY <2>1
<1>1. PICK j \in Wrong : \A y \in Wrong : j <= y
  <2>1. Wrong \in SUBSET Nat  OBVIOUS
  <2> HIDE DEF Wrong
  <2> QED  BY <2>1, LeastNumber
<1>2. PICK i \in 1..n : j \in 1..n /\ i < j /\ ~(keys[i] < keys[j])
  OBVIOUS
<1>3. j - 1 \in 1..n /\ j \in 2..n /\ j - 1 \notin Wrong
  BY <1>1, <1>2
<1>4. keys[i] < keys[j - 1] \/ i = j - 1
  BY <1>2, <1>3
<1> QED  BY <1>2, <1>3, <1>4

\* std::upper_bound() finds the position after the last key that is not larger.
LEMMA UpperBoundIs ==
  ASSUME NEW keys, NEW n \in Nat, DOMAIN keys = 1..n,
         \A k \in 1..n : keys[k] \in Int,
         \A k \in 2..n : keys[k - 1] < keys[k],
         NEW x \in Int, NEW m \in 0..n,
         m > 0 => keys[m] <= x, m < n => x < keys[m + 1]
  PROVE  UpperBound(keys, x) = m + 1
<1>1. \A i, j \in 1..n : i < j => keys[i] < keys[j]
  BY SortedIsMonotone
<1>2. {k \in DOMAIN keys : keys[k] <= x} = 1..m
  <2>1. ASSUME NEW k \in 1..n  PROVE  keys[k] <= x <=> k \in 1..m
    <3>1. CASE k <= m
      <4>1. keys[k] <= keys[m]  BY <1>1, <3>1
      <4> QED  BY <3>1, <4>1
    <3>2. CASE k > m
      <4>1. keys[m + 1] <= keys[k] /\ m + 1 \in 1..n  BY <1>1, <3>2
      <4> QED  BY <3>2, <4>1
    <3> QED  BY <3>1, <3>2
  <2>2. DOMAIN keys = 1..n /\ 1..m \subseteq 1..n  OBVIOUS
  <2> QED  BY <2>1, <2>2
<1>3. Cardinality(1..m) = m  BY FS_Interval, SMT
<1>4. Cardinality({k \in DOMAIN keys : keys[k] <= x}) = m
  BY <1>2, <1>3, Zenon
<1>5. UpperBound(keys, x) = 1 + m
  BY <1>4, Zenon DEF UpperBound
<1> QED  BY <1>5, SMT

\* There is such a position.
LEMMA UpperBoundExists ==
  ASSUME NEW keys, NEW n \in Nat,
         \A k \in 1..n : keys[k] \in Int, NEW x \in Int
  PROVE  \E m \in 0..n : (m > 0 => keys[m] <= x) /\ (m < n => x < keys[m + 1])
<1> DEFINE T == {k \in 1..(n + 1) : k = n + 1 \/ x < keys[k]}
<1>1. n + 1 \in T  OBVIOUS
<1>2. PICK k \in T : \A y \in T : k <= y
  <2>1. T \in SUBSET Nat /\ T # {}  BY <1>1
  <2> HIDE DEF T
  <2> QED  BY <2>1, LeastNumber
<1>3. k - 1 > 0 => keys[k - 1] <= x
  <2>1. k - 1 \notin T  BY <1>2
  <2> QED  BY <2>1
<1>4. k - 1 < n => x < keys[(k - 1) + 1]
  OBVIOUS
<1> QED  BY <1>3, <1>4

-----------------------------------------------------------------------------
(* Zones.  The offset of number k is that of transition k, and the one of  *)
(* number 0 rules before all transitions.                                  *)

Count(z) == Len(z.transitions)
Offsets(z) == {z.localtimes[i] : i \in DOMAIN z.localtimes}
OffsetAt(z, k) == IF k = 0 THEN Head(z.localtimes) ELSE Offset(z, k)

\* Of n keys k is the last one that is not larger than t.
Ruling(keys, n, k, t) ==
  /\ k > 0 => keys[k] <= t
  /\ k < n => t < keys[k + 1]

\* What WellFormed says of the instants and the offsets.
LEMMA ZoneType ==
  ASSUME NEW z, WellFormed(z)
  PROVE  /\ Count(z) \in Nat
         /\ DOMAIN z.transitions = 1..Count(z)
         /\ DOMAIN Instants(z) = 1..Count(z)
         /\ DOMAIN LocalStarts(z) = 1..Count(z)
         /\ \A k \in 0..Count(z) : OffsetAt(z, k) \in Offsets(z)
         /\ Offsets(z) \subseteq Int
         /\ \A k \in 1..Count(z) : /\ Instants(z)[k] \in Int
                                   /\ LocalStarts(z)[k] = Instants(z)[k] + OffsetAt(z, k)
         /\ \A k \in 2..Count(z), o, p \in Offsets(z) :
              Instants(z)[k] - Instants(z)[k - 1] > 2 * (o - p)
<1> DEFINE n == Count(z)
<1>1. /\ z.localtimes \in Seq(Int) /\ z.localtimes # <<>>
      /\ z.transitions \in Seq([utctime : Int, localtimeIdx : Nat])
  BY DEF WellFormed
<1>2. n \in Nat /\ DOMAIN z.transitions = 1..n
  BY <1>1 DEF Count
<1>3. DOMAIN Instants(z) = 1..n /\ DOMAIN LocalStarts(z) = 1..n
  BY <1>2 DEF Instants, LocalStarts
<1>4. Offsets(z) \subseteq Int
  BY <1>1 DEF Offsets
<1>5. ASSUME NEW k \in 0..n  PROVE  OffsetAt(z, k) \in Offsets(z)
  <2>1. CASE k = 0
    <3>1. Head(z.localtimes) = z.localtimes[1] /\ 1 \in DOMAIN z.localtimes
      BY <1>1
    <3> QED  BY <2>1, <3>1 DEF OffsetAt, Offsets
  <2>2. CASE k # 0
    <3>1. z.transitions[k].localtimeIdx \in DOMAIN z.localtimes
      BY <1>2, <2>2 DEF WellFormed
    <3> QED  BY <2>2, <3>1 DEF OffsetAt, Offsets, Offset
  <2> QED  BY <2>1, <2>2
<1>6. ASSUME NEW k \in 1..n
      PROVE  Instants(z)[k] \in Int /\ LocalStarts(z)[k] = Instants(z)[k] + OffsetAt(z, k)
  <2>1. z.transitions[k] \in [utctime : Int, localtimeIdx : Nat]
    <3>1. k \in 1..Len(z.transitions)  BY DEF Count
    <3> QED  BY <1>1, <3>1, ElementOfSeq
  <2> QED  BY <1>2, <2>1 DEF Instants, LocalStarts, OffsetAt
<1>7. ASSUME NEW k \in 2..n, NEW o \in Offsets(z), NEW p \in Offsets(z)
      PROVE  Instants(z)[k] - Instants(z)[k - 1] > 2 * (o - p)
  <2>1. PICK i, j \in DOMAIN z.localtimes : o = z.localtimes[i] /\ p = z.localtimes[j]
    BY DEF Offsets
  <2>2. k \in DOMAIN z.transitions \ {1}
    BY <1>2
  <2> QED  BY <2>1, <2>2 DEF WellFormed
<1> QED  BY <1>2, <1>3, <1>4, <1>5, <1>6, <1>7

\* The transitions are sorted by their utctime and by their localtime.
LEMMA InstantsIncrease ==
  ASSUME NEW z, WellFormed(z)
  PROVE  /\ \A i, j \in 1..Count(z) : i < j => Instants(z)[i] < Instants(z)[j]
         /\ \A i, j \in 1..Count(z) : i < j => LocalStarts(z)[i] < LocalStarts(z)[j]
         /\ \A k \in 2..Count(z) : /\ Instants(z)[k - 1] < Instants(z)[k]
                                   /\ LocalStarts(z)[k - 1] < LocalStarts(z)[k]
         /\ \A k \in 1..Count(z) : LocalStarts(z)[k] \in Int
<1> DEFINE n == Count(z)
<1>1. n \in Nat /\ \A k \in 1..n : Instants(z)[k] \in Int /\ LocalStarts(z)[k] \in Int
  BY ZoneType
<1>2. ASSUME NEW k \in 2..n
      PROVE  Instants(z)[k - 1] < Instants(z)[k] /\ LocalStarts(z)[k - 1] < LocalStarts(z)[k]
  <2>1. k \in 1..n /\ k - 1 \in 1..n /\ k \in 0..n /\ k - 1 \in 0..n  BY <1>1
  <2>2. PICK o, p \in Offsets(z) : o = OffsetAt(z, k - 1) /\ p = OffsetAt(z, k)
    BY <2>1, ZoneType
  <2>3. /\ Instants(z)[k] - Instants(z)[k - 1] > 2 * (o - p)
        /\ Instants(z)[k] - Instants(z)[k - 1] > 2 * (o - o)
    BY ZoneType
  <2>4. o \in Int /\ p \in Int  BY ZoneType
  <2>5. LocalStarts(z)[k - 1] = Instants(z)[k - 1] + o /\ LocalStarts(z)[k] = Instants(z)[k] + p
    BY <2>1, <2>2, ZoneType
  <2> QED  BY <1>1, <2>1, <2>3, <2>4, <2>5
<1> HIDE DEF n
<1>3. \A i, j \in 1..n : i < j => Instants(z)[i] < Instants(z)[j]
  BY <1>1, <1>2, SortedIsMonotone
<1>4. \A i, j \in 1..n : i < j => LocalStarts(z)[i] < LocalStarts(z)[j]
  BY <1>1, <1>2, SortedIsMonotone
<1> QED  BY <1>1, <1>2, <1>3, <1>4 DEF n

\* An instant is ruled by an offset, and so is a local time.
LEMMA OneRules ==
  ASSUME NEW z, WellFormed(z), NEW t \in Int
  PROVE  /\ \E k \in 0..Count(z) : Ruling(Instants(z), Count(z), k, t)
         /\ \E k \in 0..Count(z) : Ruling(LocalStarts(z), Count(z), k, t)
<1>1. Count(z) \in Nat /\ \A k \in 1..Count(z) : Instants(z)[k] \in Int /\ LocalStarts(z)[k] \in Int
  BY ZoneType
<1> QED  BY <1>1, UpperBoundExists DEF Ruling

\* findLocalTime(utcTime) gives the offset that rules the instant.
LEMMA FindLocalTimeIs ==
  ASSUME NEW z, WellFormed(z), NEW t \in Int,
         NEW k \in 0..Count(z), Ruling(Instants(z), Count(z), k, t)
  PROVE  FindLocalTime(z, t) = OffsetAt(z, k)
<1>1. UpperBound(Instants(z), t) = k + 1
  BY ZoneType, InstantsIncrease, UpperBoundIs DEF Ruling
<1>2. k + 1 = 1 <=> k = 0  OBVIOUS
<1> QED  BY <1>1, <1>2 DEF FindLocalTime, OffsetAt

\* Offsets are numbers.
LEMMA OffsetIsInt ==
  ASSUME NEW z, WellFormed(z), NEW t \in Int
  PROVE  FindLocalTime(z, t) \in Int
<1>1. PICK k \in 0..Count(z) : Ruling(Instants(z), Count(z), k, t)
  BY OneRules
<1> QED  BY <1>1, FindLocalTimeIs, ZoneType

\* findLocalTime(local, postTransition), of the offset that rules the local time.
LEMMA FindOffsetIs ==
  ASSUME NEW z, WellFormed(z), NEW local \in Int, NEW post \in BOOLEAN,
         NEW k \in 0..Count(z), Ruling(LocalStarts(z), Count(z), k, local)
  PROVE  FindOffset(z, local, post) =
           IF k = 0 \/ k = Count(z) THEN OffsetAt(z, k)
           ELSE IF Skips(z, k + 1, local) THEN OffsetAt(z, IF post THEN k + 1 ELSE k)
           ELSE IF Repeats(z, k, local) THEN OffsetAt(z, IF post THEN k ELSE k - 1)
           ELSE OffsetAt(z, k)
<1> DEFINE n == Len(z.transitions)
<1>1. UpperBound(LocalStarts(z), local) = k + 1
  BY ZoneType, InstantsIncrease, UpperBoundIs DEF Ruling
<1>2. n = Count(z) /\ n \in Nat  BY ZoneType DEF Count
<1>3. FindOffset(z, local, post) =
        CASE k + 1 = 1 -> Head(z.localtimes)
          [] n > 0 /\ k + 1 = n + 1 -> Offset(z, n)
          [] k + 1 \in 2..n /\ Skips(z, k + 1, local) ->
               Offset(z, IF post THEN k + 1 ELSE k + 1 - 1)
          [] k + 1 \in 2..n /\ ~Skips(z, k + 1, local) /\ Repeats(z, k + 1 - 1, local) ->
               Offset(z, IF post THEN k + 1 - 1 ELSE k + 1 - 2)
          [] OTHER -> Offset(z, k + 1 - 1)
  BY <1>1 DEF FindOffset
<1>4. k + 1 - 1 = k /\ k + 1 - 2 = k - 1  OBVIOUS
<1> HIDE DEF n
<1>5. CASE k = 0  BY <1>2, <1>3, <1>5 DEF OffsetAt
<1>6. CASE k # 0 /\ k = n  BY <1>2, <1>3, <1>6 DEF OffsetAt
<1>7. CASE k # 0 /\ k # n /\ Skips(z, k + 1, local)
  BY <1>2, <1>3, <1>4, <1>7 DEF OffsetAt
<1>8. CASE k # 0 /\ k # n /\ ~Skips(z, k + 1, local) /\ Repeats(z, k, local)
  <2>1. k - 1 # 0  BY <1>8 DEF Repeats
  <2> QED  BY <1>2, <1>3, <1>4, <1>8, <2>1 DEF OffsetAt
<1>9. CASE k # 0 /\ k # n /\ ~Skips(z, k + 1, local) /\ ~Repeats(z, k, local)
  BY <1>2, <1>3, <1>4, <1>9 DEF OffsetAt
<1> QED  BY <1>2, <1>5, <1>6, <1>7, <1>8, <1>9

\* When the local time of an instant that offset j rules is ruled by offset k,
\* then j is k or, as the time is repeated, the one before.
LEMMA SameOffsetOrBefore ==
  ASSUME NEW n \in Nat, NEW I, NEW O,
         \A k \in 1..n : I[k] \in Int,
         \A k \in 0..n : O[k] \in Int,
         \A i, j \in 1..n : i < j => I[i] < I[j],
         \A k \in 2..n, i, j \in 0..n : I[k] - I[k - 1] > 2 * (O[i] - O[j]),
         NEW t \in Int, NEW j \in 0..n, j > 0 => I[j] <= t, j < n => t < I[j + 1],
         NEW k \in 0..n, k > 0 => I[k] + O[k] <= t + O[j],
         k < n => t + O[j] < I[k + 1] + O[k + 1]
  PROVE  j = k \/ (k > 0 /\ j = k - 1)
<1>1. ~(j > k)
  <2>1. SUFFICES ASSUME j > k PROVE  FALSE  OBVIOUS
  <2>2. CASE j = k + 1  BY <2>1, <2>2
  <2>3. CASE j > k + 1
    <3>1. /\ I[j] - I[j - 1] > 2 * (O[k + 1] - O[j]) /\ I[j] - I[j - 1] > 2 * (O[j] - O[j])
      BY <2>3
    <3>2. I[k + 1] <= I[j - 1]
      <4>1. k + 1 = j - 1 \/ k + 1 < j - 1  BY <2>3
      <4> QED  BY <2>3, <4>1
    <3>3. I[j] <= t /\ t + O[j] < I[k + 1] + O[k + 1]  BY <2>1
    <3>4. I[j] \in Int /\ I[j - 1] \in Int /\ I[k + 1] \in Int /\ O[j] \in Int /\ O[k + 1] \in Int
      BY <2>3
    <3> QED  BY <3>1, <3>2, <3>3, <3>4
  <2> QED  BY <2>1, <2>2, <2>3
<1>2. ~(j < k - 1)
  <2>1. SUFFICES ASSUME j < k - 1 PROVE  FALSE  OBVIOUS
  <2>2. /\ I[k] - I[k - 1] > 2 * (O[j] - O[k]) /\ I[k] - I[k - 1] > 2 * (O[j] - O[j])
    BY <2>1
  <2>3. I[j + 1] <= I[k - 1]
    <3>1. j + 1 = k - 1 \/ j + 1 < k - 1  BY <2>1
    <3> QED  BY <2>1, <3>1
  <2>4. t < I[j + 1] /\ I[k] + O[k] <= t + O[j]  BY <2>1
  <2>5. I[k] \in Int /\ I[k - 1] \in Int /\ I[j + 1] \in Int /\ O[j] \in Int /\ O[k] \in Int
    BY <2>1
  <2> QED  BY <2>2, <2>3, <2>4, <2>5
<1> QED  BY <1>1, <1>2

\* The instants and offsets of a zone as functions on numbers.
LEMMA ZoneNumbers ==
  ASSUME NEW z, WellFormed(z)
  PROVE  \E n, I, L, O :
           /\ n \in Nat /\ n = Count(z) /\ I = Instants(z) /\ L = LocalStarts(z)
           /\ \A k \in 1..n : I[k] \in Int /\ L[k] = I[k] + O[k]
           /\ \A k \in 0..n : O[k] = OffsetAt(z, k) /\ O[k] \in Int /\ O[k] \in Offsets(z)
           /\ \A i, j \in 1..n : i < j => I[i] < I[j]
           /\ \A k \in 2..n, i, j \in 0..n : I[k] - I[k - 1] > 2 * (O[i] - O[j])
<1> DEFINE n == Count(z)
           O == [k \in 0..n |-> OffsetAt(z, k)]
<1>1. \A k \in 0..n : O[k] = OffsetAt(z, k) /\ O[k] \in Int /\ O[k] \in Offsets(z)
  BY ZoneType
<1>2. \A k \in 2..n, i, j \in 0..n : Instants(z)[k] - Instants(z)[k - 1] > 2 * (O[i] - O[j])
  <2> HIDE DEF O
  <2> QED  BY <1>1, ZoneType
<1>3. n \in Nat /\ \A k \in 1..n :
        Instants(z)[k] \in Int /\ LocalStarts(z)[k] = Instants(z)[k] + O[k]
  <2>1. n \in Nat  BY ZoneType
  <2>2. ASSUME NEW k \in 1..n
        PROVE  Instants(z)[k] \in Int /\ LocalStarts(z)[k] = Instants(z)[k] + O[k]
    <3>1. k \in 0..n  BY <2>1
    <3>2. O[k] = OffsetAt(z, k)  BY <1>1, <3>1
    <3> HIDE DEF O
    <3> QED  BY <3>2, ZoneType
  <2> QED  BY <2>1, <2>2
<1> HIDE DEF O
<1> QED  BY <1>1, <1>2, <1>3, InstantsIncrease

\* A local time that is on the clocks: the offset that is found for it rules the
\* instant to which it leads.
LEMMA OffsetFits ==
  ASSUME NEW z, WellFormed(z), NEW t \in Int, NEW post \in BOOLEAN,
         NEW local, local = t + FindLocalTime(z, t),
         NEW o, o = FindOffset(z, local, post)
  PROVE  /\ o \in Offsets(z) /\ o \in Int /\ local \in Int
         /\ FindLocalTime(z, local - o) = o
<1>1. PICK n, I, L, O :
           /\ n \in Nat /\ n = Count(z) /\ I = Instants(z) /\ L = LocalStarts(z)
           /\ \A k \in 1..n : I[k] \in Int /\ L[k] = I[k] + O[k]
           /\ \A k \in 0..n : O[k] = OffsetAt(z, k) /\ O[k] \in Int /\ O[k] \in Offsets(z)
           /\ \A i, j \in 1..n : i < j => I[i] < I[j]
           /\ \A k \in 2..n, i, j \in 0..n : I[k] - I[k - 1] > 2 * (O[i] - O[j])
  BY ZoneNumbers
<1> n \in Nat  BY <1>1
<1>2. PICK j \in 0..n : Ruling(I, n, j, t)
  BY <1>1, OneRules
<1>3. local = t + O[j] /\ local \in Int
  <2>1. FindLocalTime(z, t) = OffsetAt(z, j)
    BY <1>1, <1>2, FindLocalTimeIs
  <2>2. FindLocalTime(z, t) = O[j] /\ O[j] \in Int
    BY <1>1, <2>1
  <2> QED  BY <2>2
<1>4. PICK k \in 0..n : Ruling(L, n, k, local)
  BY <1>1, <1>3, OneRules
<1>5. /\ j > 0 => I[j] <= t
      /\ j < n => t < I[j + 1]
      /\ k > 0 => I[k] + O[k] <= t + O[j]
      /\ k < n => t + O[j] < I[k + 1] + O[k + 1]
  <2>1. k > 0 => L[k] = I[k] + O[k]  BY <1>1
  <2>2. k < n => L[k + 1] = I[k + 1] + O[k + 1]  BY <1>1
  <2> QED  BY <1>2, <1>3, <1>4, <2>1, <2>2 DEF Ruling
<1>6. j = k \/ (k > 0 /\ j = k - 1)
  <2>1. /\ \A i \in 1..n : I[i] \in Int
        /\ \A i \in 0..n : O[i] \in Int
        /\ \A i, i2 \in 1..n : i < i2 => I[i] < I[i2]
        /\ \A i \in 2..n, i2, i3 \in 0..n : I[i] - I[i - 1] > 2 * (O[i2] - O[i3])
    BY <1>1
  <2> QED  BY <1>5, <2>1, SameOffsetOrBefore
<1>7. ASSUME NEW m \in 0..n, o = O[m], Ruling(I, n, m, local - O[m])
      PROVE  o \in Offsets(z) /\ FindLocalTime(z, local - o) = o
  <2>1. o = OffsetAt(z, m) /\ o \in Offsets(z) /\ local - o \in Int  BY <1>1, <1>3, <1>7
  <2> QED  BY <1>1, <1>7, <2>1, FindLocalTimeIs
<1>8. o = IF k = 0 \/ k = n THEN O[k]
          ELSE IF Skips(z, k + 1, local) THEN O[IF post THEN k + 1 ELSE k]
          ELSE IF Repeats(z, k, local) THEN O[IF post THEN k ELSE k - 1]
          ELSE O[k]
  <2>1. o = IF k = 0 \/ k = n THEN OffsetAt(z, k)
            ELSE IF Skips(z, k + 1, local) THEN OffsetAt(z, IF post THEN k + 1 ELSE k)
            ELSE IF Repeats(z, k, local) THEN OffsetAt(z, IF post THEN k ELSE k - 1)
            ELSE OffsetAt(z, k)
    BY <1>1, <1>3, <1>4, FindOffsetIs
  <2>2. /\ k # 0 /\ k # n => k + 1 \in 0..n /\ k - 1 \in 0..n
    OBVIOUS
  <2> QED  BY <1>1, <2>1, <2>2
<1>9. \A i \in 0..n : O[i] \in Int  BY <1>1
<1>10. \A i \in 1..n : I[i] \in Int  BY <1>1
<1>11. k > 0 => I[k] <= local - O[k]
  BY <1>3, <1>5, <1>9, <1>10
<1>12. k < n => local - O[k] < I[k + 1]
  <2>1. SUFFICES ASSUME k < n  PROVE  local - O[k] < I[k + 1]
    OBVIOUS
  <2>2. CASE j = k
    BY <1>3, <1>5, <1>9, <1>10, <2>1, <2>2
  <2>3. CASE k > 0 /\ j = k - 1
    <3>1. k + 1 \in 2..n /\ k + 1 - 1 = k  BY <2>1, <2>3
    <3>2. /\ I[k + 1] - I[k] > 2 * (O[k - 1] - O[k])
          /\ I[k + 1] - I[k] > 2 * (O[k] - O[k])
      BY <1>1, <2>3, <3>1
    <3>3. local < I[k] + O[k - 1]  BY <1>3, <1>5, <1>9, <1>10, <2>1, <2>3
    <3>4. I[k] \in Int /\ I[k + 1] \in Int /\ O[k] \in Int /\ O[k - 1] \in Int
      BY <1>9, <1>10, <2>1, <2>3
    <3> QED  BY <1>3, <3>2, <3>3, <3>4
  <2> QED  BY <1>6, <2>2, <2>3
<1>13. Ruling(I, n, k, local - O[k])
  BY <1>11, <1>12 DEF Ruling
<1>14. CASE k = 0 \/ k = n
  BY <1>3, <1>7, <1>8, <1>13, <1>14, <1>9
<1>15. CASE k # 0 /\ k # n
  <2>1. ~Skips(z, k + 1, local)
    <3>1. Offset(z, k) = O[k]  BY <1>1, <1>15 DEF OffsetAt
    <3>2. k + 1 - 1 = k  OBVIOUS
    <3>3. PriorSecond(z, k + 1) = I[k + 1] - 1 + O[k]
      BY <1>1, <3>1, <3>2 DEF PriorSecond
    <3>4. I[k + 1] \in Int /\ O[k] \in Int  BY <1>9, <1>10, <1>15
    <3> QED  BY <1>3, <1>12, <1>15, <3>3, <3>4 DEF Skips
  <2>2. CASE ~Repeats(z, k, local) \/ post
    <3>1. o = O[k]  BY <1>8, <1>15, <2>1, <2>2
    <3> QED  BY <1>3, <1>7, <1>9, <1>13, <3>1
  <2>3. CASE Repeats(z, k, local) /\ ~post
    <3>1. k > 1 /\ local <= I[k] - 1 + O[k - 1]
      <4>1. k > 1 /\ local <= I[k] - 1 + Offset(z, k - 1)
        BY <1>1, <2>3 DEF Repeats, PriorSecond
      <4>2. Offset(z, k - 1) = O[k - 1]  BY <1>1, <4>1 DEF OffsetAt
      <4> QED  BY <4>1, <4>2
    <3>2. o = O[k - 1]  BY <1>8, <1>15, <2>1, <2>3
    <3>3. /\ I[k] - I[k - 1] > 2 * (O[k - 1] - O[k])
          /\ I[k] - I[k - 1] > 2 * (O[k] - O[k])
      BY <1>1, <3>1
    <3>4. I[k] \in Int /\ I[k - 1] \in Int /\ O[k] \in Int /\ O[k - 1] \in Int
      BY <1>9, <1>10, <3>1
    <3>5. I[k] <= local - O[k]  BY <1>11, <3>1
    <3>6. I[k - 1] <= local - O[k - 1] /\ local - O[k - 1] < I[k]
      BY <1>3, <3>1, <3>3, <3>4, <3>5
    <3>7. Ruling(I, n, k - 1, local - O[k - 1])
      <4>1. k - 1 + 1 = k  OBVIOUS
      <4> QED  BY <3>6, <4>1 DEF Ruling
    <3>8. k - 1 \in 0..n  BY <3>1
    <3> QED  BY <1>3, <1>7, <3>2, <3>4, <3>7, <3>8
  <2> QED  BY <2>2, <2>3
<1> QED  BY <1>14, <1>15, <1>3

\* A local time that is repeated at transition k: each preference gives the
\* instant on its side of the transition.
LEMMA RepeatedTimes ==
  ASSUME NEW z, WellFormed(z), NEW local \in Int, NEW s \in Int, NEW t \in Int,
         s + FindLocalTime(z, s) = local, t + FindLocalTime(z, t) = local,
         NEW k \in 2..(Count(z) - 1), s < Instants(z)[k], Instants(z)[k] <= t
  PROVE  /\ local - FindOffset(z, local, FALSE) = s
         /\ local - FindOffset(z, local, TRUE) = t
<1>1. PICK n, I, L, O :
           /\ n \in Nat /\ n = Count(z) /\ I = Instants(z) /\ L = LocalStarts(z)
           /\ \A i \in 1..n : I[i] \in Int /\ L[i] = I[i] + O[i]
           /\ \A i \in 0..n : O[i] = OffsetAt(z, i) /\ O[i] \in Int /\ O[i] \in Offsets(z)
           /\ \A i, j \in 1..n : i < j => I[i] < I[j]
           /\ \A m \in 2..n, i, j \in 0..n : I[m] - I[m - 1] > 2 * (O[i] - O[j])
  BY ZoneNumbers
<1> n \in Nat  BY <1>1
<1>2. PICK i \in 0..n : Ruling(I, n, i, s)
  BY <1>1, OneRules
<1>3. PICK j \in 0..n : Ruling(I, n, j, t)
  BY <1>1, OneRules
<1>4. local = s + O[i] /\ local = t + O[j]
  <2>1. FindLocalTime(z, s) = OffsetAt(z, i) /\ FindLocalTime(z, t) = OffsetAt(z, j)
    BY <1>1, <1>2, <1>3, FindLocalTimeIs
  <2> QED  BY <1>1, <2>1
<1>5. \A m \in 0..n : O[m] \in Int  BY <1>1
<1>6. \A m \in 1..n : I[m] \in Int  BY <1>1
<1>7. k \in 2..n /\ k + 1 \in 2..n /\ k - 1 \in 1..n /\ s < I[k] /\ I[k] <= t
  BY <1>1
<1>8. \A m, l \in 1..n : m < l => I[m] < I[l]  BY <1>1
<1>9. i < k /\ k <= j
  <2>1. ~(i >= k)
    <3>1. i > k => I[k] < I[i]  BY <1>7, <1>8
    <3>2. i >= k => I[i] <= s  BY <1>2, <1>7 DEF Ruling
    <3> QED  BY <1>6, <1>7, <3>1, <3>2
  <2>2. ~(j < k)
    <3>1. j + 1 < k => I[j + 1] < I[k]  BY <1>7, <1>8
    <3>2. j < k => t < I[j + 1]  BY <1>3, <1>7 DEF Ruling
    <3> QED  BY <1>6, <1>7, <3>1, <3>2
  <2> QED  BY <2>1, <2>2
<1>10. i = k - 1
  <2>1. SUFFICES ASSUME i < k - 1  PROVE  FALSE
    BY <1>9
  <2>2. s < I[i + 1]  BY <1>2, <2>1, <1>7 DEF Ruling
  <2>3. I[i + 1] <= I[k - 1]
    <3>1. i + 1 = k - 1 \/ i + 1 < k - 1  BY <2>1
    <3>2. i + 1 \in 1..n  BY <1>7, <2>1
    <3> QED  BY <1>6, <1>7, <1>8, <3>1, <3>2
  <2>4. /\ I[k] - I[k - 1] > 2 * (O[i] - O[j])
        /\ I[k] - I[k - 1] > 2 * (O[i] - O[i])
    BY <1>1, <1>7
  <2>5. i + 1 \in 1..n  BY <1>7, <2>1
  <2>6. I[i + 1] \in Int /\ I[k] \in Int /\ I[k - 1] \in Int /\ O[i] \in Int /\ O[j] \in Int
    BY <1>5, <1>6, <1>7, <2>5
  <2> QED  BY <1>4, <1>7, <2>2, <2>3, <2>4, <2>6
<1>11. j = k
  <2>1. SUFFICES ASSUME j > k  PROVE  FALSE
    BY <1>9
  <2>2. I[j] <= t  BY <1>3, <2>1, <1>7 DEF Ruling
  <2>3. I[k + 1] <= I[j]
    <3>1. k + 1 = j \/ k + 1 < j  BY <2>1
    <3>2. j \in 1..n  BY <1>7, <2>1
    <3> QED  BY <1>6, <1>7, <1>8, <3>1, <3>2
  <2>4. /\ I[k + 1] - I[k] > 2 * (O[i] - O[j])
        /\ I[k + 1] - I[k] > 2 * (O[i] - O[i])
    <3>1. k + 1 - 1 = k  OBVIOUS
    <3> QED  BY <1>1, <1>7, <3>1
  <2>5. j \in 1..n  BY <1>7, <2>1
  <2>6. I[k + 1] \in Int /\ I[k] \in Int /\ I[j] \in Int /\ O[i] \in Int /\ O[j] \in Int
    BY <1>5, <1>6, <1>7, <2>5
  <2> QED  BY <1>4, <1>7, <2>2, <2>3, <2>4, <2>6
<1>12. I[k] \in Int /\ I[k + 1] \in Int /\ O[k - 1] \in Int /\ O[k] \in Int /\ O[k + 1] \in Int
  BY <1>5, <1>6, <1>7
<1>13. local = s + O[k - 1] /\ local = t + O[k] /\ t < I[k + 1]
  BY <1>3, <1>4, <1>7, <1>10, <1>11 DEF Ruling
<1>14. Ruling(L, n, k, local)
  <2>1. L[k] = I[k] + O[k] /\ L[k + 1] = I[k + 1] + O[k + 1]  BY <1>1, <1>7
  <2>2. L[k] <= local  BY <1>7, <1>12, <1>13, <2>1
  <2>3. /\ I[k + 1] - I[k] > 2 * (O[k - 1] - O[k + 1])
        /\ I[k + 1] - I[k] > 2 * (O[k] - O[k])
    <3>1. k + 1 - 1 = k  OBVIOUS
    <3> QED  BY <1>1, <1>7, <3>1
  <2>4. local < L[k + 1]  BY <1>7, <1>12, <1>13, <2>1, <2>3
  <2> QED  BY <2>2, <2>4 DEF Ruling
<1>15. Offset(z, k) = O[k] /\ Offset(z, k - 1) = O[k - 1]
  BY <1>1, <1>7 DEF OffsetAt
<1>16. ~Skips(z, k + 1, local)
  <2>1. k + 1 - 1 = k  OBVIOUS
  <2>2. PriorSecond(z, k + 1) = I[k + 1] - 1 + O[k]
    BY <1>1, <1>15, <2>1 DEF PriorSecond
  <2> QED  BY <1>12, <1>13, <2>2 DEF Skips
<1>17. Repeats(z, k, local)
  <2>1. PriorSecond(z, k) = I[k] - 1 + O[k - 1]
    BY <1>1, <1>15 DEF PriorSecond
  <2> QED  BY <1>7, <1>12, <1>13, <2>1 DEF Repeats
<1>18. FindOffset(z, local, FALSE) = O[k - 1] /\ FindOffset(z, local, TRUE) = O[k]
  <2>1. k \in 0..Count(z) /\ k # 0 /\ k # Count(z)  BY <1>1, <1>7
  <2>2. FindOffset(z, local, FALSE) = OffsetAt(z, k - 1)
    BY <1>1, <1>14, <1>16, <1>17, <2>1, FindOffsetIs
  <2>3. FindOffset(z, local, TRUE) = OffsetAt(z, k)
    BY <1>1, <1>14, <1>16, <1>17, <2>1, FindOffsetIs
  <2>4. O[k - 1] = OffsetAt(z, k - 1) /\ O[k] = OffsetAt(z, k)  BY <1>1, <1>7
  <2> QED  BY <2>2, <2>3, <2>4, Zenon
<1>19. local - O[k - 1] = s /\ local - O[k] = t  BY <1>12, <1>13
<1> QED  BY <1>18, <1>19, Zenon

\* A local time that is skipped at transition k: each preference gives an
\* instant on the other side of the transition.
LEMMA SkippedTimes ==
  ASSUME NEW z, WellFormed(z), NEW local \in Int,
         NEW k \in 2..Count(z), LocalStarts(z)[k] > local, Skips(z, k, local)
  PROVE  /\ local - FindOffset(z, local, TRUE) < Instants(z)[k]
         /\ Instants(z)[k] <= local - FindOffset(z, local, FALSE)
<1>1. PICK n, I, L, O :
           /\ n \in Nat /\ n = Count(z) /\ I = Instants(z) /\ L = LocalStarts(z)
           /\ \A i \in 1..n : I[i] \in Int /\ L[i] = I[i] + O[i]
           /\ \A i \in 0..n : O[i] = OffsetAt(z, i) /\ O[i] \in Int /\ O[i] \in Offsets(z)
           /\ \A i, j \in 1..n : i < j => I[i] < I[j]
           /\ \A m \in 2..n, i, j \in 0..n : I[m] - I[m - 1] > 2 * (O[i] - O[j])
  BY ZoneNumbers
<1> n \in Nat  BY <1>1
<1>2. k \in 1..n /\ k - 1 \in 1..n /\ k \in 2..n  BY <1>1
<1>3. I[k] \in Int /\ I[k - 1] \in Int /\ O[k] \in Int /\ O[k - 1] \in Int
  BY <1>1, <1>2
<1>4. Offset(z, k - 1) = O[k - 1]
  BY <1>1, <1>2 DEF OffsetAt
<1>5. local < I[k] + O[k]  BY <1>1, <1>2
<1>6. I[k] + O[k - 1] <= local
  <2>1. PriorSecond(z, k) = I[k] - 1 + O[k - 1]
    BY <1>1, <1>4 DEF PriorSecond
  <2> QED  BY <1>3, <2>1 DEF Skips
<1>7. Ruling(L, n, k - 1, local)
  <2>1. L[k] = I[k] + O[k] /\ L[k - 1] = I[k - 1] + O[k - 1]  BY <1>1, <1>2
  <2>2. I[k] - I[k - 1] > 2 * (O[k] - O[k])
    BY <1>1, <1>2
  <2>3. k - 1 + 1 = k  OBVIOUS
  <2> QED  BY <1>3, <1>5, <1>6, <2>1, <2>2, <2>3 DEF Ruling
<1>8. FindOffset(z, local, FALSE) = O[k - 1] /\ FindOffset(z, local, TRUE) = O[k]
  <2> DEFINE l == k - 1
  <2>1. l \in 0..Count(z) /\ l # 0 /\ l # Count(z) /\ l + 1 = k  BY <1>1, <1>2
  <2> HIDE DEF l
  <2>2. Ruling(L, n, l, local)  BY <1>7 DEF l
  <2>3. FindOffset(z, local, FALSE) = OffsetAt(z, l)
    BY <1>1, <2>1, <2>2, FindOffsetIs
  <2>4. FindOffset(z, local, TRUE) = OffsetAt(z, k)
    BY <1>1, <2>1, <2>2, FindOffsetIs
  <2>5. O[l] = OffsetAt(z, l) /\ O[k] = OffsetAt(z, k)  BY <1>1, <1>2, <2>1
  <2> QED  BY <2>3, <2>4, <2>5, Zenon DEF l
<1>9. local - O[k] < I[k] /\ I[k] <= local - O[k - 1]  BY <1>3, <1>5, <1>6
<1> QED  BY <1>1, <1>8, <1>9, Zenon

-----------------------------------------------------------------------------
(* The program.  The inductive invariant has three parts: the time is a    *)
(* number, the zone is well formed, and what is to be loaded is one of the *)
(* files, which is why the zone stays well formed.                         *)

TimeType == time \in Int
ZoneIsWellFormed == zone = NoZone \/ WellFormed(zone)
FileType == file = NoFile \/ file \in Files

\* A zone of a fixed offset has no transitions that could be too close.
LEMMA FixedZoneIsWellFormed ==
  ASSUME NEW east \in Int
  PROVE  WellFormed(FixedZone(east))
<1> DEFINE z == FixedZone(east)
<1>1. z.localtimes = <<east>> /\ z.transitions = <<>>
  BY DEF FixedZone
<1>2. <<east>> \in Seq(Int) /\ <<east>> # <<>>
  OBVIOUS
<1>3. <<>> \in Seq([utctime : Int, localtimeIdx : Nat]) /\ DOMAIN <<>> = {}
  OBVIOUS
<1> HIDE DEF z
<1>4. WellFormed(z)
  BY <1>1, <1>2, <1>3 DEF WellFormed
<1> QED  BY <1>4 DEF z

\* The time is always a number.
LEMMA TimeIsNumber == Spec => []TimeType
<1>1. Init => TimeType
  BY TimeZoneAssumption DEF Init, TimeType, TimeZoneAssumption
<1>2. TimeType /\ [Next]_vars => TimeType'
  BY DEF TimeType, Next, LoadZoneFile, Tick, vars
<1> QED  BY <1>1, <1>2, PTL DEF Spec

\* A zone that is loaded as it was written is as well formed as that one.
LEMMA ZonesAreWellFormed == Spec /\ LoadedAsWritten => [](ZoneIsWellFormed /\ FileType)
<1> DEFINE Loaded == file # NoFile => \/ zone' = file.written
                                      \/ zone' = NoZone /\ ~file.complete
           ZInv == ZoneIsWellFormed /\ FileType
<1>1. Init => ZInv
  <2>1. ASSUME NEW start \in FixedZones, zone = FixedZone(start.east), file = NoFile
        PROVE  ZInv
    <3>1. start.east \in Int  BY TimeZoneAssumption DEF TimeZoneAssumption
    <3> QED  BY <2>1, <3>1, FixedZoneIsWellFormed DEF ZoneIsWellFormed, FileType
  <2>2. ASSUME NEW start \in Files, file = start, zone = NoZone
        PROVE  ZInv
    BY <2>2 DEF ZoneIsWellFormed, FileType
  <2> QED  BY <2>1, <2>2 DEF Init
<1>2. ZInv /\ [Next]_vars /\ [Loaded]_vars => ZInv'
  <2> SUFFICES ASSUME ZInv, [Next]_vars, [Loaded]_vars  PROVE  ZInv'
    OBVIOUS
  <2>1. CASE LoadZoneFile
    <3>1. file # NoFile /\ file' = NoFile  BY <2>1 DEF LoadZoneFile
    <3>2. zone' = file.written \/ zone' = NoZone
      BY <3>1 DEF vars
    <3>3. file.written = NoZone \/ WellFormed(file.written)
      BY <3>1, TimeZoneAssumption DEF FileType, TimeZoneAssumption
    <3> QED  BY <3>1, <3>2, <3>3 DEF ZoneIsWellFormed, FileType
  <2>2. CASE Tick \/ UNCHANGED vars
    BY <2>2 DEF Tick, vars, ZoneIsWellFormed, FileType
  <2> QED  BY <2>1, <2>2 DEF Next
<1>3. LoadedAsWritten <=> [][Loaded]_vars
  BY PTL DEF LoadedAsWritten
<1> HIDE DEF ZInv, Loaded
<1>4. Spec /\ LoadedAsWritten => []ZInv
  BY <1>1, <1>2, <1>3, PTL DEF Spec
<1> QED  BY <1>4, PTL DEF ZInv

\* toUtcTime() follows the calendar at every instant, forward and backward from
\* 1970-01-01, and fromUtcTime() undoes it, for days of any length.
THEOREM UtcTimes == Spec => []UtcTimesFollowCalendar
<1>1. TimeType => UtcTimesFollowCalendar
  BY UtcFollows, TimeZoneAssumption DEF TimeType, UtcTimesFollowCalendar, TimeZoneAssumption
<1> QED  BY <1>1, TimeIsNumber, PTL

\* LocalTimesInvert of one instant.
LEMMA LocalTimeIsInverted ==
  ASSUME NEW z, WellFormed(z), NEW t \in Int, NEW post \in BOOLEAN
  PROVE  FromLocalTime(z, ToLocalTime(z, t), post) \in Showing(z, t + FindLocalTime(z, t))
<1>0. SecondsPerDay \in Nat \ {0}  BY TimeZoneAssumption DEF TimeZoneAssumption
<1>1. PICK local : local = t + FindLocalTime(z, t)  OBVIOUS
<1>2. PICK o : o = FindOffset(z, local, post)  OBVIOUS
<1>3. /\ o \in Offsets(z) /\ o \in Int /\ local \in Int
      /\ FindLocalTime(z, local - o) = o
  BY <1>1, <1>2, OffsetFits
<1>4. ToLocalTime(z, t) = BreakTime(local)  BY <1>1 DEF ToLocalTime
<1>5. FromUtcTime(BreakTime(local)) = local  BY <1>0, <1>3, FromUtcTimeUndoes
<1>6. FromLocalTime(z, ToLocalTime(z, t), post) = local - o
  BY <1>2, <1>4, <1>5 DEF FromLocalTime
<1>7. ToLocalTime(z, local - o) = BreakTime(local)
  <2>1. local - o + o = local  BY <1>3
  <2> QED  BY <1>3, <2>1 DEF ToLocalTime
<1>8. local - o \in {local - offset : offset \in Offsets(z)}  BY <1>3
<1> QED  BY <1>1, <1>6, <1>7, <1>8 DEF Showing, Offsets

\* A local time that is on the clocks of any zone is taken by fromLocalTime() for
\* an instant at which it is, provided that files are loaded as they were written.
THEOREM LocalTimes == Spec /\ LoadedAsWritten => []LocalTimesInvert
<1>1. TimeType /\ ZoneIsWellFormed => LocalTimesInvert
  BY LocalTimeIsInverted DEF TimeType, ZoneIsWellFormed, LocalTimesInvert
<1> QED  BY <1>1, TimeIsNumber, ZonesAreWellFormed, PTL

\* What it means that an instant shows a local time.
LEMMA ShowingMeans ==
  ASSUME NEW z, WellFormed(z), NEW local \in Int, NEW s \in Showing(z, local)
  PROVE  s \in Int /\ s + FindLocalTime(z, s) = local
<1>0. SecondsPerDay \in Nat \ {0}  BY TimeZoneAssumption DEF TimeZoneAssumption
<1>1. PICK o \in Offsets(z) : s = local - o /\ ToLocalTime(z, s) = BreakTime(local)
  BY DEF Showing, Offsets
<1>2. s \in Int  BY <1>1, ZoneType
<1>3. s + FindLocalTime(z, s) \in Int  BY <1>2, OffsetIsInt
<1>4. BreakTime(s + FindLocalTime(z, s)) = BreakTime(local)
  BY <1>1 DEF ToLocalTime
<1>5. /\ FromUtcTime(BreakTime(s + FindLocalTime(z, s))) = s + FindLocalTime(z, s)
      /\ FromUtcTime(BreakTime(local)) = local
  BY <1>0, <1>3, FromUtcTimeUndoes
<1> QED  BY <1>2, <1>4, <1>5

\* postTransition chooses between the two instants of a repeated local time, and
\* between the two sides of a skipped one, in any zone and at any transition but
\* the first and, of repeats, the last, provided that files are loaded as they
\* were written.
THEOREM Preferences == Spec /\ LoadedAsWritten => []PreferenceIsKept
<1>1. TimeType /\ WellFormed(zone) => PreferenceIsKept
  <2> SUFFICES ASSUME TimeType, WellFormed(zone)  PROVE  PreferenceIsKept
    OBVIOUS
  <2>1. time \in Int /\ SecondsPerDay \in Nat \ {0}
    BY TimeZoneAssumption DEF TimeType, TimeZoneAssumption
  <2> DEFINE n == Len(zone.transitions)
             early == FromLocalTime(zone, BreakTime(time), FALSE)
             late == FromLocalTime(zone, BreakTime(time), TRUE)
  <2>2. /\ early = time - FindOffset(zone, time, FALSE)
        /\ late = time - FindOffset(zone, time, TRUE)
    <3>1. FromUtcTime(BreakTime(time)) = time  BY <2>1, FromUtcTimeUndoes
    <3> QED  BY <3>1, Zenon DEF FromLocalTime
  <2> HIDE DEF early, late
  <2>3. ASSUME NEW k \in 2..(n - 1), NEW s \in Showing(zone, time), NEW t \in Showing(zone, time),
               s < Instants(zone)[k], Instants(zone)[k] <= t
        PROVE  early = s /\ late = t
    <3>1. /\ s \in Int /\ s + FindLocalTime(zone, s) = time
          /\ t \in Int /\ t + FindLocalTime(zone, t) = time
      BY <2>1, ShowingMeans
    <3>2. k \in 2..(Count(zone) - 1)  BY DEF Count
    <3>3. /\ time - FindOffset(zone, time, FALSE) = s
          /\ time - FindOffset(zone, time, TRUE) = t
      BY <2>1, <2>3, <3>1, <3>2, RepeatedTimes
    <3> QED  BY <2>2, <3>3, Zenon
  <2>4. ASSUME NEW k \in 2..n, LocalStarts(zone)[k] > time, Skips(zone, k, time)
        PROVE  late < Instants(zone)[k] /\ Instants(zone)[k] <= early
    <3>1. k \in 2..Count(zone)  BY DEF Count
    <3>2. /\ time - FindOffset(zone, time, TRUE) < Instants(zone)[k]
          /\ Instants(zone)[k] <= time - FindOffset(zone, time, FALSE)
      BY <2>1, <2>4, <3>1, SkippedTimes
    <3> QED  BY <2>2, <3>2, Zenon
  <2> QED  BY <2>3, <2>4 DEF PreferenceIsKept, early, late
<1>2. zone = NoZone => PreferenceIsKept  BY DEF PreferenceIsKept
<1> QED  BY <1>1, <1>2, TimeIsNumber, ZonesAreWellFormed, PTL DEF ZoneIsWellFormed

=============================================================================
