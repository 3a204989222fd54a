-------------------------------- MODULE Date --------------------------------
(***************************************************************************)
(* muduo::Date: the Gregorian calendar by way of Julian day numbers, and   *)
(* the calendar itself, day after day, as what it is compared with.        *)
(*                                                                         *)
(* Nothing is negative in the years that Date.h names, 1900 to 2500, so    *)
(* that the divisions of C++ are those of TLA+.                            *)
(***************************************************************************)
EXTENDS Integers

\* getJulianDayNumber(): years begin in March, months are counted from there.
JulianDayNumber(year, month, day) ==
  LET a == (14 - month) \div 12
      y == year + 4800 - a
      m == month + 12 * a - 3
  IN  day + (153 * m + 2) \div 5 + y * 365 + y \div 4 - y \div 100 + y \div 400 - 32045

\* Mutant: the century is found without rounding.
CenturyUnrounded(a) == (4 * a) \div 146097

\* The number of the century of a day, counted from -4800.
Century(a) == (4 * a + 3) \div 146097

\* getYearMonthDay().
YearMonthDay(julianDayNumber) ==
  LET a == julianDayNumber + 32044
      b == Century(a)
      c == a - (b * 146097) \div 4
      d == (4 * c + 3) \div 1461
      e == c - (1461 * d) \div 4
      m == (5 * e + 2) \div 153
  IN  [day   |-> e - (153 * m + 2) \div 5 + 1,
       month |-> m + 3 - 12 * (m \div 10),
       year  |-> b * 100 + d - 4800 + m \div 10]

JulianDayOf1970_01_01 == JulianDayNumber(1970, 1, 1)

-----------------------------------------------------------------------------
(* The calendar. *)

IsLeap(year) == year % 4 = 0 /\ (year % 100 # 0 \/ year % 400 = 0)

DaysIn(year, month) ==
  IF month = 2 THEN IF IsLeap(year) THEN 29 ELSE 28
  ELSE IF month \in {4, 6, 9, 11} THEN 30 ELSE 31

\* The day after.
NextDay(date) ==
  IF date.day < DaysIn(date.year, date.month)
    THEN [date EXCEPT !.day = @ + 1]
  ELSE IF date.month < 12
    THEN [date EXCEPT !.month = @ + 1, !.day = 1]
  ELSE [year |-> date.year + 1, month |-> 1, day |-> 1]

=============================================================================
