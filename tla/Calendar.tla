------------------------------ MODULE Calendar ------------------------------
(***************************************************************************)
(* The part of the Gregorian calendar that Postgres adds an interval to a  *)
(* date with.  Dates are day numbers, day 0 being January 1st of year 0; a *)
(* month is 12 * year + 0 .. 11; an interval has months and days.          *)
(***************************************************************************)
EXTENDS Integers

CONSTANTS
    NULL,
    LastTimestamp   \* the day on which Postgres' timestamps end

IsLeap(year) == year % 4 = 0 /\ (year % 100 # 0 \/ year % 400 = 0)

YearStart(year) ==
    365 * year + ((year + 3) \div 4) - ((year + 99) \div 100) + ((year + 399) \div 400)

BeforeMonth == <<0, 31, 59, 90, 120, 151, 181, 212, 243, 273, 304, 334>>

MonthStart(month) ==
    LET year == month \div 12
        m    == month % 12
    IN  YearStart(year) + BeforeMonth[m + 1] + (IF m > 1 /\ IsLeap(year) THEN 1 ELSE 0)

MonthLength(month) == MonthStart(month + 1) - MonthStart(month)

MonthOf(date) ==
    LET mean == (1600 * date) \div 48699   \* 1600 months have 48699 days or so
    IN  CHOOSE month \in mean - 1 .. mean + 1 :
            MonthStart(month) <= date /\ date < MonthStart(month + 1)

\* Mutant: a day that the month does not have runs into the next month.
SpillMonths(date, months) ==
    MonthStart(MonthOf(date) + months) + date - MonthStart(MonthOf(date))

\* The months come first, and stop at the end of the month.
AddMonths(date, months) ==
    LET from  == MonthOf(date)
        month == from + months
        day   == date - MonthStart(from)
    IN  MonthStart(month) + (IF day < MonthLength(month) THEN day ELSE MonthLength(month) - 1)

\* Whether Postgres computes date + interval, or fails because the months or
\* the days lead to a "timestamp out of range".
Adds(date, interval) ==
    date # NULL =>
        LET months == AddMonths(date, interval.months)
        IN  months <= LastTimestamp /\ months + interval.days <= LastTimestamp

\* date + interval, where Adds says that there is one.
AddInterval(date, interval) ==
    IF date = NULL THEN NULL ELSE AddMonths(date, interval.months) + interval.days
=============================================================================
