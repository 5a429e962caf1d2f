------------------------------ MODULE SoqlDates ------------------------------
(***************************************************************************)
(* The date literals of SOQL (internal/soql/date_literal.go), evaluated on *)
(* one day after another.                                                  *)
(*                                                                         *)
(* A day is its number.  Day 0 is Sunday, the first of January 1984, year  *)
(* 0 of the model, and months count from 0 through the years.  A range is  *)
(* the days from start up to end, end left out.  Time of day and zone are  *)
(* left out: every literal starts at midnight of the server's zone.        *)
(***************************************************************************)
EXTENDS Integers, Sequences

CONSTANTS
    FirstDay,    \* the first day of the run
    LastDay,     \* bound: the last day of the run
    MaxN         \* bound: the parameter of a literal

\* The literals count back no further than the calendar goes.
ASSUME DatesConstants ==
    /\ FirstDay \in Nat /\ MaxN \in Nat
    /\ FirstDay >= 366 /\ FirstDay >= 366 * MaxN

VARIABLE today

-----------------------------------------------------------------------------
(* The calendar: package time. *)

\* The day month starts on; every fourth year is a leap year.
MonthStart(month) ==
    LET year == month \div 12
        before == <<0, 31, 59, 90, 120, 151, 181, 212, 243, 273, 304, 334>>
    IN  365 * year + (year + 3) \div 4 + before[(month % 12) + 1]
        + (IF (year % 4) = 0 /\ (month % 12) >= 2 THEN 1 ELSE 0)

\* The month a day is in.
MonthOf(day) ==
    CHOOSE m \in day \div 31 .. day \div 28 :
        MonthStart(m) <= day /\ day < MonthStart(m + 1)

\* time.Date: a day of the month past its end runs over into the next month.
Date(month, dayOfMonth) == MonthStart(month) + dayOfMonth

\* Time.AddDate(0, months, 0)
AddMonths(day, months) ==
    Date(MonthOf(day) + months, day - MonthStart(MonthOf(day)))

-----------------------------------------------------------------------------
(* The literals. *)

startOfWeek(day) == day - (day % 7)
startOfMonth(day) == Date(MonthOf(day), 0)

\* A bug: a quarter starts three months back.
startOfQuarterRolling(day) == AddMonths(startOfMonth(day), -2)

startOfQuarter(day) == Date(3 * (MonthOf(day) \div 3), 0)
startOfYear(day) == Date(12 * (MonthOf(day) \div 12), 0)

\* Each unit of the literals: where the current one starts, and how to add.
Unit == {"WEEK", "MONTH", "QUARTER", "YEAR"}
Start(unit, day) ==
    CASE unit = "WEEK" -> startOfWeek(day)
      [] unit = "MONTH" -> startOfMonth(day)
      [] unit = "QUARTER" -> startOfQuarter(day)
      [] unit = "YEAR" -> startOfYear(day)
Add(unit, day, n) ==
    CASE unit = "WEEK" -> day + 7 * n
      [] unit = "MONTH" -> AddMonths(day, n)
      [] unit = "QUARTER" -> AddMonths(day, 3 * n)
      [] unit = "YEAR" -> AddMonths(day, 12 * n)

\* The literals on days.
DayRange(name, n) ==
    CASE name = "YESTERDAY" -> <<today - 1, today>>
      [] name = "TODAY" -> <<today, today + 1>>
      [] name = "TOMORROW" -> <<today + 1, today + 2>>
      [] name = "LAST_90_DAYS" -> <<today - 90, today + 1>>
      [] name = "NEXT_90_DAYS" -> <<today + 1, today + 91>>
      [] name = "LAST_N" -> <<today - n, today + 1>>
      [] name = "NEXT_N" -> <<today + 1, today + n + 1>>
      [] name = "N_AGO" -> <<today - n, today - n + 1>>

\* A bug: a past unit is counted back from today.
UnitRangeFromToday(name, unit, n) ==
    LET this == Start(unit, today)
    IN  CASE name = "LAST" -> <<Add(unit, today, -1), this>>
          [] name = "THIS" -> <<this, Add(unit, this, 1)>>
          [] name = "NEXT" -> <<Add(unit, this, 1), Add(unit, this, 2)>>
          [] name = "LAST_N" -> <<Add(unit, today, -n), this>>
          [] name = "NEXT_N" -> <<Add(unit, this, 1), Add(unit, Add(unit, this, 1), n)>>
          [] name = "N_AGO" -> <<Add(unit, this, -n), Add(unit, Add(unit, this, -n), 1)>>

\* The literals on weeks, months, quarters and years.
UnitRange(name, unit, n) ==
    LET this == Start(unit, today)
        last == Add(unit, this, -1)
        next == Add(unit, this, 1)
        ago == Add(unit, this, -n)
    IN  CASE name = "LAST" -> <<last, Add(unit, last, 1)>>
          [] name = "THIS" -> <<this, Add(unit, this, 1)>>
          [] name = "NEXT" -> <<next, Add(unit, next, 1)>>
          [] name = "LAST_N" -> <<ago, this>>
          [] name = "NEXT_N" -> <<next, Add(unit, next, n)>>
          [] name = "N_AGO" -> <<ago, Add(unit, ago, 1)>>

-----------------------------------------------------------------------------

DatesInit == today = FirstDay
NextDay == today < LastDay /\ today' = today + 1
DatesSpec == DatesInit /\ [][NextDay]_today

(* Properties. *)

\* Do the ranges follow one another without a gap or an overlap?
Chain(ranges) == \A k \in 1 .. Len(ranges) - 1 : ranges[k][2] = ranges[k + 1][1]

\* On every day the last, the current and the next week, month, quarter and
\* year follow one another with no day lost or counted twice, and today is in
\* the current one, which is the same on its first and on its last day (Range,
\* rangeQuarterYear, startOf...).
UnitsAdjoin ==
    today <= LastDay =>
    /\ Chain(<<DayRange("YESTERDAY", 0), DayRange("TODAY", 0), DayRange("TOMORROW", 0)>>)
    /\ \A unit \in Unit :
        /\ Chain(<<UnitRange("LAST", unit, 0), UnitRange("THIS", unit, 0),
                   UnitRange("NEXT", unit, 0)>>)
        /\ LET this == UnitRange("THIS", unit, 0)
           IN  /\ today \in this[1] .. this[2] - 1
               /\ Start(unit, this[1]) = this[1] /\ Start(unit, this[2] - 1) = this[1]

\* The N units ago, one after the other, make up the last N units, up to the
\* current one; the next N units begin where the current one ends, and a
\* literal without N is the literal of one unit.
CountedUnitsCover ==
    today <= LastDay =>
    /\ \A n \in 1 .. MaxN :
        /\ \A unit \in Unit :
            LET nth(k) == UnitRange("N_AGO", unit, n + 1 - k)
            IN  /\ Chain([k \in 1 .. n + 1 |->
                            IF k <= n THEN nth(k) ELSE UnitRange("THIS", unit, 0)])
                /\ UnitRange("LAST_N", unit, n) = <<nth(1)[1], nth(n)[2]>>
                /\ UnitRange("NEXT_N", unit, n)[1] = UnitRange("THIS", unit, 0)[2]
                /\ UnitRange("NEXT_N", unit, 1) = UnitRange("NEXT", unit, 0)
                /\ UnitRange("LAST_N", unit, 1) = UnitRange("LAST", unit, 0)
        /\ Chain([k \in 1 .. n + 1 |-> DayRange("N_AGO", n + 1 - k)])
        /\ DayRange("LAST_N", n) = <<DayRange("N_AGO", n)[1], DayRange("TODAY", 0)[2]>>
        /\ DayRange("NEXT_N", n)[1] = DayRange("TODAY", 0)[2]
    /\ DayRange("LAST_N", 90) = DayRange("LAST_90_DAYS", 0)
    /\ DayRange("NEXT_N", 90) = DayRange("NEXT_90_DAYS", 0)

\* The units of the date literals tile the calendar: no day is in none of two
\* neighbours and none in both, however many units a literal counts.
UnitsTile == UnitsAdjoin /\ CountedUnitsCover
=============================================================================
