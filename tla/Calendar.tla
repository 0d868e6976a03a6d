------------------------------ MODULE Calendar ------------------------------
(***************************************************************************)
(* The calendar of package time as far as the statistics look at it.  A    *)
(* time is the number of a day, in a calendar of equal years whose months  *)
(* have the lengths of MonthLengths: what matters is when two collections  *)
(* are in the same day, week, month or year, and what time.AddDate does at *)
(* the end of a long month.                                                *)
(***************************************************************************)
EXTENDS Integers, FiniteSets, FiniteSetsExt

CONSTANTS
    MonthLengths,    \* the days of each month of a year
    WeekLength

Months == DOMAIN MonthLengths

ASSUME CalendarAssumption ==
    /\ Cardinality(Months) \in Nat \ {0, 1} /\ Months = 1 .. Cardinality(Months)
    /\ \A m \in Months : MonthLengths[m] \in Nat \ {0}
    /\ WeekLength \in Nat \ {0}

\* The zero time.
Never == -1

\* The sum of a function's values.
SumOver(S, g) == MapThenSumSet(LAMBDA x : g[x], S)

DaysBefore(m) == SumOver(1 .. m - 1, MonthLengths)
YearLength == DaysBefore(Cardinality(Months) + 1)

Year(t)  == t \div YearLength
Month(t) == CHOOSE m \in Months : /\ DaysBefore(m) <= t % YearLength
                                  /\ t % YearLength < DaysBefore(m + 1)
Day(t)   == (t % YearLength) - DaysBefore(Month(t)) + 1
Week(t)  == t \div WeekLength

\* The first day of the month after t's: NextMonthlyResetOn.
NextMonthlyResetOn(t) == Year(t) * YearLength + DaysBefore(Month(t) + 1)

\* t.AddDate(0, 1, 0): a day the next month does not have is counted on into the
\* month after it.
AddMonth(t) == NextMonthlyResetOn(t) + Day(t) - 1

\* The first day of t's month.
MonthStart(t) == Year(t) * YearLength + DaysBefore(Month(t))

\* t.AddDate(0, -1, 0): in the month before t's or, when that does not have the
\* day, in the days after it.
SubMonth(t) == LET before == MonthStart(t) - 1 IN MonthStart(before) + Day(t) - 1

SameYear(t, s)  == Year(t) = Year(s)
SameMonth(t, s) == Year(t) = Year(s) /\ Month(t) = Month(s)
SameWeek(t, s)  == Week(t) = Week(s)

\* What the statistics rely on: years, months and weeks have no gaps, a later month
\* starts later, and after the last month of a year comes the first.
CalendarGoesOn(Days) ==
    /\ \A r, s, t \in Days : r <= s /\ s <= t =>
          /\ SameYear(r, t) => SameYear(s, t)
          /\ SameMonth(r, t) => SameMonth(s, t)
          /\ SameWeek(r, t) => SameWeek(s, t)
    /\ \A t \in Days :
          /\ Month(t) \in Months /\ MonthStart(t) \in 0 .. t
          /\ Month(NextMonthlyResetOn(t)) = (Month(t) % Cardinality(Months)) + 1
    /\ \A s, t \in Days : s <= t /\ ~SameMonth(s, t) => MonthStart(s) < MonthStart(t)

=============================================================================
