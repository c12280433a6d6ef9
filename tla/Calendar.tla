------------------------------ MODULE Calendar ------------------------------
(***************************************************************************)
(* What the code uses of java.time: the months of LocalDate, and the day   *)
(* component of Period.between.  A date is its epoch day.                  *)
(***************************************************************************)
EXTENDS Integers

CONSTANTS
    Months,  \* the months the calendar reaches over
    First    \* the first day of each month, and of the one after the last

ASSUME MonthsAssumption ==
    /\ Months \in Nat
    /\ First \in [1 .. Months + 1 -> Int]
    /\ \A m, n \in 1 .. Months + 1 : m < n => First[m] < First[n]

Days == {d \in Int : \E m \in 1 .. Months : First[m] <= d /\ d < First[m + 1]}

MonthOf(d) == CHOOSE m \in 1 .. Months : First[m] <= d /\ d < First[m + 1]
DayOf(d)   == d - First[MonthOf(d)]        \* counted from 0
Length(m)  == First[m + 1] - First[m]      \* lengthOfMonth

\* plusMonths: the same day of another month, or its last day.
PlusMonths(d, n) ==
    LET m == MonthOf(d) + n
    IN  First[m] + IF DayOf(d) < Length(m) THEN DayOf(d) ELSE Length(m) - 1

\* Mutant: borrows the days of the wrong month.
PeriodDaysBorrowing(s, e) ==
    LET days == DayOf(e) - DayOf(s)
    IN  IF days < 0 /\ s < e THEN days + Length(MonthOf(e)) ELSE days

\* Period.between(s, e).getDays(): what is left of the interval when its
\* whole months are taken off.
PeriodDays(s, e) ==
    LET months == MonthOf(e) - MonthOf(s)
        days   == DayOf(e) - DayOf(s)
    IN  IF months > 0 /\ days < 0 THEN e - PlusMonths(s, months - 1)
        ELSE IF months < 0 /\ days > 0 THEN days - Length(MonthOf(e))
        ELSE days

=============================================================================
