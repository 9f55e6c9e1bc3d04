------------------------------ MODULE Calendar ------------------------------
(***************************************************************************)
(* The two ways the code adds months to a date: addUtcMonths and           *)
(* calculateExpirationDate of packages/database/src/domain/                *)
(* entitlement-engine.ts stop at the end of the month they land in,        *)
(* calculateNextPeriodEnd of membership-affiliate-engine.ts runs over it.  *)
(*                                                                         *)
(* A date is year, month and day in UTC, months and the days of DayNumber  *)
(* counted from 0 as Date.UTC counts them; the time of day is never        *)
(* changed and left out.                                                   *)
(***************************************************************************)
EXTENDS Integers

CONSTANTS
    FirstYear, LastYear,  \* bound: the days on which an entitlement may be issued
    MaxMonths             \* bound: the terms that are compared

ASSUME CalendarAssumption ==
    FirstYear \in Nat /\ LastYear \in Nat /\ MaxMonths \in Nat /\ 0 < FirstYear /\ FirstYear <= LastYear

VARIABLE activatedOn      \* the day an entitlement is issued, from which its term is counted

MonthDays == <<31, 28, 31, 30, 31, 30, 31, 31, 30, 31, 30, 31>>
DaysBefore == <<0, 31, 59, 90, 120, 151, 181, 212, 243, 273, 304, 334>>

Leap(y) == y % 4 = 0 /\ (y % 100 # 0 \/ y % 400 = 0)
DaysIn(y, mo) == MonthDays[mo + 1] + (IF Leap(y) /\ mo = 1 THEN 1 ELSE 0)

\* What Date.UTC makes of a year, any month and any day, as a number of days: months and
\* days beyond their range carry over.
DayNumber(year, month, day) ==
    LET y == year + month \div 12
        mo == month % 12
        leapDays == (y - 1) \div 4 - (y - 1) \div 100 + (y - 1) \div 400
    IN  365 * (y - 1) + leapDays + DaysBefore[mo + 1] + (IF Leap(y) /\ mo > 1 THEN 1 ELSE 0) + day - 1

NumberOf(date) == DayNumber(date.y, date.mo, date.d)

\* Mutant: setUTCMonth, as calculateNextPeriodEnd does it: a 31st that the target month
\* does not have becomes one of the first days of the month after.
AddUtcMonthsRolling(date, months) ==
    LET y == date.y + (date.mo + months) \div 12
        mo == (date.mo + months) % 12
        last == DaysIn(y, mo)
    IN  IF date.d <= last THEN [y |-> y, mo |-> mo, d |-> date.d]
        ELSE [y |-> y, mo |-> mo + 1, d |-> date.d - last]

AddUtcMonths(date, months) ==
    LET y == date.y + (date.mo + months) \div 12
        mo == (date.mo + months) % 12
        last == DaysIn(y, mo)
    IN  [y |-> y, mo |-> mo, d |-> IF date.d < last THEN date.d ELSE last]

\* A policy is its lifetime flag, its days and its months, of which 0 stands for none.
Never == -1
CalculateExpirationDate(date, policy) ==
    CASE policy.isLifetime -> Never
      [] ~policy.isLifetime /\ policy.days > 0 -> NumberOf(date) + policy.days
      [] ~policy.isLifetime /\ policy.days = 0 /\ policy.months > 0 -> NumberOf(AddUtcMonths(date, policy.months))
      [] OTHER -> Never

CalculateNextPeriodEnd(date, interval) ==
    CASE interval = "WEEKLY" -> NumberOf(date) + 7
      [] interval = "QUARTERLY" -> DayNumber(date.y, date.mo + 3, date.d)
      [] interval = "YEARLY" -> DayNumber(date.y + 1, date.mo, date.d)
      [] interval = "LIFETIME" -> DayNumber(date.y + 100, date.mo, date.d)
      [] OTHER -> DayNumber(date.y, date.mo + 1, date.d)

\* The calendar itself, one day after the other.
Tomorrow(date) ==
    CASE date.d < DaysIn(date.y, date.mo) -> [date EXCEPT !.d = @ + 1]
      [] date.d = DaysIn(date.y, date.mo) /\ date.mo < 11 -> [date EXCEPT !.mo = @ + 1, !.d = 1]
      [] OTHER -> [y |-> date.y + 1, mo |-> 0, d |-> 1]

NotActivated == [y |-> 0, mo |-> 0, d |-> 0]
Days == {date \in [y : FirstYear .. LastYear, mo : 0 .. 11, d : 1 .. 31] : date.d <= DaysIn(date.y, date.mo)}

CalendarInit == activatedOn = NotActivated

\* issueEntitlementsForOrder counts from activatedAt, the day its handler happens to run.
Activate == activatedOn = NotActivated /\ activatedOn' \in Days

CalendarSpec == CalendarInit /\ [][Activate]_activatedOn

-----------------------------------------------------------------------------
CalendarTypeOK == activatedOn \in Days \cup {NotActivated}

Policies == [isLifetime : BOOLEAN, days : {0, 30}, months : 0 .. MaxMonths]
Months == 1 .. MaxMonths

\* Day numbers have no gap: the calendar the terms below are compared in is a calendar.
DaysFollowEachOther == NumberOf(Tomorrow(activatedOn)) = NumberOf(activatedOn) + 1

\* Who buys a day later is never cut off earlier, whatever the plan: across ends of months
\* and years and the leap day, where several days share one end (calculateExpirationDate).
LaterEndsNoEarlier ==
    \A p \in Policies : CalculateExpirationDate(activatedOn, p) <= CalculateExpirationDate(Tomorrow(activatedOn), p)

\* Two terms one after the other give no more than one term of both: the days that the end
\* of a short month costs are not given back (addUtcMonths).
SplittingGainsNothing ==
    \A j, k \in Months :
        NumberOf(AddUtcMonths(AddUtcMonths(activatedOn, j), k)) <= NumberOf(AddUtcMonths(activatedOn, j + k))

\* The period of a membership is never shorter than an entitlement of as many months, and
\* at most the three days longer that February may lack (calculateNextPeriodEnd).
EnginesAgree ==
    \A pair \in {<<"MONTHLY", 1>>, <<"QUARTERLY", 3>>, <<"YEARLY", 12>>} :
        CalculateNextPeriodEnd(activatedOn, pair[1]) - NumberOf(AddUtcMonths(activatedOn, pair[2])) \in 0 .. 3

\* On whatever day an entitlement is issued: later buyers are not cut off earlier, split terms gain
\* nothing, and the two engines differ by what short months lack.
TermsHold ==
    activatedOn # NotActivated => DaysFollowEachOther /\ LaterEndsNoEarlier /\ SplittingGainsNothing /\ EnginesAgree
=============================================================================
