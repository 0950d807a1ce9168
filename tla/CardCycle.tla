------------------------------- MODULE CardCycle -------------------------------
(***************************************************************************)
(* The calendar of a credit card: when a statement closes, when it is due, *)
(* and to which statement a purchase belongs.  credit_card_service.py      *)
(* computes it for the server, account-detail.tsx a second time for the    *)
(* bars and windows the user sees.                                         *)
(*                                                                         *)
(* Days are numbered from 1, the first of a January; years have 365 days.  *)
(***************************************************************************)
EXTENDS Integers

NoDay == 0

\* What has passed of a year when its months begin.
Passed == <<0, 31, 59, 90, 120, 151, 181, 212, 243, 273, 304, 334>>

\* Month 0 is the first; the years before it have negative months.
MonthStart(m) == 365 * (m \div 12) + Passed[(m % 12) + 1] + 1
MonthLength(m) == MonthStart(m + 1) - MonthStart(m)

MonthOf(d) == CHOOSE m \in 0 .. (d \div 28) : MonthStart(m) <= d /\ d < MonthStart(m + 1)

\* Day n of month m, or the month's last day.
ClampDay(m, n) == MonthStart(m) + (IF n <= MonthLength(m) THEN n ELSE MonthLength(m)) - 1

\* The first day n of a month strictly after d.
FirstAfter(d, n) ==
    IF ClampDay(MonthOf(d), n) > d THEN ClampDay(MonthOf(d), n)
    ELSE ClampDay(MonthOf(d) + 1, n)

NextDayOccurrence(n, d) ==
    IF ClampDay(MonthOf(d), n) >= d THEN ClampDay(MonthOf(d), n)
    ELSE ClampDay(MonthOf(d) + 1, n)

\* The last day n of a month on or before d.
LastOnOrBefore(d, n) ==
    IF ClampDay(MonthOf(d), n) <= d THEN ClampDay(MonthOf(d), n)
    ELSE ClampDay(MonthOf(d) - 1, n)

\* get_cycle_dates: the due date ahead and the close before it.
NextDue(d, due) == NextDayOccurrence(due, d)
NextClose(d, close, due) == LastOnOrBefore(NextDue(d, due), close)

\* compute_effective_date: the due date of the statement a purchase falls into.
ComputeEffectiveDate(d, close, due) ==
    IF close = NoDay \/ due = NoDay THEN d
    ELSE FirstAfter(FirstAfter(d, close), due)

\* _compute_bill_close_date
BillCloseDate(due, close) == IF close = NoDay THEN due ELSE LastOnOrBefore(due, close)

-----------------------------------------------------------------------------
(* The windows of the web application *)

\* creditCardCycleBoundaries
CycleEnd(d, close) == FirstAfter(d, close) - 1
CycleStart(d, close) == ClampDay(MonthOf(FirstAfter(d, close)) - 1, close)

\* rangeForBill, of a bill due on a day and the due date of the one before.
BillRangeStart(due, previous) == IF previous = NoDay THEN due - 45 ELSE previous + 1
=============================================================================
