----------------------------- MODULE MCBudgets -----------------------------
(***************************************************************************)
(* Budgets with its rows called entries in a book, so that it may stand    *)
(* beside other components in one module, and a small instance of it: a    *)
(* manual account and a connected card; and the axes of the reports over   *)
(* every window of a few short years.                                      *)
(***************************************************************************)
EXTENDS Integers, TLC

CONSTANTS Rows, Costs, Books, Cards, Connected, Categories, NoCategory, Days, Moved, Undated,
          DaysInMonth, Opening, Limits, MaxDay, MaxSteps, r1, r2, r3

VARIABLES booked, held, closed, transfer, hidden, accrual, today, steps, budgets

Views == INSTANCE Budgets WITH
             Amount <- Costs, Accounts <- Books, NoDay <- Undated, MonthLength <- DaysInMonth,
             MaxEdits <- MaxSteps, row <- booked, edits <- steps

ASSUME ViewsAssumption == Views!LedgerAssumption /\ Views!BudgetAssumption

ViewsSpec == Views!Spec

\* What the dashboard shows fits together and fits the pages of the budgets and
\* of the accounts.
DashboardAgrees == Views!DashboardAgrees

\* What the reports show fits together and fits the dashboard and the goals.
ReportsAgree == Views!ReportsAgree

\* Changing a recurring budget from a month on leaves the months before as they
\* were.
ChangesFromMonthOn == Views!ChangesFromMonthOn

\* r1 and r2 may be the legs of a transfer.
ThreeCosts == [r \in {r1, r2, r3} |-> IF r = r3 THEN 5 ELSE 2]

Swap == Permutations({r1, r2})

Axis == INSTANCE DatePoints WITH Week <- 7, MonthDays <- 10, YearDays <- 30

ASSUME AxisAssumption == Axis!PointsAssumption

ASSUME AxisCoversWindow ==
    \A start, end \in 0 .. 70 : \A i \in Axis!Intervals :
       start <= end => Axis!CoversWindow(start, end, i)
=============================================================================
