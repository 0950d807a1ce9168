---------------------------- MODULE LedgerViews ----------------------------
(***************************************************************************)
(* What the pages show of one ledger.  The dashboard, the report service,  *)
(* the budgets, the goals and the account pages each sum the rows with a   *)
(* filter of their own; the properties say how the sums are related.       *)
(***************************************************************************)
EXTENDS Ledger, Functions

Signed(r) == IF row[r].type = "credit" THEN Amount[r] ELSE -Amount[r]
SignedSum(S) == SumFunction([r \in S |-> Signed(r)])
AmountSum(S) == SumFunction([r \in S |-> Amount[r]])

Open == Accounts \ closed
OnOpen(r) == row[r].account \in Open
Hidden(r) == row[r].category \in hidden

\* realized_only and not is_ignored
Realized(r) == row[r].status # "scheduled" /\ ~row[r].ignored

\* counts_as_pnl, in a ledger without settlements
CountsAsPnl(r) == /\ ~row[r].paired
                  /\ Realized(r)
                  /\ row[r].category \notin transfer \cup hidden

\* reporting_date_col
ReportDate(r) == IF row[r].moved # NoDay THEN row[r].moved
                 ELSE IF accrual THEN Due(r) ELSE row[r].day
FlowDate(r) == IF accrual THEN Due(r) ELSE row[r].day

-----------------------------------------------------------------------------
(* dashboard_service *)

\* _account_balance_at: a connected account is walked back from what the bank
\* says, a manual one is summed up.
BalanceAt(a, d) ==
    LET mine == {r \in Live : row[r].account = a /\ Realized(r)}
        now == IF a \in Cards THEN -held[a] ELSE held[a]
    IN  IF a \in Connected
        THEN now - SignedSum({r \in mine : row[r].day > d})
        ELSE SignedSum({r \in mine : row[r].day <= d})

\* _balance_at
Balance(d) == SumFunction([a \in Open |-> BalanceAt(a, d)])

\* _daily_deltas
Delta(d) == SignedSum({r \in Live : /\ OnOpen(r)
                                    /\ row[r].day = d
                                    /\ Realized(r)
                                    /\ ~Hidden(r)})

\* get_balance_history: the line of the month of day d.
History(d) == Balance(FirstOf(Month(d)) - 1)
              + SumFunction([e \in FirstOf(Month(d)) .. d |-> Delta(e)])

\* What get_summary and get_monthly_trend count in month m.
InMonth(m) == {r \in Live : /\ OnOpen(r)
                            /\ Month(ReportDate(r)) = m
                            /\ CountsAsPnl(r)}
MonthlyIncome(m) ==
    AmountSum({r \in InMonth(m) \ Opening : row[r].type = "credit"})
MonthlyExpenses(m) ==
    AmountSum({r \in InMonth(m) \ Opening : row[r].type = "debit"})

\* get_spending_by_category, which does not leave opening balances out.
SpendingOn(c, m) ==
    AmountSum({r \in InMonth(m) : row[r].type = "debit" /\ row[r].category = c})

-----------------------------------------------------------------------------
(* budget_service *)

\* Seeded fault for Actual: what the category's flags leave out is counted.
ActualAll(c, m) ==
    AmountSum({r \in Live : /\ row[r].type = "debit"
                            /\ row[r].category = c
                            /\ Month(ReportDate(r)) = m
                            /\ Realized(r)})

\* get_budget_vs_actual, which does not join the accounts.
Actual(c, m) ==
    AmountSum({r \in Live : /\ row[r].type = "debit"
                            /\ row[r].category = c
                            /\ Month(ReportDate(r)) = m
                            /\ CountsAsPnl(r)})

-----------------------------------------------------------------------------
(* report_service *)

\* get_income_expenses_report: one bar per month, nothing after today.
BarIncome(m) ==
    AmountSum({r \in InMonth(m) \ Opening : row[r].type = "credit" /\ ReportDate(r) <= today})
BarExpenses(m) ==
    AmountSum({r \in InMonth(m) \ Opening : row[r].type = "debit" /\ ReportDate(r) <= today})

\* Seeded fault for BarOn: the category's bar has the opening balances.
BarOnOpening(c, m) ==
    AmountSum({r \in InMonth(m) : /\ row[r].type = "debit"
                                  /\ row[r].category = c
                                  /\ ReportDate(r) <= today})

\* Its per-category trend, and the investments it shows beside the expenses.
BarOn(c, m) ==
    AmountSum({r \in InMonth(m) \ Opening : /\ row[r].type = "debit"
                                            /\ row[r].category = c
                                            /\ ReportDate(r) <= today})
Invested(c, m) ==
    AmountSum({r \in Live \ Opening : /\ OnOpen(r)
                                      /\ row[r].type = "debit"
                                      /\ row[r].category = c
                                      /\ Month(ReportDate(r)) = m
                                      /\ ReportDate(r) <= today
                                      /\ ~row[r].paired
                                      /\ Realized(r)
                                      /\ c \in transfer \ hidden})

Abs(n) == IF n < 0 THEN -n ELSE n

\* _net_worth_at, the accounts' part: every card is a liability.
Liable(a, d) == a \in Cards \/ BalanceAt(a, d) < 0
NetWorth(d) == SumFunction([a \in Open |-> IF Liable(a, d) THEN -Abs(BalanceAt(a, d))
                                                            ELSE BalanceAt(a, d)])

\* _report_start_date: the report of n months begins with a month.
ReportStart(n) == FirstOf(Month(today) - n)

\* get_net_worth_report: the change it states for its window.
NetWorthChange(n) == NetWorth(today) - NetWorth(ReportStart(n))

\* _resolve_current_amount of a goal that tracks net worth.
GoalNetWorth == SumFunction([a \in Open |-> BalanceAt(a, today)])

\* get_cash_flow_report: the window, the flows and the walks from today.
ChartStart == today - MonthLength
ChartEnd == today + MonthLength
Flows == {r \in Live \ Opening : OnOpen(r) /\ CountsAsPnl(r)}

\* get_income_expenses_report over its whole window of n months: the totals of its
\* summary and the composition by category.
BarsOf(n) == Month(today) - n .. Month(today)
ReportIncome(n) == SumFunction([m \in BarsOf(n) |-> BarIncome(m)])
ReportExpenses(n) == SumFunction([m \in BarsOf(n) |-> BarExpenses(m)])
Composed(c, type, n) ==
    AmountSum({r \in Flows : /\ ReportDate(r) \in ReportStart(n) .. today
                             /\ row[r].type = type
                             /\ row[r].category = c})

\* Purchases already in the card's balance that flow out when they are due.
PendingPurchases ==
    {r \in Flows : /\ row[r].account \in Cards
                   /\ row[r].day <= today
                   /\ Due(r) > today
                   /\ Due(r) <= ChartEnd}

Anchor == Balance(today) - (IF accrual THEN SignedSum(PendingPurchases) ELSE 0)

WalkBack(d) == Anchor - SignedSum({r \in Flows : FlowDate(r) > d /\ FlowDate(r) <= today})
WalkOn(d) == Anchor + SignedSum({r \in Flows : FlowDate(r) > today /\ FlowDate(r) <= d})

\* The chart by months: the balance of the last day of a month that the chart
\* has, and what came in and went out on all of them.
InChart(m) == {d \in ChartStart .. ChartEnd : Month(d) = m}
Booked(type, days) ==
    AmountSum({r \in Flows : /\ row[r].type = type
                             /\ FlowDate(r) \in days \ {ChartStart}})
MonthPoint(m) ==
    LET last == Max(InChart(m))
    IN  [balance |-> IF last <= today THEN WalkBack(last) ELSE WalkOn(last),
         inflow |-> Booked("credit", InChart(m)), outflow |-> Booked("debit", InChart(m))]

\* Its summary: only what is still to come counts as projected.
Projection ==
    [starting |-> Anchor, ending |-> WalkOn(ChartEnd),
     income |-> Booked("credit", today + 1 .. ChartEnd),
     expenses |-> Booked("debit", today + 1 .. ChartEnd)]

-----------------------------------------------------------------------------
(* account_service *)

\* get_accounts: the balance in the list of accounts.
Listed(a) == IF a \in Connected
             THEN (IF a \in Cards THEN -held[a] ELSE held[a])
             ELSE SignedSum({r \in Live : row[r].account = a /\ Realized(r) /\ ~Hidden(r)})

\* _account_balance_at of account_service: the line on the account's page.
PageBalance(a, d) ==
    SignedSum({r \in Live : /\ row[r].account = a
                            /\ row[r].day <= d
                            /\ Realized(r)
                            /\ ~Hidden(r)})

\* get_account_summary of a window, when no bill is chosen.  A card nets refunds
\* and leaves opening balances out; the expenses of other accounts have them.
Bucket(r) == IF row[r].moved # NoDay THEN row[r].moved ELSE row[r].day
Window(a, m) == {r \in Live : row[r].account = a /\ Month(Bucket(r)) = m /\ CountsAsPnl(r)}
AccountIncome(a, m) == AmountSum({r \in Window(a, m) \ Opening : row[r].type = "credit"})
AccountExpenses(a, m) ==
    IF a \in Cards THEN -SignedSum(Window(a, m) \ Opening)
    ELSE AmountSum({r \in Window(a, m) : row[r].type = "debit"})

\* Everything the account has still to pay.
StillToPay(a) == AmountSum({r \in Live : /\ row[r].account = a
                                         /\ row[r].type = "debit"
                                         /\ row[r].status = "scheduled"
                                         /\ ~row[r].ignored /\ ~Hidden(r)})

-----------------------------------------------------------------------------
(* Properties *)

Months == 0 .. Month(MaxDay) + 1
PastDays == FirstOf(Month(today)) .. today

\* What the cards are overpaid on day d
Overpaid(d) == SumFunction([a \in Open \cap Cards |-> IF BalanceAt(a, d) > 0 THEN BalanceAt(a, d)
                                                                         ELSE 0])

\* The dashboard's line of the current month passes through the balance it
\* shows for each day, but for the rows of ignored categories: the start of
\* the line has them, its steps leave them out (_daily_deltas, _balance_at).
HistoryMeetsBalance ==
    \A d \in PastDays :
       History(d) = Balance(d) - SignedSum({r \in Live : /\ OnOpen(r)
                                                         /\ row[r].day \in FirstOf(Month(d)) .. d
                                                         /\ Realized(r)
                                                         /\ Hidden(r)})

\* "This is consistent with _balance_at" (_daily_deltas).
HistoryIsBalance == \A d \in PastDays : History(d) = Balance(d)

\* The dashboard's categories add up to the month's expenses, once the opening
\* balances that only the categories count are taken off, in both modes and
\* wherever the user moved a purchase (get_summary, get_spending_by_category).
CategoriesAddUp ==
    \A m \in Months :
       SumFunction([c \in Categories \cup {NoCategory} |-> SpendingOn(c, m)])
         = MonthlyExpenses(m)
           + AmountSum({r \in InMonth(m) \cap Opening : row[r].type = "debit"})

\* A budget is compared with what the dashboard shows for its category, and
\* with what was spent from accounts that are closed since.
BudgetsAgree ==
    \A m \in Months, c \in Categories :
       Actual(c, m) = SpendingOn(c, m)
                      + AmountSum({r \in Live : /\ ~OnOpen(r)
                                                /\ row[r].type = "debit"
                                                /\ row[r].category = c
                                                /\ Month(ReportDate(r)) = m
                                                /\ CountsAsPnl(r)})

\* No debit is an expense and an investment, and for a month that is over the
\* report's bar is the dashboard's total and the sum of its categories.
ReportAgrees ==
    \A m \in Months :
       /\ LastOf(m) <= today =>
             /\ BarExpenses(m) = MonthlyExpenses(m)
             /\ BarIncome(m) = MonthlyIncome(m)
       /\ SumFunction([c \in Categories \cup {NoCategory} |-> BarOn(c, m)]) = BarExpenses(m)
       /\ \A c \in Categories : BarOn(c, m) = 0 \/ Invested(c, m) = 0

\* The report's net worth is the goal's, less twice what cards are overpaid:
\* the report counts every card as a liability, whatever its sign.
NetWorthMeetsGoal ==
    NetWorth(today) = GoalNetWorth - 2 * Overpaid(today)

\* Net worth has moved, since any day a report begins with, by what was booked on
\* the open accounts since, less twice what cards are more overpaid than then.
NetWorthMoves ==
    \A n \in 1 .. 2 :
       NetWorthChange(n) =
          SignedSum({r \in Live : /\ OnOpen(r) /\ Realized(r)
                                  /\ row[r].day \in ReportStart(n) + 1 .. today})
          - 2 * (Overpaid(today) - Overpaid(ReportStart(n)))

\* Over the months of a report the composition adds up to its totals, and for a
\* category to its bars, wherever the window begins and whatever is moved into it.
CompositionAddsUp ==
    \A n \in 1 .. 2 :
       LET all(type) == SumFunction([c \in Categories \cup {NoCategory} |-> Composed(c, type, n)])
       IN  /\ all("credit") = ReportIncome(n)
           /\ all("debit") = ReportExpenses(n)
           /\ \A c \in Categories :
                 Composed(c, "debit", n) = SumFunction([m \in BarsOf(n) |-> BarOn(c, m)])

\* The cash flow chart by months: each point is the one before, what came in and
\* what went out, across today; and the projected income and expenses lead from
\* the balance it starts with to the one it ends with, in both modes.
ChartAddsUp ==
    LET point == [m \in Month(ChartStart) .. Month(ChartEnd) |-> MonthPoint(m)]
        sum == Projection
    IN  /\ \A m \in Month(ChartStart) + 1 .. Month(ChartEnd) :
              point[m].balance = point[m - 1].balance + point[m].inflow - point[m].outflow
        /\ sum.ending = sum.starting + sum.income - sum.expenses

\* Seen in both modes: the chart of the cash flow ends at the same balance
\* when everything booked by then is due by then; a purchase is in the card's
\* balance or in the flows, never in both (pending_cc of get_cash_flow_report).
ModesMeet ==
    (\A r \in Flows : row[r].day <= ChartEnd => Due(r) <= ChartEnd) =>
       WalkOn(ChartEnd) = Balance(today)
                          + SignedSum({r \in Flows : row[r].day > today /\ row[r].day <= ChartEnd})

\* In cash mode the walk back from today meets the dashboard's balance on each
\* day after which nothing but income and expenses moved money.
WalkMeetsBalance ==
    \A d \in (ChartStart + 1) .. today :
       (/\ ~accrual
        /\ \A r \in Live : (OnOpen(r) /\ Realized(r) /\ row[r].day > d /\ row[r].day <= today)
                             => r \in Flows)
       => WalkBack(d) = Balance(d)

\* A manual account: the list, the line on its page and the dashboard differ
\* by the rows dated ahead and the rows of ignored categories, no others.
AccountPagesAgree ==
    \A a \in Accounts \ Connected :
       /\ Listed(a) = PageBalance(a, today)
                      + SignedSum({r \in Live : /\ row[r].account = a
                                                /\ row[r].day > today
                                                /\ Realized(r)
                                                /\ ~Hidden(r)})
       /\ BalanceAt(a, today) = PageBalance(a, today)
                                + SignedSum({r \in Live : /\ row[r].account = a
                                                          /\ row[r].day <= today
                                                          /\ Realized(r)
                                                          /\ Hidden(r)})

\* In cash mode the income and the expenses on the pages of the open accounts add
\* up to the dashboard's, but for refunds, which only cards net, and the opening
\* balances that are debits, which only the pages of other accounts count.
AccountPagesAddUp ==
    ~accrual => \A m \in Months :
       /\ SumFunction([a \in Open |-> AccountIncome(a, m)]) = MonthlyIncome(m)
       /\ SumFunction([a \in Open |-> AccountExpenses(a, m)]) =
             MonthlyExpenses(m)
             - AmountSum({r \in InMonth(m) \ Opening : row[r].type = "credit"
                                                      /\ row[r].account \in Cards})
             + AmountSum({r \in InMonth(m) \cap Opening : row[r].type = "debit"
                                                         /\ row[r].account \notin Cards})

\* No row of a manual account is both in its balance and still to be paid, and
\* none that counts is in neither, scheduled income apart (get_account_summary).
PaidOrToPay ==
    \A a \in Accounts \ Connected :
       Listed(a) - StillToPay(a)
         = SignedSum({r \in Live : /\ row[r].account = a
                                   /\ ~row[r].ignored /\ ~Hidden(r)
                                   /\ ~(row[r].status = "scheduled" /\ row[r].type = "credit")})

\* What the dashboard shows fits together and fits the pages of the budgets and
\* of the accounts.
DashboardAgrees ==
    /\ LedgerTypeOK
    /\ HistoryMeetsBalance /\ CategoriesAddUp /\ BudgetsAgree
    /\ AccountPagesAgree /\ AccountPagesAddUp /\ PaidOrToPay

\* What the reports show fits together and fits the dashboard and the goals.
ReportsAgree == /\ ReportAgrees /\ CompositionAddsUp /\ NetWorthMeetsGoal /\ NetWorthMoves
                /\ ModesMeet /\ WalkMeetsBalance /\ ChartAddsUp
=============================================================================
