------------------------------ MODULE Budgets ------------------------------
(***************************************************************************)
(* Budgets: an amount for one month, or one that holds from a month on     *)
(* until a later one takes over, beside the ledger they are compared with. *)
(***************************************************************************)
EXTENDS LedgerViews

CONSTANTS
    Limits        \* the amounts of budgets

\* What the constants must be; the modules of the runs assume it.
BudgetAssumption == Limits \subseteq Nat

VARIABLES budgets   \* the rows of the table

Budget == [category : Categories, month : Months, recurring : BOOLEAN, amount : Limits]

vars == <<ledger, edits, budgets>>

\* uq_budget_per_category_month_type
Taken(c, m, rec) ==
    \E b \in budgets : b.category = c /\ b.month = m /\ b.recurring = rec

-----------------------------------------------------------------------------
\* create_budget
CreateBudget(b) ==
    /\ Bounded
    /\ ~Taken(b.category, b.month, b.recurring)
    /\ budgets' = budgets \cup {b}
    /\ UNCHANGED ledger

\* Seeded fault for UpdateBudget: effective_month is not looked at.
UpdateBudgetInPlace(b, amount, effective) ==
    /\ Bounded
    /\ b \in budgets
    /\ amount # b.amount
    /\ budgets' = (budgets \ {b}) \cup {[b EXCEPT !.amount = amount]}
    /\ UNCHANGED ledger

\* update_budget: from another month on, a recurring budget gets a row of its
\* own; the unique key refuses it when that month has one.
UpdateBudget(b, amount, effective) ==
    /\ Bounded
    /\ b \in budgets
    /\ amount # b.amount
    /\ IF b.recurring /\ effective # b.month
       THEN /\ ~Taken(b.category, effective, TRUE)
            /\ budgets' = budgets \cup {[b EXCEPT !.amount = amount, !.month = effective]}
       ELSE budgets' = (budgets \ {b}) \cup {[b EXCEPT !.amount = amount]}
    /\ UNCHANGED ledger

\* delete_budget
DeleteBudget(b) ==
    /\ Bounded
    /\ b \in budgets
    /\ budgets' = budgets \ {b}
    /\ UNCHANGED ledger

\* _build_budget_map and get_budgets: the month's own budget, else the latest
\* recurring one that has begun.
Resolved(c, m) ==
    LET own == {b \in budgets : b.category = c /\ b.month = m /\ ~b.recurring}
        begun == {b \in budgets : b.category = c /\ b.month <= m /\ b.recurring}
    IN  IF own # {} THEN own
        ELSE {b \in begun : \A o \in begun : o.month <= b.month}

-----------------------------------------------------------------------------
Init == LedgerInit /\ budgets = {}

BudgetNext ==
    \/ \E b \in Budget : CreateBudget(b)
    \/ \E b \in budgets, n \in Limits, m \in Months : UpdateBudget(b, n, m)
    \/ \E b \in budgets : DeleteBudget(b)

Next == \/ LedgerNext /\ UNCHANGED budgets
        \/ BudgetNext

Spec == Init /\ [][Next]_vars

-----------------------------------------------------------------------------
(* Properties *)

TypeOK == LedgerTypeOK /\ budgets \subseteq Budget

\* A recurring budget changed from month e on is as it was in every earlier
\* month, and its own rows of single months stand (update_budget).
ChangesFromMonthOn ==
    [][\A b \in budgets, n \in Limits, e \in Months :
          (b.recurring /\ e >= b.month /\ UpdateBudget(b, n, e)) =>
             \A m \in Months : m < e => Resolved(b.category, m)' = Resolved(b.category, m)]_vars
=============================================================================
