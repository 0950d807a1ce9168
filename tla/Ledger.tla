------------------------------- MODULE Ledger -------------------------------
(***************************************************************************)
(* A small ledger as the dashboard, the reports and the budgets read it:   *)
(* rows in the accounts of one workspace, the flags of their categories,   *)
(* the balances the bank reports and the day.  One currency and one user;  *)
(* shared expenses are in SharedLedger, projected bills in BillForecast.   *)
(***************************************************************************)
EXTENDS Integers, FiniteSets, FiniteSetsExt

CONSTANTS
    Rows,         \* ids of rows of transactions
    Amount,       \* their amounts
    Accounts,
    Cards,        \* the credit cards among them
    Connected,    \* the accounts a bank connection feeds
    Categories,
    NoCategory,
    Days,         \* the days rows are dated
    Moved,        \* the values the user gives effective_bill_date
    NoDay,
    MonthLength,
    Opening,      \* the rows that are opening balances
    MaxDay,       \* bound: the last day
    MaxEdits      \* bound: steps of the users and the bank

\* What the constants must be; the modules of the runs assume it.
LedgerAssumption ==
    /\ IsFiniteSet(Rows) /\ IsFiniteSet(Accounts) /\ IsFiniteSet(Categories)
    /\ Amount \in [Rows -> Nat \ {0}]
    /\ Cards \subseteq Accounts /\ Connected \subseteq Accounts
    /\ Opening \subseteq Rows
    /\ Days \subseteq Nat /\ Moved \subseteq Nat /\ NoDay \notin Moved
    /\ MonthLength \in Nat \ {0} /\ MaxDay \in Nat /\ MaxEdits \in Nat

VARIABLES
    row,        \* the transactions
    held,       \* accounts.balance of the connected accounts, as the bank says
    closed,     \* the accounts with is_closed
    transfer,   \* the categories with treat_as_transfer
    hidden,     \* the categories with is_ignored
    accrual,    \* credit_card_accounting_mode
    today,
    edits

ledger == <<row, held, closed, transfer, hidden, accrual, today>>

NoRow == [account |-> "none"]

Row == [account : Accounts, day : Days, type : {"credit", "debit"},
        status : {"scheduled", "pending", "posted"},
        category : Categories \cup {NoCategory}, ignored : BOOLEAN,
        paired : BOOLEAN, moved : Moved \cup {NoDay}]

Live == {r \in Rows : row[r] # NoRow}

\* Every month has MonthLength days; days count from the first of month 0.
Month(d) == d \div MonthLength
FirstOf(m) == m * MonthLength
LastOf(m) == FirstOf(m + 1) - 1

\* effective_date of a row on day d of account a: a card's purchases are due
\* on the second day of the next month (CardCycle has the real cycles).
DueOn(a, d) == IF a \in Cards THEN FirstOf(Month(d) + 1) + 1 ELSE d
Due(r) == DueOn(row[r].account, row[r].day)

-----------------------------------------------------------------------------
Bounded == edits < MaxEdits /\ edits' = edits + 1

\* create_transaction and create_account's opening balance; a debit that is due
\* in the future is scheduled unless the form gives a status.
AddRow(r, a, d, t, c, m) ==
    /\ Bounded
    /\ row[r] = NoRow
    /\ a \notin closed
    /\ r \in Opening => a \notin Connected /\ d <= today /\ c = NoCategory
    /\ m # NoDay => a \in Cards
    /\ row' = [row EXCEPT ![r] =
                 [account |-> a, day |-> d, type |-> t, category |-> c,
                  status |-> IF t = "debit" /\ DueOn(a, d) > today /\ r \notin Opening
                             THEN "scheduled" ELSE "posted",
                  ignored |-> FALSE, paired |-> FALSE, moved |-> m]]
    /\ UNCHANGED <<held, closed, transfer, hidden, accrual, today>>

\* sync_connection brings a charge with the account's new balance, in which a
\* pending charge may not be yet.  The bank counts a card's debt as positive.
SyncRow(r, a, t, s) ==
    /\ Bounded
    /\ row[r] = NoRow /\ r \notin Opening
    /\ a \in Connected
    /\ today \in Days
    /\ row' = [row EXCEPT ![r] =
                 [account |-> a, day |-> today, type |-> t, category |-> NoCategory,
                  status |-> s, ignored |-> FALSE, paired |-> FALSE, moved |-> NoDay]]
    /\ \E booked \in IF s = "pending" THEN {0, Amount[r]} ELSE {Amount[r]} :
          held' = [held EXCEPT ![a] =
                     IF (t = "credit") = (a \notin Cards) THEN @ + booked ELSE @ - booked]
    /\ UNCHANGED <<closed, transfer, hidden, accrual, today>>

\* update_transaction with a status, a category, or is_ignored toggled.
EditRow(r, s, c, i) ==
    /\ Bounded
    /\ r \in Live
    /\ row' = [row EXCEPT ![r] = [@ EXCEPT !.status = s, !.category = c, !.ignored = i]]
    /\ row' # row
    /\ UNCHANGED <<held, closed, transfer, hidden, accrual, today>>

\* link_existing_as_transfer and unlink_transfer on two rows of one amount.
Pair(a, b) ==
    /\ Bounded
    /\ {a, b} \subseteq Live /\ Amount[a] = Amount[b]
    /\ row[a].type = "debit" /\ row[b].type = "credit"
    /\ row[a].account # row[b].account
    /\ row[a].paired = row[b].paired
    /\ row' = [r \in Rows |-> IF r \in {a, b} THEN [row[r] EXCEPT !.paired = ~@]
                                              ELSE row[r]]
    /\ UNCHANGED <<held, closed, transfer, hidden, accrual, today>>

\* close_account and reopen_account
Close(a) ==
    /\ Bounded
    /\ closed' = IF a \in closed THEN closed \ {a} ELSE closed \cup {a}
    /\ UNCHANGED <<row, held, transfer, hidden, accrual, today>>

\* update_category
Flag(c, asTransfer, ignored) ==
    /\ Bounded
    /\ transfer' = IF asTransfer THEN transfer \cup {c} ELSE transfer \ {c}
    /\ hidden' = IF ignored THEN hidden \cup {c} ELSE hidden \ {c}
    /\ <<transfer', hidden'>> # <<transfer, hidden>>
    /\ UNCHANGED <<row, held, closed, accrual, today>>

\* The administrator changes the accounting mode.
SetMode ==
    /\ Bounded
    /\ accrual' = ~accrual
    /\ UNCHANGED <<row, held, closed, transfer, hidden, today>>

PassDay ==
    /\ today < MaxDay
    /\ today' = today + 1
    /\ UNCHANGED <<row, held, closed, transfer, hidden, accrual, edits>>

LedgerInit ==
    /\ row = [r \in Rows |-> NoRow]
    /\ held = [a \in Connected |-> 0]
    /\ closed = {} /\ transfer = {} /\ hidden = {}
    /\ accrual \in BOOLEAN
    /\ today = MonthLength + 1
    /\ edits = 0

LedgerNext ==
    \/ \E r \in Rows, a \in Accounts, d \in Days, t \in {"credit", "debit"},
          c \in Categories \cup {NoCategory}, m \in Moved \cup {NoDay} :
             AddRow(r, a, d, t, c, m)
    \/ \E r \in Rows, a \in Connected, t \in {"credit", "debit"},
          s \in {"pending", "posted"} : SyncRow(r, a, t, s)
    \/ \E r \in Rows, s \in {"scheduled", "posted"},
          c \in Categories \cup {NoCategory}, i \in BOOLEAN : EditRow(r, s, c, i)
    \/ \E a, b \in Rows : Pair(a, b)
    \/ \E a \in Accounts : Close(a)
    \/ \E c \in Categories, t, i \in BOOLEAN : Flag(c, t, i)
    \/ SetMode
    \/ PassDay

LedgerTypeOK ==
    /\ row \in [Rows -> Row \cup {NoRow}]
    /\ held \in [Connected -> Int]
    /\ closed \subseteq Accounts
    /\ transfer \subseteq Categories /\ hidden \subseteq Categories
    /\ accrual \in BOOLEAN
    /\ today \in Nat /\ edits \in Nat
=============================================================================
