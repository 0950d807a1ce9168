------------------------------- MODULE CardBills -------------------------------
(***************************************************************************)
(* A credit card connected to a bank: its purchases, the bills the bank    *)
(* reports, and three columns that say where a purchase belongs, bill_id,  *)
(* effective_bill_date (the user's word) and effective_date (stored for    *)
(* reports, derived from everything else whenever the code thinks of it).  *)
(*                                                                         *)
(* Amounts play no part.  A second account stands for every plain one.     *)
(***************************************************************************)
EXTENDS CardCycle, FiniteSets

CONSTANTS
    Rows,       \* rows the user or the feed may bring
    Charges,    \* fees the bank may put on a bill
    Bills,      \* the bank's bills
    NoBill,     \* bill_id is null
    Days,       \* days of purchases
    DueDates,   \* days bills may be due, and overrides point to
    CloseDays,  \* values of statement_close_day
    DueDays,    \* values of payment_due_day
    Today,
    MaxEdits    \* bound: how many edits of the user and of the bank

ASSUME BillsAssumption == NoBill \notin Bills /\ Rows \cap Charges = {}
ASSUME CycleAssumption == /\ Days \subseteq Nat \ {0}
                          /\ DueDates \subseteq Nat \ (0 .. 31)  \* the first month closes before
                          /\ CloseDays \cup DueDays \subseteq 1 .. 31
                          /\ Today \in Nat \ {0} /\ MaxEdits \in Nat

VARIABLES
    card,   \* type and cycle days of the account
    due,    \* the due date of every bill that has been ingested
    row,
    behind, \* history: rows of the card whose month is of days it had before
    edits   \* bound

vars == <<card, due, row, behind, edits>>

AnyRow == Rows \cup Charges
Row == [kind : {"none", "manual", "sync", "charge"}, onCard : BOOLEAN, date : Nat,
        override : Nat, bill : Bills \cup {NoBill}, tag : Bills \cup {NoBill},
        eff : Nat, pending : BOOLEAN]
NoRow == [kind |-> "none", onCard |-> FALSE, date |-> NoDay, override |-> NoDay,
          bill |-> NoBill, tag |-> NoBill, eff |-> NoDay, pending |-> FALSE]

Live == {r \in AnyRow : row[r] # NoRow}
Ingested == {b \in Bills : due[b] # NoDay}
IsCard(x) == x.onCard /\ card.type = "credit_card"

-----------------------------------------------------------------------------
(* effective_date and bill_id *)

\* apply_effective_date
Effective(x, billDue, c) ==
    IF x.override # NoDay THEN x.override
    ELSE IF x.onCard /\ c.type = "credit_card"
         THEN IF billDue # NoDay THEN billDue
              ELSE ComputeEffectiveDate(x.date, c.close, c.due)
    ELSE x.date

Applied(x, billDue) == [x EXCEPT !.eff = Effective(x, billDue, card)]

\* _resync_bill_link_from_override: the bill the override names, or, when it is
\* cleared, the one the bank's data named.
Relinked(x) ==
    LET named == {b \in Ingested : due[b] = x.override}
    IN  IF ~IsCard(x) THEN x
        ELSE IF x.override # NoDay
             THEN [x EXCEPT !.bill = IF named = {} THEN NoBill ELSE CHOOSE b \in named : TRUE]
        ELSE [x EXCEPT !.bill = IF x.kind = "sync" /\ x.tag \in Ingested THEN x.tag ELSE NoBill]

Bounded == edits < MaxEdits /\ edits' = edits + 1

\* The month of r is worked out again.
Settled(r) == behind' = behind \ {r}

-----------------------------------------------------------------------------
(* The user *)

\* create_transaction
Enter(r, onCard, d, override) ==
    /\ r \in Rows \ Live
    /\ row' = [row EXCEPT ![r] =
                 Relinked(Applied([NoRow EXCEPT !.kind = "manual", !.onCard = onCard,
                                                !.date = d, !.override = override], NoDay))]
    /\ UNCHANGED <<card, due, behind, edits>>

\* update_transaction with a date: a status the form does not send is derived.
EditDate(r, d) ==
    /\ Bounded
    /\ r \in Live
    /\ row' = [row EXCEPT ![r] = Applied([@ EXCEPT !.date = d, !.pending = FALSE], NoDay)]
    /\ Settled(r)
    /\ UNCHANGED <<card, due>>

\* update_transaction with another account; bill_id stays.
MoveToAccount(r) ==
    /\ Bounded
    /\ r \in Live
    /\ row' = [row EXCEPT ![r] = Applied([@ EXCEPT !.onCard = ~row[r].onCard, !.pending = FALSE],
                                          NoDay)]
    /\ Settled(r)
    /\ UNCHANGED <<card, due>>

\* update_transaction with effective_bill_date, set or cleared.
SetOverride(r, override) ==
    /\ Bounded
    /\ r \in Live
    /\ row' = [row EXCEPT ![r] =
                 Applied(Relinked([@ EXCEPT !.override = override, !.pending = FALSE]), NoDay)]
    /\ Settled(r)
    /\ UNCHANGED <<card, due>>

Delete(r) ==
    /\ r \in Live
    /\ row' = [row EXCEPT ![r] = NoRow]
    /\ Settled(r)
    /\ UNCHANGED <<card, due, edits>>

\* _recompute_effective_dates under the settings c.
Recomputed(c) == [r \in AnyRow |-> IF r \in Live /\ row[r].onCard
                                   THEN [row[r] EXCEPT !.eff = Effective(row[r], NoDay, c)]
                                   ELSE row[r]]

\* Seeded fault for ChangeCycle: history keeps its bills.
ChangeCycleOnly(close, dueDay) ==
    /\ Bounded
    /\ card.type = "credit_card"
    /\ card' = [card EXCEPT !.close = close, !.due = dueDay]
    /\ UNCHANGED <<due, row, behind>>

\* update_account with new cycle days.
ChangeCycle(close, dueDay) ==
    LET c == [card EXCEPT !.close = close, !.due = dueDay]
    IN  /\ Bounded
        /\ card.type = "credit_card"
        /\ card' = c
        /\ row' = Recomputed(c)
        /\ behind' = {}
        /\ UNCHANGED due

\* update_account with another type.  Leaving "credit_card" clears the cycle
\* days and may not send any, so nothing is recomputed.
ChangeType ==
    /\ Bounded
    /\ card' = IF card.type = "credit_card"
               THEN [type |-> "checking", close |-> NoDay, due |-> NoDay]
               ELSE [card EXCEPT !.type = "credit_card"]
    /\ UNCHANGED <<due, row, behind>>

-----------------------------------------------------------------------------
(* The bank *)

\* A sync finds the account with other cycle days and writes them down; the
\* rows keep the months they have (sync_connection, unlike update_account).
SyncCycle(close, dueDay) ==
    /\ Bounded
    /\ card' = [card EXCEPT !.close = close, !.due = dueDay]
    /\ card' # card
    /\ behind' = behind \cup {r \in Live \cap Rows : row[r].onCard}
    /\ UNCHANGED <<due, row>>

\* The bank issues bill b, or gives it another due date, with some fees.  Fees
\* it no longer reports go, unless it reports none at all.
SyncBill(b, d, fees) ==
    /\ card.type = "credit_card"
    /\ \A c \in Ingested \ {b} : due[c] # d
    /\ b \in Ingested /\ due[b] # d => edits < MaxEdits
    /\ edits' = IF b \in Ingested /\ due[b] # d THEN edits + 1 ELSE edits
    /\ fees \subseteq {c \in Charges : c \in Live => row[c].tag = b /\ row[c].onCard}
    /\ due' = [due EXCEPT ![b] = d]
    /\ row' = [r \in AnyRow |->
                 IF r \in fees
                 THEN [(IF r \in Live THEN row[r] ELSE [NoRow EXCEPT !.kind = "charge",
                                                        !.onCard = TRUE, !.tag = b])
                        EXCEPT !.date = BillCloseDate(d, card.close), !.eff = d, !.bill = b]
                 ELSE IF /\ fees # {}
                         /\ r \in Charges
                         /\ row[r].tag = b
                         /\ row[r].bill = b
                         /\ row[r].onCard
                      THEN NoRow
                 ELSE row[r]]
    /\ UNCHANGED <<card, behind>>

\* The bill a charge of the feed names, when the bills could be fetched.
BillNamed(tag, fetched) == IF fetched /\ tag \in Ingested THEN tag ELSE NoBill
DueOf(b) == IF b = NoBill THEN NoDay ELSE due[b]

\* A purchase the feed reports for the first time.
SyncNew(r, d, tag, pending, fetched) ==
    LET b == BillNamed(tag, fetched)
    IN  /\ r \in Rows \ Live
        /\ row' = [row EXCEPT ![r] =
                     Applied([NoRow EXCEPT !.kind = "sync", !.onCard = TRUE, !.date = d, !.tag = tag,
                                           !.bill = b, !.pending = pending], DueOf(b))]
        /\ UNCHANGED <<card, due, behind, edits>>

\* The feed reports it again, posted, and perhaps on a bill.
SyncAgain(r, tag, fetched) ==
    LET b == BillNamed(tag, fetched)
        x == [row[r] EXCEPT !.pending = FALSE]
        found == b # NoBill /\ x.override = NoDay /\ x.bill # b
    IN  /\ row[r].kind = "sync" /\ row[r].onCard
        /\ row' = [row EXCEPT ![r] = IF found THEN Applied([x EXCEPT !.bill = b], DueOf(b)) ELSE x]
        /\ IF found THEN Settled(r) ELSE UNCHANGED behind
        /\ UNCHANGED <<card, due, edits>>

-----------------------------------------------------------------------------
(* What the page of the card shows: one bar for every bill, and one for the *)
(* cycle that is still open.                                                *)

Previous(b) ==
    LET earlier == {due[c] : c \in {c \in Ingested : due[c] < due[b]}}
    IN  IF earlier = {} THEN NoDay ELSE CHOOSE d \in earlier : \A e \in earlier : e <= d

Bucket(x) == IF x.override # NoDay THEN x.override ELSE x.date

\* A pending charge of the feed waits for the bank to say which bill it is on.
Deferred(x, b) == x.kind = "sync" /\ x.pending /\ x.override = NoDay /\ x.eff # due[b]

\* Seeded fault for InBill: the rows the bank has put on another bill are not
\* left out of the window.
InBillByWindow(x, b) ==
    /\ x.onCard
    /\ \/ x.bill = b
       \/ /\ ~Deferred(x, b)
          /\ Bucket(x) \in BillRangeStart(due[b], Previous(b)) .. due[b]

InBill(x, b) ==
    /\ x.onCard
    /\ \/ x.bill = b
       \/ /\ x.bill = NoBill
          /\ ~Deferred(x, b)
          /\ Bucket(x) \in BillRangeStart(due[b], Previous(b)) .. due[b]

InOpenCycle(x) ==
    /\ x.onCard
    /\ x.bill = NoBill
    /\ \/ Bucket(x) \in CycleStart(Today, card.close) .. CycleEnd(Today, card.close)
       \/ x.override # NoDay /\ x.override > CycleEnd(Today, card.close)

-----------------------------------------------------------------------------
Init ==
    /\ card \in [type : {"credit_card"}, close : CloseDays, due : DueDays]
    /\ due = [b \in Bills |-> NoDay]
    /\ row = [r \in AnyRow |-> NoRow]
    /\ behind = {}
    /\ edits = 0

User ==
    \/ \E r \in Rows, onCard \in BOOLEAN, d \in Days, o \in DueDates \cup {NoDay} :
          Enter(r, onCard, d, o)
    \/ \E r \in AnyRow : \/ \E d \in Days : EditDate(r, d)
                         \/ \E o \in DueDates \cup {NoDay} : SetOverride(r, o)
                         \/ MoveToAccount(r)
                         \/ Delete(r)
    \/ \E c \in CloseDays, d \in DueDays : ChangeCycle(c, d)

Bank ==
    \/ \E c \in CloseDays, d \in DueDays : SyncCycle(c, d)
    \/ \E b \in Bills, d \in DueDates, fees \in SUBSET Charges : SyncBill(b, d, fees)
    \/ \E r \in Rows, tag \in Bills \cup {NoBill}, fetched \in BOOLEAN :
          \/ \E d \in Days, pending \in BOOLEAN : SyncNew(r, d, tag, pending, fetched)
          \/ SyncAgain(r, tag, fetched)

Next == User \/ Bank
NextAnyType == Next \/ ChangeType

Spec == Init /\ [][Next]_vars
AnyTypeSpec == Init /\ [][NextAnyType]_vars

TypeOK ==
    /\ card \in [type : {"credit_card", "checking"}, close : 0 .. 31, due : 0 .. 31]
    /\ due \in [Bills -> Nat]
    /\ row \in [AnyRow -> Row]
    /\ \A r \in Live : row[r].bill \in Ingested \cup {NoBill}
    /\ behind \subseteq Rows /\ edits \in 0 .. MaxEdits

-----------------------------------------------------------------------------
(* Properties *)

\* The user's override decides the month of a row, whatever the bank reports,
\* whatever the order of syncs, moves and edits (apply_effective_date).  The
\* fees of a bill are the bank's: a sync dates them anew.
OverrideWins ==
    \A r \in Live : row[r].kind # "charge" /\ row[r].override # NoDay => row[r].eff = row[r].override

\* A row of the card that neither the user nor the bank has put on a bill falls
\* due by the cycle the card has now, not by one it had when the row was
\* written, unless a sync has changed the cycle since: then it keeps the month
\* another cycle gave it until the user edits it or the cycle.  A row of the
\* other account counts on its own day.
UnbilledFollowCycle ==
    \A r \in Live :
        row[r].kind # "charge" /\ row[r].override = NoDay =>
            /\ ~row[r].onCard => row[r].eff = row[r].date
            /\ row[r].onCard /\ row[r].bill = NoBill =>
                  \E close \in CloseDays, dueDay \in DueDays :
                     /\ row[r].eff = ComputeEffectiveDate(row[r].date, close, dueDay)
                     /\ r \notin behind => close = card.close /\ dueDay = card.due

\* The month a row counts in is the user's, the bank's or the cycle's, in that
\* order, after any sequence of syncs, edits, moves and new cycles.
EffectiveDates == OverrideWins /\ UnbilledFollowCycle

\* Every row of the card the bars of the bills cover is in exactly one of them:
\* the windows of the page have no gap and do not overlap, and a row the bank
\* has put on a bill is not counted again where its day falls
\* (get_transactions, get_account_summary, rangeForBill).
InOneBill ==
    \A r \in {r \in Live : row[r].onCard} :
        LET x == row[r]
            bills == {b \in Ingested : InBill(x, b)}
            covered == \E b \in Ingested : /\ ~Deferred(x, b)
                                           /\ Bucket(x) \in BillRangeStart(due[b], Previous(b)) .. due[b]
        IN  IF x.bill # NoBill THEN bills = {x.bill}
            ELSE covered => Cardinality(bills) = 1

\* The three calendars of the code say the same: the days of one window of the
\* web application fall due together, later windows later, and the statement
\* the server shows as closing for that due date closes the day after the
\* window's last day (compute_effective_date, get_cycle_dates,
\* creditCardCycleBoundaries, _compute_bill_close_date).
CyclesAgree ==
    \A d \in Days :
        LET bill == ComputeEffectiveDate(d, card.close, card.due)
        IN  /\ d \in CycleStart(d, card.close) .. CycleEnd(d, card.close)
            /\ CycleEnd(d, card.close) < bill
            /\ BillCloseDate(bill, card.close) = CycleEnd(d, card.close) + 1
            /\ NextClose(bill, card.close, card.due) = CycleEnd(d, card.close) + 1
            /\ \A e \in Days : LET later == ComputeEffectiveDate(e, card.close, card.due)
                              IN  IF e <= CycleEnd(d, card.close) THEN e >= d => later = bill
                                  ELSE later > bill

\* A row of the card is on one bill, whichever of the calendars is asked.
BillsPartition == TypeOK /\ CyclesAgree /\ InOneBill

\* "excludes already-billed txs so an in-progress cycle's bar/total doesn't
\* double-count past-bill txs whose date falls in the window"
\* (account_service.py:730-732).
CountedOnce ==
    \A r \in Live : \A b \in Ingested :
        ~(InBill(row[r], b) /\ due[b] < Today /\ InOpenCycle(row[r]))
=============================================================================
