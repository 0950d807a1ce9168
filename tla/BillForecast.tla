---------------------------- MODULE BillForecast ----------------------------
(***************************************************************************)
(* The forecast of a month: the rows of a recurring bill that are real, and *)
(* the occurrences the dashboard, the budgets and the reports project.     *)
(***************************************************************************)
EXTENDS RecurringBill

\* The rows of the bill in the days lo .. hi, ignored ones included.
RowsIn(lo, hi) == {r \in Live : row[r].linked /\ row[r].date \in lo .. hi}

\* The earliest unpaid placeholder in the range, else the pointer.
Anchor(lo, hi) ==
    LET unpaid == {row[r].date : r \in {q \in RowsIn(lo, hi) : row[q].status = "scheduled"}}
    IN  CHOOSE d \in unpaid \cup {next} : \A e \in unpaid \cup {next} : d <= e

\* get_occurrences_in_range: from the anchor, one period at a time.
OccurrencesFrom(anchor, lo, hi) ==
    {d \in lo .. hi : d <= End /\ (d = anchor \/ (d >= Advance(anchor) /\ OnSchedule(d)))}

\* Seeded fault for Projected: any row of the day ends its projection.
ProjectedUnlessRow(lo, hi) ==
    {d \in OccurrencesFrom(Anchor(lo, hi), lo, hi) :
        ~ \E r \in RowsIn(lo, hi) : row[r].date = d}

\* _get_recurring_projections: a scheduled row is projected until it is paid.
Projected(lo, hi) ==
    IF ~active \/ Start > hi THEN {}
    ELSE {d \in OccurrencesFrom(Anchor(lo, hi), lo, hi) :
             ~ \E r \in RowsIn(lo, hi) :
                  row[r].date = d /\ row[r].status \in {"posted", "pending"}}

\* The rows that are in the month's real sums (counts_as_pnl).
Counted(lo, hi) == {r \in RowsIn(lo, hi) : row[r].status # "scheduled" /\ ~row[r].ignored}

Months == {<<30 * m, 30 * m + 29>> : m \in 0 .. (Horizon \div 30)}

\* get_projected_transactions: what the dashboard adds to its list of the month's
\* rows.  Every row is in that list, so it starts at the pointer and asks for none.
Listed(lo, hi) == IF ~active \/ Start > hi THEN {} ELSE OccurrencesFrom(next, lo, hi)

\* The days a month is expected to show: those to come, and those with a row.
\* Months in which the user has moved a row are left out, as are the days he has
\* hidden or deleted the row of.
Expected(m) ==
    {o \in m[1] .. m[2] :
        /\ active /\ OnSchedule(o) /\ o <= End
        /\ \/ o >= next
           \/ \E r \in Live : row[r].linked /\ row[r].date = o /\ ~row[r].ignored
        /\ \A r \in RowsIn(m[1], m[2]) : row[r].date = row[r].occ}

\* In the sums every expected day is counted once, as a row or as a projection,
\* whether it is paid, unpaid or not yet generated.
SumsOnce ==
    \A m \in Months : \A o \in Expected(m) :
       IF o \in Projected(m[1], m[2])
       THEN ~ \E r \in Counted(m[1], m[2]) : row[r].occ = o
       ELSE \E r \in Counted(m[1], m[2]) : row[r].occ = o

\* In the list it is shown once, although the list and the sums project from
\* different days and leave different ones out.
ListOnce ==
    \A m \in Months : \A o \in Expected(m) :
       IF o \in Listed(m[1], m[2])
       THEN ~ \E r \in RowsIn(m[1], m[2]) : row[r].occ = o
       ELSE \E r \in RowsIn(m[1], m[2]) : row[r].occ = o

\* The forecast of a month has every expected day once, in the sums of the
\* dashboard and in its list (_get_recurring_projections, get_projected_transactions).
ForecastOnce == SumsOnce /\ ListOnce

\* "The forecast keeps showing them until paid": the last occurrence, too.
UnpaidProjected ==
    \A m \in Months : \A r \in RowsIn(m[1], m[2]) :
       (/\ row[r].status = "scheduled" /\ ~row[r].ignored
        /\ row[r].date = row[r].occ) => row[r].date \in Projected(m[1], m[2])
=============================================================================
