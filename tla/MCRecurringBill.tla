--------------------------- MODULE MCRecurringBill ---------------------------
(***************************************************************************)
(* Small instances of RecurringBill: the days of a monthly bill and the    *)
(* file a user imports, and the closed form of AdvancePast compared with   *)
(* the loop it stands for.                                                 *)
(***************************************************************************)
EXTENDS BillForecast, TLC

\* A monthly bill expected on the last day of the month (29, 59): a few days
\* early, on the day, and late, which is already the next month.
MonthDays == {26, 29, 31, 59}
MonthLineDay == [l \in Lines |-> 31]

NoLineDay == [l \in Lines |-> 0]

\* A bill on the first of the month (31), paid two days early.
FirstDays == {29, 31}

RowSymmetry == Permutations(AutoRows)

\* The loop of recurring_match_service.advance_past, turn by turn; its guard
\* of 500 turns is never reached on these dates.
LoopPast(pointer, fulfilled) ==
    LET target == IF fulfilled > pointer THEN fulfilled ELSE pointer
        turn[d \in Nat] == IF d <= target THEN turn[Advance(d)] ELSE d
    IN  turn[pointer]

ASSUME ClosedFormIsLoop ==
    \A p, f \in 0 .. 130 : AdvancePast(p, f) = LoopPast(p, f)
=============================================================================
