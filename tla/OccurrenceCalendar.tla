------------------------- MODULE OccurrenceCalendar -------------------------
(***************************************************************************)
(* What a recurring bill promises, whoever brings the rows: the expected   *)
(* days are settled one at a time and in order, and the bill closes when   *)
(* its next day lies past its end_date.  A bill the user saves together    *)
(* with the row of its first day starts with that day settled.             *)
(***************************************************************************)
EXTENDS BillCalendar

VARIABLES pointer, done, open

vars == <<pointer, done, open>>

Init ==
    /\ open = TRUE
    /\ \/ pointer = Start /\ done = {}
       \/ pointer = Advance(Start) /\ done = {Start}

Settle ==
    /\ open
    /\ done' = done \cup {pointer}
    /\ pointer' = Advance(pointer)
    /\ open' = (Advance(pointer) <= End)

Close ==
    /\ pointer > End
    /\ open' = FALSE
    /\ UNCHANGED <<pointer, done>>

Next == Settle \/ Close

Spec == Init /\ [][Next]_vars
=============================================================================
