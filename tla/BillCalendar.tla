---------------------------- MODULE BillCalendar ----------------------------
(***************************************************************************)
(* The dates a recurring bill is expected on, and the windows in which a   *)
(* charge is taken for one of them.  Days are numbered from a first of the *)
(* month; every month has thirty days (CardCycle deals with the lengths of *)
(* real months), and a yearly bill is left out: it is a monthly one with a *)
(* longer period.                                                          *)
(***************************************************************************)
EXTENDS Integers

CONSTANTS
    Frequency,   \* "weekly" or "monthly"
    Start,       \* start_date of the bill
    End          \* its end_date

ASSUME CalendarAssumption == /\ Frequency \in {"weekly", "monthly"}
                             /\ Start \in Nat
                             /\ End \in Nat
                             /\ Start <= End

Period == IF Frequency = "weekly" THEN 7 ELSE 30

\* _advance_date with the intended day of the bill's start_date.
Advance(d) == IF Frequency = "weekly"
              THEN d + 7
              ELSE 30 * ((d \div 30) + 1) + (Start % 30)

\* The loop of advance_past in closed form: its first turn always runs, and
\* from then on every turn adds one period.
AdvancePast(pointer, fulfilled) ==
    LET target == IF fulfilled > pointer THEN fulfilled ELSE pointer
        first  == Advance(pointer)
    IN  IF first > target
        THEN first
        ELSE first + Period * (((target - first) \div Period) + 1)

\* _match_window
Before == IF Frequency = "weekly" THEN 2 ELSE 3
After == IF Frequency = "weekly" THEN 2 ELSE 5

Slack == 5        \* the window of find_placeholder_for_incoming
FuzzySlack == 3   \* the window of _fuzzy_match_manual

Near(a, b, w) == a >= b - w /\ a <= b + w

\* The days the bill is expected on, from its start_date.
OnSchedule(d) ==
    /\ d >= Start
    /\ IF Frequency = "weekly" THEN (d - Start) % 7 = 0
                               ELSE d % 30 = Start % 30
=============================================================================
