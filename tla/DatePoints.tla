---------------------------- MODULE DatePoints ----------------------------
(***************************************************************************)
(* The points of a report's time axis, in a calendar of equal months.      *)
(***************************************************************************)
EXTENDS Integers, FiniteSets, FiniteSetsExt

CONSTANTS
    Week,      \* days of a week
    MonthDays, \* days of a month
    YearDays   \* days of a year, a multiple of MonthDays

(* What the constants must be; the modules of the runs assume it.           *)
PointsAssumption == /\ {Week, MonthDays, YearDays} \subseteq Nat \ {0}
                           /\ YearDays % MonthDays = 0

Intervals == {"daily", "weekly", "monthly", "yearly"}

\* _format_date_label
Label(d, interval) == CASE interval = "daily"   -> d
                        [] interval = "weekly"  -> d \div Week
                        [] interval = "monthly" -> d \div MonthDays
                        [] interval = "yearly"  -> d \div YearDays

Least(a, b) == IF a < b THEN a ELSE b

\* The loops of _date_points: every so many days from start, or the last day
\* of each month.
Stepped(start, end, interval) ==
    CASE interval = "daily"   -> start .. end
      [] interval = "weekly"  -> {d \in start .. end : (d - start) % Week = 0}
      [] interval = "monthly" -> {Least((m + 1) * MonthDays - 1, end) :
                                    m \in (start \div MonthDays) .. (end \div MonthDays)}
      [] interval = "yearly"  -> {d \in start .. end : (d - start) % YearDays = 0}

\* _date_points: the last point gives way to end, or end follows it.
Points(start, end, interval) ==
    LET points == Stepped(start, end, interval)
        last == Max(points)
    IN  IF points # {} /\ last < end
        THEN (IF Label(last, interval) = Label(end, interval)
              THEN points \ {last} ELSE points) \cup {end}
        ELSE points

\* The axis has one point for each period the window touches, and ends today.
CoversWindow(start, end, interval) ==
    LET points == Points(start, end, interval)
    IN  /\ end \in points
        /\ {Label(d, interval) : d \in points} = {Label(d, interval) : d \in start .. end}
        /\ Cardinality({Label(d, interval) : d \in points}) = Cardinality(points)
=============================================================================
