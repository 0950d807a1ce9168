------------------------ MODULE RecurringBillProofs ------------------------
(***************************************************************************)
(* What RecurringBill guarantees for every set of rows, charges and dates, *)
(* and what the forecast of a month shows of them.                         *)
(***************************************************************************)
EXTENDS BillForecast, WellFoundedInduction, TLAPS

USE CalendarAssumption

-----------------------------------------------------------------------------
(* The calendar *)

\* The next expected date is a later one.
LEMMA AdvanceIsLater ==
    ASSUME NEW d \in Nat
    PROVE  Advance(d) \in Nat /\ Advance(d) > d
<1>1. CASE Frequency = "weekly"
  BY <1>1 DEF Advance
<1>2. CASE Frequency = "monthly"
  <2>1. /\ Start % 30 \in 0 .. 29
        /\ d \div 30 \in Nat
        /\ 30 * (d \div 30) <= d
        /\ d < 30 * ((d \div 30) + 1)
    OBVIOUS
  <2> QED
    BY <2>1, <1>2 DEF Advance
<1> QED
  BY <1>1, <1>2

\* advance_past always moves the pointer, whatever date it is given.
LEMMA AdvancePastIsLater ==
    ASSUME NEW p \in Nat, NEW f \in Nat
    PROVE  AdvancePast(p, f) \in Nat /\ AdvancePast(p, f) > p
<1> DEFINE target == IF f > p THEN f ELSE p
           first == Advance(p)
<1>1. /\ first \in Nat
      /\ first > p
      /\ target \in Nat
  BY AdvanceIsLater
<1>2. CASE first > target
  BY <1>1, <1>2 DEF AdvancePast
<1>3. CASE ~(first > target)
  <2> DEFINE gap == target - first
  <2>1. gap \in Nat
    BY <1>1, <1>3
  <2>2. gap \div 7 \in Nat /\ gap \div 30 \in Nat
    BY <2>1
  <2>3. Period * ((gap \div Period) + 1) \in Nat
    BY <2>2 DEF Period
  <2>4. AdvancePast(p, f) = first + Period * ((gap \div Period) + 1)
    BY <1>3 DEF AdvancePast
  <2> HIDE DEF gap, first, target
  <2> QED
    BY <1>1, <2>3, <2>4
<1> QED
  BY <1>2, <1>3

\* From an expected day the calendar moves by exactly one period, and no
\* expected day lies between.
LEMMA AdvanceOnSchedule ==
    ASSUME NEW d \in Nat, OnSchedule(d)
    PROVE  /\ Advance(d) = d + Period
           /\ OnSchedule(Advance(d))
           /\ \A o \in Nat : (OnSchedule(o) /\ o < Advance(d)) => o <= d
<1>1. CASE Frequency = "weekly"
  BY <1>1 DEF Advance, OnSchedule, Period
<1>2. CASE Frequency = "monthly"
  <2>1. d = 30 * (d \div 30) + (d % 30) /\ d % 30 = Start % 30
    BY <1>2 DEF OnSchedule
  <2>2. Advance(d) = d + 30
    BY <2>1, <1>2 DEF Advance
  <2> QED
    BY <2>1, <2>2, <1>2 DEF OnSchedule, Period
<1> QED
  BY <1>1, <1>2

\* A charge inside the match window of an expected day fulfils that day only.
LEMMA AdvancePastInWindow ==
    ASSUME NEW p \in Nat, NEW f \in Nat, OnSchedule(p), f <= p + After
    PROVE  AdvancePast(p, f) = Advance(p)
BY AdvanceOnSchedule DEF AdvancePast, Period, After

-----------------------------------------------------------------------------
(* Types *)

\* The changes the handlers make to a row leave a row.
LEMMA RowUpdates ==
    ASSUME NEW x \in Row
    PROVE  /\ \A o \in Nat : [x EXCEPT !.linked = TRUE, !.occ = o] \in Row
           /\ [x EXCEPT !.linked = FALSE, !.occ = NoOcc] \in Row
           /\ [x EXCEPT !.ignored = ~x.ignored] \in Row
           /\ \A st \in Statuses : [x EXCEPT !.status = st] \in Row
           /\ \A d \in Nat, st \in Statuses :
                 [x EXCEPT !.date = d, !.status = st] \in Row
           /\ \A e \in ExtIds, src \in Sources :
                 [x EXCEPT !.ext = e, !.source = src] \in Row
           /\ \A e \in ExtIds, st \in Statuses :
                 [x EXCEPT !.status = st, !.ext = e] \in Row
           /\ \A e \in ExtIds, src \in Sources, st \in Statuses :
                 [x EXCEPT !.ext = e, !.source = src, !.status = st] \in Row
BY DEF Row

\* So do the rows they insert.
LEMMA NewRows ==
    /\ NoRow \in Row
    /\ \A o \in Nat, src \in Sources, st \in Statuses :
          /\ [NoRow EXCEPT !.source = src, !.date = o, !.status = st] \in Row
          /\ [NoRow EXCEPT !.source = src, !.date = o, !.status = st,
                           !.linked = TRUE, !.occ = o] \in Row
    /\ \A o \in Nat, src \in Sources, st \in Statuses, e \in ExtIds :
          [NoRow EXCEPT !.source = src, !.date = o, !.status = st, !.ext = e] \in Row
BY DEF NoRow, Row, Sources, Statuses

\* Whatever the handlers and the user do, every field keeps its type.
LEMMA TypeStep == TypeOK /\ [Next]_vars => TypeOK'
<1> SUFFICES ASSUME TypeOK, [Next]_vars PROVE TypeOK'
  OBVIOUS
<1> USE IdsAssumption, DaysAssumption DEF TypeOK, Rows
<1>1. NoRow \in Row
  BY NewRows
<1>2. \A d \in Days : d \in Nat
  OBVIOUS
<1>3. Advance(next) \in Nat /\ \A f \in Nat : AdvancePast(next, f) \in Nat
  BY AdvanceIsLater, AdvancePastIsLater
<1>4. ASSUME NEW r \in Rows, NEW new \in Row
      PROVE  [row EXCEPT ![r] = new] \in [Rows -> Row]
  OBVIOUS
<1>5. \A r \in Live : r \in Rows /\ row[r] \in Row
  BY DEF Live
<1>6. \A r \in FreeAuto : r \in Rows
  BY DEF FreeAuto
<1>7. CASE Environment
  <2>1. ASSUME NEW d \in Days, PassDays(d) PROVE TypeOK'
    BY <2>1, <1>7 DEF PassDays, bill, Environment
  <2>2. ASSUME NEW c \in Charges, NEW day \in Days,
               NEW s \in {"pending", "posted"}, BookCharge(c, day, s)
        PROVE  TypeOK'
    BY <2>2, <1>7, <1>2 DEF BookCharge, bill, FeedEntry, Environment
  <2>3. ASSUME NEW c \in Charges, PostCharge(c) PROVE TypeOK'
    BY <2>3, <1>7 DEF PostCharge, bill, FeedEntry, Environment
  <2> QED
    BY <1>7, <2>1, <2>2, <2>3 DEF Environment
<1>8. ASSUME NEW day \in Nat, NEW source \in Sources, NEW status \in Statuses,
             NEW ext \in ExtIds, InsertCharge(day, source, status, ext)
      PROVE  /\ row' \in [Rows -> Row]
             /\ active' \in BOOLEAN
             /\ auto' \in BOOLEAN
             /\ next' \in Nat
             /\ settled' \subseteq Nat
  <2> DEFINE new == [NoRow EXCEPT !.source = source, !.date = day,
                                  !.status = status, !.ext = ext]
  <2>1. new \in Row /\ [new EXCEPT !.linked = TRUE, !.occ = next] \in Row
    <3>1. new \in Row
      BY NewRows
    <3> HIDE DEF new
    <3> QED
      BY <3>1, RowUpdates
  <2>2. PICK r \in FreeAuto :
           IF BillTakes(ext, day)
           THEN /\ row' = [row EXCEPT ![r] =
                             [new EXCEPT !.linked = TRUE, !.occ = next]]
                /\ next' = AdvancePast(next, day)
                /\ active' = (AdvancePast(next, day) <= End)
                /\ settled' = settled \cup {next}
                /\ UNCHANGED auto
           ELSE /\ row' = [row EXCEPT ![r] = new]
                /\ UNCHANGED bill
    BY <1>8 DEF InsertCharge
  <2> HIDE DEF new
  <2>3. row' \in [Rows -> Row]
    BY <2>1, <2>2, <1>6
  <2>4. next' \in Nat /\ settled' \subseteq Nat
    BY <2>2, <1>3 DEF bill
  <2>5. auto' \in BOOLEAN
    BY <2>2 DEF bill
  <2>6. active' \in BOOLEAN
    <3>1. \/ active' = (AdvancePast(next, day) <= End)
          \/ active' = active
      BY <2>2, Zenon DEF bill
    <3>2. (AdvancePast(next, day) <= End) \in BOOLEAN /\ active \in BOOLEAN
      OBVIOUS
    <3> QED
      BY <3>1, <3>2, Zenon
  <2> QED
    BY <2>3, <2>4, <2>5, <2>6
<1>9. CASE Background
  <2>1. ASSUME NEW cutoff, GenerateNext(cutoff) PROVE TypeOK'
    <3>1. row' \in [Rows -> Row]
      <4>1. CASE UNCHANGED row
        BY <4>1
      <4>2. CASE \E r \in RealRowsFor(next) :
                   row' = [row EXCEPT ![r] = [@ EXCEPT !.linked = TRUE, !.occ = next]]
        <5>1. PICK r \in Live :
                 row' = [row EXCEPT ![r] = [@ EXCEPT !.linked = TRUE, !.occ = next]]
          BY <4>2 DEF RealRowsFor
        <5>2. [row[r] EXCEPT !.linked = TRUE, !.occ = next] \in Row
          BY <1>5, RowUpdates
        <5> QED
          BY <5>1, <5>2, <1>5
      <4>3. CASE \E r \in FreeAuto :
                   row' = [row EXCEPT ![r] =
                             [NoRow EXCEPT !.source = "recurring", !.date = next,
                                           !.status = "scheduled",
                                           !.linked = TRUE, !.occ = next]]
        <5>1. [NoRow EXCEPT !.source = "recurring", !.date = next,
                            !.status = "scheduled",
                            !.linked = TRUE, !.occ = next] \in Row
          BY NewRows DEF Sources, Statuses
        <5> QED
          BY <4>3, <5>1, <1>6
      <4> QED
        BY <2>1, <4>1, <4>2, <4>3 DEF GenerateNext
    <3>2. active' \in BOOLEAN
      <4>1. active' = (Advance(next) <= End)
        BY <2>1, Zenon DEF GenerateNext, StepPointer
      <4> QED
        BY <4>1
    <3>3. /\ UNCHANGED <<today, feed, auto, edits>>
          /\ next' = Advance(next)
          /\ settled' = settled \cup {next}
      BY <2>1, <1>9, Zenon DEF GenerateNext, StepPointer, Background
    <3> QED
      BY <3>1, <3>2, <3>3, <1>3
  <2>2. ASSUME NEW cutoff, GenerateEnded(cutoff) PROVE TypeOK'
    BY <2>2, <1>9 DEF GenerateEnded, Background
  <2>3. ASSUME NEW c \in Charges, SyncCharge(c) PROVE TypeOK'
    <3>1. feed[c] \in FeedEntry /\ feed[c].status # "absent"
      BY <2>3 DEF SyncCharge
    <3>2. feed[c].day \in Nat /\ feed[c].status \in Statuses
      BY <3>1 DEF FeedEntry, Statuses
    <3>3. c \in ExtIds
      BY DEF ExtIds
    <3>4. ASSUME NEW r \in Live, NEW new \in Row,
                 row' = [row EXCEPT ![r] = new], UNCHANGED bill
          PROVE  TypeOK'
      BY <3>4, <1>5, <1>9, <2>3 DEF bill, Background, SyncCharge
    <3>5. CASE SyncKnown(c) \/ SyncTwin(c)
      <4>1. PICK r \in Live :
               /\ \/ row' = [row EXCEPT ![r].status = "posted"]
                  \/ row' = [row EXCEPT ![r] = [@ EXCEPT !.status = "posted", !.ext = c]]
               /\ UNCHANGED bill
        BY <3>5 DEF SyncKnown, SyncTwin, Known, Twins
      <4> QED
        BY <4>1, <3>3, <3>4, <1>5, RowUpdates DEF Statuses
    <3>6. CASE SyncFuzzy(c) \/ SyncPlaceholder(c)
      <4>1. PICK r \in Live :
               /\ \/ row' = [row EXCEPT ![r] = [@ EXCEPT !.ext = c, !.source = "sync"]]
                  \/ row' = [row EXCEPT ![r] = [@ EXCEPT !.ext = c, !.source = "sync",
                                              !.status = feed[c].status]]
               /\ UNCHANGED bill
        BY <3>6 DEF SyncFuzzy, SyncPlaceholder, ManualMatches, PlaceholdersFor
      <4> QED
        BY <4>1, <3>2, <3>3, <3>4, <1>5, RowUpdates DEF Sources
    <3>7. CASE InsertCharge(feed[c].day, "sync", feed[c].status, c)
      BY <3>7, <3>2, <2>3, <1>8, <1>9 DEF SyncCharge, ExtIds, Sources, Background
    <3> QED
      BY <2>3, <3>5, <3>6, <3>7 DEF SyncCharge
  <2>4. ASSUME NEW l \in Lines, ImportLine(l) PROVE TypeOK'
    <3>1. LineDay[l] \in Nat
      OBVIOUS
    <3>2. CASE \E r \in PlaceholdersFor(l, LineDay[l]) :
                 /\ row' = [row EXCEPT ![r] = [@ EXCEPT !.ext = l, !.source = "ofx"]]
                 /\ UNCHANGED bill
      <4>1. PICK r \in Live :
               row' = [row EXCEPT ![r] = [@ EXCEPT !.ext = l, !.source = "ofx"]]
        BY <3>2 DEF PlaceholdersFor
      <4>2. row' \in [Rows -> Row]
        BY <4>1, <1>5, RowUpdates DEF ExtIds, Sources
      <4> QED
        BY <4>2, <3>2, <2>4, <1>9 DEF ImportLine, bill, Background
    <3>3. CASE InsertCharge(LineDay[l], "ofx", "posted", l)
      BY <3>3, <3>1, <2>4, <1>8, <1>9
         DEF ImportLine, ExtIds, Sources, Statuses, Background
    <3> QED
      BY <2>4, <3>2, <3>3 DEF ImportLine
  <2> QED
    BY <1>9, <2>1, <2>2, <2>3, <2>4 DEF Background
<1>10. CASE UserOnRows
  <2>0. edits' \in Nat
    BY <1>10 DEF UserOnRows, UserEdits
  <2>1. ASSUME NEW r \in ManualRows, NEW day \in Days, CreateManual(r, day)
        PROVE  TypeOK'
    <3>1. row' \in [Rows -> Row]
      BY <2>1, <1>2, NewRows DEF CreateManual, StatusOn, Sources, Statuses
    <3> QED
      BY <2>0, <2>1, <3>1 DEF CreateManual, bill
  <2>2. ASSUME NEW r \in Live, NEW s \in {"scheduled", "posted"}, SetStatus(r, s)
        PROVE  TypeOK'
    BY <2>0, <2>2, <1>5, RowUpdates DEF SetStatus, bill, Statuses
  <2>3. ASSUME NEW r \in Live, ToggleIgnore(r) PROVE TypeOK'
    BY <2>0, <2>3, <1>5, RowUpdates DEF ToggleIgnore, bill
  <2>4. ASSUME NEW r \in Live, Unlink(r) PROVE TypeOK'
    BY <2>0, <2>4, <1>5, RowUpdates DEF Unlink, bill
  <2>5. ASSUME NEW r \in Live, DeleteRow(r) PROVE TypeOK'
    BY <2>0, <2>5, <1>1, <1>5 DEF DeleteRow, bill
  <2>6. ASSUME NEW r \in Live, NEW day \in Days, EditDate(r, day) PROVE TypeOK'
    <3>1. StatusOn(day) \in Statuses
      BY DEF StatusOn, Statuses
    <3>2. [row[r] EXCEPT !.date = day, !.status = StatusOn(day)] \in Row
      BY <3>1, <1>2, <1>5, RowUpdates
    <3> QED
      BY <2>0, <2>6, <3>2, <1>5 DEF EditDate, bill
  <2> QED
    BY <1>10, <2>1, <2>2, <2>3, <2>4, <2>5, <2>6 DEF UserOnRows
<1>11. CASE UserReconciles
  <2>1. PICK s \in Live, a \in Live : Reconcile(s, a)
    BY <1>11 DEF UserReconciles
  <2>2. row' \in [Rows -> Row]
    <3>1. row[s] \in Row /\ row[a] \in Row /\ s \in Rows /\ a \in Rows
      BY <2>1, <1>5
    <3>2. [row[s] EXCEPT !.date = row[a].date, !.status = "posted", !.ext = row[a].ext,
                         !.source = row[a].source, !.reconciled = TRUE] \in Row
      BY <3>1 DEF Row, Statuses
    <3>3. s # a
      BY <2>1 DEF Reconcile
    <3> QED
      BY <2>1, <3>1, <3>2, <3>3, <1>1 DEF Reconcile
  <2>3. row[a].date \in Nat
    BY <1>5 DEF Row
  <2>4. active' \in BOOLEAN
    BY <2>1, Zenon DEF Reconcile, bill
  <2>5. next' \in Nat
    BY <2>1, <2>3, <1>3 DEF Reconcile, bill
  <2> QED
    BY <1>11, <2>1, <2>2, <2>4, <2>5 DEF UserReconciles, UserEdits, Reconcile, bill
<1>12. CASE UserOnBill
  <2>0. edits' \in Nat
    BY <1>12 DEF UserOnBill, UserEdits
  <2>1. ASSUME NEW b \in BOOLEAN, NEW g \in BOOLEAN, SaveBill(b, g) PROVE TypeOK'
    <3>1. \A d \in LinkedDates : d \in Nat
      BY <1>5 DEF LinkedDates, Row
    <3>2. next' \in Nat
      BY <2>1, <3>1, AdvanceIsLater DEF SaveBill
    <3> QED
      BY <2>0, <2>1, <3>2 DEF SaveBill
  <2>2. ASSUME NEW b \in BOOLEAN, SetActive(b) PROVE TypeOK'
    BY <2>0, <2>2 DEF SetActive
  <2> QED
    BY <1>12, <2>1, <2>2 DEF UserOnBill
<1>13. CASE UNCHANGED vars
  BY <1>13 DEF vars
<1> QED
  BY <1>7, <1>9, <1>10, <1>11, <1>12, <1>13 DEF Next, NextReconciling, NextUnedited

\* Whether or not the first occurrence is skipped, the bill starts well typed.
LEMMA TypeInit == Init => TypeOK
<1>1. Advance(Start) \in Nat
  BY AdvanceIsLater
<1> QED
  BY <1>1, DaysAssumption DEF Init, TypeOK, FeedEntry, NoRow, Row, Sources, Statuses

\* The type invariant of the whole specification, edits of the bill included.
THEOREM TypeCorrect == Spec => []TypeOK
<1>1. Init => TypeOK
  BY TypeInit
<1>2. TypeOK /\ [Next]_vars => TypeOK'
  BY TypeStep
<1> QED
  BY <1>1, <1>2, PTL DEF Spec

-----------------------------------------------------------------------------
(* One row per occurrence *)

\* The rows that stand for an occurrence of the bill.
Standing == {r \in Live : row[r].linked}

\* The pointer is ahead of every occurrence that has a row: this is why the
\* occurrence a new row is linked to can be nobody else's.
PointerAhead == \A r \in Standing : row[r].occ < next

OccurrenceInv == TypeOK /\ PointerAhead /\ OneRowPerOccurrence

\* Row r keeps the occurrence it stands for, or no longer stands for one.
Keeps(r) == r \in Standing' => (r \in Standing /\ row'[r].occ = row[r].occ)

\* At most one row takes the occurrence at the pointer, which then moves on.
Takes == \E r \in Rows : /\ row'[r].occ = next
                         /\ next' > next
                         /\ \A q \in Rows \ {r} : Keeps(q)

\* Either kind of step preserves the invariant.
LEMMA OccurrenceFrame ==
    ASSUME OccurrenceInv, TypeOK',
           Takes \/ (next' >= next /\ \A r \in Rows : Keeps(r))
    PROVE  OccurrenceInv'
<1> USE DEF OccurrenceInv, TypeOK
<1>1. Standing \subseteq Rows /\ Standing' \subseteq Rows
  BY DEF Standing, Live
<1>2. \A r \in Rows : row[r].occ \in Int /\ row'[r].occ \in Int
  BY DEF Row, NoOcc
<1>3. CASE Takes
  <2>1. PICK r \in Rows : /\ row'[r].occ = next
                         /\ next' > next
                         /\ \A q \in Rows \ {r} : Keeps(q)
    BY <1>3 DEF Takes
  <2>2. \A q \in Standing' \ {r} : q \in Standing /\ row'[q].occ = row[q].occ
    BY <1>1, <2>1 DEF Keeps
  <2>3. \A q \in Standing' \ {r} : row'[q].occ < next
    BY <2>2 DEF PointerAhead
  <2>4. PointerAhead'
    BY <2>1, <2>3, <1>1, <1>2 DEF PointerAhead
  <2>5. \A q, s \in Standing' : row'[q].occ = row'[s].occ => q = s
    <3> SUFFICES ASSUME NEW q \in Standing', NEW s \in Standing',
                        row'[q].occ = row'[s].occ
                 PROVE  q = s
      OBVIOUS
    <3>1. CASE q # r /\ s # r
      <4>1. q \in Standing /\ s \in Standing /\ row[q].occ = row[s].occ
        BY <3>1, <2>2
      <4> QED
        BY <4>1 DEF OneRowPerOccurrence, Standing
    <3>2. CASE q = r \/ s = r
      BY <3>2, <2>1, <2>3, <1>1, <1>2
    <3> QED
      BY <3>1, <3>2
  <2> QED
    BY <2>4, <2>5 DEF OneRowPerOccurrence, Standing
<1>4. CASE next' >= next /\ \A r \in Rows : Keeps(r)
  <2>1. \A q \in Standing' : q \in Standing /\ row'[q].occ = row[q].occ
    BY <1>1, <1>4 DEF Keeps
  <2>2. PointerAhead'
    BY <2>1, <1>1, <1>2, <1>4 DEF PointerAhead
  <2>3. OneRowPerOccurrence'
    BY <2>1 DEF OneRowPerOccurrence, Standing
  <2> QED
    BY <2>2, <2>3
<1> QED
  BY <1>3, <1>4

\* Replacing the record of one row leaves the others as they were.
LEMMA OneRowChanges ==
    ASSUME TypeOK, NEW r \in Rows, NEW new, row' = [row EXCEPT ![r] = new]
    PROVE  /\ row'[r] = new
           /\ \A q \in Rows \ {r} : row'[q] = row[q] /\ Keeps(q)
BY DEF TypeOK, Keeps, Standing, Live

\* A row that is created unlinked, or updated without its link, keeps its
\* occurrence.
LEMMA LinkUntouched ==
    ASSUME TypeOK, NEW r \in Rows, NEW new,
           row' = [row EXCEPT ![r] = new],
           \/ ~new.linked
           \/ new.source = "none"
           \/ r \in Live /\ new.linked = row[r].linked /\ new.occ = row[r].occ
    PROVE  \A q \in Rows : Keeps(q)
<1>1. row'[r] = new /\ \A q \in Rows \ {r} : Keeps(q)
  BY OneRowChanges
<1>2. Keeps(r)
  BY <1>1 DEF Keeps, Standing, Live
<1> QED
  BY <1>1, <1>2

\* A charge without a row takes the occurrence at the pointer, or none.
LEMMA InsertTakesOrKeeps ==
    ASSUME TypeOK, NEW day \in Nat, NEW source, NEW status, NEW ext,
           InsertCharge(day, source, status, ext)
    PROVE  Takes \/ (next' >= next /\ \A r \in Rows : Keeps(r))
<1> DEFINE new == [NoRow EXCEPT !.source = source, !.date = day,
                                !.status = status, !.ext = ext]
<1>1. PICK r \in FreeAuto :
         IF BillTakes(ext, day)
         THEN /\ row' = [row EXCEPT ![r] =
                           [new EXCEPT !.linked = TRUE, !.occ = next]]
              /\ next' = AdvancePast(next, day)
         ELSE /\ row' = [row EXCEPT ![r] = new]
              /\ UNCHANGED bill
  BY DEF InsertCharge
<1>2. r \in Rows
  BY DEF FreeAuto, Rows
<1>3. ~new.linked /\ [new EXCEPT !.linked = TRUE, !.occ = next].occ = next
  BY DEF NoRow
<1> HIDE DEF new
<1>4. CASE BillTakes(ext, day)
  <2>1. next' > next
    BY <1>1, <1>4, AdvancePastIsLater DEF TypeOK
  <2> QED
    BY <1>1, <1>2, <1>3, <1>4, <2>1, OneRowChanges DEF Takes
<1>5. CASE ~BillTakes(ext, day)
  BY <1>1, <1>2, <1>3, <1>5, LinkUntouched DEF bill, TypeOK
<1> QED
  BY <1>4, <1>5

\* Every step of a bill that is not edited takes one occurrence or none.
LEMMA StepTakesOrKeeps ==
    ASSUME TypeOK, NextReconciling
    PROVE  Takes \/ (next' >= next /\ \A r \in Rows : Keeps(r))
<1> USE DEF TypeOK
<1>1. ASSUME UNCHANGED row, next' >= next PROVE \A r \in Rows : Keeps(r)
  BY <1>1 DEF Keeps, Standing, Live
<1>2. \A r \in Live : r \in Rows
  BY DEF Live
<1>3. Advance(next) \in Nat /\ Advance(next) > next
  BY AdvanceIsLater
<1>4. CASE Environment
  BY <1>1, <1>4 DEF Environment, PassDays, BookCharge, PostCharge, bill
<1>5. ASSUME NEW cutoff, GenerateNext(cutoff)
      PROVE  Takes \/ (next' >= next /\ \A r \in Rows : Keeps(r))
  <2>1. next' = Advance(next)
    BY <1>5 DEF GenerateNext, StepPointer
  <2>2. CASE UNCHANGED row
    BY <2>1, <2>2, <1>1, <1>3
  <2>3. CASE \E r \in RealRowsFor(next) :
               row' = [row EXCEPT ![r] = [@ EXCEPT !.linked = TRUE, !.occ = next]]
    <3>1. PICK r \in Rows :
             row' = [row EXCEPT ![r] = [row[r] EXCEPT !.linked = TRUE, !.occ = next]]
      BY <2>3, <1>2 DEF RealRowsFor
    <3>2. [row[r] EXCEPT !.linked = TRUE, !.occ = next].occ = next
      BY DEF Row
    <3> QED
      BY <3>1, <3>2, <2>1, <1>3, OneRowChanges DEF Takes
  <2>4. CASE \E r \in FreeAuto :
               row' = [row EXCEPT ![r] =
                         [NoRow EXCEPT !.source = "recurring", !.date = next,
                                       !.status = "scheduled",
                                       !.linked = TRUE, !.occ = next]]
    <3> DEFINE new == [NoRow EXCEPT !.source = "recurring", !.date = next,
                                    !.status = "scheduled",
                                    !.linked = TRUE, !.occ = next]
    <3>1. PICK r \in Rows : row' = [row EXCEPT ![r] = new]
      BY <2>4 DEF FreeAuto, Rows
    <3>2. new.occ = next
      BY DEF NoRow
    <3> HIDE DEF new
    <3> QED
      BY <3>1, <3>2, <2>1, <1>3, OneRowChanges DEF Takes
  <2> QED
    BY <1>5, <2>2, <2>3, <2>4 DEF GenerateNext
<1>6. ASSUME NEW cutoff, GenerateEnded(cutoff)
      PROVE  next' >= next /\ \A r \in Rows : Keeps(r)
  BY <1>1, <1>6 DEF GenerateEnded
<1>7. ASSUME NEW c \in Charges, SyncCharge(c)
      PROVE  Takes \/ (next' >= next /\ \A r \in Rows : Keeps(r))
  <2>1. CASE SyncKnown(c) \/ SyncFuzzy(c) \/ SyncTwin(c) \/ SyncPlaceholder(c)
    <3>0. \E r \in Live : \E new :
             /\ row' = [row EXCEPT ![r] = new]
             /\ new.linked = row[r].linked
             /\ new.occ = row[r].occ
             /\ UNCHANGED bill
      <4>1. \A r \in Live : row[r] \in Row
        BY <1>2
      <4>2. CASE SyncKnown(c)
        <5>1. PICK r \in Live : /\ row' = [row EXCEPT ![r] = [row[r] EXCEPT !.status = "posted"]]
                               /\ UNCHANGED bill
          BY <4>2 DEF SyncKnown, Known
        <5> QED
          BY <5>1, <4>1 DEF Row
      <4>3. CASE SyncFuzzy(c)
        <5>1. PICK r \in Live : /\ row' = [row EXCEPT ![r] = [row[r] EXCEPT !.ext = c, !.source = "sync"]]
                               /\ UNCHANGED bill
          BY <4>3 DEF SyncFuzzy, ManualMatches
        <5> QED
          BY <5>1, <4>1 DEF Row
      <4>4. CASE SyncTwin(c)
        <5>1. PICK r \in Live : /\ row' = [row EXCEPT ![r] = [row[r] EXCEPT !.status = "posted", !.ext = c]]
                               /\ UNCHANGED bill
          BY <4>4 DEF SyncTwin, Twins
        <5> QED
          BY <5>1, <4>1 DEF Row
      <4>5. CASE SyncPlaceholder(c)
        <5>1. PICK r \in Live :
                 /\ row' = [row EXCEPT ![r] = [row[r] EXCEPT !.ext = c, !.source = "sync",
                                                            !.status = feed[c].status]]
                 /\ UNCHANGED bill
          BY <4>5 DEF SyncPlaceholder, PlaceholdersFor
        <5> QED
          BY <5>1, <4>1 DEF Row
      <4> QED
        BY <2>1, <4>2, <4>3, <4>4, <4>5
    <3>1. PICK r \in Live :
             \E new : /\ row' = [row EXCEPT ![r] = new]
                     /\ new.linked = row[r].linked
                     /\ new.occ = row[r].occ
                     /\ UNCHANGED bill
      BY <3>0
    <3>2. \A q \in Rows : Keeps(q)
      BY <3>1, <1>2, LinkUntouched, Zenon
    <3> QED
      BY <3>1, <3>2 DEF bill
  <2>2. CASE InsertCharge(feed[c].day, "sync", feed[c].status, c)
    BY <2>2, InsertTakesOrKeeps DEF FeedEntry
  <2> QED
    BY <1>7, <2>1, <2>2 DEF SyncCharge
<1>8. ASSUME NEW l \in Lines, ImportLine(l)
      PROVE  Takes \/ (next' >= next /\ \A r \in Rows : Keeps(r))
  <2>1. CASE \E r \in PlaceholdersFor(l, LineDay[l]) :
               /\ row' = [row EXCEPT ![r] = [@ EXCEPT !.ext = l, !.source = "ofx"]]
               /\ UNCHANGED bill
    <3>1. PICK r \in Live :
             /\ row' = [row EXCEPT ![r] = [row[r] EXCEPT !.ext = l, !.source = "ofx"]]
             /\ UNCHANGED bill
      BY <2>1 DEF PlaceholdersFor
    <3>2. /\ [row[r] EXCEPT !.ext = l, !.source = "ofx"].linked = row[r].linked
          /\ [row[r] EXCEPT !.ext = l, !.source = "ofx"].occ = row[r].occ
      BY <1>2 DEF Row
    <3>3. \A q \in Rows : Keeps(q)
      BY <3>1, <3>2, <1>2, LinkUntouched, Zenon
    <3> QED
      BY <3>1, <3>3 DEF bill
  <2>2. CASE InsertCharge(LineDay[l], "ofx", "posted", l)
    BY <2>2, DaysAssumption, InsertTakesOrKeeps
  <2> QED
    BY <1>8, <2>1, <2>2 DEF ImportLine
<1>9. ASSUME NEW r \in Rows, NEW new, row' = [row EXCEPT ![r] = new],
             \/ ~new.linked
             \/ r \in Live /\ new.linked = row[r].linked /\ new.occ = row[r].occ
      PROVE  \A q \in Rows : Keeps(q)
  BY <1>9, LinkUntouched, Zenon
<1>10. CASE UserOnRows
  <2>1. next' = next
    BY <1>10 DEF UserOnRows, CreateManual, SetStatus, EditDate, ToggleIgnore, Unlink, DeleteRow, bill
  <2>2. ASSUME NEW r \in ManualRows, NEW day, CreateManual(r, day)
        PROVE  \A q \in Rows : Keeps(q)
    <3>1. PICK st : row' = [row EXCEPT ![r] = [NoRow EXCEPT !.source = "manual",
                                                 !.date = day, !.status = st]]
      BY <2>2 DEF CreateManual
    <3>2. ~[NoRow EXCEPT !.source = "manual", !.date = day, !.status = st].linked
      BY DEF NoRow
    <3>3. r \in Rows
      BY DEF Rows
    <3> QED
      BY <3>1, <3>2, <3>3, <1>9
  <2>3. ASSUME NEW r \in Live, NEW st, SetStatus(r, st)
        PROVE  \A q \in Rows : Keeps(q)
    <3>1. /\ [row[r] EXCEPT !.status = st].linked = row[r].linked
          /\ [row[r] EXCEPT !.status = st].occ = row[r].occ
      BY <1>2 DEF Row
    <3>2. row' = [row EXCEPT ![r] = [row[r] EXCEPT !.status = st]]
      BY <2>3 DEF SetStatus
    <3> QED
      BY <3>1, <3>2, <1>2, <1>9
  <2>4. ASSUME NEW r \in Live, ToggleIgnore(r)
        PROVE  \A q \in Rows : Keeps(q)
    <3>1. /\ [row[r] EXCEPT !.ignored = ~row[r].ignored].linked = row[r].linked
          /\ [row[r] EXCEPT !.ignored = ~row[r].ignored].occ = row[r].occ
      BY <1>2 DEF Row
    <3>2. row' = [row EXCEPT ![r] = [row[r] EXCEPT !.ignored = ~row[r].ignored]]
      BY <2>4 DEF ToggleIgnore
    <3> QED
      BY <3>1, <3>2, <1>2, <1>9
  <2>5. ASSUME NEW r \in Live, Unlink(r)
        PROVE  \A q \in Rows : Keeps(q)
    <3>1. ~[row[r] EXCEPT !.linked = FALSE, !.occ = NoOcc].linked
      BY <1>2 DEF Row
    <3>2. row' = [row EXCEPT ![r] = [row[r] EXCEPT !.linked = FALSE, !.occ = NoOcc]]
      BY <2>5 DEF Unlink
    <3> QED
      BY <3>1, <3>2, <1>2, <1>9
  <2>6. ASSUME NEW r \in Live, DeleteRow(r)
        PROVE  \A q \in Rows : Keeps(q)
    <3>1. ~NoRow.linked
      BY DEF NoRow
    <3> QED
      BY <2>6, <3>1, <1>2, <1>9 DEF DeleteRow
  <2>7. ASSUME NEW r \in Live, NEW day, EditDate(r, day)
        PROVE  \A q \in Rows : Keeps(q)
    <3>1. /\ [row[r] EXCEPT !.date = day, !.status = StatusOn(day)].linked = row[r].linked
          /\ [row[r] EXCEPT !.date = day, !.status = StatusOn(day)].occ = row[r].occ
      BY <1>2 DEF Row
    <3>2. row' = [row EXCEPT ![r] = [row[r] EXCEPT !.date = day, !.status = StatusOn(day)]]
      BY <2>7 DEF EditDate
    <3> QED
      BY <3>1, <3>2, <1>2, <1>9
  <2> QED
    BY <1>10, <2>1, <2>2, <2>3, <2>4, <2>5, <2>6, <2>7 DEF UserOnRows
<1>11. ASSUME NEW s \in Live, NEW a \in Live, Reconcile(s, a)
       PROVE  next' >= next /\ \A r \in Rows : Keeps(r)
  <2>1. s # a /\ row[a].date \in Nat
    BY <1>11, <1>2 DEF Reconcile, Row
  <2>2. next' >= next
    BY <1>11, <2>1, AdvancePastIsLater DEF Reconcile, bill
  <2>3. /\ row'[a] = NoRow
        /\ row'[s] = [row[s] EXCEPT !.date = row[a].date, !.status = "posted",
                                    !.ext = row[a].ext,
                                    !.source = row[a].source,
                                    !.reconciled = TRUE]
        /\ \A r \in Rows \ {a, s} : row'[r] = row[r]
    BY <1>11, <2>1, <1>2 DEF Reconcile
  <2>4. row'[s].linked = row[s].linked /\ row'[s].occ = row[s].occ
    BY <2>3, <1>2 DEF Row
  <2>5. row'[a].source = "none"
    BY <2>3 DEF NoRow
  <2> QED
    BY <2>2, <2>3, <2>4, <2>5, <1>2 DEF Keeps, Standing, Live
<1> QED
  BY <1>4, <1>5, <1>6, <1>7, <1>8, <1>10, <1>11
     DEF NextReconciling, NextUnedited, Background, UserReconciles

\* No occurrence of a bill whose schedule is not edited is ever on the account
\* twice: not by the generator, the sync, the import or a reconciliation.
THEOREM OccurrenceOnce == ReconcilingSpec => []OneRowPerOccurrence
<1>1. Init => OccurrenceInv
  <2>1. Init => TypeOK
    BY TypeInit
  <2>2. Init => Live = {}
    BY DEF Init, Live, NoRow
  <2> QED
    BY <2>1, <2>2 DEF OccurrenceInv, PointerAhead, Standing, OneRowPerOccurrence
<1>2. OccurrenceInv /\ [NextReconciling]_vars => OccurrenceInv'
  <2>1. CASE OccurrenceInv /\ NextReconciling
    <3>1. TypeOK'
      BY <2>1, TypeStep DEF OccurrenceInv, Next
    <3> QED
      BY <2>1, <3>1, StepTakesOrKeeps, OccurrenceFrame DEF OccurrenceInv
  <2>2. CASE OccurrenceInv /\ UNCHANGED vars
    BY <2>2 DEF vars, OccurrenceInv, TypeOK, PointerAhead, Standing, Live, OneRowPerOccurrence
  <2> QED
    BY <2>1, <2>2
<1>3. OccurrenceInv => OneRowPerOccurrence
  BY DEF OccurrenceInv
<1> QED
  BY <1>1, <1>2, <1>3, PTL DEF ReconcilingSpec

-----------------------------------------------------------------------------
(* The calendar is followed *)

\* The pointer is an expected day and every earlier one is settled.
CalendarInv == /\ TypeOK
               /\ OnSchedule(next)
               /\ NoOccurrenceSkipped

\* A step of the calendar keeps all of it.
LEMMA SettleKeepsCalendar ==
    ASSUME CalendarInv, TypeOK', Calendar!Next \/ UNCHANGED bill
    PROVE  CalendarInv'
<1> USE DEF CalendarInv, TypeOK
<1>1. CASE UNCHANGED bill
  BY <1>1 DEF bill, NoOccurrenceSkipped
<1>2. CASE Calendar!Settle
  <2>1. /\ next' = Advance(next)
        /\ settled' = settled \cup {next}
    BY <1>2 DEF Calendar!Settle, Calendar!Advance, Advance
  <2>2. OnSchedule(next')
    BY <2>1, AdvanceOnSchedule
  <2>3. ASSUME NEW o \in Start .. (next' - 1), OnSchedule(o)
        PROVE  o \in settled'
    <3>1. o \in Nat /\ o < Advance(next)
      BY <2>1, <2>3
    <3>2. o <= next
      BY <3>1, <2>3, AdvanceOnSchedule
    <3> QED
      BY <2>1, <2>3, <3>1, <3>2 DEF NoOccurrenceSkipped
  <2> QED
    BY <2>2, <2>3 DEF NoOccurrenceSkipped
<1>3. CASE Calendar!Close
  BY <1>3 DEF Calendar!Close, NoOccurrenceSkipped
<1> QED
  BY <1>1, <1>2, <1>3 DEF Calendar!Next

\* A charge is taken only while the bill is active and within the window of
\* the pointer, so it settles that occurrence and no other.
LEMMA InsertSettles ==
    ASSUME CalendarInv, NEW day \in Nat, NEW source, NEW status, NEW ext,
           InsertCharge(day, source, status, ext)
    PROVE  Calendar!Settle \/ UNCHANGED bill
<1>1. CASE BillTakes(ext, day)
  <2>1. active /\ day <= next + After
    BY <1>1 DEF BillTakes
  <2>2. AdvancePast(next, day) = Advance(next)
    BY <2>1, AdvancePastInWindow DEF CalendarInv, TypeOK
  <2>3. /\ next' = AdvancePast(next, day)
        /\ active' = (AdvancePast(next, day) <= End)
        /\ settled' = settled \cup {next}
    BY <1>1, Zenon DEF InsertCharge
  <2> QED
    BY <2>1, <2>2, <2>3 DEF Calendar!Settle, Calendar!Advance, Advance
<1>2. CASE ~BillTakes(ext, day)
  BY <1>2, Zenon DEF InsertCharge
<1> QED
  BY <1>1, <1>2

\* Every step settles the next occurrence or leaves the bill alone.
LEMMA StepFollowsCalendar ==
    ASSUME CalendarInv, NextUnedited
    PROVE  Calendar!Next \/ UNCHANGED bill
<1>1. CASE Environment
  BY <1>1 DEF Environment, PassDays, BookCharge, PostCharge
<1>2. ASSUME NEW cutoff, GenerateNext(cutoff) PROVE Calendar!Settle
  <2>1. /\ active
        /\ next' = Advance(next)
        /\ settled' = settled \cup {next}
        /\ active' = (Advance(next) <= End)
    BY <1>2, Zenon DEF GenerateNext, StepPointer
  <2> QED
    BY <2>1 DEF Calendar!Settle, Calendar!Advance, Advance
<1>3. ASSUME NEW cutoff, GenerateEnded(cutoff) PROVE Calendar!Close
  BY <1>3 DEF GenerateEnded, Calendar!Close
<1>4. ASSUME NEW c \in Charges, SyncCharge(c)
      PROVE  Calendar!Settle \/ UNCHANGED bill
  <2>1. CASE InsertCharge(feed[c].day, "sync", feed[c].status, c)
    BY <2>1, InsertSettles DEF CalendarInv, TypeOK, FeedEntry
  <2>2. CASE SyncKnown(c) \/ SyncFuzzy(c) \/ SyncTwin(c) \/ SyncPlaceholder(c)
    BY <2>2 DEF SyncKnown, SyncFuzzy, SyncTwin, SyncPlaceholder
  <2> QED
    BY <1>4, <2>1, <2>2 DEF SyncCharge
<1>5. ASSUME NEW l \in Lines, ImportLine(l)
      PROVE  Calendar!Settle \/ UNCHANGED bill
  <2>1. LineDay[l] \in Nat
    BY DaysAssumption
  <2>2. CASE InsertCharge(LineDay[l], "ofx", "posted", l)
    BY <2>1, <2>2, InsertSettles
  <2> QED
    BY <1>5, <2>2 DEF ImportLine
<1>6. CASE UserOnRows
  BY <1>6 DEF UserOnRows, CreateManual, SetStatus, EditDate, ToggleIgnore, Unlink, DeleteRow
<1> QED
  BY <1>1, <1>2, <1>3, <1>4, <1>5, <1>6 DEF NextUnedited, Background, Calendar!Next

\* A new bill is at the first day of its calendar, or the first is settled.
LEMMA CalendarInit == Init => CalendarInv /\ Calendar!Init
<1> SUFFICES ASSUME Init PROVE CalendarInv /\ Calendar!Init
  OBVIOUS
<1>1. TypeOK
  BY TypeInit
<1>2. OnSchedule(Start) /\ Start \in Nat
  BY DEF OnSchedule
<1>3. /\ OnSchedule(Advance(Start))
      /\ Advance(Start) \in Nat
      /\ \A o \in Nat : (OnSchedule(o) /\ o < Advance(Start)) => o <= Start
  BY <1>2, AdvanceOnSchedule, AdvanceIsLater
<1>4. Calendar!Init
  BY DEF Init, Calendar!Init, Calendar!Advance, Advance
<1>5. CASE next = Start /\ settled = {}
  BY <1>1, <1>2, <1>4, <1>5 DEF CalendarInv, NoOccurrenceSkipped
<1>6. CASE next = Advance(Start) /\ settled = {Start}
  BY <1>1, <1>2, <1>3, <1>4, <1>6 DEF CalendarInv, NoOccurrenceSkipped
<1> QED
  BY <1>5, <1>6 DEF Init

\* As long as nobody edits the bill or reconciles its rows, the calendar's
\* invariant holds.
THEOREM CalendarHolds == UneditedSpec => []CalendarInv
<1>1. CalendarInv /\ [NextUnedited]_vars => CalendarInv'
  <2>1. CASE CalendarInv /\ NextUnedited
    <3>1. TypeOK'
      BY <2>1, TypeStep DEF CalendarInv, Next, NextReconciling
    <3> QED
      BY <2>1, <3>1, StepFollowsCalendar, SettleKeepsCalendar
  <2>2. CASE CalendarInv /\ UNCHANGED vars
    <3>1. TypeOK'
      BY <2>2 DEF vars, CalendarInv, TypeOK
    <3> QED
      BY <2>2, <3>1, SettleKeepsCalendar DEF vars, bill
  <2> QED
    BY <2>1, <2>2
<1> QED
  BY <1>1, CalendarInit, PTL DEF UneditedSpec

\* No occurrence is passed over without a row.
THEOREM NothingSkipped == UneditedSpec => []NoOccurrenceSkipped
<1>1. CalendarInv => NoOccurrenceSkipped
  BY DEF CalendarInv
<1> QED
  BY <1>1, CalendarHolds, PTL

\* The generator, the sync and the import together implement the calendar of
\* the bill: its occurrences settle one by one, in order, until its end_date.
THEOREM ImplementsCalendar == UneditedSpec => FollowsCalendar
<1>1. CalendarInv /\ [NextUnedited]_vars => [Calendar!Next]_(Calendar!vars)
  <2>1. CASE CalendarInv /\ NextUnedited
    BY <2>1, StepFollowsCalendar DEF Calendar!vars, bill
  <2>2. CASE UNCHANGED vars
    BY <2>2 DEF vars, Calendar!vars
  <2> QED
    BY <2>1, <2>2
<1> QED
  BY <1>1, CalendarInit, CalendarHolds, PTL
     DEF UneditedSpec, FollowsCalendar, Calendar!Spec

-----------------------------------------------------------------------------
(* One row per charge *)

\* How a step may change which rows carry an id: it takes none, or it gives
\* the id to one row when no row had it, or one row hands it to another.
IdMoves(c) == \/ Known(c)' \subseteq Known(c)
              \/ /\ Known(c) = {}
                 /\ \E r \in Rows : Known(c)' \subseteq {r}
              \/ \E a \in Known(c), s \in Rows : Known(c)' \subseteq (Known(c) \ {a}) \cup {s}

\* An id is carried by at most one row under each of these moves.
LEMMA IdFrame ==
    ASSUME NEW c \in Charges, \A r, q \in Known(c) : r = q, IdMoves(c)
    PROVE  \A r, q \in Known(c)' : r = q
BY DEF IdMoves

\* Replacing one row by a record with the same id, with none, or with the id of
\* a charge no row had, is such a move.
LEMMA OneRowMovesId ==
    ASSUME TypeOK, NEW c \in Charges, NEW r \in Rows, NEW new,
           row' = [row EXCEPT ![r] = new],
           new.ext = c => (r \in Known(c) \/ Known(c) = {})
    PROVE  IdMoves(c)
<1>1. row'[r] = new /\ \A q \in Rows \ {r} : row'[q] = row[q]
  BY OneRowChanges
<1>2. Known(c)' \subseteq Known(c) \cup {r}
  BY <1>1 DEF Known, Live
<1>3. CASE new.ext = c
  BY <1>2, <1>3 DEF IdMoves
<1>4. CASE new.ext # c
  BY <1>1, <1>2, <1>4 DEF IdMoves, Known
<1> QED
  BY <1>3, <1>4

\* A charge inserted by the sync or the import brings its own id only.
LEMMA InsertMovesId ==
    ASSUME TypeOK, NEW c \in Charges, NEW day, NEW source, NEW status, NEW ext,
           InsertCharge(day, source, status, ext),
           ext = c => Known(c) = {}
    PROVE  IdMoves(c)
<1> DEFINE new == [NoRow EXCEPT !.source = source, !.date = day,
                                !.status = status, !.ext = ext]
<1>1. PICK r \in FreeAuto :
         \/ row' = [row EXCEPT ![r] = [new EXCEPT !.linked = TRUE, !.occ = next]]
         \/ row' = [row EXCEPT ![r] = new]
  BY DEF InsertCharge
<1>2. new.ext = ext /\ [new EXCEPT !.linked = TRUE, !.occ = next].ext = ext
  BY DEF NoRow
<1>3. r \in Rows
  BY DEF FreeAuto, Rows
<1> HIDE DEF new
<1> QED
  BY <1>1, <1>2, <1>3, OneRowMovesId, Zenon

\* Every step moves an id in one of these ways.
LEMMA StepMovesId ==
    ASSUME TypeOK, NEW c \in Charges, Next
    PROVE  IdMoves(c)
<1> USE IdsAssumption DEF TypeOK
<1>1. ASSUME UNCHANGED row PROVE IdMoves(c)
  BY <1>1 DEF IdMoves, Known, Live
<1>2. \A r \in Live : r \in Rows /\ row[r] \in Row
  BY DEF Live
<1>3. ASSUME NEW r \in Live, NEW new, row' = [row EXCEPT ![r] = new],
             new.ext = row[r].ext
      PROVE  IdMoves(c)
  <2>1. new.ext = c => r \in Known(c)
    BY <1>3 DEF Known
  <2> QED
    BY <1>2, <1>3, <2>1, OneRowMovesId, Zenon
<1>4. ASSUME NEW r \in Rows, NEW new, row' = [row EXCEPT ![r] = new],
             new.ext # c \/ Known(c) = {}
      PROVE  IdMoves(c)
  BY <1>4, OneRowMovesId, Zenon
<1>5. NoCharge # c /\ NoRow.ext = NoCharge
  BY DEF ExtIds, NoRow
<1>6. CASE Environment
  BY <1>1, <1>6 DEF Environment, PassDays, BookCharge, PostCharge
<1>7. ASSUME NEW cutoff, GenerateNext(cutoff) PROVE IdMoves(c)
  <2>1. CASE UNCHANGED row
    BY <2>1, <1>1
  <2>2. CASE \E r \in RealRowsFor(next) :
               row' = [row EXCEPT ![r] = [@ EXCEPT !.linked = TRUE, !.occ = next]]
    <3>1. PICK r \in Live :
             row' = [row EXCEPT ![r] = [row[r] EXCEPT !.linked = TRUE, !.occ = next]]
      BY <2>2 DEF RealRowsFor
    <3>2. [row[r] EXCEPT !.linked = TRUE, !.occ = next].ext = row[r].ext
      BY <1>2 DEF Row
    <3> QED
      BY <3>1, <3>2, <1>3
  <2>3. CASE \E r \in FreeAuto :
               row' = [row EXCEPT ![r] =
                         [NoRow EXCEPT !.source = "recurring", !.date = next,
                                       !.status = "scheduled",
                                       !.linked = TRUE, !.occ = next]]
    <3> DEFINE new == [NoRow EXCEPT !.source = "recurring", !.date = next,
                                    !.status = "scheduled",
                                    !.linked = TRUE, !.occ = next]
    <3>1. PICK r \in Rows : row' = [row EXCEPT ![r] = new]
      BY <2>3 DEF FreeAuto, Rows
    <3>2. new.ext = NoCharge
      BY DEF NoRow
    <3> HIDE DEF new
    <3> QED
      BY <3>1, <3>2, <1>4, <1>5
  <2> QED
    BY <1>7, <2>1, <2>2, <2>3 DEF GenerateNext
<1>8. ASSUME NEW d \in Charges, SyncCharge(d) PROVE IdMoves(c)
  <2>1. CASE SyncKnown(d)
    <3>1. PICK r \in Live : row' = [row EXCEPT ![r] = [row[r] EXCEPT !.status = "posted"]]
      BY <2>1 DEF SyncKnown, Known
    <3>2. [row[r] EXCEPT !.status = "posted"].ext = row[r].ext
      BY <1>2 DEF Row
    <3> QED
      BY <3>1, <3>2, <1>3
  <2>2. CASE Known(d) = {} /\ (SyncFuzzy(d) \/ SyncTwin(d) \/ SyncPlaceholder(d))
    <3>1. PICK r \in Rows : \E new : row' = [row EXCEPT ![r] = new] /\ new.ext = d
      <4>1. CASE SyncFuzzy(d)
        <5>1. PICK r \in Live : row' = [row EXCEPT ![r] = [row[r] EXCEPT !.ext = d, !.source = "sync"]]
          BY <4>1 DEF SyncFuzzy, ManualMatches
        <5>2. [row[r] EXCEPT !.ext = d, !.source = "sync"].ext = d
          BY <1>2 DEF Row
        <5> QED
          BY <5>1, <5>2, <1>2
      <4>2. CASE SyncTwin(d)
        <5>1. PICK r \in Live : row' = [row EXCEPT ![r] = [row[r] EXCEPT !.status = "posted", !.ext = d]]
          BY <4>2 DEF SyncTwin, Twins
        <5>2. [row[r] EXCEPT !.status = "posted", !.ext = d].ext = d
          BY <1>2 DEF Row
        <5> QED
          BY <5>1, <5>2, <1>2
      <4>3. CASE SyncPlaceholder(d)
        <5>1. PICK r \in Live :
                 row' = [row EXCEPT ![r] = [row[r] EXCEPT !.ext = d, !.source = "sync",
                                                         !.status = feed[d].status]]
          BY <4>3 DEF SyncPlaceholder, PlaceholdersFor
        <5>2. [row[r] EXCEPT !.ext = d, !.source = "sync",
                      !.status = feed[d].status].ext = d
          BY <1>2 DEF Row
        <5> QED
          BY <5>1, <5>2, <1>2
      <4> QED
        BY <2>2, <4>1, <4>2, <4>3
    <3> QED
      BY <3>1, <2>2, <1>4
  <2>3. CASE Known(d) = {} /\ InsertCharge(feed[d].day, "sync", feed[d].status, d)
    BY <2>3, InsertMovesId
  <2> QED
    BY <1>8, <2>1, <2>2, <2>3 DEF SyncCharge
<1>9. ASSUME NEW l \in Lines, ImportLine(l) PROVE IdMoves(c)
  <2>1. l # c
    OBVIOUS
  <2>2. CASE \E r \in PlaceholdersFor(l, LineDay[l]) :
               row' = [row EXCEPT ![r] = [@ EXCEPT !.ext = l, !.source = "ofx"]]
    <3>1. PICK r \in Live : row' = [row EXCEPT ![r] = [row[r] EXCEPT !.ext = l, !.source = "ofx"]]
      BY <2>2 DEF PlaceholdersFor
    <3>2. [row[r] EXCEPT !.ext = l, !.source = "ofx"].ext = l
      BY <1>2 DEF Row
    <3> QED
      BY <3>1, <3>2, <2>1, <1>2, <1>4
  <2>3. CASE InsertCharge(LineDay[l], "ofx", "posted", l)
    BY <2>1, <2>3, InsertMovesId
  <2> QED
    BY <1>9, <2>2, <2>3 DEF ImportLine
<1>10. CASE UserOnRows
  <2>1. ASSUME NEW r \in ManualRows, NEW day, CreateManual(r, day)
        PROVE  IdMoves(c)
    <3>1. PICK st : row' = [row EXCEPT ![r] = [NoRow EXCEPT !.source = "manual",
                                                 !.date = day, !.status = st]]
      BY <2>1 DEF CreateManual
    <3>2. [NoRow EXCEPT !.source = "manual", !.date = day, !.status = st].ext = NoCharge
      BY DEF NoRow
    <3> QED
      BY <3>1, <3>2, <1>4, <1>5 DEF Rows
  <2>2. ASSUME NEW r \in Live, NEW st, SetStatus(r, st) PROVE IdMoves(c)
    <3>1. [row[r] EXCEPT !.status = st].ext = row[r].ext
      BY <1>2 DEF Row
    <3>2. row' = [row EXCEPT ![r] = [row[r] EXCEPT !.status = st]]
      BY <2>2 DEF SetStatus
    <3> QED
      BY <3>1, <3>2, <1>3
  <2>3. ASSUME NEW r \in Live, ToggleIgnore(r) PROVE IdMoves(c)
    <3>1. [row[r] EXCEPT !.ignored = ~row[r].ignored].ext = row[r].ext
      BY <1>2 DEF Row
    <3>2. row' = [row EXCEPT ![r] = [row[r] EXCEPT !.ignored = ~row[r].ignored]]
      BY <2>3 DEF ToggleIgnore
    <3> QED
      BY <3>1, <3>2, <1>3
  <2>4. ASSUME NEW r \in Live, Unlink(r) PROVE IdMoves(c)
    <3>1. [row[r] EXCEPT !.linked = FALSE, !.occ = NoOcc].ext = row[r].ext
      BY <1>2 DEF Row
    <3>2. row' = [row EXCEPT ![r] = [row[r] EXCEPT !.linked = FALSE, !.occ = NoOcc]]
      BY <2>4 DEF Unlink
    <3> QED
      BY <3>1, <3>2, <1>3
  <2>5. ASSUME NEW r \in Live, DeleteRow(r) PROVE IdMoves(c)
    BY <2>5, <1>2, <1>4, <1>5 DEF DeleteRow
  <2>6. ASSUME NEW r \in Live, NEW day, EditDate(r, day) PROVE IdMoves(c)
    <3>1. [row[r] EXCEPT !.date = day, !.status = StatusOn(day)].ext = row[r].ext
      BY <1>2 DEF Row
    <3>2. row' = [row EXCEPT ![r] = [row[r] EXCEPT !.date = day, !.status = StatusOn(day)]]
      BY <2>6 DEF EditDate
    <3> QED
      BY <3>1, <3>2, <1>3
  <2> QED
    BY <1>10, <2>1, <2>2, <2>3, <2>4, <2>5, <2>6 DEF UserOnRows
<1>11. ASSUME NEW s \in Live, NEW a \in Live, Reconcile(s, a) PROVE IdMoves(c)
  <2>1. s # a
    BY <1>11 DEF Reconcile
  <2>2. /\ row'[a] = NoRow
        /\ row'[s] = [row[s] EXCEPT !.date = row[a].date, !.status = "posted",
                                    !.ext = row[a].ext,
                                    !.source = row[a].source,
                                    !.reconciled = TRUE]
        /\ \A r \in Rows \ {a, s} : row'[r] = row[r]
    BY <1>11, <2>1, <1>2 DEF Reconcile
  <2>3. row'[s].ext = row[a].ext
    BY <2>2, <1>2 DEF Row
  <2>4. a \notin Known(c)' /\ (s \in Known(c)' => a \in Known(c))
    BY <2>2, <2>3, <1>5 DEF Known
  <2>5. \A r \in Known(c)' : r \in Known(c) \/ r = s
    BY <2>2, <1>5 DEF Known, Live
  <2> QED
    BY <2>4, <2>5, <1>2 DEF IdMoves
<1>12. CASE UserOnBill
  BY <1>1, <1>12 DEF UserOnBill, SaveBill, SetActive
<1>13. ASSUME NEW cutoff, GenerateEnded(cutoff) PROVE IdMoves(c)
  BY <1>1, <1>13 DEF GenerateEnded
<1> QED
  BY <1>6, <1>7, <1>8, <1>9, <1>10, <1>11, <1>12, <1>13
     DEF Next, NextReconciling, NextUnedited, Background, UserReconciles

\* A charge of the feed is one row of the account, whatever the user does to
\* its rows and to the bill.
THEOREM ChargeOnce == Spec => []OneRowPerCharge
<1>1. Init => OneRowPerCharge
  BY DEF Init, OneRowPerCharge, Known, Live, NoRow
<1>2. TypeOK /\ OneRowPerCharge /\ [Next]_vars => OneRowPerCharge'
  <2>1. CASE TypeOK /\ OneRowPerCharge /\ Next
    <3> SUFFICES ASSUME NEW c \in Charges
                 PROVE  \A r, q \in Known(c)' : r = q
      BY DEF OneRowPerCharge
    <3>1. IdMoves(c) /\ \A r, q \in Known(c) : r = q
      BY <2>1, StepMovesId DEF OneRowPerCharge
    <3> QED
      BY <3>1, IdFrame
  <2>2. CASE OneRowPerCharge /\ UNCHANGED vars
    BY <2>2 DEF vars, OneRowPerCharge, Known, Live
  <2> QED
    BY <2>1, <2>2
<1> QED
  BY <1>1, <1>2, TypeCorrect, PTL DEF Spec

-----------------------------------------------------------------------------
(* The forecast of a month *)

\* A set of days has an earliest one.
LEMMA EarliestDay ==
    ASSUME NEW T, T \subseteq Nat, T # {}
    PROVE  \E d \in T : \A e \in T : d <= e
<1>1. PICK d \in T : \A e \in T : <<e, d>> \notin OpToRel(<, Nat)
  BY NatLessThanWellFounded, WFMin
<1>2. \A e \in T : ~(e < d)
  BY <1>1 DEF OpToRel
<1> QED
  BY <1>2

\* The rows of the bill stand for days of its calendar.
OnCalendar == \A r \in Standing : OnSchedule(row[r].occ)

ForecastInv == CalendarInv /\ PointerAhead /\ OneRowPerOccurrence /\ OnCalendar

LEMMA ForecastStep == ForecastInv /\ [NextUnedited]_vars => ForecastInv'
<1> SUFFICES ASSUME ForecastInv, [NextUnedited]_vars
             PROVE  ForecastInv'
  OBVIOUS
<1> USE DEF ForecastInv
<1>1. CASE NextUnedited
  <2>1. TypeOK /\ TypeOK'
    BY <1>1, TypeStep DEF CalendarInv, Next, NextReconciling
  <2>2. Takes \/ (next' >= next /\ \A r \in Rows : Keeps(r))
    BY <1>1, <2>1, StepTakesOrKeeps DEF NextReconciling
  <2>3. PointerAhead' /\ OneRowPerOccurrence'
    BY <2>1, <2>2, OccurrenceFrame DEF OccurrenceInv
  <2>4. CalendarInv'
    BY <1>1, <2>1, StepFollowsCalendar, SettleKeepsCalendar
  <2>5. \A r \in Rows : Keeps(r) \/ row'[r].occ = next
    BY <2>2 DEF Takes
  <2>6. OnSchedule(next)
    BY DEF CalendarInv
  <2>7. OnCalendar'
    BY <2>5, <2>6 DEF OnCalendar, Keeps, Standing, Live, OnSchedule
  <2> QED
    BY <2>3, <2>4, <2>7
<1>2. CASE UNCHANGED vars
  <2>1. CalendarInv'
    BY <1>2 DEF vars, CalendarInv, TypeOK, NoOccurrenceSkipped
  <2> QED
    BY <1>2, <2>1 DEF vars, PointerAhead, OneRowPerOccurrence, OnCalendar, Standing, Live
<1> QED
  BY <1>1, <1>2

LEMMA ForecastInit == Init => ForecastInv
<1>1. Init => CalendarInv
  BY CalendarInit
<1>2. Init => Live = {}
  BY DEF Init, Live, NoRow
<1> QED
  BY <1>1, <1>2 DEF ForecastInv, PointerAhead, OneRowPerOccurrence, OnCalendar, Standing

\* The anchor is the pointer or an unpaid day of the month, and none of them
\* is before it.
LEMMA AnchorFirst ==
    ASSUME TypeOK, NEW lo \in Nat, NEW hi \in Nat
    PROVE  /\ Anchor(lo, hi) \in Nat
           /\ Anchor(lo, hi) <= next
           /\ \A r \in RowsIn(lo, hi) :
                 row[r].status = "scheduled" => Anchor(lo, hi) <= row[r].date
           /\ \/ Anchor(lo, hi) = next
              \/ \E r \in RowsIn(lo, hi) : Anchor(lo, hi) = row[r].date
<1> DEFINE unpaid == {row[r].date : r \in {q \in RowsIn(lo, hi) : row[q].status = "scheduled"}}
           all == unpaid \cup {next}
<1>1. all \subseteq Nat /\ all # {}
  BY DEF TypeOK, Row, RowsIn, Live
<1>2. \E d \in all : \A e \in all : d <= e
  BY <1>1, EarliestDay
<1>3. Anchor(lo, hi) = CHOOSE d \in all : \A e \in all : d <= e
  BY DEF Anchor
<1>4. Anchor(lo, hi) \in all /\ \A e \in all : Anchor(lo, hi) <= e
  BY <1>2, <1>3
<1> QED
  BY <1>1, <1>4

\* Every expected day of a month is counted once, as a row or as a projection.
LEMMA SumsFollow == ForecastInv => SumsOnce
<1> SUFFICES ASSUME ForecastInv,
                    NEW m \in Months, NEW o \in m[1] .. m[2],
                    active, OnSchedule(o), o <= End,
                    \/ o >= next
                    \/ \E r \in Live : row[r].linked /\ row[r].date = o /\ ~row[r].ignored,
                    \A r \in RowsIn(m[1], m[2]) : row[r].date = row[r].occ
             PROVE  IF o \in Projected(m[1], m[2])
                    THEN ~ \E r \in Counted(m[1], m[2]) : row[r].occ = o
                    ELSE \E r \in Counted(m[1], m[2]) : row[r].occ = o
  BY DEF SumsOnce, Expected
<1> DEFINE lo == m[1]
           hi == m[2]
           anchor == Anchor(lo, hi)
<1>1. lo \in Nat /\ hi \in Nat /\ o \in Nat
  BY DEF Months
<1>2. TypeOK /\ OnSchedule(next) /\ PointerAhead /\ OneRowPerOccurrence /\ OnCalendar
  BY DEF ForecastInv, CalendarInv
<1>3. \A r \in Rows : /\ row[r].status \in {"scheduled", "pending", "posted"}
                      /\ row[r].date \in Nat /\ row[r].ignored \in BOOLEAN
  BY <1>2 DEF TypeOK, Row, Statuses
<1>4. \A r \in RowsIn(lo, hi) : r \in Rows /\ r \in Standing /\ row[r].occ < next
  BY <1>2 DEF RowsIn, Standing, Live, PointerAhead
<1>5. CASE o \in Projected(lo, hi)
  <2>1. SUFFICES ASSUME NEW r \in Counted(lo, hi), row[r].occ = o
                 PROVE  FALSE
    BY <1>5
  <2>2. r \in RowsIn(lo, hi) /\ row[r].status # "scheduled" /\ row[r].date = o
    BY <2>1 DEF Counted
  <2> QED
    BY <1>3, <1>4, <1>5, <2>2 DEF Projected
<1>6. CASE o \notin Projected(lo, hi)
  <2>1. Start <= hi
    BY <1>1 DEF OnSchedule
  <2>2. \/ o \notin OccurrencesFrom(anchor, lo, hi)
        \/ \E r \in RowsIn(lo, hi) :
              row[r].date = o /\ row[r].status \in {"posted", "pending"}
    BY <1>1, <1>6, <2>1 DEF Projected
  <2>3. ASSUME o < next
        PROVE  \E r \in RowsIn(lo, hi) : row[r].date = o /\ ~row[r].ignored
    BY <2>3, <1>1, <1>2 DEF RowsIn, TypeOK
  <2>4. CASE o \notin OccurrencesFrom(anchor, lo, hi)
    <3>1. o # anchor /\ ~(o >= Advance(anchor))
      BY <1>1, <2>4 DEF OccurrencesFrom
    <3>2. /\ anchor \in Nat /\ anchor <= next
          /\ \A r \in RowsIn(lo, hi) :
                row[r].status = "scheduled" => anchor <= row[r].date
          /\ anchor = next \/ \E r \in RowsIn(lo, hi) : anchor = row[r].date
      BY <1>1, <1>2, AnchorFirst
    <3>3. OnSchedule(anchor)
      BY <1>2, <1>4, <3>2 DEF OnCalendar
    <3>4. o < anchor
      <4>1. Advance(anchor) \in Nat /\ o < Advance(anchor)
        BY <1>1, <3>1, <3>2, AdvanceIsLater
      <4>2. o <= anchor
        BY <1>1, <3>2, <3>3, <4>1, AdvanceOnSchedule
      <4> QED
        BY <1>1, <3>1, <3>2, <4>2
    <3>5. PICK r \in RowsIn(lo, hi) : row[r].date = o /\ ~row[r].ignored
      BY <1>1, <1>2, <2>3, <3>2, <3>4 DEF TypeOK
    <3>6. row[r].status # "scheduled"
      BY <1>1, <3>2, <3>4, <3>5
    <3> QED
      BY <1>6, <3>5, <3>6 DEF Counted
  <2>5. CASE \E r \in RowsIn(lo, hi) :
                row[r].date = o /\ row[r].status \in {"posted", "pending"}
    <3>1. PICK r \in RowsIn(lo, hi) :
             row[r].date = o /\ row[r].status \in {"posted", "pending"}
      BY <2>5
    <3>2. row[r].occ = o /\ o < next
      BY <1>4, <3>1
    <3>3. PICK q \in RowsIn(lo, hi) : row[q].date = o /\ ~row[q].ignored
      BY <2>3, <3>2
    <3>4. row[q].occ = o
      BY <3>3
    <3>5. q = r
      BY <1>2, <1>4, <3>2, <3>4 DEF OneRowPerOccurrence, Standing
    <3> QED
      BY <1>6, <3>1, <3>2, <3>3, <3>5 DEF Counted
  <2> QED
    BY <2>2, <2>4, <2>5
<1> QED
  BY <1>5, <1>6

\* The list of a month: a day before the pointer has its row, one after it none.
LEMMA ListFollows == ForecastInv => ListOnce
<1> SUFFICES ASSUME ForecastInv,
                    NEW m \in Months, NEW o \in m[1] .. m[2],
                    active, OnSchedule(o), o <= End,
                    \/ o >= next
                    \/ \E r \in Live : row[r].linked /\ row[r].date = o /\ ~row[r].ignored,
                    \A r \in RowsIn(m[1], m[2]) : row[r].date = row[r].occ
             PROVE  IF o \in Listed(m[1], m[2])
                    THEN ~ \E r \in RowsIn(m[1], m[2]) : row[r].occ = o
                    ELSE \E r \in RowsIn(m[1], m[2]) : row[r].occ = o
  BY DEF ListOnce, Expected
<1>1. m[1] \in Nat /\ m[2] \in Nat /\ o \in Nat
  BY DEF Months
<1>2. next \in Nat /\ OnSchedule(next) /\ PointerAhead
  BY DEF ForecastInv, CalendarInv, TypeOK
<1>3. \A r \in RowsIn(m[1], m[2]) : row[r].occ < next
  BY <1>2 DEF RowsIn, Standing, Live, PointerAhead
<1>4. Advance(next) \in Nat /\ next < Advance(next)
  BY <1>2, AdvanceIsLater
<1>5. Start <= m[2]
  BY <1>1 DEF OnSchedule
<1>6. CASE o >= next
  <2>1. o = next \/ o >= Advance(next)
    <3>1. CASE o < Advance(next)
      BY <1>1, <1>2, <1>6, <3>1, AdvanceOnSchedule
    <3> QED
      BY <1>1, <1>4, <3>1
  <2>2. o \in Listed(m[1], m[2])
    BY <1>5, <1>1, <2>1 DEF Listed, OccurrencesFrom, OnSchedule
  <2> QED
    BY <1>1, <1>2, <1>3, <1>6, <2>2
<1>7. CASE ~(o >= next)
  <2>1. o \notin Listed(m[1], m[2])
    BY <1>1, <1>2, <1>4, <1>7 DEF Listed, OccurrencesFrom
  <2>2. PICK r \in Live : row[r].linked /\ row[r].date = o
    BY <1>7
  <2>3. r \in RowsIn(m[1], m[2])
    BY <2>2 DEF RowsIn
  <2> QED
    BY <2>1, <2>2, <2>3
<1> QED
  BY <1>6, <1>7

LEMMA ForecastFollows == ForecastInv => ForecastOnce
  BY SumsFollow, ListFollows DEF ForecastOnce

\* Whatever generates, matches and edits the rows of a bill, the forecast of a
\* month shows each of its days once (get_occurrences_in_range with
\* counts_as_pnl): a day before the pointer has its row, one after it has none.
THEOREM ForecastHolds == UneditedSpec => []ForecastOnce
<1> QED
  BY ForecastInit, ForecastStep, ForecastFollows, PTL DEF UneditedSpec
=============================================================================
