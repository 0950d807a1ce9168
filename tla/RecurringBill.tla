---------------------------- MODULE RecurringBill ----------------------------
(***************************************************************************)
(* One recurring bill and the account it is charged to.                    *)
(*                                                                         *)
(* generate_pending materialises the bill's due occurrences as scheduled   *)
(* placeholder rows; bank sync and file import bring the real charges and  *)
(* either merge them into a placeholder, or link them to the bill and push *)
(* its next_occurrence forward; the user pays, ignores, unlinks, deletes   *)
(* and reconciles rows and edits the bill.  All of them meet in two places *)
(* only: the pointer next_occurrence and the rows of the account.          *)
(*                                                                         *)
(* Here every handler is one atomic step; RecurringSessions takes          *)
(* generate_pending apart.  Charges and statement lines in Exact, and the  *)
(* rows the user enters, agree with the bill on amount, currency, type and *)
(* wording, so that only dates decide a match; the others match nothing by *)
(* themselves and meet the bill only when the user reconciles them.        *)
(***************************************************************************)
EXTENDS BillCalendar

CONSTANTS
    AutoRows,    \* identities of the rows that background work inserts
    ManualRows,  \* identities of the rows the user enters by hand
    Charges,     \* external ids in the bank's feed
    Lines,       \* FITIDs of the lines of a statement file
    LineDay,     \* the date each line carries
    Exact,       \* the ids whose charge has the bill's amount and wording
    NoCharge,    \* "no external id"
    Days,        \* the days on which something happens
    Horizon,     \* the last day of the furthest month the user opens
    MaxEdits     \* bound: how many edits the user makes

NoOcc == -1

Rows == AutoRows \cup ManualRows
ExtIds == Charges \cup Lines

ASSUME RowsAssumption == AutoRows \cap ManualRows = {}
ASSUME IdsAssumption == /\ Charges \cap Lines = {}
                        /\ NoCharge \notin ExtIds
                        /\ Exact \subseteq ExtIds
ASSUME DaysAssumption == /\ Days \subseteq Nat
                         /\ LineDay \in [Lines -> Days]
                         /\ Horizon \in Nat
                         /\ MaxEdits \in Nat

VARIABLES
    today,      \* the server's date
    feed,       \* what the bank reports of each charge
    row,        \* the rows of the account
    active,     \* recurring.is_active
    auto,       \* recurring.auto_generate
    next,       \* recurring.next_occurrence
    settled,    \* history: the occurrences some row has stood for
    edits       \* the user's edits so far (bound)

vars == <<today, feed, row, active, auto, next, settled, edits>>
bill == <<active, auto, next, settled>>

Sources == {"none", "recurring", "manual", "sync", "ofx"}
Statuses == {"scheduled", "pending", "posted"}

\* occ is history: the expected date a linked row was matched to.
Row == [source : Sources, date : Nat, status : Statuses,
        ext : ExtIds \cup {NoCharge}, linked : BOOLEAN, ignored : BOOLEAN,
        reconciled : BOOLEAN, occ : Nat \cup {NoOcc}]

NoRow == [source |-> "none", date |-> 0, status |-> "posted", ext |-> NoCharge,
          linked |-> FALSE, ignored |-> FALSE, reconciled |-> FALSE, occ |-> NoOcc]

FeedEntry == [day : Nat, status : {"absent", "pending", "posted"}]

Live == {r \in Rows : row[r].source # "none"}
FreeAuto == {r \in AutoRows : row[r].source = "none"}

-----------------------------------------------------------------------------
(* Matching *)

\* find_real_tx_for_occurrence; of several candidates any may score best.
RealRowsFor(occurrence) ==
    {r \in Live : /\ ~row[r].linked
                  /\ row[r].source \in {"sync", "ofx", "manual"}
                  /\ row[r].ext \in Exact \cup {NoCharge}
                  /\ row[r].date >= occurrence - Before
                  /\ row[r].date <= occurrence + After
                  /\ ~row[r].ignored}

\* find_placeholder_for_incoming
PlaceholdersFor(ext, day) ==
    {r \in Live : /\ ext \in Exact
                  /\ row[r].source = "recurring"
                  /\ row[r].linked
                  /\ row[r].ext = NoCharge
                  /\ Near(row[r].date, day, Slack)
                  /\ ~row[r].ignored}

\* find_bill_for_incoming
BillTakes(ext, day) == /\ ext \in Exact
                       /\ active
                       /\ day >= next - Before
                       /\ day <= next + After

\* _fuzzy_match_manual
ManualMatches(ext, day) ==
    {r \in Live : /\ ext \in Exact
                  /\ row[r].source = "manual"
                  /\ row[r].ext = NoCharge
                  /\ Near(row[r].date, day, FuzzySlack)}

\* _find_synced_duplicate, its second path: a twin under another id whose
\* status differs.
Twins(c) ==
    {r \in Live : /\ row[r].source = "sync"
                  /\ row[r].date = feed[c].day
                  /\ row[r].status # feed[c].status
                  /\ row[r].ext \notin {c, NoCharge}
                  /\ {row[r].ext, c} \subseteq Exact}

\* Seeded fault for Known: pending rows are overlooked.
KnownPosted(c) == {r \in Live : row[r].ext = c /\ row[r].status # "pending"}

Known(c) == {r \in Live : row[r].ext = c}

-----------------------------------------------------------------------------
(* Background work *)

\* Seeded fault for StepPointer: the occurrence on end_date itself is lost.
StepPointerEndExclusive ==
    /\ next' = Advance(next)
    /\ active' = (Advance(next) < End)
    /\ settled' = settled \cup {next}
    /\ UNCHANGED auto

\* Seeded fault for StepPointer: an occurrence met by a real charge does not
\* move the pointer.
StepPointerPastNewRows ==
    \/ RealRowsFor(next) # {} /\ UNCHANGED bill
    \/ /\ RealRowsFor(next) = {}
       /\ next' = Advance(next)
       /\ active' = (Advance(next) <= End)
       /\ settled' = settled \cup {next}
       /\ UNCHANGED auto

\* What generate_pending does after one occurrence: advance the pointer and
\* deactivate the bill once it is past its end_date.
StepPointer ==
    /\ next' = Advance(next)
    /\ active' = (Advance(next) <= End)
    /\ settled' = settled \cup {next}
    /\ UNCHANGED auto

\* The existing_placeholder query.
Materialised == {r \in Live : /\ row[r].linked
                              /\ row[r].source = "recurring"
                              /\ row[r].date = next}

\* One turn of generate_pending's loop; the hourly task calls it with today,
\* GET /transactions with the end of the viewed month.
GenerateNext(cutoff) ==
    /\ active
    /\ auto
    /\ next <= cutoff
    /\ next <= End
    /\ \/ /\ Materialised # {}
          /\ UNCHANGED row
       \/ /\ Materialised = {}
          /\ \E r \in RealRowsFor(next) :
                row' = [row EXCEPT ![r] = [@ EXCEPT !.linked = TRUE, !.occ = next]]
       \/ /\ Materialised = {}
          /\ RealRowsFor(next) = {}
          /\ \E r \in FreeAuto :
                row' = [row EXCEPT ![r] =
                          [NoRow EXCEPT !.source = "recurring", !.date = next,
                                        !.status = "scheduled",
                                        !.linked = TRUE, !.occ = next]]
    /\ StepPointer
    /\ UNCHANGED <<today, feed>>

\* The same loop on a bill whose pointer is already past its end_date.
GenerateEnded(cutoff) ==
    /\ active
    /\ auto
    /\ next <= cutoff
    /\ next > End
    /\ active' = FALSE
    /\ UNCHANGED <<today, feed, row, auto, next, settled>>

\* A real charge no row stands for yet: insert it, and when the bill expects
\* it, link it and advance the bill past it.
InsertCharge(day, source, status, ext) ==
    \E r \in FreeAuto :
       LET new == [NoRow EXCEPT !.source = source, !.date = day,
                                !.status = status, !.ext = ext]
       IN  IF BillTakes(ext, day)
           THEN /\ row' = [row EXCEPT ![r] =
                             [new EXCEPT !.linked = TRUE, !.occ = next]]
                /\ next' = AdvancePast(next, day)
                /\ active' = (AdvancePast(next, day) <= End)
                /\ settled' = settled \cup {next}
                /\ UNCHANGED auto
           ELSE /\ row' = [row EXCEPT ![r] = new]
                /\ UNCHANGED bill

\* sync_connection's passes over one charge of the feed, in their order.
SyncKnown(c) ==
    \E r \in Known(c) :
       /\ ~row[r].ignored
       /\ row[r].status = "pending"
       /\ feed[c].status = "posted"
       /\ row' = [row EXCEPT ![r].status = "posted"]
       /\ UNCHANGED bill

SyncFuzzy(c) ==
    \E r \in ManualMatches(c, feed[c].day) :
       /\ ~row[r].ignored
       /\ row' = [row EXCEPT ![r] = [@ EXCEPT !.ext = c, !.source = "sync"]]
       /\ UNCHANGED bill

SyncTwin(c) ==
    \E r \in Twins(c) :
       /\ row[r].status = "pending"
       /\ feed[c].status = "posted"
       /\ row' = [row EXCEPT ![r] = [@ EXCEPT !.status = "posted", !.ext = c]]
       /\ UNCHANGED bill

SyncPlaceholder(c) ==
    \E r \in PlaceholdersFor(c, feed[c].day) :
       /\ row' = [row EXCEPT ![r] = [@ EXCEPT !.ext = c, !.source = "sync",
                                              !.status = feed[c].status]]
       /\ UNCHANGED bill

SyncCharge(c) ==
    /\ feed[c].status # "absent"
    /\ \/ SyncKnown(c)
       \/ /\ Known(c) = {}
          /\ SyncFuzzy(c)
       \/ /\ Known(c) = {}
          /\ ManualMatches(c, feed[c].day) = {}
          /\ SyncTwin(c)
       \/ /\ Known(c) = {}
          /\ ManualMatches(c, feed[c].day) = {}
          /\ Twins(c) = {}
          /\ SyncPlaceholder(c)
       \/ /\ Known(c) = {}
          /\ ManualMatches(c, feed[c].day) = {}
          /\ Twins(c) = {}
          /\ PlaceholdersFor(c, feed[c].day) = {}
          /\ InsertCharge(feed[c].day, "sync", feed[c].status, c)
    /\ UNCHANGED <<today, feed>>

\* import_transactions on one line of an OFX file.
ImportLine(l) ==
    /\ ~ \E r \in Known(l) : row[r].date = LineDay[l]
    /\ \/ \E r \in PlaceholdersFor(l, LineDay[l]) :
             /\ row' = [row EXCEPT ![r] = [@ EXCEPT !.ext = l, !.source = "ofx"]]
             /\ UNCHANGED bill
       \/ /\ PlaceholdersFor(l, LineDay[l]) = {}
          /\ InsertCharge(LineDay[l], "ofx", "posted", l)
    /\ UNCHANGED <<today, feed>>

-----------------------------------------------------------------------------
(* The user on the rows *)

\* _derive_status: a debit dated in the future is "a pagar".
StatusOn(day) == IF day > today THEN "scheduled" ELSE "posted"

\* create_transaction
CreateManual(r, day) ==
    /\ row[r].source = "none"
    /\ row' = [row EXCEPT ![r] =
                 [NoRow EXCEPT !.source = "manual", !.date = day,
                               !.status = StatusOn(day)]]
    /\ UNCHANGED <<today, feed, bill>>

\* update_transaction with an explicit status: "Pagar" and "Desfazer".
SetStatus(r, status) ==
    /\ row' = [row EXCEPT ![r].status = status]
    /\ UNCHANGED <<today, feed, bill>>

\* update_transaction with a date and no status, as the edit dialog sends it:
\* the status is derived anew.
EditDate(r, day) ==
    /\ row' = [row EXCEPT ![r] = [@ EXCEPT !.date = day, !.status = StatusOn(day)]]
    /\ UNCHANGED <<today, feed, bill>>

ToggleIgnore(r) ==
    /\ row' = [row EXCEPT ![r].ignored = ~@]
    /\ UNCHANGED <<today, feed, bill>>

\* unlink_recurring_transaction
Unlink(r) ==
    /\ row[r].linked
    /\ row' = [row EXCEPT ![r] = [@ EXCEPT !.linked = FALSE, !.occ = NoOcc]]
    /\ UNCHANGED <<today, feed, bill>>

DeleteRow(r) ==
    /\ row' = [row EXCEPT ![r] = NoRow]
    /\ UNCHANGED <<today, feed, bill>>

\* reconcile_transactions: the scheduled row survives and absorbs the real one.
Reconcile(survivor, absorbed) ==
    /\ row[survivor].status = "scheduled"
    /\ row[absorbed].status \in {"posted", "pending"}
    /\ ~row[survivor].reconciled
    /\ ~row[absorbed].reconciled
    /\ row' = [row EXCEPT
                 ![absorbed] = NoRow,
                 ![survivor] =
                    [@ EXCEPT !.date = row[absorbed].date, !.status = "posted",
                              !.ext = row[absorbed].ext,
                              !.source = row[absorbed].source,
                              !.reconciled = TRUE]]
    /\ IF row[survivor].linked
       THEN /\ next' = AdvancePast(next, row[absorbed].date)
            /\ active' = (active /\ AdvancePast(next, row[absorbed].date) <= End)
            /\ UNCHANGED <<auto, settled>>
       ELSE UNCHANGED bill
    /\ UNCHANGED <<today, feed>>

-----------------------------------------------------------------------------
(* The user on the bill *)

\* update_recurring_transaction as the edit form sends it: the schedule fields
\* are always in the payload, so the pointer is computed anew.
LinkedDates == {row[r].date : r \in {q \in Live : row[q].linked}}

SaveBill(isActive, autoGenerate) ==
    /\ active' = isActive
    /\ auto' = autoGenerate
    /\ IF LinkedDates = {}
       THEN next' = Start
       ELSE \E latest \in LinkedDates :
               /\ \A d \in LinkedDates : d <= latest
               /\ next' = Advance(latest)
    /\ UNCHANGED <<today, feed, row, settled>>

\* The same handler with only is_active in the payload.
SetActive(b) ==
    /\ active # b
    /\ active' = b
    /\ UNCHANGED <<today, feed, row, auto, next, settled>>

-----------------------------------------------------------------------------
(* The environment *)

PassDays(d) ==
    /\ d > today
    /\ today' = d
    /\ UNCHANGED <<feed, row, bill>>

\* The bank books a charge, possibly pending first.
BookCharge(c, day, status) ==
    /\ feed[c].status = "absent"
    /\ feed' = [feed EXCEPT ![c] = [day |-> day, status |-> status]]
    /\ UNCHANGED <<today, row, bill>>

PostCharge(c) ==
    /\ feed[c].status = "pending"
    /\ feed' = [feed EXCEPT ![c].status = "posted"]
    /\ UNCHANGED <<today, row, bill>>

-----------------------------------------------------------------------------
Init ==
    /\ today \in Days
    /\ feed = [c \in Charges |-> [day |-> 0, status |-> "absent"]]
    /\ row = [r \in Rows |-> NoRow]
    /\ active = TRUE
    /\ auto \in BOOLEAN
    /\ \/ next = Start /\ settled = {}
       \/ next = Advance(Start) /\ settled = {Start}   \* skip_first
    /\ edits = 0

Environment ==
    /\ UNCHANGED edits
    /\ \/ \E d \in Days : PassDays(d)
       \/ \E c \in Charges, day \in Days, s \in {"pending", "posted"} :
             BookCharge(c, day, s)
       \/ \E c \in Charges : PostCharge(c)

Background ==
    /\ UNCHANGED edits
    /\ \/ \E cutoff \in {today, Horizon} :
             GenerateNext(cutoff) \/ GenerateEnded(cutoff)
       \/ \E c \in Charges : SyncCharge(c)
       \/ \E l \in Lines : ImportLine(l)

UserEdits ==
    /\ edits < MaxEdits
    /\ edits' = edits + 1

UserOnRows ==
    /\ UserEdits
    /\ \/ \E r \in ManualRows, day \in Days : CreateManual(r, day)
       \/ \E r \in Live, s \in {"scheduled", "posted"} : SetStatus(r, s)
       \/ \E r \in Live, day \in Days : EditDate(r, day)
       \/ \E r \in Live : ToggleIgnore(r) \/ Unlink(r) \/ DeleteRow(r)

UserReconciles ==
    /\ UserEdits
    /\ \E s, a \in Live : Reconcile(s, a)

UserOnBill ==
    /\ UserEdits
    /\ \/ \E b, g \in BOOLEAN : SaveBill(b, g)
       \/ \E b \in BOOLEAN : SetActive(b)

\* The bill left alone: background work and the user's edits of single rows.
NextUnedited == Environment \/ Background \/ UserOnRows

\* The same, and the user reconciles rows.
NextReconciling == NextUnedited \/ UserReconciles

Next == NextReconciling \/ UserOnBill

UneditedSpec == Init /\ [][NextUnedited]_vars
ReconcilingSpec == Init /\ [][NextReconciling]_vars
Spec == Init /\ [][Next]_vars

\* Celery beat runs generate_all_recurring every hour, with today as cutoff.
FairSpec == UneditedSpec /\ WF_vars(GenerateNext(today) /\ UNCHANGED edits)

-----------------------------------------------------------------------------
(* Properties *)

TypeOK ==
    /\ today \in Nat
    /\ feed \in [Charges -> FeedEntry]
    /\ row \in [Rows -> Row]
    /\ active \in BOOLEAN
    /\ auto \in BOOLEAN
    /\ next \in Nat
    /\ settled \subseteq Nat
    /\ edits \in Nat

\* A bill's occurrence is never on the account twice: whichever of the
\* generator, the sync and the import comes first, the others find its row or
\* the advanced pointer (recurring_match_service; generate_pending).
OneRowPerOccurrence ==
    \A r, q \in Live :
       (row[r].linked /\ row[q].linked /\ row[r].occ = row[q].occ) => r = q

\* The pointer never passes an expected day for which no row was ever written
\* or linked: advance_past and generate_pending move it one occurrence at a
\* time (recurring_match_service.advance_past).
NoOccurrenceSkipped ==
    \A o \in Start .. (next - 1) : OnSchedule(o) => o \in settled

\* What the bill promises: its occurrences settle one by one, in the order of
\* its calendar, none twice and none left out, until its end_date closes it.
Calendar == INSTANCE OccurrenceCalendar
              WITH pointer <- next, done <- settled, open <- active

FollowsCalendar == Calendar!Spec

\* A charge of the bank feed has one row, however often it is re-sent and
\* whatever the user did to its row in between (sync_connection, passes 1-4).
OneRowPerCharge ==
    \A c \in Charges : \A r, q \in Known(c) : r = q

\* Every occurrence of an automatic bill that has come due, up to its end
\* date, gets a row.
Occurrences == {o \in Start .. Horizon : OnSchedule(o) /\ o <= End}

DueOccurrencesSettle ==
    \A o \in Occurrences : (auto /\ today >= o) ~> (o \in settled)
=============================================================================
