------------------------------- MODULE Alerts -------------------------------
(***************************************************************************)
(* Due-date alerts of one user: scheduled transactions, the invoice of a   *)
(* card and the occurrences of a recurring bill are announced on the       *)
(* trigger days before they fall due, by the hourly task and by the button *)
(* that does the same at once.  Both read what is due, commit the alerts   *)
(* and then push them; the user pays, moves, deletes and dismisses in      *)
(* between, and a process may stop at any point.                           *)
(***************************************************************************)
EXTENDS Naturals, FiniteSets

CONSTANTS
    Txs,
    Hourly, Button,   \* the two that create alerts
    Offsets, WindowDays,  \* ALERT_DAYS and WINDOW_DAYS
    Period,           \* days between two occurrences of the recurring bill
    MaxDay,           \* bound: days simulated
    MaxEdits          \* bound: edits, requests and crashes

(* What the constants must be; the modules of the runs assume it.           *)
AlertsAssumption ==
    /\ Hourly # Button /\ Offsets \subseteq 0..WindowDays
    /\ WindowDays \in Nat /\ Period \in Nat \ {0} /\ MaxDay \in Nat \ {0} /\ MaxEdits \in Nat

VARIABLES
    today,     \* the user's day, in the user's time zone
    tx,        \* transactions: due day, status, category, link to the recurring bill
    bill,      \* due day of the invoice, 0 = no row
    rec,       \* the recurring bill: active, next_occurrence, end_date (0 = none), category
    status,    \* notifications: key -> status
    run,       \* what each creator is doing, for which day, with the alerts it holds
    sent,      \* alerts whose push may have gone out
    twice,     \* one of them a second time
    edits

vars == <<today, tx, bill, rec, status, run, sent, twice, edits>>

Creators == {Hourly, Button}
Days == 1..(MaxDay + WindowDays + Period)
NoTx == [due |-> 0, is |-> "none", muted |-> FALSE, linked |-> FALSE]
Keys == [type : {"transaction", "bill", "recurring"}, id : Txs \cup {"one"},
         off : 0..WindowDays, due : Days]
Idle == [at |-> "idle", day |-> 0, batch |-> {}]

Init ==
    /\ today = 1
    /\ tx = [t \in Txs |-> NoTx]
    /\ bill \in {0, 1 + WindowDays}
    /\ rec = [active |-> TRUE, next |-> Period, ends |-> 0, muted |-> FALSE]
    /\ status = [k \in {} |-> "unread"]
    /\ run = [c \in Creators |-> Idle]
    /\ sent = {} /\ twice = FALSE /\ edits = 0
-----------------------------------------------------------------------------
(* What is due, seen from a day.                                            *)
Window(day) == day..(day + WindowDays)

Key(type, id, due, day) == [type |-> type, id |-> id, off |-> due - day, due |-> due]

(* _scheduled_tx_candidates less the excluded categories.                   *)
DueTxs(day) ==
    {Key("transaction", t, tx[t].due, day) :
        t \in {x \in Txs : tx[x].is = "scheduled" /\ ~tx[x].muted /\ tx[x].due \in Window(day)}}

DueBills(day) == {Key("bill", "one", d, day) : d \in {bill} \cap Window(day)}

(* get_occurrences_in_range from next_occurrence to end_date, less those    *)
(* that have a linked transaction of that day, and the excluded category.   *)
PastEnd(d) == rec.ends # 0 /\ d > rec.ends

Occurrences(day) ==
    {d \in Window(day) : d >= rec.next /\ (d - rec.next) % Period = 0 /\ ~PastEnd(d)}

DueOccurrences(day) ==
    IF ~rec.active \/ rec.muted THEN {}
    ELSE {Key("recurring", "one", d, day) :
            d \in {o \in Occurrences(day) : \A t \in Txs : ~(tx[t].linked /\ tx[t].due = o)}}

(* _build_alerts: only the trigger days.                                    *)
OnTrigger(some) == {k \in some : k.off \in Offsets}
Fired == OnTrigger(DueTxs(today) \cup DueBills(today) \cup DueOccurrences(today))

Existing == DOMAIN status

(* What create_due_date_alerts inserts, of what it has read.                *)
NewAlerts(read) == OnTrigger(read) \ Existing

(* _dismiss_stale_alerts: is the target of an alert still there?            *)
Alive(k) ==
    CASE k.type = "transaction" -> tx[k.id].is = "scheduled"
      [] k.type = "bill" -> bill # 0
      [] OTHER -> rec.active

Stale == {k \in DOMAIN status : status[k] # "dismissed" /\ ~Alive(k)}
Dismissed(S) == [k \in DOMAIN status |-> IF k \in S THEN "dismissed" ELSE status[k]]
-----------------------------------------------------------------------------
Bounded == edits < MaxEdits /\ edits' = edits + 1
(* create_due_date_alerts up to its commit.  The day is taken once; what is *)
(* stale is dismissed and committed; the transactions are read, then the    *)
(* rest, and others commit in between.                                      *)
DismissStale(c) ==
    /\ run[c].at = "idle"
    /\ c = Button => edits < MaxEdits
    /\ edits' = IF c = Button THEN edits + 1 ELSE edits
    /\ status' = Dismissed(Stale)
    /\ run' = [run EXCEPT ![c] = [at |-> "dismissed", day |-> today, batch |-> {}]]
    /\ UNCHANGED <<today, tx, bill, rec, sent, twice>>

ScanTxsLater(c) ==                    \* fault: what is due on the day itself is not read
    /\ run[c].at = "dismissed"
    /\ run' = [run EXCEPT ![c] = [at |-> "reading", day |-> run[c].day,
                                  batch |-> {k \in DueTxs(run[c].day) : k.off > 0}]]
    /\ UNCHANGED <<today, tx, bill, rec, status, sent, twice, edits>>

ScanTxs(c) ==
    /\ run[c].at = "dismissed"
    /\ run' = [run EXCEPT ![c] = [at |-> "reading", day |-> run[c].day,
                                  batch |-> DueTxs(run[c].day)]]
    /\ UNCHANGED <<today, tx, bill, rec, status, sent, twice, edits>>

Scan(c) ==
    LET day == run[c].day
        new == NewAlerts(run[c].batch \cup DueBills(day) \cup DueOccurrences(day))
    IN  /\ run[c].at = "reading"
        /\ run' = [run EXCEPT ![c] = IF new = {} THEN Idle
                                      ELSE [at |-> "scanned", day |-> day, batch |-> new]]
        /\ UNCHANGED <<today, tx, bill, rec, status, sent, twice, edits>>

Inserted(c) == [k \in DOMAIN status \cup run[c].batch |->
                  IF k \in DOMAIN status THEN status[k] ELSE "unread"]

CommitUnchecked(c) ==               \* fault: no unique key
    /\ run[c].at = "scanned"
    /\ status' = Inserted(c) /\ run' = [run EXCEPT ![c].at = "pushing"]
    /\ UNCHANGED <<today, tx, bill, rec, sent, twice, edits>>

(* The unique key refuses the whole batch when one of its alerts exists.    *)
Commit(c) ==
    /\ run[c].at = "scanned"
    /\ IF run[c].batch \cap DOMAIN status = {}
       THEN status' = Inserted(c) /\ run' = [run EXCEPT ![c].at = "pushing"]
       ELSE run' = [run EXCEPT ![c] = Idle] /\ UNCHANGED status
    /\ UNCHANGED <<today, tx, bill, rec, sent, twice, edits>>

(* send_notifications_push: one push per alert and member, each fails alone *)
(* and is never retried.                                                    *)
MaySend(S) == sent' = sent \cup S /\ twice' = (twice \/ S \cap sent # {})

Push(c) ==
    /\ run[c].at = "pushing"
    /\ MaySend(run[c].batch)
    /\ run' = [run EXCEPT ![c] = Idle]
    /\ UNCHANGED <<today, tx, bill, rec, status, edits>>

Crash(c) ==
    /\ Bounded
    /\ run[c].at # "idle"
    /\ MaySend(IF run[c].at = "pushing" THEN run[c].batch ELSE {})
    /\ run' = [run EXCEPT ![c] = Idle]
    /\ UNCHANGED <<today, tx, bill, rec, status>>
-----------------------------------------------------------------------------
Tick ==
    /\ today < MaxDay /\ today' = today + 1
    /\ UNCHANGED <<tx, bill, rec, status, run, sent, twice, edits>>

(* The user moves to a time zone where it is still yesterday.               *)
ZoneBack ==
    /\ Bounded
    /\ today > 1 /\ today' = today - 1
    /\ UNCHANGED <<tx, bill, rec, status, run, sent, twice>>

Edit(t, row) ==
    /\ Bounded
    /\ tx' = [tx EXCEPT ![t] = row]
    /\ UNCHANGED <<today, bill, rec, status, run, sent, twice>>

AddTx(t) ==
    \E d \in Window(today), m \in BOOLEAN :
        /\ tx[t].is = "none"
        /\ Edit(t, [due |-> d, is |-> "scheduled", muted |-> m, linked |-> FALSE])

(* update_transaction: status, due day and category are separate fields.    *)
Settle(t) == tx[t].is = "scheduled" /\ Edit(t, [tx[t] EXCEPT !.is = "posted"])
Reopen(t) == tx[t].is = "posted" /\ Edit(t, [tx[t] EXCEPT !.is = "scheduled"])
Recategorise(t) ==
    tx[t].is = "scheduled" /\ Edit(t, [tx[t] EXCEPT !.muted = ~tx[t].muted])
MoveDue(t) ==
    \E d \in Window(today) :
        tx[t].is = "scheduled" /\ d # tx[t].due /\ Edit(t, [tx[t] EXCEPT !.due = d])
DeleteTx(t) ==
    tx[t].is \in {"scheduled", "posted"} /\ Edit(t, [tx[t] EXCEPT !.is = "gone", !.linked = FALSE])

(* generate_pending turns the next occurrence into a scheduled transaction, *)
(* and switches a bill off that is past its end.                            *)
Generate(t) ==
    /\ Bounded
    /\ tx[t].is = "none" /\ rec.active /\ rec.next <= today + WindowDays
    /\ IF PastEnd(rec.next)
       THEN rec' = [rec EXCEPT !.active = FALSE] /\ UNCHANGED tx
       ELSE /\ tx' = [tx EXCEPT ![t] = [due |-> rec.next, is |-> "scheduled",
                                        muted |-> rec.muted, linked |-> TRUE]]
            /\ rec' = [rec EXCEPT !.next = @ + Period, !.active = ~PastEnd(rec.next + Period)]
    /\ UNCHANGED <<today, bill, status, run, sent, twice>>

(* update_recurring_transaction.                                            *)
EditRec ==
    /\ Bounded
    /\ rec' \in {[rec EXCEPT !.active = ~@], [rec EXCEPT !.muted = ~@]}
                \cup {[rec EXCEPT !.ends = d] : d \in {0, rec.next}}
    /\ rec' # rec
    /\ UNCHANGED <<today, tx, bill, status, run, sent, twice>>

(* A sync brings the invoice, moves its due day or takes it away.           *)
SyncBill ==
    /\ Bounded
    /\ bill' \in {0} \cup Window(today)
    /\ UNCHANGED <<today, tx, rec, status, run, sent, twice>>

Dismiss(k) ==
    /\ Bounded
    /\ k \in DOMAIN status /\ status' = [status EXCEPT ![k] = "dismissed"]
    /\ UNCHANGED <<today, tx, bill, rec, run, sent, twice>>

MarkRead(k) ==
    /\ Bounded
    /\ k \in DOMAIN status /\ status[k] = "unread"
    /\ status' = [status EXCEPT ![k] = "read"]
    /\ UNCHANGED <<today, tx, bill, rec, run, sent, twice>>

MarkAllRead ==
    /\ Bounded
    /\ status' = [k \in DOMAIN status |-> IF status[k] = "unread" THEN "read" ELSE status[k]]
    /\ UNCHANGED <<today, tx, bill, rec, run, sent, twice>>

Next ==
    \/ \E c \in Creators : \/ DismissStale(c) \/ ScanTxs(c) \/ Scan(c) \/ Commit(c)
                         \/ Push(c) \/ Crash(c)
    \/ \E t \in Txs : \/ AddTx(t) \/ Settle(t) \/ Reopen(t) \/ Recategorise(t)
                      \/ MoveDue(t) \/ DeleteTx(t) \/ Generate(t)
    \/ \E k \in DOMAIN status : Dismiss(k) \/ MarkRead(k)
    \/ Tick \/ ZoneBack \/ EditRec \/ SyncBill \/ MarkAllRead

(* The beat schedule runs the task every hour (worker.py:57).               *)
HourlyStep ==
    DismissStale(Hourly) \/ ScanTxs(Hourly) \/ Scan(Hourly) \/ Commit(Hourly) \/ Push(Hourly)

Spec == Init /\ [][Next]_vars
FairSpec == Spec /\ WF_vars(HourlyStep)
-----------------------------------------------------------------------------
TypeOK ==
    /\ today \in 1..MaxDay
    /\ tx \in [Txs -> [due : Days \cup {0}, is : {"none", "scheduled", "posted", "gone"},
                       muted : BOOLEAN, linked : BOOLEAN]]
    /\ bill \in Days \cup {0}
    /\ rec \in [active : BOOLEAN, next : Days, ends : Days \cup {0}, muted : BOOLEAN]
    /\ DOMAIN status \subseteq Keys
    /\ \A k \in DOMAIN status : status[k] \in {"unread", "read", "dismissed"}
    /\ \A c \in Creators : /\ run[c].at \in {"idle", "dismissed", "reading", "scanned", "pushing"}
                           /\ run[c].day \in 0..MaxDay
                           /\ run[c].batch \subseteq Keys
    /\ sent \subseteq Keys /\ twice \in BOOLEAN
    /\ edits \in 0..MaxEdits

(* An alert never goes back: dismissed it stays, read it is not unread      *)
(* again, though its target is deleted, moved or reopened.                  *)
Rank(s) == CASE s = "unread" -> 1 [] s = "read" -> 2 [] OTHER -> 3

Onwards ==
    \A k \in DOMAIN status : k \in DOMAIN status' /\ Rank(status'[k]) >= Rank(status[k])

(* "exactly one alert per (user, target, alert_type, due date cycle)"       *)
(* (models/notification.py:28): a member is pushed the same alert once,     *)
(* whatever the task, the button, a crash and a change of time zone do, and *)
(* is not given it back.                                                    *)
AlertedOnce ==
    /\ [](~twice)
    /\ [][Onwards]_vars

(* Once the user rests, whatever is due on a trigger day is announced, for   *)
(* all the alerts dismissed or lost in a crash before.                      *)
TriggersFire == <>[](Fired \subseteq DOMAIN status)

(* The bell does not nag for ever (notification_service.py:151): an alert   *)
(* whose target is settled or gone is dismissed.                            *)
StaleDismissed == <>[](Stale = {})
=============================================================================
