--------------------------- MODULE RecurringSessions ---------------------------
(***************************************************************************)
(* generate_pending and a bank sync as the database sees them: several     *)
(* sessions at once, each a sequence of queries and private writes that    *)
(* are published by a commit: the one at its end, or one that fetching an  *)
(* exchange rate makes on the way.                                         *)
(*                                                                         *)
(* Sessions run at READ COMMITTED: a query sees what is committed when it  *)
(* runs and the session's own writes.  The bill's next_occurrence is read  *)
(* once, kept in the ORM object, and written back as an absolute value by  *)
(* the next flush, which locks the bill's row until the session ends.      *)
(*                                                                         *)
(* Occurrences are numbered, and a charge fulfils exactly one: dates and   *)
(* their windows are the subject of RecurringBill.                         *)
(***************************************************************************)
EXTENDS Naturals, FiniteSets

CONSTANTS
    Bills,       \* automatic bills of one user
    Rows,        \* identities of the rows of the account
    Generators,  \* sessions that run generate_pending
    Syncs,       \* sessions that run sync_connection
    Charges,     \* external ids in the bank's feed
    NoCharge,    \* "no external id"
    Fulfils,     \* the bill and the occurrence each charge pays
    Last,        \* the last occurrence that is ever due
    Nobody,      \* no session, no bill
    MaxAborts    \* bound: how many sessions are killed

Sessions == Generators \cup Syncs
Occurrences == 1 .. Last

ASSUME SessionsAssumption == /\ Generators \cap Syncs = {}
                             /\ Nobody \notin Sessions
                             /\ Nobody \notin Bills
ASSUME FeedAssumption == /\ NoCharge \notin Charges
                         /\ Last \in Nat
                         /\ MaxAborts \in Nat
                         /\ Fulfils \in [Charges -> [bill : Bills, occ : Occurrences]]

VARIABLES
    row,      \* the committed rows
    pointer,  \* the committed next_occurrence of every bill
    lock,     \* which session holds the row lock of a bill
    phase,    \* where each session is
    cutoff,   \* the up_to of a generator
    charge,   \* the charge a sync is at
    todo,     \* the bills a generator has loaded and not begun
    cur,      \* the bill it is at
    seen,     \* next_occurrence in the session's ORM object
    loaded,   \* the bills whose pointer the session writes back
    dirty,    \* those it has not flushed yet
    write,    \* the rows the session has written; NoRow where it has not
    aborts    \* sessions killed so far (bound)

database == <<row, pointer>>
session == <<phase, cutoff, charge, todo, cur, seen, loaded, dirty, write>>
vars == <<row, pointer, lock, phase, cutoff, charge, todo, cur, seen, loaded,
          dirty, write, aborts>>

Row == [source : {"none", "recurring", "sync"}, bill : Bills \cup {Nobody},
        occ : Nat, ext : Charges \cup {NoCharge}, linked : BOOLEAN]

NoRow == [source |-> "none", bill |-> Nobody, occ |-> 0, ext |-> NoCharge,
          linked |-> FALSE]
NoRows == [r \in Rows |-> NoRow]

-----------------------------------------------------------------------------
(* The database *)

\* Seeded fault for View: a query also sees what other sessions have written
\* and not committed.
DirtyView(s) ==
    [r \in Rows |-> IF write[s][r] # NoRow THEN write[s][r]
                    ELSE IF \E t \in Sessions : write[t][r] # NoRow
                         THEN write[CHOOSE t \in Sessions : write[t][r] # NoRow][r]
                         ELSE row[r]]

\* What a query of session s returns.
View(s) == [r \in Rows |-> IF write[s][r] # NoRow THEN write[s][r] ELSE row[r]]

\* Row r of the session becomes x.
Put(s, r, x) == write' = [write EXCEPT ![s][r] = x]

\* The primary keys nobody uses, and the one a new row gets: identities carry
\* no meaning, so it does not matter which.
Unused == {r \in Rows : row[r] = NoRow /\ \A s \in Sessions : write[s][r] = NoRow}
Fresh == {r \in Unused : r = CHOOSE q \in Unused : TRUE}

\* A flush sends the UPDATE of the dirty bills and waits for their row locks.
CanFlush(s) == \A b \in dirty[s] : lock[b] \in {Nobody, s}
Flush(s) ==
    /\ CanFlush(s)
    /\ lock' = [b \in Bills |-> IF b \in dirty[s] THEN s ELSE lock[b]]

Released(s) == [b \in Bills |-> IF lock[b] = s THEN Nobody ELSE lock[b]]

\* The session is closed, with or without its writes.
Close(s) ==
    /\ lock' = Released(s)
    /\ phase' = [phase EXCEPT ![s] = "idle"]
    /\ cutoff' = [cutoff EXCEPT ![s] = 0]
    /\ charge' = [charge EXCEPT ![s] = NoCharge]
    /\ todo' = [todo EXCEPT ![s] = {}]
    /\ cur' = [cur EXCEPT ![s] = Nobody]
    /\ seen' = [seen EXCEPT ![s] = [b \in Bills |-> 1]]
    /\ loaded' = [loaded EXCEPT ![s] = {}]
    /\ dirty' = [dirty EXCEPT ![s] = {}]
    /\ write' = [write EXCEPT ![s] = NoRows]

\* Seeded fault for Commit: the connection goes back to the pool with its
\* transaction open.
CommitKeepingLocks(s) ==
    /\ phase[s] = "commit"
    /\ CanFlush(s)
    /\ row' = View(s)
    /\ pointer' = [b \in Bills |-> IF b \in loaded[s] THEN seen[s][b] ELSE pointer[b]]
    /\ lock' = [b \in Bills |-> IF b \in loaded[s] THEN s ELSE lock[b]]
    /\ phase' = [phase EXCEPT ![s] = "idle"]
    /\ UNCHANGED <<cutoff, charge, todo, cur, seen, loaded, dirty, write, aborts>>

Commit(s) ==
    /\ phase[s] = "commit"
    /\ CanFlush(s)
    /\ row' = View(s)
    /\ pointer' = [b \in Bills |-> IF b \in loaded[s] THEN seen[s][b] ELSE pointer[b]]
    /\ Close(s)
    /\ UNCHANGED aborts

\* The session fails or its process is killed: the transaction rolls back.
Abort(s) ==
    /\ phase[s] # "idle"
    /\ aborts < MaxAborts
    /\ aborts' = aborts + 1
    /\ Close(s)
    /\ UNCHANGED database

\* PostgreSQL ends one of the sessions that wait for each other.
Blocked(s) == phase[s] \in {"loop", "commit"} /\ ~CanFlush(s)
WaitsFor(s, t) == Blocked(s) /\ t # s /\ \E b \in dirty[s] : lock[b] = t
Deadlocked(s) ==
    \E group \in SUBSET Sessions :
       /\ s \in group
       /\ \A t \in group : /\ \E u \in group : WaitsFor(t, u)
                           /\ \E u \in group : WaitsFor(u, t)

BreakDeadlock(s) ==
    /\ Deadlocked(s)
    /\ Close(s)
    /\ UNCHANGED <<row, pointer, aborts>>

-----------------------------------------------------------------------------
(* generate_pending *)

\* The query for the due bills; their rows become ORM objects.
Load(g, upTo) ==
    LET due == {b \in Bills : pointer[b] <= upTo}
    IN  /\ phase[g] = "idle"
        /\ due # {}
        /\ phase' = [phase EXCEPT ![g] = "next"]
        /\ cutoff' = [cutoff EXCEPT ![g] = upTo]
        /\ todo' = [todo EXCEPT ![g] = due]
        /\ loaded' = [loaded EXCEPT ![g] = due]
        /\ seen' = [seen EXCEPT ![g] = pointer]
        /\ UNCHANGED <<row, pointer, lock, charge, cur, dirty, write, aborts>>

\* for recurring in recurring_list: the query gives no order.
NextBill(g) ==
    /\ phase[g] = "next"
    /\ \E b \in todo[g] :
          /\ cur' = [cur EXCEPT ![g] = b]
          /\ todo' = [todo EXCEPT ![g] = @ \ {b}]
    /\ phase' = [phase EXCEPT ![g] = "loop"]
    /\ UNCHANGED <<row, pointer, lock, cutoff, charge, seen, loaded, dirty, write, aborts>>

PlaceholdersOf(s, b, o) ==
    {r \in Rows : /\ View(s)[r].source = "recurring"
                  /\ View(s)[r].linked
                  /\ View(s)[r].bill = b
                  /\ View(s)[r].occ = o}

\* The occurrence is dealt with: on to the next one, or to the next bill.
StepOver(g) ==
    LET b == cur[g]
    IN  /\ seen' = [seen EXCEPT ![g][b] = @ + 1]
        /\ phase' = [phase EXCEPT ![g] =
                       IF seen[g][b] + 1 <= cutoff[g] THEN "loop"
                       ELSE IF todo[g] # {} THEN "next" ELSE "commit"]

\* The existing_placeholder query, with the flush that precedes it.
LookForPlaceholder(g) ==
    /\ phase[g] = "loop"
    /\ Flush(g)
    /\ IF PlaceholdersOf(g, cur[g], seen[g][cur[g]]) # {}
       THEN /\ StepOver(g)
            /\ dirty' = [dirty EXCEPT ![g] = {cur[g]}]
       ELSE /\ phase' = [phase EXCEPT ![g] = "absent"]
            /\ dirty' = [dirty EXCEPT ![g] = {}]
            /\ UNCHANGED seen
    /\ UNCHANGED <<row, pointer, cutoff, charge, todo, cur, loaded, write, aborts>>

\* find_real_tx_for_occurrence
UnlinkedCharges(s, b, o) ==
    {r \in Rows : /\ View(s)[r].source = "sync"
                  /\ ~View(s)[r].linked
                  /\ View(s)[r].bill = b
                  /\ View(s)[r].occ = o}

\* Link a real charge, or write and flush the placeholder, whose amount is then
\* to be stamped.
Materialise(g) ==
    LET b == cur[g]
        o == seen[g][b]
        candidates == UnlinkedCharges(g, b, o)
    IN  /\ phase[g] = "absent"
        /\ \/ /\ \E r \in candidates :
                    Put(g, r, [View(g)[r] EXCEPT !.linked = TRUE])
              /\ StepOver(g)
              /\ dirty' = [dirty EXCEPT ![g] = {b}]
           \/ /\ candidates = {}
              /\ \E r \in Fresh :
                    Put(g, r, [source |-> "recurring", bill |-> b, occ |-> o,
                               ext |-> NoCharge, linked |-> TRUE])
              /\ phase' = [phase EXCEPT ![g] = "stamp"]
              /\ UNCHANGED <<seen, dirty>>
        /\ UNCHANGED <<row, pointer, lock, cutoff, charge, todo, cur, loaded, aborts>>

\* What the session has flushed is committed although it goes on: its rows, and
\* the pointers of the bills whose row locks it holds.  The ORM objects outlive
\* the commit; a bill it is done with is not written again.
CommitMidway(g) ==
    /\ row' = View(g)
    /\ pointer' = [b \in Bills |-> IF lock[b] = g THEN seen[g][b] ELSE pointer[b]]
    /\ lock' = Released(g)
    /\ loaded' = [loaded EXCEPT ![g] = todo[g] \cup {cur[g]}]
    /\ write' = [write EXCEPT ![g] = NoRows]

\* stamp_primary_amount: a rate that is missing is fetched, and sync_rates
\* commits the session it was called with.
Stamp(g) ==
    /\ phase[g] = "stamp"
    /\ CommitMidway(g) \/ UNCHANGED <<row, pointer, lock, loaded, write>>
    /\ StepOver(g)
    /\ dirty' = [dirty EXCEPT ![g] = {cur[g]}]
    /\ UNCHANGED <<cutoff, charge, todo, cur, aborts>>

-----------------------------------------------------------------------------
(* sync_connection on one charge *)

SyncCharge(y, c) ==
    /\ phase[y] = "idle"
    /\ \A r \in Rows : row[r].ext # c
    /\ phase' = [phase EXCEPT ![y] = "match"]
    /\ charge' = [charge EXCEPT ![y] = c]
    /\ UNCHANGED <<row, pointer, lock, cutoff, todo, cur, seen, loaded, dirty, write, aborts>>

\* find_placeholder_for_incoming: upgrade the placeholder in place.
MergeIntoPlaceholder(y) ==
    LET c == charge[y]
        candidates == {r \in PlaceholdersOf(y, Fulfils[c].bill, Fulfils[c].occ) :
                          View(y)[r].ext = NoCharge}
    IN  /\ phase[y] = "match"
        /\ \/ \E r \in candidates :
                 /\ Put(y, r, [View(y)[r] EXCEPT !.source = "sync", !.ext = c])
                 /\ phase' = [phase EXCEPT ![y] = "commit"]
           \/ /\ candidates = {}
              /\ phase' = [phase EXCEPT ![y] = "unmatched"]
              /\ UNCHANGED write
        /\ UNCHANGED <<row, pointer, lock, cutoff, charge, todo, cur, seen, loaded, dirty, aborts>>

\* find_bill_for_incoming: insert the charge, and when it is the one the bill
\* expects next, link it and advance the bill.
InsertCharge(y) ==
    LET c == charge[y]
        b == Fulfils[c].bill
        o == Fulfils[c].occ
    IN  /\ phase[y] = "unmatched"
        /\ \E r \in Fresh :
              Put(y, r, [source |-> "sync", bill |-> b, occ |-> o, ext |-> c,
                         linked |-> pointer[b] = o])
        /\ IF pointer[b] = o
           THEN /\ loaded' = [loaded EXCEPT ![y] = {b}]
                /\ dirty' = [dirty EXCEPT ![y] = {b}]
                /\ seen' = [seen EXCEPT ![y] = [pointer EXCEPT ![b] = o + 1]]
           ELSE UNCHANGED <<loaded, dirty, seen>>
        /\ phase' = [phase EXCEPT ![y] = "commit"]
        /\ UNCHANGED <<row, pointer, lock, cutoff, charge, todo, cur, aborts>>

-----------------------------------------------------------------------------
Init ==
    /\ row = NoRows
    /\ pointer = [b \in Bills |-> 1]
    /\ lock = [b \in Bills |-> Nobody]
    /\ phase = [s \in Sessions |-> "idle"]
    /\ cutoff = [s \in Sessions |-> 0]
    /\ charge = [s \in Sessions |-> NoCharge]
    /\ todo = [s \in Sessions |-> {}]
    /\ cur = [s \in Sessions |-> Nobody]
    /\ seen = [s \in Sessions |-> [b \in Bills |-> 1]]
    /\ loaded = [s \in Sessions |-> {}]
    /\ dirty = [s \in Sessions |-> {}]
    /\ write = [s \in Sessions |-> NoRows]
    /\ aborts = 0

Begin(s) ==
    \/ /\ s \in Generators
       /\ \E upTo \in Occurrences : Load(s, upTo)
    \/ /\ s \in Syncs
       /\ \E c \in Charges : SyncCharge(s, c)

\* What a session does once it has begun.
Continue(s) ==
    \/ /\ s \in Generators
       /\ NextBill(s) \/ LookForPlaceholder(s) \/ Materialise(s) \/ Stamp(s)
    \/ /\ s \in Syncs
       /\ MergeIntoPlaceholder(s) \/ InsertCharge(s)
    \/ Commit(s)

Next == \E s \in Sessions :
           Begin(s) \/ Continue(s) \/ Abort(s) \/ BreakDeadlock(s)

Spec == Init /\ [][Next]_vars

\* One session at a time: no request while a task runs.
Alone(s) == \A t \in Sessions \ {s} : phase[t] = "idle"
NextAlone == \E s \in Sessions :
                (Begin(s) /\ Alone(s)) \/ Continue(s) \/ Abort(s)
SerialSpec == Init /\ [][NextAlone]_vars

\* The hourly task starts again and again, a session that has begun goes on,
\* one that waits to commit is not passed over for ever when the row locks are
\* released, and PostgreSQL resolves deadlocks.
Fairness == /\ \A s \in Sessions : /\ WF_vars(Continue(s))
                                  /\ SF_vars(Commit(s))
                                  /\ WF_vars(BreakDeadlock(s))
            /\ \A g \in Generators : WF_vars(Load(g, Last))
FairSpec == Spec /\ Fairness

-----------------------------------------------------------------------------
(* Properties *)

Phases == {"idle", "next", "loop", "absent", "stamp", "match", "unmatched", "commit"}

TypeOK ==
    /\ row \in [Rows -> Row]
    /\ pointer \in [Bills -> Nat \ {0}]
    /\ lock \in [Bills -> Sessions \cup {Nobody}]
    /\ phase \in [Sessions -> Phases]
    /\ cutoff \in [Sessions -> Nat]
    /\ charge \in [Sessions -> Charges \cup {NoCharge}]
    /\ todo \in [Sessions -> SUBSET Bills]
    /\ cur \in [Sessions -> Bills \cup {Nobody}]
    /\ seen \in [Sessions -> [Bills -> Nat \ {0}]]
    /\ loaded \in [Sessions -> SUBSET Bills]
    /\ dirty \in [Sessions -> SUBSET Bills]
    /\ write \in [Sessions -> [Rows -> Row]]
    /\ aborts \in Nat

Stands(x, b, o) == x.linked /\ x.bill = b /\ x.occ = o

\* However sessions interleave and whichever of them are rolled back, the
\* committed pointer is never past an occurrence that has no committed row:
\* nothing is lost (generate_pending commits rows and pointer together, and a
\* commit made on the way by sync_rates leaves the pointer behind the rows).
NothingLost ==
    \A b \in Bills : \A o \in 1 .. (pointer[b] - 1) :
       \E r \in Rows : Stands(row[r], b, o)

\* An occurrence has one row (worker.py: "generate_pending is idempotent").
OnceEach ==
    \A r, q \in Rows :
       (row[r].linked /\ row[q].linked /\ row[r].bill = row[q].bill
        /\ row[r].occ = row[q].occ) => r = q

\* The pointer of a bill only advances.
PointerForward == [][\A b \in Bills : pointer'[b] >= pointer[b]]_vars

\* Every occurrence that is due gets its row, though sessions wait for each
\* other, deadlock or are killed.
EverythingDue ==
    \A b \in Bills : \A o \in Occurrences :
       <>(\E r \in Rows : Stands(row[r], b, o))
=============================================================================
