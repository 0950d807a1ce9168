----------------------------- MODULE TransferPairs -----------------------------
(***************************************************************************)
(* Transfers: two rows of different accounts that carry one                *)
(* transfer_pair_id.  They are made by detect_transfer_pairs (after a bank *)
(* sync, a new connection or on request), by the user who links two rows,  *)
(* turns one into a transfer or enters both at once, and undone by unlink  *)
(* and by every deletion of a leg.                                         *)
(*                                                                         *)
(* A request is a session: it reads the committed rows, decides, and       *)
(* commits later the columns it has changed.  Requests overlap.            *)
(***************************************************************************)
EXTENDS Integers, FiniteSets

CONSTANTS
    Rows,        \* identities of rows
    Accounts,    \* accounts of one workspace
    Connected,   \* those of the bank connection that is synced
    NoAccount,   \* the account of a row that does not exist
    Days,        \* days on which rows are dated
    Amounts,     \* amounts; rows of one amount have similar descriptions
    Entered,     \* where other rows come from
    Pairs,       \* values of transfer_pair_id
    NoPair,      \* transfer_pair_id IS NULL
    Sessions     \* requests and tasks in flight

ASSUME PairsAssumption == /\ Days \subseteq Nat
                          /\ NoPair \notin Pairs
                          /\ NoAccount \notin Accounts
                          /\ Connected \subseteq Accounts
                          /\ Entered \subseteq {"manual", "import"}

Tolerance == 2    \* date_tolerance_days
PhantomDays == 1  \* _cleanup_phantom_duplicates
HandDays == 30    \* window_days of get_transfer_candidates

VARIABLES
    row,     \* the committed rows
    phase,   \* where each session is
    job,     \* what it does
    snap,    \* the rows as it read them
    mem,     \* the rows as it holds them
    todo     \* the debits its detection has still to visit

vars == <<row, phase, job, snap, mem, todo>>

Types == {"debit", "credit"}
Jobs == {"none", "request", "sync", "connect", "detect"}
Phases == {"idle", "insert", "match", "cleanup", "commit"}

NoRow == [source |-> "none", account |-> NoAccount, type |-> "debit", day |-> 0,
          amount |-> 0, pair |-> NoPair]
\* "manual" stands for source "transfer" too: nothing here asks for it.
Row == [source : {"manual", "import", "sync"}, account : Accounts,
        type : Types, day : Days, amount : Amounts, pair : Pairs \cup {NoPair}] \cup {NoRow}
NoRows == [r \in Rows |-> NoRow]

Opposite(t) == IF t = "debit" THEN "credit" ELSE "debit"
Gap(x, y) == IF x.day >= y.day THEN x.day - y.day ELSE y.day - x.day

-----------------------------------------------------------------------------
(* Sessions *)

\* A primary key, and a uuid4, nobody has seen.
FreshRows == {r \in Rows : /\ row[r] = NoRow
                           /\ \A s \in Sessions : mem[s][r] = NoRow /\ snap[s][r] = NoRow}
FreshPairs ==
    {p \in Pairs : \A r \in Rows :
        /\ row[r].pair # p
        /\ \A s \in Sessions : mem[s][r].pair # p /\ snap[s][r].pair # p}

\* Where x and y differ, x.
Differing(x, y) == [r \in Rows |-> IF x[r] = y[r] THEN NoRow ELSE x[r]]

\* The session has changed the rows old into new and has only to commit.
Ready(s, old, new) == /\ snap' = [snap EXCEPT ![s] = Differing(old, new)]
                      /\ mem' = [mem EXCEPT ![s] = Differing(new, old)]
                      /\ phase' = [phase EXCEPT ![s] = "commit"]

\* A request that has read the committed rows and makes of them m.
Request(s, m) == /\ phase[s] = "idle"
                 /\ Ready(s, row, m)
                 /\ job' = [job EXCEPT ![s] = "request"]
                 /\ UNCHANGED <<row, todo>>

\* The queries of a session that has inserted rows: those, and the committed.
Read(s) == /\ snap' = [snap EXCEPT ![s] = [r \in Rows |-> IF mem[s][r] # NoRow THEN NoRow
                                                         ELSE row[r]]]
           /\ mem' = [mem EXCEPT ![s] = [r \in Rows |-> IF @[r] # NoRow THEN @[r] ELSE row[r]]]

Close(s) == /\ phase' = [phase EXCEPT ![s] = "idle"]
            /\ job' = [job EXCEPT ![s] = "none"]
            /\ snap' = [snap EXCEPT ![s] = NoRows]
            /\ mem' = [mem EXCEPT ![s] = NoRows]
            /\ todo' = [todo EXCEPT ![s] = {}]

Changed(s) == {r \in Rows : snap[s][r] # NoRow /\ mem[s][r] # NoRow /\ mem[s][r] # snap[s][r]}
Vanished(s) == {r \in Changed(s) : row[r] = NoRow}

\* An UPDATE carries the columns the session has changed and no others.
Update(x, old, new) ==
    [x EXCEPT !.account = IF new.account # old.account THEN new.account ELSE @,
              !.type = IF new.type # old.type THEN new.type ELSE @,
              !.day = IF new.day # old.day THEN new.day ELSE @,
              !.pair = IF new.pair # old.pair THEN new.pair ELSE @]

\* Row r once the session has flushed its inserts, updates and deletes.
Written(s, r) ==
    IF snap[s][r] = NoRow THEN IF mem[s][r] = NoRow THEN row[r] ELSE mem[s][r]
    ELSE IF mem[s][r] = NoRow \/ row[r] = NoRow THEN NoRow
    ELSE Update(row[r], snap[s][r], mem[s][r])

\* The row count of an UPDATE is checked when it goes out alone; several that
\* go out together are not counted, and one of them may have matched nothing.
Commit(s) == /\ phase[s] = "commit"
             /\ Vanished(s) = {} \/ Cardinality(Changed(s)) > 1
             /\ row' = [r \in Rows |-> Written(s, r)]
             /\ Close(s)

Fail(s) == /\ phase[s] = "commit"
           /\ Vanished(s) # {}
           /\ Close(s)
           /\ UNCHANGED row

-----------------------------------------------------------------------------
(* detect_transfer_pairs *)

\* candidate_ids: the rows the session has inserted.
Candidates(s) == {r \in Rows : snap[s][r] = NoRow /\ mem[s][r] # NoRow}

Unpaired(s, t) == {r \in Rows : /\ mem[s][r] # NoRow
                                /\ mem[s][r].type = t
                                /\ mem[s][r].pair = NoPair}

Mates(x, y) == /\ x.amount = y.amount
               /\ x.account # y.account
               /\ Gap(x, y) <= Tolerance

\* Seeded fault for Partners: a credit that is taken stays in the lookup.
PartnersTaken(s, d) ==
    {c \in Rows : /\ mem[s][c] # NoRow
                  /\ mem[s][c].type = "credit"
                  /\ Mates(mem[s][d], mem[s][c])
                  /\ (Candidates(s) # {} /\ d \notin Candidates(s)) => c \in Candidates(s)}

\* The credits debit d may take; a debit that was there before the session only
\* takes a credit that was not.
Partners(s, d) ==
    {c \in Unpaired(s, "credit") :
        /\ Mates(mem[s][d], mem[s][c])
        /\ (Candidates(s) # {} /\ d \notin Candidates(s)) => c \in Candidates(s)}

Closest(s, d) ==
    {c \in Partners(s, d) :
        \A e \in Partners(s, d) : Gap(mem[s][c], mem[s][d]) <= Gap(mem[s][e], mem[s][d])}

\* Seeded fault for DebitsToMatch: the reverse direction is left out.
CandidateDebits(m, candidates) ==
    {r \in candidates : m[r].type = "debit" /\ m[r].pair = NoPair}

\* The debits of the two queries together.
DebitsToMatch(m, candidates) ==
    {r \in Rows : m[r] # NoRow /\ m[r].type = "debit" /\ m[r].pair = NoPair}

StartMatching(s) ==
    /\ Read(s)
    /\ phase' = [phase EXCEPT ![s] = "match"]
    /\ todo' = [todo EXCEPT ![s] = DebitsToMatch(mem'[s], Candidates(s))]

\* The debits come in two lists, candidates first; neither list is ordered.
\* A debit found partnerless leaves the loop unpaired.
MatchDebit(s) ==
    /\ phase[s] = "match"
    /\ \E d \in IF todo[s] \cap Candidates(s) # {} THEN todo[s] \cap Candidates(s) ELSE todo[s] :
          /\ todo' = [todo EXCEPT ![s] = @ \ {d}]
          /\ \/ /\ Partners(s, d) = {}
                /\ UNCHANGED mem
             \/ \E c \in Closest(s, d), p \in FreshPairs :
                   mem' = [mem EXCEPT ![s][d].pair = p, ![s][c].pair = p]
    /\ UNCHANGED <<row, phase, job, snap>>

EndMatching(s) ==
    /\ phase[s] = "match"
    /\ todo[s] = {}
    /\ IF job[s] = "sync"
       THEN /\ phase' = [phase EXCEPT ![s] = "cleanup"]
            /\ UNCHANGED <<snap, mem>>
       ELSE Ready(s, snap[s], mem[s])
    /\ UNCHANGED <<row, job, todo>>

\* POST /transfers/detect: no candidate_ids.
DetectAll(s) ==
    /\ phase[s] = "idle"
    /\ StartMatching(s)
    /\ job' = [job EXCEPT ![s] = "detect"]
    /\ UNCHANGED row

-----------------------------------------------------------------------------
(* sync_connection and handle_oauth_callback *)

StartSync(s, j) ==
    /\ phase[s] = "idle"
    /\ phase' = [phase EXCEPT ![s] = "insert"]
    /\ job' = [job EXCEPT ![s] = j]
    /\ UNCHANGED <<row, snap, mem, todo>>

InsertCharge(s) ==
    /\ phase[s] = "insert"
    /\ \E r \in FreshRows, a \in Connected, t \in Types, d \in Days, n \in Amounts :
          mem' = [mem EXCEPT ![s][r] = [source |-> "sync", account |-> a, type |-> t, day |-> d,
                                        amount |-> n, pair |-> NoPair]]
    /\ UNCHANGED <<row, phase, job, snap, todo>>

\* "if new_tx_ids" in the sync; the callback does not ask.
EndInserts(s) ==
    /\ phase[s] = "insert"
    /\ IF job[s] = "sync" /\ Candidates(s) = {}
       THEN /\ Read(s)
            /\ phase' = [phase EXCEPT ![s] = "cleanup"]
            /\ UNCHANGED todo
       ELSE StartMatching(s)
    /\ UNCHANGED <<row, job>>

\* Rows that look like a second report of a paired one.
Phantoms(s) ==
    {r \in Rows :
        /\ mem[s][r].source = "sync"
        /\ mem[s][r].account \in Connected
        /\ mem[s][r].pair = NoPair
        /\ \E q \in Rows \ {r} :
              /\ mem[s][q].source = "sync"
              /\ mem[s][q].pair # NoPair
              /\ mem[s][q].account = mem[s][r].account
              /\ mem[s][q].type = mem[s][r].type
              /\ mem[s][q].amount = mem[s][r].amount
              /\ Gap(mem[s][q], mem[s][r]) <= PhantomDays}

CleanupPhantoms(s) ==
    /\ phase[s] = "cleanup"
    /\ Ready(s, snap[s], [r \in Rows |-> IF r \in Phantoms(s) THEN NoRow ELSE mem[s][r]])
    /\ UNCHANGED <<row, job, todo>>

-----------------------------------------------------------------------------
(* What the user asks for *)

Enter(src, a, t, d, n) == [source |-> src, account |-> a, type |-> t, day |-> d,
                           amount |-> n, pair |-> NoPair]

\* create_transaction, import_transactions: one INSERT.
AddRow ==
    /\ \E r \in FreshRows, src \in Entered, a \in Accounts, t \in Types,
          d \in Days, n \in Amounts :
          row' = [row EXCEPT ![r] = Enter(src, a, t, d, n)]
    /\ UNCHANGED <<phase, job, snap, mem, todo>>

\* Seeded fault for CanLink: one leg already in a transfer does not matter.
CanLinkEither(a, b) ==
    /\ a # b /\ row[a] # NoRow /\ row[b] # NoRow
    /\ row[a].pair = NoPair \/ row[b].pair = NoPair
    /\ row[a].account # row[b].account
    /\ row[a].type # row[b].type

CanLink(a, b) ==
    /\ a # b /\ row[a] # NoRow /\ row[b] # NoRow
    /\ row[a].pair = NoPair /\ row[b].pair = NoPair
    /\ row[a].account # row[b].account
    /\ row[a].type # row[b].type

\* get_transfer_candidates: what the page offers to pair with a, nearest first (ten
\* of them at most).
Offered(a) ==
    {b \in Rows : /\ row[a] # NoRow /\ row[a].pair = NoPair
                  /\ row[b] # NoRow /\ row[b].pair = NoPair
                  /\ row[b].account # row[a].account
                  /\ row[b].type = Opposite(row[a].type)
                  /\ Gap(row[a], row[b]) <= HandDays}

\* link_existing_as_transfer
Link(s) ==
    \E a, b \in Rows, p \in FreshPairs :
       /\ CanLink(a, b)
       /\ Request(s, [row EXCEPT ![a].pair = p, ![b].pair = p])

\* create_transfer
CreateTransfer(s) ==
    \E a, b \in FreshRows, from, to \in Accounts, d \in Days, n \in Amounts, p \in FreshPairs :
       /\ a # b /\ from # to
       /\ Request(s, [row EXCEPT ![a] = [Enter("manual", from, "debit", d, n) EXCEPT !.pair = p],
                                 ![b] = [Enter("manual", to, "credit", d, n) EXCEPT !.pair = p]])

\* Seeded fault for CreateCounterpart: the transfer the row already has is used.
CreateCounterpartAgain(s) ==
    \E a \in Rows, b \in FreshRows, to \in Accounts, fresh \in FreshPairs :
       LET p == IF row[a].pair # NoPair THEN row[a].pair ELSE fresh
       IN  /\ row[a] # NoRow /\ row[a].account # to
           /\ Request(s, [row EXCEPT ![a].pair = p,
                                     ![b] = [Enter("manual", to, Opposite(row[a].type), row[a].day,
                                                   row[a].amount) EXCEPT !.pair = p]])

\* create_transfer_counterpart
CreateCounterpart(s) ==
    \E a \in Rows, b \in FreshRows, to \in Accounts, p \in FreshPairs :
       /\ row[a] # NoRow /\ row[a].pair = NoPair /\ row[a].account # to
       /\ Request(s, [row EXCEPT ![a].pair = p,
                                 ![b] = [Enter("manual", to, Opposite(row[a].type), row[a].day,
                                               row[a].amount) EXCEPT !.pair = p]])

\* unlink_transfer_pair
Unlink(s) ==
    \E p \in Pairs :
       /\ \E r \in Rows : row[r].pair = p
       /\ Request(s, [r \in Rows |-> IF row[r].pair = p THEN [row[r] EXCEPT !.pair = NoPair]
                                     ELSE row[r]])

\* The other leg, as the queries on transfer_pair_id find it.
PairedWith(a) == {b \in Rows \ {a} : row[a].pair # NoPair /\ row[b].pair = row[a].pair}

\* update_transaction with a date: the paired row gets it too.
EditDate(s) ==
    \E a \in Rows, d \in Days :
       /\ row[a] # NoRow /\ row[a].day # d
       /\ Request(s, [r \in Rows |-> IF r = a \/ r \in PairedWith(a)
                                     THEN [row[r] EXCEPT !.day = d] ELSE row[r]])

CanMove(a, to) == /\ row[a] # NoRow /\ row[a].account # to
                  /\ \A b \in PairedWith(a) : row[b].account # to

\* update_transaction with an account.
Move(s) ==
    \E a \in Rows, to \in Accounts :
       /\ CanMove(a, to)
       /\ Request(s, [row EXCEPT ![a].account = to])

\* update_transaction with a type: the schema has the field, and nothing asks
\* for a pair.
FlipType(s) ==
    \E a \in Rows :
       /\ row[a] # NoRow
       /\ Request(s, [row EXCEPT ![a].type = Opposite(@)])

\* delete_transaction
Delete(s) ==
    \E a \in Rows :
       /\ row[a] # NoRow
       /\ Request(s, [r \in Rows |-> IF r = a \/ r \in PairedWith(a) THEN NoRow ELSE row[r]])

\* delete_import_log: one DELETE of every row of the import.
UndoImport ==
    /\ \E r \in Rows : row[r].source = "import"
    /\ row' = [r \in Rows |-> IF row[r].source = "import" THEN NoRow ELSE row[r]]
    /\ UNCHANGED <<phase, job, snap, mem, todo>>

\* delete_account, delete_connection: the rows go with their account.
DeleteAccount ==
    /\ \E a \in Accounts :
          /\ \E r \in Rows : row[r].account = a
          /\ row' = [r \in Rows |-> IF row[r].account = a THEN NoRow ELSE row[r]]
    /\ UNCHANGED <<phase, job, snap, mem, todo>>

-----------------------------------------------------------------------------
Init ==
    /\ row = NoRows
    /\ phase = [s \in Sessions |-> "idle"]
    /\ job = [s \in Sessions |-> "none"]
    /\ snap = [s \in Sessions |-> NoRows]
    /\ mem = [s \in Sessions |-> NoRows]
    /\ todo = [s \in Sessions |-> {}]

UserRequest(s) ==
    \/ Link(s) \/ CreateTransfer(s) \/ CreateCounterpart(s) \/ Unlink(s)
    \/ EditDate(s) \/ Move(s) \/ Delete(s)

BankTask(s) ==
    \/ StartSync(s, "sync") \/ StartSync(s, "connect") \/ InsertCharge(s)
    \/ EndInserts(s) \/ CleanupPhantoms(s)

Detection(s) == DetectAll(s) \/ MatchDebit(s) \/ EndMatching(s)

Bulk == UndoImport \/ DeleteAccount

Next ==
    \/ AddRow
    \/ Bulk
    \/ \E s \in Sessions : UserRequest(s) \/ FlipType(s) \/ BankTask(s) \/ Detection(s)
                           \/ Commit(s) \/ Fail(s)

Spec == Init /\ [][Next]_vars

\* Types are not edited.
NextTyped ==
    \/ AddRow
    \/ Bulk
    \/ \E s \in Sessions : UserRequest(s) \/ BankTask(s) \/ Detection(s) \/ Commit(s) \/ Fail(s)

TypedSpec == Init /\ [][NextTyped]_vars

\* Nor is anything deleted in bulk, and one request runs at a time.
Alone(s) == \A t \in Sessions \ {s} : phase[t] = "idle"
NextAlone ==
    \/ AddRow /\ \A s \in Sessions : phase[s] = "idle"
    \/ \E s \in Sessions :
          Alone(s) /\ (UserRequest(s) \/ BankTask(s) \/ Detection(s) \/ Commit(s))

SerialSpec == Init /\ [][NextAlone]_vars

-----------------------------------------------------------------------------
(* Properties *)

TypeOK ==
    /\ row \in [Rows -> Row]
    /\ phase \in [Sessions -> Phases]
    /\ job \in [Sessions -> Jobs]
    /\ snap \in [Sessions -> [Rows -> Row]]
    /\ mem \in [Sessions -> [Rows -> Row]]
    /\ todo \in [Sessions -> SUBSET Rows]

Partner(a, b) == a # b /\ row[a].pair # NoPair /\ row[a].pair = row[b].pair

\* However requests interleave, a transfer_pair_id is on two rows at most (the
\* queries for the paired row expect one).
AtMostTwoLegs == \A a, b, c \in Rows : Partner(a, b) /\ Partner(a, c) => b = c

\* The legs of a transfer are a debit and a credit (link_existing_as_transfer:
\* "opposing types").
OpposingLegs == \A a, b \in Rows : Partner(a, b) => row[a].type # row[b].type

\* The legs are in two accounts (update_transaction: "a transfer must have two
\* distinct accounts").
DistinctAccounts == \A a, b \in Rows : Partner(a, b) => row[a].account # row[b].account

\* A row that carries a transfer_pair_id has its other leg: reports leave such
\* rows out because "both legs were matched; already cancel out".
NoLoneLeg == \A a \in Rows : row[a].pair # NoPair => \E b \in Rows : Partner(a, b)

\* What the page offers to pair with a row can be linked to it and offers the row
\* in turn, and what detection would pair can be found by hand: three filters of
\* get_transfer_candidates, link_existing_as_transfer and detect_transfer_pairs.
OffersStand ==
    \A a, b \in Rows :
       /\ b \in Offered(a) => CanLink(a, b) /\ a \in Offered(b)
       /\ (CanLink(a, b) /\ Mates(row[a], row[b])) => b \in Offered(a)

PairsComplete ==
    NoLoneLeg /\ AtMostTwoLegs /\ OpposingLegs /\ DistinctAccounts /\ OffersStand

\* Each commit joins free rows or separates couples.
Couples == {{r \in Rows : row[r].pair = p} : p \in {row[r].pair : r \in Rows} \ {NoPair}}
M == INSTANCE Matching WITH couples <- Couples
KeepsMatching == M!Spec

\* When detection is through, no debit and credit that could be a transfer are
\* left, unless both were there before and the session has candidates.
DetectionExhausts ==
    \A s \in Sessions :
       (phase[s] = "match" /\ todo[s] = {}) =>
          \A d \in Unpaired(s, "debit") : Partners(s, d) = {}

\* What session s has paired has a leg it has inserted.
PairsNew(s) ==
    \A d, c \in Rows :
       (d # c /\ mem[s][d].pair # NoPair /\ mem[s][d].pair = mem[s][c].pair) =>
          \/ d \in Candidates(s) \/ c \in Candidates(s)
          \/ snap[s][d].pair = mem[s][d].pair

\* A sync never pairs two rows that were there before it, also when the user
\* has unlinked them ("avoid pairing two old transactions").
SyncPairsNew == \A s \in Sessions : job[s] = "sync" => PairsNew(s)

\* Detection finds what there is to pair, and a sync leaves alone what was there
\* before it (detect_transfer_pairs, candidate_ids).
DetectionFaithful == DetectionExhausts /\ SyncPairsNew

\* Nor does a new connection: it is given the ids it has inserted.
ConnectPairsNew == \A s \in Sessions : job[s] = "connect" => PairsNew(s)
=============================================================================
