------------------------------- MODULE BankSync -------------------------------
(***************************************************************************)
(* A connection to a bank and the syncs of it: the status the user sees,   *)
(* what a failed sync leaves behind, and the synthetic row that makes the  *)
(* rows of an account add up to the balance the bank reports.              *)
(*                                                                         *)
(* The hourly task and the user's button may sync one connection at once,  *)
(* each in its own session (READ COMMITTED), while the user reconnects,    *)
(* deletes the connection or closes an account.  How a charge finds a row  *)
(* by other means than its external id is the subject of RecurringBill;    *)
(* TransferPairs has all of the pairing.                                   *)
(***************************************************************************)
EXTENDS Integers, FiniteSetsExt

CONSTANTS
    Sessions,   \* processes that sync: the worker, requests
    Worker,     \* the one that runs every hour
    Callback,   \* the request that connects the bank for the first time
    Accounts,   \* accounts at the bank
    First,      \* the account the bank lists first
    After,      \* and the one it lists after each
    NoAccount,
    Charges,    \* external ids
    Phantoms,   \* a second report of a payment, which no balance counts
    Foreign,    \* charges in a currency whose rate may have to be fetched
    AccountOf,
    Amount,     \* signed, by charge
    History,    \* what an account held before the charges, by account
    MaxFaults   \* bound: consents that lapse, failures, kills, syncs beside the worker's

ASSUME NamesAssumption == /\ Callback \notin Sessions
                          /\ Worker \in Sessions
                          /\ NoAccount \notin Accounts
                          /\ First \in Accounts
                          /\ After \in [Accounts -> Accounts \cup {NoAccount}]
ASSUME ChargesAssumption == /\ Phantoms \subseteq Charges
                            /\ Foreign \subseteq Charges
                            /\ AccountOf \in [Charges -> Accounts]
                            /\ Amount \in [Charges -> Int]
                            /\ History \in [Accounts -> Int]
                            /\ MaxFaults \in Nat

VARIABLES
    bank,     \* whether the consent holds, the charges it counts and lists
    status,   \* of the connection; "none" when there is none
    account,  \* [is, balance] of every account
    row,      \* committed rows, named by charge and inserting session
    paired,   \* those with a transfer_pair_id
    opening,  \* the signed opening_balance row of every account; 0, no row
    torn,     \* history: accounts left half synced, or synced by two at once
    sync,     \* every session
    faults    \* bound

vars == <<bank, status, account, row, paired, opening, torn, sync, faults>>
stored == <<status, account, row, paired, opening, torn>>

RowIds == Charges \X (Sessions \cup {Callback})
Phases == {"idle", "fetch", "account", "charges", "reconcile", "finish"}
Sync == [at : Phases, cur : Accounts \cup {NoAccount}, status : {"none", "active", "error", "expired"},
         left : SUBSET Charges, new : SUBSET Charges, fresh : SUBSET RowIds,
         reported : [Accounts -> Int], wrote : SUBSET Accounts, open : [Accounts -> Int],
         opened : SUBSET Accounts, done : SUBSET Accounts, lapsed : BOOLEAN, gone : BOOLEAN,
         alone : BOOLEAN]   \* history: no other sync has run beside it
Idle == [at |-> "idle", cur |-> NoAccount, status |-> "none", left |-> {}, new |-> {}, fresh |-> {},
         reported |-> [a \in Accounts |-> 0], wrote |-> {}, open |-> [a \in Accounts |-> 0],
         opened |-> {}, done |-> {}, lapsed |-> FALSE, gone |-> FALSE,
         alone |-> FALSE]

\* The sum of the rows R of account a.
Total(R, a) == MapThenSumSet(LAMBDA r : Amount[r[1]], {r \in R : AccountOf[r[1]] = a})

BankBalance(a) == History[a] + Total((bank.counted \ Phantoms) \X {Callback}, a)

\* What session s sees of the rows.
Visible(s) == row \cup (sync[s].new \X {s})
RowsOf(R, c) == {r \in R : r[1] = c}

To(s, x) == sync' = [sync EXCEPT ![s] = x]

-----------------------------------------------------------------------------
(* Transfers and second reports among the rows R, F of them new *)

Couples(R, F) == {p \in R \X R : /\ Amount[p[1][1]] < 0
                                 /\ Amount[p[2][1]] = -Amount[p[1][1]]
                                 /\ AccountOf[p[1][1]] # AccountOf[p[2][1]]
                                 /\ {p[1], p[2]} \cap paired = {}
                                 /\ {p[1], p[2]} \cap F # {}}
Disjoint(M) == \A p, q \in M : p # q => {p[1], p[2]} \cap {q[1], q[2]} = {}

\* detect_transfer_pairs: couples until none is left.
Matchings(R, F) ==
    {M \in SUBSET Couples(R, F) : /\ Disjoint(M)
                                  /\ \A p \in Couples(R, F) \ M : ~Disjoint(M \cup {p})}
Legs(M) == UNION {{p[1], p[2]} : p \in M}

\* Seeded fault for SecondReports: a paired row is its own sibling.
SecondReportsWithSelf(R, P) ==
    {r \in R : \E q \in P : /\ AccountOf[q[1]] = AccountOf[r[1]]
                            /\ Amount[q[1]] = Amount[r[1]]}

\* _cleanup_phantom_duplicates
SecondReports(R, P) ==
    {r \in R \ P : \E q \in P : /\ AccountOf[q[1]] = AccountOf[r[1]]
                                /\ Amount[q[1]] = Amount[r[1]]}

-----------------------------------------------------------------------------
(* The bank *)

Count(c) ==
    /\ c \notin bank.counted \cup Phantoms
    /\ bank' = [bank EXCEPT !.counted = @ \cup {c}]
    /\ UNCHANGED <<stored, sync, faults>>

List(c) ==
    /\ c \notin bank.listed
    /\ c \in bank.counted \cup Phantoms
    /\ bank' = [bank EXCEPT !.listed = @ \cup {c}]
    /\ UNCHANGED <<stored, sync, faults>>

Lapse ==
    /\ bank.consent
    /\ faults < MaxFaults
    /\ faults' = faults + 1
    /\ bank' = [bank EXCEPT !.consent = FALSE]
    /\ sync' = [s \in Sessions |-> [sync[s] EXCEPT !.lapsed = sync[s].at # "idle"]]
    /\ UNCHANGED stored

Listed(a) == {c \in bank.listed : AccountOf[c] = a}

-----------------------------------------------------------------------------
(* A sync *)

Busy == {s \in Sessions : sync[s].at # "idle"}

Begin(s) ==
    /\ s \notin Busy
    /\ sync' = [t \in Sessions |->
                 IF t = s THEN [Idle EXCEPT !.at = "fetch", !.status = status,
                                            !.lapsed = ~bank.consent, !.alone = Busy = {}]
                 ELSE [sync[t] EXCEPT !.alone = FALSE]]
    /\ UNCHANGED <<bank, stored>>

\* Seeded fault for SyncStale: a connection in error waits for the user.
SyncStaleActive(s) == status = "active" /\ Begin(s) /\ UNCHANGED faults

\* _sync_all, which passes over expired connections.
SyncStale(s) == status \in {"active", "error"} /\ Begin(s) /\ UNCHANGED faults

\* The user's button.  Alone, it does what the worker may do; another session
\* begins beside one.
SyncNow(s) == /\ status # "none"
              /\ Begin(s)
              /\ \/ s = Worker /\ UNCHANGED faults
                 \/ s # Worker /\ Busy # {} /\ faults < MaxFaults /\ faults' = faults + 1

\* get_accounts: the balances are read before any charge.
Fetch(s) ==
    /\ sync[s].at = "fetch"
    /\ ~sync[s].lapsed
    /\ To(s, [sync[s] EXCEPT !.at = "account", !.cur = First,
                             !.reported = [a \in Accounts |-> BankBalance(a)]])
    /\ UNCHANGED <<bank, stored, faults>>

Next1(x) == IF After[x.cur] = NoAccount THEN [x EXCEPT !.at = "finish", !.cur = NoAccount]
            ELSE [x EXCEPT !.at = "account", !.cur = After[@]]

\* A closed account is left alone.  The UPDATE of a balance that has changed
\* waits for another session that has written it.
TakeAccount(s) ==
    LET x == sync[s]
        a == x.cur
        changes == account[a].balance # x.reported[a]
    IN  /\ x.at = "account"
        /\ IF account[a].is = "closed" THEN To(s, Next1(x))
           ELSE /\ ~x.gone
                /\ changes => \A t \in Sessions : a \notin sync[t].wrote
                /\ To(s, [x EXCEPT !.at = "charges", !.left = Listed(a),
                                   !.wrote = IF changes THEN @ \cup {a} ELSE @])
        /\ UNCHANGED <<bank, stored, faults>>

Known(s, c) == RowsOf(Visible(s), c) # {}

SkipCharge(s, c) ==
    /\ sync[s].at = "charges"
    /\ c \in sync[s].left
    /\ Cardinality(RowsOf(Visible(s), c)) = 1
    /\ To(s, [sync[s] EXCEPT !.left = @ \ {c}])
    /\ UNCHANGED <<bank, stored, faults>>

Inserted(x, c, s) == [x EXCEPT !.left = @ \ {c}, !.new = @ \cup {c}, !.fresh = @ \cup {<<c, s>>}]

InsertCharge(s, c) ==
    /\ sync[s].at = "charges"
    /\ c \in sync[s].left
    /\ ~Known(s, c)
    /\ ~sync[s].gone
    /\ To(s, Inserted(sync[s], c, s))
    /\ UNCHANGED <<bank, stored, faults>>

Balances(x) == [a \in Accounts |-> IF a \in x.wrote THEN [account[a] EXCEPT !.balance = x.reported[a]]
                                   ELSE account[a]]
Openings(x) == [a \in Accounts |-> IF a \in x.opened THEN x.open[a] ELSE opening[a]]

\* The rate of a foreign charge is missing: sync_rates commits what the session
\* has done so far.
InsertForeign(s, c) ==
    LET x == Inserted(sync[s], c, s)
    IN  /\ sync[s].at = "charges"
        /\ c \in sync[s].left \cap Foreign
        /\ ~Known(s, c)
        /\ ~sync[s].gone
        /\ row' = row \cup (x.new \X {s})
        /\ account' = Balances(x)
        /\ opening' = Openings(x)
        /\ torn' = torn \cup {AccountOf[c]} \cup IF x.alone THEN {} ELSE x.done
        /\ To(s, [x EXCEPT !.new = {}, !.wrote = {}, !.opened = {}])
        /\ UNCHANGED <<bank, status, paired, faults>>

\* Seeded fault for Reconcile: the offset is added to the row that is there.
ReconcileAdding(s) ==
    LET x == sync[s]
        a == x.cur
        offset == x.reported[a] - Total(Visible(s), a)
    IN  /\ x.at = "charges"
        /\ x.left = {}
        /\ To(s, Next1([x EXCEPT !.open[a] = offset + opening[a], !.opened = @ \cup {a}, !.done = @ \cup {a}]))
        /\ UNCHANGED <<bank, stored, faults>>

\* sync_opening_balance_for_connected_account
Reconcile(s) ==
    LET x == sync[s]
        a == x.cur
        offset == x.reported[a] - Total(Visible(s), a)
    IN  /\ x.at = "charges"
        /\ x.left = {}
        /\ To(s, Next1([x EXCEPT !.open[a] = offset,
                                 !.opened = IF offset # opening[a] THEN @ \cup {a} ELSE @,
                                 !.done = @ \cup {a}]))
        /\ UNCHANGED <<bank, stored, faults>>

\* Transfers, second reports, commit.  The status is written when it differs
\* from the one the session has loaded.
Finish(s) ==
    LET x == sync[s]
        R == Visible(s)
    IN  /\ x.at = "finish"
        /\ ~x.gone
        /\ \E M \in IF x.fresh = {} THEN {{}} ELSE Matchings(R, x.fresh \cap R) :
              LET P == paired \cup Legs(M)
              IN  /\ row' = R \ SecondReports(R, P)
                  /\ paired' = P
        /\ account' = Balances(x)
        /\ opening' = Openings(x)
        /\ torn' = IF x.alone THEN torn \ x.done ELSE torn \cup x.done
        /\ status' = IF x.status # "active" THEN "active" ELSE status
        /\ To(s, Idle)
        /\ UNCHANGED <<bank, faults>>

\* The handlers of an error: everything uncommitted is rolled back, and the
\* status is written in a transaction of its own.
Fail(s, outcome) ==
    /\ sync[s].at # "idle"
    /\ status' = IF sync[s].gone THEN status
                 ELSE IF outcome # "limited" THEN outcome
                 ELSE IF status # "expired" THEN "active"
                 ELSE status
    /\ To(s, Idle)
    /\ UNCHANGED <<bank, account, row, paired, opening, torn>>

\* The consent behind the credentials the session has loaded has lapsed.
FailExpired(s) == /\ sync[s].at = "fetch"
                  /\ sync[s].lapsed
                  /\ Fail(s, "expired")
                  /\ UNCHANGED faults

\* The provider fails, throttles, or wants the user.
FailProvider(s) == /\ faults < MaxFaults
                   /\ faults' = faults + 1
                   /\ sync[s].at \in {"fetch", "account", "charges"}
                   /\ ~sync[s].lapsed
                   /\ \E outcome \in {"error", "limited"} : Fail(s, outcome)

\* Two rows have the external id of a charge: scalar_one_or_none raises.
FailAmbiguous(s) == /\ sync[s].at = "charges"
                    /\ \E c \in sync[s].left : Cardinality(RowsOf(Visible(s), c)) > 1
                    /\ Fail(s, "error")
                    /\ UNCHANGED faults

\* The connection was deleted under the sync: the first write breaks a key.
FailGone(s) == sync[s].gone /\ Fail(s, "error") /\ UNCHANGED faults

\* The worker is killed: nobody writes a status.
Kill(s) ==
    /\ sync[s].at # "idle"
    /\ faults < MaxFaults
    /\ faults' = faults + 1
    /\ To(s, Idle)
    /\ UNCHANGED <<bank, stored>>

-----------------------------------------------------------------------------
(* The user *)

\* handle_oauth_callback, a new connection: every account and listed charge.
\* An empty list of candidates means every row, but none is there.
Connect ==
    LET R == bank.listed \X {Callback}
    IN  /\ status = "none"
        /\ status' = "active"
        /\ bank' = [bank EXCEPT !.consent = TRUE]
        /\ account' = [a \in Accounts |-> [is |-> "open", balance |-> BankBalance(a)]]
        /\ row' = R
        /\ \E M \in Matchings(R, R) : paired' = Legs(M)
        /\ opening' = [a \in Accounts |-> BankBalance(a) - Total(R, a)]
        /\ torn' = {}
        /\ UNCHANGED <<sync, faults>>

\* handle_oauth_callback of an existing connection.
Reconnect ==
    /\ status # "none"
    /\ status' = "active"
    /\ bank' = [bank EXCEPT !.consent = TRUE]
    /\ UNCHANGED <<account, row, paired, opening, torn, sync, faults>>

\* close_account, reopen_account
CloseAccount(a) ==
    /\ account[a].is # "none"
    /\ account' = [account EXCEPT ![a].is = IF @ = "open" THEN "closed" ELSE "open"]
    /\ faults < MaxFaults
    /\ faults' = faults + 1
    /\ UNCHANGED <<bank, status, row, paired, opening, torn, sync>>

\* Seeded fault for DeleteConnection: the database is left to unlink the rows.
DeleteConnectionOnly ==
    /\ status # "none"
    /\ status' = "none"
    /\ account' = [a \in Accounts |-> [is |-> "none", balance |-> 0]]
    /\ opening' = [a \in Accounts |-> 0]
    /\ torn' = {}
    /\ sync' = [s \in Sessions |-> [sync[s] EXCEPT !.gone = sync[s].at # "idle"]]
    /\ faults < MaxFaults
    /\ faults' = faults + 1
    /\ UNCHANGED <<bank, row, paired>>

\* delete_connection: waits for rows and accounts another session has written.
DeleteConnection ==
    /\ status # "none"
    /\ \A s \in Sessions : sync[s].new = {} /\ sync[s].wrote = {} /\ sync[s].opened = {}
    /\ status' = "none"
    /\ account' = [a \in Accounts |-> [is |-> "none", balance |-> 0]]
    /\ row' = {}
    /\ paired' = {}
    /\ opening' = [a \in Accounts |-> 0]
    /\ torn' = {}
    /\ sync' = [s \in Sessions |-> [sync[s] EXCEPT !.gone = sync[s].at # "idle"]]
    /\ faults < MaxFaults
    /\ faults' = faults + 1
    /\ UNCHANGED bank

-----------------------------------------------------------------------------
Init ==
    /\ bank = [consent |-> FALSE, counted |-> {}, listed |-> {}]
    /\ status = "none"
    /\ account = [a \in Accounts |-> [is |-> "none", balance |-> 0]]
    /\ row = {}
    /\ paired = {}
    /\ opening = [a \in Accounts |-> 0]
    /\ torn = {}
    /\ sync = [s \in Sessions |-> Idle]
    /\ faults = 0

Run(s) ==
    \/ Fetch(s)
    \/ TakeAccount(s)
    \/ \E c \in Charges : SkipCharge(s, c) \/ InsertCharge(s, c) \/ InsertForeign(s, c)
    \/ Reconcile(s)
    \/ Finish(s)
    \/ FailExpired(s)
    \/ FailAmbiguous(s)
    \/ FailGone(s)

User ==
    \/ Connect
    \/ Reconnect
    \/ DeleteConnection
    \/ \E a \in Accounts : CloseAccount(a)

Bank == Lapse \/ \E c \in Charges : Count(c) \/ List(c)

Next ==
    \/ SyncStale(Worker)
    \/ \E s \in Sessions : SyncNow(s) \/ Run(s) \/ FailProvider(s) \/ Kill(s)
    \/ User
    \/ Bank

Spec == Init /\ [][Next]_vars

\* The task runs every hour, a sync goes on, and the user answers the banner of
\* an expired connection.
Fairness ==
    /\ WF_vars(SyncStale(Worker))
    /\ \A s \in Sessions : WF_vars(Run(s))
    /\ WF_vars(status = "expired" /\ Reconnect)

FairSpec == Spec /\ Fairness

TypeOK ==
    /\ bank \in [consent : BOOLEAN, counted : SUBSET Charges, listed : SUBSET Charges]
    /\ status \in {"none", "active", "error", "expired"}
    /\ account \in [Accounts -> [is : {"none", "open", "closed"}, balance : Int]]
    /\ row \subseteq RowIds
    /\ paired \subseteq row
    /\ opening \in [Accounts -> Int]
    /\ torn \subseteq Accounts
    /\ sync \in [Sessions -> Sync]
    /\ faults \in 0 .. MaxFaults

-----------------------------------------------------------------------------
(* Properties *)

Ambiguous == \E c \in Charges : Cardinality(RowsOf(row, c)) > 1
AddsUp(a) == Total(row, a) + opening[a] = account[a].balance

\* Two reports of an account that the clean-up takes for one payment.
Alike(a) == \E c, d \in Listed(a) : c # d /\ Amount[c] = Amount[d]

\* The rows of an account and its opening balance add up to the balance the
\* bank has reported, whatever failed, was rolled back or done again since; but
\* for an account that a commit on the way has left half synced, or that two
\* syncs at once have written.  The next sync that runs alone makes up for both.
AddsUpBetweenSyncs == \A a \in Accounts \ torn : ~Alike(a) => AddsUp(a)

\* "Reconcile the opening balance after any new transactions land so
\* SUM(all txs) keeps matching account.balance from the provider."
\* (connection_service.py:1454-1455).
AddsUpAlways == \A a \in Accounts \ torn : AddsUp(a)

\* Nothing of a connection outlives it, even when it is deleted while a sync of
\* it is running (delete_connection).
DeletedStaysDeleted == status = "none" => row = {} /\ \A a \in Accounts : account[a].is = "none"

\* A payment the bank lists gets a row in the end, although consents lapse and
\* syncs fail, are throttled or killed; unless the user has deleted the
\* connection or closed the account, or two syncs have inserted one charge.
Arrives ==
    \A c \in Charges \ Phantoms :
        (status # "none" /\ c \in bank.listed)
            ~> \/ \E r \in row : AccountOf[r[1]] = AccountOf[c] /\ Amount[r[1]] = Amount[c]
               \/ status = "none"
               \/ account[AccountOf[c]].is = "closed"
               \/ Ambiguous

\* "Re-sync from current data on next sync cycle" (connection_service.py:545):
\* a connection the user has authorised again is not shown as expired.
ReauthorisedIsNotExpired == status = "expired" => ~bank.consent
=============================================================================
