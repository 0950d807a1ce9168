----------------------------- MODULE ValuedAsset -----------------------------
(***************************************************************************)
(* One asset valued by its history of stored values: a growth-rule asset,  *)
(* whose values are generated from a rule, or an investment reported by a  *)
(* bank connection.  asset_service.py, tasks/asset_tasks.py and the        *)
(* holdings part of connection_service.py.                                 *)
(*                                                                         *)
(* Growth values come from two places: the requests that create and edit   *)
(* the asset generate them from its purchase, the daily task continues     *)
(* from the latest stored value, with the rule it read when it listed the  *)
(* assets.  Both await between what they read and what they commit, and    *)
(* nothing keeps one day from having two values.  Amounts grow by a fixed  *)
(* rate per period of Step days; only that each amount follows from the    *)
(* one before matters here.                                                *)
(***************************************************************************)
EXTENDS Naturals, FiniteSets, FiniteSetsExt

CONSTANTS
  Prices,     \* purchase prices
  Reports,    \* amounts a bank reports
  Typed,      \* amounts a user adds to the history
  Rates,      \* growth per period
  FormDays,   \* days of purchase and start that a user enters, 0 for none
  Step,       \* days of a period
  RunLimit,   \* periods one run of the task creates at most (1000)
  BoughtOn, BoughtFor,   \* purchase the bank reports of its holding
  MaxDay,     \* bound: days
  MaxEdits    \* bound: requests, syncs and runs that list the asset

(* What the constants must be; the modules of the runs assume it.           *)
ValuedAssumption ==
  /\ Prices \cup Reports \cup Typed \subseteq Nat \ {0} /\ Rates \subseteq Nat \ {0}
  /\ Step \in Nat \ {0} /\ RunLimit \in Nat \ {0}
  /\ BoughtOn \in Nat \ {0} /\ BoughtFor \in Nat \ {0}
  /\ MaxDay \in Nat \ {0} /\ MaxEdits \in Nat /\ FormDays \subseteq 0 .. MaxDay

VARIABLES
  today,      \* date.today()
  asset,      \* the row of assets
  values,     \* its rows of asset_values
  edit,       \* the update_asset that is between its DELETE and its commit
  task,       \* what the running growth task read of the asset
  bank,       \* the connection that exists, 0 for none
  reported,   \* history: amount the bank last reported of a counted holding
  touched,    \* history: the user changed values, or the purchase, or the rule
              \* while the task was at it
  blocked,    \* history: the last sync of the holding failed
  edits

vars == <<today, asset, values, edit, task, bank, reported, touched, blocked, edits>>

Days == 1 .. MaxDay
NoDay == 0
NoBank == 0
NoTask == [at |-> "idle", today |-> 1, rate |-> 0, start |-> NoDay, batch |-> {}]
NoAsset == [kind |-> "none", archived |-> FALSE, sold |-> FALSE, base |-> NoDay,
            price |-> 0, start |-> NoDay, rate |-> 0, bank |-> NoBank]
NoEdit == [busy |-> FALSE, row |-> NoAsset, gone |-> {}, new |-> {}, met |-> FALSE]

Value(day, amount, src) == [day |-> day, amount |-> amount, src |-> src, copy |-> 1]

\* Rows that are equal but for their id are told apart, the first two of them.
Inserted(some, new) == some \cup {IF v \in some THEN [v EXCEPT !.copy = 2] ELSE v : v \in new}

On(day) == {v \in values : v.day = day}
LastDay(some) == Max({v.day : v \in some})
Latest(some) == {v \in some : v.day = LastDay(some)}
Rule(some) == {v \in some : v.src = "rule"}

-----------------------------------------------------------------------------
(* Growth. *)

\* The loop both generators share: one value per period due until a day.
Grow(from, amount, rate, until, limit) ==
  {Value(from + n * Step, amount + n * rate, "rule") :
     n \in {k \in 1 .. Min({limit, until}) : from + k * Step <= until}}

\* _generate_growth_values: from the start date if there is one.
Generated(row, base) ==
  IF row.start > today THEN {}
  ELSE Grow(IF row.start # NoDay THEN row.start ELSE base,
            row.price, row.rate, today, MaxDay)

BaseDate(row) ==
  IF row.base # NoDay THEN row.base
  ELSE IF row.start # NoDay THEN row.start ELSE today

Bounded == edits < MaxEdits /\ edits' = edits + 1

Init ==
  /\ today = 1
  /\ asset = NoAsset /\ values = {} /\ edit = NoEdit /\ task = NoTask
  /\ bank = NoBank /\ reported = 0
  /\ touched = FALSE /\ blocked = FALSE
  /\ edits = 0

\* create_asset with a growth rule: the purchase as first value, and the
\* periods since.
CreateGrowth(price, rate, base, start) ==
  /\ Bounded
  /\ asset.kind = "none" /\ bank = NoBank
  /\ LET row == [NoAsset EXCEPT !.kind = "growth", !.price = price, !.rate = rate,
                                !.base = base, !.start = start]
     IN  /\ asset' = row
         /\ values' = {Value(BaseDate(row), price, "manual")}
                        \cup Generated(row, BaseDate(row))
  /\ touched' = FALSE
  /\ UNCHANGED <<today, edit, task, bank, reported, blocked>>

\* Seeded fault for Outdated: the values generated before stay.
OutdatedNone == {}

\* What the DELETE of a regeneration takes: the first value stays as it was entered.
Outdated == Rule(values)

\* update_asset from the form.  The page asks for regeneration whenever the
\* rule or the purchase changed and the asset has values.  Flushed with the
\* DELETE, the row of the asset is locked until the commit, which may wait
\* for a rate (stamp_primary_amount).
EditBegins(price, rate, base, start) ==
  /\ Bounded
  /\ asset.kind = "growth" /\ ~edit.busy
  /\ LET row == [asset EXCEPT !.price = price, !.rate = rate, !.base = base, !.start = start]
     IN  /\ row # asset
         /\ edit' = [busy |-> TRUE, row |-> row, gone |-> Outdated, met |-> FALSE,
                     new |-> IF values = {} THEN {} ELSE Generated(row, BaseDate(row))]
  /\ UNCHANGED <<today, asset, values, task, bank, reported, touched, blocked>>

EditCommits ==
  /\ edit.busy
  /\ asset' = edit.row
  /\ values' = Inserted(values \ edit.gone, edit.new)
  /\ edit' = NoEdit
  /\ touched' = (touched \/ edit.row.price # asset.price \/ edit.row.base # asset.base
                 \/ edit.met \/ task.at = "read")
  /\ UNCHANGED <<today, task, bank, reported, blocked, edits>>

EditFails ==
  /\ edit.busy
  /\ edit' = NoEdit
  /\ UNCHANGED <<today, asset, values, task, bank, reported, touched, blocked, edits>>

Met == edit' = IF edit.busy THEN [edit EXCEPT !.met = TRUE] ELSE edit

\* apply_asset_growth_rules takes the day and lists the assets of active rules ...
TaskLists ==
  /\ task.at = "idle"
  /\ asset.kind = "growth" /\ ~asset.archived /\ ~asset.sold
  /\ task' = [at |-> "listed", today |-> today, rate |-> asset.rate, start |-> asset.start,
              batch |-> {}]
  /\ Met
  /\ UNCHANGED <<today, asset, values, bank, reported, touched, blocked, edits>>

\* Seeded fault for ReadsNothing: only values of the rule are continued.
ReadsRulesOnly(some) == Rule(some) = {} \/ task.start > task.today

\* ... passes over an asset without values or whose rule starts later ...
ReadsNothing(some) == some = {} \/ task.start > task.today

\* ... and reads the latest value of the others and continues from there, for
\* that day and with the rule it listed.  Values of one day come in any order:
\* their ids are random.  There may be no period to add.

TaskReads ==
  /\ task.at = "listed"
  /\ IF ReadsNothing(values) THEN task' = NoTask
     ELSE \E last \in Latest(values) :
            LET batch == Grow(last.day, last.amount, task.rate, task.today, RunLimit)
            IN  task' = IF batch = {} THEN NoTask
                        ELSE [NoTask EXCEPT !.at = "read", !.batch = batch]
  /\ UNCHANGED <<today, asset, values, edit, bank, reported, touched, blocked, edits>>

\* ... and commits.
TaskCommits ==
  /\ task.at = "read"
  /\ values' = Inserted(values, task.batch)
  /\ task' = NoTask
  /\ Met
  /\ UNCHANGED <<today, asset, bank, reported, touched, blocked, edits>>

-----------------------------------------------------------------------------
(* Holdings of a bank connection. *)

\* A connection is made, and removed: its assets are archived and detached.
Connect ==
  /\ Bounded
  /\ bank = NoBank /\ asset.kind # "growth"
  /\ \E other \in {1, 2} \ {asset.bank} : bank' = other
  /\ UNCHANGED <<today, asset, values, edit, task, reported, touched, blocked>>

DeleteConnection ==
  /\ Bounded
  /\ bank # NoBank
  /\ bank' = NoBank
  /\ asset' = IF asset.bank = bank
              THEN [asset EXCEPT !.archived = TRUE, !.bank = NoBank] ELSE asset
  /\ reported' = 0 /\ blocked' = FALSE
  /\ UNCHANGED <<today, values, edit, task, touched>>

\* The bank no longer lists the holding: archived, history kept.
SyncGone ==
  /\ Bounded
  /\ bank # NoBank /\ asset.kind = "synced"
  /\ asset' = [asset EXCEPT !.archived = TRUE]
  /\ reported' = 0 /\ blocked' = FALSE
  /\ UNCHANGED <<today, values, edit, task, bank, touched>>

\* The bank reports it closed: marked sold, if it was not; one
\* never seen is ignored.
SyncClosed ==
  /\ Bounded
  /\ bank # NoBank /\ asset.kind = "synced"
  /\ asset' = [asset EXCEPT !.sold = TRUE, !.bank = bank]
  /\ reported' = 0 /\ blocked' = FALSE
  /\ UNCHANGED <<today, values, edit, task, bank, touched>>

\* _ensure_historical_seed: the purchase, if its day has no value.
Seeded(dated) ==
  IF dated /\ On(BoughtOn) = {}
  THEN values \cup {Value(BoughtOn, BoughtFor, "sync")} ELSE values

\* _upsert_asset_value_for_today: one synced value a day.
Upserted(some, amount) ==
  {v \in some : ~(v.day = today /\ v.src = "sync")}
    \cup {Value(today, amount, "sync")}

\* _upsert_asset_from_holding: brought back only when it changed connection.
Row(dated) ==
  LET row == IF asset.kind = "none" THEN [NoAsset EXCEPT !.kind = "synced"] ELSE asset
  IN  [row EXCEPT !.bank = bank,
                  !.archived = @ /\ asset.bank = bank,
                  !.base = IF dated THEN BoughtOn ELSE @,
                  !.price = IF dated THEN BoughtFor ELSE @]

\* A query for at most one row of a day finds two: the sync fails whole.
Ambiguous(dated) == dated /\ Cardinality(On(BoughtOn)) > 1

\* The bank reports a value, with or without the purchase, which is past.
SyncValue(amount, dated) ==
  /\ Bounded
  /\ bank # NoBank /\ asset.kind \in {"none", "synced"}
  /\ dated => BoughtOn <= today
  /\ ~Ambiguous(dated)
  /\ asset' = Row(dated)
  /\ values' = IF ~asset.sold THEN Upserted(Seeded(dated), amount) ELSE Seeded(dated)
  /\ reported' = IF ~asset.sold THEN amount ELSE 0
  /\ blocked' = FALSE
  /\ UNCHANGED <<today, edit, task, bank, touched>>

SyncFails(dated) ==
  /\ Bounded
  /\ bank # NoBank /\ asset.kind = "synced"
  /\ dated => BoughtOn <= today
  /\ Ambiguous(dated)
  /\ blocked' = TRUE
  /\ UNCHANGED <<today, asset, values, edit, task, bank, reported, touched>>

-----------------------------------------------------------------------------
(* What the user does to either. *)

AddValue(day, amount) ==
  /\ Bounded
  /\ asset.kind # "none"
  /\ values' = Inserted(values, {Value(day, amount, "manual")})
  /\ touched' = TRUE
  /\ UNCHANGED <<today, asset, edit, task, bank, reported, blocked>>

\* A value that update_asset deletes is locked.
DeleteValue(v) ==
  /\ Bounded
  /\ v \notin edit.gone
  /\ values' = values \ {v}
  /\ touched' = TRUE
  /\ UNCHANGED <<today, asset, edit, task, bank, reported, blocked>>

Archive(flag) ==
  /\ Bounded
  /\ asset.kind # "none" /\ asset.archived # flag /\ ~edit.busy
  /\ asset' = [asset EXCEPT !.archived = flag]
  /\ UNCHANGED <<today, values, edit, task, bank, reported, touched, blocked>>

\* update_asset sets sell_date, whose day does not matter here, or clears it.
Sell(flag) ==
  /\ Bounded
  /\ asset.kind # "none" /\ asset.sold # flag /\ ~edit.busy
  /\ asset' = [asset EXCEPT !.sold = flag]
  /\ reported' = 0
  /\ UNCHANGED <<today, values, edit, task, bank, touched, blocked>>

\* delete_asset cascades to the values; what the task would add to it is refused.
Delete ==
  /\ Bounded
  /\ asset.kind # "none" /\ ~edit.busy
  /\ asset' = NoAsset /\ values' = {} /\ task' = NoTask
  /\ reported' = 0 /\ touched' = FALSE /\ blocked' = FALSE
  /\ UNCHANGED <<today, edit, bank>>

Tick ==
  /\ today < MaxDay
  /\ today' = today + 1
  /\ UNCHANGED <<asset, values, edit, task, bank, reported, touched, blocked, edits>>

MaybeDay == Days \cup {NoDay}

Next ==
  \/ \E p \in Prices, r \in Rates, b, s \in FormDays : CreateGrowth(p, r, b, s)
  \/ \E p \in Prices, r \in Rates, b, s \in FormDays : EditBegins(p, r, b, s)
  \/ EditCommits
  \/ EditFails
  \/ TaskLists
  \/ TaskReads
  \/ TaskCommits
  \/ Connect
  \/ DeleteConnection
  \/ SyncGone
  \/ SyncClosed
  \/ \E a \in Reports, dated \in BOOLEAN : SyncValue(a, dated)
  \/ \E dated \in BOOLEAN : SyncFails(dated)
  \/ \E d \in Days, a \in Typed : AddValue(d, a)
  \/ \E v \in values : DeleteValue(v)
  \/ \E flag \in BOOLEAN : Archive(flag)
  \/ \E flag \in BOOLEAN : Sell(flag)
  \/ Delete
  \/ Tick

Spec == Init /\ [][Next]_vars

\* The scheduler starts the task every day and the worker ends it.
FairSpec == Spec /\ WF_vars(TaskLists) /\ WF_vars(TaskReads) /\ WF_vars(TaskCommits)

-----------------------------------------------------------------------------
(* Properties. *)

(* Every variable keeps its type; a rule writes values of growth assets    *)
(* only, a sync those of holdings.                                         *)
TypeOK ==
  /\ today \in Days
  /\ asset \in [kind : {"none", "growth", "synced"}, archived : BOOLEAN,
                sold : BOOLEAN, base : MaybeDay, price : Nat, start : MaybeDay,
                rate : Rates \cup {0}, bank : 0 .. 2]
  /\ \A v \in values : v.day \in Days /\ v.amount \in Nat \ {0} /\ v.copy \in {1, 2}
  /\ \A v \in values : v.src = "rule" => asset.kind = "growth"
  /\ \A v \in values : v.src = "sync" => asset.kind = "synced"
  /\ edit.busy \in BOOLEAN /\ edit.met \in BOOLEAN
  /\ edit.busy => asset.kind = "growth"
  /\ task.at \in {"idle", "listed", "read"} /\ task.today \in Days
  /\ bank \in 0 .. 2 /\ reported \in Nat
  /\ touched \in BOOLEAN /\ blocked \in BOOLEAN /\ edits \in 0 .. MaxEdits

(* However the requests and the daily task share the work, days off, long  *)
(* gaps and edits of the rate between two steps of the task included, the  *)
(* rule values are the ones the rule gives from the purchase, without gap  *)
(* or repetition: for an asset that grows from its purchase on and whose   *)
(* values and purchase were left alone, unless the task read, committed or *)
(* listed it while the rule was being saved.                               *)
GrowthFollowsRule ==
  asset.kind = "growth" /\ ~touched /\ asset.base # NoDay
  /\ asset.start \in {NoDay, asset.base} /\ Rule(values) # {}
    => Rule(values) = Grow(asset.base, asset.price, asset.rate,
                           LastDay(Rule(values)), MaxDay)

(* The amount shown for a holding is the one its bank last reported, while *)
(* the user neither sold it nor entered values.                            *)
ShowsReport ==
  asset.kind = "synced" /\ reported # 0 /\ ~touched
    => \A v \in Latest(values) : v.amount = reported

(* Syncing again the same day, or with a purchase dated today, stores one  *)
(* value per day; later corrections of the user keep it so.                *)
OneSyncValueADay ==
  \A v, w \in values : v.src = "sync" /\ w.src = "sync" /\ v.day = w.day => v = w

(* No period stays due: the task eventually catches up with every asset    *)
(* that still grows, however long it was archived, sold or not run.        *)
NothingDue ==
  asset.kind = "growth" /\ ~asset.archived /\ ~asset.sold
  /\ values # {} /\ asset.start <= today
    => LastDay(values) + Step > today

GrowthCatchesUp == []<>NothingDue

(* asset_service._generate_growth_values: with a start date "the asset     *)
(* accrues no growth for the gap between purchase and the configured       *)
(* growth start".  The task grows it through the gap.                      *)
NoGrowthBeforeStart ==
  asset.kind = "growth" /\ ~touched => \A v \in Rule(values) : v.day > asset.start

(* connection_service._ensure_historical_seed: "Skips if ANY AssetValue    *)
(* already exists on that date (even a manual one)".  With two it fails,   *)
(* and the sync of the connection with it.                                 *)
SeedSkips == ~blocked

=============================================================================
