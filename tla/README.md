# Talismã in TLA+

Talismã v2 is a personal-finance server: FastAPI and SQLAlchemy over PostgreSQL,
Celery workers over Redis, a React application in front, agents that talk to the
same data through an MCP server.  Rows of money come from five sides (the bank's
feed, statement files, a phone's notifications, bills that recur, the user) and
meet in one table, `transactions`, that nothing locks and that has no unique key
besides its id.  What is hard in this code is hard there: the same payment
arriving twice under two names, background work and requests that read, decide
and write later, and many screens that each sum the same rows with a filter of
their own.

Paths below are relative to `src/backend/app/` unless they start with `src/`;
`src/frontend/src/` is abbreviated `frontend/`.

## The system

| Part | State it keeps | Operations | Works with | Status |
|---|---|---|---|---|
| recurring bills (`services/recurring_transaction_service.py`, `services/recurring_match_service.py`) | per bill: `next_occurrence`, `is_active`, `auto_generate`, `end_date` | create, save, delete, `generate_pending`, match and advance, project | rows; called by the hourly task, by GET /transactions, by sync and import | partly |
| transactions (`services/transaction_service.py`) | rows: date, amount, type, status, source, external_id, links | enter, edit, delete, reconcile, ignore, unlink, transfer, instalments | everything | partly |
| transfer pairs (`services/transfer_detection_service.py`) | `transfer_pair_id` on two rows | detect, unlink | sync, new connections, requests; reports | partly |
| bank sync (`services/connection_service.py`, `tasks/sync_tasks.py`) | connection status, `last_sync_at`, credentials; accounts; rows by external_id | connect, reconnect, sync, delete | providers, bills, transfers, balances, holdings | partly |
| consents (`services/oauth_state.py`, `frontend/pages/oauth-callback.tsx`) | state tokens in Redis, a guard per page | begin, come back, paste a token, renew | bank sync | modelled |
| statement import (`services/import_service.py`, `api/import_logs.py`, `frontend/pages/import.tsx`) | import logs, rows | preview, import, undo | bills | partly |
| accounts and balances (`services/account_service.py`) | accounts, the opening-balance row | create, close, delete, balances | sync, reports | partly |
| credit cards (`services/credit_card_service.py`) | close and due days, bills, `effective_date` | cycle and effective dates, bars of the page | every row of a card | partly |
| groups, splits, settlements | shares of a row, settlements and their rows | split, settle, link members | rows, reports | partly |
| assets (`services/asset_service.py`, `services/asset_transaction_service.py`) | holdings, buys and sells, values per day | trade, refresh prices, grow, sync holdings, archive | sync, dashboard | partly |
| notifications (`services/notification_service.py`) | alerts under a unique key, push state | generate, push, read, dismiss | bills, rows | partly |
| MacroDroid webhook (`api/webhooks.py`) | rows by external_id | parse and insert | rows, accounts | partly |
| exchange rates (`services/fx_rate_service.py`) | rates per day | fetch, convert | commits the session of its caller | partly |
| rules, payees, categories | records; ids inside a rule's JSON | edit, merge, apply, export, import, packs | rows | partly |
| budgets, goals | an amount per month; a target and what it tracks | edit, progress | rows, balances | modelled |
| attachments (`services/attachment_service.py`) | rows and files of the storage | upload, delete, purge, preview | rows | modelled |
| dashboard and reports | none | read | rows, balances, values | partly |
| workspaces and administration (`services/workspace_service.py`, `services/admin_service.py`) | memberships, roles, archived spaces | invite, demote, remove, archive, delete a user | everything that is owned | partly |
| agents and the MCP server (`agents/runtime/executor.py`, `src/backend/mcp_server/`) | messages by ordinal; proposals; applied cards in the browser | chat turns, tool calls, propose, apply | rows, budgets, goals | partly |
| Celery worker and scheduler (`worker.py`) | the beat's table | hourly and daily tasks | bills, sync, assets, alerts | partly |
| web application (`frontend/`) | page state | what it sends, guards and remembers | all requests | partly |
| bank data providers, collections, search and export, authentication, deployment | | | | not modelled |

Sessions are `READ COMMITTED`; they flush before a query and commit at the end of a
handler, and before it wherever a missing exchange rate is fetched, since `sync_rates`
commits the session it was called with (`services/fx_rate_service.py:56`).  There is no
`SELECT ... FOR UPDATE` and no advisory lock.  Tasks and any number of requests run at
the same time.

What must be right, part by part:

- *Bills.*  No occurrence is on the account twice, none is passed over, every
  due one appears; killed tasks lose nothing; forecasts count each day once.
- *Rows from outside.*  A charge, a line, a notification has one row, however
  often it is sent and whatever the user did to the row.
- *Transfers.*  Two legs, a debit and a credit, of two accounts; detection
  leaves nothing it could pair and pairs nothing it should not.
- *Bank sync.*  Between syncs, rows and opening balance add up to the bank's
  balance; what is deleted stays away; what the bank lists arrives.
- *Cards.*  A purchase is in one bill, the user's word decides which, and the
  server and the page agree on the calendar.
- *Sharing.*  Shares cover what they split; no cent is counted twice or by nobody.
- *Views.*  Two screens that show one figure agree, or differ by rows one can name.
- *Everything around.*  An alert fires, and once; a workspace keeps someone who
  governs it; a receipt has its file; nothing an agent proposes is written
  unless someone asked for it.

`PROJECT.json` lists all components and, line by line, the hazards.

## Modules

| Module | What it is |
|---|---|
| `BillCalendar` | the calendar of a bill: `_advance_date`, `advance_past`, the matching windows |
| `OccurrenceCalendar` | abstract: what a bill promises; settle the next occurrence, or close |
| `RecurringBill`, `RecurringBillProofs` | one bill, its account and everything that touches both, each handler one step |
| `BillForecast` | the occurrences that dashboard, budgets and reports project |
| `RecurringSessions`, `RecurringSessionsProofs` | several bills and concurrent sessions: `generate_pending` and the sync taken apart into queries, flushes and commit |
| `Matching` | abstract: disjoint couples of rows, joined and separated |
| `TransferPairs`, `TransferPairsProofs` | transfers: requests, detection, sync, bulk deletion, overlapping |
| `BankSync` | a connection: its status, failed syncs, opening balances, phantom clean-up, deletion |
| `CardCycle` | close and due days in real months, computed by the server and by the page |
| `CardBills`, `CardBillsProofs` | rows, bills, overrides and the stored effective date of a card |
| `Instalments` | a purchase in parts: rounding, dates, bills |
| `Connecting` | consents and tokens: states, tabs, workspaces, lost answers |
| `Imports` | statement files: preview, options, import, undo |
| `SharedLedger` | members, splits, settlements and the three views computed from them |
| `MarketHolding` | a holding with trades, a cached position and prices fetched in the meantime |
| `ValuedAsset` | an asset valued by a growth rule or by the bank's reports |
| `Ledger`, `LedgerViews`, `Budgets`, `DatePoints` | one ledger, the figures of every screen over it, budgets that recur, the axis of the reports |
| `Goals` | a goal: what it tracks, its progress and pace |
| `Attachments` | receipts: files and rows written one after the other |
| `Alerts` | due-date alerts: two creators, crashes, push |
| `Capture` | the webhook: deliveries again and at once |
| `Household` | users, roles, workspaces, deletion of a user |
| `Rules` | rules, categories and payees: apply, merge, export, import, packs |
| `Proposals` | what agents propose and who applies it |
| `AgentChat` | the transcript of a conversation |
| `MCRecurringBill`, `MCRecurringSessions`, `MCTransferPairs`, `MCBankSync`, `MCSharedLedger`, `MCAgentChat`, `MCRules`, `MCBudgets`, `MCBooks`, `MCHome` | small instances for TLC |
| `Lemmas` | what the proofs share: sums over finite sets, months and days, orders and folds |
| `MoneyProofs` | over `BankSync`, `SharedLedger`, whose rows it calls `Entries`, and `MCBudgets`, whose rows are entries in a book: balances, shares and the figures of the pages |
| `BooksProofs` | over `MCBooks`: receipts, consents, statements, instalments, the goal and what assets are worth |
| `HomeProofs` | over `MCHome`, `AgentChat` and `Rules`: household, alerts, proposals, capture, conversations and rules |

`BillForecast` extends `RecurringBill`, which extends `BillCalendar`;
`CardBills` and `Instalments` extend `CardCycle`; `Budgets` extends `LedgerViews`
and that `Ledger`.  `MCBooks` and `MCHome` put together parts that share no state
(see Runs).  Definitions named "Seeded fault for X" are X with a plausible
mistake; they take no part in any specification, and `PROJECT.json` says which
property each of them breaks when it replaces X.

### RecurringBill and BillForecast

`row` is the account; `active`, `auto`, `next` are the columns of the bill;
`feed` is what the bank reports; `today` is the clock.  `settled` and the field
`occ` of a row are history: they remember which expected day a row was written
or linked for, which the code itself does not store.

- `GenerateNext` is one turn of the loop of `generate_pending`.  Taking turns as
  steps adds no behaviour: what lies between two turns is the result of the
  same generator with an earlier cutoff.  (`RecurringSessions` drops the
  assumption that a turn is atomic.)  `GenerateEnded` is the first test of the
  loop, `StepPointer` its end.
- `SyncCharge` is one charge through the four passes of `sync_connection` and
  its insertion; `import_pending` is on.  `ImportLine` is one line of a file.
- `SetStatus` is "Pagar" and "Desfazer", which send a status only; `EditDate`
  is the edit dialog, which sends a date without one, so that `_derive_status`
  runs.  `SaveBill` is the edit form of a bill, which always sends the schedule
  and so always has the pointer computed anew.
- Amounts and wording are one bit, `Exact`: whether a charge has those of the
  bill.  Of several candidates of the same wording any may score best.
- `Projected` is `_get_recurring_projections` of the dashboard, which the budgets
  share: from the earliest unpaid placeholder, or the pointer, onwards.  `Listed` is
  the list of the same month, `get_projected_transactions`, which computes it again.
- Months have 30 days and `day_of_month` is the day of `start_date`; yearly bills
  are left out, and so are amount edits and moves to another account.

### RecurringSessions

A bill of the generator is looked for (`LookForPlaceholder`), written (`Materialise`)
and, if a row was written, its amount stamped (`Stamp`), which may commit what the
session has flushed so far while it goes on (`CommitMidway`).
Every session has what SQLAlchemy holds for it: `seen` (the pointers it has
read), `loaded`, `dirty` (bills whose new pointer is not yet flushed), `write`
(rows not yet committed).  `View` is a query under READ COMMITTED with autoflush,
`Flush` an UPDATE that takes the row lock of a bill, `Commit` publishes rows and
absolute pointers.  `Abort` is a killed worker, `BreakDeadlock` the victim the
database chooses.  Locks on rows of `transactions` are left out, and so is the commit
that a rate may bring to the sync: `BankSync` has that one.

### TransferPairs

A request reads the committed rows, decides, and commits later the columns it
has changed: `snap` is what it has read, `mem` what it holds, `Written` the flush.
All queries of one request see one committed state.  An UPDATE of one row that
has vanished fails (`Fail`); several that go out together are not counted, and
either may happen.  Detection visits its debits one by one, in any order, since
the query has none.  Currencies, amount edits, statuses and opening-balance rows
are left out; rows of one amount have similar descriptions.  `source` "manual"
stands for "transfer" too.  `Offered` is what the user may pick the other leg from.

### BankSync

`sync[s]` is where a session is in `sync_connection`: accounts read from the
provider one after the other, rows inserted by external id, opening balances
written, transfers detected, phantoms removed, commit.  `Run(s)` is its next step;
a rate that is missing commits the session half-way (`services/fx_rate_service.py:56`),
`FailProvider` and `Kill` end it early, and the status that an error writes
decides whether the hourly `SyncStale` comes again.  `alone` and `torn` are history:
whether another sync ran beside this one, and the accounts that an overlap or a
commit half-way has left unsettled.  `Alike(a)` is what the phantom clean-up looks
for: two listed charges of one amount on an account.  `User` reconnects, deletes
and closes; `Bank` posts, counts, and lists what it had left out.

### CardCycle and CardBills

`CardCycle` counts days in real months, of years of 365 days; bills fall due from the
second month on, so that they close on a day that is counted.  `ComputeEffectiveDate`
and what it rests on are `services/credit_card_service.py`; `CycleStart`, `CycleEnd` and
`BillRangeStart` are the second computation, of `frontend/pages/account-detail.tsx`.  In
`CardBills` a row has `bill_id`, the user's `effective_bill_date` and the stored
`effective_date`, which each action recomputes exactly where the code does.  That makes
`ChangeCycle` and `SyncCycle` two actions: the user's edit of the cycle days recomputes
the rows without a bill, a sync that writes the days the bank names does not.  `behind`
is history: the rows that still have the month of an earlier cycle.

### SharedLedger

One group, the owner, a second user and members who are linked to them or not.  `Equal`
and `Percent` round as `services/split_service.py`, the last share taking the
`Residual`.  Spending, debts and what is pending are operators over the state, as the
code computes them on request.  Spending is computed twice in the code: `Spent` is the
dashboard's total, `Shown` the bar of the report and the amount of a category, for any
set of rows that share a period or a category.

### MarketHolding and ValuedAsset

`MarketHolding` keeps the ledger of trades, the cached position and the stored
value of each day; between `StartRefresh` and `EndRefresh` a refresher waits for
the quotation with the quantity it has read.  A ledger is replayed in date order
(`Held`, a function on sets of trades that takes the last trade off).  `ValuedAsset`
has the growth task in three steps, as it lists the assets, reads the latest value of
each and commits the values that follow (`TaskLists`, `TaskReads`, `TaskCommits`), and the
save of a rule in two (`EditBegins`, whose DELETE takes the values that are there then,
and `EditCommits` or `EditFails`).  One day may have two values, equal ones included
(`copy`).  What updates or deletes the row of the asset waits for the save, which
holds its lock.  That a bank reports no purchase of a later day is an
assumption about banks, in the guards of the syncs.

### Ledger, LedgerViews, Budgets, DatePoints

`Ledger` has the rows and what users and the bank do to them; it knows nothing of
the views.  `LedgerViews` has one operator per figure: history and balances,
categories, budgets, income and expense of the report with their composition, net
worth and its change, cash flow by days and by months, the account's page and its
summary.  Each property says by which rows two figures may differ; where
they may not, it is an equation.  `DatePoints` is `_date_points`; that its points
cover the window is an assumption `MCBudgets` has TLC evaluate over every window
of three short years.  `MCBudgets` also gives `Budgets` other names for what it shares
with other parts, so that `MoneyProofs` can be about all of them.

### Connecting, Imports, Attachments, Capture

What they have in common is a page, or a phone, that repeats itself, and a
service that looks first and writes later.  `Connecting` follows a request
through `Consume`, `Exchange`, or `Fail`; `Imports` has the answers that are on
their way (`inFlight`) and the page that may show another file by then;
`Attachments` has one job per request, with the file and the row as two steps; the
clean-up before a deletion passes over what the storage fails to remove (`Purge`), and
deletions that reach rows by a cascade of foreign keys look at no file (`Cascade`):
`leftover` is history, the files that were left in these two ways.
`Capture` separates the lookup from the insertion.

### Household

A request is read (`request`: authorisation and every check) and committed in two
steps.  `raced` remembers, for a workspace or the installation, that two
requests overlapped whose checks each counted what the other was to take away.

### Alerts, Rules, Proposals, AgentChat

`Alerts` has a creator dismiss what is stale and commit that, read the transactions,
then the invoices and bills (up to `end_date`, unless the category is muted), commit its
batch and push it; rows and bills may change between any two of these, and the day is
the one it began with.  `Rules` takes `apply_all` as one step, over every row in the
order of priority and id; tags are replaced by an edit and added by a rule.  Payees the
user made (`ByHand`) have a mapping to themselves, those a sync or an import made have
none.  An exported file names its categories; `Import` looks for those names in the
workspace it imports to and skips a rule whose category is not there.  A workspace may
be given the rules of the seed, and a category that is renamed keeps its id.  In
`Proposals` a card is what the browser shows, `marked` what it remembers as applied and
`taken` the workspaces that have a category of the proposed name; the card of a budget
drops `is_recurring`, and that of a goal its deadline and first amount, since POST
/api/goals names them otherwise.  In `Capture` a delivery without the secret, a value or
a readable time is refused before the lookup, and the description a phone sends
overrules the movement its text tells.  In `AgentChat` an append is two statements, the
read of the highest ordinal and the insert; the model's answers are arbitrary.

## Runs

A composed property is the conjunction of named parts, which the modules define
and comment one by one, and in `MCBooks`, `MCHome` and `MCBudgets` mostly of the type
invariant of its component.

| Run | What TLC explores | States |
|---|---|---|
| `MCMonthly` | a monthly bill at a month's end, a charge, a file line and a row entered by hand, one edit, fair generator | 1.26 M |
| `MCSessions` | two generators and a sync on two bills, one of the sessions killed, rates that commit half-way | 371 k |
| `MCPairs` | four rows, three accounts, two pair ids, one request at a time | 488 k |
| `MCCards` | one row, one fee, two bills around February, two edits by user or bank, six combinations of cycle days | 455 k |
| `MCBank` | two accounts, a payment with its counterpart and a second report, two faults, the task and the button at once | 983 k |
| `MCShared` | two users, three members, one row, one settlement of a cent, six requests | 350 k |
| `MCChat` | two turns of one conversation, two iterations, one cut, a history of four rows | 501 k |
| `MCRules` | two workspaces, one row, two rules, three categories, two payees, one of them made by hand, a pack, four requests | 2.97 M |
| `MCViews` | a manual account and a connected card, three rows, two months of four days, rows on their edges, cash and accrual, three edits | 234 k |
| `MCBooks` | holdings, valued assets, statements, receipts, consents, instalments, a goal | 2.93 M |
| `MCHome` | household, alerts, proposals, capture, overlapping transfers | 1.45 M |
| `MCEditDuplicates` | a bill of the first of the month that is saved after an early payment: a disagreement with a comment | |

`MCBooks` and `MCHome` gather components whose tables do not touch: an initial
state picks one of them (`story`), and every step belongs to it.  The state space
is thus the sum, not the product, of theirs, and what is checked is each of them
with its own bounds (`MaxMarketEdits`, `MaxImportEdits`, ...).

Bounds.  Every bound is a constant of a `.cfg` with "bound:" in its declaration;
all of them cut behaviours off at the end and none restricts the order of what
happens before.

- *Bills*: two occurrences before the horizon, enough for one to be early, late,
  or taken for the other; days are those around the edges of the windows.  Rows
  are as many as can be live at once, or the generator would stop for want of one.
- *Sessions*: two generators with different cutoffs and one sync are the smallest
  set in which each can overtake another; two bills are needed for a deadlock.
- *Transfers*: four rows make two couples, or one couple and two candidates, for requests
  one at a time (`MCPairs`).  In `MCHome` two requests overlap, on a debit and a credit
  and perhaps a third row that could stand for either; three things begin, requests, new
  rows or deletions in bulk, so that a request may meet another and a deletion.
- *Cards*: days 31, 58 and 59 with closing days 3, 28 and 31 put the last of
  January and both ends of February on each side of a statement.
- *Bank*: a foreign charge, so that a commit falls in the middle of a sync, a
  counterpart in the other account, a second report; two faults let an error be
  followed by a kill, or a kill by another.  The task and the button may overlap:
  `MCBankSync!Together` lets them do so while the bank has listed at most one charge
  and nothing else fails, which keeps the product of two sessions small.
- *Sharing*: amounts 2 and 3 cannot be halved or split in percents without rounding; a
  settlement of a cent pays back a part of either.
- *Books*: three trades sell short after a backdated one; two days, so that a price of
  yesterday exists; six files with overlapping lines, pending and booked ones and equal
  identifiers; assets bought for one amount, with two rates and two figures a bank may
  report, on either of two days, before a save or the task meets the other; two
  transactions with room for one receipt each and two requests; two tabs and two
  workspaces; totals from one cent up, parts from 2 to 12, purchases around ends of
  months and of the year.
- *Home*: two requests in flight, three users and three workspaces; trigger days 0 and 1
  of a window of two, so that a row is read that does not fire; two days, for a
  creator that begins on one and commits on the other; bills three days apart; one proposal of seven kinds, two tabs and
  two workspaces; a transfer and a card purchase, a known and an unknown sender.

`CHECK_DEADLOCK FALSE` everywhere: users, bank and edits do run out of things to
do.  Rows, members, pair ids are symmetric where no liveness is checked.

### Fairness

| Specification | Assumed | Because |
|---|---|---|
| `RecurringBill!FairSpec` | weak fairness of `GenerateNext(today)` | Celery beat sends `generate_all_recurring` every hour (`worker.py:28`) |
| `RecurringSessions!FairSpec` | weak fairness of a session at work, of the database's deadlock detection and of a generator's start; strong fairness of `Commit` | the same, and the database queues those who wait for a row lock |
| `BankSync!FairSpec` | weak fairness of the hourly sync, of a sync at work, and of the user's answer to an expired connection | the beat; the banner stays until he reconnects |
| `AgentChat!FairChat` | weak fairness of the steps of a running turn | provider and tools answer or time out (120 s, 60 s) |
| `MCBooks!BooksSpec` (of `ValuedAsset`) | weak fairness of each of the three steps of the growth task | the daily task of the beat |
| `MCHome!HomeSpec` (of `Alerts`) | weak fairness of the steps of the hourly task, from `DismissStale` to `Push`; none of the button's | `worker.py:57` |

`TransferPairs` has no liveness property: nothing in the code promises that a
transfer will be found.  Neither has `Household` nor `SharedLedger`: their steps are users'.

## What the checks show

- *Bills.*  `OneRowPerOccurrence`: whichever of generator, sync, import and user
  comes first, the others find the row or the pointer; `OneRowPerCharge`: a charge
  has one row whatever is done to rows.  `FollowsCalendar`: the bill implements
  `OccurrenceCalendar`, so it passes over nothing.  `DueOccurrencesSettle`: every
  due occurrence, that on `end_date` included, is settled.  `ForecastOnce`: rows
  and projection count each expected day of a month once, in the sums (`SumsOnce`) and
  in the list (`ListOnce`).
- *Sessions.*  `NothingLost`: concurrent sessions may do too much, never too little, a
  commit half-way included, as the pointer is flushed after the rows it passes;
  `EverythingDue`: progress, although they wait, deadlock and die.
- *Transfers.*  `PairsComplete`, `KeepsMatching`: couples of a debit
  and a credit of two accounts, joined and separated as `Matching` says
  (`OffersStand`: what the user is offered to link may be linked), when requests follow
  one another.  `AtMostTwoLegs`, in `MCHome`: requests that overlap, and deletions in
  bulk, never put three rows in a transfer, nor two of one type.
  `DetectionFaithful`: the detection leaves nothing it may pair
  (`DetectionExhausts`) and a sync never pairs two old rows (`SyncPairsNew`).
- *Cards.*  `EffectiveDates`: the user's override decides (`OverrideWins`), unbilled
  rows follow a cycle (`UnbilledFollowCycle`): the present one also after the user
  changed its days, and an earlier one only if a sync changed them since.
  `BillsPartition`: the bars of the page neither miss nor repeat a row, and the
  calendars of server and page agree.
- *Bank.*  `AddsUpBetweenSyncs`, `DeletedStaysDeleted`, and `Arrives`: what the bank
  lists is on the account in the end, through errors, throttling and lapsed consents.
- *Sharing.*  `SharesCover`; `SpendingAddsUp`: what the two users spend is what was
  spent; `PaidIsSpentOrOwed`: what a member paid is either its own spending or owed to it.
  `ShownAddsUp`: the bars of the report and the categories of the dashboard, which each
  stop at zero, still add up to the dashboard's totals.
- *Chat.*  `Transcript`: own messages in order although ordinals collide, every call
  of a turn that was not cut has its result; `TurnEnds`.
- *Rules.*  `RulesDecide`: what was set by hand stays, priority decides, merged payees
  are followed: those the user made, through any chain of merges.  `RulesTravel`: a
  failed import leaves the rules, and an export imported again behaves as before.
- *Views.*  `DashboardAgrees` and `ReportsAgree` name, for each pair of figures, the
  rows by which they differ: settled, ignored, paired, hidden, future or pending.  The
  report's composition adds up to its totals and bars (`CompositionAddsUp`), net worth
  moves by what was booked (`NetWorthMoves`), each month of the cash flow follows from
  the one before (`ChartAddsUp`), and on an account's page a row is paid or to be paid
  (`PaidOrToPay`).  `ChangesFromMonthOn`: a recurring budget leaves the months before it
  alone.
- *Books.*  `AssetsShown` (of holdings, `HoldingsShown`; of values by rule or bank,
  `ValuesShown`), `GrowthCatchesUp`, `OneRowPerMovement`, `ImportsKept`, `ReceiptsKept`,
  `ConsentsKept`, `InstalmentsRight`, `GoalKept`: see their comments in `MCBooks` and
  the modules.
- *Home.*  `HouseholdGoverned`, `AlertedOnce`, `AlertsFire`, `ProposalsKept`,
  `CapturedOnce`, likewise.

A few parts except states in which two requests crossed (`raced`, `crossed`, `cut`,
`torn`, `lagging`, in `touched` a save that the task met): the exception is a history
variable that is set exactly when they did, and the next section says what goes wrong
then.

### What does not hold

`MCEditDuplicates` (`services/recurring_transaction_service.py:157`): a bill of the first
of the month is paid two days early, in the month before.  Saving the bill computes the
pointer from that payment and falls on the occurrence it fulfilled, which the comment at
line 144 means to exclude.

Of the webhook the repository says two things that the code does not do; the models have
the code (`Capture!Known`, `Capture!Resolve`), and no run is needed to see either.
`src/backend/tests/test_webhooks.py:607-634` posts one text twice without `horario` and
asserts two rows; `_dedup_key` gives both the same key (`api/webhooks.py:136-143`), so
the second is a duplicate and `OneRowEach` says one row.  And the docstring of
`_resolve_account` promises the titular a fallback to "the workspace-wide rules above
when the user has no matching account" (`api/webhooks.py:300-302`); each of its queries
stays with the titular, and a new account is opened for him though another member has
one of the application.

The rest was met while modelling and has no run.  The properties in code font are
definitions of the modules that TLC finds violated when it is given them.

*Bills and transfers.*  Two generators at once both write an occurrence
(`RecurringSessions!OnceEach`; `services/recurring_transaction_service.py:271`), and one
with a near cutoff that commits last takes the pointer back.  Reconciling a payment with
a placeholder advances the bill a second time (`services/transaction_service.py:1290`).
A line merged into a placeholder, or a charge merged into a future row, stays scheduled
(`services/import_service.py:685`, `services/connection_service.py:1325`).  The twin
pass changes hidden rows (`services/connection_service.py:1342`).  The placeholder
window is five days for weekly bills too (`services/recurring_match_service.py:124`).  A
forecast may leave the last occurrence out though it is unpaid (`UnpaidProjected`;
`services/dashboard_service.py:118`).  An empty list of candidates means all rows to the
detection (`services/transfer_detection_service.py:35`), which takes debits in the order
of the query, not the closest first (line 87).  Races and bulk deletions leave lone
legs; two moves at once put both legs on one account; editing a leg's type leaves two
debits.  The phantom clean-up deletes one of two real payments of one amount
(`services/connection_service.py:885`).

*Bank sync.*  With the task and the button at once each computes the opening balance
without the rows of the other, until a sync that runs alone; and both may insert a
charge, after which every sync raises.  The opening balance is computed before the phantom
clean-up, and so is wrong by a row it deletes: `AddsUpAlways`, which is
`AddsUpBetweenSyncs` without the exception of accounts with charges alike, fails
(`services/connection_service.py:1454`).  A connection that was renewed
while its sync ran is shown as expired again (`ReauthorisedIsNotExpired`; line 545).

*Consents.*  The callback page offers to try again, but the state was spent
(`RetryCanHelp`; `frontend/pages/oauth-callback.tsx:67`).  A reload while the request
runs leaves the page waiting for ever; an answer lost after the commit makes the user
connect a second time; a token pasted again after switching lands in the other workspace.

*Cards and instalments.*  When close and due days fall on one day of a month, as the
30th and the 31st do in February, `get_cycle_dates` shows a bill that closes on the day
it is due, while `compute_effective_date` has that day close a bill due a month later
(`CyclesAgree` needs `DaysApart`; `services/credit_card_service.py:29`).  A row filed
under a past bill still counts in the open cycle when its date falls there
(`CountedOnce`; `services/account_service.py:730`).  A sync overwrites close and due
days without computing effective dates anew
(`services/connection_service.py:1228-1231`), which `update_account` does after the same
change (`services/account_service.py:347`): rows without a bill stay in the months of
the old cycle until they, or the cycle, are edited (`behind`).  Five cents in seven
parts end with a negative part (`PartsArePositive`); for a card that closes on the 31st
a purchase of the 30th has no part on the bill of February and two on that of March
(`OnePerBill`).

*Imports.*  Two equal lines without an identifier become one row.  The page keeps the
lines of the old file when the new one is refused, and imports them under the new name
(`LogNamesItsFile`); a line merged into a placeholder keeps its day and is added when
the file comes again (`MergedIsKnown`).  A CSV and an OFX of one period duplicate each
other.  Deleting an import deletes placeholders it only merged and leaves the other leg
of a transfer.  A log keeps the count of its commit whatever a reconciliation, a
deletion or another log takes from it later; `CountStep` is about that commit only.
Two imports at once both find no row.

*Sharing.*  A linked member does not see on the dashboard the debt the owner sees
(`MemberSeesOwnDebt`).  A closed account makes shared expenses negative; an amount
edited alone leaves the splits; deleting a settlement leaves its cash rows, deleting a
group its settlements go silently; credits are split as debts.  In accrual the dashboard
takes others' shares off in the month of the purchase and the row in that of the bill
(`services/dashboard_service.py:220`), and the report's composition leaves out what
others share with the viewer, which its totals have (`services/report_service.py:697`);
`SharedLedger` has one month and no composition, so neither is checked.  Two cents in
four equal shares end with a negative one.

*Assets.*  A trade deleted leaves sells without units (`NeverShort`), saving the form
clears the cost basis (`CostBasisKnown`), two refreshers write two values for today; a
ledger emptied leaves value in wallet and net worth; renaming a sold holding un-sells
it.  A growth asset with a later start grows through the gap (`NoGrowthBeforeStart`;
`services/asset_service.py:79`); a second value on the day of a historical seed fails
the whole sync (`SeedSkips`); a holding absent from one report is archived for good; a
yearly rule from 29 February raises.  A rule saved while the task is between its query
for the latest value and its commit, or a task that passes while the save waits for a
rate, leaves values of the old rate, or two values of one day (`GrowthFollowsRule`
without `touched`; `tasks/asset_tasks.py:66-114`, `services/asset_service.py:599-659`).

*Views.*  The balance history omits rows of hidden categories that the balance of the
day counts (`HistoryIsBalance`; `services/dashboard_service.py:990`).  The report's bar
is cut at today, its cash flow ignores `effective_bill_date`; deleting a later recurring
budget brings an older one back.  A goal keeps its baseline when it is linked to
something else (`FreshIsOnTrack`; `services/goal_service.py:304`) and may be called
achieved while less than its target is there (`AchievedIsReached`; line 184).

*Receipts.*  A deletion takes the file before the row is committed, so a crash leaves a
receipt that cannot be opened; a cut upload leaves a file; a reconciliation, or two
pages, exceed the limit.  Without any crash a file stays for good when the storage fails
to remove it, as `cleanup_attachment_files` swallows the error and the rows go all the
same (`services/attachment_service.py:188-191`), and when the row goes by a cascade: with a
connection, a user, or a row a sync removes, for which nothing calls that clean-up
(`leftover`).

*Household.*  Two demotions, removals or archivings at once leave a workspace, or the
installation, without an owner.  A crash between the commits of user and workspace
leaves a user without one (`AlwaysBelongs`; `services/workspace_service.py:3`).
Deleting a user forgets goals, asset groups, collections and notifications, whose
foreign keys refuse it.

*Alerts.*  A bill's alert is followed by one of the row the generator writes for it.
`get_notifications` says unread first and orders them last
(`services/notification_service.py:413`).  Alerts of bills are not dismissed by payment,
pushes that fail are not repeated.  A row that is moved to another day keeps the alert
of the old one, which names a day nothing is due on: `_dismiss_stale_alerts` asks only
whether the row is still scheduled (`services/notification_service.py:151`).

*Proposals and chat.*  A card applied while its answer streams is remembered under a
draft id, offers its button again and applies twice (`AppliedOnce`;
`frontend/components/agents/chat-panel.tsx:250`).  A card is applied in the workspace
that is active then.  Two turns share ordinals, and a turn may not see its own question
(`SeesItsQuestion`; `agents/runtime/executor.py:346`); a cut leaves a call without result.

*Rules and capture.*  Applying rules twice is not idempotent (`ReapplyIdempotent`, which
a test expects: `src/backend/tests/test_new_rules_api.py:277`); a rule may name the
category of another workspace, as a pack's rules go to the first
(`RulesStayInWorkspace`; `services/rule_service.py:536`); a rule that names a deleted
category makes later matches fail.  A payee made by a sync or an import has no
`PayeeMapping` (`get_or_create_payee`, `services/payee_service.py:94-99`; only
`create_payee` writes one), so once he is merged nothing records whom he became.  Two
deliveries at once insert two rows and a third then fails; delivery after deletion
brings a row back.

## Proofs

TLAPS checks these for all values of the constants.  Each module assumes of its
constants what its `...Assumption` says; where that is a definition rather than an
`ASSUME` it is the hypothesis of the theorems, and the MC module of the component
assumes it, so that TLC evaluates it on the instance.

- `RecurringBillProofs`.  `PointerAhead` says that every row which stands for an
  occurrence stands for one before the pointer.  With `OneRowPerOccurrence` it is
  inductive (`OccurrenceInv`): a row can only take the occurrence at the pointer,
  which moves on in the same step.  `CalendarInv` says that the pointer is a day of
  the schedule and every earlier one is settled.
  `TypeCorrect` and `ChargeOnce` are about `Spec`, edits of the bill included;
  `OccurrenceOnce` about `ReconcilingSpec`; `NothingSkipped` and
  `ImplementsCalendar` (a refinement: initial states and every step) about
  `UneditedSpec`.  The arithmetic of `AdvancePast` is proved, not only its closed
  form checked.  `ForecastHolds` needs both invariants, and `OnCalendar`: rows stand
  for days of the schedule, so that a projected day, which is one too and not before
  the pointer, is not also the day of a row.
- `RecurringSessionsProofs`.  `NothingIsLost` holds for any number of sessions.  A
  pointer is committed only by the holder of the row lock of its bill, and what
  the holder has seen was backed by rows when it read it: committed rows, which no
  session deletes, or its own, which it commits in the same transaction.  The
  invariant says that of every session at work (`SeenStands`, `OneWriter`,
  `Faithful`, `AtWork`), aborts included.  A commit half-way publishes, of the session's
  pointers, only those of the bills whose locks it holds: these it has flushed
  (`Held`), and the bill in hand it has not moved yet (`InHand`).
- `TransferPairsProofs`.  `TwoLegs` holds for any number of overlapping requests and
  bulk deletions; `MCHome` has two at once.  Without locks the only protection is
  that ids are fresh: what a session has given out, to two rows at most (`TwoNew`),
  no committed row and no other session has (`Exclusive`), and a session that has not
  decided holds none (`Quiet`).  Besides `PairsAssumption` it rests on a uuid4 and a
  primary key being new (`FreshPairs`, `FreshRows`).  `DetectionRight` is about the same
  sessions: it follows from what one detection does, whatever happened before.
  `TransfersComplete` and `TransfersMatch` (a refinement of `Matching`) are about requests
  that follow one another (`SerialSpec`).  `SerialInv` says that the committed table is
  made of couples, and of the one session at work that what it holds is the table with
  couples joined or separated, whole.
- `Lemmas`.  Sums over finite sets: the library defines them by a recursive function,
  chosen; that there is one, that two of them agree, and what a sum gives, is shown by
  looking at a smallest set for which it would fail, as `FiniteSetTheorems` and `WFMin`
  allow it without the induction theorems.  The calendar: every day is in one month
  (`MonthOfIs`, `OneMonth`), day n of a month is before that of the next (`ClampGrows`),
  so `FirstAfter` and `LastOnOrBefore` are the neighbours their names promise.  Folds: a
  fold over a sequence takes its first element first, then the next, up to its last
  (`Runs`), so what each step keeps, the fold keeps (`StepByStep`); a finite set has one
  first element under a total order (`Foremost`) and can be written down in that order
  (`SortedExists`).
- `CardBillsProofs`.  A statement closes, falls due, and only then the next one closes
  (`CycleOf`).  From it `CalendarsAgree` follows for every day and for all close and due
  days that fall on two days of every month (`DaysApart`: they differ and one is before
  the 28th), the hypothesis of `BillsPartitioned`; without it the statement is false
  (see *Cards and instalments* above), so only its other half, `BarsPartition`, is
  proved for all cards.  That half rests on `FiledInv`: no two bills are due on one day,
  and a row's bill is one the bank has issued.  `MonthsDecided`: `BillsInv` says of
  each row that its stored date follows the override, else the bill, else a cycle the
  card may have had (`Decided`), the present one unless the row is behind (`Follows`);
  it uses nothing of the calendar.
- `MoneyProofs`.  `AddsUpStands` holds for any number of syncs at once.  What carries it
  is `Settled`: a sync that has run alone so far has, for each account it is done with,
  taken the offset that is still the right one, whether it is in the table or among what
  the sync will write, and reported the balance the account will have.  A sync that is
  not alone tears the accounts it writes, and those it has inserted into stay torn until
  one that is alone settles them (`Twins`, `Placed`).  `Deleted` says that a connection
  that is gone has no rows and no sync that can write, which is `DeletedStands`.  The
  rest is about `SharedLedger`, for any number of users, members and rows, where
  `MCShared` has two, three and one.  `LedgerInv`: the shares of a row are of people in
  the group and add up to some total, which is the row's amount unless it was changed
  alone; one member at most is the owner himself.  `SharesStand` rests on
  `ResidualCovers`: the last share makes up the total however the others were rounded.
  `MoneyStands` exchanges two sums (`SumOfSums`: what users spend of rows, what of a row
  users spend) and divides the members of a split by their user (`SumByKind`).  That
  figures which stop at zero add up (`ShownAddsUp`) is `OthersFit`: others' shares never
  exceed a row that its splits fit.  That no share is negative is a hypothesis of the
  property: the last of four equal shares of two cents is minus one.  The last part is
  about `Ledger`, `LedgerViews` and `Budgets`.  The equations need of the ledger nothing
  but its types (`LedgerTypedAlways`), so they hold after any edits; each is an argument
  about the sets of rows that two figures sum.  `RowParts` and `RowKinds` split such a
  set in two or by a kind (account, category, month); `BalanceMoves` says that the
  balances of two days differ by what was booked in between, walked back from the bank's
  figure or summed up; `MonthsCut` is the arithmetic of `div`.  `WalksAre` does for the
  cash flow what `BalanceMoves` does for balances, and `ModesFit` shows that a purchase
  not yet due is in the anchor or in the flows.
- `BooksProofs`.  `ReceiptsStand`: `FilesInv` says that a row is written only after its
  file, and that a file goes only with a deletion that is remembered; keys are never
  used again, so what a deletion left over is no upload's (`Remains`).  `ReceiptInv`
  adds that, unless requests crossed or were cut, each file that no deletion left over
  has its row (`Standing`), that the uploads under way count towards the limit
  (`Balanced`, `Counted`), and that the page shows what was clicked last or waits for it
  (`Clicked`).  `ConsentsLand`: where a consent ends is decided by what the state in
  Redis says (`StatesInv`), which a live request carries (`RequestsInv`), at most one
  per tab and awaited by it (`TabsInv`, `LiveInv`), and the connection keeps
  (`ConnsInv`, `TargetsInv`).  `GoalStands`: `GoalInv`, and the arithmetic of a pace
  that days without savings cannot improve.  `InstalmentsStand`: rounding is off by half
  a cent for each part (`Rounded`), which the last takes (`AmountsAddUp`); the next
  month's day is a later one (`MonthsOn`), and a later day closes and falls due no
  earlier (`StatementsInOrder`), for cards whose days coincide as well.
  `StatementsStand` and `ImportsStand` have one invariant, `StatementsInv`.  What the
  fold over the lines of a file keeps (`TakenRows`) is that each row as it was read says
  what some statement says (`Stated`), that no two of a movement are of one kind
  (`ApartIn`) and that each row was there, was inserted or took the place of one
  (`Traced`); that statements write a movement alike (`WrittenAlike`) is a hypothesis
  about banks, which `MCBooks` assumes of its six and only `StatementsStand` needs.  An
  import under way has marked its rows with a log nobody else knows (`Looked`), and it
  is right about the rows and about the lines it included until something else is
  committed (`UpToDate`); `AllPut` says that as many placeholders are filled at the
  commit as were found.  `HoldingsStand`: the cached position is what the ledger replays
  to until a quantity is typed over it, and the latest value that is stored has the
  row's price and, unless a refresh overlapped a trade, its units (`HoldingInv`,
  `ShownWell`).  A ledger no sell of which comes short replays to the sum of its signed
  quantities (`HeldAddsUp`), and a buy never makes one short (`BuyNeverShort`), which is
  why the code checks sells only.  `ValuesStand`: the values a rule generated are those
  of its first periods (`FollowsRule`); the rate that the task has listed is still the
  one of the row, or no further period was complete on the day it listed it; what it has
  read goes on from the periods that are there (`BatchGoesOn`); and a save under way
  takes every rule value and brings the first periods of the new rule, unless the task
  came between (`ValuedInv`, `UnderWay`).  `AssetsStand` puts the two together.
- `HomeProofs` (transfers excepted, whose theorem is `TwoLegs`).  `HomeGoverned`:
  `HouseInv` has the workspaces a waiting request names among those made (`RequestsInv`)
  and an active administrator unless two requests raced (`AdminRemains`); what
  `GovernedStep`, `ArchiveStep` and `RowsStep` say then follows from the checks that the
  request passed and that no other commit fell in between.  `PushedOnce`: an alert is
  pushed by the creator whose commit stored it, and the batches of two creators that
  were stored are disjoint (`AlertsInv`).  `AgentsKeepToIt`: what was written was asked
  for (`Paid`), and a proposal that is filed, shown or marked agrees with its record
  (`ProposedInv`, `MarkedInv`).  `CapturedWell`: unless deliveries crossed, keys are
  unique, and a delivery between its lookup and its insertion holds the account that a
  lookup would give it now (`CaptureInv`).  `TranscriptStands`: ordinals of two turns
  may be equal, but those of one turn increase, as it reads the highest before each
  insert (`Sorted`); a turn has told its messages in the order of its protocol, and
  every call it has told is answered or still to be (`Told`, `Replied`, `Replying`).
  `RulesStand`: the fold over the ordered rules is followed step by step.  Of the
  priority it is shown that, after the first n rules, the category is set if and only if
  one of them matched and names one, and is that of the first such (`Decided`); of a
  row, that a step leaves its payee and what it was given, or sets both (`Treated`), so
  that a row the foreign keys accept has a payee that is there; what the record of the
  merges says of a payee is shown of those that have one (`ByHand`), and of the others
  that a row is at the payee it was given as long as he is there (`TablesInv`,
  `GivenHolds`).  That rule names stay unique in a workspace (`NamesApart`) needs it of
  the exported file and of packs and defaults, which `RulesAssumption` states and
  `services/rule_service.py` fulfils.  `RulesGoWhole`: an import maps the rules of the
  workspace one to one to new ones that differ only in id (`Becomes`, `Like`); since two
  increasing enumerations of a set are the same (`SameOrder`), the order is mapped too,
  and the two folds agree step by step (`RunBecomes`).

Inductions over numbers, sets or history are arguments by a least element
or a smallest set: the induction theorems of the library take an operator.

Only model-checked is liveness (`DueOccurrencesSettle`, `EverythingDue`, `Arrives`,
`TurnEnds`, `GrowthCatchesUp`, `AlertsFire`), which the prover does not reach.

## Not modelled

- *Bank data providers* and parsers of files and notification texts: functions of
  text and network calls; what they may return is an input of the models.
- *Search, export, collections*: queries without state of their own, and a set of rows.
- *Authentication, two factors, passkeys, rate limits*: library and network calls.
- *Deployment.*
- Within modelled parts: currencies (amounts are in one), yearly bills, exchange rates
  other than their commit, push subscriptions, the knowledge base of agents, row
  locks of `transactions`, two saves of one asset, two syncs of one holding or two workers
  of the growth task at once, and what the web application only displays.

## Plan

The statements of market prices and of the bank data providers that the jobs depend on.
