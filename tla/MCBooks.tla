------------------------------ MODULE MCBooks ------------------------------
(* What a user brings into the books beside the entries themselves: assets *)
(* that are bought and sold at market prices, assets valued by a rule or a *)
(* bank (valuation_method and source settle which when the row is created, *)
(* and never change), statement files, receipts, purchases in instalments, *)
(* the connections to banks, and a goal.  They share no state, so a        *)
(* behaviour follows one.                                                  *)
EXTENDS Connecting, Sequences

CONSTANTS Statements, Bill,
          Quantities, Prices, Refreshers, Batch, MaxDay, MaxTrades,
          Worths, Reports, Typed, Rates, FormDays, Step, RunLimit, BoughtOn, BoughtFor, MaxMarketEdits,
          MaxValuedEdits,
          StatementDays, Near, MaxImportEdits, Txs, MaxPerTx, MaxFlight, MaxReceiptEdits,
          Totals, Counts, Purchases, Cycles, Overrides, Today,
          Targets, Sums, Dates, MonthDays, MaxGoalEdits

VARIABLES story, today, asset, ledger, values, refresh, lagging,
          valued, history, edit, task, bank, reported, touched, blocked,
          rows, logs, page, asked, raced, inFlight, crossed,
          txs, legs, recs, files, leftover, jobs, cut, overtaken, reconciled, preview,
          plan, parts,
          goal, alive, worth, paid, strayed

(* Charge 3 is a later instalment of charge 1: the bank gives both the same *)
(* identifier.  The statements of June and July overlap in charge 2.        *)
Entry(charge, date, text, fitid, kind) ==
    [charge |-> charge, date |-> date, text |-> text, fitid |-> fitid, kind |-> kind]

SixStatements ==
    [june |-> [format |-> "ofx",
               entries |-> <<Entry(1, 1, "phone", 7, "booked"), Entry(2, 2, "shop", 0, "booked"),
                             Entry(9, 2, "saldo", 0, "balance")>>],
     july |-> [format |-> "ofx",
               entries |-> <<Entry(2, 2, "shop", 0, "booked"), Entry(3, 3, "phone", 7, "booked")>>],
     intraday |-> [format |-> "camt",
                   entries |-> <<Entry(4, 2, "rent", 0, "pending"), Entry(5, 1, "rent", 0, "booked")>>],
     final |-> [format |-> "camt", entries |-> <<Entry(4, 3, "rent", 0, "booked")>>],
     old |-> [format |-> "qif", entries |-> <<Entry(4, 3, "rent", 0, "booked")>>],
     table |-> [format |-> "csv",
                entries |-> <<Entry(6, 1, "shop", 0, "booked"), Entry(8, 1, "shop", 0, "booked")>>]]

\* No card, and three that close and are due on other days.
FourCycles == {[close |-> 0, due |-> 0], [close |-> 3, due |-> 10],
               [close |-> 28, due |-> 5], [close |-> 31, due |-> 10]}

M == INSTANCE MarketHolding WITH MaxEdits <- MaxMarketEdits
V == INSTANCE ValuedAsset WITH asset <- valued, values <- history, MaxDay <- MaxDay + 1,
                               Prices <- Worths, MaxEdits <- MaxValuedEdits
I == INSTANCE Imports WITH Files <- Statements, Days <- StatementDays,
                          MaxEdits <- MaxImportEdits
R == INSTANCE Attachments WITH page <- preview, crossed <- overtaken,
                               MaxEdits <- MaxReceiptEdits
P == INSTANCE Instalments WITH Cards <- Cycles
G == INSTANCE Goals WITH MaxDay <- 5, MaxEdits <- MaxGoalEdits

ASSUME BooksAssumption ==
    /\ M!HoldingAssumption /\ V!ValuedAssumption /\ I!ImportsAssumption /\ I!WrittenAlike
    /\ R!AttachmentsAssumption /\ ConnectingAssumption /\ P!InstalmentsAssumption
    /\ G!GoalsAssumption

market == <<asset, ledger, values, refresh, lagging>>
value == <<valued, history, edit, task, bank, reported, touched, blocked>>
statements == <<rows, logs, page, asked, raced, inFlight, crossed>>
receipts == <<txs, legs, recs, files, leftover, jobs, cut, overtaken, reconciled, preview>>
connections == <<active, conns, states, tab, guard, requests, spent, flow, told, deleted>>
plans == <<plan, parts>>
saving == <<goal, alive, worth, paid, strayed>>
booksVars == <<story, today, edits, market, value, statements, receipts, connections, plans, saving>>

BooksInit ==
    /\ story \in {"market", "valued", "statements", "receipts", "connections", "plans", "saving"}
    /\ M!Init /\ V!Init /\ I!Init /\ R!Init /\ Init /\ P!Init /\ G!Init
    /\ story # "receipts" => ~legs

MarketNext ==
    /\ story = "market" /\ M!Next
    /\ UNCHANGED <<story, value, statements, receipts, connections, plans, saving>>
ValuedNext ==
    /\ story = "valued" /\ V!Next
    /\ UNCHANGED <<story, market, statements, receipts, connections, plans, saving>>
StatementsNext ==
    /\ story = "statements" /\ I!Next
    /\ UNCHANGED <<story, today, market, value, receipts, connections, plans, saving>>
ReceiptsNext ==
    /\ story = "receipts" /\ R!Next
    /\ UNCHANGED <<story, today, market, value, statements, connections, plans, saving>>
ConnectionsNext ==
    /\ story = "connections" /\ Next
    /\ UNCHANGED <<story, today, market, value, statements, receipts, plans, saving>>
PlansNext ==
    /\ story = "plans" /\ P!Next
    /\ UNCHANGED <<story, today, edits, market, value, statements, receipts, connections, saving>>
SavingNext ==
    /\ story = "saving" /\ G!Next
    /\ UNCHANGED <<story, market, value, statements, receipts, connections, plans>>

BooksNext ==
    \/ MarketNext \/ ValuedNext \/ StatementsNext \/ ReceiptsNext \/ ConnectionsNext
    \/ PlansNext \/ SavingNext

Elsewhere == UNCHANGED <<story, market, statements, receipts, connections, plans, saving>>

BooksSpec == BooksInit /\ [][BooksNext]_booksVars
        /\ WF_booksVars(story = "valued" /\ V!TaskLists /\ Elsewhere)
        /\ WF_booksVars(story = "valued" /\ V!TaskReads /\ Elsewhere)
        /\ WF_booksVars(story = "valued" /\ V!TaskCommits /\ Elsewhere)

-----------------------------------------------------------------------------
(* asset_service, portfolio and net worth show one value of a holding, and  *)
(* only the deletion of a trade makes a ledger short.                       *)
HoldingsShown ==
    /\ [](story = "market" => M!TypeOK)
    /\ [](M!NetWorthAgrees /\ M!WalletAgrees)
    /\ [][M!ShortByDeletion]_booksVars

(* What an asset is shown at is what its rule or its bank last said, once a *)
(* day.                                                                     *)
ValuesShown ==
    /\ [](story = "valued" => V!TypeOK)
    /\ [](V!GrowthFollowsRule /\ V!ShowsReport /\ V!OneSyncValueADay)

(* Screens, rules and banks agree on what an asset is worth.                *)
AssetsShown == HoldingsShown /\ ValuesShown

(* The growth task catches up with the calendar.                            *)
GrowthCatchesUp == story = "valued" => V!GrowthCatchesUp

(* A movement that statements repeat has one row.                           *)
OneRowPerMovement == I!OneRowPerMovement

(* A line that was included has a row when the import commits, the log      *)
(* counts those it made, and the page reviews the file it names under the   *)
(* options it shows.                                                        *)
ImportsKept ==
    /\ [](story = "statements" => I!TypeOK)
    /\ []I!ShownAsAsked
    /\ [][I!LinesStep]_booksVars
    /\ [][I!CountStep]_booksVars

(* A receipt that is listed can be opened, the storage has no file without  *)
(* a row but those a deletion passed over, a transaction no more than       *)
(* allowed, and the preview shows the receipt that was clicked last.        *)
ReceiptsKept ==
    /\ story = "receipts" => R!TypeOK
    /\ R!RecordHasFile /\ R!NoOrphans /\ R!WithinLimit /\ R!ShownIsLast

(* Instalments add up to their total, in parts as equal as cents allow, and *)
(* the later fall on later bills, or the same.                              *)
InstalmentsRight ==
    /\ story = "plans" => P!TypeOK
    /\ P!PartsAddUp /\ P!PartsAreEven /\ P!BillsInOrder

(* A goal names the one thing it tracks, saving what the page says reaches  *)
(* its target, and waiting alone does not improve its pace.                 *)
GoalKept ==
    /\ [](story = "saving" => G!TypeOK /\ G!TracksItsOwn /\ G!SavingReaches)
    /\ [][story = "saving" => G!PaceStep]_booksVars
=============================================================================
