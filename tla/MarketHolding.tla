---------------------------- MODULE MarketHolding ----------------------------
(***************************************************************************)
(* One market-priced holding: its ledger of buys and sells, the position   *)
(* cached on the asset row, the price cached there, and the value stored   *)
(* for each day.  asset_transaction_service.py keeps the first two,        *)
(* asset_service.py the others.                                            *)
(*                                                                         *)
(* A price refresh reads the asset, waits for the quotation service and    *)
(* then writes with the quantity it read; users go on trading meanwhile.   *)
(* Three screens compute today's worth in three ways: the holdings list    *)
(* (Current), the wallet header (Wallet), net worth (NetWorth).            *)
(***************************************************************************)
EXTENDS Naturals, Integers, SequencesExt, FiniteSetsExt

CONSTANTS
  Quantities,   \* quantities a trade or the form may carry
  Prices,       \* quotes the market may give
  Refreshers,   \* the scheduled batch and the refresh buttons of a page
  Batch,        \* which of them is the scheduled batch
  MaxDay,       \* bound: days
  MaxTrades,    \* bound: length of the ledger
  MaxEdits      \* bound: requests and refreshes

(* What the constants must be; the modules of the runs assume it.           *)
HoldingAssumption ==
  /\ Quantities \subseteq Nat \ {0} /\ Prices \subseteq Nat \ {0}
  /\ Batch \in Refreshers
  /\ MaxDay \in Nat \ {0} /\ MaxTrades \in Nat /\ MaxEdits \in Nat

VARIABLES
  today,     \* date.today()
  asset,     \* the row of assets
  ledger,    \* rows of asset_transactions, in the order they were recorded
  values,    \* rows of asset_values: the one of each day, price 0 when none
  refresh,   \* each refresher: what it read before it asked for quotes
  lagging,   \* history: the latest value was written with an old quantity
  edits

vars == <<today, asset, ledger, values, refresh, lagging, edits>>

Days == 1 .. MaxDay
Never == 0
NoValue == [amount |-> 0, price |-> 0]
Idle == [busy |-> FALSE, units |-> 0]
NoAsset == [exists |-> FALSE, units |-> 0, price |-> 0, sold |-> Never,
            archived |-> FALSE, cost |-> FALSE, typed |-> FALSE]

Trades == [kind : {"buy", "sell"}, day : Days, qty : Quantities]

-----------------------------------------------------------------------------
(* Replaying the ledger. *)

\* In (date, created_at) order; ledger keeps the order of recording.
Precedes(trades, j, i) ==
  trades[j].day < trades[i].day \/ (trades[j].day = trades[i].day /\ j < i)

Earlier(trades, i) == {j \in DOMAIN trades : Precedes(trades, j, i)}

LastOf(trades, some) == CHOOSE i \in some : \A j \in some \ {i} : Precedes(trades, j, i)

\* A sell never takes more than is held.
Clamped(qty, t) ==
  IF t.kind = "buy" THEN qty + t.qty ELSE IF t.qty <= qty THEN qty - t.qty ELSE 0

\* The units held after some of the trades.
Held(trades) ==
  LET held[some \in SUBSET DOMAIN trades] ==
        IF some = {} THEN 0
        ELSE Clamped(held[some \ {LastOf(trades, some)}], trades[LastOf(trades, some)])
  IN  held

Position(trades) == Held(trades)[DOMAIN trades]

Oversold(trades) ==
  \E i \in DOMAIN trades :
    trades[i].kind = "sell" /\ trades[i].qty > Held(trades)[Earlier(trades, i)]

Sells(trades) == {t \in ToSet(trades) : t.kind = "sell"}

LastSell(trades) == Max({t.day : t \in Sells(trades)})

-----------------------------------------------------------------------------
(* What requests and refreshes write. *)

\* _apply_price_to_asset: cache the price; with a positive quantity, write
\* the value of the day over the one already there.
Stored(units, price) ==
  IF units > 0
  THEN [values EXCEPT ![today] = [amount |-> units * price, price |-> price]]
  ELSE values

\* recompute_and_cache: position, exit date and cost from the ledger, then
\* today's value.
Recomputed(row, trades) ==
  LET units == Position(trades)
  IN  [row EXCEPT !.units = units, !.cost = units > 0, !.typed = FALSE,
                  !.sold = IF units > 0 THEN Never
                           ELSE IF Sells(trades) # {} THEN LastSell(trades)
                           ELSE @]

\* Seeded fault for Record: a holding that has a price keeps the value of the day.
RecordOnly(row, trades) ==
  /\ ledger' = trades
  /\ asset' = Recomputed(row, trades)
  /\ values' = IF ledger = <<>> THEN Stored(Position(trades), row.price) ELSE values
  /\ lagging' = IF Position(trades) > 0 THEN "no" ELSE lagging

Record(row, trades) ==
  /\ ledger' = trades
  /\ asset' = Recomputed(row, trades)
  /\ values' = Stored(Position(trades), row.price)
  /\ lagging' = IF Position(trades) > 0 THEN "no" ELSE lagging

Bounded == edits < MaxEdits /\ edits' = edits + 1

Init ==
  /\ today = 1
  /\ asset = NoAsset
  /\ ledger = <<>>
  /\ values = [d \in Days |-> NoValue]
  /\ refresh = [r \in Refreshers |-> Idle]
  /\ lagging = "no"
  /\ edits = 0

\* create_asset and the first buy_into_holding of a ticker: quote, row,
\* today's value, opening buy.
Open(price, qty, day) ==
  /\ Bounded
  /\ ~asset.exists
  /\ Record([NoAsset EXCEPT !.exists = TRUE, !.price = price],
            <<[kind |-> "buy", day |-> day, qty |-> qty]>>)
  /\ UNCHANGED <<today, refresh>>

\* buy_into_holding of a ticker that is held, archived or not, and
\* add_transaction: only a sell is checked against the replayed ledger.
AddTrade(t) ==
  /\ Bounded
  /\ asset.exists /\ Len(ledger) < MaxTrades
  /\ t.kind = "sell" => ~Oversold(Append(ledger, t))
  /\ Record(asset, Append(ledger, t))
  /\ UNCHANGED <<today, refresh>>

\* update_transaction: the edited ledger is replayed before the row changes.
UpdateTrade(i, t) ==
  /\ Bounded
  /\ ~Oversold([ledger EXCEPT ![i] = t])
  /\ Record(asset, [ledger EXCEPT ![i] = t])
  /\ UNCHANGED <<today, refresh>>

\* delete_transaction: no check.
DeleteTrade(i) ==
  /\ Bounded
  /\ Record(asset, RemoveAt(ledger, i))
  /\ UNCHANGED <<today, refresh>>

\* The form of a holding (assets.tsx buildPayload, then update_asset): the
\* quantity as shown or as typed, no purchase price, no exit date.
SaveForm(units) ==
  /\ Bounded
  /\ asset.exists
  /\ units \in Quantities \cup {asset.units}
  /\ asset' = [asset EXCEPT !.units = units, !.cost = FALSE, !.sold = Never,
                            !.typed = @ \/ units # asset.units]
  /\ values' = Stored(units, asset.price)
  /\ lagging' = IF units > 0 THEN "no" ELSE lagging
  /\ UNCHANGED <<today, ledger, refresh>>

\* update_asset from the list: archive and bring back.
Archive(flag) ==
  /\ Bounded
  /\ asset.exists /\ asset.archived # flag
  /\ asset' = [asset EXCEPT !.archived = flag]
  /\ UNCHANGED <<today, ledger, values, refresh, lagging>>

\* delete_asset: a refresh in flight then updates no row and fails.
Delete ==
  /\ Bounded
  /\ asset.exists
  /\ asset' = NoAsset
  /\ ledger' = <<>>
  /\ values' = [d \in Days |-> NoValue]
  /\ refresh' = [r \in Refreshers |-> Idle]
  /\ lagging' = "no"
  /\ UNCHANGED today

\* A refresh loads the asset and asks for its quote.  The batch leaves
\* archived and sold holdings out.
StartRefresh(r) ==
  /\ Bounded
  /\ asset.exists /\ ~refresh[r].busy
  /\ r = Batch => ~asset.archived /\ asset.sold = Never
  /\ refresh' = [refresh EXCEPT ![r] = [busy |-> TRUE, units |-> asset.units]]
  /\ UNCHANGED <<today, asset, ledger, values, lagging>>

\* The quote arrives: the price is cached, the value of the day written with
\* the quantity the session loaded.
EndRefresh(r, price) ==
  /\ refresh[r].busy
  /\ asset' = [asset EXCEPT !.price = price]
  /\ values' = Stored(refresh[r].units, price)
  /\ lagging' = IF refresh[r].units = 0 THEN "price"
                ELSE IF refresh[r].units = asset.units THEN "no" ELSE "amount"
  /\ refresh' = [refresh EXCEPT ![r] = Idle]
  /\ UNCHANGED <<today, ledger, edits>>

\* The provider fails or refuses: nothing is written.
FailRefresh(r) ==
  /\ refresh[r].busy
  /\ refresh' = [refresh EXCEPT ![r] = Idle]
  /\ UNCHANGED <<today, asset, ledger, values, lagging, edits>>

Tick ==
  /\ today < MaxDay
  /\ today' = today + 1
  /\ UNCHANGED <<asset, ledger, values, refresh, lagging, edits>>

Next ==
  \/ \E p \in Prices, q \in Quantities, d \in Days : Open(p, q, d)
  \/ \E t \in Trades : AddTrade(t)
  \/ \E i \in DOMAIN ledger, t \in Trades : UpdateTrade(i, t)
  \/ \E i \in DOMAIN ledger : DeleteTrade(i)
  \/ \E u \in Quantities \cup {asset.units} : SaveForm(u)
  \/ \E flag \in BOOLEAN : Archive(flag)
  \/ Delete
  \/ \E r \in Refreshers : StartRefresh(r)
  \/ \E r \in Refreshers, p \in Prices : EndRefresh(r, p)
  \/ \E r \in Refreshers : FailRefresh(r)
  \/ Tick

Spec == Init /\ [][Next]_vars

-----------------------------------------------------------------------------
(* The three figures. *)

LatestDay == Max({d \in Days : values[d].price # 0})

\* _compute_current_value.
Current == asset.units * asset.price

\* _rollup: the amount of the latest stored value.
Wallet == IF \A d \in Days : values[d].price = 0 THEN 0
          ELSE values[LatestDay].amount

\* build_market_value_series filled forward to today: net quantity of the
\* trades made so far, never below zero, at the latest stored price.
Signed(t) == IF t.kind = "buy" THEN t.qty ELSE 0 - t.qty

SignedQuantity ==
  MapThenSumSet(LAMBDA i : Signed(ledger[i]), {i \in DOMAIN ledger : ledger[i].day <= today})

NetWorth ==
  IF \A d \in Days : values[d].price = 0 THEN 0
  ELSE IF ledger = <<>> THEN Wallet
  ELSE Max({SignedQuantity, 0}) * values[LatestDay].price

Counted == asset.exists /\ ~asset.archived /\ asset.sold = Never

-----------------------------------------------------------------------------
(* Properties. *)

(* Every variable keeps its type; no trade has quantity zero.              *)
TypeOK ==
  /\ today \in Days
  /\ asset \in [exists : BOOLEAN, units : Nat, price : Prices \cup {0},
                sold : Days \cup {Never}, archived : BOOLEAN,
                cost : BOOLEAN, typed : BOOLEAN]
  /\ ledger \in Seq(Trades) /\ Len(ledger) <= MaxTrades + 1
  /\ \A d \in Days : values[d].amount \in Nat /\ values[d].price \in Prices \cup {0}
  /\ refresh \in [Refreshers -> [busy : BOOLEAN, units : Nat]]
  /\ lagging \in {"no", "amount", "price"}
  /\ edits \in 0 .. MaxEdits

(* For a holding that counts, whose quantity comes from a ledger that      *)
(* never goes short and has no trade in the future, the dashboard's net    *)
(* worth equals the figure of the holdings list, also when refreshes that   *)
(* overlapped a trade wrote the value of an old quantity.  (One that had    *)
(* read no units stores no value and leaves the stored price behind.)       *)
NetWorthAgrees ==
  Counted /\ ledger # <<>> /\ ~asset.typed /\ ~Oversold(ledger)
  /\ (\A t \in ToSet(ledger) : t.day <= today) /\ lagging # "price"
    => NetWorth = Current

(* The wallet header shows the figure of the holdings list for a holding   *)
(* with a position, unless the last write was that of a refresh which had  *)
(* read the quantity before a trade changed it.                            *)
WalletAgrees ==
  Counted /\ asset.units > 0 /\ lagging = "no" => Wallet = Current

(* Only the deletion of a trade can make a ledger sell more than is held   *)
(* on some day: recording and editing one cannot, backdated or not.        *)
ShortByDeletion == Oversold(ledger') => Oversold(ledger) \/ Len(ledger') < Len(ledger)

NoNewShort == [][ShortByDeletion]_vars

(* models/asset.py: for ledger-backed holdings purchase_price caches the   *)
(* total cost basis of the units held.  Saving the form clears it.         *)
CostBasisKnown ==
  asset.exists /\ ledger # <<>> /\ asset.units > 0 => asset.cost

(* asset_transaction_service._detect_oversell: "a position can't go        *)
(* negative (no shorting)".  Deleting a buy that a later sell needs does.  *)
NeverShort == ~Oversold(ledger)

=============================================================================
