----------------------------- MODULE Instalments -----------------------------
(***************************************************************************)
(* A purchase in instalments: one request writes all of them, a month      *)
(* apart, the last one taking what rounding leaves, and files each under   *)
(* the card's bill it falls into.  Amounts are in cents.                   *)
(***************************************************************************)
EXTENDS CardCycle, Sequences, Functions

CONSTANTS
    Totals,      \* total amounts
    Counts,      \* how many instalments
    Purchases,   \* days of purchase
    Cards,       \* cycle days of the account: close and due, NoDay for no card
    Overrides,   \* bills the user names, NoDay for none
    Today

(* What the constants must be; the modules of the runs assume it.           *)
InstalmentsAssumption ==
    /\ Totals \subseteq Nat \ {0} /\ Counts \subseteq 2..60 /\ Today \in Nat
    /\ Purchases \subseteq Nat \ {0} /\ Overrides \subseteq Nat
    /\ \A c \in Cards : c.close \in 0..31 /\ c.due \in 0..31

VARIABLES
    plan,    \* what was asked for
    parts    \* its rows

vars == <<plan, parts>>

NoPlan == [total |-> 0, n |-> 0, bought |-> 0, card |-> [close |-> NoDay, due |-> NoDay],
           override |-> NoDay]

Init == plan = NoPlan /\ parts = <<>>
-----------------------------------------------------------------------------
(* quantize(Decimal("0.01")): half to even.                                 *)
RoundHalfEven(total, n) ==
    LET q == total \div n
        r == total % n
    IN  IF 2 * r > n \/ (2 * r = n /\ q % 2 = 1) THEN q + 1 ELSE q

AmountOf(total, n, i) ==
    LET parcela == RoundHalfEven(total, n)
    IN  IF i = n THEN total - parcela * (n - 1) ELSE parcela

DayOfMonth(d) == d - MonthStart(MonthOf(d)) + 1

AddMonthsSameYear(d, k) ==                          \* fault: the year is not carried
    ClampDay((12 * (MonthOf(d) \div 12)) + ((MonthOf(d) + k) % 12), DayOfMonth(d))

(* _add_months, always from the day of the purchase.                        *)
AddMonths(d, k) == ClampDay(MonthOf(d) + k, DayOfMonth(d))

(* apply_effective_date, the card's override first.                         *)
EffectiveDate(p, date) ==
    IF p.override # NoDay THEN p.override
    ELSE ComputeEffectiveDate(date, p.card.close, p.card.due)

(* _derive_status                                                           *)
Status(effective) == IF effective > Today THEN "scheduled" ELSE "posted"

Part(p, i) ==
    LET date == AddMonths(p.bought, i - 1)
        effective == EffectiveDate(p, date)
    IN  [amount |-> AmountOf(p.total, p.n, i), date |-> date, effective |-> effective,
         status |-> Status(effective)]

(* create_installment_plan; only a card has an override.                    *)
Create(total, n, bought, card, override) ==
    LET p == [total |-> total, n |-> n, bought |-> bought, card |-> card,
              override |-> override]
    IN
    /\ parts = <<>>
    /\ card.close = NoDay => override = NoDay
    /\ plan' = p
    /\ parts' = [i \in 1..n |-> Part(p, i)]

Next ==
    \E total \in Totals, n \in Counts, bought \in Purchases, card \in Cards,
       override \in Overrides : Create(total, n, bought, card, override)

Spec == Init /\ [][Next]_vars
-----------------------------------------------------------------------------
TypeOK ==
    /\ Len(parts) = plan.n
    /\ \A i \in 1..Len(parts) :
         /\ parts[i].amount \in Int /\ parts[i].date \in Nat /\ parts[i].effective \in Nat
         /\ parts[i].status \in {"scheduled", "posted"}

SumOf(s) == SumFunction([i \in 1..Len(s) |-> s[i].amount])

(* The instalments add up to the total to the cent, and the last differs    *)
(* from the others by no more than half a cent for each.                    *)
PartsAddUp == SumOf(parts) = plan.total

PartsAreEven == \A i, j \in 1..Len(parts) :
    2 * (parts[i].amount - parts[j].amount) \in -plan.n .. plan.n

(* Later instalments are on later days, and never on an earlier bill.       *)
BillsInOrder == \A i \in 1..Len(parts) - 1 :
    /\ parts[i].date < parts[i + 1].date
    /\ parts[i].effective <= parts[i + 1].effective
    /\ parts[i].status = "scheduled" => parts[i + 1].status = "scheduled"

(* Not so for a few cents in many instalments: the last is below zero.      *)
PartsArePositive == \A i \in 1..Len(parts) : parts[i].amount >= 0

(* Not so for a card that closes on the 31st: what was bought on the 30th   *)
(* skips the bill of February and is twice on that of March.                *)
OnePerBill == plan.override = NoDay =>
    \A i \in 1..Len(parts) - 1 : parts[i].effective < parts[i + 1].effective
=============================================================================
