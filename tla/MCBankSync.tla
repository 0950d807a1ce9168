------------------------------ MODULE MCBankSync ----------------------------
(***************************************************************************)
(* Instances of BankSync: a checking and a savings account, a payment      *)
(* from the one to the other, and a second report of it; the hourly task   *)
(* and the button.                                                         *)
(***************************************************************************)
EXTENDS BankSync

CONSTANTS s1, s2, a1, a2, out, again,
          MaxListed   \* bound: charges the bank has listed while two syncs run

Payment == [c \in Charges |-> IF c \in {out, again} THEN a1 ELSE a2]
Signed == [c \in Charges |-> IF c \in {out, again} THEN -10 ELSE 10]
Held == [a \in Accounts |-> 30]
InOrder == [a \in Accounts |-> IF a = a1 THEN a2 ELSE NoAccount]

(* Bound: two syncs at once meet no failure besides.                        *)
Together == Cardinality(Busy) > 1 => Cardinality(bank.listed) <= MaxListed /\ faults = 1
SmallNext == Next /\ Together'
SmallSpec == Init /\ [][SmallNext]_vars /\ Fairness
=============================================================================
