---------------------------- MODULE MCSharedLedger ----------------------------
(***************************************************************************)
(* SharedLedger with its transactions called entries, so that it may stand *)
(* beside other components in one module, and a small instance of it: the  *)
(* owner, a friend and whoever has no account, in a group of up to three.  *)
(***************************************************************************)
EXTENDS TLC

CONSTANTS Users, Owner, Nobody, Members, Entries, Settlements, Amounts, Payments, Percents, MaxEdits

VARIABLES member, entry, share, settled, cash, open, drifted, edits

L == INSTANCE SharedLedger WITH Rows <- Entries, row <- entry

ASSUME GroupAssumption == L!UsersAssumption /\ L!AmountsAssumption

GroupSpec == L!Spec

\* Every variable has its type, and whom a split names is in the group.
GroupTypeOK == L!TypeOK

\* Splits cover their rows to the last cent.
SharesCover == L!SharesCover

\* The views of spending and of debts count each share once.
MoneyAddsUp == L!MoneyAddsUp

Symmetry == Permutations(Members)
=============================================================================
