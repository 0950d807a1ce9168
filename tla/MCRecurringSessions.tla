------------------------ MODULE MCRecurringSessions ------------------------
(***************************************************************************)
(* Small instances of RecurringSessions.                                   *)
(***************************************************************************)
EXTENDS RecurringSessions, TLC

CONSTANTS b1   \* the bill the charges pay

\* Every charge pays the first occurrence of b1.
PaysFirst == [c \in Charges |-> [bill |-> b1, occ |-> 1]]

RowSymmetry == Permutations(Rows)
=============================================================================
