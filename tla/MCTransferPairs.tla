---------------------------- MODULE MCTransferPairs ----------------------------
(***************************************************************************)
(* Small instances of TransferPairs.                                       *)
(***************************************************************************)
EXTENDS TransferPairs, TLC

Symmetry == Permutations(Rows) \cup Permutations(Pairs) \cup Permutations(Accounts)
            \cup Permutations(Sessions)
=============================================================================
