------------------------------- MODULE Matching -------------------------------
(***************************************************************************)
(* What transfer pairs promise: at any time the transfers are disjoint     *)
(* couples of rows, and a step joins rows that were free or separates      *)
(* couples; it never moves a leg from one couple to another.               *)
(***************************************************************************)
EXTENDS FiniteSets

CONSTANTS Rows   \* identities of rows

VARIABLES couples   \* the transfers, each the set of its two legs

Legs(M) == UNION M

IsMatching(M) == /\ \A pair \in M : pair \subseteq Rows /\ Cardinality(pair) = 2
                 /\ \A p, q \in M : p # q => p \cap q = {}

Init == couples = {}

Join == \E new \in SUBSET (SUBSET (Rows \ Legs(couples))) :
           /\ couples' = couples \cup new
           /\ IsMatching(couples')

Separate == \E old \in SUBSET couples : couples' = couples \ old

Next == Join \/ Separate

Spec == Init /\ [][Next]_couples
=============================================================================
