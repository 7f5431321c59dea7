---------------------------- MODULE MCTransaction ----------------------------
(* TLC instances of Transaction: pooled connections and write identities are *)
(* interchangeable, and the runs that check only state predicates say so.    *)
EXTENDS Transaction, TLC

Symmetry == Permutations(Connections) \cup Permutations(Writes)
=============================================================================
