----------------------------- MODULE MCLifetimes -----------------------------
(* Two Databases and two Transactions are interchangeable in the instance.   *)
EXTENDS Lifetimes, TLC

Symmetry == Permutations(Dbs) \union Permutations(Trs)

==============================================================================
