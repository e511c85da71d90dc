--------------------------- MODULE MCTransactions ---------------------------
(* A small instance of Transactions.  The objects are not a symmetry set:  *)
(* ActiveEnds is a liveness property.                                      *)
EXTENDS Transactions
=============================================================================
