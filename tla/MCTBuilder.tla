----------------------------- MODULE MCTBuilder -----------------------------
(* A small instance of TBuilder: a short of 4 bits, an int of 5.           *)
EXTENDS TBuilder

MCTimeouts == {-2, -1, 0, 1, 7, 8}
MCNumbers == {0, 1, 15, 16, 33}
=============================================================================
