----------------------------- MODULE MCNumerics -----------------------------
(* Small instances of Numerics: a word of 8 or 11 bits, and a column whose *)
(* greatest value is 99, or half the word as for a 64-bit column.          *)
EXTENDS Numerics

MCScales == {-2, -1}
MCInts == {-129, -128, -101, -100, -99, -5, 0, 1, 99, 100, 127, 128}
=============================================================================
