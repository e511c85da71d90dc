---------------------------- MODULE MCStatements ----------------------------
(* A small instance of Statements: the objects are interchangeable.        *)
EXTENDS Statements, TLC

Symmetry == Permutations(Stmts)
=============================================================================
