------------------------------- MODULE MCBlobs -------------------------------
(* A small instance of Blobs: the objects are interchangeable.             *)
EXTENDS Blobs, TLC

Symmetry == Permutations(Objs)
=============================================================================
