----------------------------- MODULE MCServices -----------------------------
(* A small instance of Services.                                            *)
EXTENDS Services
=============================================================================
