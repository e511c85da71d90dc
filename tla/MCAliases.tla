----------------------------- MODULE MCAliases -----------------------------
(* A small instance of Aliases: three suffixes, and names that are equal,  *)
(* empty, numeric, or look like the key of another column.                 *)
EXTENDS Aliases

MCNames == {<< >>, <<"A">>, <<"A", 1>>, <<"FIE">>, <<"1">>}
MCNumeric == {<<"1">>}
=============================================================================
