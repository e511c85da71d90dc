------------------------------- MODULE Aliases -------------------------------
(***************************************************************************)
(* The keys of a row fetched as an associative array: insert_alias gives   *)
(* each column of a statement a key, its name or, if that is taken, its    *)
(* name with a suffix _01, _02, ...                                        *)
(*                                                                         *)
(* A name is a sequence: what it begins with, then the numbers of its      *)
(* suffixes.  The name of a column may have suffixes too.                  *)
(***************************************************************************)
EXTENDS Integers, Sequences, FiniteSets

CONSTANTS
  Names,    \* names of columns; << >> is the empty one
  Numeric,  \* those that read as an integer
  Limit,    \* suffixes below it have two digits, 100
  MayMiss,  \* the build reads the value behind a key that was found
  MaxCols   \* bound: columns of a statement

ASSUME LimitAssumption ==
  /\ Limit \in Nat \ {0} /\ MaxCols \in Nat
  /\ Numeric \subseteq Names /\ MayMiss \in BOOLEAN
ASSUME NamesAssumption ==
  \A name \in Names : Len(name) \in Nat /\ name = [i \in 1..Len(name) |-> name[i]]

VARIABLES
  cols,  \* the names of the columns so far
  keys,  \* ht_aliases: their keys, in order
  hung   \* insert_alias does not return

aliasVars == <<cols, keys, hung>>

\* The suffixes that give a name of its own: from the limit on a third digit is
\* cut off, and earlier names come again.
Suffixes == 1..(Limit - 1)

\* Three characters are kept of FIELD_00, whatever its number is.
Cut == <<"FIE">>

Keys == (Names \ {<< >>}) \union {Cut}
          \union {Append(name, n) : name \in Names \ {<< >>}, n \in Suffixes}

Used == {keys[i] : i \in DOMAIN keys}

AliasTypeOK ==
  /\ cols \in Seq(Names) /\ keys \in Seq(Keys) /\ hung \in BOOLEAN
  /\ Len(keys) = Len(cols) /\ Len(cols) <= MaxCols

AliasInit == cols = << >> /\ keys = << >> /\ hung = FALSE

\* The table is searched for a number if the name is one, and holds only
\* strings.  What is found is a zval whose value was never written: whether it
\* reads as null, which means not found, is up to the build.
Find(k) ==
  IF k \in Used /\ k \notin Numeric
  THEN IF MayMiss THEN BOOLEAN ELSE {TRUE}
  ELSE {FALSE}

Insert(name, key) ==
  /\ cols' = Append(cols, name) /\ keys' = Append(keys, key)
  /\ UNCHANGED hung

Hang == hung' = TRUE /\ UNCHANGED <<cols, keys>>

EmptyName ==
  /\ << >> \in Names /\ ~hung /\ Len(cols) < MaxCols
  /\ \/ FALSE \in Find(Cut) /\ Insert(<< >>, Cut)
     \/ TRUE \in Find(Cut) /\ Hang

\* Mutant: the suffix is not compared with the keys there are.
OtherNameOnce(name) ==
  /\ name \in Names \ {<< >>} /\ ~hung /\ Len(cols) < MaxCols
  /\ IF FALSE \in Find(name) THEN Insert(name, name)
     ELSE Insert(name, Append(name, 1))

\* Mutant: no number is used up.
OtherNameHangs(name) ==
  /\ name \in Names \ {<< >>} /\ ~hung /\ Len(cols) < MaxCols
  /\ \/ FALSE \in Find(name) /\ Insert(name, name)
     \/ TRUE \in Find(name) /\
          (IF FALSE \in Find(Append(name, 1)) THEN Insert(name, Append(name, 1)) ELSE Hang)

\* The first name that is not found, in the order of the suffixes; if all are,
\* the search goes round for ever.
OtherName(name) ==
  /\ name \in Names \ {<< >>} /\ ~hung /\ Len(cols) < MaxCols
  /\ \/ FALSE \in Find(name) /\ Insert(name, name)
     \/ /\ TRUE \in Find(name)
        /\ \/ \E n \in Suffixes :
                /\ FALSE \in Find(Append(name, n))
                /\ \A m \in 1..(n - 1) : TRUE \in Find(Append(name, m))
                /\ Insert(name, Append(name, n))
           \/ (\A n \in Suffixes : TRUE \in Find(Append(name, n))) /\ Hang

\* The statement is freed; a request that hangs is ended by its time limit.
Free == cols' = << >> /\ keys' = << >> /\ hung' = FALSE

AliasNext ==
  \/ EmptyName \/ Free
  \/ \E name \in Names : OtherName(name)

AliasSpec == AliasInit /\ [][AliasNext]_aliasVars

-----------------------------------------------------------------------------
(* Properties.                                                             *)

\* No two columns have the same key, so that no value of a row hides another,
\* unless the key is a number.
KeysDistinct ==
  \A i, j \in DOMAIN keys : keys[i] = keys[j] => i = j \/ keys[i] \in Numeric

\* The search ends, but for two kinds of statements: those with an empty name
\* and something that already has its key, and those with at least as many
\* columns as there are suffixes, and one.
HangsNeedNames ==
  hung => \/ << >> \in Names /\ Cut \in Used
          \/ Cardinality(Used) >= Limit
=============================================================================
