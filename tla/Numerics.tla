------------------------------ MODULE Numerics ------------------------------
(***************************************************************************)
(* A NUMERIC or DECIMAL column kept as an integer of 16, 32 or 64 bits: a  *)
(* PHP string is parsed into it by fbu_string_to_numeric when an argument  *)
(* is bound, and turned into a string again by var_zval when it is         *)
(* fetched.                                                                *)
(*                                                                         *)
(* The characters of the string are what the environment chooses, one      *)
(* after the other.  `exact` is not in the code: it does what r does, in   *)
(* integers without a width.                                               *)
(***************************************************************************)
EXTENDS Integers

CONSTANTS
  Word,     \* 2^64, the values of a uint64_t
  ColMax,   \* the greatest value of the column's type
  Scales,   \* the scales of columns, negative
  Ints,     \* the PHP integers that scripts bind
  MaxLen    \* bound: digits in the string

ASSUME SizesAssumption ==
  /\ Word \in Nat /\ Word > 0 /\ Word % 2 = 0
  /\ ColMax \in Nat /\ 2 * (ColMax + 1) <= Word
  /\ Scales \subseteq Int /\ Ints \subseteq Int /\ MaxLen \in Nat
\* The columns that are parsed and formatted this way have digits after the
\* point, and as many powers of ten.
ASSUME ScalesAssumption == \A c \in Scales : c < 0 /\ 10^(-c) \in Nat \ {0}

VARIABLES
  status,    \* where the parser is, or how it ended
  sign,      \* 0 for the empty string
  max,       \* the greatest absolute value, one more if negative
  r,         \* *res
  scale,     \* digits still missing after the point, negated
  fraction,  \* a point was seen
  digits,    \* number of digits seen
  exact,     \* the number seen so far, as r should have it
  col,       \* the scale of the column
  text       \* what a fetch of the bound value returns

vars == <<status, sign, max, r, scale, fraction, digits, exact, col, text>>

NoText == [neg |-> FALSE, int |-> 0, frac |-> 0]

Ended == {"ok", "error", "overflow", "fetched"}

TypeOK ==
  /\ status \in {"new", "digits", "scaling"} \union Ended
  /\ sign \in {-1, 0, 1}
  /\ max \in {ColMax, ColMax + 1}
  /\ r \in 0..(Word - 1)
  /\ scale \in Int /\ col \in Scales
  /\ fraction \in BOOLEAN
  /\ digits \in 0..MaxLen
  /\ exact \in Nat

Init ==
  /\ status = "new" /\ sign = 0 /\ max = ColMax /\ r = 0
  /\ col \in Scales /\ scale = col
  /\ fraction = FALSE /\ digits = 0 /\ exact = 0 /\ text = NoText

-----------------------------------------------------------------------------
(* Parsing.                                                                *)

\* The empty string is accepted, as zero.
Empty ==
  /\ status = "new" /\ status' = "ok"
  /\ UNCHANGED <<sign, max, r, scale, fraction, digits, exact, col, text>>

\* A leading minus, a leading plus, or none.
Sign(s) ==
  /\ status = "new" /\ status' = "digits"
  /\ sign' = s
  /\ max' = IF s = -1 THEN max + 1 ELSE max
  /\ UNCHANGED <<r, scale, fraction, digits, exact, col, text>>

\* Mutant: r is compared before the digit is added.
AccumulateLate(x, next) ==
  /\ r' = x % Word
  /\ status' = IF r > max THEN "overflow" ELSE next

\* r is computed modulo 2^64 and compared with max afterwards.
Accumulate(x, next) ==
  /\ r' = x % Word
  /\ status' = IF r' > max THEN "overflow" ELSE next

Digit(d) ==
  /\ status = "digits" /\ digits < MaxLen
  /\ Accumulate(r * 10 + d, "digits")
  /\ exact' = exact * 10 + d
  /\ digits' = digits + 1
  /\ scale' = IF fraction THEN scale + 1 ELSE scale
  /\ UNCHANGED <<sign, max, fraction, col, text>>

Point ==
  /\ status = "digits"
  /\ status' = IF fraction THEN "error" ELSE "digits"
  /\ fraction' = TRUE
  /\ UNCHANGED <<sign, max, r, scale, digits, exact, col, text>>

Other ==
  /\ status = "digits" /\ status' = "error"
  /\ UNCHANGED <<sign, max, r, scale, fraction, digits, exact, col, text>>

EndOfString ==
  /\ status = "digits" /\ status' = "scaling"
  /\ UNCHANGED <<sign, max, r, scale, fraction, digits, exact, col, text>>

\* The digits that were not given after the point are zeros.
Scale ==
  /\ status = "scaling" /\ scale < 0
  /\ Accumulate(r * 10, "scaling")
  /\ exact' = exact * 10
  /\ scale' = scale + 1
  /\ UNCHANGED <<sign, max, fraction, digits, col, text>>

Accept ==
  /\ status = "scaling" /\ scale >= 0
  /\ status' = "ok"
  /\ UNCHANGED <<sign, max, r, scale, fraction, digits, exact, col, text>>

-----------------------------------------------------------------------------
(* Binding the result and fetching it.                                     *)

\* A PHP integer is compared with the limits and stored as it is.
Integer(v) ==
  /\ status = "new"
  /\ sign' = IF v < 0 THEN -1 ELSE 1
  /\ max' = IF v < 0 THEN max + 1 ELSE max
  /\ exact' = IF v < 0 THEN -v ELSE v
  /\ IF exact' > max' THEN status' = "overflow" /\ UNCHANGED r
     ELSE status' = "ok" /\ r' = exact'
  /\ UNCHANGED <<scale, fraction, digits, col, text>>

\* An integer as a 64-bit signed one.
Signed(x) == ((x + (Word \div 2)) % Word) - (Word \div 2)

\* bind(): the value that is stored.
long_val == Signed(IF sign < 0 THEN -r ELSE r)

\* C's division, for f > 0: towards zero, the remainder with the sign of x.
Quot(x, f) == IF x >= 0 THEN x \div f ELSE -((-x) \div f)
Rem(x, f)  == x - f * Quot(x, f)

\* Mutant: the integer part alone carries the sign.
FormatWithoutMinus(v, f) ==
  IF v >= 0 THEN [neg |-> FALSE, int |-> Quot(v, f), frac |-> Rem(v, f)]
  ELSE [neg |-> Quot(v, f) < 0, int |-> -Quot(v, f), frac |-> Rem(Signed(-v), f)]

\* var_zval: the sign of what is printed, and the digits before and after the
\* point.  f is 10 to the number of the latter.
Format(v, f) ==
  IF v >= 0 THEN [neg |-> FALSE, int |-> Quot(v, f), frac |-> Rem(v, f)]
  ELSE IF v <= -f THEN [neg |-> TRUE, int |-> -Quot(v, f), frac |-> Rem(Signed(-v), f)]
  ELSE [neg |-> TRUE, int |-> 0, frac |-> Rem(Signed(-v), f)]

Fetch ==
  /\ status = "ok" /\ status' = "fetched"
  /\ text' = Format(long_val, 10^(-col))
  /\ UNCHANGED <<sign, max, r, scale, fraction, digits, exact, col>>

\* The next argument.
Again ==
  /\ status \in Ended
  /\ status' = "new" /\ sign' = 0 /\ max' = ColMax /\ r' = 0
  /\ col' \in Scales /\ scale' = col'
  /\ fraction' = FALSE /\ digits' = 0 /\ exact' = 0 /\ text' = NoText

Next ==
  \/ Empty \/ Point \/ Other \/ EndOfString \/ Scale \/ Accept \/ Fetch \/ Again
  \/ \E s \in {-1, 1} : Sign(s)
  \/ \E d \in 0..9 : Digit(d)
  \/ \E v \in Ints : Integer(v)

Spec == Init /\ [][Next]_vars

-----------------------------------------------------------------------------
(* Properties.                                                             *)

\* The number seen is representable, or the parser says that it is not: what
\* it accepts has not wrapped around, and what it refuses is too large.  Both
\* the error text of bind() and its check of integers promise this.
InRange ==
  /\ status \in {"ok", "fetched"} => r = exact /\ r <= max
  /\ status = "overflow" => exact > max

\* That holds for a column whose type leaves room for one more digit in a
\* word, as 16 and 32 bits do.
NarrowInRange == 10 * (ColMax + 1) + 10 <= Word => InRange

\* A value that is bound and fetched again reads as it was accepted, with its
\* sign and its leading zeros after the point.  The least value of a word is
\* the exception: it has no negative in its type.
ReadsBack ==
  status = "fetched" /\ 2 * r < Word =>
    /\ 0 <= text.frac /\ text.frac < 10^(-col) /\ 0 <= text.int
    /\ (IF text.neg THEN -1 ELSE 1) * (text.int * 10^(-col) + text.frac)
         = (IF sign < 0 THEN -r ELSE r)

\* A string that fbu_string_to_numeric accepted has been brought to the scale
\* of the column: the number that was given, with scale - col digits after the
\* point, is the number that a fetch of it reads, with -col digits after it.
ParsedIsScaled ==
  status = "fetched" /\ digits > 0 =>
    (IF text.neg THEN -1 ELSE 1) * (text.int * 10^(-col) + text.frac) * 10^(scale - col)
      = (IF sign < 0 THEN -1 ELSE 1) * exact * 10^(-col)
=============================================================================
