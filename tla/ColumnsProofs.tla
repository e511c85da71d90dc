--------------------------- MODULE ColumnsProofs ---------------------------
(***************************************************************************)
(* Proofs about what a statement does with its columns, for every value of *)
(* the constants: modules Numerics and Aliases, whose states are apart.    *)
(*                                                                         *)
(* The parser of a numeric column keeps its types, never wraps around when *)
(* the type of the column leaves room for one more digit in a word, and    *)
(* what it accepted reads back as it was.  The keys of a row are distinct  *)
(* in a build that takes what it found as found.                           *)
(***************************************************************************)
EXTENDS Numerics, Aliases, FunctionTheorems, FiniteSetTheorems,
        SequenceTheorems, TLAPS

-----------------------------------------------------------------------------
(* Numeric columns.                                                        *)

\* What the loops keep: r is exact until the parser reports an overflow.
Exact ==
  10 * (ColMax + 1) + 10 <= Word =>
    IF status = "overflow" THEN exact > max ELSE r = exact /\ r <= max

\* The limit is the column's until a sign is read.
Unsigned == status = "new" => max = ColMax

NumericInv == TypeOK /\ Exact /\ Unsigned

\* What the assumption on the constants gives the steps below.
LEMMA Sizes ==
  /\ 0 \in 0..(Word - 1) /\ 0 \in 0..MaxLen
  /\ ColMax \in Nat /\ ColMax + 1 \in Nat /\ ColMax + 1 < Word
  /\ Word \in Nat /\ Scales \subseteq Int
<1>1. Word \in Nat /\ Word > 0 /\ ColMax \in Nat /\ MaxLen \in Nat /\ Scales \subseteq Int
      /\ 2 * (ColMax + 1) <= Word
  BY SizesAssumption
<1> QED
  BY <1>1

\* A parser that starts afresh has the invariant.
LEMMA FreshInv ==
  ASSUME NEW c \in Scales, status = "new", max = ColMax, r = 0, sign = 0,
         col = c, scale = c, fraction = FALSE, digits = 0, exact = 0
  PROVE  NumericInv
<1>1. TypeOK
  <2>1. c \in Int
    BY Sizes
  <2> QED
    BY <2>1, Sizes DEF TypeOK
<1>2. Exact
  <2>1. r = exact /\ r <= max
    BY Sizes
  <2> QED
    BY <2>1 DEF Exact
<1>3. Unsigned
  BY DEF Unsigned
<1> QED
  BY <1>1, <1>2, <1>3 DEF NumericInv

\* The parser starts with the invariant.
LEMMA NumericInit == Init => NumericInv
  BY FreshInv DEF Init

\* One more digit, given or implied, keeps r in the word; and exact as well
\* if the word has room for it.
LEMMA AccumulateStep ==
  ASSUME NumericInv, NEW x \in Nat, NEW y \in Nat, NEW next \in {"digits", "scaling"},
         status \in {"digits", "scaling"},
         Accumulate(x, next), max' = max, exact' = y,
         \E d \in 0..9 : x = r * 10 + d /\ y = exact * 10 + d
  PROVE  /\ r' \in 0..(Word - 1) /\ exact' \in Nat
         /\ status' \in {next, "overflow"}
         /\ Exact'
<1>1. PICK d \in 0..9 : x = r * 10 + d /\ y = exact * 10 + d
  OBVIOUS
<1>2. Word \in Nat /\ Word > 0 /\ ColMax \in Nat
  BY SizesAssumption
<1>3. r' = x % Word /\ r' \in 0..(Word - 1)
  BY <1>2 DEF Accumulate
<1>4. status' = IF r' > max THEN "overflow" ELSE next
  BY DEF Accumulate
<1>5. ASSUME 10 * (ColMax + 1) + 10 <= Word
      PROVE  IF status' = "overflow" THEN exact' > max' ELSE r' = exact' /\ r' <= max'
  <2>1. r = exact /\ r <= max /\ max <= ColMax + 1 /\ max \in Nat /\ r \in Nat
    BY <1>2, <1>5 DEF NumericInv, TypeOK, Exact
  <2>2. x = y /\ x < Word
    BY <1>1, <1>2, <1>5, <2>1
  <2>3. r' = x
    BY <1>2, <1>3, <2>2
  <2> QED
    BY <1>4, <2>1, <2>2, <2>3
<1> QED
  BY <1>3, <1>4, <1>5 DEF Exact

\* Every step of the parser keeps the invariant.
LEMMA NumericStep == NumericInv /\ [Next]_vars => NumericInv'
<1> SUFFICES ASSUME NumericInv, [Next]_vars PROVE NumericInv'
  OBVIOUS
<1> USE SizesAssumption
<1>1. CASE Empty
  BY <1>1 DEF Empty, NumericInv, TypeOK, Exact, Unsigned, Ended
<1>2. ASSUME NEW s \in {-1, 1}, Sign(s) PROVE NumericInv'
  <2>1. max' \in {ColMax, ColMax + 1} /\ max <= max' /\ max \in Nat /\ max' \in Nat
    BY <1>2, Sizes DEF Sign, NumericInv, TypeOK, Unsigned
  <2>2. TypeOK'
    BY <1>2, <2>1 DEF Sign, NumericInv, TypeOK
  <2>3. Exact'
    <3>1. status' = "digits" /\ status = "new" /\ r' = r /\ exact' = exact
      BY <1>2 DEF Sign
    <3>2. r \in Nat
      BY Sizes DEF NumericInv, TypeOK
    <3> QED
      BY <2>1, <3>1, <3>2 DEF NumericInv, Exact
  <2>4. Unsigned'
    BY <1>2 DEF Sign, Unsigned
  <2> QED
    BY <2>2, <2>3, <2>4 DEF NumericInv
<1>3. ASSUME NEW d \in 0..9, Digit(d) PROVE NumericInv'
  <2>1. r * 10 + d \in Nat /\ exact * 10 + d \in Nat
    BY DEF NumericInv, TypeOK
  <2>2. /\ r' \in 0..(Word - 1) /\ exact' \in Nat
        /\ status' \in {"digits", "overflow"} /\ Exact'
    BY <1>3, <2>1, AccumulateStep DEF Digit
  <2>3. TypeOK'
    BY <1>3, <2>2 DEF Digit, NumericInv, TypeOK, Ended
  <2>4. Unsigned'
    BY <2>2 DEF Unsigned
  <2> QED
    BY <2>2, <2>3, <2>4 DEF NumericInv
<1>4. CASE Point
  BY <1>4 DEF Point, NumericInv, TypeOK, Exact, Unsigned, Ended
<1>5. CASE Other
  BY <1>5 DEF Other, NumericInv, TypeOK, Exact, Unsigned, Ended
<1>6. CASE EndOfString
  BY <1>6 DEF EndOfString, NumericInv, TypeOK, Exact, Unsigned, Ended
<1>7. CASE Scale
  <2>1. r * 10 \in Nat /\ exact * 10 \in Nat /\ r * 10 = r * 10 + 0
        /\ exact * 10 = exact * 10 + 0 /\ 0 \in 0..9
    BY DEF NumericInv, TypeOK
  <2>2. /\ r' \in 0..(Word - 1) /\ exact' \in Nat
        /\ status' \in {"scaling", "overflow"} /\ Exact'
    BY <1>7, <2>1, AccumulateStep DEF Scale
  <2>3. TypeOK'
    BY <1>7, <2>2 DEF Scale, NumericInv, TypeOK, Ended
  <2>4. Unsigned'
    BY <2>2 DEF Unsigned
  <2> QED
    BY <2>2, <2>3, <2>4 DEF NumericInv
<1>8. CASE Accept
  BY <1>8 DEF Accept, NumericInv, TypeOK, Exact, Unsigned, Ended
<1>9. CASE Fetch
  BY <1>9 DEF Fetch, NumericInv, TypeOK, Exact, Unsigned, Ended
<1>10. CASE Again
  <2>1. PICK c \in Scales : col' = c /\ scale' = c
    BY <1>10 DEF Again
  <2>2. TypeOK'
    <3>1. c \in Int
      BY Sizes
    <3> QED
      BY <1>10, <2>1, <3>1, Sizes DEF Again, TypeOK
  <2>3. Exact'
    <3>1. r' = exact' /\ r' <= max' /\ status' = "new"
      BY <1>10, Sizes DEF Again
    <3> QED
      BY <3>1 DEF Exact
  <2>4. Unsigned'
    BY <1>10 DEF Again, Unsigned
  <2> QED
    BY <2>2, <2>3, <2>4 DEF NumericInv
<1>11. ASSUME NEW v \in Ints, Integer(v) PROVE NumericInv'
  <2>1. v \in Int /\ exact' \in Nat
    BY <1>11 DEF Integer
  <2>2. max' \in {ColMax, ColMax + 1} /\ max' \in Nat
    BY <1>11, Sizes DEF Integer, NumericInv, TypeOK, Unsigned
  <2>3. CASE exact' > max'
    <3>1. status' = "overflow" /\ r' = r
      BY <1>11, <2>3 DEF Integer
    <3>2. TypeOK'
      BY <1>11, <2>1, <2>2, <3>1 DEF Integer, NumericInv, TypeOK, Ended
    <3> QED
      BY <2>3, <3>1, <3>2 DEF NumericInv, Exact, Unsigned
  <2>4. CASE exact' <= max'
    <3>1. status' = "ok" /\ r' = exact'
      BY <1>11, <2>1, <2>2, <2>4 DEF Integer
    <3>2. r' \in 0..(Word - 1)
      BY <2>1, <2>2, <2>4, <3>1, Sizes
    <3>3. TypeOK'
      BY <1>11, <2>1, <2>2, <3>1, <3>2 DEF Integer, NumericInv, TypeOK, Ended
    <3> QED
      BY <2>4, <3>1, <3>3 DEF NumericInv, Exact, Unsigned
  <2> QED
    BY <2>1, <2>2, <2>3, <2>4
<1>12. CASE UNCHANGED vars
  BY <1>12 DEF vars, NumericInv, TypeOK, Exact, Unsigned, Ended
<1> QED
  BY <1>1, <1>2, <1>3, <1>4, <1>5, <1>6, <1>7, <1>8, <1>9, <1>10, <1>11, <1>12 DEF Next

\* The types of the parser's variables, r within a word in particular.
THEOREM NumericsTyped == Spec => []TypeOK
<1>1. NumericInv => TypeOK
  BY DEF NumericInv
<1> QED
  BY NumericInit, NumericStep, <1>1, PTL DEF Spec

\* What fbu_string_to_numeric accepts for a narrow column is the number that
\* was written, and what it calls an overflow is one.
THEOREM NarrowIsInRange == Spec => []NarrowInRange
<1>1. NumericInv => NarrowInRange
  BY DEF NumericInv, Exact, NarrowInRange, InRange
<1> QED
  BY NumericInit, NumericStep, <1>1, PTL DEF Spec

\* Division by a power of ten leaves a remainder below it.
LEMMA Division ==
  ASSUME NEW x \in Nat, NEW f \in Nat \ {0}
  PROVE  /\ x \div f \in Nat
         /\ 0 <= x - f * (x \div f) /\ x - f * (x \div f) < f
         /\ x < f => x \div f = 0
  OBVIOUS

\* A number whose double fits into a word is kept as it is.
LEMMA SignedSmall ==
  ASSUME NEW x \in Int, -Word <= 2 * x, 2 * x < Word
  PROVE  Signed(x) = x
<1>1. Word \in Nat /\ Word > 0 /\ Word % 2 = 0
  BY SizesAssumption
<1> DEFINE h == Word \div 2
<1>2. h \in Nat /\ Word = 2 * h
  BY <1>1
<1>3. x + h \in Int /\ 0 <= x + h /\ x + h < Word
  BY <1>2
<1> HIDE DEF h
<1>4. (x + h) % Word = x + h
  BY <1>1, <1>3
<1> QED
  BY <1>2, <1>4 DEF Signed, h

\* The text for v has the digits of the absolute value n of v and its sign.
LEMMA FormatReads ==
  ASSUME NEW n \in Nat, 2 * n < Word, NEW f \in Nat \ {0}, NEW v \in {n, -n}
  PROVE  LET t == Format(v, f)
         IN  /\ 0 <= t.frac /\ t.frac < f /\ 0 <= t.int
             /\ (IF t.neg THEN -1 ELSE 1) * (t.int * f + t.frac) = v
<1> DEFINE q == n \div f
           m == n - f * q
<1>1. q \in Nat /\ 0 <= m /\ m < f /\ m \in Int /\ (n < f => q = 0)
  BY Division
<1>2. n = q * f + m
  BY <1>1
<1>3. Word \in Nat
  BY SizesAssumption
<1>4. CASE v >= 0
  <2>1. v = n
    BY <1>4
  <2>2. Format(v, f) = [neg |-> FALSE, int |-> q, frac |-> m]
    BY <1>4, <2>1 DEF Format, Quot, Rem
  <2> HIDE DEF q, m
  <2> QED
    BY <1>1, <1>2, <2>1, <2>2
<1>5. CASE v < 0
  <2>1. v = -n /\ n > 0 /\ Signed(-v) = n /\ -v = n /\ ~(v >= 0)
    BY <1>3, <1>5, SignedSmall
  <2>2. Quot(v, f) = -q /\ Rem(Signed(-v), f) = m
    <3>1. n >= 0
      OBVIOUS
    <3> QED
      BY <2>1, <3>1 DEF Quot, Rem
  <2>3. -Quot(v, f) = q
    BY <1>1, <2>2
  <2> HIDE DEF q, m
  <2>4. CASE v <= -f
    <3>1. Format(v, f) = [neg |-> TRUE, int |-> q, frac |-> m]
      BY <2>1, <2>2, <2>3, <2>4 DEF Format
    <3>2. (-1) * (q * f + m) = v
      BY <1>1, <1>2, <2>1
    <3> QED
      BY <1>1, <3>1, <3>2
  <2>5. CASE ~(v <= -f)
    <3>1. Format(v, f) = [neg |-> TRUE, int |-> 0, frac |-> m]
      BY <2>1, <2>2, <2>5 DEF Format
    <3>2. q = 0 /\ m = n
      <4>1. n < f
        BY <2>1, <2>5
      <4> QED
        BY <1>1, <1>2, <4>1
    <3> QED
      BY <1>1, <2>1, <3>1, <3>2
  <2> QED
    BY <2>4, <2>5
<1> QED
  BY <1>4, <1>5

\* A fetch makes the text from what was bound.
LEMMA FetchReads ==
  ASSUME TypeOK, Fetch
  PROVE  ReadsBack'
<1> SUFFICES ASSUME 2 * r < Word
             PROVE  /\ 0 <= text'.frac /\ text'.frac < 10^(-col) /\ 0 <= text'.int
                    /\ (IF text'.neg THEN -1 ELSE 1) * (text'.int * 10^(-col) + text'.frac)
                         = (IF sign < 0 THEN -r ELSE r)
  BY DEF Fetch, ReadsBack
<1> DEFINE f == 10^(-col)
           v == IF sign < 0 THEN -r ELSE r
<1>1. f \in Nat \ {0}
  BY ScalesAssumption DEF TypeOK
<1>2. r \in Nat /\ v \in {r, -r} /\ Word \in Nat
  BY Sizes DEF TypeOK
<1> HIDE DEF f
<1>3. long_val = v
  BY <1>2, SignedSmall DEF long_val
<1> HIDE DEF v
<1>4. text' = Format(v, f)
  BY <1>3 DEF Fetch, f
<1>5. /\ 0 <= text'.frac /\ text'.frac < f /\ 0 <= text'.int
      /\ (IF text'.neg THEN -1 ELSE 1) * (text'.int * f + text'.frac) = v
  BY <1>1, <1>2, <1>4, FormatReads
<1> QED
  BY <1>5 DEF f, v

\* What was accepted for a column reads back as it was, with its sign and its
\* leading zeros, for every size of column and every scale.
THEOREM AcceptedReadsBack == Spec => []ReadsBack
<1>1. Init => ReadsBack
  BY DEF Init, ReadsBack
<1>2. TypeOK /\ ReadsBack /\ [Next]_vars => ReadsBack'
  <2> SUFFICES ASSUME TypeOK, ReadsBack, [Next]_vars PROVE ReadsBack'
    OBVIOUS
  <2>1. CASE Fetch
    BY <2>1, FetchReads
  <2>2. CASE UNCHANGED vars
    BY <2>2 DEF vars, ReadsBack
  <2>3. ASSUME \/ Empty \/ Point \/ Other \/ EndOfString \/ Scale \/ Accept \/ Again
               \/ \E s \in {-1, 1} : Sign(s)
               \/ \E d \in 0..9 : Digit(d)
               \/ \E v \in Ints : Integer(v)
        PROVE  status' # "fetched"
    BY <2>3 DEF Empty, Point, Other, EndOfString, Scale, Accept, Again, Sign, Digit,
                Integer, Accumulate
  <2> QED
    BY <2>1, <2>2, <2>3 DEF Next, ReadsBack
<1> QED
  BY <1>1, <1>2, NumericsTyped, PTL DEF Spec

-----------------------------------------------------------------------------
(* Aliases of columns.                                                     *)

AliasInv == AliasTypeOK /\ KeysDistinct

\* A column and its key are appended.
LEMMA InsertTypes ==
  ASSUME AliasTypeOK, NEW name \in Names, NEW key \in Keys,
         Len(cols) < MaxCols, Insert(name, key)
  PROVE  AliasTypeOK'
<1>1. /\ cols \in Seq(Names) /\ keys \in Seq(Keys) /\ Len(keys) = Len(cols)
      /\ MaxCols \in Nat
  BY LimitAssumption DEF AliasTypeOK
<1>2. cols' = Append(cols, name) /\ keys' = Append(keys, key) /\ hung' = hung
  BY DEF Insert
<1>3. cols' \in Seq(Names) /\ Len(cols') = Len(cols) + 1
  BY <1>1, <1>2
<1>4. keys' \in Seq(Keys) /\ Len(keys') = Len(keys) + 1
  BY <1>1, <1>2
<1>5. hung' \in BOOLEAN /\ Len(cols') <= MaxCols
  BY <1>1, <1>2, <1>3 DEF AliasTypeOK
<1> QED
  BY <1>1, <1>3, <1>4, <1>5 DEF AliasTypeOK

\* What a column is inserted under, if it is not among the keys or a number,
\* leaves the keys distinct.
LEMMA InsertStep ==
  ASSUME AliasInv, NEW name \in Names, NEW key \in Keys,
         Len(cols) < MaxCols, key \notin Used \/ key \in Numeric,
         Insert(name, key)
  PROVE  AliasInv'
<1>1. /\ cols \in Seq(Names) /\ keys \in Seq(Keys) /\ Len(keys) = Len(cols)
      /\ MaxCols \in Nat
  BY LimitAssumption DEF AliasInv, AliasTypeOK
<1>2. cols' = Append(cols, name) /\ keys' = Append(keys, key) /\ hung' = hung
  BY DEF Insert
<1>3. AliasTypeOK'
  BY InsertTypes DEF AliasInv
<1>4. KeysDistinct'
  <2> SUFFICES ASSUME NEW i \in DOMAIN keys', NEW j \in DOMAIN keys', keys'[i] = keys'[j], i < j
               PROVE  keys'[i] \in Numeric
    <3>1. DOMAIN keys' \subseteq Int
      BY <1>1, <1>2
    <3> QED
      BY <3>1 DEF KeysDistinct
  <2>1. i \in DOMAIN keys /\ keys'[i] = keys[i]
    BY <1>1, <1>2
  <2>2. CASE j \in DOMAIN keys
    <3>1. keys'[j] = keys[j]
      BY <1>1, <1>2, <2>2
    <3>2. i # j
      BY <1>1, <2>1, <2>2
    <3> QED
      BY <2>1, <2>2, <3>1, <3>2 DEF AliasInv, KeysDistinct
  <2>3. CASE j \notin DOMAIN keys
    <3>1. keys'[j] = key
      BY <1>1, <1>2, <2>3
    <3>2. key \in Used
      BY <2>1, <3>1 DEF Used
    <3> QED
      BY <3>1, <3>2
  <2> QED
    BY <2>2, <2>3
<1> QED
  BY <1>3, <1>4 DEF AliasInv

\* A statement without columns satisfies the invariant.
LEMMA NoColumnsInv ==
  ASSUME cols = << >>, keys = << >>, hung = FALSE
  PROVE  AliasInv
<1>1. Len(cols) = 0 /\ Len(keys) = 0 /\ cols \in Seq(Names) /\ keys \in Seq(Keys)
  OBVIOUS
<1>2. AliasTypeOK
  <2>1. MaxCols \in Nat
    BY LimitAssumption
  <2>2. hung \in BOOLEAN
    OBVIOUS
  <2> QED
    BY <1>1, <2>1, <2>2 DEF AliasTypeOK
<1>3. KeysDistinct
  BY <1>1 DEF KeysDistinct
<1> QED
  BY <1>2, <1>3 DEF AliasInv

\* Every step keeps the invariant.
LEMMA AliasStep ==
  ASSUME ~MayMiss, AliasInv, [AliasNext]_aliasVars
  PROVE  AliasInv'
<1>1. ASSUME NEW k, FALSE \in Find(k) PROVE k \notin Used \/ k \in Numeric
  BY <1>1 DEF Find
<1>2. ASSUME Hang PROVE AliasInv'
  <2>1. UNCHANGED <<cols, keys>> /\ hung' \in BOOLEAN
    BY <1>2 DEF Hang
  <2>2. Used' = Used
    BY <2>1 DEF Used
  <2> QED
    BY <2>1 DEF AliasInv, AliasTypeOK, KeysDistinct
<1>3. CASE EmptyName
  <2>1. CASE FALSE \in Find(Cut) /\ Insert(<< >>, Cut)
    <3>1. Cut \in Keys
      BY DEF Keys
    <3> QED
      BY <1>1, <1>3, <2>1, <3>1, InsertStep DEF EmptyName
  <2> QED
    BY <1>2, <1>3, <2>1 DEF EmptyName
<1>4. ASSUME NEW name \in Names, OtherName(name) PROVE AliasInv'
  <2>1. CASE FALSE \in Find(name) /\ Insert(name, name)
    <3>1. name \in Keys
      BY <1>4 DEF Keys, OtherName
    <3> QED
      BY <1>1, <1>4, <2>1, <3>1, InsertStep DEF OtherName
  <2>2. ASSUME NEW n \in Suffixes, FALSE \in Find(Append(name, n)), Insert(name, Append(name, n))
        PROVE  AliasInv'
    <3>1. Append(name, n) \in Keys
      BY <1>4 DEF Keys, OtherName
    <3> QED
      BY <1>1, <1>4, <2>2, <3>1, InsertStep DEF OtherName
  <2> QED
    BY <1>2, <1>4, <2>1, <2>2 DEF OtherName
<1>5. CASE Free
  <2>1. cols' = << >> /\ keys' = << >> /\ hung' = FALSE
    BY <1>5 DEF Free
  <2>2. Len(cols') = 0 /\ Len(keys') = 0 /\ cols' \in Seq(Names) /\ keys' \in Seq(Keys)
    BY <2>1
  <2>3. AliasTypeOK'
    <3>1. MaxCols \in Nat
      BY LimitAssumption
    <3>2. hung' \in BOOLEAN
      BY <2>1
    <3> QED
      BY <2>2, <3>1, <3>2 DEF AliasTypeOK
  <2>4. KeysDistinct'
    BY <2>1, <2>2 DEF KeysDistinct
  <2> QED
    BY <2>3, <2>4 DEF AliasInv
<1>6. CASE UNCHANGED aliasVars
  BY <1>6 DEF aliasVars, AliasInv, AliasTypeOK, KeysDistinct
<1> QED
  BY <1>3, <1>4, <1>5, <1>6 DEF AliasNext

\* What each step does to the table: it stays, grows by one key, or is
\* emptied; and the search is endless only where no key is free.
LEMMA AliasSteps ==
  ASSUME [AliasNext]_aliasVars
  PROVE  \/ UNCHANGED aliasVars
         \/ Free
         \/ Hang /\ << >> \in Names /\ TRUE \in Find(Cut)
         \/ Hang /\ \E name \in Names \ {<< >>} :
              TRUE \in Find(name) /\ \A n \in Suffixes : TRUE \in Find(Append(name, n))
         \/ \E name \in Names, key \in Keys :
              ~hung /\ Len(cols) < MaxCols /\ Insert(name, key)
<1>1. CASE EmptyName
  <2>1. Cut \in Keys
    BY DEF Keys
  <2> QED
    BY <1>1, <2>1 DEF EmptyName
<1>2. ASSUME NEW name \in Names, OtherName(name)
      PROVE  \/ Hang /\ name \in Names \ {<< >>} /\ TRUE \in Find(name)
                     /\ \A n \in Suffixes : TRUE \in Find(Append(name, n))
             \/ \E key \in Keys : ~hung /\ Len(cols) < MaxCols /\ Insert(name, key)
  <2>1. name \in Keys /\ \A n \in Suffixes : Append(name, n) \in Keys
    BY <1>2 DEF Keys, OtherName
  <2> QED
    BY <1>2, <2>1 DEF OtherName
<1> QED
  BY <1>1, <1>2 DEF AliasNext

LEMMA FreeTypes == Free => AliasTypeOK'
<1> SUFFICES ASSUME Free PROVE AliasTypeOK'
  OBVIOUS
<1>1. cols' = << >> /\ keys' = << >> /\ hung' = FALSE
  BY DEF Free
<1>2. Len(cols') = 0 /\ Len(keys') = 0 /\ cols' \in Seq(Names) /\ keys' \in Seq(Keys)
  BY <1>1
<1>3. MaxCols \in Nat /\ hung' \in BOOLEAN
  BY <1>1, LimitAssumption
<1> QED
  BY <1>2, <1>3 DEF AliasTypeOK

\* A table without a free key for a name has one key for each suffix, and the
\* name.
LEMMA FullTable ==
  ASSUME AliasTypeOK, NEW name \in Names \ {<< >>}, TRUE \in Find(name),
         \A n \in Suffixes : TRUE \in Find(Append(name, n))
  PROVE  Cardinality(Used) >= Limit
<1> DEFINE f == [n \in 1..Limit |-> IF n = Limit THEN name ELSE Append(name, n)]
           T == {f[n] : n \in 1..Limit}
           U == {name[i] : i \in DOMAIN name} \union Int
<1>1. Limit \in Nat /\ Limit > 0
  BY LimitAssumption
<1>2. \A k : TRUE \in Find(k) => k \in Used
  BY DEF Find
<1>3. T \subseteq Used
  <2>1. \A n \in 1..Limit : n # Limit => n \in Suffixes
    BY <1>1 DEF Suffixes
  <2> QED
    BY <1>1, <1>2, <2>1
<1>4. IsFiniteSet(Used)
  <2>1. keys \in [1..Len(keys) -> Used] /\ Len(keys) \in Nat
    BY DEF AliasTypeOK, Used
  <2>2. keys \in Surjection(1..Len(keys), Used)
    BY <2>1 DEF Used, Surjection
  <2> QED
    BY <2>1, <2>2, FS_Interval, FS_Surjection
<1>5. f \in Bijection(1..Limit, T)
  <2>1. f \in [1..Limit -> T]
    OBVIOUS
  <2>2. ASSUME NEW m \in 1..Limit, NEW n \in 1..Limit, f[m] = f[n]
        PROVE  m = n
    <3>1. name \in Seq(U)
      <4>1. Len(name) \in Nat /\ name = [i \in 1..Len(name) |-> name[i]]
        BY NamesAssumption
      <4>2. \A i \in 1..Len(name) : name[i] \in U
        <5>1. DOMAIN name = 1..Len(name)
          BY <4>1
        <5> QED
          BY <5>1
      <4> HIDE DEF U
      <4>3. name \in [1..Len(name) -> U]
        BY <4>1, <4>2
      <4> QED
        BY <4>1, <4>3, SeqDef
    <3>2. m \in U /\ n \in U
      OBVIOUS
    <3> HIDE DEF U
    <3>3. \A k \in U : /\ Len(Append(name, k)) = Len(name) + 1 /\ Len(name) \in Nat
                       /\ Append(name, k)[Len(name) + 1] = k
      BY <3>1
    <3>4. CASE m # Limit /\ n # Limit
      <4>1. Append(name, m) = Append(name, n)
        BY <2>2, <3>4
      <4> QED
        BY <3>2, <3>3, <4>1
    <3>5. CASE m = Limit /\ n # Limit
      <4>1. name = Append(name, n)
        BY <2>2, <3>5
      <4> QED
        BY <3>2, <3>3, <4>1
    <3>6. CASE m # Limit /\ n = Limit
      <4>1. name = Append(name, m)
        BY <2>2, <3>6
      <4> QED
        BY <3>2, <3>3, <4>1
    <3> QED
      BY <3>4, <3>5, <3>6
  <2>3. f \in Injection(1..Limit, T)
    <3> HIDE DEF f, T
    <3> QED
      BY <2>1, <2>2, Fun_IsInj
  <2>4. f \in Surjection(1..Limit, T)
    BY <2>1 DEF Surjection
  <2> QED
    BY <2>3, <2>4 DEF Bijection
<1>6. IsFiniteSet(1..Limit) /\ Cardinality(1..Limit) = Limit
  BY <1>1, FS_Interval
<1>7. Cardinality(T) = Limit
  BY <1>5, <1>6, FS_Bijection DEF ExistsBijection
<1>8. Cardinality(T) <= Cardinality(Used)
  BY <1>3, <1>4, FS_Subset
<1>9. Cardinality(Used) \in Nat
  BY <1>4, FS_CardinalityType
<1> QED
  BY <1>1, <1>7, <1>8, <1>9


\* Every variable keeps its type, in any build.
THEOREM AliasesTyped == AliasSpec => []AliasTypeOK
<1>1. AliasInit => AliasTypeOK
  BY NoColumnsInv DEF AliasInit, AliasInv
<1>2. AliasTypeOK /\ [AliasNext]_aliasVars => AliasTypeOK'
  <2> SUFFICES ASSUME AliasTypeOK, [AliasNext]_aliasVars PROVE AliasTypeOK'
    OBVIOUS
  <2>1. CASE UNCHANGED aliasVars
    BY <2>1 DEF aliasVars, AliasTypeOK
  <2>2. CASE Hang
    BY <2>2 DEF Hang, AliasTypeOK
  <2> QED
    BY <2>1, <2>2, AliasSteps, FreeTypes, InsertTypes
<1> QED
  BY <1>1, <1>2, PTL DEF AliasSpec

\* No two columns of a row have the same key, unless it is a number.
THEOREM KeysAreDistinct ==
  ASSUME ~MayMiss
  PROVE  AliasSpec => []KeysDistinct
<1>1. AliasInit => AliasInv
  BY NoColumnsInv DEF AliasInit
<1>2. AliasInv /\ [AliasNext]_aliasVars => AliasInv'
  BY AliasStep
<1>3. AliasInv => KeysDistinct
  BY DEF AliasInv
<1> QED
  BY <1>1, <1>2, <1>3, PTL DEF AliasSpec

\* The search is endless only for the statements named, in any build.
THEOREM HangsAreNamed == AliasSpec => []HangsNeedNames
<1>1. AliasInit => HangsNeedNames
  BY DEF AliasInit, HangsNeedNames
<1>2. AliasTypeOK /\ HangsNeedNames /\ [AliasNext]_aliasVars => HangsNeedNames'
  <2> SUFFICES ASSUME AliasTypeOK, HangsNeedNames, [AliasNext]_aliasVars, hung'
               PROVE  (<< >> \in Names /\ Cut \in Used') \/ Cardinality(Used') >= Limit
    BY DEF HangsNeedNames
  <2>1. CASE UNCHANGED aliasVars
    BY <2>1 DEF aliasVars, HangsNeedNames, Used
  <2>2. CASE Hang /\ << >> \in Names /\ TRUE \in Find(Cut)
    BY <2>2 DEF Hang, Find, Used
  <2>3. CASE Hang /\ \E name \in Names \ {<< >>} :
               TRUE \in Find(name) /\ \A n \in Suffixes : TRUE \in Find(Append(name, n))
    <3>1. Cardinality(Used) >= Limit
      BY <2>3, FullTable
    <3>2. Used' = Used
      BY <2>3 DEF Hang, Used
    <3> QED
      BY <3>1, <3>2
  <2>4. ~Free
    BY DEF Free
  <2>5. ~(\E name \in Names, key \in Keys : ~hung /\ Len(cols) < MaxCols /\ Insert(name, key))
    BY DEF Insert
  <2> QED
    BY <2>1, <2>2, <2>3, <2>4, <2>5, AliasSteps
<1> QED
  BY <1>1, <1>2, AliasesTyped, PTL DEF AliasSpec
=============================================================================
