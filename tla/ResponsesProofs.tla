--------------------------- MODULE ResponsesProofs ---------------------------
(***************************************************************************)
(* Every reader of a response tells what the server said, for every answer *)
(* and every limit: proofs about module Responses, for every value of its  *)
(* constants.                                                              *)
(*                                                                         *)
(* The invariant counts the items that are read.  It says what the reader  *)
(* has made of that many items, and that the response goes on with those   *)
(* that follow.                                                            *)
(***************************************************************************)
EXTENDS Responses, FiniteSetTheorems, SequenceTheorems, TLAPS

-----------------------------------------------------------------------------
(* What the readers keep.                                                  *)

\* Items, also those that only mark the end of a response, and what the array
\* of a result can hold.
Marks == {"end", "truncated", "other"}
Tags == (UNION {Known[q] : q \in Readers}) \union Marks
Items == [tag : Tags, val : Nat]
Account == [UserFields -> Nat \union {Unset}]
Message == [msg : Nat, code : Nat]
Things == Nat \union Account \union Message \union {Garbage}

\* What a reader finds: all that the server has to say, but get_users may find
\* items that only look like it.
Meets(q, s) ==
  IF q = "users"
  THEN /\ s \in Seq(Items) /\ \A i \in 1..Len(s) : s[i].tag \in Known["users"]
       /\ s # << >> => s[1].tag = "username"
  ELSE s \in Content(q)

\* The items that have come are what was said.
Partly ==
  /\ said \in Content("users") /\ whole \in 0..Len(said) /\ whole <= Len(sent)
  /\ \A i \in 1..whole : sent[i] = said[i]
  /\ whole = Len(said) => sent = said

Types ==
  /\ TypeOK
  /\ sent \in Seq(Items) /\ left \in Seq(Items) /\ list \in Seq(Things)
  /\ user \in Account \union {Undef, Garbage}
  /\ status # "idle" => Meets(reader, sent) /\ (reader = "users" => Partly)

\* Of the items s, p are read, and the response a goes on with the next ones
\* and a mark behind them.  Only a mark can stand for items that are missing,
\* and not that of the end.
Continues(a, s, p) ==
  /\ p \in 0..Len(s)
  /\ \A i \in 1..Len(a) :
       IF a[i].tag \in Marks THEN i = Len(a)
       ELSE p + i <= Len(s) /\ a[i] = s[p + i]
  /\ a = << >> => p = Len(s)
  /\ a # << >> /\ a[Len(a)].tag = "end" => p + Len(a) = Len(s) + 1
  /\ a # << >> /\ a[Len(a)].tag \notin Marks => p + Len(a) = Len(s)

Follows(p) == Continues(left, sent, p)

\* What has been made of p items.
InfoRead(p) ==
  /\ \A i \in 1..p : sent[i].tag \in FieldNames => fields[sent[i].tag] = sent[i].val
  /\ reader = "databases" =>
       /\ Len(list) = IF p < 2 THEN 0 ELSE IF p < Len(sent) THEN p - 2 ELSE p - 3
       /\ \A i \in DOMAIN list : list[i] = sent[i + 2].val

\* An answer that was cut has room for fewer entries than there are.
Cut == left # << >> /\ left[Len(left)].tag = "truncated"
LimboRead(p) ==
  /\ Len(list) = p /\ \A i \in 1..p : list[i] = sent[i].val
  /\ left # << >> => left[Len(left)].tag # "other"
  /\ IF Cut THEN Len(sent) >= limit /\ p + Len(left) <= limit
     ELSE Len(sent) <= limit

CountsRead(p) ==
  /\ \A i \in 1..p : counts[sent[i].tag] = sent[i].val
  /\ \A c \in Counters : (\A i \in 1..p : sent[i].tag # c) => counts[c] = 0
  /\ status = "done" => counts["affected"] = Affected

CodesRead(p) ==
  /\ left # << >> /\ left[Len(left)].tag = "end"
  /\ code = CodeAt(left)
  /\ Len(list) = p /\ \A i \in 1..p : list[i] = [msg |-> i, code |-> sent[i].val]
  /\ p > 0 /\ (\A i \in 1..p : sent[i].tag = "error") => fields["code"] = sent[1].val

\* The first of the items up to p that begin an account, and those there are.
Begun(p) == {i \in 1..p : sent[i].tag = "username"}

\* user has the fields that are said from item m on, up to item p.
HasFields(m, p) ==
  /\ \A i \in m..p : said[i].tag \in UserFields => user[said[i].tag] = said[i].val
  /\ \A f \in UserFields : (\A i \in m..p : said[i].tag # f) => user[f] = Unset

\* user is the account that begins with item m, the last one up to item p.
Holds(m, p) ==
  /\ user \in Account
  /\ m \in Begun(p) /\ \A i \in Begun(p) : i <= m
  /\ p <= whole => HasFields(m, p)

\* b tells whether the array begins with what the variable held at first.
UsersListed(p, b) ==
  /\ Len(list) + 1 = b + Cardinality(Begun(p))
  /\ b = 1 => list[1] = Garbage
  /\ \E m \in 1..p :
       /\ Holds(m, p)
       /\ \A i \in Begun(m - 1) : i <= whole => TellsOf(i, list[b + Cardinality(Begun(i))])

UsersRead(p) ==
  IF p = 0 THEN user \in {Undef, Garbage} /\ list = << >>
  ELSE \E b \in {0, 1} : UsersListed(p, b)

ReadSoFar(p) ==
  /\ reader \in {"db_info", "server_info", "databases"} => InfoRead(p)
  /\ reader = "limbo" => LimboRead(p)
  /\ reader = "users" /\ status # "done" => UsersRead(p)
  /\ reader = "statistics" => CountsRead(p)
  /\ reader = "exception" => CodesRead(p)

Stops ==
  /\ status = "done" => Tag = "end"
  /\ status = "fatal" => Tag \notin Known[reader] \union {"end"}

IInv ==
  /\ Types
  /\ Stops
  /\ UsersWhole
  /\ status # "idle" => \E p \in 0..Len(sent) : Follows(p) /\ ReadSoFar(p)

-----------------------------------------------------------------------------
(* What the server has to say.                                             *)

\* What is assumed of the bounds.
LEMMA Values0 == Values \subseteq Nat /\ MaxItems \in Nat /\ MaxLimbo \in Nat /\ MaxLimbo > 0
  BY ResponsesAssumption

\* Sequences of bounded length are sequences.
LEMMA SeqsAreSeqs ==
  ASSUME NEW S, NEW n \in Nat, NEW s \in SeqsUpTo(S, n)
  PROVE  s \in Seq(S)
<1>1. PICK m \in 0..n : s \in [1..m -> S]
  BY DEF SeqsUpTo
<1>2. m \in Nat
  OBVIOUS
<1> QED
  BY <1>1, <1>2, SeqDef

\* A sequence given item by item.
LEMMA ItemByItem ==
  ASSUME NEW S, NEW n \in Nat, NEW s, DOMAIN s = 1..n,
         s = [i \in 1..n |-> s[i]], \A i \in 1..n : s[i] \in S
  PROVE  s \in Seq(S) /\ Len(s) = n
<1>1. s \in [1..n -> S]
  OBVIOUS
<1>2. s \in Seq(S)
  BY <1>1, SeqDef
<1> QED
  BY <1>2, LenProperties

\* The readers, and the tags each has a case for.
LEMMA Readers0 ==
  /\ Readers = {"db_info", "server_info", "databases", "limbo", "users",
                "statistics", "exception"}
  /\ Known["db_info"] = {"db_file_size", "pages_used", "sqlrole"}
  /\ Known["server_info"] = {"server_version", "user_dbpath"}
  /\ Known["databases"] = {"flag_end", "num_att", "num_db", "dbname"}
  /\ Known["limbo"] = {"limbo"}
  /\ Known["users"] = UserFields \union {"userid"}
  /\ Known["statistics"] = Counters
  /\ Known["exception"] = {"error", "warning"}
  BY DEF Readers, Known

\* No reader has a case for a mark.
LEMMA KnownTags ==
  ASSUME NEW q \in Readers
  PROVE  Known[q] \cap Marks = {} /\ Known[q] \subseteq Tags
<1>1. Known[q] \subseteq Tags
  BY DEF Tags
<1>2. Known[q] \cap Marks = {}
  BY Readers0 DEF Marks, UserFields, Counters
<1> QED
  BY <1>1, <1>2

\* Every tag that is used is one.
LEMMA SomeTags ==
  \A t \in {"db_file_size", "pages_used", "sqlrole", "server_version", "user_dbpath",
            "flag_end", "num_att", "num_db", "dbname", "limbo", "userid", "error", "warning"}
           \union UserFields \union Counters \union Marks : t \in Tags
<1>1. \A q \in Readers : Known[q] \subseteq Tags
  BY KnownTags
<1>2. Marks \subseteq Tags
  BY DEF Tags
<1> QED
  BY <1>1, <1>2, Readers0

\* What an item is made of.
LEMMA ItemType ==
  ASSUME NEW t \in Tags, NEW v \in Nat
  PROVE  Item(t, v) \in Items /\ Item(t, v).tag = t /\ Item(t, v).val = v
  BY DEF Item, Items

\* The items of information that are asked for come in the order asked.
LEMMA DbContent ==
  ASSUME NEW s \in Content("db_info")
  PROVE  /\ s \in Seq(Items) /\ Len(s) = 3
         /\ s[1].tag = "db_file_size" /\ s[2].tag = "pages_used" /\ s[3].tag = "sqlrole"
<1>1. s \in Asked(DbItems) /\ DOMAIN DbItems = 1..3
      /\ DbItems[1] = "db_file_size" /\ DbItems[2] = "pages_used" /\ DbItems[3] = "sqlrole"
  BY DEF Content, DbItems
<1>2. PICK v \in [1..3 -> Values] : s = [i \in 1..3 |-> Item(DbItems[i], v[i])]
  BY <1>1 DEF Asked
<1>3. \A i \in 1..3 : v[i] \in Nat /\ DbItems[i] \in Tags
  <2>1. \A i \in 1..3 : v[i] \in Nat
    BY Values0
  <2>2. DbItems[1] \in Tags /\ DbItems[2] \in Tags /\ DbItems[3] \in Tags
    BY <1>1, SomeTags
  <2>3. \A i \in 1..3 : i = 1 \/ i = 2 \/ i = 3
    OBVIOUS
  <2> QED
    BY <2>1, <2>2, <2>3
<1>4. \A i \in 1..3 : s[i] \in Items /\ s[i].tag = DbItems[i]
  BY <1>2, <1>3, ItemType, SomeTags
<1> QED
  BY <1>1, <1>2, <1>4, ItemByItem

\* Information about the server, in the order asked.
LEMMA ServerContent ==
  ASSUME NEW s \in Content("server_info")
  PROVE  /\ s \in Seq(Items) /\ Len(s) = 2
         /\ s[1].tag = "server_version" /\ s[2].tag = "user_dbpath"
<1>1. s \in Asked(ServerItems) /\ DOMAIN ServerItems = 1..2
      /\ ServerItems[1] = "server_version" /\ ServerItems[2] = "user_dbpath"
  BY DEF Content, ServerItems
<1>2. PICK v \in [1..2 -> Values] : s = [i \in 1..2 |-> Item(ServerItems[i], v[i])]
  BY <1>1 DEF Asked
<1>3. \A i \in 1..2 : v[i] \in Nat /\ ServerItems[i] \in Tags
  <2>1. \A i \in 1..2 : v[i] \in Nat
    BY Values0
  <2>2. ServerItems[1] \in Tags /\ ServerItems[2] \in Tags
    BY <1>1, SomeTags
  <2>3. \A i \in 1..2 : i = 1 \/ i = 2
    OBVIOUS
  <2> QED
    BY <2>1, <2>2, <2>3
<1>4. \A i \in 1..2 : s[i] \in Items /\ s[i].tag = ServerItems[i]
  BY <1>2, <1>3, ItemType, SomeTags
<1> QED
  BY <1>1, <1>2, <1>4, ItemByItem

\* The items of two sequences put together.
LEMMA Joined ==
  ASSUME NEW S, NEW s \in Seq(S), NEW t \in Seq(S)
  PROVE  \A i \in 1..(Len(s) + Len(t)) : (s \o t)[i] = IF i <= Len(s) THEN s[i] ELSE t[i - Len(s)]
  BY ConcatProperties, Zenon

\* Two numbers, the names of the databases and the flag of the end.
LEMMA DatabasesContent ==
  ASSUME NEW s \in Content("databases")
  PROVE  /\ s \in Seq(Items) /\ Len(s) \in Nat /\ Len(s) >= 3
         /\ s[1].tag = "num_att" /\ s[2].tag = "num_db" /\ s[Len(s)].tag = "flag_end"
         /\ \A i \in 3..(Len(s) - 1) : s[i].tag = "dbname"
<1>1. PICK v \in Values, d \in SeqsUpTo(Values, 2) : s = InUse(v, d)
  <2>1. s \in Attachments
    BY DEF Content
  <2> QED
    BY <2>1 DEF Attachments
<1> DEFINE h == <<Item("num_att", v), Item("num_db", Len(d))>>
           m == [i \in DOMAIN d |-> Item("dbname", d[i])]
           e == <<Item("flag_end", 0)>>
<1>2. d \in Seq(Values) /\ Len(d) \in Nat /\ DOMAIN d = 1..Len(d)
  BY SeqsAreSeqs, LenProperties
<1>3. h \in Seq(Items) /\ Len(h) = 2 /\ h[1].tag = "num_att" /\ h[2].tag = "num_db"
  <2>1. Item("num_att", v) \in Items /\ Item("num_db", Len(d)) \in Items
    BY <1>2, Values0, ItemType, SomeTags
  <2>2. Item("num_att", v).tag = "num_att" /\ Item("num_db", Len(d)).tag = "num_db"
    BY DEF Item
  <2> QED
    BY <2>1, <2>2
<1>4. m \in Seq(Items) /\ Len(m) = Len(d) /\ \A i \in 1..Len(d) : m[i].tag = "dbname"
  <2>1. \A i \in 1..Len(d) : m[i] \in Items /\ m[i].tag = "dbname"
    BY <1>2, Values0, ItemType, SomeTags, ElementOfSeq
  <2> QED
    BY <1>2, <2>1, ItemByItem
<1>5. e \in Seq(Items) /\ Len(e) = 1 /\ e[1].tag = "flag_end"
  <2>1. Item("flag_end", 0) \in Items /\ Item("flag_end", 0).tag = "flag_end"
    BY ItemType, SomeTags
  <2> QED
    BY <2>1
<1> HIDE DEF h, m, e
<1>6. /\ h \o m \in Seq(Items) /\ Len(h \o m) = 2 + Len(d)
      /\ \A i \in 1..(2 + Len(d)) : (h \o m)[i] = IF i <= 2 THEN h[i] ELSE m[i - 2]
  <2>1. h \o m \in Seq(Items) /\ Len(h \o m) = Len(h) + Len(m)
    BY <1>3, <1>4, ConcatProperties
  <2>2. \A i \in 1..(Len(h) + Len(m)) : (h \o m)[i] = IF i <= Len(h) THEN h[i] ELSE m[i - Len(h)]
    BY <1>3, <1>4, Joined
  <2> QED
    BY <1>2, <1>3, <1>4, <2>1, <2>2
<1>7. /\ (h \o m) \o e \in Seq(Items) /\ Len((h \o m) \o e) = 3 + Len(d)
      /\ \A i \in 1..(3 + Len(d)) :
           ((h \o m) \o e)[i] = IF i <= 2 + Len(d) THEN (h \o m)[i] ELSE e[i - (2 + Len(d))]
  <2> DEFINE hm == h \o m
  <2>0. hm \in Seq(Items) /\ Len(hm) = 2 + Len(d)
    BY <1>6
  <2> HIDE DEF hm
  <2>1. hm \o e \in Seq(Items) /\ Len(hm \o e) = Len(hm) + Len(e)
    BY <1>5, <2>0, ConcatProperties
  <2>2. \A i \in 1..(Len(hm) + Len(e)) : (hm \o e)[i] = IF i <= Len(hm) THEN hm[i] ELSE e[i - Len(hm)]
    BY <1>5, <2>0, Joined
  <2>3. /\ hm \o e \in Seq(Items) /\ Len(hm \o e) = 3 + Len(d)
        /\ \A i \in 1..(3 + Len(d)) :
             (hm \o e)[i] = IF i <= 2 + Len(d) THEN hm[i] ELSE e[i - (2 + Len(d))]
    BY <1>2, <1>5, <2>0, <2>1, <2>2
  <2> QED
    BY <2>3 DEF hm
<1>8. s = (h \o m) \o e
  BY <1>1 DEF h, m, e, InUse
<1>9. /\ s[1] = h[1] /\ s[2] = h[2] /\ s[3 + Len(d)] = e[1]
      /\ \A i \in 3..(2 + Len(d)) : s[i] = m[i - 2]
  BY <1>2, <1>6, <1>7, <1>8
<1>10. s \in Seq(Items) /\ Len(s) = 3 + Len(d)
  BY <1>7, <1>8
<1>11. \A i \in 3..(2 + Len(d)) : i - 2 \in 1..Len(d)
  BY <1>2
<1>12. s[1].tag = "num_att" /\ s[2].tag = "num_db" /\ s[Len(s)].tag = "flag_end"
  BY <1>3, <1>5, <1>9, <1>10
<1>13. \A i \in 3..(2 + Len(d)) : s[i].tag = "dbname"
  BY <1>4, <1>9, <1>11
<1>14. Len(s) \in Nat /\ Len(s) >= 3 /\ Len(s) - 1 = 2 + Len(d)
  BY <1>2, <1>10
<1> QED
  BY <1>10, <1>12, <1>13, <1>14

\* Nothing but transactions.
LEMMA LimboContent ==
  ASSUME NEW s \in Content("limbo")
  PROVE  s \in Seq(Items) /\ \A i \in 1..Len(s) : s[i].tag = "limbo"
<1>1. PICK n \in 0..MaxItems : s = [i \in 1..n |-> Item("limbo", i)]
  BY DEF Content
<1>2. \A i \in 1..n : s[i] \in Items /\ s[i].tag = "limbo"
  BY <1>1, ItemType, SomeTags
<1> QED
  BY <1>1, <1>2, ItemByItem

\* The accounts, one after the other, each with at most one item of a kind.
LEMMA UsersContent ==
  ASSUME NEW s \in Content("users")
  PROVE  /\ s \in Seq(Items) /\ \A i \in 1..Len(s) : s[i].tag \in Known["users"]
         /\ s # << >> => s[1].tag = "username"
         /\ \A i, j \in 1..Len(s) : i < j /\ s[i].tag = s[j].tag /\ s[i].tag # "username" =>
              \E k \in i..j : s[k].tag = "username"
<1> DEFINE S == {Item(t, v) : t \in UserFields, v \in Values} \union {Item("userid", 0)}
<1>1. s \in SeqsUpTo(S, MaxItems) /\ s \in Accounts
  BY DEF Content, Accounts
<1>2. \A e \in S : e \in Items /\ e.tag \in Known["users"]
  BY Values0, Readers0, ItemType, SomeTags
<1> HIDE DEF S
<1>3. s \in Seq(S) /\ DOMAIN s = 1..Len(s)
  BY <1>1, Values0, SeqsAreSeqs, LenProperties
<1>4. s \in Seq(Items) /\ \A i \in 1..Len(s) : s[i].tag \in Known["users"]
  BY <1>2, <1>3, SeqMonotonic, ElementOfSeq
<1> QED
  BY <1>1, <1>3, <1>4 DEF Accounts

\* At most one number for each counter.
LEMMA StatisticsContent ==
  ASSUME NEW s \in Content("statistics")
  PROVE  /\ s \in Seq(Items) /\ \A i \in 1..Len(s) : s[i].tag \in Counters
         /\ \A i, j \in 1..Len(s) : s[i].tag = s[j].tag => i = j
<1> DEFINE S == {Item(c, v) : c \in Counters, v \in Values}
<1>1. s \in SeqsUpTo(S, 4) /\ \A i, j \in DOMAIN s : s[i].tag = s[j].tag => i = j
  BY DEF Content
<1>2. \A e \in S : e \in Items /\ e.tag \in Counters
  BY Values0, ItemType, SomeTags DEF Counters
<1> HIDE DEF S
<1>3. s \in Seq(S) /\ DOMAIN s = 1..Len(s)
  BY <1>1, SeqsAreSeqs, LenProperties
<1> QED
  BY <1>1, <1>2, <1>3, SeqMonotonic, ElementOfSeq

\* Errors and warnings.
LEMMA ExceptionContent ==
  ASSUME NEW s \in Content("exception")
  PROVE  s \in Seq(Items) /\ \A i \in 1..Len(s) : s[i].tag \in Known["exception"]
<1> DEFINE S == {Item(t, v) : t \in {"error", "warning"}, v \in Values}
<1>1. s \in SeqsUpTo(S, MaxItems)
  BY DEF Content, Vectors
<1>2. \A e \in S : e \in Items /\ e.tag \in Known["exception"]
  BY Values0, Readers0, ItemType, SomeTags
<1> HIDE DEF S
<1>3. s \in Seq(S)
  BY <1>1, Values0, SeqsAreSeqs
<1> QED
  BY <1>2, <1>3, SeqMonotonic, ElementOfSeq

\* What is sent to a reader are items it knows.
LEMMA ContentKnown ==
  ASSUME NEW q \in Readers, NEW s \in Content(q)
  PROVE  /\ s \in Seq(Items) /\ Len(s) \in Nat /\ DOMAIN s = 1..Len(s)
         /\ \A i \in 1..Len(s) : s[i].tag \in Known[q] /\ s[i].tag \notin Marks /\ s[i].val \in Nat
<1>1. s \in Seq(Items) /\ \A i \in 1..Len(s) : s[i].tag \in Known[q]
  <2>1. CASE q = "db_info"
    <3>1. \A i \in 1..3 : i = 1 \/ i = 2 \/ i = 3
      OBVIOUS
    <3> QED
      BY <2>1, <3>1, DbContent, Readers0
  <2>2. CASE q = "server_info"
    <3>1. \A i \in 1..2 : i = 1 \/ i = 2
      OBVIOUS
    <3> QED
      BY <2>2, <3>1, ServerContent, Readers0
  <2>3. CASE q = "databases"
    <3>1. \A i \in 1..Len(s) : i = 1 \/ i = 2 \/ i = Len(s) \/ i \in 3..(Len(s) - 1)
      BY <2>3, DatabasesContent
    <3> QED
      BY <2>3, <3>1, DatabasesContent, Readers0
  <2>4. CASE q = "limbo"
    BY <2>4, LimboContent, Readers0
  <2>5. CASE q = "users"
    BY <2>5, UsersContent
  <2>6. CASE q = "statistics"
    BY <2>6, StatisticsContent, Readers0
  <2>7. CASE q = "exception"
    BY <2>7, ExceptionContent
  <2> QED
    BY <2>1, <2>2, <2>3, <2>4, <2>5, <2>6, <2>7, Readers0
<1>2. Len(s) \in Nat /\ DOMAIN s = 1..Len(s)
  BY <1>1, LenProperties
<1>3. \A i \in 1..Len(s) : s[i] \in Items
  BY <1>1, ElementOfSeq
<1> QED
  BY <1>1, <1>2, <1>3, KnownTags DEF Items

\* So is what a reader finds.
LEMMA MeetsKnown ==
  ASSUME NEW q \in Readers, NEW s, Meets(q, s)
  PROVE  /\ s \in Seq(Items) /\ Len(s) \in Nat /\ DOMAIN s = 1..Len(s)
         /\ \A i \in 1..Len(s) : s[i].tag \in Known[q] /\ s[i].tag \notin Marks /\ s[i].val \in Nat
<1>1. CASE q # "users"
  BY <1>1, ContentKnown DEF Meets
<1>2. CASE q = "users"
  <2>1. s \in Seq(Items) /\ \A i \in 1..Len(s) : s[i].tag \in Known[q]
    BY <1>2 DEF Meets
  <2>2. Len(s) \in Nat /\ DOMAIN s = 1..Len(s) /\ \A i \in 1..Len(s) : s[i] \in Items
    BY <2>1, LenProperties, ElementOfSeq
  <2> QED
    BY <2>1, <2>2, KnownTags DEF Items
<1> QED
  BY <1>1, <1>2

\* The first n items, and no more.
LEMMA FirstItems ==
  ASSUME NEW s \in Seq(Items), NEW n \in 0..Len(s)
  PROVE  /\ SubSeq(s, 1, n) \in Seq(Items) /\ Len(SubSeq(s, 1, n)) = n
         /\ \A i \in 1..n : SubSeq(s, 1, n)[i] = s[i]
<1> DEFINE h == SubSeq(s, 1, n)
<1>1. Len(s) \in Nat /\ \A i \in 1..n : s[i] \in Items
  BY LenProperties, ElementOfSeq
<1>2. /\ h \in Seq(Items) /\ Len(h) = IF 1 <= n THEN n - 1 + 1 ELSE 0
      /\ \A i \in 1..(n - 1 + 1) : h[i] = s[1 + i - 1]
  BY <1>1, SubSeqProperties
<1>3. \A i \in 1..n : i \in 1..(n - 1 + 1) /\ 1 + i - 1 = i
  BY <1>1
<1> QED
  BY <1>1, <1>2, <1>3

\* What get_users finds of a list: the items that have come, then perhaps one
\* that was cut and others behind it.
LEMMA FoundMeets ==
  ASSUME NEW s \in Content("users"), NEW n \in 0..Len(s), NEW u \in Found(s, n)
  PROVE  /\ Meets("users", u) /\ n <= Len(u) /\ Len(u) \in Nat
         /\ \A i \in 1..n : u[i] = s[i]
         /\ n = Len(s) => u = s
<1> DEFINE h == SubSeq(s, 1, n)
<1>1. /\ s \in Seq(Items) /\ Len(s) \in Nat /\ \A i \in 1..Len(s) : s[i].tag \in Known["users"]
      /\ s # << >> => s[1].tag = "username"
  BY UsersContent, LenProperties
<1>2. CASE n = Len(s)
  BY <1>1, <1>2 DEF Found, Meets
<1>3. h \in Seq(Items) /\ Len(h) = n /\ \A i \in 1..n : h[i] = s[i]
  BY <1>1, FirstItems
<1>4. CASE n # Len(s) /\ u = h
  <2>1. \A i \in 1..Len(h) : h[i].tag \in Known["users"]
    BY <1>1, <1>3
  <2>2. h # << >> => h[1].tag = "username"
    <3>1. h # << >> => n >= 1 /\ s # << >>
      BY <1>1, <1>3, EmptySeq
    <3> QED
      BY <1>1, <1>3, <3>1
  <2> HIDE DEF h
  <2> QED
    BY <1>1, <1>3, <1>4, <2>1, <2>2 DEF Meets
<1>5. ASSUME NEW v \in Values, NEW x \in Beyond, n # Len(s), u = h \o (<<Item(s[n + 1].tag, v)>> \o x)
      PROVE  /\ Meets("users", u) /\ n <= Len(u) /\ Len(u) \in Nat
             /\ \A i \in 1..n : u[i] = s[i]
  <2> DEFINE c == Item(s[n + 1].tag, v)
             e == <<c>>
             S == {Item(y, w) : y \in Known["users"], w \in Values}
  <2>1. n + 1 \in 1..Len(s) /\ s[n + 1].tag \in Known["users"] /\ s[n + 1].tag \in Tags /\ v \in Nat
    BY <1>1, <1>5, Values0, KnownTags, Readers0
  <2>2. c \in Items /\ c.tag = s[n + 1].tag
    BY <2>1, ItemType
  <2>3. e \in Seq(Items) /\ Len(e) = 1 /\ e[1] = c
    BY <2>2
  <2>4. x \in Seq(Items) /\ Len(x) \in Nat /\ \A i \in 1..Len(x) : x[i].tag \in Known["users"]
    <3>1. \A y \in Known["users"] : y \in Tags
      BY KnownTags, Readers0
    <3>2. \A z \in S : z \in Items /\ z.tag \in Known["users"]
      BY <3>1, Values0, ItemType
    <3>3. x \in SeqsUpTo(S, MaxBeyond) /\ MaxBeyond \in Nat
      BY ResponsesAssumption DEF Beyond
    <3> HIDE DEF S
    <3>4. x \in Seq(S)
      BY <3>3, SeqsAreSeqs
    <3> QED
      BY <3>2, <3>4, SeqMonotonic, ElementOfSeq, LenProperties
  <2> HIDE DEF c, e, S, h
  <2> DEFINE g == e \o x
  <2>5. /\ g \in Seq(Items) /\ Len(g) = 1 + Len(x)
        /\ \A i \in 1..(1 + Len(x)) : g[i] = IF i <= 1 THEN e[i] ELSE x[i - 1]
    <3>1. g \in Seq(Items) /\ Len(g) = Len(e) + Len(x)
      BY <2>3, <2>4, ConcatProperties
    <3>2. \A i \in 1..(Len(e) + Len(x)) : g[i] = IF i <= Len(e) THEN e[i] ELSE x[i - Len(e)]
      BY <2>3, <2>4, Joined
    <3> HIDE DEF g
    <3> QED
      BY <2>3, <3>1, <3>2
  <2>6. g[1] = c /\ \A i \in 1..Len(g) : g[i].tag \in Known["users"]
    <3>1. \A i \in 1..Len(g) : i = 1 \/ i - 1 \in 1..Len(x)
      BY <2>4, <2>5
    <3>2. 1 \in 1..(1 + Len(x)) /\ g[1] = c /\ c.tag \in Known["users"]
      BY <2>1, <2>2, <2>3, <2>4, <2>5
    <3> QED
      BY <2>4, <2>5, <3>1, <3>2
  <2>7. u = h \o g
    BY <1>5 DEF g, e, c
  <2> HIDE DEF g
  <2>8. /\ u \in Seq(Items) /\ Len(u) = n + Len(g)
        /\ \A i \in 1..(n + Len(g)) : u[i] = IF i <= n THEN h[i] ELSE g[i - n]
    BY <1>3, <2>5, <2>7, ConcatProperties, Joined
  <2>9. Len(g) \in Nat /\ Len(g) >= 1
    BY <2>4, <2>5
  <2>10. \A i \in 1..n : u[i] = s[i]
    BY <1>3, <2>8, <2>9
  <2>11. \A i \in 1..Len(u) : u[i].tag \in Known["users"]
    <3>1. \A i \in 1..Len(u) : i \in 1..n \/ (i > n /\ i - n \in 1..Len(g))
      BY <2>8, <2>9
    <3> QED
      BY <1>1, <1>3, <2>6, <2>8, <2>10, <3>1
  <2>12. u[1].tag = "username"
    <3>1. s # << >>
      BY <1>1, <2>1, EmptySeq
    <3>2. CASE n = 0
      BY <1>1, <2>2, <2>6, <2>8, <2>9, <3>1, <3>2
    <3>3. CASE n # 0
      BY <1>1, <2>10, <3>1, <3>3
    <3> QED
      BY <3>2, <3>3
  <2> QED
    BY <2>8, <2>9, <2>10, <2>11, <2>12 DEF Meets
<1>6. CASE n # Len(s)
  <2>1. u \in {SubSeq(s, 1, n)} \union {CutInside(s, n, v, x) : v \in Values, x \in Beyond}
    BY <1>6 DEF Found
  <2>2. CASE u = h
    BY <1>4, <1>6, <2>2
  <2>3. ASSUME NEW v \in Values, NEW x \in Beyond, u = CutInside(s, n, v, x)
        PROVE  /\ Meets("users", u) /\ n <= Len(u) /\ Len(u) \in Nat
               /\ \A i \in 1..n : u[i] = s[i]
    BY <1>5, <1>6, <2>3 DEF CutInside
  <2>4. u = h \/ \E v \in Values, x \in Beyond : u = CutInside(s, n, v, x)
    BY <2>1
  <2> QED
    BY <1>6, <2>2, <2>3, <2>4
<1> QED
  BY <1>2, <1>6

-----------------------------------------------------------------------------
(* Responses.                                                              *)

\* The items that an exchange is about: none of them is a mark.
Exchange(s) == s \in Seq(Items) /\ \A i \in 1..Len(s) : s[i].tag \notin Marks

\* A response of the first n items, and a mark.
LEMMA Marked ==
  ASSUME NEW s, Exchange(s), NEW n \in 0..Len(s), NEW t \in Marks, t = "end" => n = Len(s)
  PROVE  LET a == Append(SubSeq(s, 1, n), Item(t, 0))
         IN  /\ a \in Seq(Items) /\ Len(a) = n + 1 /\ a[n + 1].tag = t
             /\ Continues(a, s, 0)
<1> DEFINE h == SubSeq(s, 1, n)
           a == Append(h, Item(t, 0))
<1>1. s \in Seq(Items) /\ Len(s) \in Nat
  BY LenProperties DEF Exchange
<1>2. \A i \in 1..n : s[i] \in Items /\ s[i].tag \notin Marks
  BY <1>1, ElementOfSeq DEF Exchange
<1>3. h \in Seq(Items) /\ Len(h) = n /\ \A i \in 1..n : h[i] = s[i]
  BY <1>1, FirstItems
<1>4. Item(t, 0) \in Items /\ Item(t, 0).tag = t
  BY ItemType, SomeTags
<1> HIDE DEF h
<1>5. /\ a \in Seq(Items) /\ a # << >> /\ Len(a) = n + 1
      /\ \A i \in 1..n : a[i] = s[i]
      /\ a[n + 1] = Item(t, 0)
  BY <1>3, <1>4, AppendProperties
<1> HIDE DEF a
<1>6. ASSUME NEW i \in 1..Len(a)
      PROVE  IF a[i].tag \in Marks THEN i = Len(a)
             ELSE 0 + i <= Len(s) /\ a[i] = s[0 + i]
  <2>1. CASE i \in 1..n
    BY <1>1, <1>2, <1>5, <2>1
  <2>2. CASE i = n + 1
    BY <1>4, <1>5, <2>2
  <2> QED
    BY <1>1, <1>5, <2>1, <2>2
<1>7. a[Len(a)].tag = t
  BY <1>4, <1>5
<1>8. Continues(a, s, 0)
  <2>1. 0 + Len(a) = n + 1 /\ 0 \in 0..Len(s)
    BY <1>1, <1>5
  <2> QED
    BY <1>1, <1>5, <1>6, <1>7, <2>1 DEF Continues
<1> QED
  BY <1>4, <1>5, <1>8 DEF a, h

\* A response that is nothing but the items.
LEMMA Unmarked ==
  ASSUME NEW s, Exchange(s), s # << >>
  PROVE  Continues(s, s, 0)
<1>1. s \in Seq(Items) /\ Len(s) \in Nat /\ Len(s) > 0
  BY EmptySeq DEF Exchange
<1>2. /\ \A i \in 1..Len(s) : s[i].tag \notin Marks /\ 0 + i <= Len(s) /\ s[i] = s[0 + i]
      /\ s[Len(s)].tag \notin Marks
  BY <1>1 DEF Exchange
<1>3. "end" \in Marks
  BY DEF Marks
<1> QED
  BY <1>1, <1>2, <1>3 DEF Continues

\* Reading goes on with the item after those that were read.
LEMMA NextItem ==
  ASSUME NEW s, Exchange(s), NEW a \in Seq(Items), NEW p, Continues(a, s, p),
         a # << >>, a[1].tag \notin Marks
  PROVE  /\ p + 1 \in 1..Len(s) /\ a[1] = s[p + 1]
         /\ Tail(a) \in Seq(Items) /\ Len(Tail(a)) = Len(a) - 1
         /\ Tail(a) # << >> => Tail(a)[Len(Tail(a))] = a[Len(a)]
         /\ Tail(a) = << >> => Len(a) = 1
         /\ Continues(Tail(a), s, p + 1)
<1> DEFINE b == Tail(a)
<1>1. Len(s) \in Nat /\ p \in 0..Len(s) /\ Len(a) \in Nat \ {0}
  BY LenProperties, EmptySeq DEF Exchange, Continues
<1>2. b \in Seq(Items) /\ Len(b) = Len(a) - 1 /\ \A i \in 1..Len(b) : b[i] = a[i + 1]
  BY HeadTailProperties
<1>3. 1 \in 1..Len(a)
  BY <1>1
<1>4. p + 1 <= Len(s) /\ a[1] = s[p + 1]
  BY <1>3 DEF Continues
<1>5. (b = << >> => Len(b) = 0) /\ (b # << >> => Len(b) > 0 /\ b[Len(b)] = a[Len(a)])
  <2>1. b # << >> => Len(b) \in Nat \ {0}
    BY <1>2, EmptySeq
  <2>2. b # << >> => Len(b) \in 1..Len(b) /\ Len(b) + 1 = Len(a)
    BY <1>1, <1>2, <2>1
  <2> QED
    BY <1>2, <2>1, <2>2
<1> HIDE DEF b
<1>6. ASSUME NEW i \in 1..Len(b)
      PROVE  IF b[i].tag \in Marks THEN i = Len(b)
             ELSE (p + 1) + i <= Len(s) /\ b[i] = s[(p + 1) + i]
  <2>1. i + 1 \in 1..Len(a) /\ b[i] = a[i + 1] /\ p + (i + 1) = (p + 1) + i
    BY <1>1, <1>2
  <2>2. IF a[i + 1].tag \in Marks THEN i + 1 = Len(a)
        ELSE p + (i + 1) <= Len(s) /\ a[i + 1] = s[p + (i + 1)]
    BY <2>1 DEF Continues
  <2> QED
    BY <1>1, <1>2, <2>1, <2>2
<1>7. b = << >> => p + 1 = Len(s)
  <2>1. b = << >> => Len(a) = 1
    BY <1>1, <1>2, <1>5
  <2> QED
    BY <1>1, <2>1 DEF Continues
<1>8. (p + 1) + Len(b) = p + Len(a)
  BY <1>1, <1>2
<1>9. p + 1 \in 0..Len(s)
  BY <1>1, <1>4
<1>10. Continues(b, s, p + 1)
  BY <1>5, <1>6, <1>7, <1>8, <1>9 DEF Continues
<1>11. b = << >> => Len(a) = 1
  BY <1>1, <1>2, <1>5
<1> QED
  BY <1>1, <1>2, <1>4, <1>5, <1>9, <1>10, <1>11 DEF b

\* Where the response tells its end, all items are read.
LEMMA AllRead ==
  ASSUME NEW s, Exchange(s), NEW a \in Seq(Items), NEW p, Continues(a, s, p),
         a = << >> \/ a[1].tag = "end"
  PROVE  p = Len(s)
<1>1. CASE a = << >>
  BY <1>1 DEF Continues
<1>2. CASE a # << >>
  <2>1. Len(a) \in Nat \ {0} /\ Len(s) \in Nat /\ p \in 0..Len(s)
    BY <1>2, EmptySeq, LenProperties DEF Exchange, Continues
  <2>2. 1 \in 1..Len(a) /\ a[1].tag = "end"
    BY <1>2, <2>1
  <2>3. Len(a) = 1
    BY <2>2 DEF Continues, Marks
  <2> QED
    BY <1>2, <2>1, <2>2, <2>3 DEF Continues
<1> QED
  BY <1>1, <1>2

\* The answer about transactions in limbo: it is cut when there are at least as
\* many as there is room for, and has room for all of them otherwise.
LEMMA LimboAnswer ==
  ASSUME NEW s \in Seq(Items), NEW m \in 1..MaxLimbo, NEW a \in Answers("limbo", s, m)
  PROVE  \/ a = Append(s, Item("end", 0)) /\ Len(s) < m
         \/ \E n \in 0..Len(s) :
              a = Append(SubSeq(s, 1, n), Item("truncated", 0)) /\ n + 1 = m /\ n < Len(s)
         \/ a = s /\ s # << >> /\ Len(s) = m
<1> DEFINE cap == TRANS_ID_SIZE * m
           fit == {n \in 0..Len(s) : Entry * n + 1 <= cap}
           most == CHOOSE n \in fit : \A k \in fit : k <= n
           best == IF Len(s) < m THEN Len(s) ELSE m - 1
<1>1. Len(s) \in Nat /\ m \in Nat /\ m > 0
  BY LenProperties, Values0
<1>2. cap = 7 * m /\ Entry = 7
  BY DEF TRANS_ID_SIZE, Entry
<1>3. \A n \in 0..Len(s) : n \in fit <=> n < m
  BY <1>1, <1>2
<1>4. best \in fit /\ \A k \in fit : k <= best /\ k \in Nat
  BY <1>1, <1>3
<1>5. most = best
  <2>1. most \in fit /\ \A k \in fit : k <= most
    BY <1>4
  <2> HIDE DEF fit, best, most
  <2> QED
    BY <1>4, <2>1
<1>6. a \in LimboAnswers(s, cap)
  BY DEF Answers
<1>7. \/ best = Len(s) /\ a = Append(s, Item("end", 0))
      \/ best # Len(s) /\ a = Append(SubSeq(s, 1, best), Item("truncated", 0))
      \/ best # Len(s) /\ Entry * Len(s) = cap /\ a = s
  <2>1. \/ most = Len(s) /\ a = Append(s, Item("end", 0))
        \/ most # Len(s) /\ a = Append(SubSeq(s, 1, most), Item("truncated", 0))
        \/ most # Len(s) /\ Entry * Len(s) = cap /\ a = s
    BY <1>6 DEF LimboAnswers
  <2> HIDE DEF most, best, cap
  <2> QED
    BY <1>5, <2>1
<1>8. CASE best = Len(s)
  BY <1>1, <1>7, <1>8
<1>9. CASE best # Len(s)
  <2>1. best + 1 = m /\ best < Len(s) /\ best \in 0..Len(s)
    BY <1>1, <1>9
  <2>2. Entry * Len(s) = cap => Len(s) = m
    BY <1>1, <1>2
  <2>3. s # << >>
    BY <1>1, <2>1, EmptySeq
  <2> HIDE DEF best, cap
  <2> QED
    BY <1>7, <1>9, <2>1, <2>2, <2>3
<1> QED
  BY <1>8, <1>9

\* What the answer to a call looks like before it is read.
LEMMA AnswerTypes ==
  ASSUME NEW q \in Readers, NEW s, Meets(q, s), NEW m \in 1..MaxLimbo,
         NEW a \in Answers(q, s, m)
  PROVE  /\ Exchange(s) /\ a \in Seq(Items) /\ a # << >> /\ Continues(a, s, 0)
         /\ q = "exception" => a[Len(a)].tag = "end"
<1>1. Exchange(s) /\ s \in Seq(Items) /\ Len(s) \in Nat
  BY MeetsKnown DEF Exchange
<1>2. ASSUME NEW n \in 0..Len(s), NEW t \in Marks, t = "end" => n = Len(s),
             a = Append(SubSeq(s, 1, n), Item(t, 0))
      PROVE  /\ a \in Seq(Items) /\ a # << >> /\ Continues(a, s, 0)
             /\ a[Len(a)].tag = t
  <2>1. a \in Seq(Items) /\ Len(a) = n + 1 /\ a[n + 1].tag = t /\ Continues(a, s, 0)
    BY <1>1, <1>2, Marked
  <2> QED
    BY <1>1, <2>1, EmptySeq
<1>3. a = Append(s, Item("end", 0)) =>
        /\ a \in Seq(Items) /\ a # << >> /\ Continues(a, s, 0) /\ a[Len(a)].tag = "end"
  <2>1. SubSeq(s, 1, Len(s)) = s
    BY <1>1, SubSeqFull
  <2>2. Len(s) \in 0..Len(s) /\ "end" \in Marks
    BY <1>1 DEF Marks
  <2> QED
    BY <1>2, <2>1, <2>2
<1>4. CASE q = "limbo"
  <2>1. \/ a = Append(s, Item("end", 0))
        \/ \E n \in 0..Len(s) : a = Append(SubSeq(s, 1, n), Item("truncated", 0))
        \/ a = s /\ s # << >>
    BY <1>1, <1>4, LimboAnswer
  <2>2. "truncated" \in Marks /\ "truncated" # "end"
    BY DEF Marks
  <2> QED
    BY <1>1, <1>2, <1>3, <1>4, <2>1, <2>2, Unmarked
<1>5. CASE q \in {"exception", "statistics"}
  BY <1>1, <1>3, <1>5 DEF Answers
<1>6. CASE q \notin {"limbo", "exception", "statistics"}
  <2>1. \/ a = Append(s, Item("end", 0))
        \/ \E n \in 0..Len(s), t \in {"truncated", "other"} :
             a = Append(SubSeq(s, 1, n), Item(t, 0))
    BY <1>6 DEF Answers
  <2>2. \A t \in {"truncated", "other"} : t \in Marks /\ t # "end"
    BY DEF Marks
  <2> QED
    BY <1>1, <1>2, <1>3, <1>6, <2>1, <2>2
<1> QED
  BY <1>4, <1>5, <1>6

-----------------------------------------------------------------------------
(* The steps of the readers.                                               *)

\* What a reader has before it, at an item it knows.
LEMMA AtItem ==
  ASSUME IInv, status = "reading", Tag \in Known[reader], NEW p, Follows(p)
  PROVE  /\ left # << >> /\ Tag = left[1].tag /\ left[1] = sent[p + 1] /\ left[1].val \in Nat
         /\ p \in Nat /\ p + 1 \in 1..Len(sent) /\ Meets(reader, sent)
         /\ reader # "users" => sent \in Content(reader)
         /\ Tail(left) \in Seq(Items) /\ Len(Tail(left)) = Len(left) - 1
         /\ Tail(left) # << >> => Tail(left)[Len(Tail(left))] = left[Len(left)]
         /\ Tail(left) = << >> => Len(left) = 1
         /\ Continues(Tail(left), sent, p + 1)
<1>1. /\ reader \in Readers /\ Meets(reader, sent) /\ left \in Seq(Items)
      /\ p \in Nat
  BY DEF IInv, Types, TypeOK, Follows, Continues
<1>2. Exchange(sent) /\ \A i \in 1..Len(sent) : sent[i].val \in Nat
  BY <1>1, MeetsKnown DEF Exchange
<1>3. Tag \notin Marks
  BY <1>1, KnownTags
<1>4. left # << >> /\ Tag = left[1].tag
  BY <1>3 DEF Tag, Marks
<1>5. /\ p + 1 \in 1..Len(sent) /\ left[1] = sent[p + 1]
      /\ Tail(left) \in Seq(Items) /\ Len(Tail(left)) = Len(left) - 1
      /\ Tail(left) # << >> => Tail(left)[Len(Tail(left))] = left[Len(left)]
      /\ Tail(left) = << >> => Len(left) = 1
      /\ Continues(Tail(left), sent, p + 1)
  BY <1>1, <1>2, <1>3, <1>4, NextItem DEF Follows
<1> QED
  BY <1>1, <1>2, <1>4, <1>5 DEF Meets

\* Nothing that can be listed is undefined.
LEMMA NothingUndef ==
  ASSUME NEW s \in Seq(Things)
  PROVE  Undef \notin {s[i] : i \in DOMAIN s}
<1>1. Undef \notin Things
  BY UndefAssumption DEF Things, Account, Message
<1>2. \A i \in DOMAIN s : s[i] \in Things
  BY LenProperties, ElementOfSeq
<1> QED
  BY <1>1, <1>2

\* What the server said and what the reader finds stay the same until it returns.
LEMMA StillMeets ==
  ASSUME Types, status # "idle", UNCHANGED <<reader, said, whole, sent>>
  PROVE  Meets(reader, sent)' /\ (reader = "users" => Partly)'
<1>1. Meets(reader, sent) /\ (reader = "users" => Partly)
  BY DEF Types
<1>2. Meets(reader, sent)'
  BY <1>1 DEF Meets
<1>3. (reader = "users" => Partly)'
  BY <1>1 DEF Partly
<1> QED
  BY <1>2, <1>3

\* An item is read: what remains to be shown is what was made of it.
LEMMA ReadKeeps ==
  ASSUME IInv, status = "reading", Tag \in Known[reader], NEW p, Follows(p),
         left' = Tail(left), UNCHANGED <<reader, said, whole, sent, limit, status>>,
         fields' \in [FieldNames -> Nat \union {Unset}],
         counts' \in [Counters \union {"affected"} -> Nat],
         list' \in Seq(Things), code' \in Nat,
         user' \in Account \union {Undef, Garbage},
         ReadSoFar(p + 1)'
  PROVE  IInv'
<1>1. Tail(left) \in Seq(Items) /\ Continues(Tail(left), sent, p + 1)
      /\ p + 1 \in 0..Len(sent) /\ Meets(reader, sent)
  BY AtItem
<1>2. Follows(p + 1)'
  BY <1>1 DEF Follows
<1>3. Types'
  <2>1. Undef \notin {list'[i] : i \in DOMAIN list'}
    BY NothingUndef
  <2>2. Meets(reader, sent)' /\ (reader = "users" => Partly)'
    BY StillMeets DEF IInv
  <2> QED
    BY <1>1, <2>1, <2>2 DEF IInv, Types, TypeOK
<1>4. Stops' /\ UsersWhole'
  BY DEF Stops, UsersWhole
<1> QED
  BY <1>1, <1>2, <1>3, <1>4 DEF IInv

\* The types of what a reader writes.
LEMMA Written ==
  ASSUME Types
  PROVE  /\ fields \in [FieldNames -> Nat \union {Unset}]
         /\ counts \in [Counters \union {"affected"} -> Nat]
         /\ list \in Seq(Things) /\ code \in Nat
         /\ user \in Account \union {Undef, Garbage}
         /\ reader \in Readers /\ limit \in 1..MaxLimbo
         /\ sent \in Seq(Items) /\ left \in Seq(Items)
  BY DEF Types, TypeOK

\* Before a step of a reader, the invariant names the items that are read.
LEMMA Before ==
  ASSUME IInv, status # "idle"
  PROVE  Types /\ \E p \in Nat : p \in 0..Len(sent) /\ Follows(p) /\ ReadSoFar(p)
<1>1. Len(sent) \in Nat
  BY LenProperties DEF IInv, Types
<1> QED
  BY <1>1 DEF IInv

\* Information about the database.  The file size also ends up as the pages in
\* use, which are read next.
LEMMA DbItemStep ==
  ASSUME IInv, ReadDbItem
  PROVE  IInv'
<1>1. /\ status = "reading" /\ reader = "db_info" /\ Tag \in Known[reader]
      /\ left' = Tail(left) /\ UNCHANGED <<reader, said, whole, sent, limit, status, list, user, code, counts>>
      /\ fields' = [fields EXCEPT ![Tag] = left[1].val,
           !["pages_used"] = IF Tag \in {"db_file_size", "pages_used"} THEN left[1].val ELSE @]
  BY Readers0 DEF ReadDbItem, Sees, Rest
<1>2. PICK p \in Nat : Follows(p) /\ ReadSoFar(p)
  BY <1>1, Before
<1>3. /\ Types /\ Tag = sent[p + 1].tag /\ left[1].val = sent[p + 1].val /\ left[1].val \in Nat
      /\ p + 1 \in 1..Len(sent) /\ sent \in Content("db_info")
  BY <1>1, <1>2, AtItem, Before
<1>4. /\ Len(sent) = 3 /\ sent[1].tag = "db_file_size" /\ sent[2].tag = "pages_used"
      /\ sent[3].tag = "sqlrole"
  BY <1>3, DbContent
<1>5. Tag \in {"db_file_size", "pages_used", "sqlrole"}
  BY <1>1, Readers0
<1>6. fields \in [FieldNames -> Nat \union {Unset}]
  BY <1>3, Written
<1>7. fields' \in [FieldNames -> Nat \union {Unset}]
  BY <1>1, <1>3, <1>5, <1>6 DEF FieldNames
<1>8. \A i \in 1..p : sent[i].tag \in FieldNames => fields[sent[i].tag] = sent[i].val
  BY <1>1, <1>2 DEF ReadSoFar, InfoRead
<1>9. /\ fields'[Tag] = left[1].val
      /\ \A f \in FieldNames : f # Tag /\ ~(Tag = "db_file_size" /\ f = "pages_used")
                                 => fields'[f] = fields[f]
  BY <1>1, <1>5, <1>6 DEF FieldNames
<1>10. ASSUME NEW i \in 1..(p + 1), sent[i].tag \in FieldNames
       PROVE  fields'[sent[i].tag] = sent[i].val
  <2>1. CASE i = p + 1
    BY <1>3, <1>9, <2>1
  <2>2. CASE i \in 1..p
    <3>1. (i = 1 /\ p \in {1, 2}) \/ (i = 2 /\ p = 2)
      BY <1>3, <1>4, <2>2
    <3>2. sent[i].tag # Tag /\ ~(Tag = "db_file_size" /\ sent[i].tag = "pages_used")
      BY <1>3, <1>4, <3>1
    <3> QED
      BY <1>8, <1>9, <1>10, <2>2, <3>2
  <2> QED
    BY <1>2, <2>1, <2>2
<1>11. ReadSoFar(p + 1)'
  BY <1>1, <1>10 DEF ReadSoFar, InfoRead
<1> QED
  BY <1>1, <1>2, <1>3, <1>7, <1>11, ReadKeeps, Written

\* Information about the server.
LEMMA ServerItemStep ==
  ASSUME IInv, ReadServerItem
  PROVE  IInv'
<1>1. /\ status = "reading" /\ reader = "server_info" /\ Tag \in Known[reader]
      /\ left' = Tail(left) /\ UNCHANGED <<reader, said, whole, sent, limit, status, list, user, code, counts>>
      /\ fields' = [fields EXCEPT ![Tag] = left[1].val]
  BY Readers0 DEF ReadServerItem, Sees, Rest, Put
<1>2. PICK p \in Nat : Follows(p) /\ ReadSoFar(p)
  BY <1>1, Before
<1>3. /\ Types /\ Tag = sent[p + 1].tag /\ left[1].val = sent[p + 1].val /\ left[1].val \in Nat
      /\ p + 1 \in 1..Len(sent) /\ sent \in Content("server_info")
  BY <1>1, <1>2, AtItem, Before
<1>4. Len(sent) = 2 /\ sent[1].tag = "server_version" /\ sent[2].tag = "user_dbpath"
  BY <1>3, ServerContent
<1>5. Tag \in FieldNames
  BY <1>1, Readers0 DEF FieldNames
<1>6. fields \in [FieldNames -> Nat \union {Unset}]
  BY <1>3, Written
<1>7. fields' \in [FieldNames -> Nat \union {Unset}]
  BY <1>1, <1>3, <1>5, <1>6
<1>8. \A i \in 1..p : sent[i].tag \in FieldNames => fields[sent[i].tag] = sent[i].val
  BY <1>1, <1>2 DEF ReadSoFar, InfoRead
<1>9. ASSUME NEW i \in 1..(p + 1), sent[i].tag \in FieldNames
      PROVE  fields'[sent[i].tag] = sent[i].val
  <2>1. CASE i = p + 1
    BY <1>1, <1>3, <1>5, <1>6, <2>1
  <2>2. CASE i \in 1..p
    <3>1. i = 1 /\ p = 1
      BY <1>3, <1>4, <2>2
    <3>2. sent[i].tag # Tag
      BY <1>3, <1>4, <3>1
    <3> QED
      BY <1>1, <1>6, <1>8, <1>9, <2>2, <3>2
  <2> QED
    BY <1>2, <2>1, <2>2
<1>10. ReadSoFar(p + 1)'
  BY <1>1, <1>9 DEF ReadSoFar, InfoRead
<1> QED
  BY <1>1, <1>2, <1>3, <1>7, <1>10, ReadKeeps, Written

\* The databases in use: two numbers first.
LEMMA AttachmentsStep ==
  ASSUME IInv, ReadAttachments
  PROVE  IInv'
<1>1. /\ status = "reading" /\ reader = "databases" /\ Tag \in Known[reader]
      /\ Tag \in {"num_att", "num_db"}
      /\ left' = Tail(left) /\ UNCHANGED <<reader, said, whole, sent, limit, status, list, user, code, counts>>
      /\ fields' = [fields EXCEPT ![Tag] = left[1].val]
  BY Readers0 DEF ReadAttachments, Sees, Rest, Put
<1>2. PICK p \in Nat : Follows(p) /\ ReadSoFar(p)
  BY <1>1, Before
<1>3. /\ Types /\ Tag = sent[p + 1].tag /\ left[1].val = sent[p + 1].val /\ left[1].val \in Nat
      /\ p + 1 \in 1..Len(sent) /\ sent \in Content("databases")
  BY <1>1, <1>2, AtItem, Before
<1>4. /\ Len(sent) \in Nat /\ Len(sent) >= 3
      /\ sent[1].tag = "num_att" /\ sent[2].tag = "num_db" /\ sent[Len(sent)].tag = "flag_end"
      /\ \A i \in 3..(Len(sent) - 1) : sent[i].tag = "dbname"
  BY <1>3, DatabasesContent
<1>5. p < 2
  <2>1. p + 1 # Len(sent) /\ p + 1 \notin 3..(Len(sent) - 1)
    BY <1>1, <1>3, <1>4
  <2> QED
    BY <1>3, <1>4, <2>1
<1>6. fields \in [FieldNames -> Nat \union {Unset}] /\ Tag \in FieldNames
  BY <1>1, <1>3, Written DEF FieldNames
<1>7. fields' \in [FieldNames -> Nat \union {Unset}]
  BY <1>1, <1>3, <1>6
<1>8. /\ \A i \in 1..p : sent[i].tag \in FieldNames => fields[sent[i].tag] = sent[i].val
      /\ Len(list) = 0
  BY <1>1, <1>2, <1>5 DEF ReadSoFar, InfoRead
<1>9. ASSUME NEW i \in 1..(p + 1), sent[i].tag \in FieldNames
      PROVE  fields'[sent[i].tag] = sent[i].val
  <2>1. CASE i = p + 1
    BY <1>1, <1>3, <1>6, <2>1
  <2>2. CASE i \in 1..p
    <3>1. i = 1 /\ p = 1
      BY <1>5, <2>2
    <3>2. sent[i].tag # Tag
      BY <1>3, <1>4, <3>1
    <3> QED
      BY <1>1, <1>6, <1>8, <1>9, <2>2, <3>2
  <2> QED
    BY <1>2, <2>1, <2>2
<1>10. list' = list /\ DOMAIN list = {}
  <2>1. DOMAIN list = 1..Len(list)
    BY <1>3, Written, LenProperties
  <2> QED
    BY <1>1, <1>8, <2>1
<1>11. ReadSoFar(p + 1)'
  BY <1>1, <1>4, <1>5, <1>8, <1>9, <1>10 DEF ReadSoFar, InfoRead
<1> QED
  BY <1>1, <1>2, <1>3, <1>7, <1>11, ReadKeeps, Written

\* The names that follow, and the flag behind them.
LEMMA DbNameStep ==
  ASSUME IInv, ReadDbName
  PROVE  IInv'
<1>1. /\ status = "reading" /\ reader = "databases" /\ Tag \in Known[reader]
      /\ Tag \in {"dbname", "flag_end"}
      /\ left' = Tail(left) /\ UNCHANGED <<reader, said, whole, sent, limit, status, fields, user, code, counts>>
      /\ list' = IF Tag = "dbname" THEN Append(list, left[1].val) ELSE list
  BY Readers0 DEF ReadDbName, Sees, Rest
<1>2. PICK p \in Nat : Follows(p) /\ ReadSoFar(p)
  BY <1>1, Before
<1>3. /\ Types /\ Tag = sent[p + 1].tag /\ left[1].val = sent[p + 1].val /\ left[1].val \in Nat
      /\ p + 1 \in 1..Len(sent) /\ sent \in Content("databases")
  BY <1>1, <1>2, AtItem, Before
<1>4. /\ Len(sent) \in Nat /\ Len(sent) >= 3
      /\ sent[1].tag = "num_att" /\ sent[2].tag = "num_db" /\ sent[Len(sent)].tag = "flag_end"
      /\ \A i \in 3..(Len(sent) - 1) : sent[i].tag = "dbname"
  BY <1>3, DatabasesContent
<1>5. p >= 2 /\ p < Len(sent) /\ (Tag = "flag_end" <=> p + 1 = Len(sent))
  <2>1. p + 1 # 1 /\ p + 1 # 2
    BY <1>1, <1>3, <1>4
  <2>2. p + 1 = Len(sent) \/ p + 1 \in 3..(Len(sent) - 1)
    BY <1>3, <1>4, <2>1
  <2> QED
    BY <1>3, <1>4, <2>1, <2>2
<1>6. list \in Seq(Things) /\ left[1].val \in Things
  BY <1>3, Written DEF Things
<1>7. /\ \A i \in 1..p : sent[i].tag \in FieldNames => fields[sent[i].tag] = sent[i].val
      /\ Len(list) = p - 2
      /\ \A i \in 1..Len(list) : list[i] = sent[i + 2].val
  <2>1. DOMAIN list = 1..Len(list)
    BY <1>6, LenProperties
  <2> QED
    BY <1>1, <1>2, <1>5, <2>1 DEF ReadSoFar, InfoRead
<1>8. ASSUME NEW i \in 1..(p + 1), sent[i].tag \in FieldNames
      PROVE  fields'[sent[i].tag] = sent[i].val
  <2>1. Tag \notin FieldNames
    BY <1>1 DEF FieldNames
  <2>2. i # p + 1
    BY <1>3, <1>8, <2>1
  <2> QED
    BY <1>1, <1>2, <1>7, <1>8, <2>2
<1>9. /\ list' \in Seq(Things)
      /\ Len(list') = IF p + 1 < Len(sent) THEN (p + 1) - 2 ELSE (p + 1) - 3
      /\ \A i \in 1..Len(list') : list'[i] = sent[i + 2].val
  <2>1. CASE Tag = "flag_end"
    <3>1. list' = list /\ ~(p + 1 < Len(sent)) /\ (p + 1) - 3 = p - 2
      BY <1>1, <1>4, <1>5, <2>1
    <3> QED
      BY <1>6, <1>7, <3>1
  <2>2. CASE Tag = "dbname"
    <3>1. list' = Append(list, left[1].val)
      BY <1>1, <2>2
    <3>2. /\ list' \in Seq(Things) /\ Len(list') = Len(list) + 1
          /\ \A i \in 1..Len(list) : list'[i] = list[i]
          /\ list'[Len(list) + 1] = left[1].val
      BY <1>6, <3>1, AppendProperties
    <3>3. p + 1 < Len(sent) /\ Len(list) + 1 = p - 1 /\ (p - 1) + 2 = p + 1
      BY <1>3, <1>4, <1>5, <1>7, <2>2
    <3>4. \A i \in 1..(p - 1) : i \in 1..Len(list) \/ i = p - 1
      BY <1>5, <1>7
    <3>5. list'[p - 1] = sent[(p - 1) + 2].val
      BY <1>3, <3>2, <3>3
    <3>6. \A i \in 1..(p - 1) : list'[i] = sent[i + 2].val
      <4>1. \A i \in 1..Len(list) : list'[i] = sent[i + 2].val
        BY <1>7, <3>2
      <4> QED
        BY <3>4, <3>5, <4>1
    <3>7. Len(list') = p - 1 /\ (p + 1) - 2 = p - 1
      BY <3>2, <3>3
    <3> QED
      BY <3>2, <3>3, <3>6, <3>7
  <2> QED
    BY <1>1, <2>1, <2>2
<1>10. DOMAIN list' = 1..Len(list')
  BY <1>9, LenProperties
<1>11. ReadSoFar(p + 1)'
  <2>1. reader' = "databases" /\ sent' = sent /\ ~(p + 1 < 2)
    BY <1>1, <1>5
  <2> QED
    BY <1>8, <1>9, <1>10, <2>1 DEF ReadSoFar, InfoRead
<1> QED
  BY <1>1, <1>2, <1>3, <1>9, <1>11, ReadKeeps, Written

\* A transaction in limbo.
LEMMA LimboStep ==
  ASSUME IInv, ReadLimbo
  PROVE  IInv'
<1>1. /\ status = "reading" /\ reader = "limbo" /\ Tag \in Known[reader]
      /\ UNCHANGED <<reader, said, whole, sent, limit, status, fields, user, code, counts>>
      /\ list' = IF Len(list) < limit THEN Append(list, left[1].val) ELSE list
      /\ left' = IF Len(list) < limit THEN Tail(left) ELSE << >>
  BY Readers0 DEF ReadLimbo, Sees
<1>2. PICK p \in Nat : Follows(p) /\ ReadSoFar(p)
  BY <1>1, Before
<1>3. /\ Types /\ left # << >> /\ Tag = left[1].tag
      /\ left[1].val = sent[p + 1].val /\ left[1].val \in Nat
      /\ p + 1 \in 1..Len(sent) /\ Len(Tail(left)) = Len(left) - 1
      /\ Tail(left) # << >> => Tail(left)[Len(Tail(left))] = left[Len(left)]
      /\ Tail(left) = << >> => Len(left) = 1
  BY <1>1, <1>2, AtItem, Before
<1>4. /\ list \in Seq(Things) /\ left[1].val \in Things /\ limit \in Nat
      /\ left \in Seq(Items) /\ Len(left) \in Nat \ {0} /\ Len(sent) \in Nat
  BY <1>3, Written, EmptySeq, LenProperties, Values0 DEF Things
<1>5. LimboRead(p)
  BY <1>1, <1>2 DEF ReadSoFar
<1>6. left[1].tag # "truncated"
  BY <1>1, <1>3, Readers0
<1>7. p < limit
  <2>1. CASE Cut
    <3>1. Len(left) # 1
      BY <1>6, <2>1 DEF Cut
    <3> QED
      BY <1>4, <1>5, <2>1, <3>1 DEF LimboRead
  <2>2. CASE ~Cut
    BY <1>3, <1>4, <1>5, <2>2 DEF LimboRead
  <2> QED
    BY <2>1, <2>2
<1>8. list' = Append(list, left[1].val) /\ left' = Tail(left)
  BY <1>1, <1>5, <1>7 DEF LimboRead
<1>9. /\ list' \in Seq(Things) /\ Len(list') = p + 1
      /\ \A i \in 1..(p + 1) : list'[i] = sent[i].val
  <2>1. /\ list' \in Seq(Things) /\ Len(list') = Len(list) + 1
        /\ \A i \in 1..Len(list) : list'[i] = list[i]
        /\ list'[Len(list) + 1] = left[1].val
    BY <1>4, <1>8, AppendProperties
  <2>2. Len(list) = p /\ \A i \in 1..p : list[i] = sent[i].val
    BY <1>5 DEF LimboRead
  <2>3. \A i \in 1..(p + 1) : i \in 1..p \/ i = p + 1
    OBVIOUS
  <2> QED
    BY <1>3, <2>1, <2>2, <2>3
<1>10. Cut' <=> Cut
  <2>1. CASE Tail(left) = << >>
    <3>1. ~Cut
      BY <1>3, <1>6, <2>1 DEF Cut
    <3> QED
      BY <1>8, <2>1, <3>1 DEF Cut
  <2>2. CASE Tail(left) # << >>
    BY <1>3, <1>8, <2>2 DEF Cut
  <2> QED
    BY <2>1, <2>2
<1>11. left' # << >> => left'[Len(left')].tag # "other"
  BY <1>3, <1>5, <1>8 DEF LimboRead
<1>12. IF Cut' THEN Len(sent) >= limit /\ (p + 1) + Len(left') <= limit
       ELSE Len(sent) <= limit
  <2>1. (p + 1) + Len(left') = p + Len(left)
    BY <1>3, <1>4, <1>8
  <2> QED
    BY <1>5, <1>10, <2>1 DEF LimboRead
<1>13. ReadSoFar(p + 1)'
  BY <1>1, <1>9, <1>11, <1>12 DEF ReadSoFar, LimboRead
<1> QED
  BY <1>1, <1>2, <1>3, <1>8, <1>9, <1>13, ReadKeeps, Written

\* A counter of the statement, which no other item adds to.
LEMMA CountStep ==
  ASSUME IInv, ReadCount
  PROVE  IInv'
<1>1. /\ status = "reading" /\ reader = "statistics" /\ Tag \in Known[reader] /\ Tag \in Counters
      /\ left' = Tail(left) /\ UNCHANGED <<reader, said, whole, sent, limit, status, fields, list, user, code>>
      /\ counts' = [counts EXCEPT ![Tag] = @ + left[1].val]
  BY Readers0 DEF ReadCount, Sees, Rest
<1>2. PICK p \in Nat : Follows(p) /\ ReadSoFar(p)
  BY <1>1, Before
<1>3. /\ Types /\ Tag = sent[p + 1].tag /\ left[1].val = sent[p + 1].val /\ left[1].val \in Nat
      /\ p + 1 \in 1..Len(sent) /\ sent \in Content("statistics")
  BY <1>1, <1>2, AtItem, Before
<1>4. /\ Len(sent) \in Nat /\ \A i \in 1..Len(sent) : sent[i].tag \in Counters
      /\ \A i, j \in 1..Len(sent) : sent[i].tag = sent[j].tag => i = j
  BY <1>3, StatisticsContent, LenProperties
<1>5. counts \in [Counters \union {"affected"} -> Nat]
  BY <1>3, Written
<1>6. counts' \in [Counters \union {"affected"} -> Nat]
  BY <1>1, <1>3, <1>5
<1>7. /\ \A i \in 1..p : counts[sent[i].tag] = sent[i].val
      /\ \A c \in Counters : (\A i \in 1..p : sent[i].tag # c) => counts[c] = 0
  BY <1>1, <1>2 DEF ReadSoFar, CountsRead
<1>8. \A i \in 1..p : i \in 1..Len(sent) /\ sent[i].tag # Tag
  <2>1. \A i \in 1..p : i \in 1..Len(sent) /\ i # p + 1
    BY <1>2, <1>3, <1>4
  <2> QED
    BY <1>3, <1>4, <2>1
<1>9. counts[Tag] = 0
  BY <1>1, <1>7, <1>8
<1>10. counts'[Tag] = left[1].val /\ \A c \in Counters : c # Tag => counts'[c] = counts[c]
  BY <1>1, <1>3, <1>5, <1>9
<1>11. \A i \in 1..(p + 1) : i \in 1..p \/ i = p + 1
  OBVIOUS
<1>12. \A i \in 1..(p + 1) : counts'[sent[i].tag] = sent[i].val
  BY <1>3, <1>4, <1>7, <1>8, <1>10, <1>11
<1>13. ASSUME NEW c \in Counters, \A i \in 1..(p + 1) : sent[i].tag # c
       PROVE  counts'[c] = 0
  <2>1. c # Tag /\ \A i \in 1..p : sent[i].tag # c
    BY <1>2, <1>3, <1>13
  <2> QED
    BY <1>7, <1>10, <2>1
<1>14. ReadSoFar(p + 1)'
  BY <1>1, <1>12, <1>13 DEF ReadSoFar, CountsRead
<1> QED
  BY <1>1, <1>2, <1>3, <1>6, <1>14, ReadKeeps, Written

\* The code of a message, or of the end, is a number.
LEMMA CodeType ==
  ASSUME NEW s \in Seq(Items), s # << >>
  PROVE  CodeAt(s) \in Nat
<1>1. s[1] \in Items
  BY EmptySeq, ElementOfSeq
<1> QED
  BY <1>1 DEF CodeAt, Items

\* A message of an exception.
LEMMA MessageStep ==
  ASSUME IInv, ReadMessage
  PROVE  IInv'
<1>1. /\ status = "reading" /\ reader = "exception" /\ Tag \in Known[reader]
      /\ left' = Tail(left) /\ UNCHANGED <<reader, said, whole, sent, limit, status, user, counts>>
      /\ fields' = IF list = << >> \/ sent[Len(list)].tag # Tag
                   THEN [fields EXCEPT !["code"] = code] ELSE fields
      /\ list' = Append(list, [msg |-> Len(list) + 1, code |-> code])
      /\ code' = CodeAt(Tail(left))
  BY Readers0 DEF ReadMessage, Sees, Rest
<1>2. PICK p \in Nat : Follows(p) /\ ReadSoFar(p)
  BY <1>1, Before
<1>3. /\ Types /\ left # << >> /\ Tag = left[1].tag /\ left[1] = sent[p + 1]
      /\ left[1].val \in Nat /\ p + 1 \in 1..Len(sent)
      /\ Tail(left) \in Seq(Items)
      /\ Tail(left) # << >> => Tail(left)[Len(Tail(left))] = left[Len(left)]
      /\ Tail(left) = << >> => Len(left) = 1
  BY <1>1, <1>2, AtItem, Before
<1>4. CodesRead(p)
  BY <1>1, <1>2 DEF ReadSoFar
<1>5. /\ list \in Seq(Things) /\ Len(list) = p
      /\ fields \in [FieldNames -> Nat \union {Unset}] /\ "code" \in FieldNames
      /\ code \in Nat
  BY <1>3, <1>4, Written DEF CodesRead, FieldNames
<1>6. code = sent[p + 1].val
  BY <1>1, <1>3, <1>4 DEF CodesRead, CodeAt, Known
<1>7. Tail(left) # << >> /\ Tail(left)[Len(Tail(left))].tag = "end"
  <2>1. left[Len(left)].tag = "end"
    BY <1>4 DEF CodesRead
  <2>2. Tag # "end"
    BY <1>1, Readers0
  <2> QED
    BY <1>3, <2>1, <2>2
<1>8. code' \in Nat
  BY <1>1, <1>3, <1>7, CodeType
<1>9. fields' \in [FieldNames -> Nat \union {Unset}]
  BY <1>1, <1>5
<1>10. /\ list' \in Seq(Things) /\ Len(list') = p + 1
       /\ \A i \in 1..(p + 1) : list'[i] = [msg |-> i, code |-> sent[i].val]
  <2>1. [msg |-> p + 1, code |-> code] \in Things
    BY <1>2, <1>5 DEF Things, Message
  <2>2. /\ list' \in Seq(Things) /\ Len(list') = p + 1
        /\ \A i \in 1..p : list'[i] = list[i]
        /\ list'[p + 1] = [msg |-> p + 1, code |-> code]
    BY <1>1, <1>5, <2>1, AppendProperties
  <2>3. \A i \in 1..p : list[i] = [msg |-> i, code |-> sent[i].val]
    BY <1>4 DEF CodesRead
  <2>4. \A i \in 1..(p + 1) : i \in 1..p \/ i = p + 1
    OBVIOUS
  <2> QED
    BY <1>6, <2>2, <2>3, <2>4
<1>11. ASSUME \A i \in 1..(p + 1) : sent[i].tag = "error"
       PROVE  fields'["code"] = sent[1].val
  <2>1. CASE p = 0
    <3>1. list = << >>
      BY <1>5, <2>1, EmptySeq
    <3> QED
      BY <1>1, <1>5, <1>6, <2>1, <3>1
  <2>2. CASE p > 0
    <3>1. p \in 1..(p + 1) /\ p + 1 \in 1..(p + 1) /\ \A i \in 1..p : i \in 1..(p + 1)
      BY <2>2
    <3>2. sent[Len(list)].tag = Tag
      BY <1>3, <1>5, <1>11, <3>1
    <3>3. list # << >>
      BY <1>5, <2>2, EmptySeq
    <3>4. fields["code"] = sent[1].val
      BY <1>4, <1>11, <2>2, <3>1 DEF CodesRead
    <3> QED
      BY <1>1, <3>2, <3>3, <3>4
  <2> QED
    BY <2>1, <2>2
<1>12. ReadSoFar(p + 1)'
  BY <1>1, <1>7, <1>10, <1>11 DEF ReadSoFar, CodesRead
<1> QED
  BY <1>1, <1>2, <1>3, <1>8, <1>9, <1>10, <1>12, ReadKeeps, Written

-----------------------------------------------------------------------------
(* User accounts.                                                          *)

\* The accounts begun can be counted.
LEMMA BegunFinite ==
  ASSUME NEW p \in Nat
  PROVE  /\ IsFiniteSet(Begun(p)) /\ Cardinality(Begun(p)) \in Nat
         /\ Begun(p) \subseteq 1..p
<1>1. Begun(p) \subseteq 1..p
  BY DEF Begun
<1>2. IsFiniteSet(1..p)
  BY FS_Interval
<1>3. IsFiniteSet(Begun(p))
  BY <1>1, <1>2, FS_Subset
<1> QED
  BY <1>1, <1>3, FS_CardinalityType

\* No account has begun before the first item.
LEMMA BegunNone == Begun(0) = {} /\ Cardinality(Begun(0)) = 0
<1>1. Begun(0) = {}
  BY DEF Begun
<1> QED
  BY <1>1, FS_EmptySet

\* One more item begins at most one more account.
LEMMA BegunNext ==
  ASSUME NEW p \in Nat
  PROVE  IF sent[p + 1].tag = "username"
         THEN Begun(p + 1) = Begun(p) \union {p + 1}
              /\ Cardinality(Begun(p + 1)) = Cardinality(Begun(p)) + 1
         ELSE Begun(p + 1) = Begun(p)
<1>1. p + 1 \notin Begun(p) /\ IsFiniteSet(Begun(p))
  BY BegunFinite DEF Begun
<1>2. \A i : i \in 1..(p + 1) <=> i \in 1..p \/ i = p + 1
  OBVIOUS
<1>3. CASE sent[p + 1].tag = "username"
  <2>1. Begun(p + 1) = Begun(p) \union {p + 1}
    BY <1>2, <1>3 DEF Begun
  <2> QED
    BY <1>1, <1>3, <2>1, FS_AddElement
<1>4. CASE sent[p + 1].tag # "username"
  BY <1>2, <1>4 DEF Begun
<1> QED
  BY <1>3, <1>4

\* An account is counted in its place.
LEMMA BegunOrder ==
  ASSUME NEW p \in Nat, NEW i \in Begun(p)
  PROVE  /\ i \in Nat \ {0} /\ i <= p /\ i \in Begun(i)
         /\ Cardinality(Begun(i)) \in Nat /\ Cardinality(Begun(i)) >= 1
         /\ Cardinality(Begun(i)) <= Cardinality(Begun(p))
<1>1. i \in Nat \ {0} /\ i <= p /\ i \in Begun(i)
  BY DEF Begun
<1>2. Begun(i) \subseteq Begun(p)
  BY <1>1 DEF Begun
<1>3. /\ IsFiniteSet(Begun(i)) /\ Cardinality(Begun(i)) \in Nat
      /\ IsFiniteSet(Begun(p)) /\ Cardinality(Begun(p)) \in Nat
  BY <1>1, BegunFinite
<1>4. Cardinality(Begun(i)) # 0
  BY <1>1, <1>3, FS_EmptySet
<1>5. Cardinality(Begun(i)) <= Cardinality(Begun(p))
  BY <1>2, <1>3, FS_Subset
<1> QED
  BY <1>1, <1>3, <1>4, <1>5

\* The fields of the account that begins at m are said once each, before the
\* next one begins.
LEMMA OwnOnce ==
  ASSUME Partly, NEW m \in 1..Len(said), NEW f \in UserFields, said[m].tag = "username",
         NEW i \in m..Len(said), NEW j \in m..Len(said), said[i].tag = f, said[j].tag = f,
         \A k \in m + 1..i : said[k].tag # "username", \A k \in m + 1..j : said[k].tag # "username"
  PROVE  i = j
<1>1. /\ \A g, h \in 1..Len(said) : g < h /\ said[g].tag = said[h].tag /\ said[g].tag # "username" =>
           \E k \in g..h : said[k].tag = "username"
      /\ Len(said) \in Nat
  BY UsersContent, LenProperties DEF Partly
<1>2. ASSUME NEW g \in m..Len(said), NEW h \in m..Len(said), g < h, said[g].tag = f, said[h].tag = f,
             \A k \in m + 1..h : said[k].tag # "username"
      PROVE  FALSE
  <2>1. f # "username"
    <3>1. h \in m + 1..h
      BY <1>2
    <3> QED
      BY <1>2, <3>1
  <2>2. g # m
    BY <1>2, <2>1
  <2>3. PICK k \in g..h : said[k].tag = "username"
    BY <1>1, <1>2, <2>1
  <2>4. k \in m + 1..h
    BY <1>2, <2>2, <2>3
  <2> QED
    BY <1>2, <2>3, <2>4
<1> QED
  BY <1>1, <1>2

\* A field of user is that of the account at m, or has not come yet.
LEMMA FieldOf ==
  ASSUME Partly, NEW m \in 1..whole, NEW p \in m..whole, said[m].tag = "username", HasFields(m, p),
         \A k \in (m + 1)..p : said[k].tag # "username", NEW f \in UserFields
  PROVE  /\ user[f] \in {AccountAt(m)[f], Unset}
         /\ (\A j \in (p + 1)..Len(said) :
               said[j].tag = f => \E k \in m + 1..j : said[k].tag = "username") => user[f] = AccountAt(m)[f]
<1> DEFINE Own == {j \in m..Len(said) : said[j].tag = f /\ \A k \in m + 1..j : said[k].tag # "username"}
<1>1. AccountAt(m)[f] = IF Own = {} THEN Unset ELSE said[CHOOSE j \in Own : TRUE].val
  BY DEF AccountAt
<1>2. Len(said) \in Nat /\ whole \in 0..Len(said)
  BY UsersContent, LenProperties DEF Partly
<1>3. CASE \E i \in m..p : said[i].tag = f
  <2>1. PICK i \in m..p : said[i].tag = f
    BY <1>3
  <2>2. user[f] = said[i].val
    BY <2>1 DEF HasFields
  <2>3. i \in Own
    BY <1>2, <2>1
  <2>4. PICK j \in Own : j = CHOOSE z \in Own : TRUE
    BY <2>3
  <2>5. i = j
    BY <1>2, <2>1, <2>3, <2>4, OwnOnce
  <2> HIDE DEF Own
  <2> QED
    BY <1>1, <2>2, <2>3, <2>4, <2>5
<1>4. CASE \A i \in m..p : said[i].tag # f
  <2>1. user[f] = Unset
    BY <1>4 DEF HasFields
  <2>2. ASSUME \A j \in (p + 1)..Len(said) :
                 said[j].tag = f => \E k \in m + 1..j : said[k].tag = "username"
        PROVE  Own = {}
    <3> SUFFICES ASSUME NEW j \in Own PROVE FALSE
      OBVIOUS
    <3>1. j \in m..p \/ j \in (p + 1)..Len(said)
      BY <1>2
    <3> QED
      BY <1>4, <2>2, <3>1
  <2> QED
    BY <1>1, <2>1, <2>2
<1> QED
  BY <1>3, <1>4

\* Where the next account begins, and at the end, the one at hand tells what has
\* come of it.
LEMMA AccountDone ==
  ASSUME Partly, Len(sent) \in Nat, NEW m \in Nat, NEW p \in Nat, Holds(m, p), p <= Len(sent),
         p = Len(sent) \/ (p < Len(sent) /\ sent[p + 1].tag = "username"), m <= whole
  PROVE  TellsOf(m, user)
<1>1. /\ m \in 1..p /\ sent[m].tag = "username" /\ \A k \in (m + 1)..p : sent[k].tag # "username"
      /\ user \in [UserFields -> Nat \union {Unset}]
  BY DEF Holds, Begun, Account
<1>2. /\ Len(said) \in Nat /\ whole \in 0..Len(said) /\ whole <= Len(sent)
      /\ \A i \in 1..whole : sent[i] = said[i]
      /\ whole = Len(said) => sent = said
  BY UsersContent, LenProperties DEF Partly
<1>3. CASE p > whole
  <2>1. ~Complete(m)
    <3>1. whole # Len(said)
      BY <1>2, <1>3
    <3>2. ASSUME NEW j \in m + 1..whole, said[j].tag = "username" PROVE FALSE
      BY <1>1, <1>2, <1>3, <3>2
    <3> QED
      BY <3>1, <3>2 DEF Complete
  <2>2. Len(sent) # whole
    BY <1>2, <1>3
  <2> QED
    BY <2>1, <2>2 DEF TellsOf
<1>4. CASE p <= whole
  <2>0. /\ m \in 1..whole /\ p \in m..whole /\ said[m].tag = "username" /\ HasFields(m, p)
        /\ \A k \in (m + 1)..p : said[k].tag # "username"
    BY <1>1, <1>2, <1>4 DEF Holds
  <2>1. CASE ~Complete(m)
    BY <2>0, <2>1, FieldOf DEF TellsOf
  <2>2. CASE Complete(m)
    <3>1. p = Len(said) \/ (p + 1 <= whole /\ said[p + 1].tag = "username")
      <4>1. CASE whole = Len(said)
        BY <1>2, <1>4, <4>1
      <4>2. ASSUME NEW j \in m + 1..whole, said[j].tag = "username"
            PROVE  p + 1 <= whole /\ said[p + 1].tag = "username"
        <5>1. ~(j <= p)
          BY <2>0, <4>2
        <5> QED
          BY <1>2, <1>4, <5>1
      <4> QED
        BY <2>2, <4>1, <4>2 DEF Complete
    <3>2. ASSUME NEW j \in (p + 1)..Len(said) PROVE \E k \in m + 1..j : said[k].tag = "username"
      <4>1. p + 1 \in m + 1..j
        BY <1>1
      <4> QED
        BY <1>2, <3>1, <4>1
    <3>3. \A f \in UserFields : user[f] = AccountAt(m)[f]
      BY <2>0, <3>2, FieldOf
    <3>4. user = AccountAt(m)
      <4>1. user = [f \in UserFields |-> user[f]]
        BY <1>1
      <4>2. AccountAt(m) = [f \in UserFields |-> AccountAt(m)[f]]
        BY DEF AccountAt
      <4> QED
        BY <3>3, <4>1, <4>2
    <3> QED
      BY <2>2, <3>4 DEF TellsOf
  <2> QED
    BY <2>1, <2>2
<1> QED
  BY <1>2, <1>3, <1>4

\* The account at hand is listed in its place, behind those before it.
LEMMA ListedInPlace ==
  ASSUME Types, Partly, NEW p \in 1..Len(sent), NEW b \in {0, 1}, UsersListed(p, b),
         p = Len(sent) \/ (p < Len(sent) /\ sent[p + 1].tag = "username")
  PROVE  LET l == Append(list, user)
         IN  /\ user \in Account /\ l \in Seq(Things)
             /\ Len(l) = b + Cardinality(Begun(p))
             /\ b = 1 => l[1] = Garbage
             /\ \A i \in Begun(p) : i <= whole => TellsOf(i, l[b + Cardinality(Begun(i))])
<1> DEFINE l == Append(list, user)
           C(i) == Cardinality(Begun(i))
<1>1. Len(sent) \in Nat /\ p \in Nat /\ list \in Seq(Things) /\ Len(list) \in Nat
  BY Written, LenProperties
<1>2. PICK m \in 1..p :
        /\ Holds(m, p)
        /\ \A i \in Begun(m - 1) : i <= whole => TellsOf(i, list[b + C(i)])
  BY DEF UsersListed
<1>3. /\ user \in Account /\ m \in Nat /\ m - 1 \in Nat
      /\ m \in Begun(p) /\ \A i \in Begun(p) : i <= m
  BY <1>1, <1>2 DEF Holds
<1>4. Len(list) + 1 = b + C(p) /\ (b = 1 => list[1] = Garbage)
  BY DEF UsersListed
<1>5. Begun(m) = Begun(p) /\ C(m) = C(p) /\ C(p) >= 1 /\ C(p) \in Nat
  <2>1. Begun(m) = Begun(p)
    BY <1>1, <1>3 DEF Begun
  <2> QED
    BY <1>1, <1>3, <2>1, BegunOrder
<1>6. C(m - 1) + 1 = C(m) /\ Begun(m) = Begun(m - 1) \union {m}
  <2>1. (m - 1) + 1 = m /\ sent[m].tag = "username"
    BY <1>3 DEF Begun
  <2> QED
    BY <1>3, <2>1, BegunNext
<1>7. user \in Things
  BY <1>3 DEF Things
<1>8. /\ l \in Seq(Things) /\ Len(l) = Len(list) + 1
      /\ \A i \in 1..Len(list) : l[i] = list[i]
      /\ l[Len(list) + 1] = user
  BY <1>1, <1>7, AppendProperties
<1>9. m <= whole => TellsOf(m, user)
  BY <1>1, <1>2, <1>3, AccountDone
<1>10. b = 1 => l[1] = Garbage
  <2>1. b = 1 => 1 \in 1..Len(list)
    BY <1>1, <1>4, <1>5
  <2> QED
    BY <1>4, <1>8, <2>1
<1>11. ASSUME NEW i \in Begun(p), i <= whole PROVE TellsOf(i, l[b + C(i)])
  <2>1. CASE i = m
    <3>1. l[b + C(i)] = user
      BY <1>1, <1>4, <1>5, <1>8, <2>1
    <3> QED
      BY <1>9, <1>11, <2>1, <3>1
  <2>2. CASE i \in Begun(m - 1)
    <3>1. C(i) \in Nat /\ C(i) >= 1 /\ C(i) <= C(m - 1) /\ C(m - 1) \in Nat
      BY <1>3, <2>2, BegunOrder, BegunFinite
    <3> HIDE DEF C
    <3>2. b + C(i) \in 1..Len(list)
      BY <1>1, <1>4, <1>5, <1>6, <3>1
    <3> QED
      BY <1>2, <1>8, <1>11, <2>2, <3>2
  <2> QED
    BY <1>5, <1>6, <2>1, <2>2
<1> QED
  BY <1>3, <1>4, <1>8, <1>10, <1>11

\* The lists of accounts do not change while the response is read.
LEMMA SameAccounts ==
  ASSUME sent' = sent, said' = said, whole' = whole
  PROVE  /\ \A i : Begun(i)' = Begun(i) /\ AccountAt(i)' = AccountAt(i)
         /\ \A i, a : TellsOf(i, a)' = TellsOf(i, a)
         /\ Partly' = Partly
  BY DEF Begun, AccountAt, TellsOf, Complete, Partly

\* Nor does what is known of them before the next item is read.
LEMMA SameUsers ==
  ASSUME UNCHANGED <<sent, said, whole, list, user>>, NEW p, UsersRead(p)
  PROVE  UsersRead(p)'
<1>1. \A m : HasFields(m, p)' = HasFields(m, p)
  BY DEF HasFields
<1>2. \A m : Holds(m, p)' = Holds(m, p)
  BY <1>1, SameAccounts DEF Holds
<1>3. \A b : UsersListed(p, b)' = UsersListed(p, b)
  BY <1>2, SameAccounts DEF UsersListed
<1> QED
  BY <1>3 DEF UsersRead

\* A user that begins has its name, and nothing else yet.
LEMMA UserBegins ==
  ASSUME UNCHANGED <<sent, said, whole>>, Partly, NEW p \in Nat, sent[p + 1].tag = "username",
         sent[p + 1].val \in Nat, user' = [NewUser EXCEPT !["username"] = sent[p + 1].val]
  PROVE  Holds(p + 1, p + 1)'
<1>1. user' \in Account /\ user'["username"] = sent[p + 1].val
      /\ \A f \in UserFields : f # "username" => user'[f] = Unset
  BY DEF NewUser, Account, UserFields
<1>2. p + 1 \in Begun(p + 1) /\ \A i \in Begun(p + 1) : i <= p + 1
  BY DEF Begun
<1>3. \A i \in (p + 1)..(p + 1) : i = p + 1
  OBVIOUS
<1>4. p + 1 \in (p + 1)..(p + 1)
  OBVIOUS
<1>5. p + 1 <= whole => sent[p + 1] = said[p + 1]
  BY UsersContent, LenProperties DEF Partly
<1>6. p + 1 <= whole => HasFields(p + 1, p + 1)'
  BY <1>1, <1>3, <1>4, <1>5 DEF HasFields
<1> QED
  BY <1>1, <1>2, <1>6, SameAccounts DEF Holds

\* A user begins: the one before it is listed.
LEMMA UserStep ==
  ASSUME IInv, ReadUser
  PROVE  IInv'
<1>1. /\ status = "reading" /\ reader = "users" /\ Tag \in Known[reader] /\ Tag = "username"
      /\ left' = Tail(left) /\ UNCHANGED <<reader, said, whole, sent, limit, status, fields, code, counts>>
      /\ list' = IF user # Undef THEN Append(list, user) ELSE list
      /\ user' = [NewUser EXCEPT !["username"] = left[1].val]
  BY Readers0 DEF ReadUser, Sees, Rest, UserFields, Listed, Listing
<1>2. PICK p \in Nat : Follows(p) /\ ReadSoFar(p)
  BY <1>1, Before
<1>3. /\ Types /\ Tag = sent[p + 1].tag /\ left[1].val = sent[p + 1].val /\ left[1].val \in Nat
      /\ p + 1 \in 1..Len(sent) /\ Partly
  BY <1>1, <1>2, AtItem, Before DEF Types
<1>4. list \in Seq(Things) /\ user \in Account \union {Undef, Garbage} /\ Len(sent) \in Nat
  BY <1>3, Written, LenProperties
<1>5. UsersRead(p)
  BY <1>1, <1>2 DEF ReadSoFar
<1>6. Holds(p + 1, p + 1)' /\ user' \in Account
  <2>1. Holds(p + 1, p + 1)'
    BY <1>1, <1>3, UserBegins
  <2> QED
    BY <2>1 DEF Holds
<1>7. Begun(p + 1) = Begun(p) \union {p + 1}
      /\ Cardinality(Begun(p + 1)) = Cardinality(Begun(p)) + 1
  BY <1>1, <1>3, BegunNext
<1>8. Undef \notin Account
  BY UndefAssumption DEF Account
<1>9. ASSUME NEW b \in {0, 1}, list' \in Seq(Things),
             Len(list') = b + Cardinality(Begun(p)),
             b = 1 => list'[1] = Garbage,
             \A i \in Begun(p) : i <= whole => TellsOf(i, list'[b + Cardinality(Begun(i))])
      PROVE  IInv'
  <2>0. Cardinality(Begun(p)) \in Nat
    BY BegunFinite
  <2>1. Len(list') + 1 = b + Cardinality(Begun(p + 1)) /\ (p + 1) - 1 = p
        /\ p + 1 \in 1..(p + 1) /\ p + 1 # 0
    <3> DEFINE c == Cardinality(Begun(p))
               d == Cardinality(Begun(p + 1))
    <3>1. c \in Nat /\ d = c + 1 /\ Len(list') = b + c
      BY <1>7, <1>9, <2>0
    <3> HIDE DEF c, d
    <3>2. Len(list') + 1 = b + d
      BY <3>1
    <3>3. (p + 1) - 1 = p /\ p + 1 \in 1..(p + 1) /\ p + 1 # 0
      OBVIOUS
    <3> QED
      BY <3>2, <3>3 DEF d
  <2>2. UsersListed(p + 1, b)'
    BY <1>1, <1>6, <1>9, <2>1, SameAccounts DEF UsersListed
  <2>3. ReadSoFar(p + 1)'
    BY <1>1, <2>1, <2>2 DEF ReadSoFar, UsersRead
  <2> QED
    BY <1>1, <1>2, <1>3, <1>6, <1>9, <2>3, ReadKeeps, Written
<1>10. CASE p = 0
  <2>1. user \in {Undef, Garbage} /\ list = << >> /\ Begun(p) = {} /\ Cardinality(Begun(p)) = 0
    BY <1>5, <1>10, BegunNone DEF UsersRead
  <2>2. CASE user = Undef
    <3>1. list' = << >> /\ Len(list') = 0 /\ list' \in Seq(Things)
      BY <1>1, <2>1, <2>2
    <3> QED
      BY <1>9, <2>1, <3>1
  <2>3. CASE user = Garbage
    <3>1. Garbage # Undef /\ Garbage \in Things
      BY UndefAssumption DEF Things
    <3>2. list' = <<Garbage>>
      BY <1>1, <2>1, <2>3, <3>1
    <3>3. list' \in Seq(Things) /\ Len(list') = 1 /\ list'[1] = Garbage
      BY <3>1, <3>2
    <3> QED
      BY <1>9, <2>1, <3>3
  <2> QED
    BY <2>1, <2>2, <2>3
<1>11. CASE p # 0
  <2>1. PICK b \in {0, 1} : UsersListed(p, b)
    BY <1>5, <1>11 DEF UsersRead
  <2>2. p \in 1..Len(sent) /\ p < Len(sent)
    BY <1>3, <1>4, <1>11
  <2>3. /\ user \in Account /\ Append(list, user) \in Seq(Things)
        /\ Len(Append(list, user)) = b + Cardinality(Begun(p))
        /\ b = 1 => Append(list, user)[1] = Garbage
        /\ \A i \in Begun(p) : i <= whole => TellsOf(i, Append(list, user)[b + Cardinality(Begun(i))])
    BY <1>1, <1>3, <2>1, <2>2, ListedInPlace
  <2>4. list' = Append(list, user)
    BY <1>1, <1>8, <2>3
  <2> QED
    BY <1>9, <2>3, <2>4
<1> QED
  BY <1>10, <1>11

\* An item of the user at hand, which has not come for it before.
LEMMA UserItemStep ==
  ASSUME IInv, ReadUserItem
  PROVE  IInv'
<1>1. /\ status = "reading" /\ reader = "users" /\ Tag \in Known[reader] /\ Tag # "username"
      /\ left' = Tail(left) /\ UNCHANGED <<reader, said, whole, sent, limit, status, fields, list, code, counts>>
      /\ user' = IF Tag = "userid" THEN user ELSE [user EXCEPT ![Tag] = left[1].val]
  BY Readers0 DEF ReadUserItem, Sees, Rest
<1>2. PICK p \in Nat : Follows(p) /\ ReadSoFar(p)
  BY <1>1, Before
<1>3. /\ Types /\ Tag = sent[p + 1].tag /\ left[1].val = sent[p + 1].val /\ left[1].val \in Nat
      /\ p + 1 \in 1..Len(sent) /\ Meets("users", sent) /\ Partly
  BY <1>1, <1>2, AtItem, Before DEF Types
<1>4. /\ sent # << >> /\ sent[1].tag = "username" /\ Len(sent) \in Nat
      /\ Len(said) \in Nat /\ whole \in 0..Len(said)
      /\ \A i \in 1..whole : sent[i] = said[i]
      /\ \A i, j \in 1..Len(said) : i < j /\ said[i].tag = said[j].tag /\ said[i].tag # "username" =>
           \E k \in i..j : said[k].tag = "username"
  <2>1. Len(sent) \in Nat /\ sent # << >>
    BY <1>3, Written, LenProperties
  <2> QED
    BY <1>3, <2>1, UsersContent, LenProperties DEF Meets, Partly
<1>5. p # 0
  BY <1>1, <1>3, <1>4
<1>6. PICK b \in {0, 1} : UsersListed(p, b)
  BY <1>1, <1>2, <1>5 DEF ReadSoFar, UsersRead
<1>7. PICK m \in 1..p :
        /\ Holds(m, p)
        /\ \A i \in Begun(m - 1) : i <= whole => TellsOf(i, list[b + Cardinality(Begun(i))])
  BY <1>6 DEF UsersListed
<1>8. Begun(p + 1) = Begun(p)
  BY <1>1, <1>3, BegunNext
<1>9. user \in Account /\ m \in Begun(p) /\ (\A i \in Begun(p) : i <= m)
      /\ (p <= whole => HasFields(m, p))
  BY <1>7 DEF Holds
<1>10. Tag = "userid" \/ Tag \in UserFields
  BY <1>1, Readers0
<1>11. user' \in Account
  BY <1>1, <1>3, <1>9, <1>10 DEF Account
<1>12. ASSUME p + 1 <= whole, NEW i \in m..p, said[i].tag \in UserFields
       PROVE  said[i].tag # Tag
  <2> SUFFICES ASSUME said[i].tag = Tag PROVE FALSE
    OBVIOUS
  <2>1. i \in 1..Len(said) /\ p + 1 \in 1..Len(said) /\ i < p + 1 /\ said[p + 1].tag = Tag
    BY <1>3, <1>4, <1>12
  <2>2. PICK k \in i..(p + 1) : said[k].tag = "username"
    BY <1>1, <1>4, <2>1
  <2>3. k # p + 1 /\ k # i
    BY <1>1, <2>1, <2>2
  <2>4. sent[k] = said[k]
    BY <1>4, <1>12, <2>1, <2>2
  <2>5. k \in Begun(p)
    BY <2>1, <2>2, <2>3, <2>4 DEF Begun
  <2> QED
    BY <1>9, <2>3, <2>5
<1>13. \A i \in m..(p + 1) : i \in m..p \/ i = p + 1
  OBVIOUS
<1>14. ASSUME p + 1 <= whole, NEW i \in m..(p + 1), said[i].tag \in UserFields
       PROVE  user'[said[i].tag] = said[i].val
  <2>0. HasFields(m, p) /\ said[p + 1] = sent[p + 1]
    BY <1>4, <1>9, <1>14
  <2>1. CASE i = p + 1
    <3>1. Tag # "userid" /\ said[i].tag = Tag /\ said[i].val = left[1].val
      BY <1>3, <1>14, <2>0, <2>1 DEF UserFields
    <3> QED
      BY <1>1, <1>3, <1>9, <1>14, <3>1 DEF Account
  <2>2. CASE i \in m..p
    <3>1. user[said[i].tag] = said[i].val /\ said[i].tag # Tag
      BY <1>12, <1>14, <2>0, <2>2 DEF HasFields
    <3> QED
      BY <1>1, <1>9, <1>14, <3>1 DEF Account
  <2> QED
    BY <1>13, <2>1, <2>2
<1>15. ASSUME p + 1 <= whole, NEW f \in UserFields, \A i \in m..(p + 1) : said[i].tag # f
       PROVE  user'[f] = Unset
  <2>1. f # Tag /\ \A i \in m..p : said[i].tag # f
    <3>1. p + 1 \in m..(p + 1) /\ (\A i \in m..p : i \in m..(p + 1)) /\ said[p + 1] = sent[p + 1]
      BY <1>4, <1>15
    <3> QED
      BY <1>3, <1>15, <3>1
  <2>2. HasFields(m, p)
    BY <1>4, <1>9, <1>15
  <2>3. user[f] = Unset
    BY <2>1, <2>2 DEF HasFields
  <2> QED
    BY <1>1, <1>9, <2>1, <2>3 DEF Account
<1>16. Holds(m, p + 1)'
  <2>1. p + 1 <= whole => HasFields(m, p + 1)'
    BY <1>1, <1>14, <1>15 DEF HasFields
  <2> QED
    BY <1>1, <1>8, <1>9, <1>11, <2>1, SameAccounts DEF Holds
<1>17. UsersListed(p + 1, b)'
  <2>1. m \in 1..(p + 1) /\ list' = list
    BY <1>1
  <2>2. /\ Len(list) + 1 = b + Cardinality(Begun(p + 1))
        /\ b = 1 => list[1] = Garbage
    BY <1>6, <1>8 DEF UsersListed
  <2> QED
    BY <1>1, <1>7, <1>16, <2>1, <2>2, SameAccounts DEF UsersListed
<1>18. ReadSoFar(p + 1)'
  BY <1>1, <1>17 DEF ReadSoFar, UsersRead
<1> QED
  BY <1>1, <1>2, <1>3, <1>11, <1>18, ReadKeeps, Written

-----------------------------------------------------------------------------
(* The call, its end and the return.                                       *)

\* An answer that was not read yet: nothing has been made of it.
Unread ==
  /\ reader \in Readers /\ Meets(reader, sent) /\ limit \in 1..MaxLimbo
  /\ left \in Answers(reader, sent, limit) /\ code = CodeAt(left)
  /\ user \in {Undef, Garbage} /\ list = << >> /\ status = "reading"
  /\ reader = "statistics" => counts = NoCounts

\* It is what the invariant says of no items.
LEMMA NothingRead == Unread => ReadSoFar(0)
<1> SUFFICES ASSUME Unread PROVE ReadSoFar(0)
  OBVIOUS
<1> USE DEF Unread
<1>1. /\ sent \in Seq(Items) /\ Len(sent) \in Nat /\ Exchange(sent)
      /\ reader = "exception" => left # << >> /\ left[Len(left)].tag = "end"
  BY MeetsKnown, AnswerTypes
<1>2. Len(list) = 0 /\ DOMAIN list = {} /\ \A i \in 1..0 : FALSE
  OBVIOUS
<1>3. reader = "databases" => ~(0 >= 2)
  OBVIOUS
<1>4. reader \in {"db_info", "server_info", "databases"} => InfoRead(0)
  BY <1>2 DEF InfoRead
<1>5. ASSUME reader = "limbo" PROVE LimboRead(0)
  <2>1. \/ left = Append(sent, Item("end", 0)) /\ Len(sent) < limit
        \/ \E n \in 0..Len(sent) :
             left = Append(SubSeq(sent, 1, n), Item("truncated", 0)) /\ n + 1 = limit /\ n < Len(sent)
        \/ left = sent /\ sent # << >> /\ Len(sent) = limit
    BY <1>1, <1>5, LimboAnswer
  <2>2. limit \in Nat
    BY Values0
  <2>3. CASE left = Append(sent, Item("end", 0)) /\ Len(sent) < limit
    <3>1. SubSeq(sent, 1, Len(sent)) = sent /\ Len(sent) \in 0..Len(sent) /\ "end" \in Marks
      BY <1>1, SubSeqFull DEF Marks
    <3>2. Len(left) = Len(sent) + 1 /\ left[Len(sent) + 1].tag = "end"
      BY <1>1, <2>3, <3>1, Marked
    <3>3. left[Len(left)].tag = "end"
      BY <3>2
    <3> QED
      BY <1>1, <1>2, <2>2, <2>3, <3>3 DEF LimboRead, Cut
  <2>4. ASSUME NEW n \in 0..Len(sent), n + 1 = limit, n < Len(sent),
               left = Append(SubSeq(sent, 1, n), Item("truncated", 0))
        PROVE  LimboRead(0)
    <3>1. "truncated" \in Marks /\ "truncated" # "end"
      BY DEF Marks
    <3>2. Len(left) = n + 1 /\ left[n + 1].tag = "truncated"
      BY <1>1, <2>4, <3>1, Marked
    <3>3. left # << >> /\ left[Len(left)].tag = "truncated"
      BY <1>1, <3>2
    <3>4. Len(sent) >= limit /\ 0 + Len(left) <= limit
      BY <1>1, <2>2, <2>4, <3>2
    <3> QED
      BY <1>2, <3>3, <3>4 DEF LimboRead, Cut
  <2>5. CASE left = sent /\ sent # << >> /\ Len(sent) = limit
    <3>1. Len(sent) \in 1..Len(sent)
      BY <1>1, <2>5, EmptySeq
    <3>2. left[Len(left)].tag \notin Marks
      BY <1>1, <2>5, <3>1 DEF Exchange
    <3> QED
      BY <1>1, <1>2, <2>2, <2>5, <3>2 DEF LimboRead, Cut, Marks
  <2> QED
    BY <2>1, <2>3, <2>4, <2>5
<1>6. reader = "users" => UsersRead(0)
  BY DEF UsersRead
<1>7. ASSUME reader = "statistics" PROVE CountsRead(0)
  <2>1. \A c \in Counters : counts[c] = 0
    BY <1>7 DEF NoCounts
  <2> QED
    BY <1>2, <2>1 DEF CountsRead
<1>8. ASSUME reader = "exception" PROVE CodesRead(0)
  BY <1>1, <1>2, <1>8 DEF CodesRead
<1> QED
  BY <1>4, <1>5, <1>6, <1>7, <1>8 DEF ReadSoFar

\* A call: the server answers, and nothing is read yet.
LEMMA CallStep ==
  ASSUME IInv, Call
  PROVE  IInv'
<1>1. /\ status' = "reading" /\ reader' = reader
      /\ limit' \in (IF reader = "limbo" THEN 1..MaxLimbo ELSE {1})
      /\ said' \in Content(reader)
      /\ whole' \in (IF reader = "users" THEN 0..Len(said') ELSE {Len(said')})
      /\ sent' \in Found(said', whole') /\ left' \in Answers(reader, sent', limit')
      /\ user' \in (IF reader = "users" THEN {Undef, Garbage} ELSE {Undef})
      /\ fields' = Blank /\ list' = << >> /\ code' = CodeAt(left')
      /\ counts' = CountsAtStart
  BY DEF Call
<1>2. reader \in Readers /\ counts \in [Counters \union {"affected"} -> Nat]
  BY DEF IInv, Types, TypeOK
<1>3. limit' \in 1..MaxLimbo /\ Meets(reader', sent') /\ (reader' = "users" => Partly')
  <2>1. limit' \in 1..MaxLimbo
    BY <1>1, Values0
  <2>2. CASE reader # "users"
    <3>1. sent' = said'
      BY <1>1, <2>2 DEF Found
    <3> QED
      BY <1>1, <2>1, <2>2, <3>1 DEF Meets
  <2>3. CASE reader = "users"
    <3>1. said' \in Content("users") /\ whole' \in 0..Len(said')
      BY <1>1, <2>3
    <3>2. /\ Meets("users", sent') /\ whole' <= Len(sent')
          /\ \A i \in 1..whole' : sent'[i] = said'[i]
          /\ whole' = Len(said') => sent' = said'
      BY <1>1, <3>1, FoundMeets
    <3> QED
      BY <1>1, <2>1, <2>3, <3>1, <3>2 DEF Partly
  <2> QED
    BY <2>2, <2>3
<1>4. /\ Exchange(sent') /\ left' \in Seq(Items) /\ left' # << >>
      /\ Continues(left', sent', 0)
      /\ reader = "exception" => left'[Len(left')].tag = "end"
  BY <1>1, <1>2, <1>3, AnswerTypes
<1>5. sent' \in Seq(Items) /\ Len(sent') \in Nat
  BY <1>4, LenProperties DEF Exchange
<1>6. counts' \in [Counters \union {"affected"} -> Nat]
      /\ (reader = "statistics" => counts' = NoCounts)
  BY <1>1, <1>2 DEF CountsAtStart, NoCounts
<1>7. code' \in Nat
  <2>1. left'[1] \in Items
    <3>1. 1 \in 1..Len(left')
      BY <1>4, EmptySeq
    <3> QED
      BY <1>4, <3>1, ElementOfSeq
  <2> QED
    BY <1>1, <2>1 DEF CodeAt, Items
<1>8. fields' \in [FieldNames -> Nat \union {Unset}]
  BY <1>1 DEF Blank
<1>9. list' \in Seq(Things) /\ DOMAIN list' = {}
  BY <1>1
<1>10. Types'
  <2>1. Meets(reader, sent)' /\ (reader = "users" => Partly)'
    BY <1>3 DEF Meets
  <2> QED
    BY <1>1, <1>2, <1>3, <1>4, <1>5, <1>6, <1>7, <1>8, <1>9, <2>1 DEF Types, TypeOK
<1>11. Stops' /\ UsersWhole'
  BY <1>1 DEF Stops, UsersWhole
<1>12. Follows(0)' /\ 0 \in 0..Len(sent')
  BY <1>4, <1>5 DEF Follows
<1>13. ReadSoFar(0)'
  <2>1. /\ reader' \in Readers /\ Meets(reader, sent)'
        /\ left' \in Answers(reader', sent', limit') /\ code' = CodeAt(left')
        /\ user' \in {Undef, Garbage} /\ (reader' = "statistics" => counts' = NoCounts)
    BY <1>1, <1>2, <1>3, <1>6 DEF Meets
  <2>2. CodeAt(left)' = CodeAt(left')
    BY DEF CodeAt
  <2>3. Unread'
    BY <1>1, <1>3, <2>1, <2>2 DEF Unread
  <2> QED
    BY <2>3, NothingRead, PTL
<1> QED
  BY <1>10, <1>11, <1>12, <1>13 DEF IInv

\* Every account is listed: the same as the property says, of the items up to
\* the last.
AllListed ==
  /\ sent \in Seq(Items)
  /\ \E b \in {0, 1} :
       /\ Len(list) = b + Cardinality(Begun(Len(sent)))
       /\ b = 1 => list[1] = Garbage
       /\ \A i \in Begun(Len(sent)) : i <= whole => TellsOf(i, list[b + Cardinality(Begun(i))])

\* Then get_users has listed what the property asks for.
LEMMA WhenListed == AllListed => UsersWhole
<1> SUFFICES ASSUME AllListed PROVE UsersWhole
  OBVIOUS
<1> DEFINE first == {i \in DOMAIN sent : sent[i].tag = "username"}
           upto(i) == {j \in first : j <= i}
           before == Len(list) - Cardinality(first)
<1>1. Len(sent) \in Nat /\ DOMAIN sent = 1..Len(sent)
  BY LenProperties DEF AllListed
<1>2. first = Begun(Len(sent))
  BY <1>1 DEF Begun
<1>3. \A i \in first : upto(i) = Begun(i)
  BY <1>1 DEF Begun
<1>4. PICK b \in {0, 1} :
        /\ Len(list) = b + Cardinality(first)
        /\ b = 1 => list[1] = Garbage
        /\ \A i \in first : i <= whole => TellsOf(i, list[b + Cardinality(Begun(i))])
  BY <1>2 DEF AllListed
<1>5. before = b
  <2>1. Cardinality(first) \in Nat
    BY <1>1, <1>2, BegunFinite
  <2> QED
    BY <1>4, <2>1
<1>6. \A i \in first : i <= whole => TellsOf(i, list[before + Cardinality(upto(i))])
  <2> HIDE DEF before, first, upto
  <2> QED
    BY <1>3, <1>4, <1>5
<1>7. before \in 0..1 /\ (before = 1 => list[1] = Garbage)
  <2> HIDE DEF before
  <2> QED
    BY <1>4, <1>5
<1> QED
  BY <1>6, <1>7 DEF UsersWhole

\* The user at hand is listed at the end of the response.
LEMMA LastListed ==
  ASSUME IInv, Finish, reader = "users"
  PROVE  AllListed' /\ list' \in Seq(Things)
<1>1. /\ status = "reading" /\ Tag = "end" /\ list' = Listed
      /\ UNCHANGED <<sent, said, whole, left>>
  BY DEF Finish, Ends
<1>2. PICK p \in Nat : p \in 0..Len(sent) /\ Follows(p) /\ ReadSoFar(p)
  BY <1>1, Before
<1>3. Types /\ UsersRead(p) /\ Partly
  BY <1>1, <1>2, Before DEF ReadSoFar, Types
<1>4. /\ sent \in Seq(Items) /\ Len(sent) \in Nat /\ list \in Seq(Things)
      /\ user \in Account \union {Undef, Garbage}
  BY <1>3, Written, LenProperties
<1>5. p = Len(sent)
  <2>1. Exchange(sent) /\ left \in Seq(Items)
    BY <1>1, <1>3, Written, MeetsKnown DEF Exchange, Types
  <2>2. left = << >> \/ left[1].tag = "end"
    BY <1>1 DEF Tag
  <2> QED
    BY <1>2, <2>1, <2>2, AllRead DEF Follows
<1>6. list' = IF user # Undef THEN Append(list, user) ELSE list
  BY <1>1 DEF Listed, Listing
<1>7. ASSUME NEW b \in {0, 1}, list' \in Seq(Things),
             Len(list') = b + Cardinality(Begun(p)),
             b = 1 => list'[1] = Garbage,
             \A i \in Begun(p) : i <= whole => TellsOf(i, list'[b + Cardinality(Begun(i))])
      PROVE  AllListed' /\ list' \in Seq(Things)
  BY <1>1, <1>4, <1>5, <1>7, SameAccounts DEF AllListed
<1>8. CASE p = 0
  <2>1. user \in {Undef, Garbage} /\ list = << >> /\ Begun(p) = {} /\ Cardinality(Begun(p)) = 0
    BY <1>3, <1>8, BegunNone DEF UsersRead
  <2>2. CASE user = Undef
    <3>1. list' = << >> /\ Len(list') = 0 /\ list' \in Seq(Things)
      BY <1>6, <2>1, <2>2
    <3> QED
      BY <1>7, <2>1, <3>1
  <2>3. CASE user = Garbage
    <3>1. Garbage # Undef /\ Garbage \in Things
      BY UndefAssumption DEF Things
    <3>2. list' = <<Garbage>>
      BY <1>6, <2>1, <2>3, <3>1
    <3>3. list' \in Seq(Things) /\ Len(list') = 1 /\ list'[1] = Garbage
      BY <3>1, <3>2
    <3> QED
      BY <1>7, <2>1, <3>3
  <2> QED
    BY <2>1, <2>2, <2>3
<1>9. CASE p # 0
  <2>1. PICK b \in {0, 1} : UsersListed(p, b)
    BY <1>3, <1>9 DEF UsersRead
  <2>2. p \in 1..Len(sent)
    BY <1>4, <1>5, <1>9
  <2>3. /\ user \in Account /\ Append(list, user) \in Seq(Things)
        /\ Len(Append(list, user)) = b + Cardinality(Begun(p))
        /\ b = 1 => Append(list, user)[1] = Garbage
        /\ \A i \in Begun(p) : i <= whole => TellsOf(i, Append(list, user)[b + Cardinality(Begun(i))])
    BY <1>3, <1>5, <2>1, <2>2, ListedInPlace
  <2>4. list' = Append(list, user)
    BY <1>6, <2>3, UndefAssumption DEF Account
  <2> QED
    BY <1>7, <2>3, <2>4
<1> QED
  BY <1>8, <1>9

\* What the counters say is kept when their sum is written.
LEMMA CountsAddedUp ==
  ASSUME NEW p, CountsRead(p), reader = "statistics", Types, p \in 0..Len(sent),
         sent \in Content("statistics"), status = "reading",
         sent' = sent, counts' = [counts EXCEPT !["affected"] = Affected]
  PROVE  CountsRead(p)' /\ counts' \in [Counters \union {"affected"} -> Nat]
<1>1. counts \in [Counters \union {"affected"} -> Nat] /\ "affected" \notin Counters
      /\ {"insert", "update", "delete"} \subseteq Counters
  BY DEF Types, TypeOK, Counters
<1>2. Affected \in Nat
  BY <1>1 DEF Affected
<1>3. /\ counts' \in [Counters \union {"affected"} -> Nat] /\ counts'["affected"] = Affected
      /\ \A c \in Counters : counts'[c] = counts[c]
  BY <1>1, <1>2
<1>4. Affected' = Affected
  BY <1>1, <1>3 DEF Affected
<1>5. \A i \in 1..p : sent[i].tag \in Counters
  <2>1. Len(sent) \in Nat /\ \A i \in 1..Len(sent) : sent[i].tag \in Counters
    BY StatisticsContent, LenProperties
  <2> QED
    BY <2>1
<1> QED
  BY <1>3, <1>4, <1>5 DEF CountsRead

\* The end of the response.
LEMMA FinishStep ==
  ASSUME IInv, Finish
  PROVE  IInv'
<1>1. /\ status = "reading" /\ Tag = "end" /\ status' = "done"
      /\ list' = IF reader = "users" THEN Listed ELSE list
      /\ counts' = IF reader = "statistics" THEN [counts EXCEPT !["affected"] = Affected] ELSE counts
      /\ UNCHANGED <<reader, said, whole, sent, left, limit, fields, user, code>>
  BY DEF Finish, Ends
<1>2. PICK p \in Nat : p \in 0..Len(sent) /\ Follows(p) /\ ReadSoFar(p)
  BY <1>1, Before
<1>3. Types /\ Meets(reader, sent)' /\ (reader = "users" => Partly)'
      /\ (reader = "statistics" => sent \in Content("statistics"))
  BY <1>1, Before, StillMeets DEF Types, Meets
<1>4. list' \in Seq(Things) /\ UsersWhole'
  <2>1. CASE reader = "users"
    <3>1. AllListed' /\ list' \in Seq(Things)
      BY <2>1, LastListed
    <3>2. UsersWhole'
      BY <3>1, WhenListed, PTL
    <3> QED
      BY <3>1, <3>2
  <2>2. CASE reader # "users"
    BY <1>1, <1>3, <2>2, Written DEF UsersWhole
  <2> QED
    BY <2>1, <2>2
<1>5. /\ counts' \in [Counters \union {"affected"} -> Nat]
      /\ reader = "statistics" => CountsRead(p)'
  <2>1. CASE reader = "statistics"
    <3>1. CountsRead(p)
      BY <1>2, <2>1 DEF ReadSoFar
    <3> QED
      BY <1>1, <1>2, <1>3, <2>1, <3>1, CountsAddedUp
  <2>2. CASE reader # "statistics"
    BY <1>1, <1>3, <2>2, Written
  <2> QED
    BY <2>1, <2>2
<1>6. Types'
  <2>1. Undef \notin {list'[i] : i \in DOMAIN list'}
    BY <1>4, NothingUndef
  <2> QED
    BY <1>1, <1>3, <1>4, <1>5, <2>1 DEF Types, TypeOK
<1>7. Stops'
  BY <1>1 DEF Stops, Tag
<1>8. Follows(p)'
  BY <1>1, <1>2 DEF Follows
<1>9. ReadSoFar(p)'
  <2>1. reader \in {"db_info", "server_info", "databases"} => InfoRead(p)'
    BY <1>1, <1>2 DEF ReadSoFar, InfoRead
  <2>2. reader = "limbo" => LimboRead(p)'
    BY <1>1, <1>2 DEF ReadSoFar, LimboRead, Cut
  <2>3. reader = "exception" => CodesRead(p)'
    BY <1>1, <1>2 DEF ReadSoFar, CodesRead, CodeAt
  <2> QED
    BY <1>1, <1>5, <2>1, <2>2, <2>3 DEF ReadSoFar
<1> QED
  BY <1>1, <1>2, <1>4, <1>6, <1>7, <1>8, <1>9 DEF IInv

\* A fatal error leaves everything as it is.
LEMMA FatalStep ==
  ASSUME IInv, Fatal
  PROVE  IInv'
<1>1. /\ status = "reading" /\ Tag \notin {"end"} \union Known[reader] /\ status' = "fatal"
      /\ UNCHANGED <<reader, said, whole, sent, left, limit, fields, list, user, code, counts>>
  BY DEF Fatal, Ends
<1>2. PICK p \in Nat : p \in 0..Len(sent) /\ Follows(p) /\ ReadSoFar(p)
  BY <1>1, Before
<1>3. Types' /\ Stops' /\ UsersWhole'
  <2>1. Meets(reader, sent)' /\ (reader = "users" => Partly)'
    BY <1>1, StillMeets DEF IInv
  <2> QED
    BY <1>1, <2>1 DEF IInv, Types, TypeOK, Stops, UsersWhole, Tag
<1>4. Follows(p)'
  BY <1>1, <1>2 DEF Follows
<1>5. ReadSoFar(p)'
  <2>1. reader \in {"db_info", "server_info", "databases"} => InfoRead(p)'
    BY <1>1, <1>2 DEF ReadSoFar, InfoRead
  <2>2. reader = "limbo" => LimboRead(p)'
    BY <1>1, <1>2 DEF ReadSoFar, LimboRead, Cut
  <2>3. reader = "exception" => CodesRead(p)'
    BY <1>1, <1>2 DEF ReadSoFar, CodesRead, CodeAt
  <2>4. reader = "statistics" => CountsRead(p)'
    BY <1>1, <1>2 DEF ReadSoFar, CountsRead
  <2>5. reader = "users" => UsersRead(p)'
    BY <1>1, <1>2, SameUsers DEF ReadSoFar
  <2> QED
    BY <1>1, <2>1, <2>2, <2>3, <2>4, <2>5 DEF ReadSoFar
<1> QED
  BY <1>1, <1>2, <1>3, <1>4, <1>5 DEF IInv

\* Everything but the counters is as at the start.
LEMMA ReturnStep ==
  ASSUME IInv, Return
  PROVE  IInv'
<1>1. /\ status' = "idle" /\ reader' = reader
      /\ sent' = << >> /\ left' = << >> /\ limit' = 1
      /\ fields' = Blank /\ list' = << >> /\ user' = Undef /\ code' = 0
      /\ counts' \in {NoCounts, counts}
  BY DEF Return, Cleared
<1>2. reader \in Readers /\ counts' \in [Counters \union {"affected"} -> Nat]
  BY <1>1 DEF IInv, Types, TypeOK, NoCounts
<1>3. 1 \in 1..MaxLimbo /\ fields' \in [FieldNames -> Nat \union {Unset}]
  BY <1>1, Values0 DEF Blank
<1>4. Types'
  BY <1>1, <1>2, <1>3 DEF Types, TypeOK
<1>5. Stops' /\ UsersWhole'
  BY <1>1 DEF Stops, UsersWhole
<1> QED
  BY <1>1, <1>4, <1>5 DEF IInv

\* The invariant holds at first,
LEMMA IInit == Init => IInv
<1> SUFFICES ASSUME Init PROVE IInv
  OBVIOUS
<1>1. 1 \in 1..MaxLimbo /\ Blank \in [FieldNames -> Nat \union {Unset}]
      /\ NoCounts \in [Counters \union {"affected"} -> Nat]
  BY Values0 DEF Blank, NoCounts
<1>2. Types
  BY <1>1 DEF Init, Types, TypeOK
<1> QED
  BY <1>2 DEF Init, IInv, Stops, UsersWhole

\* also when nothing changes,
LEMMA Stutter ==
  ASSUME IInv, UNCHANGED vars
  PROVE  IInv'
<1>1. UNCHANGED <<reader, said, whole, sent, left, limit, fields, list, user, code, counts, status>>
  BY DEF vars
<1>2. Types' /\ Stops'
  <2>1. status # "idle" => Meets(reader, sent)' /\ (reader = "users" => Partly)'
    BY <1>1, StillMeets DEF IInv
  <2> QED
    BY <1>1, <2>1 DEF IInv, Types, TypeOK, Stops, Tag
<1>3. UsersWhole'
  <2>1. UsersWhole
    BY DEF IInv
  <2> QED
    BY <1>1, <2>1, SameAccounts DEF UsersWhole
<1>4. ASSUME status # "idle"
      PROVE  \E p \in 0..Len(sent) : (Follows(p) /\ ReadSoFar(p))'
  <2>1. PICK p \in Nat : p \in 0..Len(sent) /\ Follows(p) /\ ReadSoFar(p)
    BY <1>4, Before
  <2>2. Follows(p)'
    BY <1>1, <2>1 DEF Follows
  <2>3. reader \in {"db_info", "server_info", "databases"} => InfoRead(p)'
    BY <1>1, <2>1 DEF ReadSoFar, InfoRead
  <2>4. reader = "limbo" => LimboRead(p)'
    BY <1>1, <2>1 DEF ReadSoFar, LimboRead, Cut
  <2>5. reader = "exception" => CodesRead(p)'
    BY <1>1, <2>1 DEF ReadSoFar, CodesRead, CodeAt
  <2>6. reader = "statistics" => CountsRead(p)'
    BY <1>1, <2>1 DEF ReadSoFar, CountsRead, Affected
  <2>7. reader = "users" /\ status # "done" => UsersRead(p)'
    BY <1>1, <2>1, SameUsers DEF ReadSoFar
  <2>8. ReadSoFar(p)'
    BY <1>1, <2>3, <2>4, <2>5, <2>6, <2>7 DEF ReadSoFar
  <2> QED
    BY <2>1, <2>2, <2>8
<1> QED
  BY <1>1, <1>2, <1>3, <1>4 DEF IInv

\* after every step,
LEMMA IStep ==
  ASSUME IInv, [Next]_vars
  PROVE  IInv'
  BY CallStep, DbItemStep, ServerItemStep, AttachmentsStep, DbNameStep, LimboStep, UserStep,
     UserItemStep, CountStep, MessageStep, FinishStep, FatalStep, ReturnStep, Stutter DEF Next

\* and always.
LEMMA Invariance == Spec => []IInv
  BY IInit, IStep, PTL DEF Spec

-----------------------------------------------------------------------------
(* What follows from it.                                                   *)

\* Where a reader is done, all items have been made something of.
LEMMA DoneAll ==
  ASSUME IInv, status = "done"
  PROVE  /\ Types /\ Meets(reader, sent) /\ Len(sent) \in Nat
         /\ reader # "users" => sent \in Content(reader)
         /\ DOMAIN sent = 1..Len(sent)
         /\ ReadSoFar(Len(sent))
<1>1. PICK p \in Nat : p \in 0..Len(sent) /\ Follows(p) /\ ReadSoFar(p)
  BY Before
<1>2. Types /\ Meets(reader, sent) /\ Tag = "end"
  BY DEF IInv, Types, Stops
<1>3. Exchange(sent) /\ left \in Seq(Items) /\ Len(sent) \in Nat /\ DOMAIN sent = 1..Len(sent)
  BY <1>2, Written, MeetsKnown DEF Exchange
<1>4. left = << >> \/ left[1].tag = "end"
  BY <1>2 DEF Tag
<1>5. p = Len(sent)
  BY <1>1, <1>3, <1>4, AllRead DEF Follows
<1> QED
  BY <1>1, <1>2, <1>3, <1>5 DEF Meets

\* Each property follows for a reader that is done.
LEMMA InfoDone == IInv => InfoTrue
<1> SUFFICES ASSUME IInv, status = "done", reader \in {"db_info", "server_info", "databases"}
             PROVE  /\ \A i \in DOMAIN sent : sent[i].tag \in FieldNames => fields[sent[i].tag] = sent[i].val
                    /\ reader = "databases" => list = [i \in 1..Len(sent) - 3 |-> sent[i + 2].val]
  BY DEF InfoTrue
<1>1. Types /\ Meets(reader, sent) /\ DOMAIN sent = 1..Len(sent) /\ InfoRead(Len(sent))
  BY DoneAll DEF ReadSoFar
<1>2. \A i \in DOMAIN sent : sent[i].tag \in FieldNames => fields[sent[i].tag] = sent[i].val
  BY <1>1 DEF InfoRead
<1>3. ASSUME reader = "databases"
      PROVE  list = [i \in 1..Len(sent) - 3 |-> sent[i + 2].val]
  <2>1. Len(sent) \in Nat /\ Len(sent) >= 3
    BY <1>1, <1>3, DatabasesContent DEF Meets
  <2>2. Len(list) = Len(sent) - 3 /\ \A i \in DOMAIN list : list[i] = sent[i + 2].val
    <3>1. ~(Len(sent) < 2) /\ ~(Len(sent) < Len(sent))
      BY <2>1
    <3> QED
      BY <1>1, <1>3, <3>1 DEF InfoRead
  <2>3. list \in [1..Len(list) -> Things]
    BY <1>1, Written, LenProperties
  <2>4. list = [i \in 1..Len(list) |-> list[i]]
    BY <2>3
  <2> QED
    BY <2>2, <2>3, <2>4
<1> QED
  BY <1>2, <1>3

\* A reader of transactions that dies stands at the mark of an answer that was
\* cut.
LEMMA LimboDone == IInv => LimboWhole
<1> SUFFICES ASSUME IInv, reader = "limbo"
             PROVE  /\ status = "done" =>
                         list = [i \in DOMAIN sent |-> sent[i].val] /\ Len(sent) <= limit
                    /\ status = "fatal" => Len(sent) >= limit
  BY DEF LimboWhole
<1>1. ASSUME status # "idle"
      PROVE  /\ Types /\ Len(sent) \in Nat /\ DOMAIN sent = 1..Len(sent) /\ limit \in Nat
             /\ left \in Seq(Items) /\ list \in Seq(Things)
  <2>1. Types
    BY <1>1, Before
  <2> QED
    BY <2>1, Written, LenProperties, Values0
<1>2. ASSUME status = "done"
      PROVE  list = [i \in DOMAIN sent |-> sent[i].val] /\ Len(sent) <= limit
  <2>1. LimboRead(Len(sent)) /\ Tag = "end"
    BY <1>2, DoneAll DEF ReadSoFar, IInv, Stops
  <2>2. list = [i \in 1..Len(list) |-> list[i]]
    <3>1. list \in [1..Len(list) -> Things]
      BY <1>1, <1>2, LenProperties
    <3> QED
      BY <3>1
  <2>3. ~Cut
    <3> SUFFICES ASSUME Cut PROVE FALSE
      OBVIOUS
    <3>1. PICK p \in Nat : p \in 0..Len(sent) /\ Follows(p) /\ ReadSoFar(p)
      BY <1>2, Before
    <3>2. left # << >> /\ left[1].tag = "end" /\ left[Len(left)].tag = "truncated"
      BY <2>1 DEF Cut, Tag
    <3>3. 1 \in 1..Len(left)
      BY <1>1, <1>2, <3>2, EmptySeq
    <3>4. Len(left) = 1
      BY <3>1, <3>2, <3>3 DEF Follows, Continues, Marks
    <3> QED
      BY <3>2, <3>4
  <2> QED
    BY <1>1, <1>2, <2>1, <2>2, <2>3 DEF LimboRead
<1>3. ASSUME status = "fatal"
      PROVE  Len(sent) >= limit
  <2>1. PICK p \in Nat : p \in 0..Len(sent) /\ Follows(p) /\ ReadSoFar(p)
    BY <1>3, Before
  <2>2. left # << >> /\ left[1].tag \notin {"end", "limbo"}
    BY <1>3, Readers0 DEF IInv, Stops, Tag
  <2>3. 1 \in 1..Len(left)
    BY <1>1, <1>3, <2>2, EmptySeq
  <2>4. left[1].tag \in Marks
    <3> SUFFICES ASSUME left[1].tag \notin Marks PROVE FALSE
      OBVIOUS
    <3>1. p + 1 <= Len(sent) /\ left[1] = sent[p + 1]
      BY <2>1, <2>3 DEF Follows, Continues
    <3>2. p + 1 \in 1..Len(sent)
      BY <1>1, <1>3, <3>1
    <3>3. sent \in Content("limbo")
      BY <1>1, <1>3 DEF Types, Meets
    <3> QED
      BY <2>2, <3>1, <3>2, <3>3, LimboContent
  <2>5. Len(left) = 1
    BY <2>1, <2>3, <2>4 DEF Follows, Continues
  <2>6. LimboRead(p)
    BY <2>1 DEF ReadSoFar
  <2>7. Cut
    BY <2>2, <2>4, <2>5, <2>6 DEF LimboRead, Cut, Marks
  <2> QED
    BY <2>6, <2>7 DEF LimboRead
<1> QED
  BY <1>2, <1>3

\* A counter was written by the one item with its tag, or by none.
LEMMA CountsDone == IInv => CountsTrue
<1> SUFFICES ASSUME IInv, status = "done", reader = "statistics"
             PROVE  /\ \A c \in Counters : counts[c] = Said(c)
                    /\ counts["affected"] = Said("insert") + Said("update") + Said("delete")
  BY DEF CountsTrue
<1>1. sent \in Content("statistics") /\ DOMAIN sent = 1..Len(sent) /\ CountsRead(Len(sent))
  BY DoneAll DEF ReadSoFar
<1>2. \A c \in Counters : counts[c] = Said(c)
  <2> SUFFICES ASSUME NEW c \in Counters PROVE counts[c] = Said(c)
    OBVIOUS
  <2>1. CASE \E i \in DOMAIN sent : sent[i].tag = c
    <3> DEFINE k == CHOOSE i \in DOMAIN sent : sent[i].tag = c
    <3>1. k \in DOMAIN sent /\ sent[k].tag = c
      BY <2>1
    <3>2. Said(c) = sent[k].val
      BY <2>1 DEF Said
    <3> HIDE DEF k
    <3> QED
      BY <1>1, <3>1, <3>2 DEF CountsRead
  <2>2. CASE ~\E i \in DOMAIN sent : sent[i].tag = c
    <3>1. Said(c) = 0
      BY <2>2 DEF Said
    <3> QED
      BY <1>1, <2>2, <3>1 DEF CountsRead
  <2> QED
    BY <2>1, <2>2
<1>3. counts["affected"] = Affected
  BY <1>1 DEF CountsRead
<1>4. {"insert", "update", "delete"} \subseteq Counters
  BY DEF Counters
<1> QED
  BY <1>2, <1>3, <1>4 DEF Affected

\* A vector that is read holds at least one error.
LEMMA CodesDone == IInv => CodesOwn
<1> SUFFICES ASSUME IInv, status = "done", reader = "exception"
             PROVE  /\ list = [i \in DOMAIN sent |-> [msg |-> i, code |-> sent[i].val]]
                    /\ (\A i \in DOMAIN sent : sent[i].tag = "error") => fields["code"] = sent[1].val
  BY DEF CodesOwn
<1>1. /\ Types /\ sent \in Content("exception") /\ Len(sent) \in Nat
      /\ DOMAIN sent = 1..Len(sent) /\ CodesRead(Len(sent))
  BY DoneAll DEF ReadSoFar
<1>2. Len(sent) > 0
  <2>1. sent # << >>
    BY <1>1 DEF Content, Vectors
  <2> QED
    BY <1>1, <2>1, ExceptionContent, EmptySeq
<1>3. list = [i \in 1..Len(list) |-> list[i]]
  <2>1. list \in [1..Len(list) -> Things]
    BY <1>1, Written, LenProperties
  <2> QED
    BY <2>1
<1> QED
  BY <1>1, <1>2, <1>3 DEF CodesRead

\* Results and counters are of their types, and nothing that is not initialised
\* is ever listed (the zval user_info of Service::get_users).
THEOREM ResponsesTyped == Spec => []TypeOK
<1>1. IInv => TypeOK
  BY DEF IInv, Types
<1> QED
  BY <1>1, Invariance, PTL

\* get_info and get_db_info return what the server said, all of it, whatever
\* the answer looks like, in spite of the missing break of db_file_size.
THEOREM InfoIsTrue == Spec => []InfoTrue
  BY InfoDone, Invariance, PTL

\* get_limbo_transactions returns every transaction in limbo, and ends the
\* script only when there are as many as it asked for or more.
THEOREM LimboIsWhole == Spec => []LimboWhole
  BY LimboDone, Invariance, PTL

\* get_users lists every account that has come, once, in order and with its own
\* fields; what the variable held at first is listed at most once, before them.
\* A list that was cut is returned like a whole one: cut between two accounts it
\* is only shorter, the last one may lack fields, and cut inside an item there
\* may be anything behind those that have come (fbp/service.cpp:155-200).
THEOREM UsersAreWhole == Spec => []UsersWhole
<1>1. IInv => UsersWhole
  BY DEF IInv
<1> QED
  BY <1>1, Invariance, PTL

\* The counters of a statement, and affected_count with them, are those of its
\* last execution, whatever was counted before it.
THEOREM CountsAreTrue == Spec => []CountsTrue
  BY CountsDone, Invariance, PTL

\* Each message of an exception is there once, in order, with its own code.
THEOREM CodesAreOwn == Spec => []CodesOwn
  BY CodesDone, Invariance, PTL

=============================================================================
