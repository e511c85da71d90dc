----------------------------- MODULE Responses -----------------------------
(***************************************************************************)
(* How the extension reads what the server answers: information about the  *)
(* database and the server, the databases in use, transactions in limbo,   *)
(* user accounts, the record counts of a statement and the status vectors  *)
(* of an exception.  Each reader walks a buffer item by item, puts what it *)
(* knows into a PHP result and ends the script (fbp_fatal) at an item that *)
(* it does not know.  The buffer is of fixed size: the server marks an     *)
(* answer that did not fit.  Readers share nothing, so that a behaviour is *)
(* a sequence of calls of one of them.                                     *)
(***************************************************************************)
EXTENDS Integers, Sequences, FiniteSets

CONSTANTS
  Values,    \* values an item can have, numbers
  Unset,     \* a field of the result that was not written
  Undef,     \* get_users' zval user_info before it holds an object: it is not
  Garbage,   \* initialised, and its type may happen to read as an object's
  MaxItems,  \* bound: items the server has to say, where it is a list
  MaxBeyond, \* bound: what get_users takes for items behind one that was cut
  MaxLimbo   \* bound: max_count of get_limbo_transactions

ASSUME ResponsesAssumption ==
  /\ Values \subseteq Nat /\ Unset \notin Nat
  /\ MaxItems \in Nat /\ MaxBeyond \in Nat /\ MaxLimbo \in Nat \ {0}

VARIABLES
  reader,  \* who reads
  said,    \* history: what the server has to say, item by item
  whole,   \* history: how many of these items reach the reader
  sent,    \* the items that the reader finds before it
  left,    \* the part of the response that is still to be read
  limit,   \* the caller's max_count
  fields,  \* the result: its named properties,
  list,    \* and the array it holds
  user,    \* get_users: the zval user_info
  code,    \* fbu_handle_exception: the code of the message to come
  counts,  \* the statement's counters, which outlive the call
  status   \* "idle", "reading", "done" or "fatal"

vars == <<reader, said, whole, sent, left, limit, fields, list, user, code, counts, status>>

\* Mutant: the pages in use are asked for before the size of the file.
AskedEarlier == <<"pages_used", "db_file_size", "sqlrole">>

\* A few of the names stand for all that are read the same way.
DbItems == <<"db_file_size", "pages_used", "sqlrole">>
ServerItems == <<"server_version", "user_dbpath">>
UserFields == {"username", "firstname", "admin"}
Counters == {"insert", "update", "delete", "select"}
FieldNames == {"db_file_size", "pages_used", "sqlrole", "server_version", "user_dbpath",
               "num_att", "num_db", "code"}

\* The tags each reader has a case for.
Known ==
  [db_info     |-> {"db_file_size", "pages_used", "sqlrole"},
   server_info |-> {"server_version", "user_dbpath"},
   databases   |-> {"flag_end", "num_att", "num_db", "dbname"},
   limbo       |-> {"limbo"},
   users       |-> UserFields \union {"userid"},
   statistics  |-> Counters,
   exception   |-> {"error", "warning"}]
Readers == DOMAIN Known

Item(tag, val) == [tag |-> tag, val |-> val]
Blank == [f \in FieldNames |-> Unset]
NewUser == [f \in UserFields |-> Unset]
NoCounts == [c \in Counters \union {"affected"} |-> 0]

\* What was not initialised differs from all that can be listed.
ASSUME UndefAssumption ==
  /\ Undef \notin Nat /\ Undef # Garbage
  /\ Undef \notin [UserFields -> Nat \union {Unset}]
  /\ Undef \notin [msg : Nat, code : Nat]

-----------------------------------------------------------------------------
(* What the server has to say.                                             *)

SeqsUpTo(S, n) == UNION {[1..m -> S] : m \in 0..n}

Asked(names) ==
  {[i \in DOMAIN names |-> Item(names[i], v[i])] : v \in [DOMAIN names -> Values]}

\* v attachments to the databases d.
InUse(v, d) ==
  <<Item("num_att", v), Item("num_db", Len(d))>>
    \o [i \in DOMAIN d |-> Item("dbname", d[i])] \o <<Item("flag_end", 0)>>

Attachments == {InUse(v, d) : v \in Values, d \in SeqsUpTo(Values, 2)}

\* Users one after the other, each with its name first.
Accounts ==
  {s \in SeqsUpTo({Item(t, v) : t \in UserFields, v \in Values} \union {Item("userid", 0)}, MaxItems) :
     /\ s # << >> => s[1].tag = "username"
     /\ \A i, j \in DOMAIN s : i < j /\ s[i].tag = s[j].tag =>
          IF s[i].tag = "username" THEN s[i] # s[j] ELSE \E k \in i..j : s[k].tag = "username"}

\* Errors first, then warnings; a code that isc_sqlcode does not know is 0.
Vectors ==
  {s \in SeqsUpTo({Item(t, v) : t \in {"error", "warning"}, v \in Values}, MaxItems) :
     /\ s # << >> /\ s[1].tag = "error"
     /\ \A i, j \in DOMAIN s : i < j /\ s[j].tag = "error" => s[i].tag = "error"}

Content(r) ==
  CASE r = "db_info"     -> Asked(DbItems)
    [] r = "server_info" -> Asked(ServerItems)
    [] r = "databases"   -> Attachments
    [] r = "limbo"       -> {[i \in 1..n |-> Item("limbo", i)] : n \in 0..MaxItems}
    [] r = "users"       -> Accounts
    [] r = "statistics"  -> {s \in SeqsUpTo({Item(c, v) : c \in Counters, v \in Values}, 4) :
                               \A i, j \in DOMAIN s : s[i].tag = s[j].tag => i = j}
    [] r = "exception"   -> Vectors

\* Mutant: room for the id alone.
ROOM_FOR_ID == 4

\* What the buffer of get_limbo_transactions has for each of max_count entries,
\* and what an entry takes: tag, length and id.
TRANS_ID_SIZE == 7
Entry == 7

\* The server marks the end, or that it had to stop.  Where the entries fill the
\* buffer to its last byte the mark itself may not fit, and the server says
\* whether that is an error.
LimboAnswers(s, cap) ==
  LET fit == {n \in 0..Len(s) : Entry * n + 1 <= cap}
      most == CHOOSE n \in fit : \A m \in fit : m <= n
  IN IF most = Len(s) THEN {Append(s, Item("end", 0))}
     ELSE {Append(SubSeq(s, 1, most), Item("truncated", 0))}
            \union (IF Entry * Len(s) = cap THEN {s} ELSE {})

\* The other buffers hold 1024 bytes of items of any length, so that the answer
\* may be cut anywhere.  What follows may also be an item the reader has no case
\* for: isc_info_error for one that an older server does not know, or the timeout
\* of a user list.  Behind a part of a user list the end may follow directly.
Answers(r, s, max) ==
  CASE r = "limbo" -> LimboAnswers(s, TRANS_ID_SIZE * max)
    [] r \in {"exception", "statistics"} -> {Append(s, Item("end", 0))}
    [] OTHER -> {Append(s, Item("end", 0))}
                  \union {Append(SubSeq(s, 1, n), Item(t, 0)) :
                            n \in 0..Len(s), t \in {"truncated", "other"}}

\* get_users looks neither at resp_len nor at the end of its buffer.  Where only
\* n items of s have come, there may be a part of the next one: it is taken for
\* a whole one, p passes the mark behind it, and what lies there, inside the
\* buffer or beyond it, is read as items until one ends the loop or the script.
Beyond == SeqsUpTo({Item(t, v) : t \in Known.users, v \in Values}, MaxBeyond)

CutInside(s, n, v, x) == SubSeq(s, 1, n) \o (<<Item(s[n + 1].tag, v)>> \o x)

Found(s, n) ==
  IF n = Len(s) THEN {s}
  ELSE {SubSeq(s, 1, n)} \union {CutInside(s, n, v, x) : v \in Values, x \in Beyond}

-----------------------------------------------------------------------------
(* Calls.                                                                  *)

Cleared == /\ said' = << >> /\ whole' = 0 /\ sent' = << >> /\ left' = << >> /\ limit' = 1
           /\ fields' = Blank /\ list' = << >> /\ user' = Undef /\ code' = 0

Init ==
  /\ reader \in Readers /\ status = "idle" /\ counts = NoCounts
  /\ said = << >> /\ whole = 0 /\ sent = << >> /\ left = << >> /\ limit = 1
  /\ fields = Blank /\ list = << >> /\ user = Undef /\ code = 0

\* Mutant: the code is looked up once, before the loop.
CodeOnce(s) == IF s[1].tag \notin Known.exception THEN 0
               ELSE IF status = "idle" THEN s[1].val ELSE code

\* The code of the message a status vector is at.
CodeAt(s) == IF s[1].tag \in Known.exception THEN s[1].val ELSE 0

\* Mutant: the counters of the last execution are added to.
CountsKept == counts

\* query_statistics resets the counters of the statement before it reads.
CountsAtStart == IF reader = "statistics" THEN NoCounts ELSE counts

Call ==
  /\ status = "idle"
  /\ status' = "reading"
  /\ limit' \in (IF reader = "limbo" THEN 1..MaxLimbo ELSE {1})
  /\ said' \in Content(reader)
  /\ whole' \in (IF reader = "users" THEN 0..Len(said') ELSE {Len(said')})
  /\ sent' \in Found(said', whole')
  /\ left' \in Answers(reader, sent', limit')
  /\ user' \in (IF reader = "users" THEN {Undef, Garbage} ELSE {Undef})
  /\ fields' = Blank /\ list' = << >>
  /\ code' = CodeAt(left')
  /\ counts' = CountsAtStart
  /\ UNCHANGED reader

\* The tag at hand; a buffer that is read to its end counts as an end.
Tag == IF left = << >> THEN "end" ELSE left[1].tag
Sees(r, tags) == status = "reading" /\ reader = r /\ Tag \in tags
Put(f) == fields' = [fields EXCEPT ![f] = left[1].val]
Rest == left' = Tail(left) /\ UNCHANGED <<reader, said, whole, sent, limit, status>>

\* Database::get_info.  The case of the file size has no break (it is in the
\* comment) and runs into the next, that of the pages in use.
ReadDbItem ==
  /\ Sees("db_info", Known.db_info)
  /\ fields' = [fields EXCEPT ![Tag] = left[1].val,
       !["pages_used"] = IF Tag \in {"db_file_size", "pages_used"} THEN left[1].val ELSE @]
  /\ Rest /\ UNCHANGED <<list, user, code, counts>>

ReadServerItem ==
  /\ Sees("server_info", Known.server_info)
  /\ Put(Tag)
  /\ Rest /\ UNCHANGED <<list, user, code, counts>>

\* Service::get_db_info: two numbers and the names of the databases.
ReadAttachments ==
  /\ Sees("databases", {"num_att", "num_db"})
  /\ Put(Tag)
  /\ Rest /\ UNCHANGED <<list, user, code, counts>>

ReadDbName ==
  /\ Sees("databases", {"dbname", "flag_end"})
  /\ list' = IF Tag = "dbname" THEN Append(list, left[1].val) ELSE list
  /\ Rest /\ UNCHANGED <<fields, user, code, counts>>

\* get_limbo_transactions: an entry beyond the limit would leave the loop.
ReadLimbo ==
  /\ Sees("limbo", Known.limbo)
  /\ list' = IF Len(list) < limit THEN Append(list, left[1].val) ELSE list
  /\ left' = IF Len(list) < limit THEN Tail(left) ELSE << >>
  /\ UNCHANGED <<reader, said, whole, sent, limit, fields, user, code, counts, status>>

\* Mutant: a user is listed when the next one begins.
ListedAt == {"username"}

\* Service::get_users lists the user at hand when the next one begins and at the
\* end.  What it lists the first time is the variable as it was found.
Listing == {"username", "end"}

\* Mutant: what the variable held is listed without a look at its type.
ListedBlindly == IF Tag \in Listing THEN Append(list, user) ELSE list

Listed == IF Tag \in Listing /\ user # Undef THEN Append(list, user) ELSE list

ReadUser ==
  /\ Sees("users", {"username"})
  /\ list' = Listed
  /\ user' = [NewUser EXCEPT !["username"] = left[1].val]
  /\ Rest /\ UNCHANGED <<fields, code, counts>>

\* A value of a list that was cut may be any: len bytes from p on.
ReadUserItem ==
  /\ Sees("users", Known.users \ {"username"})
  /\ user' = IF Tag = "userid" THEN user ELSE [user EXCEPT ![Tag] = left[1].val]
  /\ Rest /\ UNCHANGED <<fields, list, code, counts>>

ReadCount ==
  /\ Sees("statistics", Counters)
  /\ counts' = [counts EXCEPT ![Tag] = @ + left[1].val]
  /\ Rest /\ UNCHANGED <<fields, list, user, code>>

\* fbu_handle_exception: the exception takes the code of the first message of
\* each vector, so that a warning's replaces an error's.  The code of a message
\* is looked up before fb_interpret moves on to the next.
ReadMessage ==
  /\ Sees("exception", Known.exception)
  /\ fields' = IF list = << >> \/ sent[Len(list)].tag # Tag
               THEN [fields EXCEPT !["code"] = code] ELSE fields
  /\ list' = Append(list, [msg |-> Len(list) + 1, code |-> code])
  /\ code' = CodeAt(Tail(left))
  /\ Rest /\ UNCHANGED <<user, counts>>

\* affected_count leaves the rows that were only selected out.
Affected == counts["insert"] + counts["update"] + counts["delete"]

Ends == {"end"}

Finish ==
  /\ status = "reading" /\ Tag \in Ends
  /\ status' = "done"
  /\ list' = IF reader = "users" THEN Listed ELSE list
  /\ counts' = IF reader = "statistics" THEN [counts EXCEPT !["affected"] = Affected] ELSE counts
  /\ UNCHANGED <<reader, said, whole, sent, left, limit, fields, user, code>>

Fatal ==
  /\ status = "reading"
  /\ Tag \notin Ends \union Known[reader]
  /\ status' = "fatal"
  /\ UNCHANGED <<reader, said, whole, sent, left, limit, fields, list, user, code, counts>>

\* The script goes on with the result, or a new request begins.
Return ==
  /\ status \in {"done", "fatal"} /\ status' = "idle"
  /\ counts' = IF status = "fatal" THEN NoCounts ELSE counts
  /\ Cleared /\ UNCHANGED reader

Next == \/ Call \/ ReadDbItem \/ ReadServerItem \/ ReadAttachments \/ ReadDbName
        \/ ReadLimbo \/ ReadUser \/ ReadUserItem \/ ReadCount \/ ReadMessage
        \/ Finish \/ Fatal \/ Return

Spec == Init /\ [][Next]_vars

-----------------------------------------------------------------------------
(* Properties.                                                             *)

TypeOK ==
  /\ reader \in Readers /\ status \in {"idle", "reading", "done", "fatal"}
  /\ limit \in 1..MaxLimbo /\ code \in Nat
  /\ fields \in [FieldNames -> Nat \union {Unset}]
  /\ counts \in [Counters \union {"affected"} -> Nat]
  /\ Undef \notin {list[i] : i \in DOMAIN list}

\* Information that the script gets is what the server said, all of it and in
\* its order.  It takes the order of the request to make up for the missing
\* break of db_file_size (fbp/database.cpp:428).
InfoTrue ==
  status = "done" /\ reader \in {"db_info", "server_info", "databases"} =>
    /\ \A i \in DOMAIN sent : sent[i].tag \in FieldNames => fields[sent[i].tag] = sent[i].val
    /\ reader = "databases" => list = [i \in 1..Len(sent) - 3 |-> sent[i + 2].val]

\* The script gets every transaction in limbo and dies only when there are as
\* many as it asked for or more (fbp/database.cpp:462).
LimboWhole ==
  reader = "limbo" =>
    /\ status = "done" => list = [i \in DOMAIN sent |-> sent[i].val] /\ Len(sent) <= limit
    /\ status = "fatal" => Len(sent) >= limit

\* The account that begins at i: each field is its own, or was not sent.
AccountAt(i) ==
  [f \in UserFields |->
     LET own == {j \in i..Len(said) : said[j].tag = f /\ \A k \in i + 1..j : said[k].tag # "username"}
     IN IF own = {} THEN Unset ELSE said[CHOOSE j \in own : TRUE].val]

\* All of it has come, and the beginning of the next one.
Complete(i) == whole = Len(said) \/ \E j \in i + 1..whole : said[j].tag = "username"

\* a tells of that account what has come of it: behind a list that was cut
\* between two items, the last one may lack fields, but has none that are wrong.
TellsOf(i, a) ==
  IF Complete(i) THEN a = AccountAt(i)
  ELSE Len(sent) = whole => \A f \in UserFields : a[f] \in {AccountAt(i)[f], Unset}

\* get_users lists every account that has come, once, in order and with its own
\* fields; before them there is at most what the variable held
\* (fbp/service.cpp:172).  A list that was cut is returned like a whole one: it
\* is shorter, and what is behind the accounts that have come is anything.
UsersWhole ==
  status = "done" /\ reader = "users" =>
    LET first == {i \in DOMAIN sent : sent[i].tag = "username"}
        before == Len(list) - Cardinality(first)
    IN /\ before \in 0..1 /\ (before = 1 => list[1] = Garbage)
       /\ \A i \in first : i <= whole =>
            TellsOf(i, list[before + Cardinality({j \in first : j <= i})])

\* affected_count and the counters it is made of are those of the last
\* execution alone.
Said(c) == IF \E i \in DOMAIN sent : sent[i].tag = c
           THEN sent[CHOOSE i \in DOMAIN sent : sent[i].tag = c].val ELSE 0
CountsTrue ==
  status = "done" /\ reader = "statistics" =>
    /\ \A c \in Counters : counts[c] = Said(c)
    /\ counts["affected"] = Said("insert") + Said("update") + Said("delete")

\* Each message of an exception has its own code, and the exception itself that
\* of its first error when there is no warning (firebird_utils.cpp:93).
CodesOwn ==
  status = "done" /\ reader = "exception" =>
    /\ list = [i \in DOMAIN sent |-> [msg |-> i, code |-> sent[i].val]]
    /\ (\A i \in DOMAIN sent : sent[i].tag = "error") => fields["code"] = sent[1].val

=============================================================================
