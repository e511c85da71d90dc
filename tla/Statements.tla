----------------------------- MODULE Statements -----------------------------
(***************************************************************************)
(* Prepared statements and their cursors in one Transaction object.        *)
(*                                                                         *)
(* Three layers remember where a fetch loop stands: the flags of the C     *)
(* struct firebird_stmt, the member `cursor` of the C++ Statement, and the *)
(* result set in the client library, which ends with the transaction that  *)
(* opened it.  execute() of a query only fills in_buffer; the cursor is    *)
(* opened by the first fetch.                                              *)
(*                                                                         *)
(* PHP runs a request in one thread, so every method is one step; one that *)
(* raises an exception and changes nothing is a stuttering step.           *)
(***************************************************************************)
EXTENDS Naturals

CONSTANTS
  Stmts,    \* the PHP Statement objects of one request
  MaxRs,    \* bound: result sets opened in one request
  MaxRun,   \* bound: calls of execute in one request
  MaxRows   \* bound: rows of one result set

ASSUME BoundsAssumption == MaxRs \in Nat /\ MaxRun \in Nat /\ MaxRows \in Nat

VARIABLES
  tra,   \* whether the Transaction's pointer leads to a running transaction
  run,   \* calls of execute so far
  st,    \* st[s]: firebird_stmt and the C++ Statement behind its handle
  rs,    \* rs[c]: result set c of the client library
  ret    \* ret[s]: what the last fetch of s returned

vars == <<tra, run, st, rs, ret>>

Runs == 1..MaxRun
Sets == 1..MaxRs

\* What statement_type leads to.  A savepoint or DDL statement does what
\* "start" does when it is refused; the types execute() has no case for
\* raise a fatal error.
Kinds == {"select", "dml", "commit", "start", "other"}

\* obj: the PHP object; sth: its handle leads to a Statement.  args: the
\* calls of execute whose arguments are in in_buffer, 0 for the zeros that
\* calloc left.  cursor: 0 is the null pointer.  ran: the last call of execute,
\* 0 when that one failed.
StmtRec == [obj : {"none", "live", "freed"}, sth : BOOLEAN, kind : Kinds,
            args : SUBSET (0..MaxRun), cursor : 0..MaxRs,
            is_cursor_open : BOOLEAN, is_exhausted : BOOLEAN,
            did_fake_fetch : BOOLEAN, ran : 0..MaxRun]

\* of: the statement it was opened for; args: the arguments it was opened
\* with; at: the value of run then.  A "dead" one outlived its transaction; an
\* "ended" one was read to its end, a "closed" one was not.  pos: rows the
\* library has handed over.  given and lost are history: the rows of these
\* that a fetch returned, and those that it could not convert.
SetRec == [st : {"none", "open", "dead", "closed", "ended"},
           of : Stmts \union {"nobody"}, args : SUBSET (0..MaxRun), at : 0..MaxRun,
           pos : 0..MaxRows, given : 0..MaxRows, lost : 0..MaxRows]

NoStmt == [obj |-> "none", sth |-> FALSE, kind |-> "select", args |-> {0},
           cursor |-> 0, is_cursor_open |-> FALSE, is_exhausted |-> FALSE,
           did_fake_fetch |-> FALSE, ran |-> 0]
NoSet  == [st |-> "none", of |-> "nobody", args |-> {0},
           at |-> 0, pos |-> 0, given |-> 0, lost |-> 0]

TypeOK ==
  /\ tra \in BOOLEAN
  /\ run \in 0..MaxRun
  /\ st \in [Stmts -> StmtRec]
  /\ rs \in [Sets -> SetRec]
  /\ ret \in [Stmts -> {"none", "row", "false", "null", "throw"}]

Init ==
  /\ tra = FALSE
  /\ run = 0
  /\ st = [s \in Stmts |-> NoStmt]
  /\ rs = [c \in Sets |-> NoSet]
  /\ ret = [s \in Stmts |-> "none"]

-----------------------------------------------------------------------------
(* The transaction, and the request.                                       *)

\* A result set does not survive the transaction it was opened in.
EndSets == rs' = [c \in Sets |-> IF rs[c].st = "open"
                                 THEN [rs[c] EXCEPT !.st = "dead"] ELSE rs[c]]

StartTran ==
  /\ ~tra /\ tra' = TRUE
  /\ UNCHANGED <<run, st, rs, ret>>

EndTran ==
  /\ tra /\ tra' = FALSE
  /\ EndSets
  /\ UNCHANGED <<run, st, ret>>

\* rollback_ret: the transaction goes on, and the server may end the cursors.
\* (commit_ret leaves all of this as it is.)
RollbackRetaining ==
  /\ tra
  /\ EndSets
  /\ UNCHANGED <<tra, run, st, ret>>

\* The request ends, or its process does; the next one starts from nothing.
Reset ==
  /\ tra' = FALSE
  /\ run' = 0
  /\ st' = [s \in Stmts |-> NoStmt]
  /\ rs' = [c \in Sets |-> NoSet]
  /\ ret' = [s \in Stmts |-> "none"]

-----------------------------------------------------------------------------
(* Statements.                                                             *)

Usable(s) == st[s].obj = "live" /\ st[s].sth

\* Transaction::prepare; the server describes the statement.  A statement
\* that cannot be prepared is freed with the object being returned.
Prepare(s, kind) ==
  /\ st[s].obj = "none"
  /\ st' = [st EXCEPT ![s].obj = "live", ![s].sth = TRUE, ![s].kind = kind]
  /\ UNCHANGED <<tra, run, rs, ret>>

\* bind() stores one argument after the other and throws at the first it
\* cannot convert: what is stored stays.  (A wrong count stores nothing.)
BindFails(s) ==
  /\ st' = [st EXCEPT ![s].args = @ \union {run'}, ![s].ran = 0]
  /\ UNCHANGED <<tra, rs>>

\* Mutants: execute() forgets an open cursor; an argument is not replaced.
BindForgetsCursor(s, n) == [st[s] EXCEPT !.args = {n}, !.is_exhausted = FALSE,
                              !.is_cursor_open = FALSE, !.did_fake_fetch = FALSE,
                              !.ran = n]
BindKeeps(s, n) == [st[s] EXCEPT !.args = @ \union {n}, !.is_exhausted = FALSE,
                                 !.did_fake_fetch = FALSE, !.ran = n]

Bind(s, n) == [st[s] EXCEPT !.args = {n}, !.is_exhausted = FALSE,
                            !.did_fake_fetch = FALSE, !.ran = n]

\* A query: only the arguments and two flags; an open cursor stays.
ExecuteSelect(s) ==
  /\ st[s].kind = "select"
  /\ \/ st' = [st EXCEPT ![s] = Bind(s, run')] /\ UNCHANGED <<tra, rs>>
     \/ BindFails(s)

\* Statements with an output buffer: RETURNING, procedures, and the like.
\* When the server refuses, the arguments are in place and the flags old.
ExecuteDml(s) ==
  /\ st[s].kind = "dml"
  /\ \/ tra /\ st' = [st EXCEPT ![s] = Bind(s, run')]
     \/ st' = [st EXCEPT ![s].args = {run'}, ![s].ran = 0]
     \/ BindFails(s)
  /\ UNCHANGED <<tra, rs>>

\* COMMIT and SET TRANSACTION as statements; neither touches the flags.
ExecuteTran(s) ==
  /\ \/ st[s].kind = "commit" /\ tra /\ tra' = FALSE /\ EndSets
     \/ st[s].kind = "start" /\ ~tra /\ tra' = TRUE /\ UNCHANGED rs
  /\ st' = [st EXCEPT ![s].ran = run']

\* Statement::execute.  The type is read through info; after free() that
\* points into freed memory, and whatever it leads to finds no Statement.
Execute(s) ==
  /\ st[s].obj = "live"
  /\ \/ /\ Usable(s) /\ run < MaxRun /\ run' = run + 1
        /\ ExecuteSelect(s) \/ ExecuteDml(s) \/ ExecuteTran(s)
        /\ UNCHANGED ret
     \/ (~st[s].sth \/ st[s].kind = "other") /\ Reset

-----------------------------------------------------------------------------
(* Fetching.                                                               *)

\* fetchNext on r, which is result set c: a row, the end, or an error.  The
\* row is converted once the cursor has moved past it; when a column cannot
\* be (the text of a blob, a time zone), the row is gone with an exception.
FetchNext(s, c, r) ==
  \/ /\ r.st = "open" /\ r.pos < MaxRows
     /\ st' = [st EXCEPT ![s].cursor = c, ![s].is_cursor_open = TRUE]
     /\ \/ /\ rs' = [rs EXCEPT ![c] = [r EXCEPT !.pos = @ + 1, !.given = @ + 1]]
           /\ ret' = [ret EXCEPT ![s] = "row"]
        \/ /\ rs' = [rs EXCEPT ![c] = [r EXCEPT !.pos = @ + 1, !.lost = @ + 1]]
           /\ ret' = [ret EXCEPT ![s] = "throw"]
  \/ /\ r.st = "open"
     /\ rs' = [rs EXCEPT ![c] = [r EXCEPT !.st = "ended"]]
     /\ st' = [st EXCEPT ![s].cursor = 0, ![s].is_cursor_open = FALSE,
                         ![s].is_exhausted = TRUE]
     /\ ret' = [ret EXCEPT ![s] = "false"]
  \/ /\ rs' = [rs EXCEPT ![c] = r]
     /\ st' = [st EXCEPT ![s].cursor = c, ![s].is_cursor_open = TRUE]
     /\ ret' = [ret EXCEPT ![s] = "throw"]

\* The first fetch opens the cursor, if the server lets it.
FetchFirst(s) ==
  /\ ~st[s].is_cursor_open
  /\ \/ \E c \in Sets :
          /\ tra /\ rs[c].st = "none" /\ \A b \in Sets : b < c => rs[b].st # "none"
          /\ FetchNext(s, c, [st |-> "open", of |-> s, args |-> st[s].args,
                              at |-> run, pos |-> 0, given |-> 0, lost |-> 0])
     \/ ret' = [ret EXCEPT ![s] = "throw"] /\ UNCHANGED <<st, rs>>

\* The next one trusts is_cursor_open; fetch_next() does not check cursor.
FetchMore(s) ==
  /\ st[s].is_cursor_open /\ st[s].cursor # 0
  /\ FetchNext(s, st[s].cursor, rs[st[s].cursor])

FetchNull(s) ==
  /\ Usable(s) /\ st[s].kind = "select" /\ ~st[s].is_exhausted
  /\ st[s].is_cursor_open /\ st[s].cursor = 0
  /\ Reset

\* Mutant: is_exhausted is not looked at.
FetchSelectAgain(s) == st[s].kind = "select" /\ (FetchFirst(s) \/ FetchMore(s))

FetchSelect(s) ==
  /\ st[s].kind = "select"
  /\ \/ st[s].is_exhausted /\ ret' = [ret EXCEPT ![s] = "false"] /\ UNCHANGED <<st, rs>>
     \/ ~st[s].is_exhausted /\ (FetchFirst(s) \/ FetchMore(s))

\* Everything else: what is in the output buffer, once.  The flag is set
\* before the columns are converted, and only "dml" has columns.
FetchOutput(s) ==
  /\ st[s].kind # "select"
  /\ st' = [st EXCEPT ![s].did_fake_fetch = TRUE]
  /\ \/ st[s].did_fake_fetch /\ ret' = [ret EXCEPT ![s] = "false"]
     \/ ~st[s].did_fake_fetch /\ ret' = [ret EXCEPT ![s] = "row"]
     \/ /\ ~st[s].did_fake_fetch /\ st[s].kind = "dml"
        /\ ret' = [ret EXCEPT ![s] = "throw"]
  /\ UNCHANGED rs

\* After free() the type is garbage; no path gets as far as a row.
FetchFreed(s) ==
  /\ ~st[s].sth
  /\ \E r \in {"false", "throw"} : ret' = [ret EXCEPT ![s] = r]
  /\ UNCHANGED <<st, rs>>

Fetch(s) ==
  /\ st[s].obj = "live"
  /\ (Usable(s) /\ (FetchSelect(s) \/ FetchOutput(s))) \/ FetchFreed(s)
  /\ UNCHANGED <<tra, run>>

\* Mutant: closing the cursor counts as having read it.
CloseCursorExhausts(s) ==
  /\ Usable(s) /\ st[s].cursor # 0 /\ rs[st[s].cursor].st = "open"
  /\ rs' = [rs EXCEPT ![st[s].cursor].st = "closed"]
  /\ st' = [st EXCEPT ![s].cursor = 0, ![s].is_cursor_open = FALSE,
                      ![s].is_exhausted = TRUE]
  /\ UNCHANGED <<tra, run, ret>>

\* Statement::close_cursor; the library refuses for a dead one, and then the
\* pointer stays.  is_cursor_open is the PHP object's and stays in any case.
CloseCursor(s) ==
  /\ Usable(s) /\ st[s].cursor # 0 /\ rs[st[s].cursor].st = "open"
  /\ rs' = [rs EXCEPT ![st[s].cursor].st = "closed"]
  /\ st' = [st EXCEPT ![s].cursor = 0]
  /\ UNCHANGED <<tra, run, ret>>

\* ~Statement closes the cursor and drops the pointer even if that fails.
Destroy(s) ==
  rs' = IF st[s].cursor # 0 /\ rs[st[s].cursor].st = "open"
        THEN [rs EXCEPT ![st[s].cursor].st = "closed"] ELSE rs

\* Statement::free, which leaves the object, and free_obj.  The flags that
\* free() leaves no longer matter: see FetchFreed.
Free(s) ==
  /\ Usable(s)
  /\ Destroy(s)
  /\ \E o \in {"live", "freed"} : st' = [st EXCEPT ![s] = [NoStmt EXCEPT !.obj = o]]
  /\ UNCHANGED <<tra, run, ret>>

Next ==
  \/ StartTran \/ EndTran \/ RollbackRetaining \/ Reset
  \/ \E s \in Stmts, kind \in Kinds : Prepare(s, kind)
  \/ \E s \in Stmts : Execute(s) \/ Fetch(s) \/ FetchNull(s)
                      \/ CloseCursor(s) \/ Free(s)

Spec == Init /\ [][Next]_vars

-----------------------------------------------------------------------------
(* Properties.                                                             *)

\* The open result sets are exactly what the live statements point at, one
\* each: opening a cursor, which has no check of its own, never overwrites
\* one, and none stays open on the server with nothing left to close it.
CursorsHeld ==
  /\ \A s \in Stmts : Usable(s) /\ st[s].cursor # 0 => st[s].is_cursor_open
  /\ \A c \in Sets : rs[c].st = "open" =>
       tra /\ \E s \in Stmts : Usable(s) /\ st[s].cursor = c /\ rs[c].of = s
  /\ \A s, z \in Stmts : st[s].cursor = st[z].cursor /\ st[s].cursor # 0 => s = z

\* No row goes missing in silence: when a query says that it is exhausted, the
\* last result set opened for it has been read to its end, and each of its
\* rows was either returned or is one that a fetch raised an exception about.
ExhaustedMeansRead ==
  \A s \in Stmts : Usable(s) /\ st[s].is_exhausted =>
    /\ st[s].cursor = 0 /\ ~st[s].is_cursor_open
    /\ \E c \in Sets : /\ rs[c].of = s /\ rs[c].st = "ended"
                       /\ rs[c].given + rs[c].lost = rs[c].pos
                       /\ \A b \in Sets : b > c => rs[b].st = "none" \/ rs[b].of # s

\* A row belongs to the last execute: its result set was opened with exactly
\* the arguments of that call, however many calls failed before it, unless
\* it was open already when that call was made.
RowsOfLastExecute ==
  [][\A s \in Stmts, c \in Sets :
       /\ rs'[c].pos > rs[c].pos /\ rs'[c].of = s /\ st[s].ran # 0
       => rs'[c].args = {st[s].ran} \/ rs'[c].at < st[s].ran]_vars

\* The stub of fetch_row promises "false on error or null if there are no
\* more rows".
NoMoreRowsIsNull ==
  \A s \in Stmts : Usable(s) /\ st[s].is_exhausted => ret[s] \in {"null", "none"}

\* A statement is a private stream of rows: see StatementStreams.
atOf(s) ==
  CASE st[s].obj = "none" -> "none"
    [] st[s].obj # "none" /\ ~st[s].sth -> "freed"
    [] Usable(s) /\ st[s].kind # "select" ->
         IF st[s].did_fake_fetch THEN "spent" ELSE "single"
    [] OTHER ->
         IF st[s].is_exhausted THEN "done"
         ELSE IF ~st[s].is_cursor_open THEN "ready"
         ELSE IF st[s].cursor = 0 THEN "unsafe"
         ELSE IF rs[st[s].cursor].st = "open" THEN "streaming" ELSE "broken"

\* used: the rows behind its cursor, or the one of an output.
streamOf(s) ==
  LET at == atOf(s)
  IN  [at |-> at,
       used |-> IF st[s].cursor # 0 THEN rs[st[s].cursor].pos
                ELSE IF at = "spent" THEN 1 ELSE 0]

Streams == INSTANCE StatementStreams WITH stream <- [s \in Stmts |-> streamOf(s)]

\* Flags, pointer and result set together implement that stream.
ImplementsStreams == Streams!Spec
=============================================================================
