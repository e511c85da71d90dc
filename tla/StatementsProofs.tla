-------------------------- MODULE StatementsProofs --------------------------
(***************************************************************************)
(* Theorems about Statements, for any number of statements, result sets,   *)
(* executes and rows: its types, its safety properties, and that it        *)
(* implements StatementStreams.                                            *)
(***************************************************************************)
EXTENDS Statements, TLAPS

\* Only a Statement that is there can be used, and a statement that was never
\* prepared is as the allocator left it.
Whole == \A s \in Stmts : /\ st[s].sth => st[s].obj = "live"
                          /\ st[s].obj = "none" => st[s] = NoStmt

\* A cursor is the last result set that was opened for its statement, and not
\* closed; the flag is set as long as there is one.
Pointed ==
  \A s \in Stmts : st[s].cursor # 0 =>
    /\ st[s].sth /\ st[s].kind = "select" /\ st[s].is_cursor_open
    /\ rs[st[s].cursor].of = s /\ rs[st[s].cursor].st \in {"open", "dead"}
    /\ \A b \in Sets : b > st[s].cursor => rs[b].st = "none" \/ rs[b].of # s

\* An open result set is the cursor of the statement it was opened for.
Held == \A c \in Sets : rs[c].st = "open" =>
          tra /\ rs[c].of \in Stmts /\ st[rs[c].of].cursor = c

\* Result sets are opened in the order of their numbers.
Ordered == \A b, c \in Sets : b < c /\ rs[b].st = "none" => rs[c].st = "none"

\* What a query will be opened with, and what its sets were opened with.
ArgsKept ==
  /\ \A s \in Stmts : st[s].kind = "select" /\ st[s].ran # 0 => st[s].args = {st[s].ran}
  /\ \A c \in Sets : rs[c].at <= run
  /\ \A s \in Stmts, c \in Sets : rs[c].st # "none" /\ rs[c].of = s /\ st[s].ran # 0 =>
       rs[c].args = {st[s].ran} \/ rs[c].at < st[s].ran

\* What an exhausted query has: no cursor, and a last set read to its end.
ReadToEnd ==
  \A s \in Stmts : Usable(s) /\ st[s].is_exhausted =>
    /\ st[s].cursor = 0 /\ ~st[s].is_cursor_open
    /\ \E c \in Sets : /\ rs[c].of = s /\ rs[c].st = "ended"
                       /\ \A b \in Sets : b > c => rs[b].st = "none" \/ rs[b].of # s

\* Every row the library handed over was returned or could not be converted.
Counted == \A c \in Sets : rs[c].given + rs[c].lost = rs[c].pos

IInv == TypeOK /\ Whole /\ Pointed /\ Held /\ Ordered /\ ReadToEnd /\ Counted /\ ArgsKept

-----------------------------------------------------------------------------
(* Steps that open and close nothing.                                      *)

LEMMA InitInv == Init => IInv
<1> SUFFICES ASSUME Init PROVE IInv
  OBVIOUS
<1>1. /\ \A s \in Stmts : st[s] = NoStmt
      /\ \A c \in Sets : rs[c] = NoSet
  BY DEF Init
<1>2. NoStmt \in StmtRec /\ NoSet \in SetRec
  BY BoundsAssumption DEF NoStmt, NoSet, StmtRec, SetRec, Kinds
<1>3. TypeOK
  <2>1. run \in 0..MaxRun
    BY BoundsAssumption DEF Init
  <2>2. st \in [Stmts -> StmtRec] /\ rs \in [Sets -> SetRec]
    BY <1>2 DEF Init
  <2> QED
    BY <2>1, <2>2 DEF Init, TypeOK
<1>4. Whole /\ Pointed /\ ReadToEnd
  BY <1>1 DEF Whole, Pointed, ReadToEnd, NoStmt
<1>5. Held /\ Ordered /\ Counted
  BY <1>1 DEF Held, Ordered, Counted, NoSet
<1>6. ArgsKept
  BY <1>1 DEF ArgsKept, NoStmt, NoSet, Init
<1> QED
  BY <1>3, <1>4, <1>5, <1>6 DEF IInv

\* A request starts where the first one started.
LEMMA ResetStep == Reset => IInv'
<1>1. Reset => Init'
  BY DEF Reset, Init
<1> QED
  BY <1>1, InitInv, PTL

\* A set is as it was, or it has died.
SetKept(c) ==
  /\ rs'[c].of = rs[c].of /\ rs'[c].args = rs[c].args /\ rs'[c].at = rs[c].at
  /\ rs'[c].pos = rs[c].pos /\ rs'[c].given = rs[c].given /\ rs'[c].lost = rs[c].lost
  /\ rs'[c].st = rs[c].st \/ (rs[c].st = "open" /\ rs'[c].st = "dead")

\* What execute, a fetch of output and the end of a transaction have in common:
\* no cursor moves, and the sets are as they were or have died.
Quiet ==
  /\ \A z \in Stmts :
       /\ st'[z] = st[z] \/ st[z].obj # "none"
       /\ st'[z].obj = st[z].obj /\ st'[z].sth = st[z].sth /\ st'[z].kind = st[z].kind
       /\ st'[z].cursor = st[z].cursor /\ st'[z].is_cursor_open = st[z].is_cursor_open
       /\ st'[z].is_exhausted => st[z].is_exhausted
       /\ st'[z].kind = "select" /\ st'[z].ran # 0 => st'[z].args = {st'[z].ran}
       /\ st'[z].ran \in {0, st[z].ran} \/ st'[z].ran > run
  /\ \A c \in Sets : SetKept(c)
  /\ \A c \in Sets : rs'[c].st = "open" => tra'
  /\ run <= run'

LEMMA QuietStep ==
  ASSUME IInv, TypeOK', Quiet
  PROVE  IInv'
<1>0. /\ TypeOK /\ run \in Nat /\ run' \in Nat
      /\ \A c \in Sets : /\ rs[c] \in SetRec /\ rs'[c].of = rs[c].of /\ rs'[c].at = rs[c].at
                         /\ rs'[c].args = rs[c].args /\ rs'[c].pos = rs[c].pos
                         /\ rs'[c].st = rs[c].st \/ (rs[c].st = "open" /\ rs'[c].st = "dead")
  BY BoundsAssumption DEF IInv, TypeOK, Quiet, SetRec, SetKept
<1>1. Whole'
  BY DEF Whole, IInv, Quiet
<1>2. Pointed'
  <2> SUFFICES ASSUME NEW s \in Stmts, st[s].cursor # 0
               PROVE  /\ st'[s].sth /\ st'[s].kind = "select" /\ st'[s].is_cursor_open
                      /\ rs'[st[s].cursor].of = s /\ rs'[st[s].cursor].st \in {"open", "dead"}
                      /\ \A b \in Sets : b > st[s].cursor => rs'[b].st = "none" \/ rs'[b].of # s
    BY DEF Pointed, Quiet
  <2>1. st[s].cursor \in Sets
    BY <1>0, BoundsAssumption DEF TypeOK, StmtRec, Sets
  <2> QED
    BY <1>0, <2>1 DEF Pointed, IInv, Quiet
<1>3. Held'
  BY <1>0 DEF Held, IInv, Quiet
<1>4. Ordered'
  BY <1>0 DEF Ordered, IInv
<1>5. ReadToEnd'
  <2> SUFFICES ASSUME NEW s \in Stmts, Usable(s), st[s].is_exhausted
               PROVE  /\ st'[s].cursor = 0 /\ ~st'[s].is_cursor_open
                      /\ \E c \in Sets :
                           /\ rs'[c].of = s /\ rs'[c].st = "ended"
                           /\ \A b \in Sets : b > c => rs'[b].st = "none" \/ rs'[b].of # s
    BY DEF ReadToEnd, Quiet, Usable
  <2>1. PICK c \in Sets : /\ rs[c].of = s /\ rs[c].st = "ended"
                          /\ \A b \in Sets : b > c => rs[b].st = "none" \/ rs[b].of # s
    BY DEF ReadToEnd, IInv
  <2> QED
    BY <1>0, <2>1 DEF ReadToEnd, IInv, Quiet
<1>6. ArgsKept'
  <2>1. \A c \in Sets : rs'[c].at <= run'
    BY <1>0 DEF ArgsKept, IInv, Quiet, SetRec
  <2>2. ASSUME NEW s \in Stmts, NEW c \in Sets, rs'[c].st # "none", rs'[c].of = s, st'[s].ran # 0
        PROVE  rs'[c].args = {st'[s].ran} \/ rs'[c].at < st'[s].ran
    <3>1. rs[c].st # "none" /\ rs[c].of = s /\ rs[c].at <= run /\ rs[c].at \in Nat
      BY <1>0, <2>2 DEF ArgsKept, IInv, SetRec
    <3>2. st'[s].ran \in Nat
      BY DEF TypeOK, StmtRec
    <3> QED
      BY <1>0, <2>2, <3>1, <3>2 DEF ArgsKept, IInv, Quiet
  <2> QED
    BY <2>1, <2>2 DEF ArgsKept, Quiet
<1>7. Counted'
  BY DEF Counted, IInv, Quiet, SetKept
<1> QED
  BY <1>1, <1>2, <1>3, <1>4, <1>5, <1>6, <1>7 DEF IInv

\* When a transaction ends, by a method or by an SQL statement.
LEMMA EndSetsEffect ==
  ASSUME TypeOK, EndSets
  PROVE  /\ rs' \in [Sets -> SetRec]
         /\ \A c \in Sets : rs'[c].st # "open"
         /\ \A c \in Sets : SetKept(c)
<1>1. /\ \A c \in Sets : rs[c] \in SetRec
      /\ rs' = [c \in Sets |-> IF rs[c].st = "open" THEN [rs[c] EXCEPT !.st = "dead"] ELSE rs[c]]
  BY DEF TypeOK, EndSets
<1>2. \A c \in Sets : [rs[c] EXCEPT !.st = "dead"] \in SetRec
  BY <1>1 DEF SetRec
<1>3. \A c \in Sets : rs'[c].st # "open" /\ SetKept(c)
  BY <1>1 DEF SetRec, SetKept
<1> QED
  BY <1>1, <1>2, <1>3

LEMMA TransactionStep ==
  ASSUME IInv, StartTran \/ EndTran \/ RollbackRetaining
  PROVE  IInv'
<1>0. TypeOK /\ run \in Nat
  BY BoundsAssumption DEF IInv, TypeOK
<1>1. CASE StartTran
  <2>1. TypeOK'
    BY <1>0, <1>1 DEF TypeOK, StartTran
  <2>2. tra' = TRUE /\ run' = run /\ st' = st /\ rs' = rs
    BY <1>1 DEF StartTran
  <2>3. Quiet
    BY <1>0, <2>2 DEF Quiet, IInv, ArgsKept, SetKept
  <2> QED
    BY <2>1, <2>3, QuietStep
<1>2. CASE EndTran \/ RollbackRetaining
  <2>1. EndSets /\ st' = st /\ run' = run /\ ret' = ret /\ tra' \in BOOLEAN
    BY <1>0, <1>2 DEF TypeOK, EndTran, RollbackRetaining
  <2>2. TypeOK'
    BY <1>0, <2>1, EndSetsEffect DEF TypeOK
  <2>3. Quiet
    BY <1>0, <2>1, EndSetsEffect DEF Quiet, IInv, ArgsKept
  <2> QED
    BY <2>2, <2>3, QuietStep
<1> QED
  BY <1>1, <1>2

-----------------------------------------------------------------------------
(* Execute, and the fetch of output.                                       *)

\* The record of one statement changes, and Quiet allows what changes in it.
LEMMA OneQuiet ==
  ASSUME IInv, NEW s \in Stmts, st[s].obj = "live", NEW r \in StmtRec,
         st' = [st EXCEPT ![s] = r], run' \in 0..MaxRun, run <= run', tra' \in BOOLEAN,
         ret' \in [Stmts -> {"none", "row", "false", "null", "throw"}],
         (rs' = rs /\ (tra => tra')) \/ EndSets,
         r.obj = "live", r.sth = st[s].sth, r.kind = st[s].kind, r.cursor = st[s].cursor,
         r.is_cursor_open = st[s].is_cursor_open, r.is_exhausted => st[s].is_exhausted,
         r.kind = "select" /\ r.ran # 0 => r.args = {r.ran},
         r.ran \in {0, st[s].ran} \/ r.ran > run
  PROVE  IInv'
<1>0. TypeOK
  BY DEF IInv
<1>1. /\ st' \in [Stmts -> StmtRec] /\ st'[s] = r
      /\ \A z \in Stmts : z # s => st'[z] = st[z]
  BY <1>0 DEF TypeOK
<1>2. TypeOK'
  BY <1>0, <1>1, EndSetsEffect DEF TypeOK
<1>3. \A c \in Sets : rs'[c].st = "open" => tra'
  BY <1>0, EndSetsEffect DEF IInv, Held
<1>4. \A c \in Sets : SetKept(c)
  <2>1. CASE rs' = rs
    BY <2>1 DEF SetKept
  <2>2. CASE EndSets
    BY <1>0, <2>2, EndSetsEffect
  <2> QED
    BY <2>1, <2>2
<1>5. Quiet
  <2>1. \A z \in Stmts : st[z].kind = "select" /\ st[z].ran # 0 => st[z].args = {st[z].ran}
    BY DEF IInv, ArgsKept
  <2> QED
    BY <1>1, <1>3, <1>4, <2>1 DEF Quiet
<1> QED
  BY <1>2, <1>5, QuietStep

LEMMA ExecuteStep ==
  ASSUME IInv, NEW s \in Stmts, Execute(s)
  PROVE  IInv'
<1>0. /\ TypeOK /\ st[s] \in StmtRec /\ run \in Nat /\ MaxRun \in Nat /\ st[s].obj = "live"
      /\ tra \in BOOLEAN /\ ret \in [Stmts -> {"none", "row", "false", "null", "throw"}]
      /\ (st[s].kind = "select" /\ st[s].ran # 0 => st[s].args = {st[s].ran})
  BY BoundsAssumption DEF IInv, TypeOK, ArgsKept, Execute
<1>1. CASE Reset
  BY <1>1, ResetStep
<1>2. CASE /\ run < MaxRun /\ run' = run + 1 /\ ret' = ret
           /\ ExecuteSelect(s) \/ ExecuteDml(s) \/ ExecuteTran(s)
  <2>0. /\ run' \in 0..MaxRun /\ run <= run' /\ run' > run /\ run' # 0 /\ 0 \in 0..MaxRun
        /\ {run'} \in SUBSET (0..MaxRun)
        /\ st[s].args \union {run'} \in SUBSET (0..MaxRun)
    BY <1>0, <1>2 DEF StmtRec
  <2>1. CASE st' = [st EXCEPT ![s] = Bind(s, run')] /\ tra' = tra /\ rs' = rs
    <3>1. Bind(s, run') \in StmtRec
      BY <1>0, <2>0 DEF Bind, StmtRec
    <3> QED
      BY <1>0, <1>2, <2>0, <2>1, <3>1, OneQuiet DEF Bind, StmtRec
  <2>2. CASE BindFails(s)
    <3> DEFINE r == [st[s] EXCEPT !.args = @ \union {run'}, !.ran = 0]
    <3>1. st' = [st EXCEPT ![s] = r] /\ tra' = tra /\ rs' = rs
      BY <1>0, <2>2 DEF BindFails, StmtRec, TypeOK
    <3>2. r \in StmtRec
      BY <1>0, <2>0 DEF StmtRec
    <3> QED
      BY <1>0, <1>2, <2>0, <3>1, <3>2, OneQuiet DEF StmtRec
  <2>3. CASE st' = [st EXCEPT ![s].args = {run'}, ![s].ran = 0] /\ tra' = tra /\ rs' = rs
    <3> DEFINE r == [st[s] EXCEPT !.args = {run'}, !.ran = 0]
    <3>1. st' = [st EXCEPT ![s] = r]
      BY <1>0, <2>3 DEF StmtRec, TypeOK
    <3>2. r \in StmtRec
      BY <1>0, <2>0 DEF StmtRec
    <3> QED
      <4>1. /\ r.obj = "live" /\ r.sth = st[s].sth /\ r.kind = st[s].kind /\ r.cursor = st[s].cursor
            /\ r.is_cursor_open = st[s].is_cursor_open /\ r.is_exhausted = st[s].is_exhausted
            /\ r.ran = 0
        BY <1>0 DEF StmtRec
      <4>2. tra' \in BOOLEAN /\ ((rs' = rs /\ (tra => tra')) \/ EndSets)
        BY <1>0, <2>3
      <4>3. ret' \in [Stmts -> {"none", "row", "false", "null", "throw"}]
        BY <1>0, <1>2
      <4> HIDE DEF r
      <4> QED
        BY <1>0, <2>0, <3>1, <3>2, <4>1, <4>2, <4>3, OneQuiet
  <2>4. CASE ExecuteTran(s)
    <3> DEFINE r == [st[s] EXCEPT !.ran = run']
    <3>1. st' = [st EXCEPT ![s] = r] /\ st[s].kind # "select"
      BY <1>0, <2>4 DEF ExecuteTran, StmtRec, TypeOK
    <3>2. r \in StmtRec
      BY <1>0, <2>0 DEF StmtRec
    <3>3. tra' \in BOOLEAN /\ ((rs' = rs /\ (tra => tra')) \/ EndSets)
      BY <2>4 DEF ExecuteTran
    <3> QED
      BY <1>0, <1>2, <2>0, <3>1, <3>2, <3>3, OneQuiet DEF StmtRec
  <2> QED
    BY <1>2, <2>1, <2>2, <2>3, <2>4 DEF ExecuteSelect, ExecuteDml
<1> QED
  BY <1>1, <1>2 DEF Execute

LEMMA PrepareStep ==
  ASSUME IInv, NEW s \in Stmts, NEW kind \in Kinds, Prepare(s, kind)
  PROVE  IInv'
<1> DEFINE r == [NoStmt EXCEPT !.obj = "live", !.sth = TRUE, !.kind = kind]
<1>0. /\ TypeOK /\ st[s] = NoStmt /\ NoStmt \in StmtRec
      /\ tra' = tra /\ run' = run /\ rs' = rs /\ ret' = ret
  BY BoundsAssumption DEF IInv, Whole, TypeOK, Prepare, NoStmt, StmtRec, Kinds
<1>1. st' = [st EXCEPT ![s] = r]
  BY <1>0 DEF Prepare, NoStmt, TypeOK
<1>2. /\ r \in StmtRec /\ r.obj = "live" /\ r.cursor = 0 /\ ~r.is_exhausted /\ r.ran = 0
  BY <1>0 DEF NoStmt, StmtRec
<1>3. st' \in [Stmts -> StmtRec] /\ \A z \in Stmts : st'[z] = IF z = s THEN r ELSE st[z]
  BY <1>0, <1>1, <1>2 DEF TypeOK
<1> HIDE DEF r
<1>4. TypeOK'
  BY <1>0, <1>3 DEF TypeOK
<1>5. Whole' /\ Pointed' /\ Ordered' /\ Counted'
  BY <1>0, <1>2, <1>3 DEF IInv, Whole, Pointed, Ordered, Counted
<1>6. Held'
  <2>1. st[s].cursor = 0
    BY <1>0 DEF NoStmt
  <2>2. \A c \in Sets : c # 0
    BY BoundsAssumption DEF Sets
  <2> QED
    BY <1>0, <1>3, <2>1, <2>2 DEF IInv, Held
<1>7. ReadToEnd'
  BY <1>0, <1>2, <1>3 DEF IInv, ReadToEnd, Usable
<1>8. ArgsKept'
  BY <1>0, <1>2, <1>3 DEF IInv, ArgsKept
<1> QED
  BY <1>4, <1>5, <1>6, <1>7, <1>8 DEF IInv

-----------------------------------------------------------------------------
(* Steps of one statement on one result set, its own or a new one.         *)

LEMMA SetStep ==
  ASSUME IInv, NEW s \in Stmts, NEW c \in Sets, Usable(s), st[s].kind = "select",
         \/ st[s].cursor = 0 /\ rs[c].st = "none" /\ \A b \in Sets : b < c => rs[b].st # "none"
         \/ st[s].cursor = c,
         NEW q \in StmtRec, st' = [st EXCEPT ![s] = q],
         NEW n \in SetRec, rs' = [rs EXCEPT ![c] = n],
         tra' = tra, run' = run,
         ret' \in [Stmts -> {"none", "row", "false", "null", "throw"}],
         q.obj = "live", q.sth, q.kind = "select", q.args = st[s].args, q.ran = st[s].ran,
         n.of = s, n.at <= run, st[s].ran # 0 => n.args = {st[s].ran} \/ n.at < st[s].ran,
         \/ /\ q.cursor = c /\ q.is_cursor_open /\ ~q.is_exhausted
            /\ n.st \in {"open", "dead"} /\ (n.st = "open" => tra)
         \/ /\ q.cursor = 0 /\ n.st \in {"closed", "ended"}
            /\ q.is_exhausted => ~q.is_cursor_open /\ n.st = "ended",
         n.given + n.lost = n.pos
  PROVE  IInv'
<1>0. /\ TypeOK /\ c # 0 /\ n.st # "none"
      /\ \A b, d \in Sets : b < d \/ b = d \/ b > d
      /\ \A b \in Sets : b > c => b # c
  BY BoundsAssumption DEF IInv, Sets, TypeOK
<1>1. /\ st' \in [Stmts -> StmtRec] /\ \A z \in Stmts : st'[z] = IF z = s THEN q ELSE st[z]
      /\ rs' \in [Sets -> SetRec] /\ \A b \in Sets : rs'[b] = IF b = c THEN n ELSE rs[b]
  BY <1>0 DEF TypeOK
<1>2. rs[c].st = "none" \/ (rs[c].of = s /\ rs[c].st # "ended")
  BY <1>0 DEF IInv, Pointed
<1>3. \A b \in Sets : b > c => rs[b].st = "none" \/ rs[b].of # s
  BY <1>0 DEF IInv, Pointed, Ordered
<1>4. \A z \in Stmts : z # s => st[z].cursor # c
  BY <1>0, <1>2 DEF IInv, Pointed
<1>5. TypeOK'
  BY <1>0, <1>1 DEF TypeOK
<1>6. Whole'
  BY <1>1 DEF IInv, Whole
<1>7. Pointed'
  <2> SUFFICES ASSUME NEW z \in Stmts, st'[z].cursor # 0
               PROVE  /\ st'[z].sth /\ st'[z].kind = "select" /\ st'[z].is_cursor_open
                      /\ rs'[st'[z].cursor].of = z /\ rs'[st'[z].cursor].st \in {"open", "dead"}
                      /\ \A b \in Sets : b > st'[z].cursor => rs'[b].st = "none" \/ rs'[b].of # z
    BY DEF Pointed
  <2>1. CASE z = s
    <3>1. q.cursor = c /\ q.is_cursor_open /\ n.st \in {"open", "dead"}
      BY <1>1, <2>1
    <3>2. st'[z] = q /\ rs'[c] = n
      BY <1>1, <2>1
    <3>3. \A b \in Sets : b > c => rs'[b].st = "none" \/ rs'[b].of # s
      BY <1>0, <1>1, <1>3
    <3> QED
      BY <2>1, <3>1, <3>2, <3>3
  <2>2. CASE z # s
    <3>1. st[z].cursor \in Sets /\ st[z].cursor # c
      BY <1>0, <1>1, <1>4, <2>2, BoundsAssumption DEF TypeOK, StmtRec, Sets
    <3> QED
      BY <1>1, <2>2, <3>1 DEF IInv, Pointed
  <2> QED
    BY <2>1, <2>2
<1>8. Held'
  <2> SUFFICES ASSUME NEW b \in Sets, rs'[b].st = "open"
               PROVE  tra /\ rs'[b].of \in Stmts /\ st'[rs'[b].of].cursor = b
    BY DEF Held
  <2>1. CASE b = c
    BY <1>1, <2>1
  <2>2. CASE b # c
    <3>1. tra /\ rs[b].of \in Stmts /\ st[rs[b].of].cursor = b
      BY <1>1, <2>2 DEF IInv, Held
    <3>2. b # 0 /\ rs[b].of # s
      BY <1>0, <2>2, <3>1, BoundsAssumption DEF Sets
    <3> QED
      BY <1>1, <2>2, <3>1, <3>2
  <2> QED
    BY <2>1, <2>2
<1>9. Ordered'
  BY <1>0, <1>1 DEF IInv, Ordered, Pointed
<1>10. ReadToEnd'
  <2> SUFFICES ASSUME NEW z \in Stmts, st'[z].obj = "live", st'[z].sth, st'[z].is_exhausted
               PROVE  /\ st'[z].cursor = 0 /\ ~st'[z].is_cursor_open
                      /\ \E d \in Sets :
                           /\ rs'[d].of = z /\ rs'[d].st = "ended"
                           /\ \A b \in Sets : b > d => rs'[b].st = "none" \/ rs'[b].of # z
    BY DEF ReadToEnd, Usable
  <2>1. CASE z = s
    <3>1. st'[z] = q /\ rs'[c] = n
      BY <1>1, <2>1
    <3>2. q.cursor = 0 /\ ~q.is_cursor_open /\ n.st = "ended"
      BY <2>1, <3>1
    <3>3. \A b \in Sets : b > c => rs'[b].st = "none" \/ rs'[b].of # s
      BY <1>0, <1>1, <1>3
    <3> QED
      BY <2>1, <3>1, <3>2, <3>3
  <2>2. CASE z # s
    <3>1. Usable(z) /\ st[z].is_exhausted
      BY <1>1, <2>2 DEF Usable
    <3>2. PICK d \in Sets :
            /\ rs[d].of = z /\ rs[d].st = "ended"
            /\ \A b \in Sets : b > d => rs[b].st = "none" \/ rs[b].of # z
      BY <3>1 DEF IInv, ReadToEnd
    <3>3. d # c
      BY <1>2, <2>2, <3>2
    <3>4. \A b \in Sets : b > d => rs'[b].st = "none" \/ rs'[b].of # z
      BY <1>1, <2>2, <3>2
    <3> QED
      BY <1>1, <2>2, <3>1, <3>2, <3>3, <3>4 DEF IInv, ReadToEnd
  <2> QED
    BY <2>1, <2>2
<1>11. ArgsKept'
  BY <1>0, <1>1 DEF IInv, ArgsKept
<1>12. Counted'
  BY <1>1 DEF IInv, Counted
<1> QED
  BY <1>5, <1>6, <1>7, <1>8, <1>9, <1>10, <1>11, <1>12 DEF IInv

\* What fetchNext does to a set that is new, or the cursor of s.
LEMMA FetchNextStep ==
  ASSUME IInv, NEW s \in Stmts, NEW c \in Sets, Usable(s), st[s].kind = "select",
         ~st[s].is_exhausted, tra' = tra, run' = run,
         NEW r \in SetRec, FetchNext(s, c, r),
         \/ st[s].cursor = 0 /\ rs[c].st = "none" /\ \A b \in Sets : b < c => rs[b].st # "none"
         \/ st[s].cursor = c,
         r.of = s, r.at <= run, st[s].ran # 0 => r.args = {st[s].ran} \/ r.at < st[s].ran,
         r.st \in {"open", "dead"}, r.st = "open" => tra, r.given + r.lost = r.pos
  PROVE  IInv'
<1>0. /\ TypeOK /\ st \in [Stmts -> StmtRec] /\ st[s] \in StmtRec /\ st[s].obj = "live" /\ st[s].sth
      /\ ret \in [Stmts -> {"none", "row", "false", "null", "throw"}]
      /\ 0 \in 0..MaxRs /\ c \in 0..MaxRs
  BY BoundsAssumption DEF IInv, TypeOK, Usable, Sets
<1>1. ASSUME NEW n \in SetRec, n.of = s, n.at = r.at, n.args = r.args, n.st = "open", tra,
             n.given + n.lost = n.pos, rs' = [rs EXCEPT ![c] = n],
             st' = [st EXCEPT ![s].cursor = c, ![s].is_cursor_open = TRUE],
             NEW m \in {"row", "throw"}, ret' = [ret EXCEPT ![s] = m]
      PROVE  IInv'
  <2> DEFINE q == [st[s] EXCEPT !.cursor = c, !.is_cursor_open = TRUE]
  <2>1. st' = [st EXCEPT ![s] = q] /\ q \in StmtRec
    BY <1>0, <1>1 DEF StmtRec
  <2>2. /\ q.obj = "live" /\ q.sth /\ q.kind = "select" /\ q.args = st[s].args /\ q.ran = st[s].ran
        /\ q.cursor = c /\ q.is_cursor_open /\ ~q.is_exhausted
    BY <1>0 DEF StmtRec
  <2>3. ret' \in [Stmts -> {"none", "row", "false", "null", "throw"}]
    BY <1>0, <1>1
  <2>4. /\ n.at <= run /\ (st[s].ran # 0 => n.args = {st[s].ran} \/ n.at < st[s].ran)
        /\ n.st \in {"open", "dead"} /\ (n.st = "open" => tra)
    BY <1>1
  <2>5. rs' = [rs EXCEPT ![c] = n] /\ n.of = s /\ n.given + n.lost = n.pos
    BY <1>1
  <2> HIDE DEF q
  <2> QED
    BY <2>1, <2>2, <2>3, <2>4, <2>5, SetStep
<1>2. CASE /\ r.st = "open"
           /\ rs' = [rs EXCEPT ![c] = [r EXCEPT !.st = "ended"]]
           /\ st' = [st EXCEPT ![s].cursor = 0, ![s].is_cursor_open = FALSE,
                               ![s].is_exhausted = TRUE]
           /\ ret' = [ret EXCEPT ![s] = "false"]
  <2> DEFINE q == [st[s] EXCEPT !.cursor = 0, !.is_cursor_open = FALSE, !.is_exhausted = TRUE]
             n == [r EXCEPT !.st = "ended"]
  <2>1. st' = [st EXCEPT ![s] = q] /\ rs' = [rs EXCEPT ![c] = n]
    BY <1>0, <1>2 DEF StmtRec
  <2>2. q \in StmtRec /\ n \in SetRec
    BY <1>0 DEF StmtRec, SetRec
  <2>3. /\ q.obj = "live" /\ q.sth /\ q.kind = "select" /\ q.args = st[s].args /\ q.ran = st[s].ran
        /\ q.cursor = 0 /\ ~q.is_cursor_open
    BY <1>0 DEF StmtRec
  <2>4. n.of = s /\ n.at = r.at /\ n.args = r.args /\ n.st = "ended" /\ n.given + n.lost = n.pos
    BY <1>2 DEF SetRec
  <2>5. ret' \in [Stmts -> {"none", "row", "false", "null", "throw"}]
    BY <1>0, <1>2
  <2> HIDE DEF q, n
  <2> QED
    BY <2>1, <2>2, <2>3, <2>4, <2>5, SetStep
<1>3. CASE /\ rs' = [rs EXCEPT ![c] = r]
           /\ st' = [st EXCEPT ![s].cursor = c, ![s].is_cursor_open = TRUE]
           /\ ret' = [ret EXCEPT ![s] = "throw"]
  <2> DEFINE q == [st[s] EXCEPT !.cursor = c, !.is_cursor_open = TRUE]
  <2>1. st' = [st EXCEPT ![s] = q]
    BY <1>0, <1>3 DEF StmtRec
  <2>2. q \in StmtRec
    BY <1>0 DEF StmtRec
  <2>3. /\ q.obj = "live" /\ q.sth /\ q.kind = "select" /\ q.args = st[s].args /\ q.ran = st[s].ran
        /\ q.cursor = c /\ q.is_cursor_open /\ ~q.is_exhausted
    BY <1>0 DEF StmtRec
  <2>4. ret' \in [Stmts -> {"none", "row", "false", "null", "throw"}]
    BY <1>0, <1>3
  <2>5. rs' = [rs EXCEPT ![c] = r] /\ (r.st = "open" => tra) /\ r.st \in {"open", "dead"}
    BY <1>3
  <2> HIDE DEF q
  <2> QED
    BY <2>1, <2>2, <2>3, <2>4, <2>5, SetStep
<1> DEFINE given == [r EXCEPT !.pos = @ + 1, !.given = @ + 1]
           lost  == [r EXCEPT !.pos = @ + 1, !.lost = @ + 1]
<1>4. CASE /\ r.st = "open" /\ r.pos < MaxRows
           /\ st' = [st EXCEPT ![s].cursor = c, ![s].is_cursor_open = TRUE]
           /\ \/ rs' = [rs EXCEPT ![c] = given] /\ ret' = [ret EXCEPT ![s] = "row"]
              \/ rs' = [rs EXCEPT ![c] = lost] /\ ret' = [ret EXCEPT ![s] = "throw"]
  <2>1. /\ r.pos \in Nat /\ r.given \in Nat /\ r.lost \in Nat
        /\ r.pos + 1 \in 0..MaxRows /\ r.given + 1 \in 0..MaxRows /\ r.lost + 1 \in 0..MaxRows
    BY <1>4, BoundsAssumption DEF SetRec
  <2>2. /\ given \in SetRec /\ given.of = s /\ given.at = r.at /\ given.args = r.args
        /\ given.st = "open" /\ given.given + given.lost = given.pos
    <3>1. given \in SetRec
      BY <2>1 DEF SetRec
    <3>2. given.pos = r.pos + 1 /\ given.given = r.given + 1 /\ given.lost = r.lost
      BY DEF SetRec
    <3>3. given.of = r.of /\ given.at = r.at /\ given.args = r.args /\ given.st = r.st
      BY DEF SetRec
    <3> HIDE DEF given
    <3> QED
      BY <1>4, <2>1, <3>1, <3>2, <3>3
  <2>3. /\ lost \in SetRec /\ lost.of = s /\ lost.at = r.at /\ lost.args = r.args
        /\ lost.st = "open" /\ lost.given + lost.lost = lost.pos
    <3>1. lost \in SetRec
      BY <2>1 DEF SetRec
    <3>2. lost.pos = r.pos + 1 /\ lost.lost = r.lost + 1 /\ lost.given = r.given
      BY DEF SetRec
    <3>3. lost.of = r.of /\ lost.at = r.at /\ lost.args = r.args /\ lost.st = r.st
      BY DEF SetRec
    <3> HIDE DEF lost
    <3> QED
      BY <1>4, <2>1, <3>1, <3>2, <3>3
  <2> HIDE DEF given, lost
  <2> QED
    BY <1>1, <1>4, <2>2, <2>3
<1> QED
  BY <1>2, <1>3, <1>4 DEF FetchNext

\* Nothing but what a fetch returned is new.
LEMMA OnlyRet ==
  ASSUME IInv, tra' = tra, run' = run, st' = st, rs' = rs,
         ret' \in [Stmts -> {"none", "row", "false", "null", "throw"}]
  PROVE  IInv'
<1>1. TypeOK'
  BY DEF IInv, TypeOK
<1>2. Whole' /\ Pointed' /\ Held' /\ Ordered' /\ ReadToEnd' /\ Counted'
  BY DEF IInv, Whole, Pointed, Held, Ordered, ReadToEnd, Counted, Usable
<1>3. ArgsKept'
  BY DEF IInv, ArgsKept
<1> QED
  BY <1>1, <1>2, <1>3 DEF IInv

LEMMA FetchStep ==
  ASSUME IInv, NEW s \in Stmts, Fetch(s)
  PROVE  IInv'
<1>0. /\ TypeOK /\ st[s] \in StmtRec /\ st[s].obj = "live" /\ tra \in BOOLEAN
      /\ run \in 0..MaxRun /\ run \in Nat /\ tra' = tra /\ run' = run
      /\ ret \in [Stmts -> {"none", "row", "false", "null", "throw"}]
  BY BoundsAssumption DEF IInv, TypeOK, Fetch
<1>1. CASE st' = st /\ rs' = rs /\ ret' \in [Stmts -> {"none", "row", "false", "null", "throw"}]
  BY <1>0, <1>1, OnlyRet
<1>2. CASE Usable(s) /\ st[s].kind = "select" /\ ~st[s].is_exhausted /\ FetchFirst(s)
  <2>1. CASE ret' = [ret EXCEPT ![s] = "throw"] /\ st' = st /\ rs' = rs
    BY <1>0, <1>1, <2>1
  <2>2. ASSUME NEW c \in Sets,
               tra, rs[c].st = "none", \A b \in Sets : b < c => rs[b].st # "none",
               FetchNext(s, c, [st |-> "open", of |-> s, args |-> st[s].args,
                                at |-> run, pos |-> 0, given |-> 0, lost |-> 0])
        PROVE  IInv'
    <3> DEFINE r == [st |-> "open", of |-> s, args |-> st[s].args,
                     at |-> run, pos |-> 0, given |-> 0, lost |-> 0]
    <3>1. r \in SetRec
      BY <1>0, BoundsAssumption DEF SetRec, StmtRec
    <3>2. st[s].cursor = 0
      BY <1>2 DEF FetchFirst, IInv, Pointed
    <3>3. st[s].ran # 0 => r.args = {st[s].ran}
      BY <1>2 DEF IInv, ArgsKept
    <3>4. r.of = s /\ r.st = "open" /\ r.at <= run /\ r.given + r.lost = r.pos
      BY <1>0
    <3>5. FetchNext(s, c, r)
      BY <2>2
    <3> HIDE DEF r
    <3> QED
      BY <1>0, <1>2, <2>2, <3>1, <3>2, <3>3, <3>4, <3>5, FetchNextStep
  <2> QED
    BY <1>2, <2>1, <2>2 DEF FetchFirst
<1>3. CASE Usable(s) /\ st[s].kind = "select" /\ ~st[s].is_exhausted /\ FetchMore(s)
  <2>1. st[s].cursor \in Sets /\ st[s].cursor # 0 /\ FetchNext(s, st[s].cursor, rs[st[s].cursor])
    BY <1>0, <1>3, BoundsAssumption DEF FetchMore, StmtRec, Sets
  <2>2. /\ rs[st[s].cursor] \in SetRec /\ rs[st[s].cursor].of = s
        /\ rs[st[s].cursor].st \in {"open", "dead"}
        /\ rs[st[s].cursor].at <= run
        /\ (rs[st[s].cursor].st = "open" => tra)
        /\ (st[s].ran # 0 => rs[st[s].cursor].args = {st[s].ran} \/ rs[st[s].cursor].at < st[s].ran)
        /\ rs[st[s].cursor].given + rs[st[s].cursor].lost = rs[st[s].cursor].pos
    BY <1>0, <2>1 DEF IInv, TypeOK, Pointed, Held, ArgsKept, Counted
  <2> QED
    BY <1>0, <1>3, <2>1, <2>2, FetchNextStep
<1>4. CASE Usable(s) /\ FetchOutput(s)
  <2> DEFINE r == [st[s] EXCEPT !.did_fake_fetch = TRUE]
  <2>1. st' = [st EXCEPT ![s] = r] /\ rs' = rs
    BY <1>0, <1>4 DEF FetchOutput, StmtRec, TypeOK
  <2>2. /\ r \in StmtRec /\ r.obj = "live" /\ r.sth = st[s].sth /\ r.kind = st[s].kind
        /\ r.cursor = st[s].cursor /\ r.is_cursor_open = st[s].is_cursor_open
        /\ r.is_exhausted = st[s].is_exhausted /\ r.ran = st[s].ran /\ r.kind # "select"
    BY <1>0, <1>4 DEF FetchOutput, StmtRec
  <2>3. ret' \in [Stmts -> {"none", "row", "false", "null", "throw"}]
    BY <1>0, <1>4 DEF FetchOutput
  <2>4. run' \in 0..MaxRun /\ run <= run' /\ tra' \in BOOLEAN /\ rs' = rs /\ (tra => tra')
    BY <1>0, <2>1
  <2> HIDE DEF r
  <2> QED
    BY <1>0, <2>1, <2>2, <2>3, <2>4, OneQuiet
<1>5. CASE FetchFreed(s)
  BY <1>0, <1>1, <1>5 DEF FetchFreed
<1>6. CASE Usable(s) /\ st[s].is_exhausted /\ ret' = [ret EXCEPT ![s] = "false"] /\ st' = st /\ rs' = rs
  BY <1>0, <1>1, <1>6
<1> QED
  BY <1>2, <1>3, <1>4, <1>5, <1>6 DEF Fetch, FetchSelect

LEMMA CloseCursorStep ==
  ASSUME IInv, NEW s \in Stmts, CloseCursor(s)
  PROVE  IInv'
<1> DEFINE c == st[s].cursor
           q == [st[s] EXCEPT !.cursor = 0]
           n == [rs[c] EXCEPT !.st = "closed"]
<1>0. /\ TypeOK /\ st[s] \in StmtRec /\ Usable(s) /\ c # 0 /\ rs[c].st = "open" /\ 0 \in 0..MaxRs
      /\ tra' = tra /\ run' = run /\ ret' = ret
      /\ ret \in [Stmts -> {"none", "row", "false", "null", "throw"}]
  BY BoundsAssumption DEF IInv, TypeOK, CloseCursor
<1>1. c \in Sets
  BY <1>0, BoundsAssumption DEF StmtRec, Sets
<1>2. /\ rs[c] \in SetRec /\ rs[c].of = s /\ rs[c].at <= run /\ st[s].kind = "select"
      /\ (st[s].ran # 0 => rs[c].args = {st[s].ran} \/ rs[c].at < st[s].ran)
      /\ ~st[s].is_exhausted /\ rs[c].given + rs[c].lost = rs[c].pos
  BY <1>0, <1>1 DEF IInv, TypeOK, Pointed, ArgsKept, ReadToEnd, Counted
<1>3. st' = [st EXCEPT ![s] = q] /\ rs' = [rs EXCEPT ![c] = n]
  BY <1>0, <1>1 DEF CloseCursor, TypeOK, StmtRec, SetRec
<1>4. /\ q \in StmtRec /\ q.obj = "live" /\ q.sth /\ q.kind = "select" /\ q.args = st[s].args
      /\ q.ran = st[s].ran /\ q.cursor = 0 /\ ~q.is_exhausted
  BY <1>0, <1>2 DEF StmtRec, Usable
<1>5. /\ n \in SetRec /\ n.of = s /\ n.at = rs[c].at /\ n.args = rs[c].args /\ n.st = "closed"
      /\ n.given + n.lost = n.pos
  BY <1>2 DEF SetRec
<1> HIDE DEF q, n
<1> QED
  BY <1>0, <1>1, <1>2, <1>3, <1>4, <1>5, SetStep

LEMMA FreeStep ==
  ASSUME IInv, NEW s \in Stmts, Free(s)
  PROVE  IInv'
<1>0. /\ TypeOK /\ st[s] \in StmtRec /\ Usable(s) /\ tra' = tra /\ run' = run /\ ret' = ret
      /\ \A b \in Sets : rs[b] \in SetRec /\ b # 0
  BY BoundsAssumption DEF IInv, TypeOK, Free, Sets
<1>1. PICK o \in {"live", "freed"} : st' = [st EXCEPT ![s] = [NoStmt EXCEPT !.obj = o]]
  BY DEF Free
<1> DEFINE q == [NoStmt EXCEPT !.obj = o]
<1>2. /\ q \in StmtRec /\ q.obj = o /\ ~q.sth /\ q.cursor = 0 /\ q.ran = 0
  <2>1. NoStmt \in StmtRec
    BY BoundsAssumption DEF NoStmt, StmtRec, Kinds
  <2> QED
    BY <2>1 DEF NoStmt, StmtRec
<1>3. st' \in [Stmts -> StmtRec] /\ \A z \in Stmts : st'[z] = IF z = s THEN q ELSE st[z]
  BY <1>0, <1>1, <1>2 DEF TypeOK
<1> HIDE DEF q
<1>4. /\ rs' \in [Sets -> SetRec]
      /\ \A b \in Sets : IF b = st[s].cursor /\ rs[b].st = "open"
                         THEN /\ rs'[b].of = rs[b].of /\ rs'[b].at = rs[b].at /\ rs'[b].args = rs[b].args
                              /\ rs'[b].pos = rs[b].pos /\ rs'[b].given = rs[b].given
                              /\ rs'[b].lost = rs[b].lost /\ rs'[b].st = "closed"
                         ELSE rs'[b] = rs[b]
  <2>1. CASE st[s].cursor # 0 /\ rs[st[s].cursor].st = "open"
    <3> DEFINE n == [rs[st[s].cursor] EXCEPT !.st = "closed"]
    <3>1. st[s].cursor \in Sets
      BY <1>0, <2>1, BoundsAssumption DEF StmtRec, Sets
    <3>2. /\ n \in SetRec /\ n.of = rs[st[s].cursor].of /\ n.at = rs[st[s].cursor].at
          /\ n.args = rs[st[s].cursor].args /\ n.st = "closed" /\ n.pos = rs[st[s].cursor].pos
          /\ n.given = rs[st[s].cursor].given /\ n.lost = rs[st[s].cursor].lost
      BY <1>0, <3>1 DEF SetRec
    <3>3. rs' = [rs EXCEPT ![st[s].cursor] = n]
      BY <1>0, <2>1, <3>1 DEF Free, Destroy, TypeOK, SetRec
    <3> HIDE DEF n
    <3> QED
      BY <1>0, <2>1, <3>1, <3>2, <3>3 DEF TypeOK
  <2>2. CASE ~(st[s].cursor # 0 /\ rs[st[s].cursor].st = "open")
    BY <1>0, <2>2 DEF Free, Destroy, TypeOK
  <2> QED
    BY <2>1, <2>2
<1>5. TypeOK'
  BY <1>0, <1>3, <1>4 DEF TypeOK
<1>6. Whole' /\ Ordered' /\ Counted'
  <2>1. \A b \in Sets : /\ rs'[b].given = rs[b].given /\ rs'[b].lost = rs[b].lost
                        /\ rs'[b].pos = rs[b].pos /\ (rs[b].st # "none" <=> rs'[b].st # "none")
    BY <1>4
  <2> QED
    BY <1>0, <1>2, <1>3, <2>1 DEF IInv, Whole, Ordered, Counted
<1>7. \A z \in Stmts : z # s /\ st[z].cursor # 0 => st[z].cursor \in Sets /\ st[z].cursor # st[s].cursor
  BY <1>0, BoundsAssumption DEF IInv, Pointed, TypeOK, StmtRec, Sets
<1>8. Pointed'
  <2> SUFFICES ASSUME NEW z \in Stmts, z # s, st[z].cursor # 0
               PROVE  /\ st[z].sth /\ st[z].kind = "select" /\ st[z].is_cursor_open
                      /\ rs'[st[z].cursor].of = z /\ rs'[st[z].cursor].st \in {"open", "dead"}
                      /\ \A b \in Sets : b > st[z].cursor => rs'[b].st = "none" \/ rs'[b].of # z
    BY <1>2, <1>3 DEF Pointed
  <2>1. rs'[st[z].cursor] = rs[st[z].cursor]
    BY <1>4, <1>7
  <2>2. \A b \in Sets : rs'[b].of = rs[b].of /\ (rs[b].st = "none" => rs'[b].st = "none")
    BY <1>4
  <2> QED
    BY <2>1, <2>2 DEF IInv, Pointed
<1>9. Held'
  <2> SUFFICES ASSUME NEW b \in Sets, rs'[b].st = "open"
               PROVE  tra /\ rs'[b].of \in Stmts /\ st'[rs'[b].of].cursor = b
    BY <1>0 DEF Held
  <2>1. rs'[b] = rs[b] /\ b # st[s].cursor
    BY <1>4
  <2>2. tra /\ rs[b].of \in Stmts /\ st[rs[b].of].cursor = b
    BY <2>1 DEF IInv, Held
  <2> QED
    BY <1>3, <2>1, <2>2
<1>10. ReadToEnd'
  <2> SUFFICES ASSUME NEW z \in Stmts, z # s, Usable(z), st[z].is_exhausted
               PROVE  /\ st[z].cursor = 0 /\ ~st[z].is_cursor_open
                      /\ \E d \in Sets :
                           /\ rs'[d].of = z /\ rs'[d].st = "ended"
                           /\ \A b \in Sets : b > d => rs'[b].st = "none" \/ rs'[b].of # z
    BY <1>2, <1>3 DEF ReadToEnd, Usable
  <2>1. PICK d \in Sets : /\ rs[d].of = z /\ rs[d].st = "ended"
                          /\ \A b \in Sets : b > d => rs[b].st = "none" \/ rs[b].of # z
    BY DEF IInv, ReadToEnd
  <2>2. rs'[d] = rs[d]
    BY <1>4, <2>1
  <2>3. \A b \in Sets : b > d => rs'[b].st = "none" \/ rs'[b].of # z
    BY <1>4, <2>1
  <2> QED
    BY <2>1, <2>2, <2>3 DEF IInv, ReadToEnd
<1>11. ArgsKept'
  BY <1>0, <1>2, <1>3, <1>4 DEF IInv, ArgsKept
<1> QED
  BY <1>5, <1>6, <1>8, <1>9, <1>10, <1>11 DEF IInv

-----------------------------------------------------------------------------
(* The invariant, and what follows from it.                                *)

LEMMA Inductive == Spec => []IInv
<1>1. IInv /\ [Next]_vars => IInv'
  <2> SUFFICES ASSUME IInv, [Next]_vars PROVE IInv'
    OBVIOUS
  <2>1. CASE Reset
    BY <2>1, ResetStep
  <2>2. CASE UNCHANGED vars
    BY <2>2, OnlyRet DEF vars, IInv, TypeOK
  <2>3. ASSUME NEW s \in Stmts, FetchNull(s) PROVE IInv'
    BY <2>1, <2>3 DEF FetchNull
  <2> QED
    BY <2>1, <2>2, <2>3, TransactionStep, PrepareStep, ExecuteStep, FetchStep, CloseCursorStep, FreeStep
       DEF Next
<1> QED
  BY <1>1, InitInv, PTL DEF Spec

\* Every variable keeps its type, for any number of statements and sets.
THEOREM Typed == Spec => []TypeOK
<1>1. IInv => TypeOK
  BY DEF IInv
<1> QED
  BY <1>1, Inductive, PTL

\* No cursor is overwritten or shared, and none is left open on the server with
\* nothing to close it: what Statement::open_cursor relies on without a check.
THEOREM CursorsAreHeld == Spec => []CursorsHeld
<1>1. IInv => CursorsHeld
  <2> SUFFICES ASSUME IInv PROVE CursorsHeld
    OBVIOUS
  <2>1. \A c \in Sets : c # 0
    BY BoundsAssumption DEF Sets
  <2>2. ASSUME NEW c \in Sets, rs[c].st = "open"
        PROVE  tra /\ \E s \in Stmts : Usable(s) /\ st[s].cursor = c /\ rs[c].of = s
    <3>1. tra /\ rs[c].of \in Stmts /\ st[rs[c].of].cursor = c
      BY <2>2 DEF IInv, Held
    <3>2. Usable(rs[c].of)
      BY <2>1, <3>1 DEF IInv, Pointed, Whole, Usable
    <3> QED
      BY <3>1, <3>2
  <2> QED
    BY <2>2 DEF CursorsHeld, IInv, Pointed
<1> QED
  BY <1>1, Inductive, PTL

\* A query that says it is exhausted (statement.cpp:350) has been read to its
\* end, and each of its rows was returned or raised an exception (358).
THEOREM ExhaustedIsRead == Spec => []ExhaustedMeansRead
<1>1. IInv => ExhaustedMeansRead
  BY DEF IInv, ReadToEnd, Counted, ExhaustedMeansRead
<1> QED
  BY <1>1, Inductive, PTL

-----------------------------------------------------------------------------
(* Rows and the arguments they were asked for with.                        *)

Rows ==
  \A s \in Stmts, c \in Sets :
       /\ rs'[c].pos > rs[c].pos /\ rs'[c].of = s /\ st[s].ran # 0
       => rs'[c].args = {st[s].ran} \/ rs'[c].at < st[s].ran

\* Only a fetch moves a result set forward.
LEMMA StandStill ==
  ASSUME TypeOK, \A c \in Sets : rs'[c].pos = rs[c].pos \/ rs'[c].pos = 0
  PROVE  Rows
<1>1. \A c \in Sets : rs[c].pos \in Nat
  BY BoundsAssumption DEF TypeOK, SetRec
<1>2. \A c \in Sets : ~(rs'[c].pos > rs[c].pos)
  BY <1>1
<1> QED
  BY <1>2 DEF Rows

\* A fetch moves one, opened with the arguments of that moment or before it.
LEMMA FetchedRows ==
  ASSUME IInv, NEW s \in Stmts, Fetch(s)
  PROVE  Rows
<1>0. TypeOK /\ \A c \in Sets : rs[c] \in SetRec /\ rs[c].pos \in Nat
  BY BoundsAssumption DEF IInv, TypeOK, SetRec
<1>1. ASSUME NEW c \in Sets, NEW r \in SetRec, FetchNext(s, c, r), r.of = s,
             st[s].ran # 0 => r.args = {st[s].ran} \/ r.at < st[s].ran
      PROVE  Rows
  <2>1. PICK n \in {r, [r EXCEPT !.pos = @ + 1, !.given = @ + 1], [r EXCEPT !.st = "ended"],
                  [r EXCEPT !.pos = @ + 1, !.lost = @ + 1]} : rs' = [rs EXCEPT ![c] = n]
    BY <1>1 DEF FetchNext
  <2>2. n.of = s /\ n.args = r.args /\ n.at = r.at
    BY <1>1, <2>1 DEF SetRec
  <2>3. \A b \in Sets : rs'[b] = IF b = c THEN n ELSE rs[b]
    BY <1>0, <2>1 DEF TypeOK
  <2>4. \A b \in Sets : b # c => ~(rs'[b].pos > rs[b].pos)
    BY <1>0, <2>3
  <2> QED
    BY <1>1, <2>2, <2>3, <2>4 DEF Rows
<1>2. CASE Usable(s) /\ st[s].kind = "select" /\ FetchFirst(s)
  <2>1. CASE st' = st /\ rs' = rs
    BY <1>0, <2>1, StandStill
  <2>2. ASSUME NEW c \in Sets,
               FetchNext(s, c, [st |-> "open", of |-> s, args |-> st[s].args,
                                at |-> run, pos |-> 0, given |-> 0, lost |-> 0])
        PROVE  Rows
    <3> DEFINE r == [st |-> "open", of |-> s, args |-> st[s].args,
                     at |-> run, pos |-> 0, given |-> 0, lost |-> 0]
    <3>1. r \in SetRec
      BY <1>0, BoundsAssumption DEF TypeOK, SetRec, StmtRec
    <3>2. st[s].ran # 0 => r.args = {st[s].ran}
      BY <1>2 DEF IInv, ArgsKept
    <3>3. FetchNext(s, c, r) /\ r.of = s
      BY <2>2
    <3> HIDE DEF r
    <3> QED
      BY <1>1, <3>1, <3>2, <3>3
  <2> QED
    BY <1>2, <2>1, <2>2 DEF FetchFirst
<1>3. CASE Usable(s) /\ FetchMore(s)
  <2>1. st[s].cursor \in Sets /\ FetchNext(s, st[s].cursor, rs[st[s].cursor])
    BY <1>0, <1>3, BoundsAssumption DEF FetchMore, TypeOK, StmtRec, Sets
  <2>2. /\ rs[st[s].cursor] \in SetRec /\ rs[st[s].cursor].of = s
        /\ (st[s].ran # 0 => rs[st[s].cursor].args = {st[s].ran} \/ rs[st[s].cursor].at < st[s].ran)
    BY <1>0, <1>3, <2>1 DEF FetchMore, IInv, Pointed, ArgsKept
  <2> QED
    BY <1>1, <2>1, <2>2
<1>4. CASE rs' = rs
  BY <1>0, <1>4, StandStill
<1> QED
  BY <1>2, <1>3, <1>4 DEF Fetch, FetchSelect, FetchOutput, FetchFreed

\* A row belongs to the last execute, unless its cursor was open before that
\* call: however many calls failed in bind() in between (fbp/statement.cpp:102).
THEOREM RowsAreOfLastExecute == Spec => RowsOfLastExecute
<1>1. IInv /\ [Next]_vars => [Rows]_vars
  <2> SUFFICES ASSUME IInv, Next PROVE Rows
    OBVIOUS
  <2>0. TypeOK /\ \A c \in Sets : rs[c] \in SetRec
    BY DEF IInv, TypeOK
  <2>1. CASE Reset
    BY <2>0, <2>1, StandStill DEF Reset, NoSet
  <2>2. CASE rs' = rs
    BY <2>0, <2>2, StandStill
  <2>3. CASE EndSets
    BY <2>0, <2>3, EndSetsEffect, StandStill DEF SetKept
  <2>4. ASSUME NEW s \in Stmts, st[s].cursor # 0,
               rs' = [rs EXCEPT ![st[s].cursor].st = "closed"]
        PROVE  Rows
    <3>1. \A c \in Sets : rs'[c].pos = rs[c].pos
      BY <2>0, <2>4 DEF TypeOK, SetRec
    <3> QED
      BY <2>0, <3>1, StandStill
  <2>5. ASSUME NEW s \in Stmts, Execute(s) PROVE Rows
    BY <2>1, <2>2, <2>3, <2>5 DEF Execute, ExecuteSelect, ExecuteDml, ExecuteTran, BindFails
  <2> QED
    BY <2>1, <2>2, <2>3, <2>4, <2>5, FetchedRows DEF Next, StartTran, EndTran, RollbackRetaining,
       Prepare, FetchNull, CloseCursor, Free, Destroy
<1> QED
  BY <1>1, Inductive, PTL DEF Spec, RowsOfLastExecute, Rows

-----------------------------------------------------------------------------
(* The refinement.                                                         *)

\* The mapping of Streams, under a name, and without its CASE.
Mapped == [s \in Stmts |-> streamOf(s)]

Plain(s) ==
  IF st[s].obj = "none" THEN "none"
  ELSE IF ~st[s].sth THEN "freed"
  ELSE IF st[s].kind # "select" THEN IF st[s].did_fake_fetch THEN "spent" ELSE "single"
  ELSE IF st[s].is_exhausted THEN "done"
  ELSE IF ~st[s].is_cursor_open THEN "ready"
  ELSE IF st[s].cursor = 0 THEN "unsafe"
  ELSE IF rs[st[s].cursor].st = "open" THEN "streaming" ELSE "broken"

Used(s) == IF st[s].cursor # 0 THEN rs[st[s].cursor].pos
           ELSE IF Plain(s) = "spent" THEN 1 ELSE 0

LEMMA Unfolded == IInv => Mapped = [s \in Stmts |-> [at |-> Plain(s), used |-> Used(s)]]
<1> SUFFICES ASSUME IInv, NEW s \in Stmts
             PROVE  streamOf(s) = [at |-> Plain(s), used |-> Used(s)]
  BY DEF Mapped
<1>1. /\ st[s].obj \in {"none", "live", "freed"} /\ st[s].sth \in BOOLEAN
      /\ (st[s].sth => st[s].obj = "live")
  BY DEF IInv, TypeOK, StmtRec, Whole
<1>2. atOf(s) = Plain(s)
  BY <1>1 DEF atOf, Plain, Usable
<1> QED
  BY <1>2 DEF streamOf, Used

LEMMA UnfoldedNext ==
  IInv' => Mapped' = [s \in Stmts |-> [at |-> Plain(s)', used |-> Used(s)']]
<1>1. (IInv => Mapped = [s \in Stmts |-> [at |-> Plain(s), used |-> Used(s)]])'
  BY Unfolded, PTL
<1> QED
  BY <1>1

\* What Plain and Used look at is as it was.
SameStream(z) ==
  /\ st'[z].obj = st[z].obj /\ st'[z].sth = st[z].sth /\ st'[z].kind = st[z].kind
  /\ st'[z].did_fake_fetch = st[z].did_fake_fetch /\ st'[z].is_exhausted = st[z].is_exhausted
  /\ st'[z].is_cursor_open = st[z].is_cursor_open /\ st'[z].cursor = st[z].cursor
SameSet(z) == st[z].cursor # 0 => /\ rs'[st[z].cursor].st = rs[st[z].cursor].st
                                  /\ rs'[st[z].cursor].pos = rs[st[z].cursor].pos

LEMMA SameMapped ==
  ASSUME IInv, IInv', \A z \in Stmts : SameStream(z) /\ SameSet(z)
  PROVE  Mapped' = Mapped
<1>1. \A z \in Stmts : Plain(z)' = Plain(z)
  BY DEF Plain, SameStream, SameSet
<1>2. \A z \in Stmts : Used(z)' = Used(z)
  BY <1>1 DEF Used, SameStream, SameSet
<1> QED
  BY <1>1, <1>2, Unfolded, UnfoldedNext

LEMMA OneMapped ==
  ASSUME IInv, IInv', NEW s \in Stmts, NEW a, NEW u, Plain(s)' = a, Used(s)' = u,
         \A z \in Stmts \ {s} : SameStream(z) /\ SameSet(z)
  PROVE  /\ Streams!Goes(s, Plain(s), a, u)
         /\ Mapped[s] = [at |-> Plain(s), used |-> Used(s)]
<1>1. \A z \in Stmts \ {s} : Plain(z)' = Plain(z)
  BY DEF Plain, SameStream, SameSet
<1>2. \A z \in Stmts \ {s} : Used(z)' = Used(z)
  BY <1>1 DEF Used, SameStream, SameSet
<1>3. /\ Mapped = [z \in Stmts |-> [at |-> Plain(z), used |-> Used(z)]]
      /\ Mapped' = [z \in Stmts |-> [at |-> Plain(z)', used |-> Used(z)']]
  BY Unfolded, UnfoldedNext
<1>4. Mapped' = [Mapped EXCEPT ![s] = [at |-> a, used |-> u]] /\ Mapped[s].at = Plain(s)
  BY <1>1, <1>2, <1>3
<1> QED
  BY <1>3, <1>4 DEF Streams!Goes, Streams!At, Mapped

\* A transaction that ends breaks the streams under way and no other.
LEMMA BrokenMapped ==
  ASSUME IInv, IInv', EndSets, \A z \in Stmts : SameStream(z)
  PROVE  Mapped' = [s \in Stmts |-> IF Mapped[s].at # "streaming" THEN Mapped[s]
                                     ELSE [at |-> "broken", used |-> Mapped[s].used]]
<1>0. TypeOK
  BY DEF IInv
<1>1. ASSUME NEW z \in Stmts
      PROVE  /\ Plain(z)' = IF Plain(z) = "streaming" THEN "broken" ELSE Plain(z)
             /\ Used(z)' = Used(z)
  <2>1. st[z].cursor # 0 => st[z].cursor \in Sets
    BY <1>0, BoundsAssumption DEF TypeOK, StmtRec, Sets
  <2>2. st[z].cursor # 0 => /\ rs'[st[z].cursor].st # "open"
                            /\ rs'[st[z].cursor].pos = rs[st[z].cursor].pos
    BY <1>0, <2>1, EndSetsEffect DEF SetKept
  <2>3. Plain(z)' = IF Plain(z) = "streaming" THEN "broken" ELSE Plain(z)
    BY <2>2 DEF Plain, SameStream
  <2>4. Used(z)' = Used(z)
    BY <2>2, <2>3 DEF Used, SameStream
  <2> QED
    BY <2>3, <2>4
<1>2. Mapped = [s \in Stmts |-> [at |-> Plain(s), used |-> Used(s)]]
  BY Unfolded
<1>3. Mapped' = [s \in Stmts |-> [at |-> Plain(s)', used |-> Used(s)']]
  BY UnfoldedNext
<1> HIDE DEF Plain, Used
<1> QED
  BY <1>1, <1>2, <1>3

\* execute() makes a finished stream ready, or does what COMMIT and SET
\* TRANSACTION do.
LEMMA ExecuteMapped ==
  ASSUME IInv, IInv', NEW s \in Stmts, Execute(s)
  PROVE  \/ UNCHANGED <<Mapped, tra, ret>>
         \/ Streams!Execute(s) \/ Streams!StartTran \/ Streams!EndTran \/ Streams!Reset
<1>0. /\ TypeOK /\ st \in [Stmts -> StmtRec] /\ st[s] \in StmtRec /\ st[s].obj = "live"
  BY DEF IInv, TypeOK, Execute
<1>1. CASE Reset
  <2>1. Mapped' = [z \in Stmts |-> [at |-> "none", used |-> 0]]
    BY <1>1, UnfoldedNext DEF Reset, Plain, Used, NoStmt
  <2> QED
    BY <1>1, <2>1 DEF Reset, Streams!Reset, Streams!At, Mapped
<1>2. CASE /\ Usable(s) /\ ret' = ret
           /\ ExecuteSelect(s) \/ ExecuteDml(s) \/ ExecuteTran(s)
  <2>0. st[s].sth
    BY <1>2 DEF Usable
  <2>1. CASE st' = [st EXCEPT ![s] = Bind(s, run')] /\ tra' = tra /\ rs' = rs
                /\ st[s].kind \in {"select", "dml"} /\ (st[s].kind = "dml" => tra)
    <3>1. /\ \A z \in Stmts \ {s} : SameStream(z) /\ SameSet(z)
          /\ st'[s] = Bind(s, run')
      BY <1>0, <2>1 DEF SameStream, SameSet
    <3>2. /\ st'[s].obj = "live" /\ st'[s].sth /\ st'[s].kind = st[s].kind
          /\ ~st'[s].did_fake_fetch /\ ~st'[s].is_exhausted
          /\ st'[s].is_cursor_open = st[s].is_cursor_open /\ st'[s].cursor = st[s].cursor
      BY <1>0, <2>0, <3>1 DEF Bind, StmtRec
    <3>3. CASE st[s].kind = "select" /\ st[s].is_exhausted
      <4>1. ~st[s].is_cursor_open
        BY <1>2, <3>3 DEF IInv, ReadToEnd
      <4>2. Plain(s) = "done" /\ Plain(s)' = "ready"
        BY <1>0, <2>0, <3>2, <3>3, <4>1 DEF Plain
      <4>3. Used(s)' = 0
        BY <1>2, <3>2, <3>3, <4>2 DEF Used, IInv, ReadToEnd
      <4>4. Streams!Goes(s, "done", "ready", 0)
        BY <3>1, <4>2, <4>3, OneMapped
      <4> QED
        BY <1>2, <2>1, <4>4 DEF Streams!Execute
    <3>4. CASE st[s].kind = "dml" /\ st[s].did_fake_fetch
      <4>1. Plain(s) = "spent" /\ Plain(s)' = "single"
        BY <1>0, <2>0, <3>2, <3>4 DEF Plain
      <4>2. Used(s)' = 0
        BY <3>2, <3>4, <4>1 DEF Used, IInv, Pointed
      <4>3. Streams!Goes(s, "spent", "single", 0)
        BY <3>1, <4>1, <4>2, OneMapped
      <4> QED
        BY <1>2, <2>1, <3>4, <4>3 DEF Streams!Execute
    <3>5. CASE ~(st[s].kind = "select" /\ st[s].is_exhausted) /\ ~(st[s].kind = "dml" /\ st[s].did_fake_fetch)
      <4>1. Plain(s)' = Plain(s)
        BY <1>0, <2>0, <2>1, <3>2, <3>5 DEF Plain
      <4>2. Used(s)' = Used(s)
        BY <2>1, <3>2, <4>1 DEF Used
      <4>3. /\ Streams!Goes(s, Plain(s), Plain(s), Used(s))
            /\ Mapped[s] = [at |-> Plain(s), used |-> Used(s)]
        BY <3>1, <4>1, <4>2, OneMapped
      <4>4. Mapped' = [Mapped EXCEPT ![s] = Mapped[s]]
        BY <4>3 DEF Streams!Goes, Streams!At, Mapped
      <4>5. Mapped' = Mapped
        BY <4>4 DEF Mapped
      <4> QED
        BY <1>2, <2>1, <4>5
    <3> QED
      BY <2>1, <3>3, <3>4, <3>5
  <2>2. CASE \/ BindFails(s)
             \/ st' = [st EXCEPT ![s].args = {run'}, ![s].ran = 0] /\ tra' = tra /\ rs' = rs
    <3>1. \A z \in Stmts : SameStream(z) /\ SameSet(z)
      BY <1>0, <2>2 DEF BindFails, SameStream, SameSet, StmtRec
    <3>2. tra' = tra
      BY <2>2 DEF BindFails
    <3> QED
      BY <1>2, <3>1, <3>2, SameMapped
  <2>3. CASE ExecuteTran(s)
    <3>1. \A z \in Stmts : SameStream(z)
      BY <1>0, <2>3 DEF ExecuteTran, SameStream, StmtRec
    <3>2. CASE tra /\ tra' = FALSE /\ EndSets
      BY <1>2, <3>1, <3>2, BrokenMapped DEF Streams!EndTran, Streams!BreakAll, Streams!At, Mapped
    <3>3. CASE ~tra /\ tra' = TRUE /\ UNCHANGED rs
      <4>1. Mapped' = Mapped
        BY <3>1, <3>3, SameMapped DEF SameSet
      <4> QED
        BY <1>2, <3>3, <4>1 DEF Streams!StartTran, Mapped
    <3> QED
      BY <2>3, <3>2, <3>3 DEF ExecuteTran
  <2> QED
    BY <1>2, <2>1, <2>2, <2>3 DEF ExecuteSelect, ExecuteDml
<1> QED
  BY <1>1, <1>2 DEF Execute

\* fetchNext on a set of s: a row, given or lost, the end, or an error in the
\* same place.
LEMMA FetchNextMapped ==
  ASSUME IInv, IInv', NEW s \in Stmts, NEW c \in Sets, Usable(s), st[s].kind = "select",
         ~st[s].is_exhausted, tra' = tra, NEW r, FetchNext(s, c, r), r.st = "open" => tra,
         r \in SetRec, rs[c].st = "none" => r.st = "open" /\ r.pos = 0, Used(s) = r.pos,
         Plain(s) = IF rs[c].st = "none" THEN "ready" ELSE IF r.st = "open" THEN "streaming" ELSE "broken",
         \A z \in Stmts \ {s} : st[z].cursor # 0 => st[z].cursor # c
  PROVE  Streams!Row(s) \/ Streams!NoRow(s) \/ Streams!Throw(s)
<1>0. /\ TypeOK /\ st \in [Stmts -> StmtRec] /\ st[s] \in StmtRec /\ st[s].obj = "live" /\ st[s].sth
      /\ rs \in [Sets -> SetRec] /\ c # 0 /\ r.pos \in Nat /\ r.pos + 1 # 0
  <2>1. r.pos \in 0..MaxRows
    BY DEF SetRec
  <2> QED
    BY <2>1, BoundsAssumption DEF IInv, TypeOK, Usable, Sets
<1>1. \A z \in Stmts \ {s} : SameStream(z)
  BY <1>0 DEF FetchNext, SameStream, StmtRec
<1>2. \A z \in Stmts \ {s} : SameSet(z)
  <2>1. ASSUME NEW z \in Stmts \ {s}, st[z].cursor # 0
        PROVE  rs'[st[z].cursor] = rs[st[z].cursor]
    <3>1. st[z].cursor \in Sets /\ st[z].cursor # c
      BY <1>0, <2>1, BoundsAssumption DEF StmtRec, Sets
    <3> QED
      BY <1>0, <3>1 DEF FetchNext
  <2> QED
    BY <2>1 DEF SameSet
<1>3. ASSUME r.st = "open", rs'[c].st = "open", rs'[c].pos = r.pos + 1,
             st' = [st EXCEPT ![s].cursor = c, ![s].is_cursor_open = TRUE]
      PROVE  Streams!UsesRow(s)
  <2>1. /\ st'[s].obj = "live" /\ st'[s].sth /\ st'[s].kind = "select" /\ ~st'[s].is_exhausted
        /\ st'[s].is_cursor_open /\ st'[s].cursor = c
    BY <1>0, <1>3 DEF StmtRec
  <2>2. Plain(s)' = "streaming" /\ Used(s)' = r.pos + 1
    BY <1>0, <1>3, <2>1 DEF Plain, Used
  <2>3. /\ Streams!Goes(s, Plain(s), "streaming", r.pos + 1)
        /\ Mapped[s] = [at |-> Plain(s), used |-> r.pos]
    BY <1>1, <1>2, <2>2, OneMapped
  <2>4. CASE rs[c].st = "none"
    BY <1>3, <2>3, <2>4 DEF Streams!UsesRow
  <2>5. CASE rs[c].st # "none"
    <3>1. Mapped[s].used + 1 = r.pos + 1 /\ Plain(s) = "streaming" /\ tra
      BY <1>3, <2>3, <2>5
    <3> QED
      BY <2>3, <3>1 DEF Streams!UsesRow, Mapped
  <2> QED
    BY <2>4, <2>5
<1>4. CASE /\ r.st = "open" /\ r.pos < MaxRows
           /\ st' = [st EXCEPT ![s].cursor = c, ![s].is_cursor_open = TRUE]
           /\ \/ /\ rs' = [rs EXCEPT ![c] = [r EXCEPT !.pos = @ + 1, !.given = @ + 1]]
                 /\ ret' = [ret EXCEPT ![s] = "row"]
              \/ /\ rs' = [rs EXCEPT ![c] = [r EXCEPT !.pos = @ + 1, !.lost = @ + 1]]
                 /\ ret' = [ret EXCEPT ![s] = "throw"]
  <2>1. rs'[c].st = "open" /\ rs'[c].pos = r.pos + 1
    <3>1. CASE rs' = [rs EXCEPT ![c] = [r EXCEPT !.pos = @ + 1, !.given = @ + 1]]
      BY <1>0, <1>4, <3>1 DEF SetRec
    <3>2. CASE rs' = [rs EXCEPT ![c] = [r EXCEPT !.pos = @ + 1, !.lost = @ + 1]]
      BY <1>0, <1>4, <3>2 DEF SetRec
    <3> QED
      BY <1>4, <3>1, <3>2
  <2>2. Streams!UsesRow(s)
    BY <1>3, <1>4, <2>1
  <2> QED
    BY <1>4, <2>2 DEF Streams!Row, Streams!Throw, Streams!Returns
<1>5. CASE /\ r.st = "open"
           /\ rs' = [rs EXCEPT ![c] = [r EXCEPT !.st = "ended"]]
           /\ st' = [st EXCEPT ![s].cursor = 0, ![s].is_cursor_open = FALSE,
                               ![s].is_exhausted = TRUE]
           /\ ret' = [ret EXCEPT ![s] = "false"]
  <2>1. /\ st'[s].obj = "live" /\ st'[s].sth /\ st'[s].kind = "select" /\ st'[s].is_exhausted
        /\ st'[s].cursor = 0
    BY <1>0, <1>5 DEF StmtRec
  <2>2. Plain(s)' = "done" /\ Used(s)' = 0
    BY <2>1 DEF Plain, Used
  <2>3. Streams!Goes(s, Plain(s), "done", 0) /\ Plain(s) \in {"ready", "streaming"} /\ tra
    BY <1>1, <1>2, <1>5, <2>2, OneMapped
  <2> QED
    BY <1>5, <2>3 DEF Streams!NoRow, Streams!Returns
<1>6. CASE /\ rs' = [rs EXCEPT ![c] = r]
           /\ st' = [st EXCEPT ![s].cursor = c, ![s].is_cursor_open = TRUE]
           /\ ret' = [ret EXCEPT ![s] = "throw"]
  <2> DEFINE now == IF r.st = "open" THEN "streaming" ELSE "broken"
  <2>1. /\ st'[s].obj = "live" /\ st'[s].sth /\ st'[s].kind = "select" /\ ~st'[s].is_exhausted
        /\ st'[s].is_cursor_open /\ st'[s].cursor = c /\ rs'[c] = r
    BY <1>0, <1>6 DEF StmtRec
  <2>2. Plain(s)' = now /\ Used(s)' = r.pos
    BY <1>0, <2>1 DEF Plain, Used
  <2>3. /\ Streams!Goes(s, Plain(s), now, r.pos)
        /\ Mapped[s] = [at |-> Plain(s), used |-> r.pos]
    BY <1>1, <1>2, <2>2, OneMapped
  <2>4. CASE rs[c].st = "none"
    <3>1. Streams!Goes(s, "ready", "streaming", 0) /\ tra
      BY <2>3, <2>4
    <3> QED
      BY <1>6, <3>1 DEF Streams!Throw, Streams!Returns
  <2>5. CASE rs[c].st # "none"
    <3>1. Plain(s) = now /\ now \in {"streaming", "broken"} /\ Mapped[s].used = r.pos
      BY <2>3, <2>5
    <3>2. Streams!Stays(s, Plain(s))
      BY <2>3, <3>1 DEF Streams!Stays, Mapped
    <3> HIDE DEF now
    <3> QED
      BY <1>6, <3>1, <3>2 DEF Streams!Throw, Streams!Returns
  <2> QED
    BY <2>4, <2>5
<1> QED
  BY <1>4, <1>5, <1>6 DEF FetchNext

LEMMA FetchMapped ==
  ASSUME IInv, IInv', NEW s \in Stmts, Fetch(s)
  PROVE  Streams!Row(s) \/ Streams!NoRow(s) \/ Streams!Throw(s)
<1>0. /\ TypeOK /\ st \in [Stmts -> StmtRec] /\ st[s] \in StmtRec /\ st[s].obj = "live" /\ tra' = tra
  BY DEF IInv, TypeOK, Fetch
\* A fetch that finds the stream where it leaves it.
<1>1. ASSUME st' = st, rs' = rs PROVE Streams!Stays(s, Plain(s))
  <2>1. Plain(s)' = Plain(s) /\ Used(s)' = Used(s)
    BY <1>1 DEF Plain, Used
  <2>2. \A z \in Stmts \ {s} : SameStream(z) /\ SameSet(z)
    BY <1>1 DEF SameStream, SameSet
  <2>3. /\ Streams!Goes(s, Plain(s), Plain(s), Used(s))
        /\ Mapped[s] = [at |-> Plain(s), used |-> Used(s)]
    BY <2>1, <2>2, OneMapped
  <2>4. Mapped[s].used = Used(s)
    BY <2>3
  <2> QED
    BY <2>3, <2>4 DEF Streams!Stays, Mapped
<1>2. CASE Usable(s) /\ st[s].kind = "select" /\ st[s].is_exhausted
           /\ ret' = [ret EXCEPT ![s] = "false"] /\ st' = st /\ rs' = rs
  <2>1. Plain(s) = "done"
    BY <1>0, <1>2 DEF Plain, Usable
  <2> QED
    BY <1>0, <1>1, <1>2, <2>1 DEF Streams!NoRow, Streams!Returns
<1>3. CASE Usable(s) /\ st[s].kind = "select" /\ ~st[s].is_exhausted /\ FetchFirst(s)
  <2>0. Plain(s) = "ready" /\ st[s].cursor = 0 /\ Used(s) = 0
    BY <1>0, <1>3 DEF Plain, Used, Usable, FetchFirst, IInv, Pointed
  <2>1. CASE ret' = [ret EXCEPT ![s] = "throw"] /\ st' = st /\ rs' = rs
    BY <1>0, <1>1, <2>0, <2>1 DEF Streams!Throw, Streams!Returns
  <2>2. ASSUME NEW c \in Sets, tra, rs[c].st = "none",
               FetchNext(s, c, [st |-> "open", of |-> s, args |-> st[s].args,
                                at |-> run, pos |-> 0, given |-> 0, lost |-> 0])
        PROVE  Streams!Row(s) \/ Streams!NoRow(s) \/ Streams!Throw(s)
    <3> DEFINE r == [st |-> "open", of |-> s, args |-> st[s].args,
                     at |-> run, pos |-> 0, given |-> 0, lost |-> 0]
    <3>1. r \in SetRec /\ r.st = "open" /\ r.pos = 0
      BY <1>0, BoundsAssumption DEF TypeOK, SetRec, StmtRec
    <3>2. \A z \in Stmts \ {s} : st[z].cursor # 0 => st[z].cursor # c
      BY <2>2 DEF IInv, Pointed
    <3>3. FetchNext(s, c, r)
      BY <2>2
    <3> HIDE DEF r
    <3> QED
      BY <1>0, <1>3, <2>0, <2>2, <3>1, <3>2, <3>3, FetchNextMapped
  <2> QED
    BY <1>3, <2>1, <2>2 DEF FetchFirst
<1>4. CASE Usable(s) /\ st[s].kind = "select" /\ ~st[s].is_exhausted /\ FetchMore(s)
  <2> DEFINE c == st[s].cursor
  <2>1. c \in Sets /\ c # 0 /\ FetchNext(s, c, rs[c]) /\ st[s].is_cursor_open
    BY <1>0, <1>4, BoundsAssumption DEF FetchMore, StmtRec, Sets
  <2>2. /\ rs[c] \in SetRec /\ rs[c].of = s /\ rs[c].st \in {"open", "dead"}
        /\ (rs[c].st = "open" => tra)
    BY <1>0, <2>1 DEF IInv, TypeOK, Pointed, Held
  <2>3. \A z \in Stmts \ {s} : st[z].cursor # 0 => st[z].cursor # c
    BY <2>2 DEF IInv, Pointed
  <2>4. /\ Plain(s) = IF rs[c].st = "open" THEN "streaming" ELSE "broken"
        /\ Used(s) = rs[c].pos
    BY <1>0, <1>4, <2>1 DEF Plain, Used, Usable
  <2> QED
    BY <1>0, <1>4, <2>1, <2>2, <2>3, <2>4, FetchNextMapped
<1>5. CASE Usable(s) /\ FetchOutput(s)
  <2>1. /\ \A z \in Stmts \ {s} : SameStream(z) /\ SameSet(z)
        /\ st'[s].obj = "live" /\ st'[s].sth /\ st'[s].kind # "select" /\ st'[s].did_fake_fetch
    BY <1>0, <1>5 DEF FetchOutput, Usable, SameStream, SameSet, StmtRec
  <2>2. /\ Plain(s) = IF st[s].did_fake_fetch THEN "spent" ELSE "single"
        /\ Plain(s)' = "spent"
    BY <1>0, <1>5, <2>1 DEF Plain, Usable, FetchOutput
  <2>3. st'[s].cursor = 0 /\ st[s].cursor = 0
    BY <1>0, <1>5 DEF FetchOutput, StmtRec, IInv, Pointed
  <2>4. Used(s)' = 1 /\ (Plain(s) = "spent" => Used(s) = 1)
    BY <2>2, <2>3 DEF Used
  <2>5. /\ Streams!Goes(s, Plain(s), "spent", 1)
        /\ Mapped[s] = [at |-> Plain(s), used |-> Used(s)]
    BY <2>1, <2>2, <2>4, OneMapped
  <2>6. CASE st[s].did_fake_fetch
    <3>1. Mapped[s].used = 1 /\ Plain(s) = "spent"
      BY <2>2, <2>4, <2>5, <2>6
    <3>2. Streams!Stays(s, "spent")
      BY <2>5, <3>1 DEF Streams!Stays, Mapped
    <3> QED
      BY <1>0, <1>5, <2>6, <3>2 DEF FetchOutput, Streams!NoRow, Streams!Returns
  <2>7. CASE ~st[s].did_fake_fetch
    <3>1. Streams!UsesRow(s)
      BY <2>2, <2>5, <2>7 DEF Streams!UsesRow
    <3> QED
      BY <1>0, <1>5, <2>7, <3>1 DEF FetchOutput, Streams!Row, Streams!Throw, Streams!Returns
  <2> QED
    BY <2>6, <2>7
<1>6. CASE FetchFreed(s)
  <2>1. Plain(s) = "freed" /\ st' = st /\ rs' = rs
    BY <1>0, <1>6 DEF Plain, FetchFreed
  <2>2. PICK r \in {"false", "throw"} : ret' = [ret EXCEPT ![s] = r]
    BY <1>6 DEF FetchFreed
  <2> QED
    BY <1>0, <1>1, <2>1, <2>2 DEF Streams!NoRow, Streams!Throw, Streams!Returns
<1> QED
  BY <1>2, <1>3, <1>4, <1>5, <1>6 DEF Fetch, FetchSelect

\* prepare, close_cursor and free: the stream begins, becomes unsafe, is gone.
LEMMA OthersMapped ==
  ASSUME IInv, IInv', NEW s \in Stmts
  PROVE  /\ \A kind \in Kinds : Prepare(s, kind) => Streams!Prepare(s)
         /\ CloseCursor(s) => Streams!CloseCursor(s)
         /\ Free(s) => Streams!Free(s)
<1>0. TypeOK /\ st \in [Stmts -> StmtRec] /\ st[s] \in StmtRec /\ rs \in [Sets -> SetRec]
  BY DEF IInv, TypeOK
<1>1. ASSUME NEW kind \in Kinds, Prepare(s, kind) PROVE Streams!Prepare(s)
  <2>1. /\ \A z \in Stmts \ {s} : SameStream(z) /\ SameSet(z)
        /\ st[s] = NoStmt /\ tra' = tra /\ ret' = ret
    BY <1>0, <1>1 DEF Prepare, SameStream, SameSet, IInv, Whole
  <2>2. /\ st'[s].obj = "live" /\ st'[s].sth /\ st'[s].kind = kind /\ ~st'[s].did_fake_fetch
        /\ ~st'[s].is_exhausted /\ ~st'[s].is_cursor_open /\ st'[s].cursor = 0
    BY <1>0, <1>1, <2>1 DEF Prepare, NoStmt, StmtRec
  <2>3. Plain(s) = "none" /\ Plain(s)' = IF kind = "select" THEN "ready" ELSE "single"
    BY <1>1, <2>2 DEF Plain, Prepare
  <2>4. Used(s)' = 0
    BY <2>2, <2>3 DEF Used
  <2>5. Streams!Goes(s, "none", IF kind = "select" THEN "ready" ELSE "single", 0)
    BY <2>1, <2>3, <2>4, OneMapped
  <2> QED
    BY <2>1, <2>5 DEF Streams!Prepare
\* Closing the cursor of s touches no other statement.
<1>2. ASSUME rs' = [rs EXCEPT ![st[s].cursor].st = "closed"] \/ rs' = rs
      PROVE  \A z \in Stmts \ {s} : SameSet(z)
  <2>1. ASSUME NEW z \in Stmts \ {s}, st[z].cursor # 0
        PROVE  rs'[st[z].cursor] = rs[st[z].cursor]
    <3>1. st[z].cursor \in Sets /\ st[z].cursor # st[s].cursor
      BY <1>0, <2>1, BoundsAssumption DEF IInv, Pointed, StmtRec, Sets
    <3> QED
      BY <1>0, <1>2, <3>1
  <2> QED
    BY <2>1 DEF SameSet
<1>3. ASSUME CloseCursor(s) PROVE Streams!CloseCursor(s)
  <2>1. /\ st[s].obj = "live" /\ st[s].sth /\ st[s].cursor # 0 /\ rs[st[s].cursor].st = "open"
        /\ tra' = tra /\ ret' = ret /\ st' = [st EXCEPT ![s].cursor = 0]
    BY <1>3 DEF CloseCursor, Usable
  <2>2. st[s].kind = "select" /\ st[s].is_cursor_open /\ ~st[s].is_exhausted
    BY <2>1 DEF IInv, Pointed, ReadToEnd, Usable
  <2>3. /\ \A z \in Stmts \ {s} : SameStream(z) /\ SameSet(z)
        /\ st'[s].obj = "live" /\ st'[s].sth /\ st'[s].cursor = 0 /\ st'[s].kind = "select"
        /\ st'[s].is_cursor_open /\ ~st'[s].is_exhausted
    BY <1>0, <1>2, <1>3, <2>1, <2>2 DEF CloseCursor, SameStream, StmtRec
  <2>4. Plain(s) = "streaming" /\ Plain(s)' = "unsafe"
    BY <2>1, <2>2, <2>3 DEF Plain
  <2>5. Used(s)' = 0
    BY <2>3, <2>4 DEF Used
  <2>6. Streams!Goes(s, "streaming", "unsafe", 0)
    BY <2>3, <2>4, <2>5, OneMapped
  <2> QED
    BY <2>1, <2>6 DEF Streams!CloseCursor
<1>4. ASSUME Free(s) PROVE Streams!Free(s)
  <2>1. PICK o \in {"live", "freed"} : st' = [st EXCEPT ![s] = [NoStmt EXCEPT !.obj = o]]
    BY <1>4 DEF Free
  <2>2. st[s].obj = "live" /\ st[s].sth /\ tra' = tra /\ ret' = ret
    BY <1>4 DEF Free, Usable
  <2>3. /\ \A z \in Stmts \ {s} : SameStream(z) /\ SameSet(z)
        /\ st'[s].obj = o /\ ~st'[s].sth /\ st'[s].cursor = 0
    BY <1>0, <1>2, <1>4, <2>1 DEF Free, Destroy, SameStream, NoStmt
  <2>4. Plain(s) \notin {"none", "freed"} /\ Plain(s)' = "freed"
    BY <2>2, <2>3 DEF Plain
  <2>5. Used(s)' = 0
    BY <2>3, <2>4 DEF Used
  <2>6. Streams!Goes(s, Plain(s), "freed", 0)
    BY <2>3, <2>4, <2>5, OneMapped
  <2> QED
    BY <2>2, <2>4, <2>6 DEF Streams!Free, Streams!Goes
<1> QED
  BY <1>1, <1>3, <1>4

\* The flags, the cursor pointer and the result set of a statement implement a
\* stream of its own: nothing that is done with one statement shows in another.
THEOREM Refinement == Spec => ImplementsStreams
<1>1. Init => Streams!Init
  <2> SUFFICES ASSUME Init PROVE Streams!Init
    OBVIOUS
  <2>1. \A s \in Stmts : Plain(s) = "none" /\ Used(s) = 0
    BY DEF Init, Plain, Used, NoStmt
  <2>2. Mapped = [s \in Stmts |-> [at |-> "none", used |-> 0]]
    BY <2>1, InitInv, Unfolded
  <2> QED
    BY <2>2 DEF Init, Streams!Init, Streams!At, Mapped
<1>2. IInv /\ IInv' /\ [Next]_vars => [Streams!Next]_(<<Mapped, tra, ret>>)
  <2> SUFFICES ASSUME IInv, IInv', [Next]_vars
               PROVE  Streams!Next \/ UNCHANGED <<Mapped, tra, ret>>
    OBVIOUS
  <2>1. CASE Reset
    <3>1. Mapped' = [z \in Stmts |-> [at |-> "none", used |-> 0]]
      BY <2>1, UnfoldedNext DEF Reset, Plain, Used, NoStmt
    <3> QED
      BY <2>1, <3>1 DEF Reset, Streams!Reset, Streams!Next, Streams!At, Mapped
  <2>2. ASSUME st' = st, rs' = rs PROVE Mapped' = Mapped
    BY <2>2, SameMapped DEF SameStream, SameSet
  <2>3. CASE UNCHANGED vars
    BY <2>2, <2>3 DEF vars
  <2>4. CASE StartTran
    <3>1. Streams!StartTran
      BY <2>2, <2>4 DEF StartTran, Streams!StartTran, Mapped
    <3> QED
      BY <3>1 DEF Streams!Next
  <2>5. CASE EndTran \/ RollbackRetaining
    <3>1. Mapped' = [s \in Stmts |-> IF Mapped[s].at # "streaming" THEN Mapped[s]
                                      ELSE [at |-> "broken", used |-> Mapped[s].used]]
      BY <2>5, BrokenMapped DEF EndTran, RollbackRetaining, SameStream
    <3>2. Streams!EndTran \/ Streams!Rollback
      BY <2>5, <3>1 DEF EndTran, RollbackRetaining, Streams!EndTran, Streams!Rollback,
         Streams!BreakAll, Streams!At, Mapped, IInv, TypeOK
    <3> QED
      BY <3>2 DEF Streams!Next
  <2>6. ASSUME NEW s \in Stmts, Execute(s) PROVE Streams!Next \/ UNCHANGED <<Mapped, tra, ret>>
    BY <2>6, ExecuteMapped DEF Streams!Next
  <2>7. ASSUME NEW s \in Stmts, Fetch(s) PROVE Streams!Next
    BY <2>7, FetchMapped DEF Streams!Next
  <2>8. ASSUME NEW s \in Stmts, NEW kind \in Kinds, Prepare(s, kind) \/ CloseCursor(s) \/ Free(s)
        PROVE  Streams!Next
    BY <2>8, OthersMapped DEF Streams!Next
  <2>9. Kinds # {}
    BY DEF Kinds
  <2> QED
    BY <2>1, <2>3, <2>4, <2>5, <2>6, <2>7, <2>8, <2>9 DEF Next, FetchNull
<1> QED
  BY <1>1, <1>2, Inductive, PTL DEF Spec, ImplementsStreams, Streams!Spec, Streams!vars, Mapped
=============================================================================
