-------------------------- MODULE StatementStreams --------------------------
(***************************************************************************)
(* What PHP code may rely on when it fetches: every Statement object is a  *)
(* stream of its own, and this is all of its life.                         *)
(*                                                                         *)
(*   "single" -> "spent"      one row of output, again after execute       *)
(*   "ready" -> "streaming" -> "done"       a query, again after execute   *)
(*                                                                         *)
(* execute() in the middle of a stream neither restarts nor ends it.  When *)
(* the transaction ends, every stream under way breaks, for good.  Closing *)
(* the cursor under way leaves a stream that must not be fetched from.     *)
(*                                                                         *)
(* Rows are used up one by one, only by a fetch of that very statement, and *)
(* only one that returns a row or throws.                                  *)
(***************************************************************************)
EXTENDS Naturals

CONSTANT Stmts

VARIABLES
  stream,   \* stream[s]: where it is (at), and the rows used up on the way
  tra,      \* a transaction is running
  ret       \* ret[s]: what the last fetch of s returned

vars == <<stream, tra, ret>>

At(at, used) == [at |-> at, used |-> used]

Goes(s, from, to, used) ==
  stream[s].at = from /\ stream' = [stream EXCEPT ![s] = At(to, used)]
Stays(s, at) == Goes(s, at, at, stream[s].used)
Returns(s, r) == ret' = [ret EXCEPT ![s] = r] /\ UNCHANGED tra

Init == /\ stream = [s \in Stmts |-> At("none", 0)]
        /\ tra = FALSE
        /\ ret = [s \in Stmts |-> "none"]

Prepare(s) ==
  /\ UNCHANGED <<tra, ret>>
  /\ Goes(s, "none", "ready", 0) \/ Goes(s, "none", "single", 0)

\* execute() makes a finished stream ready, and leaves the others alone.
Execute(s) ==
  /\ UNCHANGED <<tra, ret>>
  /\ \/ Goes(s, "done", "ready", 0)
     \/ tra /\ Goes(s, "spent", "single", 0)

\* One row more: a query's next one, which needs the transaction, or the
\* only one of an output.
UsesRow(s) ==
  \/ tra /\ Goes(s, "ready", "streaming", 1)
  \/ tra /\ Goes(s, "streaming", "streaming", stream[s].used + 1)
  \/ Goes(s, "single", "spent", 1)

Row(s) == Returns(s, "row") /\ UsesRow(s)

\* No more rows: only a query whose stream is under way comes to an end.
NoRow(s) ==
  /\ Returns(s, "false")
  /\ \/ tra /\ (Goes(s, "ready", "done", 0) \/ Goes(s, "streaming", "done", 0))
     \/ \E at \in {"done", "spent", "freed"} : Stays(s, at)

\* A fetch that throws has used up the row it could not convert, which no
\* later fetch returns, or it leaves the stream in its place.
Throw(s) ==
  /\ Returns(s, "throw")
  /\ \/ UsesRow(s)
     \/ \E at \in {"ready", "streaming", "broken", "freed"} : Stays(s, at)
     \/ tra /\ Goes(s, "ready", "streaming", 0)

CloseCursor(s) == UNCHANGED <<tra, ret>> /\ Goes(s, "streaming", "unsafe", 0)

Free(s) ==
  /\ UNCHANGED <<tra, ret>>
  /\ stream[s].at \notin {"none", "freed"}
  /\ stream' = [stream EXCEPT ![s] = At("freed", 0)]

StartTran == ~tra /\ tra' = TRUE /\ UNCHANGED <<stream, ret>>

BreakAll == /\ UNCHANGED ret
            /\ stream' = [s \in Stmts |-> IF stream[s].at # "streaming" THEN stream[s]
                                          ELSE At("broken", stream[s].used)]

EndTran  == tra /\ tra' = FALSE /\ BreakAll
Rollback == tra /\ tra' = TRUE /\ BreakAll

Reset == /\ stream' = [s \in Stmts |-> At("none", 0)]
         /\ tra' = FALSE
         /\ ret' = [s \in Stmts |-> "none"]

Next ==
  \/ \E s \in Stmts : \/ Prepare(s) \/ Execute(s) \/ Row(s) \/ NoRow(s)
                      \/ Throw(s) \/ CloseCursor(s) \/ Free(s)
  \/ StartTran \/ EndTran \/ Rollback \/ Reset

Spec == Init /\ [][Next]_vars
=============================================================================
