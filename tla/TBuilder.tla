------------------------------ MODULE TBuilder ------------------------------
(***************************************************************************)
(* A TBuilder object, the transaction parameter buffer (TPB) that          *)
(* Transaction::build_tpb makes of it when a transaction is started, and   *)
(* what the server reads in that buffer.  The integers of the builder have *)
(* three widths: a PHP integer, the ISC_SHORT of the lock timeout, and the *)
(* int of IXpbBuilder::insertInt.                                          *)
(***************************************************************************)
EXTENDS Integers

CONSTANTS
  ShortMax,  \* greatest ISC_SHORT, 0x7FFF
  IntMax,    \* greatest int
  Timeouts,  \* what scripts pass to wait()
  Numbers    \* what scripts pass to isolation_snapshot()

ASSUME WidthsAssumption ==
  /\ ShortMax \in Nat /\ IntMax \in Nat /\ ShortMax <= IntMax
  /\ Timeouts \subseteq Int /\ Numbers \subseteq Nat

VARIABLES
  b,     \* the builder
  tpb,   \* the buffer of the last start, a set of <<tag, value>>
  read,  \* b as it was at that start
  state  \* "idle", "started" or "fatal"

vars == <<b, tpb, read, state>>

Flags == {"read_only", "ignore_limbo", "auto_commit", "no_auto_undo"}

\* x kept in a signed integer whose greatest value is m.
Narrow(x, m) == ((x + m + 1) % (2 * (m + 1))) - (m + 1)

\* The memory is zeroed; the constructor sets the mode and the timeout.
New == [flag |-> [f \in Flags |-> FALSE], mode |-> 1, wait |-> -1, at |-> 0]

\* What a subclass has that does not call the constructor.
Zeroed == [flag |-> [f \in Flags |-> FALSE], mode |-> 0, wait |-> 0, at |-> 0]

TypeOK ==
  /\ b \in [flag : [Flags -> BOOLEAN], mode : 0..4,
            wait : -1..ShortMax, at : Numbers \union {0}]
  /\ state \in {"idle", "started", "fatal"}

Init == b \in {New, Zeroed} /\ tpb = {} /\ read = New /\ state = "idle"

-----------------------------------------------------------------------------
(* The setters.                                                            *)

SetFlag(f, enable) ==
  /\ state # "fatal"
  /\ b' = [b EXCEPT !.flag[f] = enable]
  /\ UNCHANGED <<tpb, read, state>>

\* Mutant: the check of the upper bound is missing.
WaitUnbounded(t) ==
  /\ state # "fatal" /\ t >= -1
  /\ b' = [b EXCEPT !.wait = Narrow(t, ShortMax)]
  /\ UNCHANGED <<tpb, read, state>>

\* Any other argument raises an exception.
Wait(t) ==
  /\ state # "fatal" /\ t >= -1 /\ t <= ShortMax
  /\ b' = [b EXCEPT !.wait = Narrow(t, ShortMax)]
  /\ UNCHANGED <<tpb, read, state>>

\* Mutant: the number of an earlier snapshot is kept.
IsolationKeepsNumber(mode, at) ==
  /\ state # "fatal" /\ (mode # 1 => at = 0)
  /\ b' = [b EXCEPT !.mode = mode, !.at = IF mode = 1 THEN at ELSE @]
  /\ UNCHANGED <<tpb, read, state>>

\* All five: the number is reset first, and only isolation_snapshot sets it.
Isolation(mode, at) ==
  /\ state # "fatal" /\ (mode # 1 => at = 0)
  /\ b' = [b EXCEPT !.mode = mode, !.at = at]
  /\ UNCHANGED <<tpb, read, state>>

-----------------------------------------------------------------------------
(* build_tpb and the server.                                               *)

Tag(name) == <<name, 0>>

FlagTags(t) ==
  {IF t.flag["read_only"] THEN Tag("read") ELSE Tag("write")}
    \union {Tag(f) : f \in {g \in Flags \ {"read_only"} : t.flag[g]}}

IsolationTags(t) ==
  CASE t.mode = 0 -> {Tag("consistency")}
    [] t.mode = 1 -> {Tag("concurrency")} \union
         (IF t.at = 0 THEN {} ELSE {<<"at_snapshot_number", Narrow(t.at, IntMax)>>})
    [] t.mode = 2 -> {Tag("read_committed"), Tag("rec_version")}
    [] t.mode = 3 -> {Tag("read_committed"), Tag("no_rec_version")}
    [] t.mode = 4 -> {Tag("read_committed"), Tag("read_consistency")}

\* Mutant: a timeout without isc_tpb_wait.
TimeoutOnly(t) ==
  CASE t.wait = 0  -> {Tag("nowait")}
    [] t.wait = -1 -> {Tag("wait")}
    [] t.wait > 0  -> {<<"lock_timeout", t.wait>>}

WaitTags(t) ==
  CASE t.wait = 0  -> {Tag("nowait")}
    [] t.wait = -1 -> {Tag("wait")}
    [] t.wait > 0  -> {Tag("wait"), <<"lock_timeout", t.wait>>}

Buffer(t) == FlagTags(t) \union IsolationTags(t) \union WaitTags(t)

\* A mode or a timeout outside of these cases ends the process.  Without a
\* builder no buffer is made; that is not modelled.
Start ==
  /\ state # "fatal"
  /\ IF b.mode \in 0..4 /\ b.wait >= -1
     THEN /\ tpb' = Buffer(b)
          /\ read' = b /\ state' = "started"
     ELSE state' = "fatal" /\ UNCHANGED <<tpb, read>>
  /\ UNCHANGED b

Next ==
  \/ \E f \in Flags, enable \in BOOLEAN : SetFlag(f, enable)
  \/ \E t \in Timeouts : Wait(t)
  \/ \E mode \in 0..4, at \in Numbers \union {0} : Isolation(mode, at)
  \/ Start

Spec == Init /\ [][Next]_vars

\* The value of a tag, or 0.
Value(t) ==
  LET vs == {e[2] : e \in {x \in tpb : x[1] = t}}
  IN  IF vs = {} THEN 0 ELSE CHOOSE v \in vs : TRUE

Tags == {e[1] : e \in tpb}

\* The server: without isc_tpb_nowait it waits, forever without a timeout;
\* a timeout is accepted with isc_tpb_wait only.
ServerWait ==
  IF "nowait" \in Tags THEN 0
  ELSE IF "lock_timeout" \in Tags
       THEN IF "wait" \in Tags THEN Value("lock_timeout") ELSE -2
       ELSE -1

ServerMode ==
  IF "consistency" \in Tags THEN 0
  ELSE IF "read_committed" \notin Tags THEN 1
  ELSE IF "rec_version" \in Tags THEN 2
  ELSE IF "no_rec_version" \in Tags THEN 3 ELSE 4

-----------------------------------------------------------------------------
(* Properties.                                                             *)

\* No sequence of setters leads build_tpb to one of its two fatal branches.
NeverFatal == state # "fatal"

\* The transaction has the options that the properties of the builder showed
\* when it was started, but for the snapshot number.
OptionsReach ==
  state = "started" =>
    /\ "read" \in Tags <=> read.flag["read_only"]
    /\ \A f \in Flags \ {"read_only"} : f \in Tags <=> read.flag[f]
    /\ ServerMode = read.mode
    /\ ServerWait = read.wait

\* The transaction reads the snapshot whose number the property shows.
SnapshotReaches ==
  state = "started" => Value("at_snapshot_number") = read.at

\* That holds for numbers that fit the int of insertInt.
SmallSnapshotReaches == read.at <= IntMax => SnapshotReaches
=============================================================================
