-------------------------- MODULE TransactionCells --------------------------
(***************************************************************************)
(* What PHP code may rely on when it uses Transaction objects, with no     *)
(* handle, table, pointer or attachment in sight.  Every object is a       *)
(* private cell holding at most one transaction of the server.             *)
(*                                                                         *)
(* A method of an object changes that object's cell and the transaction in *)
(* it, and nothing of any other object.  Only the end of an attachment     *)
(* closes several cells at once, and it rolls back what they were running  *)
(* without disturbing a running transaction of a cell that stays open.     *)
(***************************************************************************)
EXTENDS Naturals

CONSTANTS Objs, Tids

VARIABLES
  cell,   \* cell[o]: where the object is, and what it holds if "open"
  srv     \* srv[t]: state of transaction t on the server

vars == <<cell, srv>>

Unresolved == {"active", "prepared"}
Outcome    == {"committed", "rolledback"}

\* at is "none", "open", "closed" or "freed"; an open cell is idle at tra = 0.
Cell(at, tra) == [at |-> at, tra |-> tra]
Idle(o)     == cell[o] = Cell("open", 0)
Holds(o, t) == cell[o] = Cell("open", t) /\ t \in Tids

Init == /\ cell = [o \in Objs |-> Cell("none", 0)]
        /\ srv = [t \in Tids |-> "none"]

New(o) ==
  /\ cell[o].at = "none"
  /\ cell' = [cell EXCEPT ![o] = Cell("open", 0)]
  /\ UNCHANGED srv

\* Start a transaction in an idle cell or in one made for it.
Begin(o, t) ==
  /\ Idle(o) \/ cell[o].at = "none"
  /\ srv[t] = "none"
  /\ cell' = [cell EXCEPT ![o] = Cell("open", t)]
  /\ srv' = [srv EXCEPT ![t] = "active"]

\* A transaction is started for an object that is not handed out after all.
Vain(t) ==
  /\ srv[t] = "none"
  /\ srv' = [srv EXCEPT ![t] = "rolledback"]
  /\ UNCHANGED cell

\* Take over a transaction in limbo.
Adopt(o, t) ==
  /\ cell[o].at = "none" /\ srv[t] = "prepared"
  /\ cell' = [cell EXCEPT ![o] = Cell("open", t)]
  /\ UNCHANGED srv

Prepare(o, t) ==
  /\ Holds(o, t) /\ srv[t] \in Unresolved
  /\ srv' = [srv EXCEPT ![t] = "prepared"]
  /\ UNCHANGED cell

End(o, t, outcome) ==
  /\ Holds(o, t) /\ srv[t] \in Unresolved
  /\ cell' = [cell EXCEPT ![o] = Cell("open", 0)]
  /\ srv' = [srv EXCEPT ![t] = outcome]

Retain(o, t, outcome, u) ==
  /\ Holds(o, t) /\ srv[t] \in Unresolved /\ srv[u] = "none"
  /\ cell' = [cell EXCEPT ![o] = Cell("open", u)]
  /\ srv' = [srv EXCEPT ![t] = outcome, ![u] = "active"]

\* An object goes away: what it held is rolled back or left as it is.
Free(o) ==
  /\ cell[o].at \in {"open", "closed"}
  /\ cell' = [cell EXCEPT ![o] = Cell("freed", 0)]
  /\ \/ UNCHANGED srv
     \/ \E t \in Tids : /\ Holds(o, t) /\ srv[t] \in Unresolved
                        /\ srv' = [srv EXCEPT ![t] = "rolledback"]

\* The transactions in S are rolled back by something other than a method.
RollBackAll(S) ==
  /\ \A t \in S : srv[t] \in Unresolved
  /\ srv' = [t \in Tids |-> IF t \in S THEN "rolledback" ELSE srv[t]]

\* An attachment ends and takes the cells in C along, to "closed" or "freed".
Close(C, at) ==
  /\ \A o \in C : cell[o].at = "open"
  /\ cell' = [o \in Objs |-> IF o \in C THEN Cell(at, 0) ELSE cell[o]]
  /\ \E S \in SUBSET Tids :
       /\ RollBackAll(S)
       /\ \A o \in C, t \in Tids : Holds(o, t) /\ srv[t] = "active" => t \in S
       /\ \A o \in Objs \ C, t \in S : Holds(o, t) => srv[t] = "prepared"

\* A connection drops: the server rolls back what ran on it.
Lose ==
  /\ UNCHANGED cell
  /\ \E S \in SUBSET Tids : /\ \A t \in S : srv[t] = "active"
                           /\ RollBackAll(S)

\* The database file is dropped, by an attachment that ends with it.
Drop(C) ==
  /\ \A o \in C : cell[o].at = "open"
  /\ srv' = [t \in Tids |->
               IF srv[t] \in Unresolved THEN "destroyed" ELSE srv[t]]
  /\ cell' = [o \in Objs |-> IF o \in C THEN Cell("closed", 0) ELSE cell[o]]

\* The request ends: no object is left, and nothing is left running.
Reset ==
  /\ cell' = [o \in Objs |-> Cell("none", 0)]
  /\ \E S \in SUBSET Tids : /\ \A t \in Tids : srv[t] = "active" => t \in S
                           /\ RollBackAll(S)

ResolveElsewhere(t, outcome) ==
  /\ srv[t] = "prepared"
  /\ srv' = [srv EXCEPT ![t] = outcome]
  /\ UNCHANGED cell

Next ==
  \/ Lose \/ Reset
  \/ \E o \in Objs : New(o) \/ Free(o)
  \/ \E o \in Objs, t \in Tids : Begin(o, t) \/ Adopt(o, t) \/ Prepare(o, t)
  \/ \E o \in Objs, t \in Tids, outcome \in Outcome :
       End(o, t, outcome) \/ \E u \in Tids : Retain(o, t, outcome, u)
  \/ \E t \in Tids : Vain(t) \/ \E outcome \in Outcome : ResolveElsewhere(t, outcome)
  \/ \E C \in SUBSET Objs : Drop(C) \/ Close(C, "closed") \/ Close(C, "freed")

Spec == Init /\ [][Next]_vars
=============================================================================
