---------------------------- MODULE Transactions ----------------------------
(***************************************************************************)
(* Transaction handles and two-phase commit in one PHP process.            *)
(*                                                                         *)
(* A PHP Database object holds a handle dbh into FBG(db_list), a PHP       *)
(* Transaction object a pair (dbh, trh): trh indexes the tr_list of that   *)
(* C++ Database.  A slot of tr_list is a unique_ptr to a C++ Transaction,  *)
(* whose member tra points at the client library's transaction, or is      *)
(* null.  The Firebird server keeps one state for each transaction number. *)
(*                                                                         *)
(* PHP runs a request in one thread, so every method is one step.  A       *)
(* method whose checks fail, or whose request the server refuses, raises   *)
(* an exception and, unless an action says otherwise, changes nothing: it  *)
(* is a stuttering step and has no disjunct of its own.                    *)
(***************************************************************************)
EXTENDS Naturals, Sequences

CONSTANTS
  MaxDb,    \* bound: Database objects made by one request
  MaxTr,    \* bound: slots appended to one tr_list
  MaxTid,   \* bound: transaction numbers the server hands out
  Objs      \* the PHP Transaction objects of one request

ASSUME BoundsAssumption == MaxDb \in Nat /\ MaxTr \in Nat /\ MaxTid \in Nat

VARIABLES
  db,     \* db[d]: the slot of FBG(db_list) with handle d
  size,   \* size[d]: tr_list.size() of Database d
  slot,   \* slot[d][n]: what handle n of tr_list holds
  obj,    \* obj[o]: the C struct firebird_trans of PHP object o
  srv     \* srv[t]: the server's state of transaction number t

vars == <<db, size, slot, obj, srv>>

Dbhs == 1..MaxDb
Trhs == 1..MaxTr
Tids == 1..MaxTid

\* "none": not appended yet; "open": attached; "broken": the attachment
\* pointer is set but the connection is lost; "gone": unique_ptr reset.
DbState == {"none", "open", "broken", "gone"}

\* tra = 0 is the null pointer; id is info.id.
SlotRec == [st : {"unused", "alive", "freed"}, tra : 0..MaxTid, id : 0..MaxTid]

\* info is the slot whose `info` member the PHP object points at.
ObjRec == [st : {"none", "live", "freed"}, dbh : 0..MaxDb, trh : 0..MaxTr,
           info : 0..MaxTr, is_prepared_2pc : BOOLEAN]

Unresolved == {"active", "prepared"}
Resolved   == {"committed", "rolledback", "destroyed"}
SrvState   == {"none"} \union Unresolved \union Resolved

UnusedSlot == [st |-> "unused", tra |-> 0, id |-> 0]
FreedSlot  == [st |-> "freed", tra |-> 0, id |-> 0]
NewSlot    == [st |-> "alive", tra |-> 0, id |-> 0]
\* Mutant: the number is asked for before the start.
StartedSlotBehind(t) == [st |-> "alive", tra |-> t, id |-> t - 1]
StartedSlot(t) == [st |-> "alive", tra |-> t, id |-> t]
NoObj      == [st |-> "none", dbh |-> 0, trh |-> 0, info |-> 0,
               is_prepared_2pc |-> FALSE]
NoSlots    == [n \in Trhs |-> UnusedSlot]

TypeOK ==
  /\ db \in [Dbhs -> DbState]
  /\ size \in [Dbhs -> 0..MaxTr]
  /\ slot \in [Dbhs -> [Trhs -> SlotRec]]
  /\ obj \in [Objs -> ObjRec]
  /\ srv \in [Tids -> SrvState]

Init ==
  /\ db = [d \in Dbhs |-> "none"]
  /\ size = [d \in Dbhs |-> 0]
  /\ slot = [d \in Dbhs |-> NoSlots]
  /\ obj = [o \in Objs |-> NoObj]
  /\ srv = [t \in Tids |-> "none"]

-----------------------------------------------------------------------------
(* The handle checks, and what a handle leads to.                          *)

fbu_is_valid_dbh(d) == d \in Dbhs /\ db[d] \in {"open", "broken"}

fbu_is_valid_trh(d, n) ==
  fbu_is_valid_dbh(d) /\ n \in Trhs /\ slot[d][n].st = "alive"

\* A method of o gets past get_db_ptr and get_transaction.
Reaches(o) == obj[o].st = "live" /\ fbu_is_valid_trh(obj[o].dbh, obj[o].trh)

Slot(o) == slot[obj[o].dbh][obj[o].trh]
Tra(o)  == Slot(o).tra

\* The client library accepts a call on the transaction of o.
Usable(o) ==
  /\ Reaches(o)
  /\ db[obj[o].dbh] = "open"
  /\ Tra(o) # 0
  /\ srv[Tra(o)] \in Unresolved

\* t is the number the server gives to the next transaction.
Fresh(t) == srv[t] = "none" /\ \A u \in Tids : u < t => srv[u] # "none"

Held(d)       == {slot[d][n].tra : n \in Trhs} \ {0}
ActiveIn(d)   == {t \in Held(d) : srv[t] = "active"}
PreparedIn(d) == {t \in Held(d) : srv[t] = "prepared"}

-----------------------------------------------------------------------------
(* Databases.                                                              *)

\* Database::connect, create, execute_create.  A refused attach throws, and
\* the object being returned is destroyed, which resets the new slot.
Connect(d) ==
  /\ db[d] = "none" /\ \A e \in Dbhs : e < d => db[e] # "none"
  /\ \E st \in {"open", "gone"} : db' = [db EXCEPT ![d] = st]
  /\ UNCHANGED <<size, slot, obj, srv>>

\* The slots of the Databases in D after they are destroyed: tr_list is gone.
ClearLists(D) ==
  /\ size' = [d \in Dbhs |-> IF d \in D THEN 0 ELSE size[d]]
  /\ slot' = [d \in Dbhs |-> IF d \in D THEN NoSlots ELSE slot[d]]

\* What the server is left with when the Databases in D end.  Transactions
\* still active are rolled back; prepared ones stay in limbo, except in the
\* Databases of R, where they are rolled back too.
EndAttachments(D, R) ==
  srv' = [t \in Tids |->
            IF \/ \E d \in D : t \in ActiveIn(d)
               \/ \E d \in R : t \in PreparedIn(d)
            THEN "rolledback" ELSE srv[t]]

\* ~Database detaches and then destroys tr_list, and every ~Transaction rolls
\* back.  After a detach the handles are dead and those calls fail.  A detach
\* refused because of an active transaction may leave the handles usable.
Undetachable(D) == {d \in D : db[d] = "open" /\ ActiveIn(d) # {}}

Destructors(D) ==
  /\ \E R \in SUBSET Undetachable(D) : EndAttachments(D, R)
  /\ ClearLists(D)

\* Database::disconnect.  The server may refuse while a transaction is
\* active, and a broken connection may too: then nothing changes.
Disconnect(d) ==
  /\ fbu_is_valid_dbh(d)
  /\ EndAttachments({d}, {})
  /\ ClearLists({d})
  /\ db' = [db EXCEPT ![d] = "gone"]
  /\ UNCHANGED obj

\* Database::drop.  The server refuses while another attachment is open.
Drop(d) ==
  /\ fbu_is_valid_dbh(d) /\ db[d] = "open"
  /\ \A e \in Dbhs \ {d} : db[e] # "open"
  /\ srv' = [t \in Tids |->
               IF srv[t] \in Unresolved THEN "destroyed" ELSE srv[t]]
  /\ ClearLists({d})
  /\ db' = [db EXCEPT ![d] = "gone"]
  /\ UNCHANGED obj

\* Mutant: the whole db_list is cleared, not one slot of it reset.
FreeDatabaseAll(d) ==
  /\ fbu_is_valid_dbh(d)
  /\ Destructors({e \in Dbhs : fbu_is_valid_dbh(e)})
  /\ db' = [db EXCEPT ![d] = "gone"]
  /\ obj' = [o \in Objs |-> IF obj[o].dbh = d /\ obj[o].st = "live"
                            THEN [obj[o] EXCEPT !.st = "freed"] ELSE obj[o]]

\* free_obj of a PHP Database.  A Transaction object holds a reference to its
\* Database, so those left can only be garbage of the same cycle: the
\* collector frees them after it, when their handles are no longer valid.
FreeDatabase(d) ==
  /\ fbu_is_valid_dbh(d)
  /\ Destructors({d})
  /\ db' = [db EXCEPT ![d] = "gone"]
  /\ obj' = [o \in Objs |-> IF obj[o].dbh = d /\ obj[o].st = "live"
                            THEN [obj[o] EXCEPT !.st = "freed"] ELSE obj[o]]

\* The network connection of d drops: the server rolls back what is active.
LoseConnection(d) ==
  /\ db[d] = "open"
  /\ db' = [db EXCEPT ![d] = "broken"]
  /\ EndAttachments({d}, {})
  /\ UNCHANGED <<size, slot, obj>>

-----------------------------------------------------------------------------
(* Transaction objects.                                                    *)

\* emplace_back the slots of the sequence new to tr_list of d.
AppendSlots(d, new) ==
  /\ size[d] + Len(new) <= MaxTr
  /\ size' = [size EXCEPT ![d] = @ + Len(new)]
  /\ slot' = [slot EXCEPT ![d] =
       [n \in Trhs |-> IF n > size[d] /\ n <= size[d] + Len(new)
                       THEN new[n - size[d]] ELSE slot[d][n]]]

\* Change the slot that o leads to.
PutSlot(o, s) == slot' = [slot EXCEPT ![obj[o].dbh][obj[o].trh] = s]

Born(o, d, trh, info) ==
  obj' = [obj EXCEPT ![o] = [st |-> "live", dbh |-> d, trh |-> trh,
                             info |-> info, is_prepared_2pc |-> FALSE]]

\* Mutant: the handle is taken before the slot is appended.
NewTransactionEarly(d, o) ==
  /\ obj[o].st = "none" /\ fbu_is_valid_dbh(d)
  /\ AppendSlots(d, <<NewSlot>>)
  /\ Born(o, d, size[d], size[d] + 1)
  /\ UNCHANGED <<db, srv>>

\* Database::new_transaction and Transaction::__construct.
NewTransaction(d, o) ==
  /\ obj[o].st = "none" /\ fbu_is_valid_dbh(d)
  /\ AppendSlots(d, <<NewSlot>>)
  /\ Born(o, d, size[d] + 1, size[d] + 1)
  /\ UNCHANGED <<db, srv>>

\* Mutant: no check that the object is idle.
StartAgain(o, t) ==
  /\ Reaches(o)
  /\ db[obj[o].dbh] = "open" /\ Fresh(t)
  /\ srv' = [srv EXCEPT ![t] = "active"]
  /\ PutSlot(o, StartedSlot(t))
  /\ UNCHANGED <<db, size, obj>>

\* Transaction::start: query_info reads the number of the new transaction.  When
\* that fails start() throws, but the transaction runs; id is what it was before.
Start(o, t) ==
  /\ Reaches(o) /\ Tra(o) = 0
  /\ db[obj[o].dbh] = "open" /\ Fresh(t)
  /\ srv' = [srv EXCEPT ![t] = "active"]
  /\ \E s \in {StartedSlot(t), [Slot(o) EXCEPT !.tra = t]} : PutSlot(o, s)
  /\ UNCHANGED <<db, size, obj>>

\* Database::start_transaction: construct and start.  When the start fails, or
\* query_info behind it, the object is destroyed, which rolls back what was
\* started and leaves a freed slot behind.
StartTransaction(d, o, t) ==
  /\ obj[o].st = "none" /\ fbu_is_valid_dbh(d)
  /\ \/ /\ db[d] = "open" /\ Fresh(t)
        /\ AppendSlots(d, <<StartedSlot(t)>>)
        /\ Born(o, d, size[d] + 1, size[d] + 1)
        /\ srv' = [srv EXCEPT ![t] = "active"]
     \/ /\ AppendSlots(d, <<FreedSlot>>)
        /\ UNCHANGED obj
        /\ \/ UNCHANGED srv
           \/ /\ db[d] = "open" /\ Fresh(t)
              /\ srv' = [srv EXCEPT ![t] = "rolledback"]
  /\ UNCHANGED db

\* Database::reconnect_transaction.  __construct appends one slot, then
\* transaction_reconnect a second one; trh moves on to the second while info
\* keeps pointing into the first.  A refusal destroys the object; one of
\* query_info forgets the C++ Transaction, and its transaction stays in limbo.
ReconnectTransaction(d, o, t) ==
  /\ obj[o].st = "none" /\ fbu_is_valid_dbh(d)
  /\ \/ /\ db[d] = "open" /\ srv[t] = "prepared"
        /\ AppendSlots(d, <<NewSlot, StartedSlot(t)>>)
        /\ Born(o, d, size[d] + 2, size[d] + 1)
     \/ /\ AppendSlots(d, <<FreedSlot>>)
        /\ UNCHANGED obj
  /\ UNCHANGED <<db, srv>>

\* Mutants: the handle is dropped without freeing the slot; the two-phase
\* flag is not looked at; the destructor commits.
FreeTransactionForgets(o) ==
  /\ obj[o].st = "live"
  /\ obj' = [obj EXCEPT ![o].st = "freed"]
  /\ UNCHANGED <<db, size, slot, srv>>

FreeTransactionAlways(o) ==
  /\ obj[o].st = "live"
  /\ obj' = [obj EXCEPT ![o].st = "freed"]
  /\ IF Reaches(o)
     THEN /\ PutSlot(o, FreedSlot)
          /\ srv' = IF Usable(o) THEN [srv EXCEPT ![Tra(o)] = "rolledback"]
                                 ELSE srv
     ELSE UNCHANGED <<slot, srv>>
  /\ UNCHANGED <<db, size>>

FreeTransactionCommits(o) ==
  /\ obj[o].st = "live"
  /\ obj' = [obj EXCEPT ![o].st = "freed"]
  /\ IF Reaches(o) /\ ~obj[o].is_prepared_2pc
     THEN /\ PutSlot(o, FreedSlot)
          /\ srv' = IF Usable(o) THEN [srv EXCEPT ![Tra(o)] = "committed"]
                                 ELSE srv
     ELSE UNCHANGED <<slot, srv>>
  /\ UNCHANGED <<db, size>>

\* free_obj of a PHP Transaction: without the two-phase flag ~Transaction
\* rolls back what it holds and swallows the error if that fails.
FreeTransaction(o) ==
  /\ obj[o].st = "live"
  /\ obj' = [obj EXCEPT ![o].st = "freed"]
  /\ IF Reaches(o) /\ ~obj[o].is_prepared_2pc
     THEN /\ PutSlot(o, FreedSlot)
          /\ srv' = IF Usable(o) THEN [srv EXCEPT ![Tra(o)] = "rolledback"]
                                 ELSE srv
     ELSE UNCHANGED <<slot, srv>>
  /\ UNCHANGED <<db, size>>

-----------------------------------------------------------------------------
(* Ending and preparing a transaction.                                     *)

SetTra(o, t) == PutSlot(o, [Slot(o) EXCEPT !.tra = t])

\* Transaction::commit and rollback: tra becomes null only after the server
\* has agreed; info.id is left as it was.
End(o, outcome) ==
  /\ Usable(o)
  /\ srv' = [srv EXCEPT ![Tra(o)] = outcome]
  /\ SetTra(o, 0)
  /\ UNCHANGED <<db, size, obj>>

\* Transaction::commit_ret and rollback_ret: the server ends the transaction
\* and goes on under the next number.  The same pointer now stands for that
\* one, and nothing refreshes info.id.
EndRetaining(o, outcome, t) ==
  /\ Usable(o) /\ Fresh(t)
  /\ srv' = [srv EXCEPT ![Tra(o)] = outcome, ![t] = "active"]
  /\ SetTra(o, t)
  /\ UNCHANGED <<db, size, obj>>

\* Transaction::finalize.
Finalize(o) ==
  \E outcome \in {"committed", "rolledback"} :
    End(o, outcome) \/ \E t \in Tids : EndRetaining(o, outcome, t)

\* COMMIT and ROLLBACK as SQL: the library hands back null, so the pointer
\* has changed, and query_info sets id to 0.
EndSql(o, outcome) ==
  /\ Usable(o)
  /\ srv' = [srv EXCEPT ![Tra(o)] = outcome]
  /\ PutSlot(o, NewSlot)
  /\ UNCHANGED <<db, size, obj>>

\* The transaction statements of SQL, through Transaction::execute or
\* execute_statement.  SET TRANSACTION starts one in an idle object.  With
\* RETAIN the pointer handed back is the same, and id is not refreshed.
ExecuteSql(o) ==
  \/ \E t \in Tids : Start(o, t)
  \/ \E outcome \in {"committed", "rolledback"} :
       EndSql(o, outcome) \/ \E t \in Tids : EndRetaining(o, outcome, t)

\* Mutant: the flag is not raised.
Prepare2pcUnmarked(o) ==
  /\ Usable(o)
  /\ srv' = [srv EXCEPT ![Tra(o)] = "prepared"]
  /\ UNCHANGED <<db, size, slot, obj>>

\* Transaction::prepare_2pc.  The server also accepts a transaction that is
\* in limbo already.  The flag goes up and no code takes it down again.
Prepare2pc(o) ==
  /\ Usable(o)
  /\ srv' = [srv EXCEPT ![Tra(o)] = "prepared"]
  /\ obj' = [obj EXCEPT ![o].is_prepared_2pc = TRUE]
  /\ UNCHANGED <<db, size, slot>>

-----------------------------------------------------------------------------
(* The request as a whole, and the world outside.                          *)

NewRequest ==
  /\ db' = [d \in Dbhs |-> "none"]
  /\ size' = [d \in Dbhs |-> 0]
  /\ slot' = [d \in Dbhs |-> NoSlots]
  /\ obj' = [o \in Objs |-> NoObj]

\* Mutant: db_list outlives the request, and nothing leads to it any more.
ShutdownLeaks == NewRequest /\ UNCHANGED srv

\* RSHUTDOWN clears db_list, which destroys every Database.  Objects that are
\* still there are freed afterwards, when no handle is valid any more.
Shutdown ==
  /\ \E R \in SUBSET Undetachable(Dbhs) : EndAttachments(Dbhs, R)
  /\ NewRequest

\* The process dies without running a destructor and the server notices.
Crash ==
  /\ EndAttachments(Dbhs, {})
  /\ NewRequest

\* prepare_2pc of a transaction that was never started, or is finished:
\* Transaction::prepare does not check tra and dereferences null.
PrepareNull(o) ==
  /\ Reaches(o) /\ Tra(o) = 0
  /\ Crash

\* Another process, or an administrator, resolves a transaction in limbo.
ResolveElsewhere(t) ==
  /\ srv[t] = "prepared"
  /\ \E outcome \in {"committed", "rolledback"} :
       srv' = [srv EXCEPT ![t] = outcome]
  /\ UNCHANGED <<db, size, slot, obj>>

Next ==
  \/ \E d \in Dbhs : \/ Connect(d) \/ Disconnect(d) \/ Drop(d)
                      \/ FreeDatabase(d) \/ LoseConnection(d)
  \/ \E d \in Dbhs, o \in Objs : NewTransaction(d, o)
  \/ \E d \in Dbhs, o \in Objs, t \in Tids :
       StartTransaction(d, o, t) \/ ReconnectTransaction(d, o, t)
  \/ \E o \in Objs, t \in Tids : Start(o, t)
  \/ \E o \in Objs : \/ FreeTransaction(o) \/ Finalize(o) \/ ExecuteSql(o)
                      \/ Prepare2pc(o) \/ PrepareNull(o)
  \/ \E t \in Tids : ResolveElsewhere(t)
  \/ Shutdown \/ Crash

Spec == Init /\ [][Next]_vars

\* A request ends: PHP stops it at the latest when its time limit is reached,
\* and every module's RSHUTDOWN runs.
FairSpec == Spec /\ WF_vars(Shutdown)

-----------------------------------------------------------------------------
(* Properties.                                                             *)

\* The handle table gives every object a slot of its own: two live objects
\* never lead to the same C++ Transaction, so that freeing, committing or
\* rolling back one cannot end the transaction of the other.
HandlesExclusive ==
  \A o, p \in Objs :
    Reaches(o) /\ Reaches(p) /\ obj[o].dbh = obj[p].dbh
               /\ obj[o].trh = obj[p].trh => o = p

\* A transaction that is active on the server is never lost sight of: an open
\* attachment has a slot whose tra designates it, so that some method or
\* destructor will end it.
ActiveHeld ==
  \A t \in Tids : srv[t] = "active" =>
    \E d \in Dbhs : db[d] = "open" /\ t \in Held(d)

\* Nothing but the two-phase flag lets a running transaction outlive its PHP
\* object: the slot that holds it belongs to a live object, or to one that
\* was freed with is_prepared_2pc set.
ActiveOwned ==
  \A d \in Dbhs, n \in Trhs :
    slot[d][n].tra \in Tids /\ srv[slot[d][n].tra] = "active" =>
      \E o \in Objs : /\ obj[o].dbh = d /\ obj[o].trh = n
                      /\ obj[o].st = "live" \/ obj[o].is_prepared_2pc

\* The id an application reads from an object and passes on to
\* reconnect_transaction is never the number of somebody else's unresolved
\* transaction: it is the object's own, or 0, or finished.
IdNeverMisleads ==
  \A o \in Objs : Reaches(o) =>
    LET id == slot[obj[o].dbh][obj[o].info].id
    IN  id \in Tids /\ srv[id] \in Unresolved => Tra(o) = id

\* The parts that make those inductive.  The tables: slots past size are
\* unused, only an alive slot holds anything, and what it holds has a past.
TablesKept ==
  /\ \A d \in Dbhs : db[d] \in {"none", "gone"} => size[d] = 0
  /\ \A d \in Dbhs, n \in Trhs :
       /\ n > size[d] => slot[d][n] = UnusedSlot
       /\ slot[d][n].st # "alive" => slot[d][n].tra = 0 /\ slot[d][n].id = 0
       /\ slot[d][n].tra \in Tids => srv[slot[d][n].tra] # "none"
       /\ slot[d][n].id \in Tids => srv[slot[d][n].id] # "none"

\* The objects: a handle was handed out by a Database that exists or did.
HandlesIssued ==
  \A o \in Objs :
    /\ obj[o].st = "none" => ~obj[o].is_prepared_2pc
    /\ obj[o].st # "none" =>
         /\ obj[o].dbh \in Dbhs /\ obj[o].trh \in Trhs /\ obj[o].info \in Trhs
         /\ db[obj[o].dbh] # "none"
         /\ db[obj[o].dbh] # "gone" => /\ obj[o].trh <= size[obj[o].dbh]
                                       /\ obj[o].info <= size[obj[o].dbh]

\* Info points into the object's own slot or, after a reconnect, into a slot
\* that no handle leads to.
InfoPrivate ==
  \A o \in Objs : Reaches(o) /\ obj[o].info # obj[o].trh =>
    /\ slot[obj[o].dbh][obj[o].info] = NewSlot
    /\ \A p \in Objs : obj[p].st # "none" /\ obj[p].dbh = obj[o].dbh
                         => obj[p].trh # obj[o].info

\* A running transaction is in one slot only.
ActiveUnique ==
  \A d, e \in Dbhs, n, m \in Trhs :
    /\ slot[d][n].tra \in Tids /\ srv[slot[d][n].tra] = "active"
    /\ slot[d][n].tra = slot[e][m].tra
    => d = e /\ n = m

\* The number kept in a slot is that of its own transaction or of none that
\* is unresolved.
SlotIds ==
  \A d \in Dbhs, n \in Trhs :
    slot[d][n].id \in Tids /\ srv[slot[d][n].id] \in Unresolved
      => slot[d][n].tra = slot[d][n].id

\* Limbo entered through an object is marked on it.
PreparedMarked ==
  \A o \in Objs :
    /\ Reaches(o) /\ obj[o].info = obj[o].trh
    /\ Tra(o) # 0 /\ srv[Tra(o)] = "prepared"
    => obj[o].is_prepared_2pc

\* The inductive invariant: the safety invariants above and what they rest on.
IndInv ==
  /\ TypeOK
  /\ TablesKept
  /\ HandlesIssued
  /\ InfoPrivate
  /\ HandlesExclusive
  /\ ActiveUnique
  /\ ActiveHeld
  /\ ActiveOwned
  /\ SlotIds
  /\ PreparedMarked

\* A transaction in limbo leaves it only (1) by a call on a live object that
\* holds it, (2) when a reconnected object that holds it is freed without
\* having prepared it, (3) when its Database is destroyed while a sibling is
\* still active, (4) with the database itself, or (5) outside this process,
\* when no step of the process is taken.
LimboStep(t) ==
  \/ \E o \in Objs : Usable(o) /\ Tra(o) = t /\ obj'[o].st = "live"
  \/ \E o \in Objs : /\ Usable(o) /\ Tra(o) = t /\ obj'[o].st = "freed"
                     /\ obj[o].trh # obj[o].info /\ ~obj[o].is_prepared_2pc
  \/ \E d \in Dbhs : t \in Held(d) /\ ActiveIn(d) # {} /\ db'[d] # "open"
  \/ srv'[t] = "destroyed"
  \/ UNCHANGED <<db, size, slot, obj>>

LimboDurable ==
  [][\A t \in Tids : srv[t] = "prepared" /\ srv'[t] # "prepared"
                     => LimboStep(t)]_vars

\* Nothing commits by itself: no destructor, disconnect, lost connection,
\* request end or crash makes the work of a transaction permanent.  Only a
\* call on a live object that holds it does, or a process elsewhere.
CommitOnlyByCall ==
  [][\A t \in Tids : srv[t] # "committed" /\ srv'[t] = "committed" =>
       \/ \E o \in Objs : /\ Usable(o) /\ Tra(o) = t
                          /\ obj'[o].st = "live" /\ Tra(o)' # t
       \/ srv[t] = "prepared" /\ UNCHANGED <<db, size, slot, obj>>]_vars

\* No transaction is left running: an active one is ended when the request
\* is, at the latest, even one that its PHP object has abandoned.
ActiveEnds ==
  \A t \in Tids : srv[t] = "active" ~> srv[t] # "active"

\* Transaction objects behave as private cells: see TransactionCells.
cellOf(o) ==
  IF obj[o].st # "live" THEN [at |-> obj[o].st, tra |-> 0]
  ELSE IF Reaches(o) THEN [at |-> "open", tra |-> Tra(o)]
  ELSE [at |-> "closed", tra |-> 0]

Cells == INSTANCE TransactionCells WITH cell <- [o \in Objs |-> cellOf(o)]

\* Handles, slots and attachments implement private cells.
ImplementsCells == Cells!Spec
=============================================================================
