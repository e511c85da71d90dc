------------------------------ MODULE Lifetimes ------------------------------
(***************************************************************************)
(* Who keeps what alive.                                                   *)
(*                                                                         *)
(* A Database, Transaction, Statement or Blob of a script is a PHP object  *)
(* (database.cpp, transaction.cpp, statement.cpp, blob.cpp) that names a   *)
(* C++ object by number: dbh is a place in FBG(db_list), trh, sth or blh a *)
(* place in that Database's tr_list, st_list or bl_list.  A place is never *)
(* given out twice: freeing resets the unique_ptr and leaves it empty.     *)
(* The three lower kinds also hold info, a bare pointer into their C++     *)
(* object that no call checks.  What keeps the C++ object of a parent      *)
(* while a child may use it is the PHP reference count alone: a child's    *)
(* "database" or "transaction" property refers to its parent.              *)
(*                                                                         *)
(* The module covers the constructors, free_obj handlers and explicit ends *)
(* (disconnect, drop, free), the cycle collector, which may free a parent  *)
(* before its children, and the end of the request, whose RSHUTDOWN clears *)
(* db_list while PHP objects are alive.  Calls that only use a handle      *)
(* change nothing here: Answer and Reads say what they would meet.         *)
(*                                                                         *)
(* Left out: clone, objects resurrected by a __destruct, and fatal errors  *)
(* other than the calls that are not implemented.                          *)
(***************************************************************************)
EXTENDS Integers, FiniteSetsExt

CONSTANTS
  Dbs, Trs, Sts, Bls,  \* the PHP objects a script may have, by class
  Nobody,              \* no parent
  MaxDb,               \* bound: entries of db_list in one request
  MaxSlot,             \* bound: entries of each list of one Database
  MaxMade              \* bound: entries of all those lists together

Kids == Trs \union Sts \union Bls
Objs == Dbs \union Kids

ASSUME Disjoint ==
  /\ Dbs \cap Kids = {} /\ Trs \cap Sts = {} /\ Trs \cap Bls = {} /\ Sts \cap Bls = {}
  /\ Nobody \notin Objs
ASSUME Bounds == MaxDb \in Nat \ {0} /\ MaxSlot \in Nat \ {0} /\ MaxMade \in Nat

VARIABLES
  phase,   \* "script" until RSHUTDOWN, then "ending"
  php,     \* the PHP objects
  doomed,  \* those that only the collector or the end of the request will free
  dbs,     \* FBG(db_list): the places that hold a C++ Database
  cpp,     \* the C++ objects in the lists of those Databases
  dbs_made, made,  \* the lengths of db_list and of the lists: places given out
  ended,   \* history: places of db_list emptied by a disconnect or a drop
  left     \* history: C++ objects whose PHP object let go of them unfreed

vars == <<phase, php, doomed, dbs, cpp, dbs_made, made, ended, left>>

Lists == {"tr", "st", "bl"}
DbPlaces == 1 .. MaxDb

Kind(o) == IF o \in Trs THEN "tr" ELSE IF o \in Sts THEN "st" ELSE "bl"

\* Parents a constructor accepts: a Transaction's is a Database, a Statement's
\* and a Blob's is a Transaction.
ParentOf(o) == IF o \in Trs THEN Dbs ELSE Trs

\* A C++ object: its list, its Database, its place, and for a Statement or a
\* Blob the place of the C++ Transaction it refers to (Transaction &tra).
Cpp == [list : Lists, db : DbPlaces, at : 1 .. MaxSlot, tra : 0 .. MaxSlot]
Name(k, d, n) == [list |-> k, db |-> d, at |-> n]
NameOf(c) == Name(c.list, c.db, c.at)
Held == {NameOf(c) : c \in cpp}

\* zend_object_alloc zeroes the struct around the object: before __construct
\* has run, and for ever when it fails, every handle is 0 and info is null.
Zeroed == [live |-> FALSE, parent |-> Nobody, dbh |-> 0, h |-> 0, info |-> 0,
           prepared |-> FALSE, adrift |-> FALSE]
Php == [live : BOOLEAN, parent : Dbs \union Trs \union {Nobody}, dbh : 0 .. MaxDb,
        h : 0 .. MaxSlot, info : 0 .. MaxSlot, prepared : BOOLEAN, adrift : BOOLEAN]

Live == {o \in Objs : php[o].live}

------------------------------------------------------------------------------
(* What a handle or a pointer leads to.                                     *)

\* get_db(dbh) finds an object rather than throws.
ValidDb(d) == d \in dbs

\* get_db(dbh)->get_transaction(trh), get_statement(sth), get_blob(blh).
Valid(o) == /\ ValidDb(php[o].dbh)
            /\ Name(Kind(o), php[o].dbh, php[o].h) \in Held

\* A method that goes through the handle: fbu_* throws unless it is valid.
Answer(o) == IF o \in Dbs THEN IF ValidDb(php[o].dbh) THEN "served" ELSE "exception"
             ELSE IF Valid(o) THEN "served" ELSE "exception"

\* A property or method that goes through info without looking at the handle.
Reads(o) == IF php[o].info = 0 THEN "null"
            ELSE IF Name(Kind(o), php[o].dbh, php[o].info) \in Held THEN "own"
            ELSE "freed"

\* free_obj of a Blob frees without asking; the other kinds ask first.
FreeRaises(o) == o \in Bls /\ ~Valid(o)

------------------------------------------------------------------------------
(* Making objects.                                                          *)

Init == /\ phase = "script"
        /\ php = [o \in Objs |-> Zeroed]
        /\ doomed = {} /\ dbs = {} /\ cpp = {} /\ ended = {} /\ left = {}
        /\ dbs_made = 0
        /\ made = [k \in Lists |-> [d \in DbPlaces |-> 0]]

\* No code of the script runs while the collector frees its garbage, nor after
\* RSHUTDOWN.
Running == phase = "script" /\ doomed = {}

\* Database::connect, create and execute_create: the place is taken first, and
\* a refused connection throws, so that the new object is freed at once and its
\* free_obj empties the place again.
Connect(d) ==
  /\ Running /\ ~php[d].live /\ dbs_made < MaxDb
  /\ dbs_made' = dbs_made + 1
  /\ \/ /\ php' = [php EXCEPT ![d] = [Zeroed EXCEPT !.live = TRUE, !.dbh = dbs_made + 1]]
        /\ dbs' = dbs \union {dbs_made + 1}
     \/ UNCHANGED <<php, dbs>>
  /\ UNCHANGED <<phase, doomed, cpp, made, ended, left>>

\* Mutants: the size is read before emplace_back has grown the list, and put
\* right for the empty list only; the first empty place is used again.
SizeBeforeOrOne(k, d) == IF made[k][d] = 0 THEN 1 ELSE made[k][d]
FirstEmpty(k, d) ==
  CHOOSE n \in 1 .. MaxSlot + 1 :
    /\ Name(k, d, n) \notin Held
    /\ \A m \in 1 .. n - 1 : Name(k, d, m) \in Held

\* emplace_back on a list of Database d; the handle is the new size.
NewPlace(k, d) == made[k][d] + 1
Room(n) ==
  MapThenSumSet(LAMBDA kd : made[kd[1]][kd[2]], Lists \X DbPlaces) + n <= MaxMade
Push(k, d, tra) ==
  /\ NewPlace(k, d) <= MaxSlot /\ Room(1)
  /\ made' = [made EXCEPT ![k][d] = @ + 1]
  /\ cpp' = cpp \union {[list |-> k, db |-> d, at |-> NewPlace(k, d), tra |-> tra]}

\* The object of which o held the handle stays in its list, and nothing will
\* free it before its Database goes.
LetGo(o) == left \union (IF Valid(o) THEN {Name(Kind(o), php[o].dbh, php[o].h)} ELSE {})

\* Mutants: a constructor forgets the property, or sets it to the Database.
ParentForgotten(o, p) == Nobody
ParentIsDatabase(o, p) == IF p \in Trs THEN php[p].parent ELSE p

\* The readonly parent property is written once: a second write throws and
\* leaves it, and the constructor goes on.
ParentAfter(o, p) == IF php[o].live /\ php[o].parent # Nobody THEN php[o].parent ELSE p

\* What the constructor leaves in o: the parent's dbh and the new place.  The
\* object is adrift (history) once a second __construct with another parent has
\* given it handles of an object that it does not keep.
Built(o, p, h, info) ==
  [live |-> TRUE, parent |-> ParentAfter(o, p), dbh |-> php[p].dbh, h |-> h, info |-> info,
   prepared |-> php[o].live /\ php[o].prepared,
   adrift |-> php[o].parent \notin {Nobody, p} \/ php[p].adrift]

\* A constructor can run on a new object and, as __construct of Transaction and
\* of Blob is public, on a live one a second time.
MayConstruct(o, p) ==
  /\ Running /\ p \in ParentOf(o) /\ php[p].live
  /\ php[o].live => o \in Trs \union Bls

\* FireBird_Transaction___construct.
ConstructTransaction(o, p) ==
  /\ MayConstruct(o, p) /\ ValidDb(php[p].dbh)
  /\ Push("tr", php[p].dbh, 0)
  /\ php' = [php EXCEPT ![o] = Built(o, p, NewPlace("tr", php[p].dbh), NewPlace("tr", php[p].dbh))]
  /\ left' = LetGo(o)
  /\ UNCHANGED <<phase, doomed, dbs, dbs_made, ended>>

\* FireBird_Statement___construct and FireBird_Blob___construct.
ConstructOn(o, p) ==
  /\ MayConstruct(o, p) /\ Valid(p)
  /\ Push(Kind(o), php[p].dbh, php[p].h)
  /\ php' = [php EXCEPT ![o] = Built(o, p, NewPlace(Kind(o), php[p].dbh), NewPlace(Kind(o), php[p].dbh))]
  /\ left' = LetGo(o)
  /\ UNCHANGED <<phase, doomed, dbs, dbs_made, ended>>

ConstructStatement(o, p) == ConstructOn(o, p)
ConstructBlob(o, p) == ConstructOn(o, p)

\* The constructor throws because the parent's handle leads nowhere.  Nothing of
\* the struct is written, but a Transaction has written its property by then.
\* A new object lives on if a subclass caught the exception.
ConstructFails(o, p) ==
  /\ MayConstruct(o, p) /\ Answer(p) = "exception"
  /\ php' = [php EXCEPT ![o].live = TRUE,
                        ![o].parent = IF o \in Trs THEN ParentAfter(o, p) ELSE @]
  /\ UNCHANGED <<phase, doomed, dbs, cpp, dbs_made, made, ended, left>>

\* Mutant: reconnect_transaction frees the first of its two C++ objects and
\* leaves info as it is.
ReconnectFreesFirst(o, p) ==
  /\ MayConstruct(o, p) /\ ~php[o].live /\ o \in Trs /\ ValidDb(php[p].dbh)
  /\ LET d == php[p].dbh  n == NewPlace("tr", d) IN
       /\ n + 1 <= MaxSlot /\ Room(2)
       /\ made' = [made EXCEPT !["tr"][d] = n + 1]
       /\ cpp' = cpp \union {[list |-> "tr", db |-> d, at |-> n + 1, tra |-> 0]}
       /\ php' = [php EXCEPT ![o] = Built(o, p, n + 1, n)]
  /\ UNCHANGED <<phase, doomed, dbs, dbs_made, ended, left>>

\* Database::reconnect_transaction constructs a Transaction as usual and then
\* overwrites its handle, not its info, with that of a second one.
Reconnect(o, p) ==
  /\ MayConstruct(o, p) /\ ~php[o].live /\ o \in Trs /\ ValidDb(php[p].dbh)
  /\ LET d == php[p].dbh  n == NewPlace("tr", d) IN
       /\ n + 1 <= MaxSlot /\ Room(2)
       /\ made' = [made EXCEPT !["tr"][d] = n + 1]
       /\ cpp' = cpp \union {[list |-> "tr", db |-> d, at |-> m, tra |-> 0] : m \in {n, n + 1}}
       /\ php' = [php EXCEPT ![o] = Built(o, p, n + 1, n)]
       /\ left' = left \union {Name("tr", d, n)}
  /\ UNCHANGED <<phase, doomed, dbs, dbs_made, ended>>

\* Transaction::prepare_2pc: from now on free_obj leaves the C++ object alone.
Prepare2pc(o) ==
  /\ Running /\ o \in Trs /\ php[o].live /\ Valid(o)
  /\ php' = [php EXCEPT ![o].prepared = TRUE]
  /\ UNCHANGED <<phase, doomed, dbs, cpp, dbs_made, made, ended, left>>

------------------------------------------------------------------------------
(* Ending objects.                                                          *)

\* Resetting a Database's place: ~Database detaches and its lists go with it.
Gone(d) == {c \in cpp : c.db = d}

\* Database::disconnect and drop, when the server agrees (an exception changes
\* nothing): the place is emptied and this object's dbh is 0 from now on.
Disconnect(d) ==
  /\ Running /\ php[d].live /\ ValidDb(php[d].dbh)
  /\ dbs' = dbs \ {php[d].dbh}
  /\ cpp' = cpp \ Gone(php[d].dbh)
  /\ ended' = ended \union {php[d].dbh}
  /\ php' = [php EXCEPT ![d].dbh = 0]
  /\ UNCHANGED <<phase, doomed, dbs_made, made, left>>

\* Statement::free.
FreeStatement(o) ==
  /\ Running /\ o \in Sts /\ php[o].live /\ Valid(o)
  /\ cpp' = {c \in cpp : NameOf(c) # Name("st", php[o].dbh, php[o].h)}
  /\ php' = [php EXCEPT ![o].h = 0]
  /\ UNCHANGED <<phase, doomed, dbs, dbs_made, made, ended, left>>

\* The free_obj handlers, each run once when the object is destroyed.
FreeDatabase(o) ==
  /\ dbs' = dbs \ {php[o].dbh}
  /\ cpp' = cpp \ Gone(php[o].dbh)
  /\ UNCHANGED left

FreeTransaction(o) ==
  /\ cpp' = IF php[o].prepared THEN cpp
            ELSE {c \in cpp : NameOf(c) # Name("tr", php[o].dbh, php[o].h)}
  /\ left' = IF php[o].prepared THEN LetGo(o) ELSE left
  /\ UNCHANGED dbs

\* Mutant: a Statement's free_obj leaves its place as it is.
StatementObjForgets(o) == UNCHANGED <<dbs, left, cpp>>

FreeStatementObj(o) ==
  /\ cpp' = {c \in cpp : NameOf(c) # Name("st", php[o].dbh, php[o].h)}
  /\ UNCHANGED <<dbs, left>>

FreeBlob(o) ==
  /\ cpp' = {c \in cpp : NameOf(c) # Name("bl", php[o].dbh, php[o].h)}
  /\ UNCHANGED <<dbs, left>>

FreeObj(o) ==
  /\ \/ o \in Dbs /\ FreeDatabase(o)
     \/ o \in Trs /\ FreeTransaction(o)
     \/ o \in Sts /\ FreeStatementObj(o)
     \/ o \in Bls /\ FreeBlob(o)
  /\ php' = [php EXCEPT ![o] = Zeroed]
  /\ doomed' = doomed \ {o}
  /\ UNCHANGED <<phase, dbs_made, made, ended>>

Children(o) == {c \in Live : php[c].parent = o}

\* The last reference goes: neither the script nor a child holds the object.
Release(o) == Running /\ php[o].live /\ Children(o) = {} /\ FreeObj(o)

\* The collector finds a group of objects that refer to one another in a cycle
\* and that the script has lost.  Nobody outside refers to a member, so the
\* group holds its members' children.
Collect(G) ==
  /\ Running /\ G # {} /\ G \subseteq Live
  /\ \A o \in G : Children(o) \subseteq G
  /\ doomed' = G
  /\ UNCHANGED <<phase, php, dbs, cpp, dbs_made, made, ended, left>>

\* The collector, and the end of the request, free in an order of their own.
FreeDoomed(o) == o \in doomed /\ FreeObj(o)

\* PHP_RSHUTDOWN_FUNCTION, reached when the script ends or a call that is not
\* implemented (on_event, set_name) ends it: db_list is cleared, and the objects
\* that are still alive are destroyed after it.
End ==
  /\ Running
  /\ phase' = "ending"
  /\ dbs' = {} /\ cpp' = {}
  /\ dbs_made' = 0
  /\ made' = [k \in Lists |-> [d \in DbPlaces |-> 0]]
  /\ ended' = {} /\ left' = {}
  /\ doomed' = Live
  /\ UNCHANGED php

\* The next request of the same process starts with empty lists.
NextRequest ==
  /\ phase = "ending" /\ Live = {}
  /\ phase' = "script"
  /\ UNCHANGED <<php, doomed, dbs, cpp, dbs_made, made, ended, left>>

Next ==
  \/ \E d \in Dbs : Connect(d) \/ Disconnect(d)
  \/ \E o \in Trs, p \in Dbs : ConstructTransaction(o, p) \/ Reconnect(o, p)
  \/ \E o \in Sts, p \in Trs : ConstructStatement(o, p)
  \/ \E o \in Bls, p \in Trs : ConstructBlob(o, p)
  \/ \E o \in Kids, p \in Dbs \union Trs : ConstructFails(o, p)
  \/ \E o \in Trs : Prepare2pc(o)
  \/ \E o \in Sts : FreeStatement(o)
  \/ \E o \in Objs : Release(o) \/ FreeDoomed(o)
  \/ \E G \in SUBSET Objs : Collect(G)
  \/ End
  \/ NextRequest

Spec == Init /\ [][Next]_vars

------------------------------------------------------------------------------
(* Properties.                                                              *)

\* Type invariant.
TypeOK ==
  /\ phase \in {"script", "ending"}
  /\ php \in [Objs -> Php]
  /\ doomed \subseteq Objs
  /\ dbs \subseteq DbPlaces
  /\ cpp \subseteq Cpp
  /\ dbs_made \in 0 .. MaxDb
  /\ made \in [Lists -> [DbPlaces -> 0 .. MaxSlot]]
  /\ ended \subseteq DbPlaces
  /\ left \subseteq [list : Lists, db : DbPlaces, at : 1 .. MaxSlot]

\* Two live objects of a class never share a handle, even one that has become
\* invalid: freeing one cannot take the C++ object of the other away.
HandlesLeadHome ==
  \A k \in Lists : \A a, b \in {o \in Kids : php[o].live /\ Kind(o) = k /\ php[o].h # 0} :
    php[a].dbh = php[b].dbh /\ php[a].h = php[b].h => a = b

\* Whoever holds a valid handle may read through info.  The reads check nothing
\* (transaction.cpp:234, blob.cpp:315, statement.cpp:274): the check that every
\* other call makes would be enough to keep them off freed memory.
CheckWouldDo == \A o \in Kids : php[o].live /\ Answer(o) = "served" => Reads(o) = "own"

\* While the script runs, the handle of an object it can reach leads nowhere
\* only because of a call it made: disconnect or drop of the Database, free of
\* the Statement, a constructor that failed, or a second one with another parent.
\* So the check that Blob's free_obj leaves out (blob.cpp:239) is missed after
\* these calls, and otherwise only by the collector and after RSHUTDOWN.
StaleNeedsCall ==
  \A o \in Kids : Running /\ php[o].live /\ (Answer(o) = "exception" \/ FreeRaises(o)) =>
    php[o].dbh \in ended \/ php[o].h = 0 \/ php[o].adrift

\* The C++ Transaction that a usable Statement or Blob refers to exists: the
\* reference it holds (Transaction &tra) is good whenever a call can reach it.
TransactionOutlives ==
  \A c \in cpp : \A o \in Sts \union Bls :
    /\ Running /\ php[o].live /\ ~php[o].adrift
    /\ NameOf(c) = Name(Kind(o), php[o].dbh, php[o].h)
    => Name("tr", c.db, c.tra) \in Held

\* Every C++ object has a live PHP object that will free it, apart from those
\* known to be left to the end of the Database: prepared transactions, the first
\* of the two a reconnect makes, and what a second __construct overwrote.
NoOrphans ==
  /\ \A d \in dbs : \E o \in Dbs : php[o].live /\ php[o].dbh = d
  /\ \A c \in cpp : NameOf(c) \notin left =>
       \E o \in Kids : php[o].live /\ NameOf(c) = Name(Kind(o), php[o].dbh, php[o].h)

\* A place that has become empty stays empty for the rest of the request, so an
\* old handle can never come to mean a younger object.
NamesStay ==
  [][phase' = phase =>
       /\ \A c \in cpp' : NameOf(c) \in Held \/ c.at > made[c.list][c.db]
       /\ \A d \in dbs' : d \in dbs \/ d > dbs_made]_vars

==============================================================================
