# A TLA+ model of firebird-php

firebird-php is a PHP extension for Firebird 3 and later. It is a thin layer,
but it keeps the same fact in several places: in the PHP object, in a table of
C++ objects behind numeric handles, in the Firebird client library, and on the
server. What can go wrong is mostly that these disagree after an unusual
sequence of calls, a failure half way, or a crash. The modules here describe
those layers and check, for every sequence of calls within small bounds, that
they agree; what must never go wrong is proved as well, without bounds.

## 1. The system

    PHP classes        database.cpp transaction.cpp statement.cpp blob.cpp
                       service.cpp tbuilder.cpp firebird_php.cpp
    C API (fbu_*)      firebird_utils.cpp: handle checks, exceptions caught
    C++ classes        fbp/database.cpp fbp/transaction.cpp fbp/statement.cpp
                       fbp/blob.cpp fbp/service.cpp
    client library     IAttachment, ITransaction, IStatement, IResultSet, IBlob
    Firebird server    transaction numbers, limbo, cursors, blobs

| component | state it keeps | operations | what makes it correct |
|---|---|---|---|
| handle tables | `FBG(db_list)`, `sv_list`; per Database `tr_list`, `st_list`, `bl_list`: vectors of `unique_ptr`, a handle is an index + 1, a freed slot stays empty | `fbu_*_init`, `fbu_*_free`, `get_*_ptr`, `fbu_is_valid_*` | a handle never leads to somebody else's object |
| Database | `att` and the three tables | connect, create, execute_create, disconnect, drop, new/start/reconnect_transaction, get_info, get_limbo_transactions, destruction | nothing is left running; prepared work survives |
| Transaction | PHP: `dbh, trh, info, is_prepared_2pc`; C++: `tra`, `info.id` | start, commit, rollback, both retaining, prepare_2pc, query, prepare, execute (also `SET TRANSACTION`, `COMMIT` as SQL), destruction | only a call commits; limbo is durable; `id` is honest |
| Statement | PHP: `is_cursor_open, is_exhausted, did_fake_fetch`; C++: `stmt`, `cursor`, `in_buffer`, `out_buffer`, aliases | prepare, execute, fetch_*, close_cursor, free, destruction | rows are those of the last execute, none lost in silence; cursors do not leak |
| Blob | C++: `blob`, `info` (id, total_length, position, is_writable) | create, open, put, get, seek, close, cancel, destruction; temporary ones for strings | position and length are those of the stream |
| numeric columns | C++: the loop of `fbu_string_to_numeric`, the value in the message buffer | bind of a string or an integer, fetch | a value reads back as it was bound, or is refused |
| column aliases | C++: `ht_aliases` | `insert_alias` for each column, free | no two columns share a key |
| TBuilder | isolation mode, flags, lock timeout | setters, `build_tpb` | every option reaches the TPB |
| Service | `svh`; `sv_list`, with a session in each entry; `User_Info` objects | connect, disconnect, get_users, add_user, modify_user, delete_user, destruction | every object has a session of its own; an account changes only in what was said |
| object lifetimes | parents, handles, `info` pointers of all four classes; the lists | constructors, free_obj, disconnect, drop, free, the collector, RSHUTDOWN | a handle leads home or nowhere; nothing is freed under a child; nothing is left over |
| responses | a buffer, the result being filled, the counters of a statement | `get_info`, `get_limbo_transactions`, `get_server_info`, `get_db_info`, `get_users`, `query_statistics`, `fbu_handle_exception` | the result says all the server said, or the script ends |

How they interact. A PHP object calls the C API with its handles; the C API
looks them up, calls the C++ object, and turns a C++ exception into a PHP one.
A PHP Transaction holds a reference to its Database, a Statement and a Blob to
their Transaction, so PHP frees children first, except in a garbage cycle.
`transaction.id`, `statement.info`, `blob.position` are read through raw
pointers into the C++ objects. At the end of the request RSHUTDOWN clears
`db_list`, which destroys everything.

What is hard here. PHP runs a request in one thread and no call is
asynchronous, so there is no interleaving inside a method: every method is
one step of the models. The difficulty is in protocol sequences (calls in an
order nobody tested), partial failure, stale copies of state, crashes and lost
connections against two-phase commit, and other clients resolving a
transaction in limbo. `PROJECT.json` lists the hazards at their lines.

## 2. The plan

1. `Transactions`, its abstract specification `TransactionCells`, and
   `TransactionsProofs`: done.
2. `Statements` and its abstract specification `StatementStreams`, and
   `StatementsProofs`: done.
3. `Blobs`, and `BlobsProofs`: done.
4. `Lifetimes`, which composes Database, Transaction, Statement and Blob with the
   references between them, and `LifetimesProofs`: done.
5. `Numerics`: done.
6. `Aliases`: done, with `ColumnsProofs` about both.
7. `TBuilder` and `TBuilderProofs`: done.
8. `Services`, its abstract specification `Sessions`, and `ServicesProofs` with
   the refinement: done.
9. `Responses`, the readers of the buffers the server fills, and
   `ResponsesProofs`: done.
10. Left: in `Statements`, the parts of the class named in section 6.

## 3. The modules

### Transactions

One PHP process, `MaxDb` Database objects, PHP Transaction objects `Objs`, and
the server's transaction numbers.

| variable | code |
|---|---|
| `db[d]` | slot d of `FBG(db_list)`: not appended, attached, attached with the connection lost, reset |
| `size[d]`, `slot[d][n]` | `tr_list` of that Database; a slot is unused, alive (with `tra` and `info.id`), or reset |
| `obj[o]` | `firebird_trans` of a PHP object: `dbh`, `trh`, the slot `info` points into, `is_prepared_2pc` |
| `srv[t]` | the server: none, active, prepared (in limbo), committed, rolledback, destroyed |

Each method is an action named after it; `EndSql` and `ExecuteSql` are the SQL
forms, in which `execute` replaces the pointer and `query_info` runs again.
`FreeTransaction`, `FreeDatabase`, `Shutdown` are the destructors. `Crash`,
`LoseConnection` and `ResolveElsewhere` are the world outside.

Assumed of the library and server, which are not in the repository:
transaction numbers are handed out in order; a detach rolls back what is active
and leaves what is prepared; it may be refused while something is active; a
retaining end finishes the number and continues under a new one; reconnect works
only on a transaction in limbo; drop fails while somebody else is attached.

Where the code is surprising the model follows it: when `query_info` fails behind
`start` or a SQL `SET TRANSACTION`, the transaction is there under the id of the one
before, and `start_transaction`, whose object is then destroyed, has started one in
vain; `reconnect_transaction` appends two slots and leaves `info` on the first (so `id` reads 0);
`is_prepared_2pc` never goes down, so a later transaction of the same object is
abandoned when the object is freed (`ActiveOwned` says exactly how far this
goes); a reconnected object that is freed without a commit rolls its transaction
in limbo back (`LimboStep`, way 2); a sibling still active can take
prepared ones along when the Database is destroyed (way 3); `prepare_2pc` on an
idle object ends the process (`PrepareNull`).

### TransactionCells

The abstract specification: every object is a private cell that holds at most
one transaction; a method changes one cell; an attachment that ends closes
several. `Vain` is the transaction started for an object that is never handed out.
`cellOf` in `Transactions` is the refinement mapping.

### Statements and StatementStreams

One transaction and its statements. `st[s]` has the flags of `firebird_stmt` and
the pointer `cursor` of the C++ Statement; `rs[c]` is a result set of the
library, which dies with its transaction. Arguments are represented by the
number of the `execute` call they came with, so "the rows of the last execute"
can be stated; a failed `bind` leaves a mixture of two calls. The fields `of`,
`args`, `at`, `given`, `lost` of a result set and `ran` of a statement only record
history. A row is converted after the cursor has moved past it, and an output after
`did_fake_fetch` was set (`src/statement.cpp:341`-`366`). Where a column cannot be
converted (the text of a blob, a time zone) the fetch raises an exception and no
later one returns that row: `FetchNext` counts it in `lost`, and `FetchOutput` spends
the only row. `StatementStreams` is what a caller may rely on: ready, streaming,
done, and the two dead ends the code has, "broken" (the transaction ended under an
open cursor) and "unsafe" (`close_cursor` in mid-stream, after which a fetch
dereferences null: `FetchNull`). Its state counts the rows used up: one by one, by a
fetch of that statement that returns the row (`Row`) or throws (`Throw`).

### Blobs

Blob objects of one transaction: `bl[b]` is the C++ Blob with its `info`,
`strm[h]` a stream of the library, `data[i]` a blob on the server. Bytes are
counted, not represented. `get` may read less than it asks for. `create` and `open`
store the pointer, and `create` the id, before `query_info`, which may throw:
`OpenedHalf` leaves the rest of `info` as it was, and the stream open; `half` records
which of the two it was. `BindString` and
`FetchText` are the temporary Blobs of `create_blob_from_string` and
`get_blob_contents`, which leak their stream when a call in the middle fails. The
server is assumed to lose, at the end of the transaction, every blob no row
refers to, and to accept in a statement only a blob that was closed.

### Numerics

A NUMERIC or DECIMAL column kept as an integer. The environment chooses the
characters of the string one after the other; `r`, `max`, `scale`, `fraction`
and `sign` are the variables of `fbu_string_to_numeric`, `r` modulo the word.
`Integer` is the branch of `bind` for a PHP integer, `Format` the branch of
`var_zval` that prints a scaled column. `exact` and `digits` record what was
given, without a width.

### TBuilder

The fields of a builder with the widths they have. `Buffer(t)` is what
`build_tpb` writes, a set of tags with their values, and `ServerMode` and
`ServerWait` are the server's reading of it, which is not in the repository.
`read` remembers the builder the last transaction was started with.

### Aliases

The table `ht_aliases` as the sequence of its keys. A name is a sequence of what
it begins with and its suffixes, so that a column named `A_01` and the second
column `A` can collide. The loop of `insert_alias` is one step: it takes the
first suffix that is not found, or never ends (`Hang`), because from `Limit`
(100) on the third digit is cut off and the search comes round to names it
has seen. `Find` is `zend_symtable_str_find_ptr`: a numeric name is looked up as
an integer and never found, and what is found is a value that was not written.
`MayMiss` says whether the build reads it. PHP's header assumes the pointer is
not null, so an optimised build does not. Names that `Numerics` has too begin with
`Alias` here (`AliasSpec`), for the module of proofs that extends both.

### Lifetimes

What the other modules take for granted: that a C++ object is there while
somebody may call it. `php[o]` is a PHP object with its handles, its parent and
its raw `info` pointer; `dbs` and `cpp` are the C++ objects in `db_list` and in the
lists below; `dbs_made` and `made` are the lengths of those lists, which only grow.
Actions are the constructors (a second call of a public one too), the
`free_obj` handlers, the explicit ends (`disconnect`, `drop`, `free`), the
collector, which takes a set of objects no script can reach and frees them in
any order (`Collect`, then one `FreeDoomed` for each), and the end of the
request, after which the rest is freed with the lists already cleared
(`End`, `NextRequest`). `ended` and `left` are history: places emptied by a call,
and C++ objects whose PHP object let go of them.

A method that only uses a handle changes nothing here. `Answer` says whether it
would be served or throw, `Reads` what a property that goes through `info`
would meet: it is not checked by the code, so after `disconnect` it reads freed
memory. `CheckWouldDo` says that the check the siblings make would be enough.

### Services and Sessions

Service objects `Svcs`, the table `sv` their handles lead into, the accounts on
the server, and one `User_Info` object. `Columns` has the one column the server
never sends back and one for all that go the same way. `disconnect` leaves the
handle, so that it goes on naming an entry that is reset; `Sessions` is the
promise that this does no harm. A request's end is `RSHUTDOWN`.

### Responses

Seven readers of buffers: database information, server information, the databases in
use, limbo, users, the record counts of a statement, and the status vectors of an
exception. `said` is what the server has to say, `sent` the items the reader finds,
`left` what is still to be read of them, with a mark at the end: whole, cut, or with
an item the reader has no case for. `said` and `sent` differ only for `get_users`,
which looks neither at `resp_len` nor at the end of its buffer
(`src/fbp/service.cpp:155`-`200`): a list cut between two items may be followed by the
end at once, and one cut inside an item makes `p += len` pass the mark, so that up to
`MaxBeyond` items of any kind are found behind it (`Found`, `Beyond`). Each reader's
case is one action on one item; what it does not know ends the script, as
`fbp_fatal` does. A few names stand for all that are read alike.

## 4. What TLC checks

| run | instance | shows |
|---|---|---|
| `transactions` | 2 databases, 2 slots each, 2 numbers, 2 objects; 0.52 M states | `IndInv` with all its parts; `HandlesExclusive`, `ActiveHeld`, `ActiveOwned`, `IdNeverMisleads`; `LimboDurable`, `CommitOnlyByCall`; `Transactions` implements `TransactionCells`; an active transaction ends (`ActiveEnds`) |
| `statements` | 2 statements, 2 result sets, 2 executes, 2 rows; 1.7 M states | `CursorsHeld`, `ExhaustedMeansRead`, `RowsOfLastExecute`; `Statements` implements `StatementStreams` |
| `statements_end` | 1 statement | the stub's "null if there are no more rows" is not what happens: `false` |
| `blobs` | 2 objects, 3 streams, 2 blobs, 2 bytes; 1.7 M states | `InfoTrue`, `PositionTrue`, `StreamsKept` |
| `blobs_assert` | 1 object | using a Blob object again breaks `assert(position <= total_length)` |
| `lifetimes` | 2 Databases, 2 Transactions, 1 Statement, 1 Blob, 2 places in `db_list`, 3 in the lists below; 0.9 M states | `HandlesLeadHome`, `CheckWouldDo`, `StaleNeedsCall`, `TransactionOutlives`, `NoOrphans`, `NamesStay` |
| `services` | 2 objects, 2 names, 2 texts, 3 entries; 0.29 M states | `HandlesPrivate`, `SessionsOwned`, `OnlyWhatWasSaid`; `Services` implements `Sessions` |
| `responses` | 2 values, up to 4 items, 1 behind a cut, `max_count` up to 3; 1.1 M states | `TypeOK`, `InfoTrue`, `LimboWhole`, `UsersWhole`, `CountsTrue`, `CodesOwn` |
| `numerics_narrow` | word of 11 bits, column to 99, 4 digits | `NarrowInRange`, `ReadsBack` |
| `numerics_fraction` | as the first, 3 characters | too many fractional digits change the value |
| `tbuilder` | short of 4 bits, int of 5; 0.3 M states | `NeverFatal`, `OptionsReach`, `SmallSnapshotReaches` |
| `aliases` | 5 names, 3 suffixes, 6 columns | `KeysDistinct`, `HangsNeedNames` |

A type invariant that TLAPS proves for every instance is not checked again by a
run, except in `Responses`, where it says that nothing uninitialised is listed.
Those left out are the ones of `Statements`, `Blobs`, `Lifetimes`, `Services`, `Numerics`, `TBuilder` and
`Aliases`. That of `Transactions` is a part of `IndInv`.

Bounds, and why they are enough. Two databases and two objects let one object
disturb another, on the same or another attachment. Two slots in a `tr_list` are
what a reconnect needs and let a slot be left behind and a second one used;
two numbers let an object prepare and go on with a second transaction (the stale
flag), or let somebody else hold one meanwhile. Two result sets let
a statement be executed again after its cursor ended, or a sibling read at the
same time; two rows are the least for "in the middle". Three streams let an
object be used again while another reads. The objects of one class are
interchangeable: nothing in the code orders them, and no property names one, so
they are symmetry sets, except in `transactions`, which checks liveness, and in
`services`. Two Databases, two Transactions and three places in `lifetimes` let an
object be constructed again under another parent, leave a C++ object behind, and be
collected before or after its parent. Four items are two users of two fields with a
cut anywhere, or one transaction more than `max_count` has room for; one item behind a
cut is enough to begin another user or to overwrite a field.
The widths of `Numerics` and `TBuilder` are small, but in the
relation of the code: a column with room for one more digit in its word or
without it, an int wider than a short. Three suffixes are enough to use all of
them up. Counters are bounded by guards (`AppendSlots`, `Fresh`, `Execute`, `NextStrm`,
`NextId`, `Put`, `Digit`, `MaxCols`, `Push`, `Connect`); a request ends and starts afresh at any moment, but numbers of
the server are used up for good, so behaviours end in states where only
requests come and go.

Deadlock is checked everywhere: the end of a request is always possible.

Fairness. Only `transactions` assumes any: weak fairness of `Shutdown`. PHP
ends a request when the script ends or its time limit is reached, and calls the
RSHUTDOWN of every module. Nothing is assumed about the script: no method is fair.

Three runs are expected to fail; they are the findings of `PROJECT.json`.

| finding | what happens |
|---|---|
| `src/statement.cpp:350` | the end of the rows is `false` where `firebird.stub.php:367` promises `null` |
| `src/fbp/blob.cpp:140` | a second use of a Blob object breaks the assertion on its position |
| `src/firebird_utils.cpp:303` | `-.01` for a column with one digit after the point is stored as -0.1; likewise `1.234` for a NUMERIC(4,2) as 12.34 |

More deviations show in the actions themselves or in one step, and have no
run of their own: a scaled INT64 column accepts a number out of range as another
one, because `r * 10` wraps before it is compared (`src/firebird_utils.cpp:300`:
in `Numerics` with a word of 8 bits and a column to 127, 300 is accepted as 44,
so that `NarrowInRange` assumes room for a digit); a PHP integer bound to a
scaled column is stored unscaled (`src/fbp/statement.cpp:235`, action `Integer`); a snapshot number beyond an int
is cut (`src/fbp/transaction.cpp:91`: `SnapshotReaches` fails, which is why the
run checks `SmallSnapshotReaches`); a column without a name is called `FIE`, and
a second one never gets a key (`src/fbp/statement.cpp:781`, `Cut` and
`EmptyName`); in a build that reads what was never written, equal column names
get equal keys (`src/fbp/statement.cpp:799`: with `MayMiss` TRUE, `KeysDistinct`
fails). In `Responses`, `get_limbo_transactions` ends the script when as many
transactions as `max_count` are in limbo, because the mark at the end of the
answer has no room, so that its `finish_with_limbo` branch is never reached; the
code of an exception is overwritten by that of a warning; a list of users that is cut
or not ready in time ends the script, or is returned as if it were whole, with
anything behind the accounts that have come; `get_users` may list an object nobody
made, if the stack holds the type of one. `db_file_size` falls through into
`pages_used`, which does no harm only as long as the server answers in the order of
the questions.

Every property has a mutant: a change of one definition, of the kind a slip
in the code would be, under which TLC finds the property violated. Mutants stand
before the definition they change, marked "Mutant".

## 5. What is proved

`TransactionsProofs` proves, for all values of the constants that satisfy
`BoundsAssumption` (the bounds are natural numbers) and any set `Objs`:

    TypeCorrect          Spec => []TypeOK
    Invariance           Spec => []IndInv
    HandlesAreExclusive  Spec => []HandlesExclusive
    ActiveIsHeld         Spec => []ActiveHeld
    ActiveIsOwned        Spec => []ActiveOwned
    IdIsHonest           Spec => []IdNeverMisleads
    LimboIsDurable       Spec => LimboDurable
    CommitIsByCall       Spec => CommitOnlyByCall
    CellsImplemented     Spec => ImplementsCells

The argument. `IndInv` has the four safety invariants and what they rest on.
`TablesKept` (slots past the size are empty, dead slots hold nothing) and
`HandlesIssued` (a handle is within the size of its table) say that a
slot appended now has no owner yet, which gives `HandlesExclusive` and
`InfoPrivate`. `ActiveUnique` (a running transaction is in one slot only) makes
ending one slot's transaction harmless to the others, and gives `ActiveHeld` and
`ActiveOwned`. `SlotIds` ties `info.id` to `tra`, and with `InfoPrivate` for the
reconnected objects gives `IdNeverMisleads`. `PreparedMarked` is needed for
`LimboDurable`: an object that holds a prepared transaction in its own slot has
the flag set, so its destructor leaves it alone.

`IndStep` has one lemma for each action or family of actions (`ConnectStep`,
`DatabaseEnds`, `StartStep`, ... ), under it one step for each conjunct;
what they share (what appending, clearing or replacing a slot does) is stated
once: `AppendOneEffect`, `ClearEffect`, `PutEffect`. The action properties follow
from the invariant and a case split on the action.

For the refinement, `CellsNow` is the state of the cells as the objects and slots
determine it. `SlotsKept` joins the invariant: an object has its slot as long as
its Database is there, so that a method which finds no transaction is one of an
idle cell and not of a lost one. `SameCell` names what a cell depends on;
`PutCells` says that a slot that is written changes one cell, and `ElsewhereMaps` to
`FreeMaps` name the action of `TransactionCells` that each family of methods
is. A detach, a crash and the end of a request close several cells at
once (`GoneCells`). The second slot that `reconnect_transaction` appends belongs to
no object, so that the cell is that of the first. A started transaction that
`query_info` fails behind runs in its cell all the same, because `tra` and not `id`
decides what a cell holds (`StartedAs`); one started for an object that is never
handed out is `Vain`.

`StatementsProofs` proves, for any set of statements and any number of result
sets, executes and rows (`BoundsAssumption`):

    Typed                Spec => []TypeOK
    CursorsAreHeld       Spec => []CursorsHeld
    ExhaustedIsRead      Spec => []ExhaustedMeansRead
    RowsAreOfLastExecute Spec => RowsOfLastExecute
    Refinement           Spec => ImplementsStreams

The invariant `IInv` says in `Pointed` and `Held` that cursors and open result sets
are the two ends of one relation, each the inverse of the other, which is
`CursorsHeld`. `Ordered` and the last line of `Pointed` make a cursor the youngest
set of its statement, so that the set a fetch reads to its end is the one
`ExhaustedMeansRead` is about; that each of its rows was returned, or raised an
exception, is `given + lost = pos`, kept row by row. `ArgsKept` ties the arguments in a set to the
execute they came with; it is what makes a row belong to the last call. `Whole`
gives a place in the mapping to a statement that is not prepared. What `execute`,
fetching output and the end of the transaction share is in `Quiet`. For the
refinement `Mapped` is the state of the streams as the statements determine it;
`SameMapped` and `OneMapped` say that a step changes no stream, or that of one
statement, and each family of actions has a lemma (`ExecuteMapped`,
`FetchNextMapped`, `BrokenMapped`, ...) that names the action of `StatementStreams`
it is.

`BlobsProofs` proves, for any set of objects other than the mark `"nobody"`
(`ObjsAssumption`) and any bounds (`BoundsAssumption`):

    Typed           Spec => []TypeOK
    InfoIsTrue      Spec => []InfoTrue
    PositionIsTrue  Spec => []PositionTrue
    StreamsAreKept  Spec => StreamsKept

`InfoTrue` compares a length that an object counted with that of the server, so a
`put` must be seen by nobody else: `OneWriter` (a blob being written has one
stream that writes it) and `OneCreator` (until it is closed its id is known to its
creator only) say why. `Pointing` and `Grounded` say that the pointer of an
object is a stream it opened, over a blob that is there. `Untouched` starts
`PositionTrue`: an object that has opened no stream is at position 0. Where
`query_info` failed, `InfoTrue` still says what can be relied on: after `create` the
id is that of the blob, and the length is no less than the server's; after `open`
nothing, until the object is used again. What the two ways to open share is in
`OpensEffect` and `OpenedStep`.

`LifetimesProofs` proves, for any set of objects and any number of places
(`Disjoint`, `Bounds`):

    Typed             Spec => []TypeOK
    Home              Spec => []HandlesLeadHome
    CheckSuffices     Spec => []CheckWouldDo
    StaleOnlyByCalls  Spec => []StaleNeedsCall
    Outlives          Spec => []TransactionOutlives
    Owned             Spec => []NoOrphans
    PlacesStayEmpty   Spec => NamesStay

The invariant follows references down. `Parents` is what the reference counts
of PHP give: a parent lives as long as its children, outside the set
the collector took. `Chain` says that a child's handle into `db_list` is its
Database's, unless the script ended that one, and `Below` that the Transaction a
Statement or Blob calls is its parent's, or one its parent let go. `Places` (only places given out are named) and
`Unique` (no two objects own one C++ object) make a place handed out now
nobody else's. `OwnedStays` and `LeftStays` say that a C++ object is in its list
while its Database is, whether owned or left behind; `InfoNamed` that a raw
`info` pointer is the object the handle names, or one that was left behind. `Ends`
covers the rest of the request after RSHUTDOWN, when the lists are gone and PHP
objects are not.

`ServicesProofs` proves, for any objects, names and texts (`ServicesAssumption`):

    Typed       Spec => []TypeOK
    Alone       Spec => []HandlesPrivate
    Owned       Spec => []SessionsOwned
    Refinement  Spec => ImplementsSessions
    SaidOnly    Spec => OnlyWhatWasSaid

The invariant is the first three together: the table only grows, so a new handle is
larger than all others. `SessionsOwned` makes a session in the table somebody's,
and `HandlesPrivate` only one's: a step on one handle is then a step of one
session of `Sessions` (`OneMapped`) or none (`SameMapped`).

`ColumnsProofs` is about `Numerics` and `Aliases`. For any word, column size, set of
scales and length of the string (`SizesAssumption`):

    NumericsTyped      Spec => []TypeOK
    NarrowIsInRange    Spec => []NarrowInRange
    AcceptedReadsBack  Spec => []ReadsBack

The invariant `Exact` says that until an overflow is reported `r` is the number
seen so far and within `max`; `AccumulateStep` is the arithmetic: r is at most
ColMax + 1, so 10 r + 9 does not leave the word. `Unsigned` is needed because the
sign raises `max` once only. `ReadsBack` is about the division that prints a
column: `FormatReads` shows that the two parts and the sign make up the number
again for any divisor, a number between -1 and 0 included, whose integer part
has no sign. The provers do not evaluate powers, so `ScalesAssumption` says
of the scales what is true of negative numbers: 10^(-c) is a natural number, not 0.

And for any names and numbers of columns and suffixes:

    KeysAreDistinct    ~MayMiss => (AliasSpec => []KeysDistinct)
    AliasesTyped       AliasSpec => []AliasTypeOK
    HangsAreNamed      AliasSpec => []HangsNeedNames

Without `~MayMiss` the first is false in the second column that repeats a name.
The last one counts. If the search is endless every suffix is taken; each stands
for a column before this one, different ones for different columns, and a name
that is not cut gave all of those by being repeated.

`TBuilderProofs` proves, for any widths (`WidthsAssumption`), that `TypeOK`,
`NeverFatal`, `OptionsReach` and `SmallSnapshotReaches` always hold (`Typed`,
`Accepted`, `Options`, `Snapshot`). Its invariant adds `Numbered` (a mode other
than snapshot has no number) and `Bought`: while the transaction is
there, the buffer is that of the builder it was started with. What is left is
that the server's reading undoes `Buffer`, and that narrowing changes no number
that fits (`NarrowSame`).

`ResponsesProofs` proves, for any values, number of items and `max_count`
(`ResponsesAssumption`, `UndefAssumption`):

    ResponsesTyped  Spec => []TypeOK
    InfoIsTrue      Spec => []InfoTrue
    LimboIsWhole    Spec => []LimboWhole
    UsersAreWhole   Spec => []UsersWhole
    CountsAreTrue   Spec => []CountsTrue
    CodesAreOwn     Spec => []CodesOwn

The properties are about an answer that has been read to its end, so the
invariant counts: there is a number p of items that have been read. `Follows(p)` says
that the response goes on with item p + 1, that only a mark can be there instead,
as its last item, and that the mark of the end comes after all of them.
`ReadSoFar(p)` says, reader by reader, what was made of p items. For
`InfoRead` the order of the request matters: an item that was read is not
overwritten by a later one, except the pages in use, which are asked for after
the size of the file (`DbItemStep`). `LimboRead` ties the length of the answer to
the room for it: an answer that was cut has room for fewer entries than
`max_count`, so the list never outgrows the limit, and where the script dies there
were as many (`LimboAnswer` is the arithmetic of the buffer). `UsersRead` says which
account is being filled and that those before it are in their places, counted with
`Cardinality(Begun(i))`; it speaks of the accounts that have come (`whole`), and
`FieldOf` says of the last one, where it was cut between two items, that its fields
are its own or missing; `AccountDone` that an account is complete when the next
one begins. Each reader has one lemma that takes `ReadSoFar(p)` to
`ReadSoFar(p + 1)`, and `ReadKeeps` the rest of the step. At the end p is the number
of all items (`AllRead`), and each property follows from `ReadSoFar`.
`UndefAssumption` says of the model value `Undef` that it is none of the things
that can be listed, so that it can be told from them as the type of a zval is.

Only model-checked: `ActiveEnds` (liveness is out of the prover's reach), and that no
model deadlocks. Every other property of a passing run is stated by one of these
theorems.

## 6. What is not modelled, and why

- Conversion of values in `bind` and `var_zval` other than scaled columns: calls
  of the library or of PHP, without state; that they fail, and when, is modelled.
- `clone`, an object that a `__destruct` of the script makes reachable again, and
  fatal errors other than those in the models, after which PHP skips `free_obj`
  handlers.
- The arguments of `Database::connect`: `fbp/database.cpp:24-46` ignores them
  and connects with constants.
- Backup, restore and maintenance of `service.cpp:155-508`: marked TODO and not
  registered as methods, so that no script can reach them.
- Class registration (`firebird_php.cpp`, and the generated
  `firebird_arginfo.h`): straight-line code without state.
- The response to `isc_info_tra_id` (`fbp/transaction.cpp:48`) is read from 16
  bytes that are not initialised; what lies behind the answer is not modelled.
- `event.c`, `multi_transaction.c`, `fbp_multi_transaction.c` and
  `fbp_service.c` are not compiled (`config.m4`).
