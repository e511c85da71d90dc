-------------------------------- MODULE Blobs --------------------------------
(***************************************************************************)
(* Blob objects of one Transaction object.                                 *)
(*                                                                         *)
(* Three layers again.  A PHP Blob points at the info of a C++ Blob, which *)
(* counts position and total_length by itself; the C++ Blob points at a    *)
(* stream of the client library; the stream reads or writes a blob that    *)
(* the server keeps, for the transaction only until a row refers to it.    *)
(* The PHP class lets an object create or open again at any time.          *)
(*                                                                         *)
(* Every method is one step, and one that raises an exception and changes  *)
(* nothing is a stuttering step.  create and open store what they opened   *)
(* before they ask for its length, so they can also fail half way.         *)
(***************************************************************************)
EXTENDS Naturals

CONSTANTS
  Objs,      \* the PHP Blob objects of one request
  MaxStrm,   \* bound: streams opened in one request
  MaxData,   \* bound: blobs created in one request
  MaxLen     \* bound: bytes in a blob

ASSUME BoundsAssumption == MaxStrm \in Nat /\ MaxData \in Nat /\ MaxLen \in Nat
ASSUME ObjsAssumption == "nobody" \notin Objs

VARIABLES
  tra,    \* whether the Transaction's pointer leads to a running transaction
  bl,     \* bl[b]: firebird_blob and the C++ Blob behind its handle
  strm,   \* strm[h]: stream h of the client library
  data    \* data[i]: what the server has under blob id i

vars == <<tra, bl, strm, data>>

Streams == 1..MaxStrm
Ids     == 1..MaxData

\* blob = 0 is the null pointer; id to is_writable are members of info.
\* half is a history variable: the last create or open failed half way.
BlobRec == [obj : {"none", "live", "freed"}, blob : 0..MaxStrm, id : 0..MaxData,
            total_length : Nat, position : Nat, is_writable : BOOLEAN,
            half : {"no", "create", "open"}]

\* of: the blob it reads or writes; by: the object that opened it.  A "dead"
\* stream outlived its transaction.
StrmRec == [st : {"none", "open", "dead", "closed"}, of : 0..MaxData,
            by : Objs \union {"nobody"}, writes : BOOLEAN, pos : 0..MaxLen]

\* "stored" is closed and of this transaction, "row" is bound into a row that
\* is not committed, "kept" into one that is.
DataRec == [st : {"none", "writing", "stored", "row", "kept", "lost"}, len : 0..MaxLen]

NoBlob == [obj |-> "none", blob |-> 0, id |-> 0, total_length |-> 0,
           position |-> 0, is_writable |-> FALSE, half |-> "no"]
NoStrm == [st |-> "none", of |-> 0, by |-> "nobody", writes |-> FALSE, pos |-> 0]
NoData == [st |-> "none", len |-> 0]

TypeOK ==
  /\ tra \in BOOLEAN
  /\ bl \in [Objs -> BlobRec]
  /\ strm \in [Streams -> StrmRec]
  /\ data \in [Ids -> DataRec]

Init ==
  /\ tra = FALSE
  /\ bl = [b \in Objs |-> NoBlob]
  /\ strm = [h \in Streams |-> NoStrm]
  /\ data = [i \in Ids |-> NoData]

-----------------------------------------------------------------------------
(* The transaction, and the request.                                       *)

StartTran ==
  /\ ~tra /\ tra' = TRUE
  /\ UNCHANGED <<bl, strm, data>>

\* What becomes of the blobs that rows of this transaction refer to.
Settle(d, outcome) ==
  IF d.st = "row" THEN [d EXCEPT !.st = IF outcome = "commit" THEN "kept" ELSE "lost"]
  ELSE d

\* Streams die with the transaction, and blobs that no row refers to are lost.
EndTran(outcome) ==
  /\ tra /\ tra' = FALSE
  /\ strm' = [h \in Streams |-> IF strm[h].st = "open"
                                THEN [strm[h] EXCEPT !.st = "dead"] ELSE strm[h]]
  /\ data' = [i \in Ids |-> IF data[i].st \in {"writing", "stored"}
                            THEN [data[i] EXCEPT !.st = "lost"]
                            ELSE Settle(data[i], outcome)]
  /\ UNCHANGED bl

\* commit_ret and rollback_ret: the transaction, and its streams, go on.
Retain(outcome) ==
  /\ tra
  /\ data' = [i \in Ids |-> Settle(data[i], outcome)]
  /\ UNCHANGED <<tra, bl, strm>>

\* The request ends, or its process does.
Reset ==
  /\ tra' = FALSE
  /\ bl' = [b \in Objs |-> NoBlob]
  /\ strm' = [h \in Streams |-> NoStrm]
  /\ data' = [i \in Ids |-> NoData]

-----------------------------------------------------------------------------
(* Opening.                                                                *)

Live(b)   == bl[b].obj = "live"
Strm(b)   == strm[bl[b].blob]
\* The client library accepts a call on the stream of b.
Usable(b) == Live(b) /\ bl[b].blob # 0 /\ Strm(b).st = "open"

NextStrm(h) == strm[h].st = "none" /\ \A g \in Streams : g < h => strm[g].st # "none"
NextId(i)   == data[i].st = "none" /\ \A j \in Ids : j < i => data[j].st # "none"
Readable(i) == data[i].st \in {"stored", "row", "kept"}

\* Blob::__construct.
New(b) ==
  /\ bl[b].obj = "none"
  /\ bl' = [bl EXCEPT ![b].obj = "live"]
  /\ UNCHANGED <<tra, strm, data>>

\* The library opens stream h on blob i, and blob is overwritten: a stream
\* that was still open is forgotten.
StreamOpens(b, h, i, writes) ==
  /\ strm' = [strm EXCEPT ![h] = [st |-> "open", of |-> i, by |-> b,
                                  writes |-> writes, pos |-> 0]]
  /\ UNCHANGED tra

\* query_info takes the length from the server.  It does not touch position,
\* but asserts that it is within that length: a build with assertions aborts
\* if it is not, one without goes on.
Opened(b, h, i, len, writes) ==
  /\ bl' = [bl EXCEPT ![b] = [obj |-> "live", blob |-> h, id |-> i, total_length |-> len,
                              position |-> bl[b].position, is_writable |-> writes,
                              half |-> "no"]]
  /\ StreamOpens(b, h, i, writes)

\* query_info throws, in getInfo or later in its loop over the answer: the
\* pointer is stored, is_writable is not, and nothing is closed.
OpenedHalf(b, h, i, id, len, writes) ==
  /\ \E told \in {len, bl[b].total_length} :
       bl' = [bl EXCEPT ![b] = [obj |-> "live", blob |-> h, id |-> id, total_length |-> told,
                                position |-> bl[b].position,
                                is_writable |-> bl[b].is_writable,
                                half |-> IF writes THEN "create" ELSE "open"]]
  /\ StreamOpens(b, h, i, writes)

\* Blob::create, by itself or in Transaction::create_blob: the library writes
\* the new id into info.
Create(b, h, i) ==
  /\ Live(b) /\ tra /\ NextStrm(h) /\ NextId(i)
  /\ Opened(b, h, i, 0, TRUE) \/ OpenedHalf(b, h, i, i, 0, TRUE)
  /\ data' = [data EXCEPT ![i] = [st |-> "writing", len |-> 0]]

\* Blob::open, by itself or in Transaction::open_blob: id is stored last.
Open(b, h, i) ==
  /\ Live(b) /\ tra /\ NextStrm(h) /\ Readable(i)
  /\ \/ Opened(b, h, i, data[i].len, FALSE)
     \/ OpenedHalf(b, h, i, bl[b].id, data[i].len, FALSE)
  /\ UNCHANGED data

\* The assertion in query_info fails.
OpenAborts(b) ==
  /\ Live(b) /\ tra
  /\ \E len \in {0} \union {data[i].len : i \in {j \in Ids : Readable(j)}} :
       bl[b].position > len
  /\ Reset

-----------------------------------------------------------------------------
(* Reading, writing, closing.                                              *)

\* Both look at is_writable, and the library at its stream.
Writes(b) == Usable(b) /\ bl[b].is_writable /\ Strm(b).writes
Reads(b)  == Usable(b) /\ ~bl[b].is_writable /\ ~Strm(b).writes

\* Mutant: the bytes are counted in position only.
PutForgetsLength(b, n) ==
  /\ Writes(b) /\ data[Strm(b).of].len + n <= MaxLen
  /\ bl' = [bl EXCEPT ![b].position = @ + n]
  /\ data' = [data EXCEPT ![Strm(b).of].len = @ + n]
  /\ UNCHANGED <<tra, strm>>

\* Blob::put_contents; putSegment takes all of it or fails.
Put(b, n) ==
  /\ Writes(b) /\ data[Strm(b).of].len + n <= MaxLen
  /\ bl' = [bl EXCEPT ![b].position = @ + n, ![b].total_length = @ + n]
  /\ data' = [data EXCEPT ![Strm(b).of].len = @ + n]
  /\ UNCHANGED <<tra, strm>>

\* Blob::get_contents: what it asks for, given max_len.
Asked(b, max_len) ==
  LET remaining == bl[b].total_length - bl[b].position
  IN  IF max_len = 0 \/ max_len > remaining THEN remaining ELSE max_len

\* Mutant: position advances by what was asked for, not by what was read.
GetCountsAsked(b, max_len) ==
  /\ Reads(b) /\ bl[b].position <= bl[b].total_length
  /\ \E k \in 0..Asked(b, max_len) :
       /\ k <= data[Strm(b).of].len - Strm(b).pos
       /\ k = 0 => Asked(b, max_len) = 0 \/ Strm(b).pos = data[Strm(b).of].len
       /\ bl' = [bl EXCEPT ![b].position = @ + Asked(b, max_len)]
       /\ strm' = [strm EXCEPT ![bl[b].blob].pos = @ + k]
  /\ UNCHANGED <<tra, data>>

\* getSegment reads k bytes: it may return less than it is asked for, but
\* something unless the stream is at its end.
Get(b, max_len) ==
  /\ Reads(b) /\ bl[b].position <= bl[b].total_length
  /\ \E k \in 0..Asked(b, max_len) :
       /\ k <= data[Strm(b).of].len - Strm(b).pos
       /\ k = 0 => Asked(b, max_len) = 0 \/ Strm(b).pos = data[Strm(b).of].len
       /\ bl' = [bl EXCEPT ![b].position = @ + k]
       /\ strm' = [strm EXCEPT ![bl[b].blob].pos = @ + k]
  /\ UNCHANGED <<tra, data>>

\* With position past the length, a negative length is asked for.
GetNegative(b) ==
  /\ Reads(b) /\ bl[b].position > bl[b].total_length
  /\ Reset

\* Blob::seek.  The server moves within the blob, also in one being written,
\* where the next put appends all the same.
Seek(b, to) ==
  /\ Usable(b) /\ to <= data[Strm(b).of].len
  /\ bl' = [bl EXCEPT ![b].position = to]
  /\ strm' = [strm EXCEPT ![bl[b].blob].pos = to]
  /\ UNCHANGED <<tra, data>>

\* The stream h ends; what it wrote is then stored or discarded.
Finish(h, st) ==
  /\ strm' = [strm EXCEPT ![h].st = "closed"]
  /\ data' = IF strm[h].st = "open" /\ strm[h].writes
             THEN [data EXCEPT ![strm[h].of].st = st] ELSE data

\* Blob::close and cancel: blob becomes null only when the library agrees.
\* Of a stream whose transaction is over it may or may not.
Close(b, st) ==
  /\ Live(b) /\ bl[b].blob # 0
  /\ Finish(bl[b].blob, st)
  /\ bl' = [bl EXCEPT ![b].blob = 0]
  /\ UNCHANGED tra

\* Mutant: the destructor releases the pointer and closes nothing.
FreeForgets(b) ==
  /\ Live(b)
  /\ bl' = [bl EXCEPT ![b] = [NoBlob EXCEPT !.obj = "freed"]]
  /\ UNCHANGED <<tra, strm, data>>

\* free_obj of a PHP Blob: ~Blob closes, and so stores what was written.
Free(b) ==
  /\ Live(b)
  /\ IF bl[b].blob # 0 THEN Finish(bl[b].blob, "stored") ELSE UNCHANGED <<strm, data>>
  /\ bl' = [bl EXCEPT ![b] = [NoBlob EXCEPT !.obj = "freed"]]
  /\ UNCHANGED tra

-----------------------------------------------------------------------------
(* Statements that refer to blobs.                                         *)

\* bind() of a Blob or Blob_Id, and the execute of it: the server accepts a
\* blob that is closed; any other is an invalid BLOB ID.
Bind(i) ==
  /\ tra /\ data[i].st = "stored"
  /\ data' = [data EXCEPT ![i].st = "row"]
  /\ UNCHANGED <<tra, bl, strm>>

\* Transaction::create_blob_from_string and get_blob_contents use a C++ Blob
\* of their own.  When a call in the middle fails, it is not deleted.
BindString(h, i, len) ==
  /\ tra /\ NextStrm(h) /\ NextId(i)
  /\ \E st \in {"closed", "open"} :
       /\ strm' = [strm EXCEPT ![h] = [st |-> st, of |-> i, by |-> "nobody",
                                       writes |-> TRUE, pos |-> 0]]
       /\ data' = [data EXCEPT ![i] =
            IF st = "closed" THEN [st |-> "row", len |-> len]
                             ELSE [st |-> "writing", len |-> 0]]
  /\ UNCHANGED <<tra, bl>>

FetchText(h, i) ==
  /\ tra /\ NextStrm(h) /\ Readable(i)
  /\ \E st \in {"closed", "open"} :
       strm' = [strm EXCEPT ![h] = [st |-> st, of |-> i, by |-> "nobody",
                                    writes |-> FALSE, pos |-> 0]]
  /\ UNCHANGED <<tra, bl, data>>

Next ==
  \/ StartTran \/ Reset
  \/ \E outcome \in {"commit", "rollback"} : EndTran(outcome) \/ Retain(outcome)
  \/ \E b \in Objs : New(b) \/ OpenAborts(b) \/ GetNegative(b) \/ Free(b)
  \/ \E b \in Objs, h \in Streams, i \in Ids : Create(b, h, i) \/ Open(b, h, i)
  \/ \E b \in Objs, n \in 0..MaxLen : Put(b, n) \/ Get(b, n) \/ Seek(b, n)
  \/ \E b \in Objs, st \in {"stored", "lost"} : Close(b, st)
  \/ \E i \in Ids : Bind(i)
  \/ \E h \in Streams, i \in Ids : FetchText(h, i)
  \/ \E h \in Streams, i \in Ids, len \in 0..MaxLen : BindString(h, i, len)

Spec == Init /\ [][Next]_vars

-----------------------------------------------------------------------------
(* Properties.                                                             *)

\* The object used for one stream only: nothing else was opened through it.
UsedOnce(b) == \A g, h \in Streams : strm[g].by = b /\ strm[h].by = b => g = h

\* What info says survives: id and total_length are those of the blob last
\* created or opened, through puts, gets, seeks and reuse of the object, and
\* after close(), cancel() or the end of the transaction as well.  A create()
\* that failed half way has left the id of its blob all the same, and what the
\* object then counts is never less than what the server has; of a blob whose
\* open() failed half way, info says nothing.
InfoTrue ==
  \A b \in Objs : Live(b) /\ bl[b].id # 0 /\ bl[b].half # "open" =>
    /\ data[bl[b].id].len <= bl[b].total_length
    /\ bl[b].half = "no" => data[bl[b].id].len = bl[b].total_length
    /\ bl[b].blob # 0 => /\ bl[b].id = Strm(b).of
                         /\ bl[b].half = "no" => bl[b].is_writable = Strm(b).writes

\* In an object used for one stream, position is where the stream is, so that
\* get() asks for exactly what is left, whatever get() and seek() did before.
PositionTrue ==
  \A b \in Objs : Live(b) /\ bl[b].blob # 0 /\ ~bl[b].is_writable /\ UsedOnce(b) =>
    bl[b].position = Strm(b).pos

\* A stream that an object holds is never lost without being closed, except
\* when its own object opens another one.
StreamsKept ==
  [][\A b \in Objs : Live(b) /\ bl[b].blob # 0 /\ strm'[bl[b].blob].st \in {"open", "dead"} =>
       bl'[b].obj = "live" /\ bl'[b].blob # 0]_vars

\* The assertion at the end of query_info, and of get_contents.
PositionWithinLength ==
  \A b \in Objs : Live(b) /\ bl[b].blob # 0 /\ bl[b].half = "no" =>
    bl[b].position <= bl[b].total_length
=============================================================================
