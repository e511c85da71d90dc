----------------------------- MODULE BlobsProofs -----------------------------
(***************************************************************************)
(* Theorems about Blobs, for any number of objects, streams, blobs and     *)
(* bytes: what an object reports about its blob is true, or it is known    *)
(* how much of it is after create or open has failed half way.             *)
(***************************************************************************)
EXTENDS Blobs, TLAPS

\* An object that was never made, or is gone, is as the allocator left it, and
\* what an object points at is a stream that it opened: after a failure half
\* way, one of the kind that was asked for.
Pointing ==
  \A b \in Objs : /\ bl[b].obj = "none" => bl[b] = NoBlob
                  /\ bl[b].id # 0 \/ bl[b].blob # 0 => Live(b)
                  /\ bl[b].blob # 0 => /\ Strm(b).by = b /\ Strm(b).st # "none"
                                       /\ bl[b].half # "open" => bl[b].id # 0
                                       /\ bl[b].half = "open" => ~Strm(b).writes

\* A stream has a blob of the server under it.
Grounded ==
  \A h \in Streams : IF strm[h].st = "none" THEN strm[h].by = "nobody"
                     ELSE strm[h].of \in Ids /\ data[strm[h].of].st # "none"

\* A blob that is being written has one stream that writes it.
OneWriter ==
  /\ \A h \in Streams : strm[h].st = "open" /\ strm[h].writes => data[strm[h].of].st = "writing"
  /\ \A g, h \in Streams :
       strm[g].st = "open" /\ strm[g].writes /\ strm[h].st = "open" /\ strm[h].writes =>
         g = h \/ strm[g].of # strm[h].of

\* Until a blob is closed, its id is known to the object that created it only.
OneCreator ==
  /\ \A b \in Objs : bl[b].id # 0 => data[bl[b].id].st # "none"
  /\ \A b, z \in Objs :
       bl[b].id # 0 /\ bl[b].id = bl[z].id /\ data[bl[b].id].st = "writing" => b = z

\* position moves with a stream only.
Untouched ==
  \A b \in Objs : (\A h \in Streams : strm[h].by # b) => bl[b].position = 0

IInv == /\ TypeOK /\ Pointing /\ Grounded /\ OneWriter /\ OneCreator /\ Untouched
        /\ InfoTrue /\ PositionTrue

-----------------------------------------------------------------------------
(* Steps that open no stream and move none.                                *)

LEMMA InitInv == Init => IInv
<1> SUFFICES ASSUME Init PROVE IInv
  OBVIOUS
<1>1. /\ \A b \in Objs : bl[b] = NoBlob
      /\ \A h \in Streams : strm[h] = NoStrm
      /\ \A i \in Ids : data[i] = NoData
  BY DEF Init
<1>2. NoBlob \in BlobRec /\ NoStrm \in StrmRec /\ NoData \in DataRec
  BY BoundsAssumption DEF NoBlob, NoStrm, NoData, BlobRec, StrmRec, DataRec
<1>3. TypeOK
  BY <1>2 DEF Init, TypeOK
<1>4. Pointing /\ Untouched /\ InfoTrue /\ PositionTrue
  BY <1>1 DEF Pointing, Untouched, InfoTrue, PositionTrue, NoBlob, Live
<1>5. Grounded /\ OneWriter /\ OneCreator
  BY <1>1 DEF Grounded, OneWriter, OneCreator, NoStrm, NoBlob
<1> QED
  BY <1>3, <1>4, <1>5 DEF IInv

\* A request starts where the first one started.
LEMMA ResetStep == Reset => IInv'
<1>1. Reset => Init'
  BY DEF Reset, Init
<1> QED
  BY <1>1, InitInv, PTL

\* A stream is as it was, or it has died.
StrmKept(h) ==
  /\ strm'[h].of = strm[h].of /\ strm'[h].by = strm[h].by
  /\ strm'[h].writes = strm[h].writes /\ strm'[h].pos = strm[h].pos
  /\ strm'[h].st = strm[h].st \/ (strm[h].st = "open" /\ strm'[h].st = "dead")

\* What the transaction does to streams and blobs, and bind() to a blob.
Quiet ==
  /\ bl' = bl
  /\ \A h \in Streams : StrmKept(h)
  /\ \A i \in Ids : /\ data'[i].len = data[i].len
                    /\ data'[i].st = "none" <=> data[i].st = "none"
                    /\ data'[i].st = "writing" => data[i].st = "writing"
  /\ \A h \in Streams : strm'[h].st = "open" /\ strm[h].writes => data'[strm[h].of].st = "writing"

LEMMA QuietStep ==
  ASSUME IInv, TypeOK', Quiet
  PROVE  IInv'
<1>0. /\ TypeOK /\ \A b \in Objs : bl[b] \in BlobRec /\ (bl[b].id # 0 => bl[b].id \in Ids)
      /\ \A b \in Objs : bl[b].blob # 0 => bl[b].blob \in Streams
  BY BoundsAssumption DEF IInv, TypeOK, BlobRec, Streams, Ids
<1>1. Pointing'
  BY <1>0 DEF IInv, Pointing, Quiet, StrmKept, Live, Strm
<1>2. Grounded'
  BY DEF IInv, Grounded, Quiet, StrmKept
<1>3. OneWriter'
  BY DEF IInv, OneWriter, Quiet, StrmKept
<1>4. OneCreator'
  BY <1>0 DEF IInv, OneCreator, Quiet
<1>5. Untouched'
  BY DEF IInv, Untouched, Quiet, StrmKept
<1>6. InfoTrue'
  BY <1>0 DEF IInv, InfoTrue, Quiet, StrmKept, Live, Strm
<1>7. PositionTrue'
  BY <1>0 DEF IInv, PositionTrue, Quiet, StrmKept, Live, Strm, UsedOnce
<1> QED
  BY <1>1, <1>2, <1>3, <1>4, <1>5, <1>6, <1>7 DEF IInv

LEMMA TransactionStep ==
  ASSUME IInv,
         \/ StartTran
         \/ \E outcome \in {"commit", "rollback"} : EndTran(outcome) \/ Retain(outcome)
         \/ \E i \in Ids : Bind(i)
  PROVE  IInv'
<1>0. /\ TypeOK /\ tra \in BOOLEAN
      /\ \A h \in Streams : strm[h] \in StrmRec
      /\ \A i \in Ids : data[i] \in DataRec
      /\ \A h \in Streams : strm[h].st = "open" => strm[h].of \in Ids
  BY DEF IInv, TypeOK, Grounded
<1>1. CASE StartTran
  <2>1. TypeOK'
    BY <1>0, <1>1 DEF TypeOK, StartTran
  <2>2. Quiet
    BY <1>0, <1>1 DEF Quiet, StrmKept, StartTran, IInv, OneWriter
  <2> QED
    BY <2>1, <2>2, QuietStep
<1>2. ASSUME NEW outcome, NEW i \in Ids
      PROVE  /\ Settle(data[i], outcome) \in DataRec
             /\ Settle(data[i], outcome).len = data[i].len
             /\ IF data[i].st = "row" THEN Settle(data[i], outcome).st \in {"kept", "lost"}
                ELSE Settle(data[i], outcome).st = data[i].st
  BY <1>0 DEF Settle, DataRec
<1>3. ASSUME NEW outcome, EndTran(outcome) PROVE IInv'
  <2> DEFINE S(h) == IF strm[h].st = "open" THEN [strm[h] EXCEPT !.st = "dead"] ELSE strm[h]
             D(i) == IF data[i].st \in {"writing", "stored"} THEN [data[i] EXCEPT !.st = "lost"]
                     ELSE Settle(data[i], outcome)
  <2>1. /\ bl' = bl /\ tra' = FALSE /\ strm' = [h \in Streams |-> S(h)] /\ data' = [i \in Ids |-> D(i)]
    BY <1>3 DEF EndTran
  <2>2. ASSUME NEW h \in Streams
        PROVE  /\ S(h) \in StrmRec /\ S(h).st # "open" /\ S(h).of = strm[h].of /\ S(h).by = strm[h].by
               /\ S(h).writes = strm[h].writes /\ S(h).pos = strm[h].pos
               /\ S(h).st = strm[h].st \/ (strm[h].st = "open" /\ S(h).st = "dead")
    BY <1>0 DEF StrmRec
  <2>3. ASSUME NEW i \in Ids
        PROVE  /\ D(i) \in DataRec /\ D(i).len = data[i].len
               /\ D(i).st = "none" <=> data[i].st = "none"
               /\ D(i).st # "writing"
    BY <1>0, <1>2 DEF DataRec
  <2> HIDE DEF S, D
  <2>4. TypeOK'
    BY <1>0, <2>1, <2>2, <2>3 DEF TypeOK
  <2>5. Quiet
    BY <2>1, <2>2, <2>3 DEF Quiet, StrmKept
  <2> QED
    BY <2>4, <2>5, QuietStep
<1>4. ASSUME NEW outcome, Retain(outcome) PROVE IInv'
  <2>1. /\ bl' = bl /\ tra' = tra /\ strm' = strm
        /\ data' = [i \in Ids |-> Settle(data[i], outcome)]
    BY <1>4 DEF Retain
  <2>2. TypeOK'
    BY <1>0, <1>2, <2>1 DEF TypeOK
  <2>3. Quiet
    BY <1>0, <1>2, <2>1 DEF Quiet, StrmKept, IInv, OneWriter
  <2> QED
    BY <2>2, <2>3, QuietStep
<1>5. ASSUME NEW i \in Ids, Bind(i) PROVE IInv'
  <2> DEFINE n == [data[i] EXCEPT !.st = "row"]
  <2>1. bl' = bl /\ tra' = tra /\ strm' = strm /\ data[i].st = "stored" /\ data' = [data EXCEPT ![i] = n]
    BY <1>0, <1>5 DEF Bind, TypeOK, DataRec
  <2>2. n \in DataRec /\ n.len = data[i].len /\ n.st = "row"
    BY <1>0 DEF DataRec
  <2> HIDE DEF n
  <2>3. data' \in [Ids -> DataRec] /\ \A j \in Ids : data'[j] = IF j = i THEN n ELSE data[j]
    BY <1>0, <2>1, <2>2 DEF TypeOK
  <2>4. TypeOK'
    BY <1>0, <2>1, <2>3 DEF TypeOK
  <2>5. Quiet
    BY <1>0, <2>1, <2>2, <2>3 DEF Quiet, StrmKept, IInv, OneWriter
  <2> QED
    BY <2>4, <2>5, QuietStep
<1> QED
  BY <1>1, <1>3, <1>4, <1>5

LEMMA NewStep ==
  ASSUME IInv, NEW b \in Objs, New(b)
  PROVE  IInv'
<1> DEFINE q == [NoBlob EXCEPT !.obj = "live"]
<1>0. /\ TypeOK /\ bl[b] = NoBlob /\ NoBlob \in BlobRec
      /\ tra' = tra /\ strm' = strm /\ data' = data
  BY BoundsAssumption DEF IInv, Pointing, New, NoBlob, BlobRec
<1>1. bl' = [bl EXCEPT ![b] = q]
  BY <1>0 DEF New, NoBlob, TypeOK
<1>2. q \in BlobRec /\ q.obj = "live" /\ q.id = 0 /\ q.blob = 0 /\ q.position = 0
  BY <1>0 DEF NoBlob, BlobRec
<1> HIDE DEF q
<1>3. bl' \in [Objs -> BlobRec] /\ \A z \in Objs : bl'[z] = IF z = b THEN q ELSE bl[z]
  BY <1>0, <1>1, <1>2 DEF TypeOK
<1>4. TypeOK'
  BY <1>0, <1>3 DEF TypeOK
<1>5. Pointing' /\ Grounded' /\ OneWriter' /\ OneCreator' /\ Untouched'
  BY <1>0, <1>2, <1>3 DEF IInv, Pointing, Grounded, OneWriter, OneCreator, Untouched, Live, Strm
<1>6. InfoTrue' /\ PositionTrue'
  BY <1>0, <1>2, <1>3 DEF IInv, InfoTrue, PositionTrue, UsedOnce, Live, Strm
<1> QED
  BY <1>4, <1>5, <1>6 DEF IInv

-----------------------------------------------------------------------------
(* Steps that open a stream.                                               *)

\* Either the stream writes a blob that is new, or it reads one that is there.
Opens(h, i, by, n) ==
  /\ strm[h].st = "none" /\ n.of = i /\ n.by = by /\ n.pos = 0
  /\ strm' = [strm EXCEPT ![h] = n]
  /\ \/ /\ n.writes /\ data[i].st = "none"
        /\ \E d \in DataRec : /\ data' = [data EXCEPT ![i] = d]
                              /\ d.st = "writing" \/ (d.st = "row" /\ n.st = "closed")
     \/ ~n.writes /\ data' = data /\ data[i].st \notin {"none", "writing"}

LEMMA OpensEffect ==
  ASSUME IInv, NEW h \in Streams, NEW i \in Ids, NEW by \in Objs \union {"nobody"},
         NEW n \in StrmRec, n.st \in {"open", "closed"}, Opens(h, i, by, n)
  PROVE  /\ strm' \in [Streams -> StrmRec] /\ data' \in [Ids -> DataRec]
         /\ \A g \in Streams : strm'[g] = IF g = h THEN n ELSE strm[g]
         /\ \A j \in Ids : data[j].st # "none" => data'[j] = data[j]
         /\ data'[i].st # "none"
         /\ ~n.writes => data' = data
         /\ data'[i].st = "writing" => n.writes /\ data[i].st = "none"
         /\ Grounded' /\ OneWriter'
         /\ \A z \in Objs : bl[z].blob # 0 => bl[z].blob # h
         /\ \A z \in Objs : bl[z].id # 0 => data'[bl[z].id] = data[bl[z].id]
<1>0. /\ TypeOK /\ strm[h].st = "none" /\ n.of = i /\ n.by = by /\ n.st # "none"
  BY DEF IInv, Opens
<1>1. strm' \in [Streams -> StrmRec] /\ \A g \in Streams : strm'[g] = IF g = h THEN n ELSE strm[g]
  BY <1>0 DEF Opens, TypeOK
<1> DEFINE Written ==
      /\ data' \in [Ids -> DataRec] /\ \A j \in Ids : data[j].st # "none" => data'[j] = data[j]
      /\ data'[i].st # "none"
      /\ ~n.writes => data' = data
      /\ data'[i].st = "writing" => n.writes /\ data[i].st = "none"
      /\ n.st = "open" /\ n.writes => data'[i].st = "writing" /\ data[i].st = "none"
<1>2. Written
  <2>1. CASE ~n.writes /\ data' = data /\ data[i].st \notin {"none", "writing"}
    BY <1>0, <2>1 DEF TypeOK
  <2>2. ASSUME NEW d \in DataRec, n.writes, data[i].st = "none", data' = [data EXCEPT ![i] = d],
               d.st = "writing" \/ (d.st = "row" /\ n.st = "closed")
        PROVE  Written
    <3>1. data' \in [Ids -> DataRec] /\ \A j \in Ids : data'[j] = IF j = i THEN d ELSE data[j]
      BY <1>0, <2>2 DEF TypeOK
    <3> QED
      BY <2>2, <3>1
  <2> QED
    BY <2>1, <2>2 DEF Opens
<1>3. Grounded'
  BY <1>0, <1>1, <1>2 DEF IInv, Grounded
<1>4. OneWriter'
  <2>1. \A g \in Streams : g # h /\ strm[g].st = "open" => strm[g].of \in Ids /\ data[strm[g].of].st # "none"
    BY DEF IInv, Grounded
  <2>2. \A g \in Streams : strm'[g].st = "open" /\ strm'[g].writes => data'[strm'[g].of].st = "writing"
    BY <1>0, <1>1, <1>2, <2>1 DEF IInv, OneWriter
  <2>3. ASSUME NEW f \in Streams, NEW g \in Streams, f # g,
               strm'[f].st = "open", strm'[f].writes, strm'[g].st = "open", strm'[g].writes
        PROVE  strm'[f].of # strm'[g].of
    BY <1>0, <1>1, <1>2, <2>1, <2>3 DEF IInv, OneWriter
  <2> QED
    BY <2>2, <2>3 DEF OneWriter
<1>5. \A z \in Objs : bl[z].blob # 0 => bl[z].blob # h
  BY <1>0 DEF IInv, Pointing, Strm
<1>6. \A z \in Objs : bl[z].id # 0 => data'[bl[z].id] = data[bl[z].id]
  <2>1. \A z \in Objs : bl[z].id # 0 => bl[z].id \in Ids
    BY <1>0, BoundsAssumption DEF TypeOK, BlobRec, Ids
  <2> QED
    BY <1>2, <2>1 DEF IInv, OneCreator
<1> QED
  BY <1>1, <1>2, <1>3, <1>4, <1>5, <1>6

\* What b becomes when it opens stream h on blob i: all of info is that of the
\* blob, or query_info has failed.
Becomes(b, h, i, len, writes, q) ==
  /\ q.obj = "live" /\ q.blob = h /\ q.position = bl[b].position
  /\ \/ q.half = "no" /\ q.id = i /\ q.total_length = len /\ q.is_writable = writes
     \/ q.half = "create" /\ writes /\ q.id = i /\ len <= q.total_length
     \/ q.half = "open" /\ ~writes /\ q.id = bl[b].id

\* Create and Open: the object forgets the stream it had.
LEMMA OpenedStep ==
  ASSUME IInv, NEW b \in Objs, NEW h \in Streams, NEW i \in Ids, NEW len \in 0..MaxLen,
         NEW writes \in BOOLEAN, NEW q \in BlobRec, Live(b), StreamOpens(b, h, i, writes),
         bl' = [bl EXCEPT ![b] = q], Becomes(b, h, i, len, writes, q),
         Opens(h, i, b, [st |-> "open", of |-> i, by |-> b, writes |-> writes, pos |-> 0]),
         len = data'[i].len
  PROVE  IInv'
<1> DEFINE n == [st |-> "open", of |-> i, by |-> b, writes |-> writes, pos |-> 0]
<1>0. /\ TypeOK /\ bl[b] \in BlobRec /\ bl' = [bl EXCEPT ![b] = q] /\ tra' = tra
      /\ h # 0 /\ i # 0 /\ b # "nobody"
  BY BoundsAssumption, ObjsAssumption DEF IInv, TypeOK, StreamOpens, Streams, Ids
<1>1. n \in StrmRec /\ Opens(h, i, b, n)
  BY BoundsAssumption DEF StrmRec, Ids
<1>3. /\ n.st = "open" /\ n.of = i /\ n.by = b /\ n.writes = writes /\ n.pos = 0
      /\ q.obj = "live" /\ q.blob = h /\ q.position = bl[b].position
      /\ q.id \in {i, bl[b].id} /\ (q.half # "open" => q.id = i)
      /\ (q.half = "open" => ~writes)
  BY DEF Becomes
<1> HIDE DEF n
<1>4. /\ strm' \in [Streams -> StrmRec] /\ data' \in [Ids -> DataRec]
      /\ \A g \in Streams : strm'[g] = IF g = h THEN n ELSE strm[g]
      /\ data'[i].st # "none"
      /\ data'[i].st = "writing" => n.writes /\ data[i].st = "none"
      /\ Grounded' /\ OneWriter'
      /\ \A z \in Objs : bl[z].blob # 0 => bl[z].blob # h
      /\ \A z \in Objs : bl[z].id # 0 => data'[bl[z].id] = data[bl[z].id]
  BY <1>1, <1>3, OpensEffect
<1>5. /\ bl' \in [Objs -> BlobRec] /\ \A z \in Objs : bl'[z] = IF z = b THEN q ELSE bl[z]
      /\ \A z \in Objs : bl[z].blob # 0 => bl[z].blob \in Streams
  <2>1. bl \in [Objs -> BlobRec]
    BY <1>0 DEF TypeOK
  <2>2. /\ bl' \in [Objs -> BlobRec]
        /\ \A z \in Objs : bl'[z] = IF z = b THEN q ELSE bl[z]
    BY <1>0, <2>1
  <2>3. ASSUME NEW z \in Objs, bl[z].blob # 0
        PROVE  bl[z].blob \in Streams
    BY <2>1, <2>3, BoundsAssumption DEF BlobRec, Streams
  <2> QED
    BY <2>2, <2>3
<1>6. TypeOK'
  BY <1>0, <1>4, <1>5 DEF TypeOK
<1>7. Pointing'
  <2> SUFFICES ASSUME NEW z \in Objs
               PROVE  /\ bl'[z].obj = "none" => bl'[z] = NoBlob
                      /\ bl'[z].id # 0 \/ bl'[z].blob # 0 => bl'[z].obj = "live"
                      /\ bl'[z].blob # 0 =>
                           /\ strm'[bl'[z].blob].by = z /\ strm'[bl'[z].blob].st # "none"
                           /\ bl'[z].half # "open" => bl'[z].id # 0
                           /\ bl'[z].half = "open" => ~strm'[bl'[z].blob].writes
    BY DEF Pointing, Live, Strm
  <2>1. CASE z = b
    <3>1. bl'[z] = q /\ strm'[h] = n
      BY <1>4, <1>5, <2>1
    <3> QED
      BY <1>0, <1>3, <2>1, <3>1
  <2>2. CASE z # b
    <3>1. bl'[z] = bl[z] /\ (bl[z].blob # 0 => strm'[bl[z].blob] = strm[bl[z].blob])
      BY <1>4, <1>5, <2>2
    <3> QED
      BY <3>1 DEF IInv, Pointing, Live, Strm
  <2> QED
    BY <2>1, <2>2
<1>8. OneCreator'
  <2>1. \A z \in Objs : bl'[z].id # 0 => data'[bl'[z].id].st # "none"
    BY <1>3, <1>4, <1>5 DEF IInv, OneCreator
  <2>2. ASSUME NEW y \in Objs, NEW z \in Objs, bl'[y].id # 0, bl'[y].id = bl'[z].id,
               data'[bl'[y].id].st = "writing"
        PROVE  y = z
    <3>1. CASE q.id = i /\ n.writes
      BY <1>3, <1>4, <1>5, <2>2, <3>1 DEF IInv, OneCreator
    <3>2. CASE ~n.writes \/ q.id # i
      <4>1. q.id = bl[b].id \/ q.id = i
        BY <1>3
      <4>2. q.id = i => data'[i].st # "writing"
        BY <1>4, <3>2
      <4> QED
        BY <1>3, <1>4, <1>5, <2>2, <4>1, <4>2 DEF IInv, OneCreator
    <3> QED
      BY <3>1, <3>2
  <2> QED
    BY <2>1, <2>2 DEF OneCreator
<1>9. Untouched'
  <2> SUFFICES ASSUME NEW z \in Objs, \A g \in Streams : strm'[g].by # z
               PROVE  bl'[z].position = 0
    BY DEF Untouched
  <2>1. strm[h].by = "nobody" /\ z # "nobody"
    BY <1>1, ObjsAssumption DEF IInv, Grounded, Opens
  <2>2. z # b
    BY <1>3, <1>4
  <2>3. \A g \in Streams : strm[g].by # z
    BY <1>4, <2>1
  <2> QED
    BY <1>5, <2>2, <2>3 DEF IInv, Untouched
<1>10. InfoTrue'
  <2> SUFFICES ASSUME NEW z \in Objs, bl'[z].obj = "live", bl'[z].id # 0, bl'[z].half # "open"
               PROVE  /\ data'[bl'[z].id].len <= bl'[z].total_length
                      /\ bl'[z].half = "no" => data'[bl'[z].id].len = bl'[z].total_length
                      /\ bl'[z].blob # 0 =>
                           /\ bl'[z].id = strm'[bl'[z].blob].of
                           /\ bl'[z].half = "no" => bl'[z].is_writable = strm'[bl'[z].blob].writes
    BY DEF InfoTrue, Live, Strm
  <2>1. CASE z = b
    <3>1. len <= q.total_length /\ (q.half = "no" => len = q.total_length /\ q.is_writable = writes)
      BY <1>5, <2>1, BoundsAssumption DEF Becomes
    <3> QED
      BY <1>3, <1>4, <1>5, <2>1, <3>1
  <2>2. CASE z # b
    BY <1>4, <1>5, <2>2 DEF IInv, InfoTrue, Live, Strm
  <2> QED
    BY <2>1, <2>2
<1>11. PositionTrue'
  <2> SUFFICES ASSUME NEW z \in Objs, bl'[z].obj = "live", bl'[z].blob # 0, ~bl'[z].is_writable,
                      UsedOnce(z)'
               PROVE  bl'[z].position = strm'[bl'[z].blob].pos
    BY DEF PositionTrue, Live, Strm
  <2>1. CASE z = b
    <3>1. \A g \in Streams : strm[g].by # b
      BY <1>0, <1>3, <1>4, <2>1 DEF IInv, Grounded, UsedOnce, Opens
    <3> QED
      BY <1>3, <1>4, <1>5, <2>1, <3>1 DEF IInv, Untouched
  <2>2. CASE z # b
    <3>1. UsedOnce(z)
      BY <1>0, <1>3, <1>4, <1>5, <2>2, ObjsAssumption DEF UsedOnce, IInv, Grounded, Opens
    <3> QED
      BY <1>4, <1>5, <2>2, <3>1 DEF IInv, PositionTrue, Live, Strm
  <2> QED
    BY <2>1, <2>2
<1> QED
  BY <1>4, <1>6, <1>7, <1>8, <1>9, <1>10, <1>11 DEF IInv

\* Both outcomes of query_info are such a change.
LEMMA BecomesOf ==
  ASSUME IInv, NEW b \in Objs, NEW h \in Streams, NEW i \in Ids, NEW len \in 0..MaxLen,
         NEW writes \in BOOLEAN, NEW id, id = IF writes THEN i ELSE bl[b].id, writes => len = 0,
         Opened(b, h, i, len, writes) \/ OpenedHalf(b, h, i, id, len, writes)
  PROVE  /\ StreamOpens(b, h, i, writes)
         /\ \E q \in BlobRec : bl' = [bl EXCEPT ![b] = q] /\ Becomes(b, h, i, len, writes, q)
<1>0. /\ bl[b] \in BlobRec /\ h \in 0..MaxStrm /\ i \in 0..MaxData /\ len \in Nat
      /\ bl[b].id \in 0..MaxData /\ bl[b].position \in Nat /\ bl[b].is_writable \in BOOLEAN
      /\ bl[b].total_length \in Nat
  BY BoundsAssumption DEF IInv, TypeOK, BlobRec, Streams, Ids
<1>1. CASE Opened(b, h, i, len, writes)
  <2> DEFINE q == [obj |-> "live", blob |-> h, id |-> i, total_length |-> len,
                   position |-> bl[b].position, is_writable |-> writes, half |-> "no"]
  <2>1. q \in BlobRec
    BY <1>0 DEF BlobRec
  <2>2. Becomes(b, h, i, len, writes, q)
    BY DEF Becomes
  <2>3. bl' = [bl EXCEPT ![b] = q] /\ StreamOpens(b, h, i, writes)
    BY <1>1 DEF Opened
  <2> HIDE DEF q
  <2> QED
    BY <2>1, <2>2, <2>3
<1>2. CASE OpenedHalf(b, h, i, id, len, writes)
  <2>0. PICK told \in {len, bl[b].total_length} :
          bl' = [bl EXCEPT ![b] = [obj |-> "live", blob |-> h, id |-> id, total_length |-> told,
                                   position |-> bl[b].position,
                                   is_writable |-> bl[b].is_writable,
                                   half |-> IF writes THEN "create" ELSE "open"]]
    BY <1>2 DEF OpenedHalf
  <2> DEFINE half == IF writes THEN "create" ELSE "open"
             q == [obj |-> "live", blob |-> h, id |-> id, total_length |-> told,
                   position |-> bl[b].position, is_writable |-> bl[b].is_writable, half |-> half]
  <2>1. half \in {"create", "open"} /\ told \in Nat /\ id \in 0..MaxData
    BY <1>0
  <2>2. q \in BlobRec
    BY <1>0, <2>1 DEF BlobRec
  <2>3. Becomes(b, h, i, len, writes, q)
    <3>1. /\ q.obj = "live" /\ q.blob = h /\ q.position = bl[b].position /\ q.half = half
          /\ q.id = id /\ q.total_length = told
      OBVIOUS
    <3>2. writes => len <= told
      BY <1>0, <2>1
    <3> HIDE DEF q
    <3> QED
      BY <3>1, <3>2 DEF Becomes
  <2>4. bl' = [bl EXCEPT ![b] = q] /\ StreamOpens(b, h, i, writes)
    BY <1>2, <2>0 DEF OpenedHalf
  <2> HIDE DEF q
  <2> QED
    BY <2>2, <2>3, <2>4
<1> QED
  BY <1>1, <1>2

LEMMA CreateStep ==
  ASSUME IInv, NEW b \in Objs, NEW h \in Streams, NEW i \in Ids, Create(b, h, i)
  PROVE  IInv'
<1> DEFINE d == [st |-> "writing", len |-> 0]
           n == [st |-> "open", of |-> i, by |-> b, writes |-> TRUE, pos |-> 0]
<1>0. TypeOK /\ data \in [Ids -> DataRec] /\ 0 \in 0..MaxLen
  BY BoundsAssumption DEF IInv, TypeOK
<1>1. /\ Live(b) /\ (Opened(b, h, i, 0, TRUE) \/ OpenedHalf(b, h, i, i, 0, TRUE))
      /\ strm[h].st = "none" /\ data[i].st = "none" /\ data' = [data EXCEPT ![i] = d]
  BY DEF Create, NextStrm, NextId
<1>2. d \in DataRec /\ d.st = "writing" /\ data'[i].len = 0
  BY <1>0, <1>1 DEF DataRec
<1> HIDE DEF d
<1>3. /\ StreamOpens(b, h, i, TRUE)
      /\ \E q \in BlobRec : bl' = [bl EXCEPT ![b] = q] /\ Becomes(b, h, i, 0, TRUE, q)
  BY <1>0, <1>1, BecomesOf
<1>4. Opens(h, i, b, n)
  BY <1>1, <1>2, <1>3 DEF Opens, StreamOpens
<1> QED
  BY <1>0, <1>1, <1>2, <1>3, <1>4, OpenedStep

LEMMA OpenStep ==
  ASSUME IInv, NEW b \in Objs, NEW h \in Streams, NEW i \in Ids, Open(b, h, i)
  PROVE  IInv'
<1> DEFINE n == [st |-> "open", of |-> i, by |-> b, writes |-> FALSE, pos |-> 0]
           len == data[i].len
<1>1. /\ Live(b) /\ (Opened(b, h, i, len, FALSE) \/ OpenedHalf(b, h, i, bl[b].id, len, FALSE))
      /\ strm[h].st = "none" /\ data[i].st \notin {"none", "writing"} /\ data' = data
      /\ len \in 0..MaxLen /\ len = data'[i].len
  BY DEF Open, IInv, TypeOK, DataRec, NextStrm, Readable
<1> HIDE DEF len
<1>2. /\ StreamOpens(b, h, i, FALSE)
      /\ \E q \in BlobRec : bl' = [bl EXCEPT ![b] = q] /\ Becomes(b, h, i, len, FALSE, q)
  BY <1>1, BecomesOf
<1>3. Opens(h, i, b, n)
  BY <1>1, <1>2 DEF Opens, StreamOpens
<1> QED
  BY <1>1, <1>2, <1>3, OpenedStep

\* create_blob_from_string and get_blob_contents: no object is involved.
LEMMA StringStep ==
  ASSUME IInv, NEW h \in Streams, NEW i \in Ids, NEW n \in StrmRec, n.st \in {"open", "closed"},
         Opens(h, i, "nobody", n), bl' = bl, tra' = tra
  PROVE  IInv'
<1>0. /\ TypeOK /\ strm[h].st = "none" /\ n.by = "nobody"
      /\ \A z \in Objs : bl[z].blob # 0 => bl[z].blob \in Streams
  BY BoundsAssumption DEF IInv, Opens, TypeOK, BlobRec, Streams
<1>1. /\ strm' \in [Streams -> StrmRec] /\ data' \in [Ids -> DataRec]
      /\ \A g \in Streams : strm'[g] = IF g = h THEN n ELSE strm[g]
      /\ Grounded' /\ OneWriter'
      /\ \A z \in Objs : bl[z].blob # 0 => bl[z].blob # h
      /\ \A z \in Objs : bl[z].id # 0 => data'[bl[z].id] = data[bl[z].id]
  BY OpensEffect
<1>2. strm[h].by = "nobody" /\ "nobody" \notin Objs
  BY <1>0, ObjsAssumption DEF IInv, Grounded
<1>3. TypeOK'
  BY <1>0, <1>1 DEF TypeOK
<1>4. Pointing' /\ OneCreator' /\ InfoTrue'
  BY <1>0, <1>1 DEF IInv, Pointing, OneCreator, InfoTrue, Live, Strm
<1>5. \A g \in Streams : strm'[g].by = strm[g].by
  BY <1>0, <1>1, <1>2
<1>6. Untouched' /\ PositionTrue'
  BY <1>0, <1>1, <1>5 DEF IInv, Untouched, PositionTrue, UsedOnce, Live, Strm
<1> QED
  BY <1>1, <1>3, <1>4, <1>6 DEF IInv

LEMMA BindStringStep ==
  ASSUME IInv, NEW h \in Streams, NEW i \in Ids, NEW len \in 0..MaxLen, BindString(h, i, len)
  PROVE  IInv'
<1>1. PICK st \in {"closed", "open"} :
        /\ strm' = [strm EXCEPT ![h] = [st |-> st, of |-> i, by |-> "nobody",
                                        writes |-> TRUE, pos |-> 0]]
        /\ data' = [data EXCEPT ![i] = IF st = "closed" THEN [st |-> "row", len |-> len]
                                       ELSE [st |-> "writing", len |-> 0]]
  BY DEF BindString
<1> DEFINE n == [st |-> st, of |-> i, by |-> "nobody", writes |-> TRUE, pos |-> 0]
           d == IF st = "closed" THEN [st |-> "row", len |-> len] ELSE [st |-> "writing", len |-> 0]
<1>2. n \in StrmRec /\ n.st = st
  BY BoundsAssumption DEF StrmRec, Ids
<1>3. d \in DataRec /\ (d.st = "writing" \/ (d.st = "row" /\ n.st = "closed"))
  BY BoundsAssumption DEF DataRec
<1>4. strm[h].st = "none" /\ data[i].st = "none" /\ bl' = bl /\ tra' = tra
  BY DEF BindString, NextStrm, NextId
<1>5. Opens(h, i, "nobody", n)
  <2>1. data' = [data EXCEPT ![i] = d] /\ strm' = [strm EXCEPT ![h] = n]
    BY <1>1
  <2> HIDE DEF d
  <2> QED
    BY <1>3, <1>4, <2>1 DEF Opens
<1> QED
  BY <1>2, <1>4, <1>5, StringStep

LEMMA FetchTextStep ==
  ASSUME IInv, NEW h \in Streams, NEW i \in Ids, FetchText(h, i)
  PROVE  IInv'
<1>1. PICK st \in {"closed", "open"} :
        strm' = [strm EXCEPT ![h] = [st |-> st, of |-> i, by |-> "nobody",
                                     writes |-> FALSE, pos |-> 0]]
  BY DEF FetchText
<1> DEFINE n == [st |-> st, of |-> i, by |-> "nobody", writes |-> FALSE, pos |-> 0]
<1>2. n \in StrmRec /\ n.st = st
  BY BoundsAssumption DEF StrmRec, Ids
<1>3. strm[h].st = "none" /\ data[i].st \notin {"none", "writing"} /\ bl' = bl /\ tra' = tra /\ data' = data
  BY DEF FetchText, NextStrm, Readable
<1>4. Opens(h, i, "nobody", n)
  BY <1>1, <1>3 DEF Opens
<1> QED
  BY <1>2, <1>3, <1>4, StringStep

-----------------------------------------------------------------------------
(* Steps on a stream that is open.                                         *)

\* What Usable promises of the stream of b, and of the blob under it.
LEMMA StreamOf ==
  ASSUME IInv, NEW b \in Objs, Usable(b)
  PROVE  /\ bl[b].blob \in Streams /\ bl[b] \in BlobRec /\ Strm(b) \in StrmRec
         /\ Strm(b).of \in Ids /\ data[Strm(b).of] \in DataRec
         /\ Strm(b).by = b /\ Strm(b).st = "open"
         /\ bl[b].half # "open" => bl[b].id = Strm(b).of /\ bl[b].id # 0
         /\ bl[b].half = "no" => bl[b].is_writable = Strm(b).writes
         /\ bl[b].half = "open" => ~Strm(b).writes
         /\ \A z \in Objs : bl[z].blob = bl[b].blob => z = b
<1>1. /\ TypeOK /\ bl[b] \in BlobRec /\ bl[b].blob # 0 /\ bl[b].obj = "live" /\ Strm(b).st = "open"
  BY DEF IInv, TypeOK, Usable, Live
<1>2. bl[b].blob \in Streams /\ strm[bl[b].blob] \in StrmRec
  BY <1>1, BoundsAssumption DEF TypeOK, BlobRec, Streams
<1>3. /\ bl[b].half # "open" => bl[b].id # 0
      /\ bl[b].half = "open" => ~Strm(b).writes
      /\ Strm(b).by = b
      /\ \A z \in Objs : bl[z].blob = bl[b].blob => z = b
  BY <1>1 DEF IInv, Pointing, Strm
<1>4. Strm(b).of \in Ids /\ data[Strm(b).of] \in DataRec
  BY <1>1, <1>2 DEF IInv, TypeOK, Grounded, Strm
<1> QED
  BY <1>1, <1>2, <1>3, <1>4 DEF IInv, InfoTrue, Live, Strm

\* b moves in its stream: only position and the place in the stream change,
\* and where b writes, the length that both of them know.
Moves(b, q, n, len) ==
  /\ bl' = [bl EXCEPT ![b] = q] /\ strm' = [strm EXCEPT ![bl[b].blob] = n]
  /\ data' = [data EXCEPT ![Strm(b).of] = [@ EXCEPT !.len = len]]
  /\ q.obj = "live" /\ q.blob = bl[b].blob /\ q.id = bl[b].id /\ q.half = bl[b].half
  /\ q.is_writable = bl[b].is_writable
  /\ q.total_length + data[Strm(b).of].len = bl[b].total_length + len
  /\ n.st = "open" /\ n.of = Strm(b).of /\ n.by = b /\ n.writes = Strm(b).writes
  /\ len = data[Strm(b).of].len \/ Writes(b)

LEMMA MovesStep ==
  ASSUME IInv, NEW b \in Objs, Usable(b), NEW q \in BlobRec, NEW n \in StrmRec,
         NEW len \in 0..MaxLen, Moves(b, q, n, len), tra' = tra,
         ~bl[b].is_writable /\ UsedOnce(b) => q.position = n.pos
  PROVE  IInv'
<1> DEFINE c == bl[b].blob
           i == Strm(b).of
<1>0. /\ TypeOK /\ c \in Streams /\ i \in Ids /\ c # 0 /\ i # 0 /\ strm[c].of = i /\ strm[c].by = b
      /\ strm[c].st = "open" /\ bl[b].obj = "live"
      /\ bl[b].half # "open" => bl[b].id = i
      /\ bl[b].half = "open" => ~strm[c].writes
      /\ data[i] \in DataRec /\ \A z \in Objs : bl[z].blob = c => z = b
  BY StreamOf DEF IInv, Usable, Live, Strm, Ids
<1>1. /\ bl' \in [Objs -> BlobRec] /\ \A z \in Objs : bl'[z] = IF z = b THEN q ELSE bl[z]
      /\ strm' \in [Streams -> StrmRec] /\ \A g \in Streams : strm'[g] = IF g = c THEN n ELSE strm[g]
  BY <1>0 DEF TypeOK, Moves
<1>2. /\ data' \in [Ids -> DataRec]
      /\ \A j \in Ids : data'[j].st = data[j].st
      /\ \A j \in Ids : j # i => data'[j].len = data[j].len
      /\ data'[i].len = len
  <2> DEFINE d == [data[i] EXCEPT !.len = len]
  <2>1. d \in DataRec /\ d.st = data[i].st /\ d.len = len /\ data' = [data EXCEPT ![i] = d]
    BY <1>0 DEF DataRec, Moves
  <2> HIDE DEF d
  <2> QED
    BY <1>0, <2>1 DEF TypeOK
<1>3. /\ q.obj = "live" /\ q.blob = c /\ q.id = bl[b].id /\ q.is_writable = bl[b].is_writable
      /\ q.half = bl[b].half /\ q.total_length + data[i].len = bl[b].total_length + len
      /\ n.st = "open" /\ n.of = i /\ n.by = b /\ n.writes = strm[c].writes
      /\ len = data[i].len \/ (strm[c].writes /\ bl[b].id = i)
  BY <1>0 DEF Moves, Writes, Strm
<1>4. \A z \in Objs : /\ bl[z].id # 0 => bl[z].id \in Ids
                      /\ bl[z].blob # 0 => bl[z].blob \in Streams
  BY <1>0, BoundsAssumption DEF TypeOK, BlobRec, Ids, Streams
<1> HIDE DEF c, i
<1>5. TypeOK'
  BY <1>0, <1>1, <1>2 DEF TypeOK
<1>6. Pointing'
  BY <1>0, <1>1, <1>3, <1>4 DEF IInv, Pointing, Live, Strm, c
<1>7. Grounded' /\ OneWriter'
  BY <1>0, <1>1, <1>2, <1>3 DEF IInv, Grounded, OneWriter
<1>8. OneCreator'
  <2>1. \A z \in Objs : bl'[z].id = bl[z].id
    BY <1>1, <1>3
  <2> QED
    BY <1>2, <1>4, <2>1 DEF IInv, OneCreator
<1>9. Untouched'
  <2>1. \A g \in Streams : strm'[g].by = strm[g].by
    BY <1>0, <1>1, <1>3
  <2> QED
    BY <1>0, <1>1, <2>1 DEF IInv, Untouched
<1>10. InfoTrue'
  <2> SUFFICES ASSUME NEW z \in Objs, bl'[z].obj = "live", bl'[z].id # 0, bl'[z].half # "open"
               PROVE  /\ data'[bl'[z].id].len <= bl'[z].total_length
                      /\ bl'[z].half = "no" => data'[bl'[z].id].len = bl'[z].total_length
                      /\ bl'[z].blob # 0 =>
                           /\ bl'[z].id = strm'[bl'[z].blob].of
                           /\ bl'[z].half = "no" => bl'[z].is_writable = strm'[bl'[z].blob].writes
    BY DEF InfoTrue, Live, Strm
  <2>1. CASE z = b
    <3>1. /\ data[i].len <= bl[b].total_length /\ (bl[b].half = "no" => data[i].len = bl[b].total_length)
          /\ bl[b].half = "no" => bl[b].is_writable = strm[c].writes
      BY <1>0, <1>1, <1>3, <2>1 DEF IInv, InfoTrue, Live, Strm, c
    <3>2. /\ data[i].len \in Nat /\ len \in Nat /\ bl[b].total_length \in Nat /\ q.total_length \in Nat
      BY <1>0, BoundsAssumption DEF DataRec, BlobRec, TypeOK
    <3>3. len <= q.total_length /\ (bl[b].half = "no" => len = q.total_length)
      BY <1>3, <3>1, <3>2
    <3> QED
      BY <1>0, <1>1, <1>2, <1>3, <2>1, <3>1, <3>3
  <2>2. CASE z # b
    <3>1. bl'[z] = bl[z] /\ bl[z].id \in Ids
      BY <1>1, <1>4, <2>2
    <3>2. bl[z].id = i => len = data[i].len
      BY <1>0, <1>3, <2>2, <3>1 DEF IInv, OneWriter, OneCreator
    <3>3. data'[bl[z].id].len = data[bl[z].id].len
      BY <1>2, <3>1, <3>2
    <3>4. bl[z].blob # 0 => bl[z].blob \in Streams /\ bl[z].blob # c
      BY <1>0, <1>4, <2>2
    <3> QED
      BY <1>1, <3>1, <3>3, <3>4 DEF IInv, InfoTrue, Live, Strm
  <2> QED
    BY <2>1, <2>2
<1>11. PositionTrue'
  <2>1. \A g \in Streams : strm'[g].by = strm[g].by
    BY <1>0, <1>1, <1>3
  <2>2. \A z \in Objs : UsedOnce(z)' = UsedOnce(z)
    BY <2>1 DEF UsedOnce
  <2> SUFFICES ASSUME NEW z \in Objs, bl'[z].obj = "live", bl'[z].blob # 0, ~bl'[z].is_writable,
                      UsedOnce(z)
               PROVE  bl'[z].position = strm'[bl'[z].blob].pos
    BY <2>2 DEF PositionTrue, Live, Strm
  <2>3. CASE z = b
    BY <1>0, <1>1, <1>3, <2>3
  <2>4. CASE z # b
    BY <1>0, <1>1, <1>4, <2>4 DEF IInv, PositionTrue, Live, Strm
  <2> QED
    BY <2>3, <2>4
<1> QED
  BY <1>5, <1>6, <1>7, <1>8, <1>9, <1>10, <1>11 DEF IInv

LEMMA PutStep ==
  ASSUME IInv, NEW b \in Objs, NEW n \in 0..MaxLen, Put(b, n)
  PROVE  IInv'
<1> DEFINE len == data[Strm(b).of].len + n
           q == [bl[b] EXCEPT !.position = @ + n, !.total_length = @ + n]
<1>0. /\ TypeOK /\ Usable(b) /\ Writes(b) /\ bl[b].is_writable /\ tra' = tra /\ strm' = strm
      /\ data[Strm(b).of].len + n <= MaxLen /\ bl[b].obj = "live"
  BY DEF IInv, Put, Writes, Usable, Live
<1>1. /\ bl[b].blob \in Streams /\ bl[b] \in BlobRec /\ Strm(b) \in StrmRec
      /\ Strm(b).of \in Ids /\ Strm(b).by = b /\ Strm(b).st = "open"
      /\ data[Strm(b).of] \in DataRec
  BY <1>0, StreamOf
<1>2. len \in 0..MaxLen /\ data[Strm(b).of].len \in Nat /\ n \in Nat
  BY <1>0, <1>1, BoundsAssumption DEF DataRec
<1>3. /\ q \in BlobRec /\ q.obj = "live" /\ q.blob = bl[b].blob /\ q.id = bl[b].id
      /\ q.is_writable = bl[b].is_writable /\ q.half = bl[b].half
      /\ q.total_length + data[Strm(b).of].len = bl[b].total_length + len
  <2>1. bl[b].position + n \in Nat /\ bl[b].total_length + n \in Nat /\ bl[b].total_length \in Nat
    BY <1>1, <1>2 DEF BlobRec
  <2>2. /\ q \in BlobRec /\ q.total_length = bl[b].total_length + n
    BY <1>1, <2>1 DEF BlobRec
  <2>3. /\ q.obj = "live" /\ q.blob = bl[b].blob /\ q.id = bl[b].id
        /\ q.is_writable = bl[b].is_writable /\ q.half = bl[b].half
    BY <1>0, <1>1 DEF BlobRec
  <2> HIDE DEF q
  <2> QED
    BY <1>2, <2>1, <2>2, <2>3
<1>4. /\ bl' = [bl EXCEPT ![b] = q] /\ strm' = [strm EXCEPT ![bl[b].blob] = Strm(b)]
      /\ data' = [data EXCEPT ![Strm(b).of] = [@ EXCEPT !.len = len]]
  <2>1. bl' = [bl EXCEPT ![b] = q]
    BY DEF Put
  <2>2. strm' = [strm EXCEPT ![bl[b].blob] = Strm(b)]
    BY <1>0, <1>1 DEF Strm, TypeOK
  <2>3. data' = [data EXCEPT ![Strm(b).of] = [@ EXCEPT !.len = len]]
    BY <1>0, <1>1 DEF Put, TypeOK, DataRec
  <2> QED
    BY <2>1, <2>2, <2>3
<1> HIDE DEF q, len
<1>5. Moves(b, q, Strm(b), len)
  BY <1>0, <1>1, <1>3, <1>4 DEF Moves
<1> QED
  BY <1>0, <1>1, <1>2, <1>3, <1>5, MovesStep

\* The length of what is read stays what it was.
LEMMA SameLength ==
  ASSUME TypeOK, NEW i \in Ids, UNCHANGED data
  PROVE  data' = [data EXCEPT ![i] = [@ EXCEPT !.len = data[i].len]]
<1>1. [data[i] EXCEPT !.len = data[i].len] = data[i]
  BY DEF TypeOK, DataRec
<1> QED
  BY <1>1 DEF TypeOK

LEMMA GetStep ==
  ASSUME IInv, NEW b \in Objs, NEW max_len \in 0..MaxLen, Get(b, max_len)
  PROVE  IInv'
<1>0. /\ TypeOK /\ Usable(b) /\ ~bl[b].is_writable /\ tra' = tra /\ data' = data
      /\ bl[b].position <= bl[b].total_length /\ bl[b].obj = "live"
  BY DEF IInv, Get, Reads, Usable, Live
<1>1. /\ bl[b].blob \in Streams /\ bl[b] \in BlobRec /\ Strm(b) \in StrmRec
      /\ Strm(b).of \in Ids /\ Strm(b).by = b /\ data[Strm(b).of] \in DataRec
      /\ Strm(b).st = "open"
  BY <1>0, StreamOf
<1>2. PICK k \in 0..Asked(b, max_len) :
        /\ k <= data[Strm(b).of].len - Strm(b).pos
        /\ bl' = [bl EXCEPT ![b].position = @ + k]
        /\ strm' = [strm EXCEPT ![bl[b].blob].pos = @ + k]
  BY DEF Get
<1>3. k \in Nat
  BY <1>2
<1> DEFINE q == [bl[b] EXCEPT !.position = @ + k]
           n == [Strm(b) EXCEPT !.pos = @ + k]
           len == data[Strm(b).of].len
<1>4. /\ q \in BlobRec /\ q.obj = "live" /\ q.blob = bl[b].blob /\ q.id = bl[b].id
      /\ q.is_writable = bl[b].is_writable /\ q.half = bl[b].half
      /\ q.total_length = bl[b].total_length /\ q.position = bl[b].position + k
  BY <1>0, <1>1, <1>3 DEF BlobRec
<1>5. /\ n \in StrmRec /\ n.st = "open" /\ n.of = Strm(b).of /\ n.by = b /\ n.writes = Strm(b).writes
      /\ n.pos = Strm(b).pos + k
  <2>1. Strm(b).pos + k \in 0..MaxLen
    BY <1>1, <1>2, <1>3, BoundsAssumption DEF StrmRec, DataRec
  <2> QED
    BY <1>1, <2>1 DEF StrmRec
<1>6. bl' = [bl EXCEPT ![b] = q] /\ strm' = [strm EXCEPT ![bl[b].blob] = n]
  BY <1>0, <1>1, <1>2 DEF Strm, TypeOK, BlobRec, StrmRec
<1>7. len \in 0..MaxLen /\ data' = [data EXCEPT ![Strm(b).of] = [@ EXCEPT !.len = len]]
      /\ bl[b].total_length \in Nat
  BY <1>0, <1>1, SameLength DEF DataRec, BlobRec
<1>8. UsedOnce(b) => q.position = n.pos
  BY <1>0, <1>4, <1>5 DEF IInv, PositionTrue, Usable
<1> HIDE DEF q, n, len
<1>9. Moves(b, q, n, len)
  BY <1>4, <1>5, <1>6, <1>7 DEF Moves, len
<1> QED
  BY <1>0, <1>4, <1>5, <1>7, <1>8, <1>9, MovesStep

LEMMA SeekStep ==
  ASSUME IInv, NEW b \in Objs, NEW to \in 0..MaxLen, Seek(b, to)
  PROVE  IInv'
<1>0. TypeOK /\ Usable(b) /\ tra' = tra /\ data' = data /\ bl[b].obj = "live"
  BY DEF IInv, Seek, Usable, Live
<1>1. /\ bl[b].blob \in Streams /\ bl[b] \in BlobRec /\ Strm(b) \in StrmRec
      /\ Strm(b).of \in Ids /\ Strm(b).by = b /\ data[Strm(b).of] \in DataRec
      /\ Strm(b).st = "open"
  BY <1>0, StreamOf
<1> DEFINE q == [bl[b] EXCEPT !.position = to]
           n == [Strm(b) EXCEPT !.pos = to]
           len == data[Strm(b).of].len
<1>2. /\ q \in BlobRec /\ q.obj = "live" /\ q.blob = bl[b].blob /\ q.id = bl[b].id
      /\ q.is_writable = bl[b].is_writable /\ q.half = bl[b].half
      /\ q.total_length = bl[b].total_length /\ q.position = to
  BY <1>0, <1>1, BoundsAssumption DEF BlobRec
<1>3. /\ n \in StrmRec /\ n.st = "open" /\ n.of = Strm(b).of /\ n.by = b /\ n.writes = Strm(b).writes
      /\ n.pos = to
  BY <1>1 DEF StrmRec
<1>4. bl' = [bl EXCEPT ![b] = q] /\ strm' = [strm EXCEPT ![bl[b].blob] = n]
  BY <1>0, <1>1 DEF Seek, Strm, TypeOK, BlobRec, StrmRec
<1>5. len \in 0..MaxLen /\ data' = [data EXCEPT ![Strm(b).of] = [@ EXCEPT !.len = len]]
      /\ bl[b].total_length \in Nat
  BY <1>0, <1>1, SameLength DEF DataRec, BlobRec
<1> HIDE DEF q, n, len
<1>6. Moves(b, q, n, len)
  BY <1>2, <1>3, <1>4, <1>5 DEF Moves, len
<1> QED
  BY <1>0, <1>2, <1>3, <1>5, <1>6, MovesStep

\* What the end of a stream leaves as it was, in the streams and in the blobs.
LEMMA FinishEffect ==
  ASSUME IInv, NEW c \in Streams, strm[c].st # "none", NEW to \in {"stored", "lost"}, Finish(c, to)
  PROVE  /\ strm' \in [Streams -> StrmRec] /\ data' \in [Ids -> DataRec]
         /\ \A g \in Streams : /\ strm'[g].of = strm[g].of /\ strm'[g].by = strm[g].by
                               /\ strm'[g].writes = strm[g].writes /\ strm'[g].pos = strm[g].pos
                               /\ strm'[g].st = IF g = c THEN "closed" ELSE strm[g].st
         /\ \A i \in Ids : /\ data'[i].len = data[i].len
                           /\ data'[i].st = "none" <=> data[i].st = "none"
                           /\ data'[i].st = "writing" => data[i].st = "writing"
         /\ \A g \in Streams \ {c} : strm[g].st = "open" /\ strm[g].writes => data'[strm[g].of].st = "writing"
<1>0. TypeOK /\ strm[c] \in StrmRec /\ strm[c].of \in Ids /\ data[strm[c].of].st # "none"
  BY DEF IInv, TypeOK, Grounded
<1> DEFINE n == [strm[c] EXCEPT !.st = "closed"]
           i == strm[c].of
           d == [data[i] EXCEPT !.st = to]
<1>1. /\ n \in StrmRec /\ n.of = strm[c].of /\ n.by = strm[c].by /\ n.writes = strm[c].writes
      /\ n.pos = strm[c].pos /\ n.st = "closed"
  BY <1>0 DEF StrmRec
<1>2. d \in DataRec /\ d.len = data[i].len /\ d.st = to
  BY <1>0 DEF TypeOK, DataRec
<1>3. /\ strm' = [strm EXCEPT ![c] = n]
      /\ data' = IF strm[c].st = "open" /\ strm[c].writes THEN [data EXCEPT ![i] = d] ELSE data
  BY <1>0 DEF Finish, TypeOK, StrmRec, DataRec
<1> HIDE DEF n, d
<1>4. strm' \in [Streams -> StrmRec] /\ \A g \in Streams : strm'[g] = IF g = c THEN n ELSE strm[g]
  BY <1>0, <1>1, <1>3 DEF TypeOK
<1>5. CASE strm[c].st = "open" /\ strm[c].writes
  <2>1. data' \in [Ids -> DataRec] /\ \A j \in Ids : data'[j] = IF j = i THEN d ELSE data[j]
    BY <1>0, <1>2, <1>3, <1>5 DEF TypeOK
  <2>2. ASSUME NEW g \in Streams \ {c}, strm[g].st = "open", strm[g].writes
        PROVE  data'[strm[g].of].st = "writing"
    BY <1>5, <2>1, <2>2 DEF IInv, OneWriter, Grounded
  <2> QED
    BY <1>0, <1>1, <1>2, <1>4, <2>1, <2>2
<1>6. CASE ~(strm[c].st = "open" /\ strm[c].writes)
  <2>1. data' = data
    BY <1>3, <1>6
  <2> QED
    BY <1>0, <1>1, <1>4, <2>1 DEF IInv, OneWriter, TypeOK
<1> QED
  BY <1>5, <1>6

\* An object lets go of its stream, if it has one: close, cancel, free_obj.
LEMMA LetGoStep ==
  ASSUME IInv, NEW b \in Objs, Live(b), tra' = tra, NEW to \in {"stored", "lost"},
         IF bl[b].blob # 0 THEN Finish(bl[b].blob, to) ELSE UNCHANGED <<strm, data>>,
         NEW q \in BlobRec, bl' = [bl EXCEPT ![b] = q], q.blob = 0,
         \/ q.obj = "live" /\ q.id = bl[b].id /\ q.total_length = bl[b].total_length
            /\ q.position = bl[b].position /\ q.half = bl[b].half
         \/ q.obj = "freed" /\ q.id = 0 /\ q.position = 0
  PROVE  IInv'
<1> DEFINE c == bl[b].blob
<1>0. /\ TypeOK /\ bl[b].obj = "live" /\ \A g \in Streams : g # 0
      /\ \A z \in Objs : /\ bl[z].id # 0 => bl[z].id \in Ids
                         /\ bl[z].blob # 0 => /\ bl[z].blob \in Streams /\ strm[bl[z].blob].st # "none"
                                              /\ strm[bl[z].blob].by = z
  BY BoundsAssumption DEF IInv, TypeOK, BlobRec, Ids, Streams, Pointing, Live, Strm
<1>1. bl' \in [Objs -> BlobRec] /\ \A z \in Objs : bl'[z] = IF z = b THEN q ELSE bl[z]
  BY <1>0 DEF TypeOK
<1>2. /\ strm' \in [Streams -> StrmRec] /\ data' \in [Ids -> DataRec]
      /\ \A g \in Streams : /\ strm'[g].of = strm[g].of /\ strm'[g].by = strm[g].by
                            /\ strm'[g].writes = strm[g].writes /\ strm'[g].pos = strm[g].pos
                            /\ strm'[g].st = IF g = c THEN "closed" ELSE strm[g].st
      /\ \A i \in Ids : /\ data'[i].len = data[i].len
                        /\ data'[i].st = "none" <=> data[i].st = "none"
                        /\ data'[i].st = "writing" => data[i].st = "writing"
      /\ \A g \in Streams \ {c} : strm[g].st = "open" /\ strm[g].writes => data'[strm[g].of].st = "writing"
  <2>1. CASE c # 0
    BY <1>0, <2>1, FinishEffect
  <2>2. CASE c = 0
    BY <1>0, <2>2 DEF TypeOK, IInv, OneWriter
  <2> QED
    BY <2>1, <2>2
<1>3. \A z \in Objs : z # b /\ bl[z].blob # 0 => bl[z].blob # c
  BY <1>0
<1> HIDE DEF c
<1>4. TypeOK'
  BY <1>0, <1>1, <1>2 DEF TypeOK
<1>5. Pointing'
  BY <1>0, <1>1, <1>2, <1>3 DEF IInv, Pointing, Live, Strm
<1>6. Grounded'
  BY <1>0, <1>2 DEF IInv, Grounded, c
<1>7. OneWriter'
  BY <1>2 DEF IInv, OneWriter
<1>8. OneCreator'
  <2>1. \A z \in Objs : bl'[z].id \in {0, bl[z].id}
    BY <1>1
  <2> QED
    BY <1>0, <1>2, <2>1 DEF IInv, OneCreator
<1>9. Untouched'
  BY <1>1, <1>2 DEF IInv, Untouched
<1>10. InfoTrue'
  <2> SUFFICES ASSUME NEW z \in Objs, bl'[z].obj = "live", bl'[z].id # 0, bl'[z].half # "open"
               PROVE  /\ data'[bl'[z].id].len <= bl'[z].total_length
                      /\ bl'[z].half = "no" => data'[bl'[z].id].len = bl'[z].total_length
                      /\ bl'[z].blob # 0 =>
                           /\ bl'[z].id = strm'[bl'[z].blob].of
                           /\ bl'[z].half = "no" => bl'[z].is_writable = strm'[bl'[z].blob].writes
    BY DEF InfoTrue, Live, Strm
  <2>1. /\ bl'[z].id = bl[z].id /\ bl'[z].total_length = bl[z].total_length /\ bl[z].obj = "live"
        /\ bl'[z].half = bl[z].half /\ (bl'[z].blob # 0 => bl'[z] = bl[z])
    BY <1>0, <1>1
  <2> QED
    BY <1>0, <1>2, <2>1 DEF IInv, InfoTrue, Live, Strm
<1>11. PositionTrue'
  <2>1. \A z \in Objs : UsedOnce(z)' = UsedOnce(z)
    BY <1>2 DEF UsedOnce
  <2> SUFFICES ASSUME NEW z \in Objs, bl'[z].obj = "live", bl'[z].blob # 0, ~bl'[z].is_writable,
                      UsedOnce(z)
               PROVE  bl'[z].position = strm'[bl'[z].blob].pos
    BY <2>1 DEF PositionTrue, Live, Strm
  <2>2. bl'[z] = bl[z]
    BY <1>1
  <2> QED
    BY <1>0, <1>2, <2>2 DEF IInv, PositionTrue, Live, Strm
<1> QED
  BY <1>4, <1>5, <1>6, <1>7, <1>8, <1>9, <1>10, <1>11 DEF IInv

LEMMA CloseStep ==
  ASSUME IInv, NEW b \in Objs, NEW to \in {"stored", "lost"}, Close(b, to)
  PROVE  IInv'
<1> DEFINE q == [bl[b] EXCEPT !.blob = 0]
<1>0. TypeOK /\ bl[b] \in BlobRec /\ Live(b) /\ bl[b].obj = "live" /\ tra' = tra /\ bl[b].blob # 0
      /\ Finish(bl[b].blob, to)
  BY DEF IInv, TypeOK, Close, Live
<1>1. bl' = [bl EXCEPT ![b] = q]
  BY <1>0 DEF Close, TypeOK, BlobRec
<1>2. /\ q \in BlobRec /\ q.blob = 0 /\ q.obj = "live" /\ q.id = bl[b].id
      /\ q.total_length = bl[b].total_length /\ q.position = bl[b].position /\ q.half = bl[b].half
  BY <1>0, BoundsAssumption DEF BlobRec
<1> HIDE DEF q
<1> QED
  BY <1>0, <1>1, <1>2, LetGoStep

LEMMA FreeStep ==
  ASSUME IInv, NEW b \in Objs, Free(b)
  PROVE  IInv'
<1> DEFINE q == [NoBlob EXCEPT !.obj = "freed"]
<1>0. /\ Live(b) /\ tra' = tra /\ bl' = [bl EXCEPT ![b] = q]
      /\ IF bl[b].blob # 0 THEN Finish(bl[b].blob, "stored") ELSE UNCHANGED <<strm, data>>
  BY DEF Free
<1>1. NoBlob \in BlobRec
  BY BoundsAssumption DEF NoBlob, BlobRec
<1>2. q \in BlobRec /\ q.blob = 0 /\ q.obj = "freed" /\ q.id = 0 /\ q.position = 0
  BY <1>1 DEF NoBlob, BlobRec
<1> HIDE DEF q
<1> QED
  BY <1>0, <1>2, LetGoStep

-----------------------------------------------------------------------------
(* The invariant, and what follows from it.                                *)

LEMMA Inductive == Spec => []IInv
<1>1. IInv /\ [Next]_vars => IInv'
  <2> SUFFICES ASSUME IInv, [Next]_vars PROVE IInv'
    OBVIOUS
  <2>1. CASE UNCHANGED vars
    <3>1. TypeOK'
      BY <2>1 DEF vars, IInv, TypeOK
    <3>2. Quiet
      BY <2>1 DEF vars, IInv, Quiet, StrmKept, OneWriter
    <3> QED
      BY <3>1, <3>2, QuietStep
  <2>2. ASSUME NEW b \in Objs, OpenAborts(b) \/ GetNegative(b) PROVE IInv'
    BY <2>2, ResetStep DEF OpenAborts, GetNegative
  <2>3. CASE Next
    BY <2>2, <2>3, ResetStep, TransactionStep, NewStep, FreeStep, CreateStep, OpenStep, PutStep,
       GetStep, SeekStep, CloseStep, FetchTextStep, BindStringStep DEF Next
  <2> QED
    BY <2>1, <2>3
<1> QED
  BY <1>1, InitInv, PTL DEF Spec

\* Every variable keeps its type; a length never leaves what the server has.
THEOREM Typed == Spec => []TypeOK
<1>1. IInv => TypeOK
  BY DEF IInv
<1> QED
  BY <1>1, Inductive, PTL

\* What info says of a blob is what the server has, whatever became of the stream.
\* After a create() whose query_info failed the id still is and the length is no
\* less; after such an open() nothing is promised (fbp/blob.cpp:43, 53).
THEOREM InfoIsTrue == Spec => []InfoTrue
<1>1. IInv => InfoTrue
  BY DEF IInv
<1> QED
  BY <1>1, Inductive, PTL

\* position follows what was read, also when it is less than was asked for
\* (fbp/blob.cpp:79).
THEOREM PositionIsTrue == Spec => []PositionTrue
<1>1. IInv => PositionTrue
  BY DEF IInv
<1> QED
  BY <1>1, Inductive, PTL

\* A stream that an object holds is closed before the object lets go of it,
\* unless the object opens another one.
THEOREM StreamsAreKept == Spec => StreamsKept
<1> DEFINE Kept ==
      \A b \in Objs : Live(b) /\ bl[b].blob # 0 /\ strm'[bl[b].blob].st \in {"open", "dead"} =>
        bl'[b].obj = "live" /\ bl'[b].blob # 0
<1>1. IInv /\ [Next]_vars => [Kept]_vars
  <2> SUFFICES ASSUME IInv, Next,
                      NEW b \in Objs, bl[b].obj = "live", bl[b].blob # 0,
                      strm'[bl[b].blob].st \in {"open", "dead"}
               PROVE  bl'[b].obj = "live" /\ bl'[b].blob # 0
    BY DEF Live
  <2>0. /\ TypeOK /\ bl[b] \in BlobRec /\ bl[b].blob \in Streams
        /\ \A h \in Streams : h # 0
    BY BoundsAssumption DEF IInv, TypeOK, BlobRec, Streams
  <2>7. \A z \in Objs : bl[z].blob = bl[b].blob => z = b
    BY DEF IInv, Pointing, Strm
  <2>1. CASE bl' = bl
    BY <2>1
  <2>2. CASE Reset
    BY <2>0, <2>2 DEF Reset, NoStrm
  <2>3. ASSUME NEW z \in Objs, New(z) PROVE bl'[b].obj = "live" /\ bl'[b].blob # 0
    BY <2>0, <2>3 DEF New, TypeOK
  <2>4. ASSUME NEW z \in Objs, NEW h \in Streams, NEW i \in Ids, Create(z, h, i) \/ Open(z, h, i)
        PROVE  bl'[b].obj = "live" /\ bl'[b].blob # 0
    <3>1. ASSUME NEW len, NEW writes, Opened(z, h, i, len, writes)
          PROVE  bl'[b].obj = "live" /\ bl'[b].blob # 0
      BY <2>0, <3>1 DEF Opened, TypeOK
    <3>2. ASSUME NEW id, NEW len, NEW writes, OpenedHalf(z, h, i, id, len, writes)
          PROVE  bl'[b].obj = "live" /\ bl'[b].blob # 0
      <4>1. PICK told \in {len, bl[z].total_length} :
              bl' = [bl EXCEPT ![z] = [obj |-> "live", blob |-> h, id |-> id, total_length |-> told,
                                       position |-> bl[z].position,
                                       is_writable |-> bl[z].is_writable,
                                       half |-> IF writes THEN "create" ELSE "open"]]
        BY <3>2 DEF OpenedHalf
      <4> QED
        BY <2>0, <4>1 DEF TypeOK
    <3> QED
      BY <2>4, <3>1, <3>2 DEF Create, Open
  <2>5. ASSUME NEW z \in Objs, NEW n \in 0..MaxLen, Put(z, n) \/ Get(z, n) \/ Seek(z, n)
        PROVE  bl'[b].obj = "live" /\ bl'[b].blob # 0
    <3>1. PICK p, len : bl' = [bl EXCEPT ![z].position = p, ![z].total_length = len]
                        \/ bl' = [bl EXCEPT ![z].position = p]
      BY <2>5 DEF Put, Get, Seek
    <3> QED
      BY <2>0, <3>1 DEF TypeOK, BlobRec
  <2>6. ASSUME NEW z \in Objs, Free(z) \/ \E st \in {"stored", "lost"} : Close(z, st)
        PROVE  bl'[b].obj = "live" /\ bl'[b].blob # 0
    <3>1. z = b => strm'[bl[b].blob].st = "closed"
      BY <2>0, <2>6 DEF Free, Close, Finish, TypeOK, StrmRec
    <3>2. z # b => bl'[b] = bl[b]
      BY <2>0, <2>6 DEF Free, Close, TypeOK
    <3> QED
      BY <3>1, <3>2
  <2> QED
    BY <2>1, <2>2, <2>3, <2>4, <2>5, <2>6 DEF Next, StartTran, EndTran, Retain, OpenAborts,
       GetNegative, Bind, FetchText, BindString
<1> QED
  BY <1>1, Inductive, PTL DEF Spec, StreamsKept
=============================================================================
