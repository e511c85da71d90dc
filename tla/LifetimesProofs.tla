--------------------------- MODULE LifetimesProofs ---------------------------
(***************************************************************************)
(* The safety of Lifetimes for any number of objects and places.           *)
(***************************************************************************)
EXTENDS Lifetimes, TLAPS

\* The object has handles of a C++ object that it was given and has not freed.
Has(o) == o \in Kids /\ php[o].live /\ php[o].h # 0
Own(o) == Name(Kind(o), php[o].dbh, php[o].h)

\* The Database at the top of an object's parent properties.
Root(o) == IF o \in Trs THEN php[o].parent ELSE php[php[o].parent].parent

\* Everything that names a place names one that was given out.
Places ==
  /\ dbs \subseteq 1 .. dbs_made
  /\ ended \subseteq 1 .. dbs_made /\ ended \cap dbs = {}
  /\ \A c \in cpp : c.db \in dbs /\ c.at <= made[c.list][c.db]
  /\ \A n \in left : n.db <= dbs_made /\ n.at <= made[n.list][n.db]
  /\ phase = "script" => \A o \in Objs : php[o].live => php[o].dbh <= dbs_made
  /\ phase = "script" => \A o \in Kids : Has(o) => php[o].h <= made[Kind(o)][php[o].dbh]

\* A PHP object that is not alive has no handles, and after RSHUTDOWN nothing
\* is left but PHP objects.
Ends ==
  /\ doomed \subseteq Live
  /\ \A o \in Objs : ~php[o].live => php[o] = Zeroed
  /\ phase = "ending" => dbs = {} /\ cpp = {} /\ left = {} /\ doomed = Live

Unique ==
  /\ \A a, b \in Kids : Has(a) /\ Has(b) /\ Own(a) = Own(b) => a = b
  /\ \A a, b \in Dbs : php[a].live /\ php[b].live /\ php[a].dbh # 0
                       /\ php[a].dbh = php[b].dbh => a = b

\* A C++ object that was let go is not owned, and stays while its Database does.
LeftStays ==
  /\ \A o \in Kids : Has(o) => Own(o) \notin left
  /\ \A n \in left : n.db \in dbs => n \in Held

\* While a Database is there, so is every C++ object that a PHP object owns.
OwnedStays ==
  /\ \A o \in Kids : Has(o) /\ php[o].dbh \in dbs => Own(o) \in Held
  /\ phase = "script" => \A d \in Dbs : php[d].live /\ php[d].dbh # 0 => php[d].dbh \in dbs

InfoNamed ==
  \A o \in Kids : Has(o) =>
    /\ php[o].dbh # 0 /\ php[o].info # 0
    /\ php[o].info = php[o].h \/ phase = "ending"
       \/ Name(Kind(o), php[o].dbh, php[o].info) \in left

\* The reference counts: a parent lives as long as its children.
Parents ==
  /\ phase = "script" => \A o \in Kids : php[o].live /\ php[o].parent # Nobody =>
       /\ php[o].parent \in ParentOf(o)
       /\ o \notin doomed =>
            /\ php[php[o].parent].live /\ php[o].parent \notin doomed
            /\ o \notin Trs => php[php[o].parent].parent \in Dbs
  /\ \A o \in Kids : Has(o) => php[o].parent # Nobody

\* The handles of an object lead to the Database that its parents keep.
Chain ==
  phase = "script" => \A o \in Kids \ doomed : Has(o) /\ ~php[o].adrift =>
    php[Root(o)].dbh = php[o].dbh \/ php[o].dbh \in ended

\* The C++ Transaction below a Statement or a Blob is its parent's, or one that
\* its parent has let go.
Below ==
  phase = "script" => \A c \in cpp : \A o \in (Sts \union Bls) \ doomed :
    Has(o) /\ ~php[o].adrift /\ NameOf(c) = Own(o) =>
      /\ c.tra # 0
      /\ \/ php[php[o].parent].dbh = c.db /\ php[php[o].parent].h = c.tra
         \/ Name("tr", c.db, c.tra) \in left

IInv == /\ TypeOK /\ Places /\ Ends /\ Unique /\ LeftStays /\ OwnedStays
        /\ InfoNamed /\ Parents /\ Chain /\ Below /\ NoOrphans

------------------------------------------------------------------------------
(* Lemmas about names and types.                                            *)

\* Two names are equal when their components are.
LEMMA NameEq ==
  ASSUME NEW k, NEW d, NEW n, NEW l, NEW e, NEW m
  PROVE  Name(k, d, n) = Name(l, e, m) <=> k = l /\ d = e /\ n = m
  BY DEF Name

LEMMA KindType == \A o \in Kids : Kind(o) \in Lists /\ o \in Objs
  BY DEF Kind, Lists, Kids, Objs

\* The classes are disjoint.
LEMMA Classes ==
  /\ \A o \in Trs : o \in Kids /\ o \in Objs /\ o \notin Sts /\ o \notin Bls /\ o \notin Dbs /\ Kind(o) = "tr"
  /\ \A o \in Sts : o \in Kids /\ o \in Objs /\ o \notin Trs /\ o \notin Bls /\ o \notin Dbs /\ Kind(o) = "st"
  /\ \A o \in Bls : o \in Kids /\ o \in Objs /\ o \notin Trs /\ o \notin Sts /\ o \notin Dbs /\ Kind(o) = "bl"
  /\ \A o \in Dbs : o \in Objs /\ o \notin Kids /\ o \notin Trs /\ o \notin Sts /\ o \notin Bls
  /\ Nobody \notin Objs
  BY Disjoint DEF Kids, Objs, Kind

\* The fields of a PHP object, its name and the names of C++ objects.
LEMMA Fields ==
  ASSUME TypeOK, NEW o \in Objs
  PROVE  /\ php[o].live \in BOOLEAN /\ php[o].prepared \in BOOLEAN /\ php[o].adrift \in BOOLEAN
         /\ php[o].parent \in Dbs \union Trs \union {Nobody}
         /\ php[o].dbh \in 0 .. MaxDb /\ php[o].h \in 0 .. MaxSlot /\ php[o].info \in 0 .. MaxSlot
         /\ php[o].dbh \in Int /\ php[o].h \in Int /\ php[o].info \in Int
         /\ Own(o).list = Kind(o) /\ Own(o).db = php[o].dbh /\ Own(o).at = php[o].h
  BY Bounds DEF TypeOK, Php, Own, Name

LEMMA CppFields ==
  ASSUME TypeOK, NEW c \in cpp
  PROVE  /\ c.list \in Lists /\ c.db \in DbPlaces /\ c.at \in 1 .. MaxSlot /\ c.tra \in 0 .. MaxSlot
         /\ c.at \in Int /\ c.db \in Int /\ c.tra \in Int
         /\ NameOf(c).list = c.list /\ NameOf(c).db = c.db /\ NameOf(c).at = c.at
         /\ made[c.list][c.db] \in Int
  BY Bounds DEF TypeOK, Cpp, NameOf, Name, DbPlaces

LEMMA Inits == Init => IInv
<1> SUFFICES ASSUME Init PROVE IInv
  OBVIOUS
<1>1. \A o \in Objs : php[o] = Zeroed /\ ~php[o].live
  BY DEF Init, Zeroed
<1>2. Live = {}
  BY <1>1 DEF Live
<1>3. TypeOK
  BY Bounds DEF Init, TypeOK, Php, Zeroed, DbPlaces, Lists, Objs
<1>4. Places /\ Ends
  BY <1>1, <1>2, KindType DEF Init, Places, Ends, Has
<1>5. Unique /\ LeftStays /\ OwnedStays /\ InfoNamed /\ Parents /\ Chain /\ Below /\ NoOrphans
  BY <1>1, KindType, Classes DEF Init, Unique, LeftStays, OwnedStays, InfoNamed, Parents, Chain,
     Below, NoOrphans, Has
<1> QED
  BY <1>3, <1>4, <1>5 DEF IInv

LEMMA ConnectStep ==
  ASSUME IInv, NEW d \in Dbs, Connect(d)
  PROVE  IInv'
<1> DEFINE m == dbs_made + 1
<1> USE DEF IInv, Running
<1>1. /\ d \in Objs /\ phase = "script" /\ ~php[d].live /\ dbs_made < MaxDb /\ dbs_made' = m
      /\ UNCHANGED <<phase, doomed, cpp, made, ended, left>> /\ doomed = {}
      /\ dbs_made \in Nat /\ m \in DbPlaces /\ m \notin dbs /\ m # 0
  BY Bounds, Classes DEF Connect, TypeOK, Places, DbPlaces
<1>2. Held' = Held
  BY <1>1 DEF Held
<1>3. \A o \in Kids : php'[o] = php[o] /\ o \in Objs /\ (Has(o)' <=> Has(o)) /\ Own(o)' = Own(o)
  BY <1>1, Classes, KindType DEF Connect, TypeOK, Has, Own
<1>4. \A o \in Kids : php[o].live => php[o].dbh # m
  BY <1>1, <1>3, Fields DEF Places
<1>7. \A n \in left : n.db \in Int
  BY DEF TypeOK, DbPlaces
<1>5. CASE UNCHANGED <<php, dbs>>
  <2>1. TypeOK'
    BY <1>1, <1>5, Bounds DEF TypeOK, DbPlaces
  <2>2. Places'
    <3>1. \A o \in Objs : php'[o].live => php'[o].dbh <= dbs_made'
      BY <1>1, <1>5, Fields DEF Places
    <3>2. \A n \in left' : n.db <= dbs_made' /\ n.at <= made'[n.list][n.db]
      BY <1>1, <1>7 DEF Places
    <3> QED
      BY <1>1, <1>5, <1>3, <3>1, <3>2 DEF Places
  <2>3. (Ends /\ Unique /\ LeftStays /\ OwnedStays /\ InfoNamed /\ Parents /\ Chain /\ Below /\ NoOrphans)'
    BY <1>1, <1>2, <1>3, <1>5 DEF Ends, Unique, LeftStays, OwnedStays, InfoNamed, Parents, Chain,
       Below, NoOrphans, Live, Has, Own, Root
  <2> QED
    BY <2>1, <2>2, <2>3
<1>6. CASE /\ php' = [php EXCEPT ![d] = [Zeroed EXCEPT !.live = TRUE, !.dbh = m]]
           /\ dbs' = dbs \union {m}
  <2>0. [Zeroed EXCEPT !.live = TRUE, !.dbh = m] \in Php
    <3>1. Zeroed \in Php
      BY Bounds DEF Zeroed, Php
    <3>2. m \in 0 .. MaxDb /\ 0 \in 0 .. MaxSlot
      BY <1>1, Bounds DEF DbPlaces
    <3> QED
      BY <3>1, <3>2 DEF Php
  <2>1. /\ php'[d].live /\ php'[d].dbh = m
        /\ \A o \in Objs : o # d => php'[o] = php[o]
        /\ php' \in [Objs -> Php]
    BY <1>1, <1>6, <2>0 DEF Zeroed, TypeOK
  <2>2. TypeOK'
    BY <1>1, <1>6, <2>1, Bounds DEF TypeOK, DbPlaces
  <2>3. Places'
    <3>1. dbs' \subseteq 1 .. dbs_made' /\ ended' \subseteq 1 .. dbs_made' /\ ended' \cap dbs' = {}
      BY <1>1, <1>6 DEF Places
    <3>3. \A n \in left' : n.db <= dbs_made' /\ n.at <= made'[n.list][n.db]
      BY <1>1, <1>7 DEF Places
    <3>4. \A o \in Objs : php'[o].live => php'[o].dbh <= dbs_made'
      BY <1>1, <2>1, Fields DEF Places
    <3> QED
      BY <1>1, <1>3, <1>6, <3>1, <3>3, <3>4 DEF Places
  <2>4. Ends'
    BY <1>1, <2>1 DEF Ends, Live
  <2>5. Unique'
    BY <1>1, <1>3, <2>1, Fields, Classes DEF Unique, Places
  <2>6. LeftStays'
    <3>1. \A n \in left : n.db # m
      BY <1>1 DEF TypeOK, Places
    <3> QED
      BY <1>1, <1>2, <1>3, <1>6, <3>1 DEF LeftStays
  <2>7. OwnedStays'
    BY <1>1, <1>2, <1>3, <1>4, <1>6, <2>1 DEF OwnedStays, Has
  <2>8. InfoNamed'
    BY <1>1, <1>3 DEF InfoNamed
  <2>9. \A o \in Kids : php[o].parent # d \/ php[o].parent = Nobody \/ ~php[o].live
    BY <1>1 DEF Parents
  <2>10. Parents'
    BY <1>1, <1>3, <2>1, <2>9, Classes DEF Parents, ParentOf
  <2>11. Chain'
    BY <1>1, <1>3, <1>6, <2>1, <2>9, Classes DEF Chain, Root, Parents, ParentOf, Has
  <2>12. Below'
    BY <1>1, <1>3, <1>6, <2>1, <2>9, Classes DEF Below, Parents, ParentOf, Has
  <2>13. NoOrphans'
    BY <1>1, <1>3, <1>6, <2>1, Classes DEF NoOrphans
  <2> QED
    BY <2>2, <2>3, <2>4, <2>5, <2>6, <2>7, <2>8, <2>10, <2>11, <2>12, <2>13
<1> QED
  BY <1>1, <1>5, <1>6 DEF Connect

\* A valid handle is not 0, and finds one C++ object.
LEMMA ValidHas ==
  ASSUME TypeOK, NEW o
  PROVE  /\ Valid(o) <=> php[o].dbh \in dbs /\ Own(o) \in Held
         /\ Valid(o) => php[o].h # 0
<1>1. Valid(o) <=> php[o].dbh \in dbs /\ Own(o) \in Held
  BY DEF Valid, ValidDb, Own
<1>2. ASSUME Valid(o) PROVE php[o].h # 0
  <2>1. PICK c \in cpp : NameOf(c) = Own(o)
    BY <1>1, <1>2 DEF Held
  <2>2. c.at = php[o].h
    BY <2>1 DEF NameOf, Own, Name
  <2> QED
    BY <2>1, <2>2, CppFields, Bounds
<1> QED
  BY <1>1, <1>2

\* A constructor that succeeds on o: it pushes the places from i to n (one, or two
\* for a reconnect), keeps the last and points info at the first.
LEMMA Constructed ==
  ASSUME IInv, NEW o \in Kids, NEW p \in ParentOf(o), NEW i \in 1 .. MaxSlot, NEW n \in 1 .. MaxSlot,
         NEW T \in 0 .. MaxSlot, NEW D, D = php[p].dbh,
         Running, php[p].live, php[o].live => o \notin Sts,
         ValidDb(D), o \notin Trs => Valid(p) /\ T = php[p].h,
         i = made[Kind(o)][D] + 1, n = i \/ n = i + 1,
         php' = [php EXCEPT ![o] = Built(o, p, n, i)],
         cpp' = cpp \union {[list |-> Kind(o), db |-> D, at |-> m, tra |-> T] : m \in {i, n}},
         made' = [made EXCEPT ![Kind(o)][D] = n],
         left' = LetGo(o) \union (IF n = i THEN {} ELSE {Name(Kind(o), D, i)}),
         UNCHANGED <<phase, doomed, dbs, dbs_made, ended>>
  PROVE  IInv'
<1> USE DEF IInv
<1> DEFINE q == ParentAfter(o, p)  k == Kind(o)  new == Name(k, D, n)
<1>1. /\ phase = "script" /\ doomed = {} /\ o \in Objs /\ p \in Objs /\ p # o /\ k \in Lists
      /\ D \in dbs /\ D \in DbPlaces /\ D \in Int /\ D # 0 /\ n \in Int /\ i \in Int /\ n # 0 /\ i # 0
      /\ made[k][D] \in Int /\ made[k][D] < n /\ made[k][D] < i /\ i <= n
  <2>1. phase = "script" /\ doomed = {} /\ o \in Objs /\ k \in Lists /\ D \in dbs /\ D \in DbPlaces
    BY KindType DEF Running, ValidDb, TypeOK
  <2>2. p \in Objs /\ p # o
    BY Classes DEF ParentOf, Kids
  <2>3. D \in Int /\ D # 0 /\ n \in Int /\ i \in Int /\ n # 0 /\ i # 0
    BY <2>1, Bounds DEF DbPlaces
  <2>4. made[k][D] \in Int
    BY <2>1, Bounds DEF TypeOK
  <2> QED
    BY <2>1, <2>2, <2>3, <2>4
<1>2. /\ q \in ParentOf(o) /\ q \in Objs /\ q # o /\ q # Nobody /\ php[q].live
      /\ o \notin Trs => php[q].parent \in Dbs
  <2>1. CASE php[o].live /\ php[o].parent # Nobody
    BY <1>1, <2>1, Classes DEF ParentAfter, Parents, ParentOf
  <2>2. CASE ~(php[o].live /\ php[o].parent # Nobody)
    <3>1. o \notin Trs => Has(p) /\ p \in Trs
      BY <1>1, ValidHas, Classes DEF ParentOf, Has
    <3> QED
      BY <1>1, <2>2, <3>1, Classes DEF ParentAfter, Parents, ParentOf
  <2> QED
    BY <2>1, <2>2
<1>3. /\ php'[o].live /\ php'[o].parent = q /\ php'[o].dbh = D /\ php'[o].h = n /\ php'[o].info = i
      /\ php'[o].adrift = (php[o].parent \notin {Nobody, p} \/ php[p].adrift)
      /\ \A x \in Objs : x # o => php'[x] = php[x]
      /\ php' \in [Objs -> Php]
  <2>1. Built(o, p, n, i) \in Php
    BY <1>1, <1>2, Fields, Bounds, Classes DEF Built, Php, ParentOf, DbPlaces, Kids
  <2> QED
    BY <1>1, <2>1 DEF Built, TypeOK
<1>4. \A x \in Kids : x # o => x \in Objs /\ php'[x] = php[x] /\ (Has(x)' <=> Has(x)) /\ Own(x)' = Own(x)
  BY <1>3, KindType DEF Has, Own
<1>5. Has(o)' /\ Own(o)' = new
  BY <1>1, <1>3 DEF Has, Own
<1>6. \A c \in cpp' : c \in cpp \/ (c.list = k /\ c.db = D /\ c.at \in {i, n} /\ c.tra = T
                                  /\ NameOf(c) = Name(k, D, c.at))
  BY DEF NameOf
<1>7. /\ Held' = Held \union {Name(k, D, i), new}
      /\ cpp \subseteq cpp'
  <2>1. \A m \in {i, n} : \E c \in cpp' : NameOf(c) = Name(k, D, m)
    <3> SUFFICES ASSUME NEW m \in {i, n} PROVE \E c \in cpp' : NameOf(c) = Name(k, D, m)
      OBVIOUS
    <3>1. [list |-> k, db |-> D, at |-> m, tra |-> T] \in cpp'
      OBVIOUS
    <3> QED
      BY <3>1 DEF NameOf
  <2> QED
    BY <1>6, <2>1 DEF Held
<1>8. \A m \in {i, n} : /\ Name(k, D, m) \notin Held /\ Name(k, D, m) \notin left
                        /\ \A x \in Kids : Has(x) => Own(x) # Name(k, D, m)
  <2> SUFFICES ASSUME NEW m \in {i, n}
               PROVE  /\ Name(k, D, m) \notin Held /\ Name(k, D, m) \notin left
                      /\ \A x \in Kids : Has(x) => Own(x) # Name(k, D, m)
    OBVIOUS
  <2>1. /\ Name(k, D, m).list = k /\ Name(k, D, m).db = D /\ Name(k, D, m).at = m
        /\ made[k][D] < m /\ m \in Int
    BY <1>1 DEF Name
  <2>2. Name(k, D, m) \notin Held
    BY <1>1, <2>1, CppFields DEF Held, Places
  <2>3. Name(k, D, m) \notin left
    <3>1. \A x \in left : x.at \in Int
      BY Bounds DEF TypeOK
    <3> QED
      BY <1>1, <2>1, <3>1 DEF Places
  <2>4. ASSUME NEW x \in Kids, Has(x) PROVE Own(x) # Name(k, D, m)
    BY <1>1, <2>1, <2>4, Fields, KindType DEF Places
  <2> QED
    BY <2>2, <2>3, <2>4
<1>9. /\ Valid(o) => Has(o) /\ Own(o) \in left' /\ Own(o) \in Held /\ Own(o).db \in dbs
      /\ left \subseteq left'
      /\ \A x \in left' : x \in left \/ (x = Own(o) /\ Valid(o)) \/ (x = Name(k, D, i) /\ n # i)
  <2>1. Valid(o) => php[o].live
    BY <1>1, ValidHas DEF Ends, Zeroed
  <2> QED
    BY <1>1, <2>1, ValidHas, Fields DEF LetGo, Has, Own
<1>10. TypeOK'
  <2>1. \A m \in {i, n} : [list |-> k, db |-> D, at |-> m, tra |-> T] \in Cpp
    BY <1>1 DEF Cpp
  <2>2. Name(k, D, i) \in [list : Lists, db : DbPlaces, at : 1 .. MaxSlot]
    BY <1>1 DEF Name
  <2>3. Valid(o) => Own(o) \in [list : Lists, db : DbPlaces, at : 1 .. MaxSlot]
    <3>1. Valid(o) => php[o].dbh \in DbPlaces /\ php[o].h \in 1 .. MaxSlot
      BY <1>1, ValidHas, Fields, Bounds DEF TypeOK
    <3> QED
      BY <1>1, <3>1 DEF Own, Name
  <2>4. left' \subseteq [list : Lists, db : DbPlaces, at : 1 .. MaxSlot]
    BY <1>9, <2>2, <2>3 DEF TypeOK
  <2>5. made' \in [Lists -> [DbPlaces -> 0 .. MaxSlot]]
    BY <1>1, Bounds DEF TypeOK
  <2> QED
    BY <1>1, <1>3, <2>1, <2>4, <2>5 DEF TypeOK
<1>11. /\ made'[k][D] = n
       /\ \A l \in Lists : \A d \in DbPlaces : made'[l][d] \in Int /\ made[l][d] \in Int /\ made[l][d] <= made'[l][d]
  BY <1>1, <1>10, Bounds DEF TypeOK
<1>12. Places'
  <2>1. \A c \in cpp' : c.db \in dbs' /\ c.at <= made'[c.list][c.db]
    <3> SUFFICES ASSUME NEW c \in cpp' PROVE c.db \in dbs' /\ c.at <= made'[c.list][c.db]
      OBVIOUS
    <3>1. CASE c \in cpp
      BY <1>11, <3>1, CppFields DEF Places
    <3>2. CASE c \notin cpp
      BY <1>1, <1>6, <1>11, <3>2
    <3> QED
      BY <3>1, <3>2
  <2>2. \A x \in left' : x.db <= dbs_made' /\ x.at <= made'[x.list][x.db]
    <3> SUFFICES ASSUME NEW x \in left' PROVE x.db <= dbs_made' /\ x.at <= made'[x.list][x.db]
      OBVIOUS
    <3>1. CASE x \in left
      <4>1. x.list \in Lists /\ x.db \in DbPlaces /\ x.at \in Int
        BY <3>1, Bounds DEF TypeOK
      <4> QED
        BY <1>11, <3>1, <4>1 DEF Places
    <3>2. CASE x = Own(o) /\ Valid(o)
      <4>1. PICK c \in cpp : NameOf(c) = x
        BY <1>9, <3>2 DEF Held
      <4>2. x.list = c.list /\ x.db = c.db /\ x.at = c.at /\ c.db \in dbs
        BY <4>1, CppFields DEF Places
      <4> QED
        BY <1>11, <4>1, <4>2, CppFields DEF Places
    <3>3. CASE x = Name(k, D, i) /\ n # i
      BY <1>1, <1>11, <3>3 DEF Name, Places
    <3> QED
      BY <1>9, <3>1, <3>2, <3>3
  <2>3. \A x \in Objs : php'[x].live => php'[x].dbh <= dbs_made'
    BY <1>1, <1>3 DEF Places
  <2>4. \A x \in Kids : Has(x)' => php'[x].h <= made'[Kind(x)][php'[x].dbh]
    <3> SUFFICES ASSUME NEW x \in Kids, Has(x)' PROVE php'[x].h <= made'[Kind(x)][php'[x].dbh]
      OBVIOUS
    <3>1. CASE x = o
      BY <1>1, <1>3, <1>11, <3>1
    <3>2. CASE x # o
      <4>1. Has(x) /\ php'[x] = php[x] /\ x \in Objs /\ Kind(x) \in Lists
        BY <1>4, <3>2, KindType
      <4>2. php[x].dbh # 0
        BY <4>1 DEF InfoNamed
      <4>3. php[x].dbh \in DbPlaces
        BY <4>1, <4>2, Fields, Bounds DEF DbPlaces
      <4> QED
        BY <1>1, <1>11, <4>1, <4>3, Fields DEF Places
    <3> QED
      BY <3>1, <3>2
  <2> QED
    BY <1>1, <2>1, <2>2, <2>3, <2>4 DEF Places
<1>13. Ends'
  BY <1>1, <1>3 DEF Ends, Live
<1>14. Unique'
  <2>1. \A a, b \in Kids : Has(a)' /\ Has(b)' /\ Own(a)' = Own(b)' => a = b
    BY <1>4, <1>5, <1>8 DEF Unique
  <2>2. \A d \in Dbs : php'[d] = php[d]
    BY <1>1, <1>3, Classes
  <2> QED
    BY <2>1, <2>2 DEF Unique
<1>15. LeftStays'
  <2>1. ASSUME NEW x \in Kids, Has(x)' PROVE Own(x)' \notin left'
    <3>1. CASE x = o
      BY <1>1, <1>5, <1>8, <1>9, <3>1, NameEq
    <3>2. CASE x # o
      BY <1>4, <1>8, <1>9, <2>1, <3>2 DEF Unique, LeftStays
    <3> QED
      BY <3>1, <3>2
  <2>2. \A x \in left' : x.db \in dbs' => x \in Held'
    BY <1>1, <1>7, <1>9 DEF LeftStays
  <2> QED
    BY <2>1, <2>2 DEF LeftStays
<1>16. OwnedStays'
  <2>1. \A d \in Dbs : php'[d] = php[d]
    BY <1>1, <1>3, Classes
  <2> QED
    BY <1>1, <1>3, <1>4, <1>5, <1>7, <2>1 DEF OwnedStays
<1>17. InfoNamed'
  <2> SUFFICES ASSUME NEW x \in Kids, Has(x)'
               PROVE  /\ php'[x].dbh # 0 /\ php'[x].info # 0
                      /\ php'[x].info = php'[x].h \/ Name(Kind(x), php'[x].dbh, php'[x].info) \in left'
    BY DEF InfoNamed
  <2>1. CASE x = o
    BY <1>1, <1>3, <2>1
  <2>2. CASE x # o
    BY <1>1, <1>4, <1>9, <2>2 DEF InfoNamed
  <2> QED
    BY <2>1, <2>2
<1>18. Parents'
  <2>1. ASSUME NEW x \in Kids, php'[x].live, php'[x].parent # Nobody
        PROVE  /\ php'[x].parent \in ParentOf(x)
               /\ php'[php'[x].parent].live /\ php'[x].parent \notin doomed'
               /\ x \notin Trs => php'[php'[x].parent].parent \in Dbs
    <3>1. CASE x = o
      BY <1>1, <1>2, <1>3, <3>1
    <3>2. CASE x # o
      <4>1. /\ php'[x] = php[x] /\ php[x].parent \in ParentOf(x) /\ php[php[x].parent].live
            /\ x \notin Trs => php[php[x].parent].parent \in Dbs
        BY <1>1, <1>4, <2>1, <3>2 DEF Parents
      <4>2. CASE php[x].parent = o
        <5>1. q = php[o].parent \/ php[o].parent = Nobody
          BY <4>1, <4>2 DEF ParentAfter
        <5> QED
          BY <1>1, <1>2, <1>3, <4>1, <4>2, <5>1, Classes
      <4>3. CASE php[x].parent # o
        BY <1>1, <1>3, <4>1, <4>3, Classes DEF ParentOf
      <4> QED
        BY <4>2, <4>3
    <3> QED
      BY <3>1, <3>2
  <2>2. \A x \in Kids : Has(x)' => php'[x].parent # Nobody
    BY <1>2, <1>3, <1>4 DEF Parents
  <2> QED
    BY <2>1, <2>2 DEF Parents
<1>19. Chain'
  <2> SUFFICES ASSUME NEW x \in Kids, Has(x)', ~php'[x].adrift
               PROVE  php'[Root(x)'].dbh = php'[x].dbh \/ php'[x].dbh \in ended'
    BY DEF Chain
  <2>1. CASE x = o
    <3>1. q = p /\ ~php[p].adrift
      BY <1>3, <2>1 DEF ParentAfter
    <3>2. CASE o \in Trs
      BY <1>3, <2>1, <3>1, <3>2, <1>1 DEF Root
    <3>3. CASE o \notin Trs
      <4>1. Has(p) /\ p \in Trs /\ p \in Kids
        BY <1>1, <3>3, ValidHas, Classes DEF ParentOf, Has
      <4>2. php[Root(p)].dbh = D \/ D \in ended
        BY <1>1, <3>1, <4>1 DEF Chain
      <4>3. Root(p) = php[p].parent /\ Root(o)' = php[p].parent /\ php[p].parent # o
        BY <1>1, <1>2, <1>3, <2>1, <3>1, <3>3, <4>1, Classes DEF Root
      <4>4. php'[php[p].parent] = php[php[p].parent]
        BY <1>1, <1>2, <1>3, <3>1, <3>3, <4>3, Classes
      <4> QED
        BY <1>1, <1>3, <2>1, <4>2, <4>3, <4>4
    <3> QED
      BY <3>2, <3>3
  <2>2. CASE x # o
    <3>1. /\ php'[x] = php[x] /\ Has(x) /\ php[x].parent \in ParentOf(x) /\ php[php[x].parent].live
          /\ x \notin Trs => php[php[x].parent].parent \in Dbs
          /\ php[Root(x)].dbh = php[x].dbh \/ php[x].dbh \in ended
      BY <1>1, <1>4, <2>2 DEF Parents, Chain, Has
    <3>2. Root(x)' = Root(x) /\ Root(x) \in Dbs
      <4>1. CASE php[x].parent = o
        <5>1. x \notin Trs /\ o \in Trs
          BY <3>1, <4>1, Classes DEF ParentOf
        <5>2. q = php[o].parent
          BY <3>1, <4>1, <5>1, Classes DEF ParentAfter
        <5> QED
          BY <1>3, <3>1, <4>1, <5>1, <5>2 DEF Root
      <4>2. CASE php[x].parent # o
        <5>1. php[x].parent \in Objs
          BY <3>1, Classes DEF ParentOf
        <5> QED
          BY <1>3, <3>1, <4>2, <5>1, Classes DEF Root, ParentOf
      <4> QED
        BY <4>1, <4>2
    <3>3. php'[Root(x)] = php[Root(x)]
      BY <1>1, <1>3, <3>2, Classes
    <3> QED
      BY <1>1, <3>1, <3>2, <3>3
  <2> QED
    BY <2>1, <2>2
<1>20. Below'
  <2> SUFFICES ASSUME NEW c \in cpp', NEW x \in Sts \union Bls, Has(x)', ~php'[x].adrift, NameOf(c) = Own(x)'
               PROVE  /\ c.tra # 0
                      /\ \/ php'[php'[x].parent].dbh = c.db /\ php'[php'[x].parent].h = c.tra
                         \/ Name("tr", c.db, c.tra) \in left'
    BY DEF Below
  <2>1. x \in Kids /\ x \notin Trs
    BY Classes
  <2>2. CASE x = o
    <3>1. q = p /\ Valid(p) /\ T = php[p].h
      BY <1>3, <2>1, <2>2 DEF ParentAfter
    <3>2. c \notin cpp
      BY <1>5, <1>8, <2>2 DEF Held
    <3> QED
      BY <1>1, <1>3, <1>6, <2>2, <3>1, <3>2, ValidHas
  <2>3. CASE x # o
    <3>1. Has(x) /\ php'[x] = php[x] /\ NameOf(c) = Own(x) /\ x \notin doomed
      BY <1>1, <1>4, <2>1, <2>3
    <3>2. c \in cpp
      BY <1>6, <1>8, <2>1, <3>1
    <3>3. /\ c.tra # 0
          /\ \/ php[php[x].parent].dbh = c.db /\ php[php[x].parent].h = c.tra
             \/ Name("tr", c.db, c.tra) \in left
      BY <1>1, <3>1, <3>2 DEF Below
    <3>4. /\ php[x].parent \in Trs /\ php[x].parent \in Objs /\ php[php[x].parent].live
      BY <1>1, <2>1, <3>1, Classes DEF Parents, ParentOf, Has
    <3>5. CASE php[x].parent = o /\ php[o].dbh = c.db /\ php[o].h = c.tra
      <4>1. Has(o) /\ c.db \in dbs /\ o \in Trs /\ k = "tr"
        BY <3>2, <3>3, <3>4, <3>5, Classes DEF Has, Places
      <4>2. Valid(o)
        BY <3>5, <4>1, ValidHas DEF OwnedStays
      <4> QED
        BY <1>9, <3>3, <3>5, <4>1, <4>2 DEF Own
    <3> QED
      BY <1>3, <1>9, <3>1, <3>3, <3>4, <3>5
  <2> QED
    BY <2>2, <2>3
<1>21. NoOrphans'
  <2>1. \A d \in Dbs : php'[d] = php[d]
    BY <1>1, <1>3, Classes
  <2>2. ASSUME NEW c \in cpp', NameOf(c) \notin left'
        PROVE  \E x \in Kids : php'[x].live /\ NameOf(c) = Own(x)'
    <3>1. CASE c \in cpp
      <4>1. PICK x \in Kids : php[x].live /\ NameOf(c) = Own(x)
        BY <1>9, <2>2, <3>1 DEF NoOrphans, Own
      <4>2. x # o
        <5>1. NameOf(c) \in Held /\ c.db \in dbs /\ NameOf(c).db = c.db
          BY <3>1, CppFields DEF Held, Places
        <5> QED
          BY <1>1, <1>9, <2>2, <4>1, <5>1, ValidHas, Fields
      <4> QED
        BY <1>4, <4>1, <4>2
    <3>2. CASE c \notin cpp
      <4>1. NameOf(c) = new
        BY <1>6, <2>2, <3>2
      <4> QED
        BY <1>3, <1>5, <4>1
    <3> QED
      BY <3>1, <3>2
  <2> QED
    BY <1>1, <2>1, <2>2 DEF NoOrphans, Own
<1> QED
  BY <1>10, <1>12, <1>13, <1>14, <1>15, <1>16, <1>17, <1>18, <1>19, <1>20, <1>21

LEMMA ConstructTransactionStep ==
  ASSUME IInv, NEW o \in Trs, NEW p \in Dbs, ConstructTransaction(o, p)
  PROVE  IInv'
<1> DEFINE D == php[p].dbh  n == made[Kind(o)][D] + 1
<1>1. o \in Kids /\ Kind(o) = "tr" /\ p \in ParentOf(o) /\ o \notin Sts
  BY Classes DEF ParentOf
<1>2. Running /\ php[p].live /\ D \in dbs /\ ValidDb(D)
  BY DEF ConstructTransaction, MayConstruct, ValidDb
<1>3. n \in 1 .. MaxSlot
  BY <1>1, <1>2, Bounds DEF IInv, TypeOK, Lists, ConstructTransaction, Push, NewPlace
<1>4. /\ cpp' = cpp \union {[list |-> Kind(o), db |-> D, at |-> m, tra |-> 0] : m \in {n, n}}
      /\ made' = [made EXCEPT ![Kind(o)][D] = n]
      /\ php' = [php EXCEPT ![o] = Built(o, p, n, n)]
      /\ left' = LetGo(o) \union {}
      /\ UNCHANGED <<phase, doomed, dbs, dbs_made, ended>>
  BY <1>1 DEF ConstructTransaction, Push, NewPlace
<1>5. 0 \in 0 .. MaxSlot
  BY Bounds
<1> QED
  BY <1>1, <1>2, <1>3, <1>4, <1>5, Constructed

LEMMA ConstructOnStep ==
  ASSUME IInv, NEW o \in Sts \union Bls, NEW p \in Trs, ConstructOn(o, p)
  PROVE  IInv'
<1> DEFINE D == php[p].dbh  k == Kind(o)  n == made[k][D] + 1  T == php[p].h
<1>1. o \in Kids /\ p \in ParentOf(o) /\ o \notin Trs /\ k \in Lists /\ p \in Objs
  BY Classes, KindType DEF ParentOf
<1>2. /\ Running /\ php[p].live /\ Valid(p) /\ D \in dbs /\ ValidDb(D)
      /\ php[o].live => o \notin Sts
  BY Classes DEF ConstructOn, MayConstruct, ValidDb, Valid
<1>3. n \in 1 .. MaxSlot /\ T \in 0 .. MaxSlot
  BY <1>1, <1>2, Bounds, Fields DEF IInv, TypeOK, ConstructOn, Push, NewPlace
<1>4. /\ cpp' = cpp \union {[list |-> k, db |-> D, at |-> m, tra |-> T] : m \in {n, n}}
      /\ made' = [made EXCEPT ![k][D] = n]
      /\ php' = [php EXCEPT ![o] = Built(o, p, n, n)]
      /\ left' = LetGo(o) \union {}
      /\ UNCHANGED <<phase, doomed, dbs, dbs_made, ended>>
  BY DEF ConstructOn, Push, NewPlace
<1> QED
  BY <1>1, <1>2, <1>3, <1>4, Constructed

LEMMA ReconnectStep ==
  ASSUME IInv, NEW o \in Trs, NEW p \in Dbs, Reconnect(o, p)
  PROVE  IInv'
<1> DEFINE D == php[p].dbh  i == made[Kind(o)][D] + 1  n == i + 1
<1>1. o \in Kids /\ o \in Objs /\ Kind(o) = "tr" /\ p \in ParentOf(o) /\ o \notin Sts
  BY Classes DEF ParentOf
<1>2. Running /\ php[p].live /\ D \in dbs /\ ValidDb(D) /\ ~php[o].live
  BY DEF Reconnect, MayConstruct, ValidDb
<1>3. i \in 1 .. MaxSlot /\ n \in 1 .. MaxSlot /\ n # i
  BY <1>1, <1>2, Bounds DEF IInv, TypeOK, Lists, Reconnect, NewPlace
<1>4. LetGo(o) = left
  BY <1>1, <1>2, ValidHas DEF LetGo, IInv, Ends, Zeroed
<1>5. /\ cpp' = cpp \union {[list |-> Kind(o), db |-> D, at |-> m, tra |-> 0] : m \in {i, n}}
      /\ made' = [made EXCEPT ![Kind(o)][D] = n]
      /\ php' = [php EXCEPT ![o] = Built(o, p, n, i)]
      /\ left' = LetGo(o) \union (IF n = i THEN {} ELSE {Name(Kind(o), D, i)})
      /\ UNCHANGED <<phase, doomed, dbs, dbs_made, ended>>
  BY <1>1, <1>3, <1>4 DEF Reconnect, NewPlace
<1>6. 0 \in 0 .. MaxSlot
  BY Bounds
<1> QED
  BY <1>1, <1>2, <1>3, <1>5, <1>6, Constructed

\* An object o lets its C++ object go: it is destroyed, and then no child of it
\* is left but doomed ones, or it is a Database that is disconnected or a
\* Statement that is freed, and stays with an empty handle.
LEMMA Released ==
  ASSUME IInv, NEW o \in Objs, NEW r \in Php, php' = [php EXCEPT ![o] = r],
         UNCHANGED <<phase, dbs_made, made>>,
         dbs' = dbs \ (IF o \in Dbs THEN {php[o].dbh} ELSE {}),
         cpp' \subseteq cpp, \A c \in cpp' : c.db \in dbs',
         \A c \in cpp : c \in cpp' \/ (o \in Kids /\ NameOf(c) = Own(o)) \/ c.db \notin dbs',
         \A c \in cpp' : o \in Kids /\ NameOf(c) = Own(o) => NameOf(c) \in left',
         left \subseteq left',
         \A n \in left' : n \in left \/ (o \in Kids /\ n = Own(o) /\ n \in Held /\ n \in Held'),
         \/ /\ r = Zeroed /\ doomed' = doomed \ {o} /\ ended' = ended
            /\ phase = "script" => \A c \in Kids \ doomed : php[c].live => php[c].parent # o
         \/ /\ phase = "script" /\ r.live /\ php[o].live /\ r.parent = php[o].parent
            /\ doomed' = doomed /\ doomed = {} /\ o \notin Trs
            /\ \/ /\ o \in Dbs /\ r.dbh = 0 /\ php[o].dbh \in dbs
                  /\ ended' = ended \union {php[o].dbh}
               \/ o \in Sts /\ r.h = 0 /\ r.dbh = php[o].dbh /\ ended' = ended
  PROVE  IInv'
<1> USE DEF IInv
<1>1. /\ php'[o] = r /\ \A x \in Objs : x # o => php'[x] = php[x]
      /\ dbs' \subseteq dbs /\ ended \subseteq ended'
      /\ doomed' \subseteq doomed /\ \A x \in Objs : x # o /\ x \in doomed => x \in doomed'
  BY DEF TypeOK
<1>2. \A x \in Kids : x # o => x \in Objs /\ php'[x] = php[x] /\ (Has(x)' <=> Has(x)) /\ Own(x)' = Own(x)
  BY <1>1, KindType DEF Has, Own
<1>3. o \in Kids => ~Has(o)'
  BY <1>1, Classes DEF Has, Zeroed
<1>4. \A x \in Kids : Has(x)' => x # o
  BY <1>3
<1>5. Held' \subseteq Held
  BY DEF Held
<1>6. TypeOK'
  <2>1. php' \in [Objs -> Php]
    BY DEF TypeOK
  <2>2. left' \subseteq [list : Lists, db : DbPlaces, at : 1 .. MaxSlot]
    <3>1. \A c \in cpp : NameOf(c) \in [list : Lists, db : DbPlaces, at : 1 .. MaxSlot]
      BY CppFields DEF NameOf, Name
    <3> QED
      BY <3>1 DEF TypeOK, Held
  <2>3. ended' \subseteq DbPlaces
    BY DEF TypeOK
  <2> QED
    BY <1>1, <2>1, <2>2, <2>3 DEF TypeOK
<1>7. Places'
  <2>1. dbs' \subseteq 1 .. dbs_made' /\ ended' \subseteq 1 .. dbs_made' /\ ended' \cap dbs' = {}
    BY <1>1, Classes DEF Places
  <2>2. \A n \in left' : n.db <= dbs_made' /\ n.at <= made'[n.list][n.db]
    <3>1. \A c \in cpp : NameOf(c).db <= dbs_made /\ NameOf(c).at <= made[NameOf(c).list][NameOf(c).db]
      BY CppFields DEF Places
    <3> QED
      BY <3>1 DEF Places, Held
  <2>3. phase = "script" => \A x \in Objs : php'[x].live => php'[x].dbh <= dbs_made'
    BY <1>1, Classes DEF Places, Zeroed, TypeOK
  <2> QED
    BY <1>1, <1>2, <1>4, <2>1, <2>2, <2>3 DEF Places
<1>8. Ends'
  <2>1. doomed' \subseteq Live'
    BY <1>1 DEF Ends, Live
  <2>2. \A x \in Objs : ~php'[x].live => php'[x] = Zeroed
    BY <1>1 DEF Ends
  <2>3. phase = "ending" => dbs' = {} /\ cpp' = {} /\ left' = {} /\ doomed' = Live'
    <3> SUFFICES ASSUME phase = "ending" PROVE dbs' = {} /\ cpp' = {} /\ left' = {} /\ doomed' = Live'
      OBVIOUS
    <3>1. dbs' = {} /\ cpp' = {} /\ left' = {} /\ r = Zeroed /\ doomed' = doomed \ {o}
      BY DEF Ends, Held
    <3>2. doomed' = Live'
      BY <1>1, <3>1 DEF Ends, Live, Zeroed
    <3> QED
      BY <3>1, <3>2
  <2> QED
    BY <2>1, <2>2, <2>3 DEF Ends
<1>9. Unique'
  <2>1. \A a, b \in Kids : Has(a)' /\ Has(b)' /\ Own(a)' = Own(b)' => a = b
    BY <1>2, <1>4 DEF Unique
  <2>2. \A d \in Dbs : php'[d].live /\ php'[d].dbh # 0 => d # o /\ php'[d] = php[d]
    BY <1>1, Classes DEF Zeroed
  <2> QED
    BY <2>1, <2>2 DEF Unique
<1>10. \A n \in Held : n \in Held' \/ (o \in Kids /\ n = Own(o)) \/ n.db \notin dbs'
  BY CppFields DEF Held
<1>11. LeftStays'
  <2>1. ASSUME NEW x \in Kids, Has(x)' PROVE Own(x)' \notin left'
    <3>1. x # o /\ Has(x) /\ Own(x)' = Own(x) /\ Own(x) \notin left
      BY <1>2, <1>4, <2>1 DEF LeftStays
    <3>2. CASE Own(x) = Own(o) /\ o \in Kids /\ Own(o) \in Held
      <4>1. php[o].h # 0
        BY <3>2, CppFields, Fields, Bounds DEF Held
      <4>2. Has(o)
        BY <3>2, <4>1 DEF Has, Ends, Zeroed
      <4> QED
        BY <3>1, <3>2, <4>2 DEF Unique
    <3> QED
      BY <3>1, <3>2
  <2>2. ASSUME NEW n \in left', n.db \in dbs' PROVE n \in Held'
    <3>1. CASE n \in left
      <4>1. n \in Held
        BY <1>1, <2>2, <3>1 DEF LeftStays
      <4>2. ~(o \in Kids /\ n = Own(o))
        <5> SUFFICES ASSUME o \in Kids, n = Own(o) PROVE FALSE
          OBVIOUS
        <5>1. php[o].h # 0
          BY <4>1, CppFields, Fields, Bounds DEF Held
        <5> QED
          BY <3>1, <5>1 DEF Has, Ends, Zeroed, LeftStays
      <4> QED
        BY <1>10, <2>2, <4>1, <4>2
    <3> QED
      BY <3>1
  <2> QED
    BY <2>1, <2>2 DEF LeftStays
<1>12. OwnedStays'
  <2>1. ASSUME NEW x \in Kids, Has(x)', php'[x].dbh \in dbs' PROVE Own(x)' \in Held'
    <3>1. x # o /\ Has(x) /\ Own(x)' = Own(x) /\ Own(x) \in Held /\ Own(x).db = php[x].dbh /\ php'[x] = php[x]
      BY <1>1, <1>2, <1>4, <2>1, Fields DEF OwnedStays
    <3>2. ~(o \in Kids /\ Own(x) = Own(o))
      <4> SUFFICES ASSUME o \in Kids, Own(x) = Own(o) PROVE FALSE
        OBVIOUS
      <4>1. php[o].h # 0
        BY <3>1, CppFields, Fields, Bounds DEF Held
      <4> QED
        BY <3>1, <4>1 DEF Has, Ends, Zeroed, Unique
    <3> QED
      BY <1>10, <2>1, <3>1, <3>2
  <2>2. ASSUME phase = "script", NEW d \in Dbs, php'[d].live, php'[d].dbh # 0 PROVE php'[d].dbh \in dbs'
    <3>1. d # o /\ php'[d] = php[d] /\ php[d].dbh \in dbs
      BY <1>1, <2>2, Classes DEF Zeroed, OwnedStays
    <3>2. o \in Dbs => php[d].dbh # php[o].dbh
      BY <2>2, <3>1, Classes DEF Unique, Ends, Zeroed
    <3> QED
      BY <3>1, <3>2
  <2> QED
    BY <2>1, <2>2 DEF OwnedStays
<1>13. InfoNamed'
  BY <1>2, <1>4 DEF InfoNamed
<1>14. Parents'
  <2>1. ASSUME phase = "script", NEW x \in Kids, php'[x].live, php'[x].parent # Nobody
        PROVE  /\ php'[x].parent \in ParentOf(x)
               /\ x \notin doomed' =>
                    /\ php'[php'[x].parent].live /\ php'[x].parent \notin doomed'
                    /\ x \notin Trs => php'[php'[x].parent].parent \in Dbs
    <3>1. x \in Objs /\ php[x].live /\ php[x].parent = php'[x].parent /\ (x \in doomed' <=> x \in doomed)
      BY <1>1, <2>1, KindType DEF Zeroed
    <3>2. php[x].parent \in ParentOf(x) /\ php[x].parent \in Objs
      BY <2>1, <3>1, Classes DEF Parents, ParentOf
    <3>3. ASSUME x \notin doomed
          PROVE  /\ php'[php[x].parent].live /\ php[x].parent \notin doomed'
                 /\ x \notin Trs => php'[php[x].parent].parent \in Dbs
      <4>1. /\ php[php[x].parent].live /\ php[x].parent \notin doomed
            /\ x \notin Trs => php[php[x].parent].parent \in Dbs
        BY <2>1, <3>1, <3>3 DEF Parents
      <4> QED
        BY <1>1, <2>1, <3>1, <3>2, <3>3, <4>1
    <3> QED
      BY <3>1, <3>2, <3>3
  <2>2. \A x \in Kids : Has(x)' => php'[x].parent # Nobody
    BY <1>2, <1>4 DEF Parents
  <2> QED
    BY <2>1, <2>2 DEF Parents
<1>15. ASSUME phase = "script", NEW x \in Kids, Has(x)', x \notin doomed'
       PROVE  /\ x # o /\ php'[x] = php[x] /\ Has(x) /\ Own(x)' = Own(x) /\ x \notin doomed
              /\ php[x].parent \in ParentOf(x) /\ php[x].parent \in Objs
              /\ x \notin Trs => php[php[x].parent].parent \in Dbs /\ php'[php[x].parent] = php[php[x].parent]
              /\ Root(x)' = Root(x) /\ Root(x) \in Dbs
              /\ r = Zeroed => Root(x) # o
  <2>1. x # o /\ php'[x] = php[x] /\ Has(x) /\ Own(x)' = Own(x) /\ x \notin doomed
    BY <1>1, <1>2, <1>4, <1>15
  <2>2. /\ php[x].parent \in ParentOf(x) /\ php[x].parent \in Objs
        /\ php[php[x].parent].live /\ php[x].parent \notin doomed
        /\ x \notin Trs => php[php[x].parent].parent \in Dbs /\ php[x].parent \in Trs
    BY <1>15, <2>1, Classes DEF Parents, ParentOf, Has
  <2>3. r = Zeroed => \A c \in Kids \ doomed : php[c].live => php[c].parent # o
    BY <1>15 DEF Zeroed
  <2>4. x \notin Trs => php'[php[x].parent] = php[php[x].parent]
    BY <1>1, <2>1, <2>2, <2>3 DEF Has
  <2>5. Root(x)' = Root(x) /\ Root(x) \in Dbs
    BY <2>1, <2>2, <2>4, Classes DEF Root, ParentOf
  <2>6. r = Zeroed => Root(x) # o
    BY <2>1, <2>2, <2>3, Classes DEF Root, Has
  <2> QED
    BY <2>1, <2>2, <2>4, <2>5, <2>6
<1>16. Chain'
  <2> SUFFICES ASSUME phase = "script", NEW x \in Kids, x \notin doomed', Has(x)', ~php'[x].adrift
               PROVE  php'[Root(x)'].dbh = php'[x].dbh \/ php'[x].dbh \in ended'
    BY DEF Chain
  <2>1. php[Root(x)].dbh = php[x].dbh \/ php[x].dbh \in ended
    BY <1>15 DEF Chain
  <2>2. CASE Root(x) = o
    BY <1>1, <1>15, <2>1, <2>2, Classes
  <2>3. CASE Root(x) # o
    BY <1>1, <1>15, <2>1, <2>3, Classes
  <2> QED
    BY <2>2, <2>3
<1>17. Below'
  <2> SUFFICES ASSUME phase = "script", NEW c \in cpp', NEW x \in Sts \union Bls, x \notin doomed',
                      Has(x)', ~php'[x].adrift, NameOf(c) = Own(x)'
               PROVE  /\ c.tra # 0
                      /\ \/ php'[php'[x].parent].dbh = c.db /\ php'[php'[x].parent].h = c.tra
                         \/ Name("tr", c.db, c.tra) \in left'
    BY DEF Below
  <2>1. x \in Kids /\ x \notin Trs /\ c \in cpp
    BY Classes
  <2>2. /\ c.tra # 0
        /\ \/ php[php[x].parent].dbh = c.db /\ php[php[x].parent].h = c.tra
           \/ Name("tr", c.db, c.tra) \in left
    BY <1>15, <2>1 DEF Below
  <2> QED
    BY <1>15, <2>1, <2>2
<1>18. NoOrphans'
  <2>1. ASSUME NEW d \in dbs' PROVE \E x \in Dbs : php'[x].live /\ php'[x].dbh = d
    <3>1. PICK x \in Dbs : php[x].live /\ php[x].dbh = d
      BY <1>1, <2>1 DEF NoOrphans
    <3>2. x # o
      BY <2>1, <3>1
    <3> QED
      BY <1>1, <3>1, <3>2, Classes
  <2>2. ASSUME NEW c \in cpp', NameOf(c) \notin left'
        PROVE  \E x \in Kids : php'[x].live /\ NameOf(c) = Own(x)'
    <3>1. PICK x \in Kids : php[x].live /\ NameOf(c) = Own(x)
      BY <2>2 DEF NoOrphans, Own
    <3>2. x # o
      BY <2>2, <3>1
    <3> QED
      BY <1>2, <3>1, <3>2
  <2> QED
    BY <2>1, <2>2 DEF NoOrphans, Own
<1> QED
  BY <1>6, <1>7, <1>8, <1>9, <1>11, <1>12, <1>13, <1>14, <1>16, <1>17, <1>18

LEMMA DisconnectStep ==
  ASSUME IInv, NEW d \in Dbs, Disconnect(d)
  PROVE  IInv'
<1> DEFINE r == [php[d] EXCEPT !.dbh = 0]
<1>1. d \in Objs /\ d \notin Kids /\ d \notin Trs
  BY Classes
<1>2. php[d] \in Php /\ r \in Php /\ r.live = php[d].live /\ r.parent = php[d].parent /\ r.dbh = 0
  BY <1>1, Bounds DEF IInv, TypeOK, Php
<1>3. php' = [php EXCEPT ![d] = r]
  BY DEF Disconnect
<1>4. \A c \in cpp' : c.db \in dbs'
  BY DEF Disconnect, Gone, IInv, Places
<1>5. \A c \in cpp : c \in cpp' \/ c.db \notin dbs'
  BY DEF Disconnect, Gone
<1> QED
  BY <1>1, <1>2, <1>3, <1>4, <1>5, Released DEF Disconnect, Running, ValidDb

LEMMA FreeStatementStep ==
  ASSUME IInv, NEW o \in Sts, FreeStatement(o)
  PROVE  IInv'
<1> DEFINE r == [php[o] EXCEPT !.h = 0]
<1>1. o \in Objs /\ o \in Kids /\ o \notin Trs /\ o \notin Dbs /\ Kind(o) = "st"
  BY Classes
<1>2. php[o] \in Php /\ r \in Php /\ r.live = php[o].live /\ r.parent = php[o].parent
      /\ r.dbh = php[o].dbh /\ r.h = 0
  BY <1>1, Bounds DEF IInv, TypeOK, Php
<1>3. /\ php' = [php EXCEPT ![o] = r]
      /\ cpp' = {c \in cpp : NameOf(c) # Own(o)}
  BY <1>1 DEF FreeStatement, Own
<1>4. \A c \in cpp' : c.db \in dbs'
  BY <1>3 DEF FreeStatement, IInv, Places
<1> QED
  BY <1>1, <1>2, <1>3, <1>4, Released DEF FreeStatement, Running

LEMMA FreeObjStep ==
  ASSUME IInv, NEW o \in Objs, FreeObj(o),
         phase = "script" => \A c \in Kids \ doomed : php[c].live => php[c].parent # o
  PROVE  IInv'
<1>1. Zeroed \in Php
  BY Bounds DEF Zeroed, Php
<1>2. /\ php' = [php EXCEPT ![o] = Zeroed] /\ doomed' = doomed \ {o}
      /\ UNCHANGED <<phase, dbs_made, made, ended>>
  BY DEF FreeObj
<1>3. CASE o \in Dbs /\ FreeDatabase(o)
  <2>1. o \notin Kids
    BY <1>3, Classes
  <2>2. \A c \in cpp' : c.db \in dbs'
    BY <1>3 DEF FreeDatabase, Gone, IInv, Places
  <2>3. \A c \in cpp : c \in cpp' \/ c.db \notin dbs'
    BY <1>3 DEF FreeDatabase, Gone
  <2> QED
    BY <1>1, <1>2, <1>3, <2>1, <2>2, <2>3, Released DEF FreeDatabase
<1>4. ASSUME o \in Kids, UNCHANGED dbs,
             \/ cpp' = {c \in cpp : NameOf(c) # Own(o)} /\ left' = left
             \/ cpp' = cpp /\ left' = LetGo(o)
      PROVE  IInv'
  <2>1. o \notin Dbs
    BY <1>4, Classes
  <2>2. \A c \in cpp' : c.db \in dbs'
    BY <1>4 DEF IInv, Places
  <2>3. Valid(o) <=> php[o].dbh \in dbs /\ Own(o) \in Held
    BY ValidHas DEF IInv
  <2>4. \A c \in cpp' : NameOf(c) = Own(o) => NameOf(c) \in left'
    <3> SUFFICES ASSUME NEW c \in cpp', NameOf(c) = Own(o) PROVE NameOf(c) \in left'
      OBVIOUS
    <3>1. cpp' = cpp /\ left' = LetGo(o) /\ c \in cpp
      BY <1>4
    <3>2. Own(o) \in Held
      BY <3>1 DEF Held
    <3>3. php[o].dbh = c.db /\ c.db \in dbs
      BY <3>1, CppFields, Fields DEF IInv, Places
    <3> QED
      BY <2>3, <3>1, <3>2, <3>3 DEF LetGo, Own
  <2>5. \A n \in left' : n \in left \/ (n = Own(o) /\ n \in Held /\ n \in Held')
    BY <1>4, <2>3 DEF LetGo, Own, Held
  <2>6. left \subseteq left'
    BY <1>4 DEF LetGo
  <2> QED
    BY <1>1, <1>2, <1>4, <2>1, <2>2, <2>4, <2>5, <2>6, Released
<1>5. CASE o \in Trs /\ FreeTransaction(o)
  BY <1>4, <1>5, Classes DEF FreeTransaction, Own
<1>6. CASE o \in Sts /\ FreeStatementObj(o)
  BY <1>4, <1>6, Classes DEF FreeStatementObj, Own
<1>7. CASE o \in Bls /\ FreeBlob(o)
  BY <1>4, <1>7, Classes DEF FreeBlob, Own
<1> QED
  BY <1>3, <1>5, <1>6, <1>7 DEF FreeObj

LEMMA ReleaseStep ==
  ASSUME IInv, NEW o \in Objs, Release(o)
  PROVE  IInv'
<1>1. \A c \in Kids : php[c].live => php[c].parent # o
  BY KindType DEF Release, Children, Live
<1> QED
  BY <1>1, FreeObjStep DEF Release

LEMMA FreeDoomedStep ==
  ASSUME IInv, NEW o \in Objs, FreeDoomed(o)
  PROVE  IInv'
<1>1. phase = "script" => \A c \in Kids \ doomed : php[c].live => php[c].parent # o
  BY Classes DEF FreeDoomed, IInv, Parents
<1> QED
  BY <1>1, FreeObjStep DEF FreeDoomed

\* A step that changes no handle, no C++ object and no place: only which parent
\* an object without one has, whether it lives, or the mark of prepare_2pc.
LEMMA Touched ==
  ASSUME IInv, NEW o \in Kids, NEW r \in Php, php' = [php EXCEPT ![o] = r],
         phase = "script", doomed = {},
         UNCHANGED <<phase, doomed, dbs, cpp, dbs_made, made, ended, left>>,
         r.live, r.dbh = php[o].dbh, r.h = php[o].h, r.info = php[o].info, r.adrift = php[o].adrift,
         \/ r.parent = php[o].parent
         \/ /\ o \in Trs /\ php[o].parent = Nobody
            /\ r.parent \in Dbs /\ php[r.parent].live
  PROVE  IInv'
<1> USE DEF IInv
<1>1. /\ o \in Objs /\ php'[o] = r /\ \A x \in Objs : x # o => php'[x] = php[x]
  BY KindType DEF TypeOK
<1>2. php[o].h # 0 => php[o].live
  BY <1>1 DEF Ends, Zeroed
<1>3. \A x \in Kids : /\ x \in Objs /\ (Has(x)' <=> Has(x)) /\ Own(x)' = Own(x)
                      /\ php'[x].dbh = php[x].dbh /\ php'[x].h = php[x].h /\ php'[x].info = php[x].info
                      /\ php'[x].adrift = php[x].adrift
                      /\ (php[x].live => php'[x].live)
                      /\ (php[x].parent # Nobody => php'[x].parent = php[x].parent)
                      /\ (x # o => php'[x] = php[x])
  BY <1>1, <1>2, KindType, Classes DEF Has, Own
<1>4. \A d \in Dbs : php'[d] = php[d]
  BY <1>1, Classes
<1>5. Held' = Held
  BY DEF Held
<1>6. TypeOK'
  BY <1>1 DEF TypeOK
<1>7. Places'
  <2>1. \A x \in Objs : php'[x].live => php'[x].dbh <= dbs_made'
    <3>1. ~php[o].live => php[o].dbh = 0
      BY <1>1 DEF Ends, Zeroed
    <3> QED
      BY <1>1, <3>1 DEF Places, TypeOK
  <2> QED
    BY <1>3, <2>1 DEF Places
<1>8. Ends'
  BY <1>1 DEF Ends, Live
<1>9. Unique' /\ LeftStays' /\ OwnedStays'
  BY <1>3, <1>4, <1>5 DEF Unique, LeftStays, OwnedStays
<1>10. InfoNamed'
  BY <1>3 DEF InfoNamed
<1>11. Parents'
  <2>1. ASSUME NEW x \in Kids, php'[x].live, php'[x].parent # Nobody
        PROVE  /\ php'[x].parent \in ParentOf(x)
               /\ php'[php'[x].parent].live /\ php'[x].parent \notin doomed'
               /\ x \notin Trs => php'[php'[x].parent].parent \in Dbs
    <3>1. CASE php'[x].parent = php[x].parent
      <4>1. php[x].live
        BY <1>1, <1>3, <2>1, <3>1 DEF Ends, Zeroed
      <4>2. /\ php[x].parent \in ParentOf(x) /\ php[php[x].parent].live
            /\ x \notin Trs => php[php[x].parent].parent \in Dbs
        BY <2>1, <3>1, <4>1 DEF Parents
      <4>3. CASE x \in Trs
        BY <1>4, <3>1, <4>2, <4>3 DEF ParentOf
      <4>4. CASE x \notin Trs
        BY <1>3, <3>1, <4>2, <4>4, Classes DEF ParentOf
      <4> QED
        BY <4>3, <4>4
    <3>2. CASE php'[x].parent # php[x].parent
      <4>1. x = o /\ o \in Trs /\ r.parent \in Dbs /\ php[r.parent].live
        BY <1>1, <1>3, <3>2
      <4> QED
        BY <1>1, <1>4, <4>1 DEF ParentOf
    <3> QED
      BY <3>1, <3>2
  <2>2. \A x \in Kids : Has(x)' => php'[x].parent # Nobody
    BY <1>3 DEF Parents
  <2> QED
    BY <2>1, <2>2 DEF Parents
<1>12. \A x \in Kids : Has(x) =>
          /\ php'[x].parent = php[x].parent /\ Root(x)' = Root(x) /\ Root(x) \in Dbs
          /\ x \notin Trs => php[x].parent \in Kids
  <2> SUFFICES ASSUME NEW x \in Kids, Has(x)
               PROVE  /\ php'[x].parent = php[x].parent /\ Root(x)' = Root(x) /\ Root(x) \in Dbs
                      /\ x \notin Trs => php[x].parent \in Kids
    OBVIOUS
  <2>1. /\ php[x].parent # Nobody /\ php'[x].parent = php[x].parent /\ php[x].parent \in ParentOf(x)
        /\ x \notin Trs => php[php[x].parent].parent \in Dbs
    BY <1>3 DEF Parents, Has
  <2>2. CASE x \in Trs
    BY <2>1, <2>2, Classes DEF Root, ParentOf
  <2>3. CASE x \notin Trs
    <3>1. php[x].parent \in Kids /\ php[php[x].parent].parent # Nobody
      BY <2>1, <2>3, Classes DEF ParentOf
    <3>2. php'[php[x].parent].parent = php[php[x].parent].parent
      BY <1>3, <3>1
    <3> QED
      BY <2>1, <2>3, <3>1, <3>2, Classes DEF Root
  <2> QED
    BY <2>2, <2>3
<1>13. Chain'
  BY <1>3, <1>4, <1>12 DEF Chain
<1>14. Below'
  BY <1>3, <1>12, Classes DEF Below
<1>15. NoOrphans'
  BY <1>3, <1>4 DEF NoOrphans, Own
<1> QED
  BY <1>6, <1>7, <1>8, <1>9, <1>10, <1>11, <1>13, <1>14, <1>15

LEMMA ConstructFailsStep ==
  ASSUME IInv, NEW o \in Kids, NEW p \in Dbs \union Trs, ConstructFails(o, p)
  PROVE  IInv'
<1> DEFINE r == [php[o] EXCEPT !.live = TRUE,
                               !.parent = IF o \in Trs THEN ParentAfter(o, p) ELSE php[o].parent]
<1>1. o \in Objs /\ php[o] \in Php /\ php' = [php EXCEPT ![o] = r] /\ Running /\ php[p].live
      /\ p \in ParentOf(o)
  BY KindType DEF ConstructFails, MayConstruct, IInv, TypeOK
<1>2. ParentAfter(o, p) \in Dbs \union Trs \union {Nobody}
  BY <1>1 DEF ParentAfter, Php
<1>3. r \in Php /\ r.live /\ r.dbh = php[o].dbh /\ r.h = php[o].h /\ r.info = php[o].info
      /\ r.adrift = php[o].adrift
      /\ r.parent = IF o \in Trs THEN ParentAfter(o, p) ELSE php[o].parent
  BY <1>1, <1>2 DEF Php
<1>4. \/ r.parent = php[o].parent
      \/ o \in Trs /\ php[o].parent = Nobody /\ r.parent \in Dbs /\ php[r.parent].live
  BY <1>1, <1>3 DEF ParentAfter, ParentOf, IInv, Ends, Zeroed
<1> QED
  BY <1>1, <1>3, <1>4, Touched DEF ConstructFails, Running

LEMMA Prepare2pcStep ==
  ASSUME IInv, NEW o \in Trs, Prepare2pc(o)
  PROVE  IInv'
<1> DEFINE r == [php[o] EXCEPT !.prepared = TRUE]
<1>1. o \in Kids /\ o \in Objs /\ php[o] \in Php /\ php' = [php EXCEPT ![o] = r]
  BY Classes DEF Prepare2pc, IInv, TypeOK
<1>2. r \in Php /\ r.live = php[o].live /\ r.dbh = php[o].dbh /\ r.h = php[o].h /\ r.info = php[o].info
      /\ r.adrift = php[o].adrift /\ r.parent = php[o].parent
  BY <1>1 DEF Php
<1> QED
  BY <1>1, <1>2, Touched DEF Prepare2pc, Running

LEMMA CollectStep ==
  ASSUME IInv, NEW G \in SUBSET Objs, Collect(G)
  PROVE  IInv'
<1> USE DEF IInv
<1>1. /\ phase = "script" /\ doomed = {} /\ doomed' = G /\ G \subseteq Live
      /\ UNCHANGED <<phase, php, dbs, cpp, dbs_made, made, ended, left>>
      /\ \A x \in Kids : php[x].live /\ php[x].parent \in G => x \in G
  BY KindType DEF Collect, Running, Children, Live
<1>2. /\ Held' = Held /\ Live' = Live
      /\ \A x \in Kids : (Has(x)' <=> Has(x)) /\ Own(x)' = Own(x) /\ Root(x)' = Root(x)
  BY <1>1 DEF Held, Live, Has, Own, Root
<1>3. TypeOK' /\ Places' /\ Ends' /\ Unique' /\ LeftStays' /\ OwnedStays' /\ InfoNamed'
  BY <1>1, <1>2 DEF TypeOK, Places, Ends, Unique, LeftStays, OwnedStays, InfoNamed
<1>4. Parents'
  BY <1>1, <1>2 DEF Parents
<1>5. Chain' /\ Below' /\ NoOrphans'
  BY <1>1, <1>2, Classes DEF Chain, Below, NoOrphans
<1> QED
  BY <1>3, <1>4, <1>5

LEMMA EndStep ==
  ASSUME IInv, End
  PROVE  IInv'
<1> USE DEF IInv
<1>1. /\ phase' = "ending" /\ dbs' = {} /\ cpp' = {} /\ ended' = {} /\ left' = {}
      /\ doomed' = Live /\ php' = php /\ dbs_made' = 0
      /\ made' = [k \in Lists |-> [d \in DbPlaces |-> 0]]
  BY DEF End
<1>2. Live' = Live /\ \A x \in Kids : (Has(x)' <=> Has(x)) /\ Own(x)' = Own(x)
  BY <1>1 DEF Live, Has, Own
<1>3. TypeOK'
  BY <1>1, Bounds DEF TypeOK, Live
<1>4. Places' /\ Ends'
  BY <1>1, <1>2 DEF Places, Ends
<1>5. Unique' /\ LeftStays' /\ OwnedStays' /\ InfoNamed'
  BY <1>1, <1>2 DEF Unique, LeftStays, OwnedStays, InfoNamed
<1>6. Parents' /\ Chain' /\ Below' /\ NoOrphans'
  BY <1>1, <1>2 DEF Parents, Chain, Below, NoOrphans
<1> QED
  BY <1>3, <1>4, <1>5, <1>6

LEMMA NextRequestStep ==
  ASSUME IInv, NextRequest
  PROVE  IInv'
<1> USE DEF IInv
<1>1. /\ phase' = "script" /\ Live = {} /\ dbs = {} /\ cpp = {} /\ left = {} /\ doomed = {} /\ ended = ended
      /\ UNCHANGED <<php, doomed, dbs, cpp, dbs_made, made, ended, left>>
  BY DEF NextRequest, Ends
<1>2. \A x \in Objs : ~php[x].live
  BY <1>1 DEF Live
<1>3. /\ Live' = Live /\ \A x \in Kids : ~Has(x) /\ ~Has(x)' /\ x \in Objs
      /\ Held' = {}
  BY <1>1, <1>2, KindType DEF Live, Has, Held
<1>4. TypeOK' /\ Places' /\ Ends'
  BY <1>1, <1>2, <1>3 DEF TypeOK, Places, Ends
<1>5. Unique' /\ LeftStays' /\ OwnedStays' /\ InfoNamed'
  BY <1>1, <1>2, <1>3, Classes DEF Unique, LeftStays, OwnedStays, InfoNamed
<1>6. Parents' /\ Chain' /\ Below' /\ NoOrphans'
  BY <1>1, <1>2, <1>3, Classes DEF Parents, Chain, Below, NoOrphans
<1> QED
  BY <1>4, <1>5, <1>6

LEMMA Steps == IInv /\ [Next]_vars => IInv'
<1> SUFFICES ASSUME IInv, [Next]_vars PROVE IInv'
  OBVIOUS
<1>1. CASE UNCHANGED vars
  <2>1. /\ UNCHANGED <<phase, php, doomed, dbs, cpp, dbs_made, made, ended, left>>
        /\ Live' = Live /\ Held' = Held
    BY <1>1 DEF vars, Live, Held
  <2>2. \A x \in Kids : (Has(x)' <=> Has(x)) /\ Own(x)' = Own(x) /\ Root(x)' = Root(x)
    BY <2>1 DEF Has, Own, Root
  <2>3. TypeOK' /\ Places' /\ Ends' /\ Unique' /\ LeftStays' /\ OwnedStays' /\ InfoNamed'
    BY <2>1, <2>2 DEF IInv, TypeOK, Places, Ends, Unique, LeftStays, OwnedStays, InfoNamed
  <2>4. Parents' /\ Chain' /\ Below' /\ NoOrphans'
    BY <2>1, <2>2, Classes DEF IInv, Parents, Chain, Below, NoOrphans
  <2> QED
    BY <2>3, <2>4 DEF IInv
<1>2. CASE Next
  <2>1. CASE \E d \in Dbs : Connect(d) \/ Disconnect(d)
    BY <2>1, ConnectStep, DisconnectStep
  <2>2. CASE \E o \in Trs, p \in Dbs : ConstructTransaction(o, p) \/ Reconnect(o, p)
    BY <2>2, ConstructTransactionStep, ReconnectStep
  <2>3. CASE \E o \in Sts, p \in Trs : ConstructStatement(o, p)
    BY <2>3, ConstructOnStep DEF ConstructStatement
  <2>4. CASE \E o \in Bls, p \in Trs : ConstructBlob(o, p)
    BY <2>4, ConstructOnStep DEF ConstructBlob
  <2>5. CASE \E o \in Kids, p \in Dbs \union Trs : ConstructFails(o, p)
    BY <2>5, ConstructFailsStep
  <2>6. CASE \E o \in Trs : Prepare2pc(o)
    BY <2>6, Prepare2pcStep
  <2>7. CASE \E o \in Sts : FreeStatement(o)
    BY <2>7, FreeStatementStep
  <2>8. CASE \E o \in Objs : Release(o) \/ FreeDoomed(o)
    BY <2>8, ReleaseStep, FreeDoomedStep
  <2>9. CASE \E G \in SUBSET Objs : Collect(G)
    BY <2>9, CollectStep
  <2>10. CASE End
    BY <2>10, EndStep
  <2>11. CASE NextRequest
    BY <2>11, NextRequestStep
  <2> QED
    BY <1>2, <2>1, <2>2, <2>3, <2>4, <2>5, <2>6, <2>7, <2>8, <2>9, <2>10, <2>11 DEF Next
<1> QED
  BY <1>1, <1>2

\* The inductive invariant holds throughout.
THEOREM Inductive == Spec => []IInv
  BY Inits, Steps, PTL DEF Spec

------------------------------------------------------------------------------
(* The properties of the runs.                                              *)

\* All variables keep their types, whatever the numbers of objects and places.
THEOREM Typed == Spec => []TypeOK
<1>1. IInv => TypeOK
  BY DEF IInv
<1> QED
  BY <1>1, Inductive, PTL

\* No two live objects of a class name one C++ object: the only places ever given
\* out are new ones, and what a second constructor overwrites is let go for good.
THEOREM Home == Spec => []HandlesLeadHome
<1>1. IInv => HandlesLeadHome
  <2> SUFFICES ASSUME IInv, NEW a \in Kids, NEW b \in Kids, php[a].live, php[b].live, Kind(a) = Kind(b),
                      php[a].h # 0, php[b].h # 0, php[a].dbh = php[b].dbh, php[a].h = php[b].h
               PROVE  a = b
    BY DEF HandlesLeadHome
  <2>1. Has(a) /\ Has(b) /\ Own(a) = Own(b)
    BY DEF Has, Own
  <2> QED
    BY <2>1 DEF IInv, Unique
<1> QED
  BY <1>1, Inductive, PTL

\* A valid handle guarantees that info points into living memory: info names the
\* object of the handle, or one that was let go and so outlasts it.
THEOREM CheckSuffices == Spec => []CheckWouldDo
<1>1. IInv => CheckWouldDo
  <2> SUFFICES ASSUME IInv, NEW o \in Kids, php[o].live, Answer(o) = "served"
               PROVE  Reads(o) = "own"
    BY DEF CheckWouldDo
  <2>1. Valid(o) /\ o \in Objs
    BY Classes, KindType DEF Answer
  <2>2. php[o].h # 0 /\ php[o].dbh \in dbs /\ Own(o) \in Held /\ Has(o)
    BY <2>1, ValidHas DEF IInv, Has
  <2>3. php[o].info # 0 /\ phase # "ending"
    BY <2>2 DEF IInv, InfoNamed, Ends
  <2>4. Name(Kind(o), php[o].dbh, php[o].info) \in Held
    <3>1. CASE php[o].info = php[o].h
      BY <2>2, <3>1 DEF Own
    <3>2. CASE Name(Kind(o), php[o].dbh, php[o].info) \in left
      BY <2>2, <3>2 DEF IInv, LeftStays, Name
    <3> QED
      BY <2>2, <2>3, <3>1, <3>2 DEF IInv, InfoNamed
  <2> QED
    BY <2>3, <2>4 DEF Reads
<1> QED
  BY <1>1, Inductive, PTL

\* While the script runs, only its own calls make a handle stale: the parent
\* properties keep the Database, and the Database keeps the C++ object.
THEOREM StaleOnlyByCalls == Spec => []StaleNeedsCall
<1>1. IInv => StaleNeedsCall
  <2> SUFFICES ASSUME IInv, NEW o \in Kids, Running, php[o].live, ~Valid(o),
                      php[o].h # 0, ~php[o].adrift, php[o].dbh \notin ended
               PROVE  FALSE
    BY Classes DEF StaleNeedsCall, Answer, FreeRaises
  <2>1. phase = "script" /\ doomed = {} /\ Has(o)
    BY DEF Running, Has
  <2>2. php[Root(o)].dbh = php[o].dbh /\ php[o].dbh # 0
    BY <2>1 DEF IInv, Chain, InfoNamed
  <2>3. Root(o) \in Dbs /\ php[Root(o)].live
    <3>1. /\ php[o].parent # Nobody /\ php[o].parent \in ParentOf(o) /\ php[php[o].parent].live
          /\ o \notin Trs => php[php[o].parent].parent \in Dbs
      BY <2>1 DEF IInv, Parents
    <3>2. CASE o \in Trs
      BY <3>1, <3>2 DEF Root, ParentOf
    <3>3. CASE o \notin Trs
      <4>1. php[o].parent \in Kids /\ php[o].parent \in Trs
        BY <3>1, <3>3, Classes DEF ParentOf
      <4>2. php[php[php[o].parent].parent].live
        BY <2>1, <3>1, <3>3, <4>1, Classes DEF IInv, Parents
      <4> QED
        BY <3>1, <3>3, <4>2 DEF Root
    <3> QED
      BY <3>2, <3>3
  <2>4. php[o].dbh \in dbs
    BY <2>1, <2>2, <2>3 DEF IInv, OwnedStays
  <2>5. Own(o) \in Held
    BY <2>1, <2>4 DEF IInv, OwnedStays
  <2> QED
    BY <2>4, <2>5, ValidHas DEF IInv
<1> QED
  BY <1>1, Inductive, PTL

\* The C++ Transaction below a usable Statement or Blob is there.
THEOREM Outlives == Spec => []TransactionOutlives
<1>1. IInv => TransactionOutlives
  <2> SUFFICES ASSUME IInv, NEW c \in cpp, NEW o \in Sts \union Bls, Running, php[o].live,
                      ~php[o].adrift, NameOf(c) = Own(o)
               PROVE  Name("tr", c.db, c.tra) \in Held
    BY DEF TransactionOutlives, Own
  <2>1. phase = "script" /\ doomed = {} /\ o \in Kids /\ o \notin Trs /\ o \in Objs /\ c.db \in dbs
    BY Classes DEF Running, IInv, Places
  <2>2. Has(o)
    <3>1. php[o].h = c.at /\ c.at \in 1 .. MaxSlot
      BY <2>1, CppFields, Fields DEF IInv
    <3> QED
      BY <2>1, <3>1, Bounds DEF Has
  <2>3. /\ c.tra # 0
        /\ \/ php[php[o].parent].dbh = c.db /\ php[php[o].parent].h = c.tra
           \/ Name("tr", c.db, c.tra) \in left
    BY <2>1, <2>2 DEF IInv, Below
  <2>4. php[o].parent \in Trs /\ php[php[o].parent].live
    BY <2>1, <2>2 DEF IInv, Parents, ParentOf
  <2>5. CASE php[php[o].parent].dbh = c.db /\ php[php[o].parent].h = c.tra
    <3>1. Has(php[o].parent) /\ Own(php[o].parent) = Name("tr", c.db, c.tra)
      BY <2>3, <2>4, <2>5, Classes DEF Has, Own
    <3> QED
      BY <2>1, <2>4, <2>5, <3>1, Classes DEF IInv, OwnedStays
  <2>6. CASE Name("tr", c.db, c.tra) \in left
    BY <2>1, <2>6 DEF IInv, LeftStays, Name
  <2> QED
    BY <2>3, <2>5, <2>6
<1> QED
  BY <1>1, Inductive, PTL

\* No C++ object is without somebody who will free it, but for the known leaks.
THEOREM Owned == Spec => []NoOrphans
<1>1. IInv => NoOrphans
  BY DEF IInv
<1> QED
  BY <1>1, Inductive, PTL

\* A place is never filled a second time in a request.
THEOREM PlacesStayEmpty == Spec => NamesStay
<1>1. ASSUME IInv, [Next]_vars
      PROVE  [phase' = phase =>
                /\ \A c \in cpp' : NameOf(c) \in Held \/ c.at > made[c.list][c.db]
                /\ \A d \in dbs' : d \in dbs \/ d > dbs_made]_vars
  <2> SUFFICES ASSUME phase' = phase, Next
               PROVE  /\ \A c \in cpp' : c \in cpp \/ c.at > made[c.list][c.db]
                      /\ \A d \in dbs' : d \in dbs \/ d > dbs_made
    BY <1>1 DEF Held
  <2> DEFINE Goal == /\ \A c \in cpp' : c \in cpp \/ c.at > made[c.list][c.db]
                     /\ \A d \in dbs' : d \in dbs \/ d > dbs_made
  <2>1. ASSUME cpp' \subseteq cpp, dbs' \subseteq dbs PROVE Goal
    BY <2>1
  <2>2. dbs_made \in Int /\ dbs_made + 1 > dbs_made
    BY <1>1 DEF IInv, TypeOK
  <2>3. ASSUME NEW d \in Dbs, Connect(d) PROVE Goal
    BY <2>2, <2>3 DEF Connect
  <2>4. ASSUME NEW k \in Lists, NEW d \in dbs, NEW T, Push(k, d, T), dbs' = dbs PROVE Goal
    <3>1. made[k][d] \in Int
      BY <1>1, <2>4, Bounds DEF IInv, TypeOK
    <3> QED
      BY <2>4, <3>1 DEF Push, NewPlace
  <2>5. ASSUME NEW o \in Trs, NEW p \in Dbs, ConstructTransaction(o, p) PROVE Goal
    BY <2>4, <2>5 DEF ConstructTransaction, ValidDb, Lists
  <2>6. ASSUME NEW o \in Sts \union Bls, NEW p \in Trs, ConstructOn(o, p) PROVE Goal
    <3>1. Kind(o) \in Lists
      BY Classes, KindType
    <3> QED
      BY <2>4, <2>6, <3>1 DEF ConstructOn, Valid, ValidDb
  <2>7. ASSUME NEW o \in Trs, NEW p \in Dbs, Reconnect(o, p) PROVE Goal
    <3>1. made["tr"][php[p].dbh] \in Int
      BY <1>1, <2>7, Bounds DEF IInv, TypeOK, Reconnect, ValidDb, Lists
    <3> QED
      BY <2>7, <3>1 DEF Reconnect, NewPlace
  <2>8. ASSUME NEW o \in Objs, FreeObj(o) PROVE Goal
    BY <2>1, <2>8 DEF FreeObj, FreeDatabase, FreeTransaction, FreeStatementObj, FreeBlob
  <2> QED
    BY <2>1, <2>3, <2>5, <2>6, <2>7, <2>8
    DEF Next, Disconnect, ConstructStatement, ConstructBlob, ConstructFails, Prepare2pc, FreeStatement,
        Release, FreeDoomed, Collect, End, NextRequest
<1> QED
  BY <1>1, Inductive, PTL DEF Spec, NamesStay

==============================================================================
