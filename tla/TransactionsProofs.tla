------------------------- MODULE TransactionsProofs -------------------------
(* Proofs about module Transactions, for every value of its constants.     *)
EXTENDS Transactions, TLAPS

-----------------------------------------------------------------------------
(* Type correctness.                                                       *)

LEMMA SlotTypes ==
  /\ UnusedSlot \in SlotRec
  /\ FreedSlot \in SlotRec
  /\ NewSlot \in SlotRec
  /\ \A t \in Tids : StartedSlot(t) \in SlotRec
  /\ NoSlots \in [Trhs -> SlotRec]
  /\ NoObj \in ObjRec
  BY BoundsAssumption
     DEF UnusedSlot, FreedSlot, NewSlot, StartedSlot, NoSlots, NoObj, SlotRec,
         ObjRec, Tids

\* What emplace_back does to the tables, for one new slot and for two.
LEMMA AppendOne ==
  ASSUME TypeOK, NEW d \in Dbhs, NEW s \in SlotRec, AppendSlots(d, <<s>>)
  PROVE  /\ size[d] \in Nat /\ size[d] + 1 \in Trhs
         /\ size' = [size EXCEPT ![d] = size[d] + 1]
         /\ slot' = [slot EXCEPT ![d] = [slot[d] EXCEPT ![size[d] + 1] = s]]
         /\ size' \in [Dbhs -> 0..MaxTr]
         /\ slot' \in [Dbhs -> [Trhs -> SlotRec]]
<1>1. Len(<<s>>) = 1 /\ <<s>>[1] = s
  OBVIOUS
<1>2. size[d] \in Nat /\ size[d] + 1 <= MaxTr /\ size[d] + 1 \in Trhs
  BY <1>1, BoundsAssumption DEF TypeOK, AppendSlots, Trhs
<1>3. \A n \in Trhs : n > size[d] /\ n <= size[d] + 1 <=> n = size[d] + 1
  BY <1>2, BoundsAssumption DEF Trhs
<1>4. slot' = [slot EXCEPT ![d] = [n \in Trhs |->
                 IF n > size[d] /\ n <= size[d] + 1 THEN s ELSE slot[d][n]]]
  <2>1. \A n \in Trhs : n > size[d] /\ n <= size[d] + 1
                        => <<s>>[n - size[d]] = s
    BY <1>1, <1>2, <1>3
  <2> QED BY <1>1, <2>1 DEF AppendSlots
<1>5. slot' = [slot EXCEPT ![d] = [slot[d] EXCEPT ![size[d] + 1] = s]]
  <2>1. [slot[d] EXCEPT ![size[d] + 1] = s] = [n \in Trhs |->
           IF n > size[d] /\ n <= size[d] + 1 THEN s ELSE slot[d][n]]
    BY <1>2, <1>3 DEF TypeOK
  <2> QED BY <1>4, <2>1
<1>6. size' = [size EXCEPT ![d] = size[d] + 1]
  BY <1>1 DEF AppendSlots
<1> QED BY <1>2, <1>5, <1>6, BoundsAssumption DEF TypeOK

LEMMA AppendTwo ==
  ASSUME TypeOK, NEW d \in Dbhs, NEW s \in SlotRec, NEW r \in SlotRec,
         AppendSlots(d, <<s, r>>)
  PROVE  /\ size[d] \in Nat /\ size[d] + 1 \in Trhs /\ size[d] + 2 \in Trhs
         /\ size' = [size EXCEPT ![d] = size[d] + 2]
         /\ slot' = [slot EXCEPT ![d] =
                       [slot[d] EXCEPT ![size[d] + 1] = s, ![size[d] + 2] = r]]
         /\ size' \in [Dbhs -> 0..MaxTr]
         /\ slot' \in [Dbhs -> [Trhs -> SlotRec]]
<1>1. Len(<<s, r>>) = 2 /\ <<s, r>>[1] = s /\ <<s, r>>[2] = r
  OBVIOUS
<1>2. /\ size[d] \in Nat /\ size[d] + 2 <= MaxTr
      /\ size[d] + 1 \in Trhs /\ size[d] + 2 \in Trhs
  BY <1>1, BoundsAssumption DEF TypeOK, AppendSlots, Trhs
<1>3. \A n \in Trhs : n > size[d] /\ n <= size[d] + 2
                      <=> n = size[d] + 1 \/ n = size[d] + 2
  BY <1>2, BoundsAssumption DEF Trhs
<1>4. (size[d] + 1) - size[d] = 1 /\ (size[d] + 2) - size[d] = 2
  BY <1>2
<1>5. slot' = [slot EXCEPT ![d] = [n \in Trhs |->
                 IF n = size[d] + 1 THEN s
                 ELSE IF n = size[d] + 2 THEN r ELSE slot[d][n]]]
  <2>1. \A n \in Trhs : n = size[d] + 1 => <<s, r>>[n - size[d]] = s
    BY <1>1, <1>4
  <2>2. \A n \in Trhs : n = size[d] + 2 => <<s, r>>[n - size[d]] = r
    BY <1>1, <1>4
  <2>3. size[d] + 1 # size[d] + 2
    BY <1>2
  <2> QED BY <1>1, <1>3, <2>1, <2>2, <2>3 DEF AppendSlots
<1>6. slot' = [slot EXCEPT ![d] =
                [slot[d] EXCEPT ![size[d] + 1] = s, ![size[d] + 2] = r]]
  <2>1. [slot[d] EXCEPT ![size[d] + 1] = s, ![size[d] + 2] = r] =
           [n \in Trhs |-> IF n = size[d] + 1 THEN s
                           ELSE IF n = size[d] + 2 THEN r ELSE slot[d][n]]
    BY <1>2 DEF TypeOK
  <2> QED BY <1>5, <2>1
<1>7. size' = [size EXCEPT ![d] = size[d] + 2]
  BY <1>1 DEF AppendSlots
<1> QED BY <1>2, <1>6, <1>7, BoundsAssumption DEF TypeOK

LEMMA ClearType ==
  ASSUME TypeOK, NEW D, ClearLists(D)
  PROVE  /\ size' \in [Dbhs -> 0..MaxTr]
         /\ slot' \in [Dbhs -> [Trhs -> SlotRec]]
  BY SlotTypes, BoundsAssumption DEF TypeOK, ClearLists

LEMMA EndType ==
  ASSUME TypeOK, NEW D, NEW R, EndAttachments(D, R)
  PROVE  srv' \in [Tids -> SrvState]
  BY DEF TypeOK, EndAttachments, SrvState, Resolved

\* Where a transaction object leads, it leads to a slot of the right type.
LEMMA ReachesType ==
  ASSUME TypeOK, NEW o \in Objs, Reaches(o)
  PROVE  /\ obj[o] \in ObjRec
         /\ obj[o].dbh \in Dbhs
         /\ obj[o].trh \in Trhs
         /\ slot[obj[o].dbh][obj[o].trh] \in SlotRec
         /\ Tra(o) \in 0..MaxTid
         /\ Tra(o) # 0 => Tra(o) \in Tids
  BY BoundsAssumption
     DEF TypeOK, Reaches, fbu_is_valid_trh, fbu_is_valid_dbh, Tra, Slot, Tids, SlotRec

LEMMA PutSlotType ==
  ASSUME TypeOK, NEW o \in Objs, Reaches(o), NEW s \in SlotRec, PutSlot(o, s)
  PROVE  slot' \in [Dbhs -> [Trhs -> SlotRec]]
  BY ReachesType DEF TypeOK, PutSlot

\* The slot of an object that was started, whether its number was read or not.
LEMMA StartedAs ==
  ASSUME TypeOK, NEW o \in Objs, NEW t \in Tids, Start(o, t)
  PROVE  \E s \in SlotRec : /\ PutSlot(o, s) /\ s.st = "alive" /\ s.tra = t
                           /\ s.id \in {t, Slot(o).id}
<1>1. Slot(o) \in SlotRec /\ Slot(o).st = "alive"
  BY ReachesType DEF Start, Slot, Reaches, fbu_is_valid_trh
<1>2. /\ StartedSlot(t) \in SlotRec
      /\ StartedSlot(t).st = "alive" /\ StartedSlot(t).tra = t /\ StartedSlot(t).id = t
  BY SlotTypes DEF StartedSlot
<1> DEFINE s == [Slot(o) EXCEPT !.tra = t]
<1>3. s \in SlotRec /\ s.st = "alive" /\ s.tra = t /\ s.id = Slot(o).id
  BY <1>1, BoundsAssumption DEF SlotRec, Tids
<1>4. PutSlot(o, StartedSlot(t)) \/ PutSlot(o, s)
  BY DEF Start
<1> HIDE DEF s
<1> QED BY <1>2, <1>3, <1>4

LEMMA SetTraType ==
  ASSUME TypeOK, NEW o \in Objs, Reaches(o), NEW t \in 0..MaxTid, SetTra(o, t)
  PROVE  slot' \in [Dbhs -> [Trhs -> SlotRec]]
<1>1. [Slot(o) EXCEPT !.tra = t] \in SlotRec
  BY ReachesType DEF SlotRec, Slot
<1> QED BY <1>1, PutSlotType DEF SetTra

LEMMA TypeInit == Init => TypeOK
  BY SlotTypes, BoundsAssumption DEF Init, TypeOK, DbState, SrvState

LEMMA TypeStep == TypeOK /\ [Next]_vars => TypeOK'
<1> SUFFICES ASSUME TypeOK, [Next]_vars PROVE TypeOK'
  OBVIOUS
<1> USE SlotTypes, BoundsAssumption
<1>1. ASSUME NEW d \in Dbhs, Connect(d) PROVE TypeOK'
  BY <1>1 DEF TypeOK, Connect, DbState
<1>2. ASSUME NEW d \in Dbhs, Disconnect(d) PROVE TypeOK'
  BY <1>2, ClearType, EndType DEF TypeOK, Disconnect, DbState
<1>3. ASSUME NEW d \in Dbhs, Drop(d) PROVE TypeOK'
  BY <1>3, ClearType DEF TypeOK, Drop, DbState, SrvState, Resolved
<1>4. ASSUME NEW d \in Dbhs, FreeDatabase(d) PROVE TypeOK'
  <2>1. obj' \in [Objs -> ObjRec]
    BY <1>4 DEF TypeOK, FreeDatabase, ObjRec
  <2> QED BY <1>4, <2>1, ClearType, EndType
          DEF TypeOK, FreeDatabase, Destructors, DbState
<1>5. ASSUME NEW d \in Dbhs, LoseConnection(d) PROVE TypeOK'
  BY <1>5, EndType DEF TypeOK, LoseConnection, DbState
<1>6. ASSUME NEW d \in Dbhs, NEW o \in Objs, NewTransaction(d, o) PROVE TypeOK'
  <2>1. obj' \in [Objs -> ObjRec]
    BY <1>6, AppendOne DEF TypeOK, NewTransaction, Born, ObjRec, Dbhs, Trhs
  <2> QED BY <1>6, <2>1, AppendOne DEF TypeOK, NewTransaction
<1>7. ASSUME NEW d \in Dbhs, NEW o \in Objs, NEW t \in Tids,
             StartTransaction(d, o, t)
      PROVE  TypeOK'
  <2>1. obj' \in [Objs -> ObjRec]
    <3>1. CASE UNCHANGED obj
      BY <3>1 DEF TypeOK
    <3>2. CASE AppendSlots(d, <<StartedSlot(t)>>)
               /\ Born(o, d, size[d] + 1, size[d] + 1)
      <4>1. size[d] + 1 \in Trhs
        BY <3>2, AppendOne
      <4> QED BY <3>2, <4>1 DEF TypeOK, Born, ObjRec, Dbhs, Trhs
    <3> QED BY <1>7, <3>1, <3>2 DEF StartTransaction
  <2>2. srv' \in [Tids -> SrvState]
    BY <1>7 DEF TypeOK, StartTransaction, SrvState, Unresolved, Resolved
  <2> QED BY <1>7, <2>1, <2>2, AppendOne DEF TypeOK, StartTransaction
<1>8. ASSUME NEW d \in Dbhs, NEW o \in Objs, NEW t \in Tids,
             ReconnectTransaction(d, o, t)
      PROVE  TypeOK'
  <2>1. obj' \in [Objs -> ObjRec]
    <3>1. CASE UNCHANGED obj
      BY <3>1 DEF TypeOK
    <3>2. CASE AppendSlots(d, <<NewSlot, StartedSlot(t)>>)
               /\ Born(o, d, size[d] + 2, size[d] + 1)
      <4>1. size[d] + 1 \in Trhs /\ size[d] + 2 \in Trhs
        BY <3>2, AppendTwo
      <4> QED BY <3>2, <4>1 DEF TypeOK, Born, ObjRec, Dbhs, Trhs
    <3> QED BY <1>8, <3>1, <3>2 DEF ReconnectTransaction
  <2> QED BY <1>8, <2>1, AppendOne, AppendTwo DEF TypeOK, ReconnectTransaction
<1>9. ASSUME NEW o \in Objs, NEW t \in Tids, Start(o, t) PROVE TypeOK'
  <2>1. slot' \in [Dbhs -> [Trhs -> SlotRec]]
    <3>1. PICK s \in SlotRec : PutSlot(o, s)
      BY <1>9, StartedAs
    <3> QED BY <1>9, <3>1, PutSlotType DEF Start
  <2> QED BY <1>9, <2>1 DEF TypeOK, Start, SrvState, Unresolved
<1>10. ASSUME NEW o \in Objs, FreeTransaction(o) PROVE TypeOK'
  <2>1. obj' \in [Objs -> ObjRec]
    BY <1>10 DEF TypeOK, FreeTransaction, ObjRec
  <2>2. srv' \in [Tids -> SrvState]
    BY <1>10 DEF TypeOK, FreeTransaction, SrvState, Resolved
  <2>3. slot' \in [Dbhs -> [Trhs -> SlotRec]]
    BY <1>10, PutSlotType DEF TypeOK, FreeTransaction
  <2> QED BY <1>10, <2>1, <2>2, <2>3 DEF TypeOK, FreeTransaction
<1>11. ASSUME NEW o \in Objs, NEW outcome \in {"committed", "rolledback"},
              End(o, outcome)
       PROVE  TypeOK'
  BY <1>11, SetTraType, ReachesType DEF TypeOK, End, Usable, SrvState, Resolved
<1>12. ASSUME NEW o \in Objs, NEW outcome \in {"committed", "rolledback"},
              NEW t \in Tids, EndRetaining(o, outcome, t)
       PROVE  TypeOK'
  BY <1>12, SetTraType
     DEF TypeOK, EndRetaining, Usable, SrvState, Unresolved, Resolved, Tids
<1>13. ASSUME NEW o \in Objs, ExecuteSql(o) PROVE TypeOK'
  <2>1. ASSUME NEW outcome \in {"committed", "rolledback"}, EndSql(o, outcome)
        PROVE  TypeOK'
    <3>1. slot' \in [Dbhs -> [Trhs -> SlotRec]]
      BY <2>1, PutSlotType DEF EndSql, Usable
    <3> QED BY <2>1, <3>1 DEF TypeOK, EndSql, SrvState, Resolved
  <2> QED BY <1>9, <1>12, <1>13, <2>1 DEF ExecuteSql
<1>14. ASSUME NEW o \in Objs, Prepare2pc(o) PROVE TypeOK'
  BY <1>14 DEF TypeOK, Prepare2pc, SrvState, Unresolved, ObjRec
<1>15. ASSUME NEW t \in Tids, ResolveElsewhere(t) PROVE TypeOK'
  BY <1>15 DEF TypeOK, ResolveElsewhere, SrvState, Resolved
<1>16. ASSUME Shutdown \/ Crash PROVE TypeOK'
  BY <1>16, EndType DEF TypeOK, Shutdown, Crash, NewRequest, DbState
<1>17. ASSUME UNCHANGED vars PROVE TypeOK'
  BY <1>17 DEF TypeOK, vars
<1> QED
  BY <1>1, <1>2, <1>3, <1>4, <1>5, <1>6, <1>7, <1>8, <1>9, <1>10, <1>11, <1>12,
     <1>13, <1>14, <1>15, <1>16, <1>17 DEF Next, Finalize, PrepareNull

\* The variables keep their types.
THEOREM TypeCorrect == Spec => []TypeOK
  BY TypeInit, TypeStep, PTL DEF Spec

-----------------------------------------------------------------------------
(* The inductive invariant.                                                *)

\* The effect of the table operations, one slot at a time.
LEMMA PutEffect ==
  ASSUME TypeOK, NEW o \in Objs, Reaches(o), NEW s \in SlotRec, PutSlot(o, s)
  PROVE  \A e \in Dbhs, n \in Trhs :
           slot'[e][n] = IF e = obj[o].dbh /\ n = obj[o].trh THEN s
                         ELSE slot[e][n]
  BY ReachesType DEF TypeOK, PutSlot

LEMMA AppendOneEffect ==
  ASSUME TypeOK, NEW d \in Dbhs, NEW s \in SlotRec, AppendSlots(d, <<s>>)
  PROVE  /\ size[d] \in Nat /\ size[d] + 1 \in Trhs
         /\ \A e \in Dbhs : size'[e] = IF e = d THEN size[d] + 1 ELSE size[e]
         /\ \A e \in Dbhs, n \in Trhs :
              slot'[e][n] = IF e = d /\ n = size[d] + 1 THEN s ELSE slot[e][n]
  BY AppendOne DEF TypeOK

LEMMA AppendTwoEffect ==
  ASSUME TypeOK, NEW d \in Dbhs, NEW s \in SlotRec, NEW r \in SlotRec,
         AppendSlots(d, <<s, r>>)
  PROVE  /\ size[d] \in Nat /\ size[d] + 1 \in Trhs /\ size[d] + 2 \in Trhs
         /\ \A e \in Dbhs : size'[e] = IF e = d THEN size[d] + 2 ELSE size[e]
         /\ \A e \in Dbhs, n \in Trhs :
              slot'[e][n] = IF e = d /\ n = size[d] + 1 THEN s
                            ELSE IF e = d /\ n = size[d] + 2 THEN r
                            ELSE slot[e][n]
<1>1. size[d] + 1 # size[d] + 2
  BY AppendTwo
<1> QED BY <1>1, AppendTwo DEF TypeOK

LEMMA IndInit == Init => IndInv
<1> SUFFICES ASSUME Init PROVE IndInv
  OBVIOUS
<1>1. TypeOK
  BY TypeInit
<1>2. TablesKept /\ ActiveHeld /\ ActiveOwned /\ ActiveUnique /\ SlotIds
  BY DEF Init, TablesKept, ActiveHeld, ActiveOwned, ActiveUnique, SlotIds,
         NoSlots, UnusedSlot, Tids, Unresolved
<1>3. HandlesIssued /\ InfoPrivate /\ HandlesExclusive /\ PreparedMarked
  BY DEF Init, HandlesIssued, InfoPrivate, HandlesExclusive, PreparedMarked,
         Reaches, NoObj
<1> QED BY <1>1, <1>2, <1>3 DEF IndInv

\* The end of the request, in either way, leaves nothing running.
LEMMA ResetStep ==
  ASSUME IndInv, Shutdown \/ Crash
  PROVE  IndInv'
<1>1. TypeOK'
  BY TypeStep DEF IndInv, Next
<1>2. TablesKept' /\ ActiveOwned' /\ ActiveUnique' /\ SlotIds'
  BY DEF Shutdown, Crash, NewRequest, TablesKept, ActiveOwned, ActiveUnique,
         SlotIds, NoSlots, UnusedSlot, Tids
<1>3. HandlesIssued' /\ InfoPrivate' /\ HandlesExclusive' /\ PreparedMarked'
  BY DEF Shutdown, Crash, NewRequest, HandlesIssued, InfoPrivate,
         HandlesExclusive, PreparedMarked, Reaches, NoObj
<1>4. ActiveHeld'
  <2>1. PICK R : EndAttachments(Dbhs, R)
    BY DEF Shutdown, Crash
  <2>2. \A t \in Tids : srv'[t] # "active"
    BY <2>1 DEF EndAttachments, IndInv, ActiveHeld, ActiveIn
  <2> QED BY <2>2 DEF ActiveHeld
<1> QED BY <1>1, <1>2, <1>3, <1>4 DEF IndInv

\* A Database ends: its list goes, and what ran in it is rolled back.
LEMMA ClearEffect ==
  ASSUME TypeOK, NEW d \in Dbhs, ClearLists({d})
  PROVE  /\ \A e \in Dbhs : size'[e] = IF e = d THEN 0 ELSE size[e]
         /\ \A e \in Dbhs, n \in Trhs :
              slot'[e][n] = IF e = d THEN UnusedSlot ELSE slot[e][n]
  BY DEF ClearLists, NoSlots

LEMMA GoneStep ==
  ASSUME IndInv, TypeOK', NEW d \in Dbhs, fbu_is_valid_dbh(d), ClearLists({d}),
         db' = [db EXCEPT ![d] = "gone"],
         \A t \in Tids : srv'[t] = srv[t] \/ srv'[t] \in Resolved,
         \A t \in Tids : srv'[t] = "active" => t \notin Held(d),
         \A o \in Objs : \/ obj'[o] = obj[o]
                         \/ /\ obj[o].dbh = d /\ obj[o].st = "live"
                            /\ obj'[o] = [obj[o] EXCEPT !.st = "freed"]
  PROVE  IndInv'
<1>p. /\ TypeOK /\ TablesKept /\ HandlesIssued /\ InfoPrivate /\ HandlesExclusive
      /\ ActiveUnique /\ ActiveHeld /\ ActiveOwned /\ SlotIds /\ PreparedMarked
  BY DEF IndInv
<1>s. /\ \A e \in Dbhs : size'[e] = IF e = d THEN 0 ELSE size[e]
      /\ \A e \in Dbhs, n \in Trhs :
           slot'[e][n] = IF e = d THEN UnusedSlot ELSE slot[e][n]
  BY <1>p, ClearEffect
<1>d. \A e \in Dbhs : db'[e] = IF e = d THEN "gone" ELSE db[e]
  BY <1>p DEF TypeOK
<1>o. \A o \in Objs : obj[o] \in ObjRec /\ obj'[o] \in ObjRec
  BY <1>p DEF TypeOK
<1>u. UnusedSlot.st # "alive" /\ UnusedSlot.tra = 0 /\ UnusedSlot.id = 0 /\ 0 \notin Tids
  BY DEF UnusedSlot, Tids
<1>n. \A t \in Tids : srv[t] # "none" => srv'[t] # "none"
  BY DEF Resolved
<1>r. \A t \in Tids : srv'[t] \in Unresolved => srv'[t] = srv[t]
  BY DEF Resolved, Unresolved
<1>a. \A t \in Tids : srv'[t] = "active" => srv[t] = "active" /\ t \notin Held(d)
  BY DEF Resolved
<1>f. \A o \in Objs : /\ obj'[o].dbh = obj[o].dbh /\ obj'[o].trh = obj[o].trh
                      /\ obj'[o].info = obj[o].info
                      /\ obj'[o].is_prepared_2pc = obj[o].is_prepared_2pc
                      /\ (obj'[o].st = "none") = (obj[o].st = "none")
                      /\ obj'[o].st = "live" => obj'[o] = obj[o]
  <2> SUFFICES ASSUME NEW o \in Objs
               PROVE  /\ obj'[o].dbh = obj[o].dbh /\ obj'[o].trh = obj[o].trh
                      /\ obj'[o].info = obj[o].info
                      /\ obj'[o].is_prepared_2pc = obj[o].is_prepared_2pc
                      /\ (obj'[o].st = "none") = (obj[o].st = "none")
                      /\ obj'[o].st = "live" => obj'[o] = obj[o]
    OBVIOUS
  <2>1. CASE obj'[o] = obj[o]
    BY <2>1
  <2>2. CASE obj[o].st = "live" /\ obj'[o] = [obj[o] EXCEPT !.st = "freed"]
    BY <1>o, <2>2 DEF ObjRec
  <2> QED BY <2>1, <2>2
<1>1. TablesKept'
  <2>1. d \in Dbhs /\ \A n \in Trhs : n > 0
    BY DEF Trhs
  <2> QED BY <1>p, <1>s, <1>d, <1>u, <1>n, <2>1 DEF TablesKept
<1>2. HandlesIssued'
  BY <1>p, <1>s, <1>d, <1>f DEF HandlesIssued
<1>3. \A o \in Objs : Reaches(o)' => /\ Reaches(o) /\ obj'[o] = obj[o]
                                     /\ obj[o].dbh # d /\ Tra(o)' = Tra(o)
                                     /\ obj[o].dbh \in Dbhs /\ obj[o].trh \in Trhs
  <2> SUFFICES ASSUME NEW o \in Objs, Reaches(o)'
               PROVE  /\ Reaches(o) /\ obj'[o] = obj[o]
                      /\ obj[o].dbh # d /\ Tra(o)' = Tra(o)
                      /\ obj[o].dbh \in Dbhs /\ obj[o].trh \in Trhs
    OBVIOUS
  <2>1. obj'[o] = obj[o]
    BY <1>f DEF Reaches
  <2>2. /\ obj[o].dbh \in Dbhs /\ db'[obj[o].dbh] \in {"open", "broken"}
        /\ obj[o].trh \in Trhs /\ slot'[obj[o].dbh][obj[o].trh].st = "alive"
        /\ obj[o].st = "live"
    BY <2>1 DEF Reaches, fbu_is_valid_trh, fbu_is_valid_dbh
  <2>3. obj[o].dbh # d
    BY <1>d, <2>2
  <2> QED BY <1>s, <1>d, <2>1, <2>2, <2>3
          DEF Reaches, fbu_is_valid_trh, fbu_is_valid_dbh, Tra, Slot
<1>4. HandlesExclusive'
  BY <1>p, <1>3 DEF HandlesExclusive
<1>5. PreparedMarked'
  <2>1. \A o \in Objs : Reaches(o) /\ Tra(o) # 0 => Tra(o) \in Tids
    BY <1>p, ReachesType
  <2> QED BY <1>p, <1>3, <1>r, <2>1 DEF PreparedMarked, Unresolved
<1>6. InfoPrivate'
  <2>1. ASSUME NEW o \in Objs, Reaches(o)', obj'[o].info # obj'[o].trh
        PROVE  slot'[obj[o].dbh][obj[o].info] = NewSlot
    BY <1>p, <1>3, <1>s, <2>1 DEF InfoPrivate, HandlesIssued, Reaches
  <2>2. ASSUME NEW o \in Objs, Reaches(o)', obj'[o].info # obj'[o].trh,
               NEW q \in Objs, obj'[q].st # "none", obj'[q].dbh = obj'[o].dbh
        PROVE  obj'[q].trh # obj'[o].info
    <3>1. obj'[q].trh = obj[q].trh /\ obj'[q].dbh = obj[q].dbh /\ obj[q].st # "none"
      BY <1>o, <2>2 DEF ObjRec
    <3> QED BY <1>p, <1>3, <2>2, <3>1 DEF InfoPrivate
  <2> QED BY <1>3, <2>1, <2>2 DEF InfoPrivate
<1>7. ActiveUnique'
  BY <1>p, <1>s, <1>u, <1>a DEF ActiveUnique
<1>8. SlotIds'
  BY <1>p, <1>s, <1>u, <1>r DEF SlotIds
<1>9. ActiveHeld'
  <2>1. \A e \in Dbhs \ {d} : Held(e)' = Held(e)
    BY <1>s DEF Held
  <2> QED BY <1>p, <1>a, <1>d, <2>1 DEF ActiveHeld
<1>10. ActiveOwned'
  <2>1. \A o \in Objs : obj[o].dbh # d => obj'[o] = obj[o]
    OBVIOUS
  <2> QED BY <1>p, <1>s, <1>u, <1>a, <2>1 DEF ActiveOwned
<1> QED BY <1>1, <1>2, <1>4, <1>5, <1>6, <1>7, <1>8, <1>9, <1>10 DEF IndInv

\* Disconnect, drop and free_obj of a Database are steps of that form.
LEMMA DatabaseEnds ==
  ASSUME IndInv, NEW d \in Dbhs, Disconnect(d) \/ Drop(d) \/ FreeDatabase(d)
  PROVE  IndInv'
<1>1. TypeOK /\ TypeOK'
  BY TypeStep DEF IndInv, Next
<1>2. /\ fbu_is_valid_dbh(d) /\ ClearLists({d}) /\ db' = [db EXCEPT ![d] = "gone"]
  BY DEF Disconnect, Drop, FreeDatabase, Destructors
<1>3. \A o \in Objs : \/ obj'[o] = obj[o]
                      \/ /\ obj[o].dbh = d /\ obj[o].st = "live"
                         /\ obj'[o] = [obj[o] EXCEPT !.st = "freed"]
  BY <1>1 DEF Disconnect, Drop, FreeDatabase, TypeOK
<1>4. CASE Disconnect(d) \/ FreeDatabase(d)
  <2>1. PICK R : EndAttachments({d}, R)
    BY <1>4 DEF Disconnect, FreeDatabase, Destructors
  <2>2. \A t \in Tids : srv'[t] = srv[t] \/ srv'[t] \in Resolved
    BY <2>1 DEF EndAttachments, Resolved
  <2>3. \A t \in Tids : srv'[t] = "active" => t \notin Held(d)
    BY <2>1 DEF EndAttachments, ActiveIn
  <2> QED BY <1>1, <1>2, <1>3, <2>2, <2>3, GoneStep
<1>5. CASE Drop(d)
  <2>1. \A t \in Tids : /\ srv'[t] = srv[t] \/ srv'[t] \in Resolved
                        /\ srv'[t] # "active"
    BY <1>1, <1>5 DEF Drop, Resolved, Unresolved
  <2> QED BY <1>1, <1>2, <1>3, <2>1, GoneStep
<1> QED BY <1>4, <1>5

\* Steps that touch neither the tables nor the objects' handles.
LEMMA ServerStep ==
  ASSUME IndInv, TypeOK', UNCHANGED <<size, slot>>,
         \A d \in Dbhs : \/ db'[d] = db[d]
                         \/ db[d] = "none" /\ db'[d] \in {"open", "gone"}
                         \/ db[d] = "open" /\ db'[d] = "broken",
         \A o \in Objs :
           \/ obj'[o] = obj[o]
           \/ /\ obj[o].st = "live"
              /\ obj'[o] = [obj[o] EXCEPT !.is_prepared_2pc = TRUE],
         \A t \in Tids : \/ srv'[t] = srv[t]
                         \/ srv[t] # "none" /\ srv'[t] \in Resolved
                         \/ srv[t] \in Unresolved /\ srv'[t] = "prepared",
         \A t \in Tids, d \in Dbhs :
           srv'[t] = "active" /\ t \in Held(d) => db'[d] = db[d],
         \A o \in Objs : Reaches(o) /\ Tra(o) \in Tids =>
           \/ srv'[Tra(o)] = srv[Tra(o)]
           \/ srv'[Tra(o)] # "prepared"
           \/ obj'[o].is_prepared_2pc
  PROVE  IndInv'
<1>p. /\ TypeOK /\ TablesKept /\ HandlesIssued /\ InfoPrivate /\ HandlesExclusive
      /\ ActiveUnique /\ ActiveHeld /\ ActiveOwned /\ SlotIds /\ PreparedMarked
  BY DEF IndInv
<1>o. \A o \in Objs : obj[o] \in ObjRec /\ obj'[o] \in ObjRec
  BY <1>p DEF TypeOK
<1>f. \A o \in Objs : /\ obj'[o].dbh = obj[o].dbh /\ obj'[o].trh = obj[o].trh
                      /\ obj'[o].info = obj[o].info /\ obj'[o].st = obj[o].st
                      /\ obj[o].is_prepared_2pc => obj'[o].is_prepared_2pc
                      /\ obj[o].st = "none"
                           => obj'[o].is_prepared_2pc = obj[o].is_prepared_2pc
  <2> SUFFICES ASSUME NEW o \in Objs
               PROVE  /\ obj'[o].dbh = obj[o].dbh /\ obj'[o].trh = obj[o].trh
                      /\ obj'[o].info = obj[o].info /\ obj'[o].st = obj[o].st
                      /\ obj[o].is_prepared_2pc => obj'[o].is_prepared_2pc
                      /\ obj[o].st = "none"
                           => obj'[o].is_prepared_2pc = obj[o].is_prepared_2pc
    OBVIOUS
  <2>1. CASE obj'[o] = obj[o]
    BY <2>1
  <2>2. CASE /\ obj[o].st = "live"
             /\ obj'[o] = [obj[o] EXCEPT !.is_prepared_2pc = TRUE]
    BY <1>o, <2>2 DEF ObjRec
  <2> QED BY <2>1, <2>2
<1>n. \A t \in Tids : srv[t] # "none" => srv'[t] # "none"
  BY DEF Resolved
<1>r. \A t \in Tids : srv'[t] \in Unresolved => srv[t] \in Unresolved
  BY DEF Resolved, Unresolved
<1>a. \A t \in Tids : srv'[t] = "active" => srv[t] = "active"
  BY DEF Resolved
<1>1. TablesKept'
  <2>1. \A d \in Dbhs : db'[d] \in {"none", "gone"} => db[d] \in {"none", "gone"}
    OBVIOUS
  <2> QED BY <1>p, <1>n, <2>1 DEF TablesKept
<1>2. HandlesIssued'
  <2>1. \A d \in Dbhs : /\ db[d] # "none" => db'[d] # "none"
                        /\ db'[d] # "gone" /\ db[d] # "none" => db[d] # "gone"
    OBVIOUS
  <2> QED BY <1>p, <1>f, <2>1 DEF HandlesIssued
<1>3. \A o \in Objs : Reaches(o)' =>
        /\ Reaches(o) /\ Tra(o)' = Tra(o)
        /\ obj[o].dbh \in Dbhs /\ obj[o].trh \in Trhs
  <2> SUFFICES ASSUME NEW o \in Objs, Reaches(o)'
               PROVE  /\ Reaches(o) /\ Tra(o)' = Tra(o)
                      /\ obj[o].dbh \in Dbhs /\ obj[o].trh \in Trhs
    OBVIOUS
  <2>1. /\ obj[o].st = "live" /\ obj[o].dbh \in Dbhs /\ obj[o].trh \in Trhs
        /\ slot[obj[o].dbh][obj[o].trh].st = "alive"
        /\ db'[obj[o].dbh] \in {"open", "broken"}
    BY <1>f DEF Reaches, fbu_is_valid_trh, fbu_is_valid_dbh
  <2>2. db[obj[o].dbh] # "none"
    BY <1>p, <2>1 DEF HandlesIssued
  <2> QED BY <1>f, <2>1, <2>2 DEF Reaches, fbu_is_valid_trh, fbu_is_valid_dbh,
                                  Tra, Slot
<1>4. HandlesExclusive'
  BY <1>p, <1>f, <1>3 DEF HandlesExclusive
<1>5. InfoPrivate'
  BY <1>p, <1>f, <1>3 DEF InfoPrivate
<1>6. PreparedMarked'
  <2>1. \A o \in Objs : Reaches(o) /\ Tra(o) # 0 => Tra(o) \in Tids
    BY <1>p, ReachesType
  <2> QED BY <1>p, <1>f, <1>3, <2>1 DEF PreparedMarked
<1>7. ActiveUnique'
  BY <1>p, <1>a DEF ActiveUnique
<1>8. SlotIds'
  BY <1>p, <1>r DEF SlotIds
<1>9. ActiveHeld'
  BY <1>p, <1>a DEF ActiveHeld, Held
<1>10. ActiveOwned'
  BY <1>p, <1>a, <1>f DEF ActiveOwned
<1> QED BY <1>1, <1>2, <1>4, <1>5, <1>6, <1>7, <1>8, <1>9, <1>10 DEF IndInv

LEMMA ConnectStep ==
  ASSUME IndInv, NEW d \in Dbhs, Connect(d)
  PROVE  IndInv'
<1>1. TypeOK /\ TypeOK'
  BY TypeStep DEF IndInv, Next
<1>2. \A e \in Dbhs : \/ db'[e] = db[e]
                      \/ /\ e = d /\ db[e] = "none" /\ db'[e] \in {"open", "gone"}
  BY <1>1 DEF Connect, TypeOK
<1>3. \A t \in Tids : t \notin Held(d)
  <2>1. \A n \in Trhs : slot[d][n].tra = 0
    BY DEF Connect, IndInv, TablesKept, UnusedSlot, Trhs
  <2> QED BY <2>1 DEF Held
<1> QED BY <1>1, <1>2, <1>3, ServerStep DEF Connect

LEMMA LoseStep ==
  ASSUME IndInv, NEW d \in Dbhs, LoseConnection(d)
  PROVE  IndInv'
<1>1. TypeOK /\ TypeOK'
  BY TypeStep DEF IndInv, Next
<1>2. \A e \in Dbhs : \/ db'[e] = db[e]
                      \/ e = d /\ db[e] = "open" /\ db'[e] = "broken"
  BY <1>1 DEF LoseConnection, TypeOK
<1>3. \A t \in Tids : \/ srv'[t] = srv[t]
                      \/ /\ srv[t] = "active" /\ t \in Held(d)
                         /\ srv'[t] = "rolledback"
  BY DEF LoseConnection, EndAttachments, ActiveIn
<1>4. \A t \in Tids : srv'[t] = "active" => t \notin Held(d)
  BY DEF LoseConnection, EndAttachments, ActiveIn
<1> QED BY <1>1, <1>2, <1>3, <1>4, ServerStep DEF LoseConnection, Resolved

LEMMA ElsewhereStep ==
  ASSUME IndInv, NEW t \in Tids, ResolveElsewhere(t)
  PROVE  IndInv'
<1>1. TypeOK /\ TypeOK'
  BY TypeStep DEF IndInv, Next
<1>2. \A u \in Tids : \/ srv'[u] = srv[u]
                      \/ /\ srv[u] # "none" /\ srv'[u] \in Resolved
                         /\ srv'[u] # "prepared"
  BY <1>1 DEF ResolveElsewhere, TypeOK, Resolved
<1> QED BY <1>1, <1>2, ServerStep DEF ResolveElsewhere

LEMMA PrepareStep ==
  ASSUME IndInv, NEW o \in Objs, Prepare2pc(o)
  PROVE  IndInv'
<1>1. TypeOK /\ TypeOK' /\ ActiveUnique /\ HandlesExclusive
  BY TypeStep DEF IndInv, Next
<1>2. Reaches(o) /\ Tra(o) \in Tids /\ srv[Tra(o)] \in Unresolved
  BY <1>1, ReachesType DEF Prepare2pc, Usable
<1>3. \A t \in Tids : srv'[t] = IF t = Tra(o) THEN "prepared" ELSE srv[t]
  BY <1>1, <1>2 DEF Prepare2pc, TypeOK
<1>4. \A p \in Objs : obj'[p] = IF p = o THEN [obj[o] EXCEPT !.is_prepared_2pc = TRUE]
                                         ELSE obj[p]
  BY <1>1 DEF Prepare2pc, TypeOK
<1>5. obj'[o].is_prepared_2pc
  BY <1>1, <1>4 DEF TypeOK, ObjRec
<1>6. obj[o].st = "live"
  BY <1>2 DEF Reaches
<1>7. ASSUME NEW p \in Objs, Reaches(p), Tra(p) \in Tids
      PROVE  \/ srv'[Tra(p)] = srv[Tra(p)]
             \/ srv'[Tra(p)] # "prepared"
             \/ obj'[p].is_prepared_2pc
  <2>1. CASE p = o
    BY <1>5, <2>1
  <2>2. CASE p # o /\ Tra(p) = Tra(o) /\ srv[Tra(o)] = "active"
    <3>1. obj[p].dbh = obj[o].dbh /\ obj[p].trh = obj[o].trh
      <4>1. /\ obj[p].dbh \in Dbhs /\ obj[p].trh \in Trhs
            /\ obj[o].dbh \in Dbhs /\ obj[o].trh \in Trhs
        BY <1>1, <1>2, <1>7, ReachesType
      <4>2. /\ slot[obj[p].dbh][obj[p].trh].tra = slot[obj[o].dbh][obj[o].trh].tra
            /\ slot[obj[p].dbh][obj[p].trh].tra \in Tids
            /\ srv[slot[obj[p].dbh][obj[p].trh].tra] = "active"
        BY <1>7, <2>2 DEF Tra, Slot
      <4> QED
        BY <1>1, <4>1, <4>2 DEF ActiveUnique
    <3> QED BY <1>1, <1>2, <1>7, <2>2, <3>1 DEF HandlesExclusive
  <2>3. CASE Tra(p) = Tra(o) /\ srv[Tra(o)] = "prepared"
    BY <1>3, <1>7, <2>3
  <2>4. CASE Tra(p) # Tra(o)
    BY <1>3, <1>7, <2>4
  <2> QED BY <1>2, <2>1, <2>2, <2>3, <2>4 DEF Unresolved
<1> QED BY <1>1, <1>2, <1>3, <1>4, <1>6, <1>7, ServerStep DEF Prepare2pc

\* A method that starts or ends a transaction rewrites its object's slot.
LEMMA PutStep ==
  ASSUME IndInv, TypeOK', UNCHANGED <<db, size, obj>>,
         NEW o \in Objs, Reaches(o), db[obj[o].dbh] = "open",
         NEW s \in SlotRec, s.st = "alive", PutSlot(o, s),
         \A t \in Tids : \/ srv'[t] = srv[t] /\ t # Tra(o)
                         \/ t = Tra(o) /\ srv'[t] \in Resolved
                         \/ t = s.tra /\ srv[t] = "none" /\ srv'[t] = "active",
         s.tra = 0 \/ (srv[s.tra] = "none" /\ srv'[s.tra] = "active"),
         s.id \in Tids => s.id = s.tra \/ s.id = Slot(o).id
  PROVE  IndInv'
<1>p. /\ TypeOK /\ TablesKept /\ HandlesIssued /\ InfoPrivate /\ HandlesExclusive
      /\ ActiveUnique /\ ActiveHeld /\ ActiveOwned /\ SlotIds /\ PreparedMarked
  BY DEF IndInv
<1> DEFINE d == obj[o].dbh
           n == obj[o].trh
<1>s. \A e \in Dbhs, m \in Trhs :
        slot'[e][m] = IF e = d /\ m = n THEN s ELSE slot[e][m]
  BY <1>p, PutEffect
<1>t. /\ d \in Dbhs /\ n \in Trhs /\ Tra(o) \in 0..MaxTid
      /\ s.tra \in 0..MaxTid /\ s.id \in 0..MaxTid /\ slot[d][n].st = "alive"
      /\ obj[o].st = "live" /\ db[d] = "open"
  BY <1>p, ReachesType DEF SlotRec, Reaches, fbu_is_valid_trh
<1>z. \A t \in 0..MaxTid : t # 0 <=> t \in Tids
  BY BoundsAssumption DEF Tids
<1>m. n <= size[d]
  BY <1>p, <1>t DEF HandlesIssued
<1>n. \A t \in Tids : srv[t] # "none" => srv'[t] # "none"
  BY DEF Resolved
<1>r. \A t \in Tids : srv'[t] \in Unresolved =>
        \/ srv'[t] = srv[t] /\ t # Tra(o)
        \/ t = s.tra /\ srv[t] = "none"
  BY DEF Resolved, Unresolved
<1>1. TablesKept'
  <2>1. s.id \in Tids => srv'[s.id] # "none"
    BY <1>p, <1>t, <1>z, <1>n DEF TablesKept, Slot
  <2>2. s.tra \in Tids => srv'[s.tra] # "none"
    BY <1>z, <1>t
  <2>3. size' = size /\ db' = db
    OBVIOUS
  <2>4. ~(n > size[d])
    BY <1>p, <1>t, <1>m DEF TypeOK, Trhs
  <2> QED BY <1>p, <1>s, <1>t, <1>n, <2>1, <2>2, <2>3, <2>4 DEF TablesKept
<1>2. HandlesIssued'
  BY <1>p DEF HandlesIssued
<1>3. \A p \in Objs : Reaches(p)' <=> Reaches(p)
  <2> SUFFICES ASSUME NEW p \in Objs PROVE Reaches(p)' <=> Reaches(p)
    OBVIOUS
  <2>1. CASE obj[p].dbh \in Dbhs /\ obj[p].trh \in Trhs
    BY <1>s, <1>t, <2>1 DEF Reaches, fbu_is_valid_trh, fbu_is_valid_dbh
  <2>2. CASE ~(obj[p].dbh \in Dbhs /\ obj[p].trh \in Trhs)
    BY <2>2 DEF Reaches, fbu_is_valid_trh, fbu_is_valid_dbh
  <2> QED BY <2>1, <2>2
<1>4. \A p \in Objs : Reaches(p) =>
        Tra(p)' = IF p = o THEN s.tra ELSE Tra(p)
  <2>1. \A p \in Objs \ {o} : Reaches(p) => obj[p].dbh # d \/ obj[p].trh # n
    BY <1>p DEF HandlesExclusive
  <2> QED BY <1>p, <1>s, <1>t, <2>1, ReachesType DEF Tra, Slot
<1>5. HandlesExclusive'
  BY <1>p, <1>3 DEF HandlesExclusive
<1>6. InfoPrivate'
  <2>1. ASSUME NEW p \in Objs, Reaches(p), obj[p].info # obj[p].trh
        PROVE  slot'[obj[p].dbh][obj[p].info] = slot[obj[p].dbh][obj[p].info]
    <3>1. obj[p].dbh \in Dbhs /\ obj[p].info \in Trhs
      BY <1>p, <2>1 DEF HandlesIssued, Reaches
    <3>2. ~(obj[p].dbh = d /\ obj[p].info = n)
      BY <1>p, <1>t, <2>1 DEF InfoPrivate
    <3> QED BY <1>s, <3>1, <3>2
  <2> QED BY <1>p, <1>3, <2>1 DEF InfoPrivate
<1>7. PreparedMarked'
  <2> SUFFICES ASSUME NEW p \in Objs, Reaches(p), obj[p].info = obj[p].trh,
                      Tra(p)' # 0, srv'[Tra(p)'] = "prepared"
               PROVE  obj[p].is_prepared_2pc
    BY <1>3 DEF PreparedMarked
  <2>1. CASE p = o
    BY <1>4, <2>1
  <2>2. CASE p # o
    <3>1. Tra(p)' = Tra(p) /\ Tra(p) \in Tids
      BY <1>p, <1>4, <2>2, ReachesType
    <3>2. srv[Tra(p)] = "prepared"
      BY <3>1 DEF Resolved
    <3> QED BY <1>p, <3>1, <3>2 DEF PreparedMarked
  <2> QED BY <2>1, <2>2
<1>8. ActiveUnique'
  <2>1. \A e \in Dbhs, m \in Trhs : slot[e][m].tra \in Tids => slot[e][m].tra # s.tra
    BY <1>p, <1>z DEF TablesKept, Tids
  <2>2. \A t \in Tids : srv'[t] = "active" => srv[t] = "active" \/ t = s.tra
    BY DEF Resolved
  <2> QED BY <1>p, <1>s, <1>t, <2>1, <2>2 DEF ActiveUnique
<1>9. SlotIds'
  <2>1. s.id \in Tids /\ srv'[s.id] \in Unresolved => s.tra = s.id
    BY <1>p, <1>t, <1>r DEF SlotIds, Slot, Tra, TablesKept
  <2>2. \A e \in Dbhs, m \in Trhs :
          slot[e][m].id \in Tids /\ srv'[slot[e][m].id] \in Unresolved
             => slot[e][m].tra = slot[e][m].id
    BY <1>p, <1>r DEF SlotIds, TablesKept
  <2> QED BY <1>s, <2>1, <2>2 DEF SlotIds
<1>10. ActiveHeld'
  <2> SUFFICES ASSUME NEW t \in Tids, srv'[t] = "active"
               PROVE  \E e \in Dbhs : db[e] = "open" /\ t \in Held(e)'
    BY DEF ActiveHeld
  <2>1. CASE t = s.tra
    <3>1. slot'[d][n].tra = t /\ t # 0
      BY <1>s, <1>t, <1>z, <2>1
    <3> QED BY <1>t, <3>1 DEF Held
  <2>2. CASE t # s.tra
    <3>1. srv[t] = "active" /\ t # Tra(o)
      BY <2>2 DEF Resolved
    <3>2. PICK e \in Dbhs, m \in Trhs : db[e] = "open" /\ slot[e][m].tra = t
      BY <1>p, <3>1 DEF ActiveHeld, Held
    <3>3. slot'[e][m].tra = t /\ t # 0
      BY <1>s, <1>z, <3>1, <3>2 DEF Tra, Slot, Tids
    <3> QED BY <3>2, <3>3 DEF Held
  <2> QED BY <2>1, <2>2
<1>11. ActiveOwned'
  <2>1. ASSUME NEW e \in Dbhs, NEW m \in Trhs,
               slot'[e][m].tra \in Tids, srv'[slot'[e][m].tra] = "active"
        PROVE  \E p \in Objs : /\ obj[p].dbh = e /\ obj[p].trh = m
                               /\ obj[p].st = "live" \/ obj[p].is_prepared_2pc
    <3>1. CASE e = d /\ m = n
      BY <1>t, <3>1
    <3>2. CASE ~(e = d /\ m = n)
      <4>1. slot'[e][m] = slot[e][m]
        BY <1>s, <3>2
      <4>2. srv[slot[e][m].tra] = "active"
        BY <1>p, <2>1, <4>1 DEF TablesKept, Resolved
      <4> QED BY <1>p, <2>1, <4>1, <4>2 DEF ActiveOwned
    <3> QED BY <3>1, <3>2
  <2> QED BY <2>1 DEF ActiveOwned
<1> QED BY <1>1, <1>2, <1>5, <1>6, <1>7, <1>8, <1>9, <1>10, <1>11 DEF IndInv

LEMMA StartStep ==
  ASSUME IndInv, NEW o \in Objs, NEW t \in Tids, Start(o, t)
  PROVE  IndInv'
<1>1. TypeOK /\ TypeOK'
  BY TypeStep DEF IndInv, Next
<1>2. \A u \in Tids : \/ srv'[u] = srv[u] /\ u # Tra(o)
                      \/ u = t /\ srv[u] = "none" /\ srv'[u] = "active"
  BY <1>1 DEF Start, Fresh, TypeOK, Tids
<1>3. PICK s \in SlotRec : /\ PutSlot(o, s) /\ s.st = "alive" /\ s.tra = t
                           /\ s.id \in {t, Slot(o).id}
  BY <1>1, StartedAs
<1>4. srv[t] = "none" /\ srv'[t] = "active"
  BY <1>1 DEF Start, Fresh, TypeOK
<1> QED BY <1>1, <1>2, <1>3, <1>4, PutStep DEF Start

LEMMA EndSteps ==
  ASSUME IndInv, NEW o \in Objs, NEW outcome \in {"committed", "rolledback"},
         End(o, outcome) \/ EndSql(o, outcome)
  PROVE  IndInv'
<1>1. TypeOK /\ TypeOK'
  BY TypeStep DEF IndInv, Next, Finalize, ExecuteSql
<1>2. /\ Reaches(o) /\ db[obj[o].dbh] = "open" /\ Tra(o) \in Tids
      /\ Slot(o) \in SlotRec /\ Slot(o).st = "alive"
  BY <1>1, ReachesType DEF End, EndSql, Usable, Slot, Reaches, fbu_is_valid_trh
<1>3. \A u \in Tids : \/ srv'[u] = srv[u] /\ u # Tra(o)
                      \/ u = Tra(o) /\ srv'[u] \in Resolved
  BY <1>1, <1>2 DEF End, EndSql, TypeOK, Resolved
<1>4. PICK s \in SlotRec : /\ PutSlot(o, s) /\ s.st = "alive" /\ s.tra = 0
                           /\ s.id \in {0, Slot(o).id}
  <2>1. CASE End(o, outcome)
    <3>1. [Slot(o) EXCEPT !.tra = 0] \in SlotRec
      BY <1>2, BoundsAssumption DEF SlotRec
    <3> QED BY <1>2, <2>1, <3>1 DEF End, SetTra, SlotRec
  <2>2. CASE EndSql(o, outcome)
    BY <2>2, SlotTypes DEF EndSql, NewSlot
  <2> QED BY <2>1, <2>2
<1>5. UNCHANGED <<db, size, obj>>
  BY DEF End, EndSql
<1>6. s.id \in Tids => s.id = s.tra \/ s.id = Slot(o).id
  BY <1>4 DEF Tids
<1>7. s \in SlotRec /\ PutSlot(o, s) /\ s.st = "alive" /\ s.tra = 0
  BY <1>4
<1>8. \A t \in Tids : \/ srv'[t] = srv[t] /\ t # Tra(o)
                      \/ t = Tra(o) /\ srv'[t] \in Resolved
                      \/ t = s.tra /\ srv[t] = "none" /\ srv'[t] = "active"
  BY <1>3
<1>9. s.tra = 0 \/ (srv[s.tra] = "none" /\ srv'[s.tra] = "active")
  BY <1>7
<1> QED BY <1>1, <1>2, <1>5, <1>6, <1>7, <1>8, <1>9, PutStep

LEMMA RetainStep ==
  ASSUME IndInv, NEW o \in Objs, NEW outcome \in {"committed", "rolledback"},
         NEW t \in Tids, EndRetaining(o, outcome, t)
  PROVE  IndInv'
<1>1. TypeOK /\ TypeOK'
  BY TypeStep DEF IndInv, Next, Finalize
<1>2. /\ Reaches(o) /\ db[obj[o].dbh] = "open" /\ Tra(o) \in Tids
      /\ Slot(o) \in SlotRec /\ Slot(o).st = "alive"
      /\ srv[Tra(o)] \in Unresolved
  BY <1>1, ReachesType
     DEF EndRetaining, Usable, Slot, Reaches, fbu_is_valid_trh
<1>3. srv[t] = "none" /\ t # Tra(o)
  BY <1>2 DEF EndRetaining, Fresh, Unresolved
<1>4. \A u \in Tids : \/ srv'[u] = srv[u] /\ u # Tra(o)
                      \/ u = Tra(o) /\ srv'[u] \in Resolved
                      \/ u = t /\ srv[u] = "none" /\ srv'[u] = "active"
  BY <1>1, <1>2, <1>3 DEF EndRetaining, TypeOK, Resolved
<1>5. srv'[t] = "active"
  BY <1>1 DEF EndRetaining, TypeOK
<1>6. PICK s \in SlotRec : /\ PutSlot(o, s) /\ s.st = "alive" /\ s.tra = t
                           /\ s.id = Slot(o).id
  <2>1. [Slot(o) EXCEPT !.tra = t] \in SlotRec
    BY <1>2 DEF SlotRec, Tids
  <2> QED BY <1>2, <2>1 DEF EndRetaining, SetTra, SlotRec
<1>7. UNCHANGED <<db, size, obj>>
  BY DEF EndRetaining
<1> QED BY <1>1, <1>2, <1>3, <1>4, <1>5, <1>6, <1>7, PutStep

\* An object is freed: its slot is emptied, unless the two-phase flag is up.
LEMMA FreeStep ==
  ASSUME IndInv, NEW o \in Objs, FreeTransaction(o)
  PROVE  IndInv'
<1>p. /\ TypeOK /\ TablesKept /\ HandlesIssued /\ InfoPrivate /\ HandlesExclusive
      /\ ActiveUnique /\ ActiveHeld /\ ActiveOwned /\ SlotIds /\ PreparedMarked
      /\ TypeOK'
  BY TypeStep DEF IndInv, Next
<1> DEFINE d == obj[o].dbh
           n == obj[o].trh
           empties == Reaches(o) /\ ~obj[o].is_prepared_2pc
<1>s. \A e \in Dbhs, m \in Trhs :
        slot'[e][m] = IF empties /\ e = d /\ m = n THEN FreedSlot ELSE slot[e][m]
  BY <1>p, SlotTypes, PutEffect DEF FreeTransaction
<1>u. FreedSlot.st = "freed" /\ FreedSlot.tra = 0 /\ FreedSlot.id = 0 /\ 0 \notin Tids
  BY DEF FreedSlot, Tids
<1>v. \A t \in Tids :
        srv'[t] = IF empties /\ Usable(o) /\ t = Tra(o) THEN "rolledback" ELSE srv[t]
  BY <1>p DEF FreeTransaction, TypeOK
<1>f. /\ \A p \in Objs : p # o => obj'[p] = obj[p]
      /\ obj'[o].dbh = d /\ obj'[o].trh = n /\ obj'[o].info = obj[o].info
      /\ obj'[o].st = "freed" /\ obj[o].st = "live"
      /\ obj'[o].is_prepared_2pc = obj[o].is_prepared_2pc
  BY <1>p DEF FreeTransaction, TypeOK, ObjRec
<1>c. size' = size /\ db' = db
  BY DEF FreeTransaction
<1>n. \A t \in Tids : srv[t] # "none" => srv'[t] # "none"
  BY <1>v
<1>r. \A t \in Tids : srv'[t] \in Unresolved => srv'[t] = srv[t]
  BY <1>v DEF Unresolved
<1>1. TablesKept'
  <2>1. \A e \in Dbhs, m \in Trhs : m > size[e] => slot'[e][m] = UnusedSlot
    <3> SUFFICES ASSUME NEW e \in Dbhs, NEW m \in Trhs, m > size[e]
                 PROVE  slot'[e][m] = UnusedSlot
      OBVIOUS
    <3>1. slot[e][m] = UnusedSlot
      BY <1>p DEF TablesKept
    <3>2. ~(empties /\ e = d /\ m = n)
      BY <3>1 DEF Reaches, fbu_is_valid_trh, UnusedSlot
    <3> QED BY <1>s, <3>1, <3>2
  <2> QED BY <1>p, <1>s, <1>u, <1>n, <1>c, <2>1 DEF TablesKept
<1>2. HandlesIssued'
  BY <1>p, <1>c, <1>f DEF HandlesIssued
<1>3. \A p \in Objs : Reaches(p)' =>
        /\ Reaches(p) /\ p # o /\ obj'[p] = obj[p] /\ Tra(p)' = Tra(p)
        /\ obj[p].dbh \in Dbhs /\ obj[p].trh \in Trhs
  <2> SUFFICES ASSUME NEW p \in Objs, Reaches(p)'
               PROVE  /\ Reaches(p) /\ p # o /\ obj'[p] = obj[p] /\ Tra(p)' = Tra(p)
                      /\ obj[p].dbh \in Dbhs /\ obj[p].trh \in Trhs
    OBVIOUS
  <2>1. p # o /\ obj'[p] = obj[p]
    BY <1>f DEF Reaches
  <2>2. /\ obj[p].dbh \in Dbhs /\ db[obj[p].dbh] \in {"open", "broken"}
        /\ obj[p].trh \in Trhs /\ slot'[obj[p].dbh][obj[p].trh].st = "alive"
        /\ obj[p].st = "live"
    BY <1>c, <2>1 DEF Reaches, fbu_is_valid_trh, fbu_is_valid_dbh
  <2>3. slot'[obj[p].dbh][obj[p].trh] = slot[obj[p].dbh][obj[p].trh]
    BY <1>s, <1>u, <2>2
  <2> QED BY <2>1, <2>2, <2>3
          DEF Reaches, fbu_is_valid_trh, fbu_is_valid_dbh, Tra, Slot
<1>4. HandlesExclusive'
  BY <1>p, <1>3 DEF HandlesExclusive
<1>5. InfoPrivate'
  <2>1. ASSUME NEW p \in Objs, Reaches(p)', obj'[p].info # obj'[p].trh
        PROVE  slot'[obj[p].dbh][obj[p].info] = NewSlot
    <3>1. /\ obj[p].dbh \in Dbhs /\ obj[p].info \in Trhs /\ obj[o].st # "none"
          /\ Reaches(p) /\ obj[p].info # obj[p].trh
      BY <1>p, <1>3, <1>f, <2>1 DEF HandlesIssued, Reaches
    <3>2. ~(obj[p].dbh = d /\ obj[p].info = n)
      BY <1>p, <3>1 DEF InfoPrivate
    <3> QED BY <1>p, <1>s, <3>1, <3>2 DEF InfoPrivate
  <2>2. \A q \in Objs : /\ obj'[q].dbh = obj[q].dbh /\ obj'[q].trh = obj[q].trh
                        /\ obj'[q].st # "none" => obj[q].st # "none"
    BY <1>f
  <2> QED BY <1>p, <1>3, <2>1, <2>2 DEF InfoPrivate
<1>6. PreparedMarked'
  <2>1. \A p \in Objs : Reaches(p) /\ Tra(p) # 0 => Tra(p) \in Tids
    BY <1>p, ReachesType
  <2> QED BY <1>p, <1>3, <1>r, <2>1 DEF PreparedMarked, Unresolved
<1>7. ActiveUnique'
  BY <1>p, <1>s, <1>u, <1>r DEF ActiveUnique, Unresolved
<1>8. SlotIds'
  BY <1>p, <1>s, <1>u, <1>r DEF SlotIds
<1>9. ActiveHeld'
  <2> SUFFICES ASSUME NEW t \in Tids, srv'[t] = "active"
               PROVE  \E e \in Dbhs : db[e] = "open" /\ t \in Held(e)'
    BY <1>c DEF ActiveHeld
  <2>1. srv[t] = "active" /\ ~(empties /\ Usable(o) /\ t = Tra(o))
    BY <1>v
  <2>2. PICK e \in Dbhs, m \in Trhs : db[e] = "open" /\ slot[e][m].tra = t
    BY <1>p, <2>1 DEF ActiveHeld, Held
  <2>3. ~(empties /\ e = d /\ m = n)
    BY <1>u, <2>1, <2>2 DEF Usable, Tra, Slot, Unresolved
  <2> QED BY <1>s, <1>u, <2>2, <2>3 DEF Held
<1>10. ActiveOwned'
  <2> SUFFICES ASSUME NEW e \in Dbhs, NEW m \in Trhs,
                      slot'[e][m].tra \in Tids, srv'[slot'[e][m].tra] = "active"
               PROVE  \E p \in Objs : /\ obj'[p].dbh = e /\ obj'[p].trh = m
                                      /\ obj'[p].st = "live" \/ obj'[p].is_prepared_2pc
    BY DEF ActiveOwned
  <2>1. slot'[e][m] = slot[e][m] /\ ~(empties /\ e = d /\ m = n)
    BY <1>s, <1>u
  <2>2. srv[slot[e][m].tra] = "active"
    BY <1>r, <2>1 DEF Unresolved
  <2>3. PICK p \in Objs : /\ obj[p].dbh = e /\ obj[p].trh = m
                          /\ obj[p].st = "live" \/ obj[p].is_prepared_2pc
    BY <1>p, <2>1, <2>2 DEF ActiveOwned
  <2>4. CASE p # o
    BY <1>f, <2>3, <2>4
  <2>5. CASE p = o /\ obj[o].is_prepared_2pc
    BY <1>f, <2>3, <2>5
  <2>6. CASE p = o /\ ~obj[o].is_prepared_2pc
    <3>1. slot[e][m].st = "alive"
      BY <1>p, <1>u, <2>1 DEF TablesKept
    <3>2. db[e] \in {"open", "broken"}
      <4>1. ~(m > size[e])
        BY <1>p, <3>1 DEF TablesKept, UnusedSlot
      <4>2. size[e] # 0
        BY <4>1 DEF Trhs
      <4> QED BY <1>p, <4>2 DEF TablesKept, TypeOK, DbState
    <3>3. Reaches(o)
      BY <1>f, <2>3, <2>6, <3>1, <3>2
         DEF Reaches, fbu_is_valid_trh, fbu_is_valid_dbh
    <3> QED BY <2>1, <2>3, <2>6, <3>3
  <2> QED BY <2>4, <2>5, <2>6
<1> QED BY <1>p, <1>1, <1>2, <1>4, <1>5, <1>6, <1>7, <1>8, <1>9, <1>10 DEF IndInv

\* An object is born into slots appended to the list of its Database.
LEMMA BirthStep ==
  ASSUME IndInv, TypeOK', NEW d \in Dbhs, fbu_is_valid_dbh(d), UNCHANGED db,
         NEW o \in Objs, obj[o].st = "none",
         NEW k \in {1, 2}, size[d] \in Nat,
         NEW s \in SlotRec, size[d] + k \in Trhs, size[d] + 1 \in Trhs,
         \A e \in Dbhs : size'[e] = IF e = d THEN size[d] + k ELSE size[e],
         \A e \in Dbhs, m \in Trhs :
            slot'[e][m] = IF e = d /\ m = size[d] + k THEN s
                          ELSE IF e = d /\ m = size[d] + 1 THEN NewSlot
                          ELSE slot[e][m],
         Born(o, d, size[d] + k, size[d] + 1),
         s.st = "alive", s.id = s.tra, s.tra = 0 \/ db[d] = "open",
         \/ s.tra = 0
         \/ srv'[s.tra] = "active" /\ srv[s.tra] = "none"
         \/ srv'[s.tra] = "prepared" /\ k = 2,
         \A t \in Tids : \/ srv'[t] = srv[t]
                         \/ t = s.tra /\ srv[t] = "none" /\ srv'[t] = "active"
  PROVE  IndInv'
<1>p. /\ TypeOK /\ TablesKept /\ HandlesIssued /\ InfoPrivate /\ HandlesExclusive
      /\ ActiveUnique /\ ActiveHeld /\ ActiveOwned /\ SlotIds /\ PreparedMarked
  BY DEF IndInv
<1> DEFINE h == size[d] + k
           i == size[d] + 1
<1>u. /\ NewSlot.st = "alive" /\ NewSlot.tra = 0 /\ NewSlot.id = 0 /\ 0 \notin Tids
      /\ \A t \in 0..MaxTid : t # 0 <=> t \in Tids
  BY BoundsAssumption DEF NewSlot, Tids
<1>h. /\ h \in Trhs /\ i \in Trhs /\ ~(h <= size[d]) /\ ~(i <= size[d])
      /\ h > size[d] /\ i > size[d] /\ i <= h /\ (k = 1 <=> h = i)
  OBVIOUS
<1>o. /\ obj'[o] = [st |-> "live", dbh |-> d, trh |-> h, info |-> i,
                    is_prepared_2pc |-> FALSE]
      /\ \A p \in Objs : p # o => obj'[p] = obj[p]
  BY <1>p DEF TypeOK, Born
<1>d. db' = db /\ db[d] \in {"open", "broken"}
  BY DEF fbu_is_valid_dbh
<1>b. \A m \in Trhs : m > size[d] => slot[d][m].tra = 0 /\ slot[d][m].st = "unused"
  BY <1>p DEF TablesKept, UnusedSlot
<1>k. \A p \in Objs : p # o /\ obj[p].st # "none" /\ obj[p].dbh = d =>
        obj[p].trh <= size[d] /\ obj[p].info <= size[d]
  BY <1>p, <1>d DEF HandlesIssued
<1>n. \A t \in Tids : srv[t] # "none" => srv'[t] = srv[t]
  OBVIOUS
<1>t. s.tra \in 0..MaxTid
  BY DEF SlotRec
<1> HIDE DEF h, i
<1>s. \A e \in Dbhs, m \in Trhs :
        slot'[e][m] = IF e = d /\ m = h THEN s
                      ELSE IF e = d /\ m = i THEN NewSlot ELSE slot[e][m]
  BY DEF h, i
<1>1. TablesKept'
  <2>1. ASSUME NEW e \in Dbhs, db'[e] \in {"none", "gone"} PROVE size'[e] = 0
    BY <1>p, <1>d, <2>1 DEF TablesKept
  <2>2. ASSUME NEW e \in Dbhs, NEW m \in Trhs, m > size'[e]
        PROVE  slot'[e][m] = UnusedSlot
    <3>1. e = d => ~(m <= h)
      BY <2>2 DEF h, Trhs
    <3>2. m > size[e] /\ ~(e = d /\ m = h) /\ ~(e = d /\ m = i)
      BY <1>p, <1>h, <2>2, <3>1 DEF TypeOK, h, i, Trhs
    <3> QED BY <1>p, <1>s, <3>2 DEF TablesKept
  <2>3. s.tra \in Tids => srv'[s.tra] # "none"
    BY <1>u
  <2>4. ASSUME NEW e \in Dbhs, NEW m \in Trhs
        PROVE  /\ slot'[e][m].st # "alive" => slot'[e][m].tra = 0 /\ slot'[e][m].id = 0
               /\ slot'[e][m].tra \in Tids => srv'[slot'[e][m].tra] # "none"
               /\ slot'[e][m].id \in Tids => srv'[slot'[e][m].id] # "none"
    <3>1. CASE slot'[e][m] = slot[e][m]
      BY <1>p, <1>n, <3>1 DEF TablesKept
    <3>2. CASE slot'[e][m] = s \/ slot'[e][m] = NewSlot
      BY <1>u, <2>3, <3>2
    <3> QED BY <1>s, <3>1, <3>2
  <2> QED BY <2>1, <2>2, <2>4 DEF TablesKept
<1>2. HandlesIssued'
  <2>1. \A e \in Dbhs : size[e] \in Nat /\ size'[e] \in Nat /\ size[e] <= size'[e]
    BY <1>p, <1>h DEF TypeOK
  <2>2. size'[d] = h
    BY DEF h
  <2> SUFFICES ASSUME NEW p \in Objs
        PROVE  /\ obj'[p].st = "none" => ~obj'[p].is_prepared_2pc
               /\ obj'[p].st # "none" =>
                    /\ obj'[p].dbh \in Dbhs /\ obj'[p].trh \in Trhs
                    /\ obj'[p].info \in Trhs /\ db[obj'[p].dbh] # "none"
                    /\ db[obj'[p].dbh] # "gone" =>
                         /\ obj'[p].trh <= size'[obj'[p].dbh]
                         /\ obj'[p].info <= size'[obj'[p].dbh]
    BY <1>d DEF HandlesIssued
  <2>3. CASE p = o
    BY <1>h, <1>o, <1>d, <2>2, <2>3, BoundsAssumption DEF Trhs
  <2>4. CASE p # o
    BY <1>p, <1>o, <2>1, <2>4, BoundsAssumption DEF HandlesIssued, Trhs
  <2> QED BY <2>3, <2>4
<1>3. \A p \in Objs : p # o /\ Reaches(p)' =>
        /\ Reaches(p) /\ obj'[p] = obj[p] /\ Tra(p)' = Tra(p)
        /\ obj[p].dbh \in Dbhs /\ obj[p].trh \in Trhs
        /\ ~(obj[p].dbh = d /\ obj[p].trh = h)
        /\ ~(obj[p].dbh = d /\ obj[p].trh = i)
  <2> SUFFICES ASSUME NEW p \in Objs, p # o, Reaches(p)'
               PROVE  /\ Reaches(p) /\ obj'[p] = obj[p] /\ Tra(p)' = Tra(p)
                      /\ obj[p].dbh \in Dbhs /\ obj[p].trh \in Trhs
                      /\ ~(obj[p].dbh = d /\ obj[p].trh = h)
                      /\ ~(obj[p].dbh = d /\ obj[p].trh = i)
    OBVIOUS
  <2>1. /\ obj'[p] = obj[p] /\ obj[p].st = "live"
        /\ obj[p].dbh \in Dbhs /\ db[obj[p].dbh] \in {"open", "broken"}
        /\ obj[p].trh \in Trhs /\ slot'[obj[p].dbh][obj[p].trh].st = "alive"
    BY <1>o, <1>d DEF Reaches, fbu_is_valid_trh, fbu_is_valid_dbh
  <2>2. obj[p].dbh = d => obj[p].trh # h /\ obj[p].trh # i
    BY <1>k, <1>h, <2>1
  <2>3. slot'[obj[p].dbh][obj[p].trh] = slot[obj[p].dbh][obj[p].trh]
    BY <1>s, <2>1, <2>2
  <2> QED BY <2>1, <2>2, <2>3
          DEF Reaches, fbu_is_valid_trh, fbu_is_valid_dbh, Tra, Slot
<1>4. HandlesExclusive'
  <2>1. \A p \in Objs : p # o /\ Reaches(p)' =>
          ~(obj'[p].dbh = obj'[o].dbh /\ obj'[p].trh = obj'[o].trh)
    BY <1>3, <1>o
  <2> QED BY <1>p, <1>3, <2>1 DEF HandlesExclusive
<1>5. InfoPrivate'
  <2> SUFFICES ASSUME NEW p \in Objs, Reaches(p)', obj'[p].info # obj'[p].trh
               PROVE  /\ slot'[obj'[p].dbh][obj'[p].info] = NewSlot
                      /\ \A q \in Objs :
                           obj'[q].st # "none" /\ obj'[q].dbh = obj'[p].dbh
                             => obj'[q].trh # obj'[p].info
    BY DEF InfoPrivate
  <2>1. CASE p = o
    <3>1. h # i /\ obj'[p].dbh = d /\ obj'[p].info = i /\ obj'[p].trh = h
      BY <1>o, <2>1
    <3>2. \A q \in Objs : q # o /\ obj'[q].st # "none" /\ obj'[q].dbh = d
                            => obj'[q].trh # i
      BY <1>o, <1>k, <1>h
    <3> QED BY <1>s, <1>h, <1>o, <2>1, <3>1, <3>2
  <2>2. CASE p # o
    <3>1. /\ Reaches(p) /\ obj'[p] = obj[p] /\ obj[p].info # obj[p].trh
          /\ obj[p].st # "none"
      BY <1>3, <2>2 DEF Reaches
    <3>2. obj[p].dbh \in Dbhs /\ obj[p].info \in Trhs
      BY <1>p, <3>1 DEF HandlesIssued
    <3>3. obj[p].dbh = d => obj[p].info # h /\ obj[p].info # i
      BY <1>k, <1>h, <2>2, <3>1
    <3>4. slot'[obj[p].dbh][obj[p].info] = NewSlot
      BY <1>p, <1>s, <3>1, <3>2, <3>3 DEF InfoPrivate
    <3>5. ASSUME NEW q \in Objs, obj'[q].st # "none", obj'[q].dbh = obj[p].dbh
          PROVE  obj'[q].trh # obj[p].info
      <4>1. CASE q = o
        BY <1>o, <3>3, <3>5, <4>1
      <4>2. CASE q # o
        BY <1>p, <1>o, <3>1, <3>5, <4>2 DEF InfoPrivate
      <4> QED BY <4>1, <4>2
    <3> QED BY <3>1, <3>4, <3>5
  <2> QED BY <2>1, <2>2
<1>6. PreparedMarked'
  <2> SUFFICES ASSUME NEW p \in Objs, Reaches(p)', obj'[p].info = obj'[p].trh,
                      Tra(p)' # 0, srv'[Tra(p)'] = "prepared"
               PROVE  obj'[p].is_prepared_2pc
    BY DEF PreparedMarked
  <2>1. CASE p = o
    <3>1. Tra(o)' = s.tra /\ h = i
      BY <1>s, <1>h, <1>o, <2>1 DEF Tra, Slot
    <3> QED BY <1>h, <2>1, <3>1
  <2>2. CASE p # o
    <3>1. Reaches(p) /\ obj'[p] = obj[p] /\ Tra(p)' = Tra(p) /\ Tra(p) \in Tids
      BY <1>p, <1>3, <2>2, ReachesType
    <3>2. srv[Tra(p)] = "prepared"
      BY <3>1
    <3> QED BY <1>p, <3>1, <3>2 DEF PreparedMarked
  <2> QED BY <2>1, <2>2
<1>7. ActiveUnique'
  <2>1. srv'[s.tra] = "active" /\ s.tra \in Tids =>
          \A e \in Dbhs, m \in Trhs : slot[e][m].tra # s.tra
    BY <1>p, <1>u DEF TablesKept
  <2>2. \A t \in Tids : srv'[t] = "active" => srv[t] = "active" \/ t = s.tra
    OBVIOUS
  <2> QED BY <1>p, <1>s, <1>u, <2>1, <2>2 DEF ActiveUnique
<1>8. SlotIds'
  <2>1. ASSUME NEW e \in Dbhs, NEW m \in Trhs, slot'[e][m].id \in Tids,
               srv'[slot'[e][m].id] \in Unresolved
        PROVE  slot'[e][m].tra = slot'[e][m].id
    <3>1. CASE slot'[e][m] = slot[e][m]
      BY <1>p, <1>n, <2>1, <3>1 DEF SlotIds, TablesKept
    <3>2. CASE slot'[e][m] = s \/ slot'[e][m] = NewSlot
      BY <1>u, <2>1, <3>2
    <3> QED BY <1>s, <3>1, <3>2
  <2> QED BY <2>1 DEF SlotIds
<1>9. ActiveHeld'
  <2> SUFFICES ASSUME NEW t \in Tids, srv'[t] = "active"
               PROVE  \E e \in Dbhs : db[e] = "open" /\ t \in Held(e)'
    BY <1>d DEF ActiveHeld
  <2>1. CASE srv[t] = "active"
    <3>1. PICK e \in Dbhs, m \in Trhs : db[e] = "open" /\ slot[e][m].tra = t
      BY <1>p, <2>1 DEF ActiveHeld, Held
    <3>2. slot'[e][m] = slot[e][m]
      BY <1>s, <1>b, <1>h, <1>u, <3>1
    <3> QED BY <1>u, <3>1, <3>2 DEF Held
  <2>2. CASE srv[t] # "active"
    <3>1. t = s.tra /\ slot'[d][h].tra = t /\ t # 0
      BY <1>s, <1>h, <1>u, <2>2
    <3>2. db[d] = "open"
      BY <2>2, <3>1
    <3> QED BY <1>h, <3>1, <3>2 DEF Held
  <2> QED BY <2>1, <2>2
<1>10. ActiveOwned'
  <2> SUFFICES ASSUME NEW e \in Dbhs, NEW m \in Trhs,
                      slot'[e][m].tra \in Tids, srv'[slot'[e][m].tra] = "active"
               PROVE  \E p \in Objs : /\ obj'[p].dbh = e /\ obj'[p].trh = m
                                      /\ obj'[p].st = "live" \/ obj'[p].is_prepared_2pc
    BY DEF ActiveOwned
  <2>1. CASE e = d /\ m = h
    BY <1>o, <2>1
  <2>2. CASE ~(e = d /\ m = h)
    <3>1. slot'[e][m] = slot[e][m]
      BY <1>s, <1>u, <2>2
    <3>2. srv[slot[e][m].tra] = "active"
      BY <1>p, <1>n, <3>1 DEF TablesKept
    <3>3. PICK p \in Objs : /\ obj[p].dbh = e /\ obj[p].trh = m
                            /\ obj[p].st = "live" \/ obj[p].is_prepared_2pc
      BY <1>p, <3>1, <3>2 DEF ActiveOwned
    <3>4. p # o
      BY <1>p, <3>3 DEF HandlesIssued
    <3> QED BY <1>o, <3>3, <3>4
  <2> QED BY <2>1, <2>2
<1> QED BY <1>1, <1>2, <1>4, <1>5, <1>6, <1>7, <1>8, <1>9, <1>10 DEF IndInv

\* A start or reconnect that fails leaves one empty slot behind, and no object.
LEMMA FailedBirthStep ==
  ASSUME IndInv, TypeOK', NEW d \in Dbhs, fbu_is_valid_dbh(d),
         AppendSlots(d, <<FreedSlot>>), UNCHANGED <<db, obj>>,
         \A t \in Tids : srv'[t] = srv[t] \/ (srv[t] = "none" /\ srv'[t] = "rolledback")
  PROVE  IndInv'
<1>p. /\ TypeOK /\ TablesKept /\ HandlesIssued /\ InfoPrivate /\ HandlesExclusive
      /\ ActiveUnique /\ ActiveHeld /\ ActiveOwned /\ SlotIds /\ PreparedMarked
  BY DEF IndInv
<1> DEFINE h == size[d] + 1
<1>s. /\ size[d] \in Nat /\ h \in Trhs
      /\ \A e \in Dbhs : size'[e] = IF e = d THEN h ELSE size[e]
      /\ \A e \in Dbhs, m \in Trhs :
           slot'[e][m] = IF e = d /\ m = h THEN FreedSlot ELSE slot[e][m]
  BY <1>p, SlotTypes, AppendOneEffect
<1>u. /\ FreedSlot.st = "freed" /\ FreedSlot.tra = 0 /\ FreedSlot.id = 0
      /\ 0 \notin Tids
  BY DEF FreedSlot, Tids
<1>h. ~(h <= size[d]) /\ h > size[d]
  BY <1>s
<1>d. db' = db /\ obj' = obj /\ db[d] \in {"open", "broken"}
  BY DEF fbu_is_valid_dbh
<1>v. \A t \in Tids : /\ srv'[t] = "none" => srv[t] = "none"
                      /\ srv'[t] = "active" <=> srv[t] = "active"
                      /\ srv'[t] = "prepared" <=> srv[t] = "prepared"
                      /\ srv'[t] \in Unresolved <=> srv[t] \in Unresolved
  BY DEF Unresolved
<1>b. slot[d][h] = UnusedSlot /\ UnusedSlot.tra = 0 /\ UnusedSlot.st = "unused"
  BY <1>p, <1>s, <1>h DEF TablesKept, UnusedSlot
<1>g. \A e \in Dbhs : size[e] \in Nat /\ size'[e] \in Nat /\ size[e] <= size'[e]
  BY <1>p, <1>s DEF TypeOK
<1>z. size'[d] = h /\ \A e \in Dbhs : e # d => size'[e] = size[e]
  BY <1>s
<1> HIDE DEF h
<1>1. TablesKept'
  <2>1. ASSUME NEW e \in Dbhs, db'[e] \in {"none", "gone"} PROVE size'[e] = 0
    BY <1>p, <1>s, <1>d, <2>1 DEF TablesKept
  <2>2. ASSUME NEW e \in Dbhs, NEW m \in Trhs, m > size'[e]
        PROVE  slot'[e][m] = UnusedSlot
    <3>1. m > size[e] /\ ~(e = d /\ m = h)
      BY <1>g, <1>z, <2>2 DEF Trhs
    <3> QED BY <1>p, <1>s, <3>1 DEF TablesKept
  <2> QED BY <1>p, <1>s, <1>u, <1>d, <1>v, <2>1, <2>2 DEF TablesKept
<1>2. HandlesIssued'
  <2> SUFFICES ASSUME NEW p \in Objs, obj[p].st # "none", db[obj[p].dbh] # "gone"
               PROVE  /\ obj[p].trh <= size'[obj[p].dbh]
                      /\ obj[p].info <= size'[obj[p].dbh]
    BY <1>p, <1>d DEF HandlesIssued
  <2>1. /\ obj[p].dbh \in Dbhs /\ obj[p].trh \in Trhs /\ obj[p].info \in Trhs
        /\ obj[p].trh <= size[obj[p].dbh] /\ obj[p].info <= size[obj[p].dbh]
    BY <1>p DEF HandlesIssued
  <2> QED BY <1>g, <2>1 DEF Trhs
<1>3. \A p \in Objs : Reaches(p)' =>
        /\ Reaches(p) /\ Tra(p)' = Tra(p)
        /\ obj[p].dbh \in Dbhs /\ obj[p].trh \in Trhs
  <2> SUFFICES ASSUME NEW p \in Objs, Reaches(p)'
               PROVE  /\ Reaches(p) /\ Tra(p)' = Tra(p)
                      /\ obj[p].dbh \in Dbhs /\ obj[p].trh \in Trhs
    OBVIOUS
  <2>1. /\ obj[p].st = "live" /\ obj[p].dbh \in Dbhs /\ obj[p].trh \in Trhs
        /\ db[obj[p].dbh] \in {"open", "broken"}
        /\ slot'[obj[p].dbh][obj[p].trh].st = "alive"
    BY <1>d DEF Reaches, fbu_is_valid_trh, fbu_is_valid_dbh
  <2>2. slot'[obj[p].dbh][obj[p].trh] = slot[obj[p].dbh][obj[p].trh]
    BY <1>s, <1>u, <2>1
  <2> QED BY <1>d, <2>1, <2>2
          DEF Reaches, fbu_is_valid_trh, fbu_is_valid_dbh, Tra, Slot
<1>4. HandlesExclusive'
  BY <1>p, <1>d, <1>3 DEF HandlesExclusive
<1>5. InfoPrivate'
  <2>1. ASSUME NEW p \in Objs, Reaches(p), obj[p].info # obj[p].trh
        PROVE  slot'[obj[p].dbh][obj[p].info] = NewSlot
    <3>1. obj[p].dbh \in Dbhs /\ obj[p].info \in Trhs
      BY <1>p, <2>1 DEF HandlesIssued, Reaches
    <3>2. slot[obj[p].dbh][obj[p].info] = NewSlot
      BY <1>p, <2>1 DEF InfoPrivate
    <3>3. ~(obj[p].dbh = d /\ obj[p].info = h)
      BY <1>b, <3>2 DEF NewSlot
    <3> QED BY <1>s, <3>1, <3>2, <3>3
  <2> QED BY <1>p, <1>d, <1>3, <2>1 DEF InfoPrivate
<1>6. PreparedMarked'
  <2>1. \A p \in Objs : Reaches(p) /\ Tra(p) # 0 => Tra(p) \in Tids
    BY <1>p, ReachesType DEF Tids
  <2> QED BY <1>p, <1>d, <1>v, <1>3, <2>1 DEF PreparedMarked
<1>7. ActiveUnique'
  BY <1>p, <1>s, <1>u, <1>d, <1>v DEF ActiveUnique
<1>8. SlotIds'
  BY <1>p, <1>s, <1>u, <1>d, <1>v DEF SlotIds
<1>9. ActiveHeld'
  <2> SUFFICES ASSUME NEW t \in Tids, srv[t] = "active"
               PROVE  \E e \in Dbhs : db[e] = "open" /\ t \in Held(e)'
    BY <1>d, <1>v DEF ActiveHeld
  <2>1. PICK e \in Dbhs, m \in Trhs : db[e] = "open" /\ slot[e][m].tra = t
    BY <1>p DEF ActiveHeld, Held
  <2>2. slot'[e][m] = slot[e][m]
    BY <1>s, <1>b, <1>u, <2>1
  <2> QED BY <1>u, <2>1, <2>2 DEF Held
<1>10. ActiveOwned'
  BY <1>p, <1>s, <1>u, <1>d, <1>v DEF ActiveOwned
<1> QED BY <1>1, <1>2, <1>4, <1>5, <1>6, <1>7, <1>8, <1>9, <1>10 DEF IndInv

LEMMA NewStep ==
  ASSUME IndInv, NEW d \in Dbhs, NEW o \in Objs, NewTransaction(d, o)
  PROVE  IndInv'
<1>1. TypeOK /\ TypeOK' /\ NewSlot \in SlotRec
  BY TypeStep, SlotTypes DEF IndInv, Next
<1>2. /\ fbu_is_valid_dbh(d) /\ UNCHANGED db /\ UNCHANGED srv
      /\ obj[o].st = "none" /\ AppendSlots(d, <<NewSlot>>)
      /\ Born(o, d, size[d] + 1, size[d] + 1)
  BY DEF NewTransaction
<1>3. /\ size[d] \in Nat /\ size[d] + 1 \in Trhs
      /\ \A e \in Dbhs : size'[e] = IF e = d THEN size[d] + 1 ELSE size[e]
      /\ \A e \in Dbhs, m \in Trhs :
           slot'[e][m] = IF e = d /\ m = size[d] + 1 THEN NewSlot ELSE slot[e][m]
  BY <1>1, <1>2, AppendOneEffect
<1>4. \A e \in Dbhs, m \in Trhs :
        slot'[e][m] = IF e = d /\ m = size[d] + 1 THEN NewSlot
                      ELSE IF e = d /\ m = size[d] + 1 THEN NewSlot
                      ELSE slot[e][m]
  BY <1>3
<1>5. NewSlot.st = "alive" /\ NewSlot.tra = 0 /\ NewSlot.id = 0
  BY DEF NewSlot
<1> QED BY <1>1, <1>2, <1>3, <1>4, <1>5, BirthStep

LEMMA StartNewStep ==
  ASSUME IndInv, NEW d \in Dbhs, NEW o \in Objs, NEW t \in Tids,
         StartTransaction(d, o, t)
  PROVE  IndInv'
<1>1. TypeOK /\ TypeOK' /\ StartedSlot(t) \in SlotRec
  BY TypeStep, SlotTypes DEF IndInv, Next
<1>2. fbu_is_valid_dbh(d) /\ UNCHANGED db /\ obj[o].st = "none"
  BY DEF StartTransaction
<1>3. CASE /\ AppendSlots(d, <<FreedSlot>>) /\ UNCHANGED obj
           /\ UNCHANGED srv \/ (Fresh(t) /\ srv' = [srv EXCEPT ![t] = "rolledback"])
  <2>1. \A u \in Tids : srv'[u] = srv[u] \/ (srv[u] = "none" /\ srv'[u] = "rolledback")
    BY <1>1, <1>3 DEF Fresh, TypeOK
  <2> QED BY <1>1, <1>2, <1>3, <2>1, FailedBirthStep
<1>4. CASE /\ db[d] = "open" /\ Fresh(t)
           /\ AppendSlots(d, <<StartedSlot(t)>>)
           /\ Born(o, d, size[d] + 1, size[d] + 1)
           /\ srv' = [srv EXCEPT ![t] = "active"]
  <2>1. /\ size[d] \in Nat /\ size[d] + 1 \in Trhs
        /\ \A e \in Dbhs : size'[e] = IF e = d THEN size[d] + 1 ELSE size[e]
        /\ \A e \in Dbhs, m \in Trhs :
             slot'[e][m] = IF e = d /\ m = size[d] + 1 THEN StartedSlot(t)
                           ELSE slot[e][m]
    BY <1>1, <1>4, AppendOneEffect
  <2>2. \A e \in Dbhs, m \in Trhs :
          slot'[e][m] = IF e = d /\ m = size[d] + 1 THEN StartedSlot(t)
                        ELSE IF e = d /\ m = size[d] + 1 THEN NewSlot
                        ELSE slot[e][m]
    BY <2>1
  <2>3. /\ StartedSlot(t).st = "alive" /\ StartedSlot(t).tra = t
        /\ StartedSlot(t).id = t
    BY DEF StartedSlot
  <2>4. srv[t] = "none" /\ \A u \in Tids : srv'[u] = IF u = t THEN "active" ELSE srv[u]
    BY <1>1, <1>4 DEF Fresh, TypeOK
  <2> QED BY <1>1, <1>2, <1>4, <2>1, <2>2, <2>3, <2>4, BirthStep
<1> QED BY <1>3, <1>4 DEF StartTransaction

LEMMA ReconnectStep ==
  ASSUME IndInv, NEW d \in Dbhs, NEW o \in Objs, NEW t \in Tids,
         ReconnectTransaction(d, o, t)
  PROVE  IndInv'
<1>1. /\ TypeOK /\ TypeOK' /\ StartedSlot(t) \in SlotRec /\ NewSlot \in SlotRec
  BY TypeStep, SlotTypes DEF IndInv, Next
<1>2. /\ fbu_is_valid_dbh(d) /\ UNCHANGED db /\ UNCHANGED srv
      /\ obj[o].st = "none"
  BY DEF ReconnectTransaction
<1>3. CASE AppendSlots(d, <<FreedSlot>>) /\ UNCHANGED obj
  BY <1>1, <1>2, <1>3, FailedBirthStep
<1>4. CASE /\ db[d] = "open" /\ srv[t] = "prepared"
           /\ AppendSlots(d, <<NewSlot, StartedSlot(t)>>)
           /\ Born(o, d, size[d] + 2, size[d] + 1)
  <2>1. /\ size[d] \in Nat /\ size[d] + 1 \in Trhs /\ size[d] + 2 \in Trhs
        /\ \A e \in Dbhs : size'[e] = IF e = d THEN size[d] + 2 ELSE size[e]
        /\ \A e \in Dbhs, m \in Trhs :
             slot'[e][m] = IF e = d /\ m = size[d] + 1 THEN NewSlot
                           ELSE IF e = d /\ m = size[d] + 2 THEN StartedSlot(t)
                           ELSE slot[e][m]
    BY <1>1, <1>4, AppendTwoEffect
  <2>2. size[d] + 1 # size[d] + 2
    BY <2>1
  <2>3. \A e \in Dbhs, m \in Trhs :
          slot'[e][m] = IF e = d /\ m = size[d] + 2 THEN StartedSlot(t)
                        ELSE IF e = d /\ m = size[d] + 1 THEN NewSlot
                        ELSE slot[e][m]
    BY <2>1, <2>2
  <2>4. /\ StartedSlot(t).st = "alive" /\ StartedSlot(t).tra = t
        /\ StartedSlot(t).id = t
    BY DEF StartedSlot
  <2>5. \A u \in Tids : srv'[u] = srv[u]
    BY <1>2
  <2> QED BY <1>1, <1>2, <1>4, <2>1, <2>3, <2>4, <2>5, BirthStep
<1> QED BY <1>3, <1>4 DEF ReconnectTransaction

LEMMA IndStep == IndInv /\ [Next]_vars => IndInv'
<1> SUFFICES ASSUME IndInv, [Next]_vars PROVE IndInv'
  OBVIOUS
<1>1. ASSUME NEW d \in Dbhs,
             \/ Connect(d) \/ Disconnect(d) \/ Drop(d)
             \/ FreeDatabase(d) \/ LoseConnection(d)
      PROVE  IndInv'
  BY <1>1, ConnectStep, DatabaseEnds, LoseStep
<1>2. ASSUME NEW d \in Dbhs, NEW o \in Objs, NewTransaction(d, o) PROVE IndInv'
  BY <1>2, NewStep
<1>3. ASSUME NEW d \in Dbhs, NEW o \in Objs, NEW t \in Tids,
             StartTransaction(d, o, t) \/ ReconnectTransaction(d, o, t)
      PROVE  IndInv'
  BY <1>3, StartNewStep, ReconnectStep
<1>4. ASSUME NEW o \in Objs, NEW t \in Tids, Start(o, t) PROVE IndInv'
  BY <1>4, StartStep
<1>5. ASSUME NEW o \in Objs, Finalize(o) \/ ExecuteSql(o) PROVE IndInv'
  BY <1>4, <1>5, EndSteps, RetainStep DEF Finalize, ExecuteSql
<1>6. ASSUME NEW o \in Objs, FreeTransaction(o) \/ Prepare2pc(o) PROVE IndInv'
  BY <1>6, FreeStep, PrepareStep
<1>7. ASSUME NEW t \in Tids, ResolveElsewhere(t) PROVE IndInv'
  BY <1>7, ElsewhereStep
<1>8. ASSUME Shutdown \/ Crash PROVE IndInv'
  BY <1>8, ResetStep
<1>9. ASSUME UNCHANGED vars PROVE IndInv'
  <2>1. /\ db' = db /\ size' = size /\ slot' = slot /\ obj' = obj /\ srv' = srv
    BY <1>9 DEF vars
  <2> QED BY <2>1 DEF IndInv, TypeOK, TablesKept, HandlesIssued, InfoPrivate,
        HandlesExclusive, ActiveUnique, ActiveHeld, ActiveOwned, SlotIds,
        PreparedMarked, Reaches, Tra, Slot, Held, fbu_is_valid_trh,
        fbu_is_valid_dbh
<1> QED BY <1>1, <1>2, <1>3, <1>4, <1>5, <1>6, <1>7, <1>8, <1>9
        DEF Next, PrepareNull

\* IndInv holds in every reachable state.
THEOREM Invariance == Spec => []IndInv
  BY IndInit, IndStep, PTL DEF Spec

\* No two live objects lead to the same C++ Transaction.
THEOREM HandlesAreExclusive == Spec => []HandlesExclusive
<1>1. IndInv => HandlesExclusive
  BY DEF IndInv
<1> QED BY <1>1, Invariance, PTL

\* A running transaction is always held by an open attachment of the process.
THEOREM ActiveIsHeld == Spec => []ActiveHeld
<1>1. IndInv => ActiveHeld
  BY DEF IndInv
<1> QED BY <1>1, Invariance, PTL

\* Only the two-phase flag lets a running transaction outlive its object.
THEOREM ActiveIsOwned == Spec => []ActiveOwned
<1>1. IndInv => ActiveOwned
  BY DEF IndInv
<1> QED BY <1>1, Invariance, PTL

\* The id read from an object is never another's unresolved transaction.
THEOREM IdIsHonest == Spec => []IdNeverMisleads
<1>1. ASSUME IndInv PROVE IdNeverMisleads
  <2> SUFFICES ASSUME NEW o \in Objs, Reaches(o),
                      slot[obj[o].dbh][obj[o].info].id \in Tids,
                      srv[slot[obj[o].dbh][obj[o].info].id] \in Unresolved
               PROVE  Tra(o) = slot[obj[o].dbh][obj[o].info].id
    BY DEF IdNeverMisleads
  <2>1. obj[o].dbh \in Dbhs /\ obj[o].info \in Trhs
    BY <1>1 DEF IndInv, HandlesIssued, Reaches
  <2>2. obj[o].info = obj[o].trh
    BY <1>1 DEF IndInv, InfoPrivate, NewSlot, Tids
  <2> QED BY <1>1, <2>1, <2>2 DEF IndInv, SlotIds, Tra, Slot
<1> QED BY <1>1, Invariance, PTL

-----------------------------------------------------------------------------
(* The action properties.                                                  *)

\* The calls that end a transaction, as one formula about srv.
LEMMA EndEffect ==
  ASSUME TypeOK, NEW o \in Objs, Finalize(o) \/ ExecuteSql(o),
         NEW t \in Tids, srv[t] \notin {"none", srv'[t]}
  PROVE  Usable(o) /\ Tra(o) = t /\ obj'[o].st = "live" /\ Tra(o)' # t
<1>1. ASSUME NEW u \in Tids, Start(o, u) PROVE FALSE
  BY <1>1 DEF Start, Fresh, TypeOK
<1>2. ASSUME Usable(o)
      PROVE  /\ Reaches(o) /\ obj[o].st = "live" /\ Tra(o) \in Tids
             /\ srv[Tra(o)] # "none" /\ Slot(o) \in SlotRec
  BY <1>2, ReachesType DEF Usable, Reaches, Slot, Unresolved
<1>3. ASSUME NEW s \in SlotRec, PutSlot(o, s), Reaches(o), UNCHANGED obj
      PROVE  Tra(o)' = s.tra
  BY <1>3, PutEffect, ReachesType DEF Tra, Slot
<1>4. ASSUME NEW outcome \in {"committed", "rolledback"}, End(o, outcome)
      PROVE  Usable(o) /\ Tra(o) = t /\ obj'[o].st = "live" /\ Tra(o)' # t
  <2>1. [Slot(o) EXCEPT !.tra = 0] \in SlotRec /\ [Slot(o) EXCEPT !.tra = 0].tra = 0
    BY <1>2, <1>4, BoundsAssumption DEF End, SlotRec
  <2>2. Tra(o)' = 0
    BY <1>2, <1>3, <1>4, <2>1 DEF End, SetTra
  <2>3. Tra(o) = t
    BY <1>2, <1>4 DEF End, TypeOK
  <2> QED BY <1>2, <1>4, <2>2, <2>3 DEF End, Tids
<1>5. ASSUME NEW outcome \in {"committed", "rolledback"}, EndSql(o, outcome)
      PROVE  Usable(o) /\ Tra(o) = t /\ obj'[o].st = "live" /\ Tra(o)' # t
  <2>1. Tra(o)' = 0
    BY <1>2, <1>3, <1>5, SlotTypes DEF EndSql, NewSlot
  <2>2. Tra(o) = t
    BY <1>2, <1>5 DEF EndSql, TypeOK
  <2> QED BY <1>2, <1>5, <2>1, <2>2 DEF EndSql, Tids
<1>6. ASSUME NEW outcome \in {"committed", "rolledback"}, NEW u \in Tids,
             EndRetaining(o, outcome, u)
      PROVE  Usable(o) /\ Tra(o) = t /\ obj'[o].st = "live" /\ Tra(o)' # t
  <2>1. [Slot(o) EXCEPT !.tra = u] \in SlotRec /\ [Slot(o) EXCEPT !.tra = u].tra = u
    BY <1>2, <1>6, BoundsAssumption DEF EndRetaining, SlotRec, Tids
  <2>2. Tra(o)' = u
    BY <1>2, <1>3, <1>6, <2>1 DEF EndRetaining, SetTra
  <2>3. t # u
    BY <1>6 DEF EndRetaining, Fresh
  <2>4. Tra(o) = t
    BY <1>2, <1>6, <2>3 DEF EndRetaining, TypeOK
  <2> QED BY <1>2, <1>6, <2>2, <2>3, <2>4 DEF EndRetaining
<1> QED BY <1>1, <1>4, <1>5, <1>6 DEF Finalize, ExecuteSql

\* Steps in which no transaction that exists changes, the same way.
LEMMA OldUnchanged ==
  ASSUME TypeOK, NEW d \in Dbhs, NEW o \in Objs, NEW t \in Tids, NEW u \in Tids,
         \/ Connect(d) \/ NewTransaction(d, o) \/ StartTransaction(d, o, u)
         \/ ReconnectTransaction(d, o, u) \/ Start(o, u) \/ UNCHANGED vars,
         srv[t] # "none"
  PROVE  srv'[t] = srv[t]
  BY DEF Connect, NewTransaction, StartTransaction, ReconnectTransaction, Start,
         vars, Fresh, TypeOK

\* A transaction in limbo leaves it in the listed ways only.
THEOREM LimboIsDurable == Spec => LimboDurable
<1>1. ASSUME IndInv, [Next]_vars, NEW t \in Tids,
             srv[t] = "prepared", srv'[t] # "prepared"
      PROVE  LimboStep(t)
  <2>t. TypeOK
    BY <1>1 DEF IndInv
  <2>1. ASSUME NEW d \in Dbhs, Connect(d) \/ Disconnect(d) \/ LoseConnection(d)
        PROVE  FALSE
    BY <1>1, <2>1 DEF Connect, Disconnect, LoseConnection, EndAttachments, ActiveIn
  <2>2. ASSUME NEW d \in Dbhs, Drop(d) PROVE LimboStep(t)
    <3>1. srv'[t] = "destroyed"
      BY <1>1, <2>2 DEF Drop, Unresolved
    <3> QED BY <3>1 DEF LimboStep
  <2>3. ASSUME NEW D, D \subseteq Dbhs, Destructors(D),
               \A d \in D : db'[d] # "open"
        PROVE  LimboStep(t)
    <3>1. PICK R \in SUBSET Undetachable(D) : EndAttachments(D, R)
      BY <2>3 DEF Destructors
    <3>2. PICK d \in R : t \in PreparedIn(d)
      BY <1>1, <3>1 DEF EndAttachments, ActiveIn
    <3>3. d \in D /\ d \in Dbhs /\ ActiveIn(d) # {} /\ t \in Held(d)
      BY <2>3, <3>1, <3>2 DEF Undetachable, PreparedIn
    <3> QED BY <2>3, <3>3 DEF LimboStep
  <2>4. ASSUME NEW d \in Dbhs, FreeDatabase(d) PROVE LimboStep(t)
    BY <2>3, <2>4, <2>t DEF FreeDatabase, TypeOK
  <2>5. CASE Shutdown
    <3>1. PICK R \in SUBSET Undetachable(Dbhs) : EndAttachments(Dbhs, R)
      BY <2>5 DEF Shutdown
    <3>2. PICK d \in R : t \in PreparedIn(d)
      BY <1>1, <3>1 DEF EndAttachments, ActiveIn
    <3>3. d \in Dbhs /\ ActiveIn(d) # {} /\ t \in Held(d)
      BY <3>1, <3>2 DEF Undetachable, PreparedIn
    <3>4. db'[d] # "open"
      BY <2>5, <3>3 DEF Shutdown, NewRequest
    <3> QED BY <3>3, <3>4 DEF LimboStep
  <2>6. CASE Crash
    BY <1>1, <2>6 DEF Crash, EndAttachments, ActiveIn
  <2>7. ASSUME NEW o \in Objs, FreeTransaction(o) PROVE LimboStep(t)
    <3>1. /\ Usable(o) /\ Reaches(o) /\ ~obj[o].is_prepared_2pc /\ t = Tra(o)
      BY <1>1, <2>7, <2>t DEF FreeTransaction, TypeOK
    <3>2. obj[o].trh # obj[o].info
      BY <1>1, <3>1 DEF IndInv, PreparedMarked, Usable
    <3>3. obj'[o].st = "freed"
      BY <2>7, <2>t DEF FreeTransaction, TypeOK, ObjRec
    <3> QED BY <3>1, <3>2, <3>3 DEF LimboStep
  <2>8. ASSUME NEW o \in Objs, Finalize(o) \/ ExecuteSql(o) PROVE LimboStep(t)
    BY <1>1, <2>8, <2>t, EndEffect DEF LimboStep
  <2>9. ASSUME NEW o \in Objs, Prepare2pc(o) PROVE FALSE
    BY <1>1, <2>9, <2>t DEF Prepare2pc, TypeOK
  <2>10. ASSUME NEW u \in Tids, ResolveElsewhere(u) PROVE LimboStep(t)
    BY <2>10 DEF ResolveElsewhere, LimboStep
  <2>11. ASSUME NEW d \in Dbhs, NEW o \in Objs, NewTransaction(d, o) PROVE FALSE
    BY <1>1, <2>11 DEF NewTransaction
  <2>12. ASSUME NEW d \in Dbhs, NEW o \in Objs, NEW u \in Tids,
                StartTransaction(d, o, u) \/ ReconnectTransaction(d, o, u)
         PROVE  FALSE
    BY <1>1, <2>12, <2>t, OldUnchanged
  <2>13. ASSUME NEW o \in Objs, NEW u \in Tids, Start(o, u) PROVE FALSE
    BY <1>1, <2>13, <2>t DEF Start, Fresh, TypeOK
  <2>14. CASE UNCHANGED vars
    BY <1>1, <2>14 DEF vars
  <2> QED BY <1>1, <2>1, <2>2, <2>4, <2>5, <2>6, <2>7, <2>8, <2>9, <2>10, <2>11,
             <2>12, <2>13, <2>14 DEF Next, PrepareNull
<1>2. IndInv /\ [Next]_vars =>
        [\A t \in Tids : srv[t] = "prepared" /\ srv'[t] # "prepared"
                         => LimboStep(t)]_vars
  BY <1>1
<1> QED BY <1>2, Invariance, PTL DEF Spec, LimboDurable

\* Only a call on the object that holds it, or another process, commits.
THEOREM CommitIsByCall == Spec => CommitOnlyByCall
<1> DEFINE ByCall(t) == \E o \in Objs : /\ Usable(o) /\ Tra(o) = t
                                       /\ obj'[o].st = "live" /\ Tra(o)' # t
           Elsewhere(t) == srv[t] = "prepared" /\ UNCHANGED <<db, size, slot, obj>>
<1>1. ASSUME IndInv, [Next]_vars, NEW t \in Tids,
             srv[t] # "committed", srv'[t] = "committed"
      PROVE  ByCall(t) \/ Elsewhere(t)
  <2>t. TypeOK
    BY <1>1 DEF IndInv
  <2>1. ASSUME NEW D, NEW R, EndAttachments(D, R) PROVE FALSE
    BY <1>1, <2>1 DEF EndAttachments
  <2>2. ASSUME NEW d \in Dbhs,
               \/ Connect(d) \/ Disconnect(d) \/ Drop(d)
               \/ FreeDatabase(d) \/ LoseConnection(d)
        PROVE  FALSE
    BY <1>1, <2>1, <2>2
       DEF Connect, Disconnect, Drop, FreeDatabase, Destructors, LoseConnection
  <2>3. CASE Shutdown \/ Crash
    BY <2>1, <2>3 DEF Shutdown, Crash
  <2>4. ASSUME NEW o \in Objs, FreeTransaction(o) \/ Prepare2pc(o) PROVE FALSE
    BY <1>1, <2>4, <2>t DEF FreeTransaction, Prepare2pc, TypeOK
  <2>5. ASSUME NEW o \in Objs, Finalize(o) \/ ExecuteSql(o)
        PROVE  ByCall(t)
    <3>1. CASE srv[t] # "none"
      BY <1>1, <2>5, <2>t, <3>1, EndEffect
    <3>2. CASE srv[t] = "none"
      BY <1>1, <2>5, <2>t, <3>2, ReachesType
         DEF Finalize, ExecuteSql, Start, End, EndRetaining, EndSql, Usable,
             Fresh, TypeOK, Unresolved
    <3> QED BY <3>1, <3>2
  <2>6. ASSUME NEW u \in Tids, ResolveElsewhere(u)
        PROVE  Elsewhere(t)
    BY <1>1, <2>6, <2>t DEF ResolveElsewhere, TypeOK
  <2>7. ASSUME NEW d \in Dbhs, NEW o \in Objs, NewTransaction(d, o) PROVE FALSE
    BY <1>1, <2>7 DEF NewTransaction
  <2>8. ASSUME NEW d \in Dbhs, NEW o \in Objs, NEW u \in Tids,
               StartTransaction(d, o, u) \/ ReconnectTransaction(d, o, u)
        PROVE  FALSE
    BY <1>1, <2>8, <2>t DEF StartTransaction, ReconnectTransaction, TypeOK
  <2>9. ASSUME NEW o \in Objs, NEW u \in Tids, Start(o, u) PROVE FALSE
    BY <1>1, <2>9, <2>t DEF Start, TypeOK
  <2>10. CASE UNCHANGED vars
    BY <1>1, <2>10 DEF vars
  <2> HIDE DEF ByCall, Elsewhere
  <2> QED BY <1>1, <2>2, <2>3, <2>4, <2>5, <2>6, <2>7, <2>8, <2>9, <2>10
          DEF Next, PrepareNull
<1>2. IndInv /\ [Next]_vars =>
        [\A t \in Tids : srv[t] # "committed" /\ srv'[t] = "committed" =>
           \/ \E o \in Objs : /\ Usable(o) /\ Tra(o) = t
                              /\ obj'[o].st = "live" /\ Tra(o)' # t
           \/ srv[t] = "prepared" /\ UNCHANGED <<db, size, slot, obj>>]_vars
  BY <1>1
<1> QED BY <1>2, Invariance, PTL DEF Spec, CommitOnlyByCall

-----------------------------------------------------------------------------
(* Transactions implements TransactionCells.                               *)

\* A Transaction object that is alive has its C++ object, as long as its
\* Database is there: only its own destructor resets the slot.
SlotsKept ==
  \A o \in Objs : obj[o].st = "live" /\ fbu_is_valid_dbh(obj[o].dbh) => Reaches(o)

CellInv == IndInv /\ SlotsKept

\* The slots that objects lead to are among those that were handed out.
LEMMA HandlesBelow ==
  ASSUME IndInv, NEW o \in Objs, obj[o].st = "live"
  PROVE  /\ obj[o].dbh \in Dbhs /\ obj[o].trh \in Trhs
         /\ obj[o].trh \in Nat /\ db[obj[o].dbh] # "none"
         /\ fbu_is_valid_dbh(obj[o].dbh) => obj[o].trh <= size[obj[o].dbh]
  BY BoundsAssumption DEF IndInv, HandlesIssued, fbu_is_valid_dbh, Trhs

\* What an object's cell depends on.
SameCell(o) ==
  /\ obj'[o].st = obj[o].st /\ obj'[o].dbh = obj[o].dbh /\ obj'[o].trh = obj[o].trh
  /\ obj[o].st = "live" =>
       /\ fbu_is_valid_dbh(obj[o].dbh)' <=> fbu_is_valid_dbh(obj[o].dbh)
       /\ fbu_is_valid_dbh(obj[o].dbh) =>
            /\ slot'[obj[o].dbh][obj[o].trh].st = slot[obj[o].dbh][obj[o].trh].st
            /\ slot'[obj[o].dbh][obj[o].trh].tra = slot[obj[o].dbh][obj[o].trh].tra

LEMMA SameCellMeans ==
  ASSUME NEW o \in Objs, SameCell(o)
  PROVE  cellOf(o)' = cellOf(o) /\ (Reaches(o)' <=> Reaches(o))
<1>1. CASE obj[o].st # "live"
  BY <1>1 DEF SameCell, cellOf, Reaches
<1>2. CASE obj[o].st = "live"
  <2>1. Reaches(o)' <=> Reaches(o)
    BY <1>2 DEF SameCell, Reaches, fbu_is_valid_trh, fbu_is_valid_dbh
  <2>2. Reaches(o) => Tra(o)' = Tra(o)
    BY <1>2 DEF SameCell, Reaches, Tra, Slot, fbu_is_valid_trh
  <2> QED
    BY <1>2, <2>1, <2>2 DEF SameCell, cellOf
<1> QED
  BY <1>1, <1>2

\* The cells as a whole, when none changes and when one does.
CellsNow == [o \in Objs |-> cellOf(o)]

LEMMA CellsSame ==
  ASSUME \A o \in Objs : cellOf(o)' = cellOf(o)
  PROVE  CellsNow' = CellsNow
  BY DEF CellsNow

LEMMA CellsOne ==
  ASSUME NEW o \in Objs, NEW c, cellOf(o)' = c,
         \A p \in Objs \ {o} : cellOf(p)' = cellOf(p)
  PROVE  CellsNow' = [CellsNow EXCEPT ![o] = c]
  BY DEF CellsNow

\* The cell of an object that a method gets through to.
LEMMA OpenCell ==
  ASSUME TypeOK, NEW o \in Objs, Reaches(o)
  PROVE  CellsNow[o] = Cells!Cell("open", Tra(o))
  BY DEF CellsNow, cellOf, Reaches, Cells!Cell

\* A slot that is put changes the cell of one object.
LEMMA PutCells ==
  ASSUME IndInv, UNCHANGED <<db, obj>>, NEW o \in Objs, Reaches(o),
         NEW s \in SlotRec, s.st = "alive", PutSlot(o, s)
  PROVE  CellsNow' = [CellsNow EXCEPT ![o] = Cells!Cell("open", s.tra)]
<1>1. TypeOK /\ obj[o].dbh \in Dbhs /\ obj[o].trh \in Trhs /\ obj[o].st = "live"
  BY ReachesType DEF IndInv, Reaches
<1>2. \A e \in Dbhs, n \in Trhs :
        slot'[e][n] = IF e = obj[o].dbh /\ n = obj[o].trh THEN s ELSE slot[e][n]
  BY <1>1, PutEffect
<1>3. cellOf(o)' = Cells!Cell("open", s.tra)
  <2>1. Reaches(o)' /\ Tra(o)' = s.tra
    BY <1>1, <1>2 DEF Reaches, Tra, Slot, fbu_is_valid_trh, fbu_is_valid_dbh
  <2> QED
    BY <1>1, <2>1 DEF cellOf, Cells!Cell
<1>4. ASSUME NEW p \in Objs \ {o} PROVE cellOf(p)' = cellOf(p)
  <2>1. CASE ~Reaches(p)
    <3>1. obj[p].st # "live" \/ ~Reaches(p)'
      <4>1. SUFFICES ASSUME obj[p].st = "live", Reaches(p)' PROVE FALSE
        OBVIOUS
      <4>2. obj[p].dbh \in Dbhs /\ obj[p].trh \in Trhs
        BY <4>1, HandlesBelow
      <4>3. slot'[obj[p].dbh][obj[p].trh].st = slot[obj[p].dbh][obj[p].trh].st
        BY <1>1, <1>2, <4>2 DEF Reaches, fbu_is_valid_trh
      <4> QED
        BY <2>1, <4>1, <4>3 DEF Reaches, fbu_is_valid_trh, fbu_is_valid_dbh
    <3> QED
      BY <2>1, <3>1 DEF cellOf
  <2>2. CASE Reaches(p)
    <3>1. obj[p].dbh \in Dbhs /\ obj[p].trh \in Trhs
      BY <1>1, <2>2, ReachesType
    <3>2. ~(obj[p].dbh = obj[o].dbh /\ obj[p].trh = obj[o].trh)
      BY <2>2 DEF IndInv, HandlesExclusive
    <3>3. SameCell(p)
      BY <1>2, <3>1, <3>2 DEF SameCell, fbu_is_valid_dbh
    <3> QED
      BY <3>3, SameCellMeans
  <2> QED
    BY <2>1, <2>2
<1> QED
  BY <1>3, <1>4, CellsOne

\* What the server rolls back when the Databases in D end.
Ended(D, R) == {t \in Tids : \/ \E d \in D : t \in ActiveIn(d)
                             \/ \E d \in R : t \in PreparedIn(d)}

LEMMA EndedRollsBack ==
  ASSUME TypeOK, NEW D, NEW R, EndAttachments(D, R)
  PROVE  Cells!RollBackAll(Ended(D, R))
<1>1. \A t \in Ended(D, R) : srv[t] \in Cells!Unresolved
  BY DEF Ended, ActiveIn, PreparedIn, Cells!Unresolved
<1>2. srv' = [t \in Tids |-> IF t \in Ended(D, R) THEN "rolledback" ELSE srv[t]]
  BY DEF EndAttachments, Ended
<1> QED
  BY <1>1, <1>2 DEF Cells!RollBackAll

\* A transaction that runs in a Database belongs to no cell outside it.
LEMMA ActiveInside ==
  ASSUME IndInv, NEW o \in Objs, NEW t \in Tids, NEW d \in Dbhs,
         Reaches(o), Tra(o) = t, t \in ActiveIn(d)
  PROVE  obj[o].dbh = d
<1>1. obj[o].dbh \in Dbhs /\ obj[o].trh \in Trhs
  BY ReachesType DEF IndInv
<1>2. PICK n \in Trhs : slot[d][n].tra = t /\ srv[t] = "active"
  BY DEF ActiveIn, Held
<1> QED
  BY <1>1, <1>2 DEF IndInv, ActiveUnique, Tra, Slot

\* The cell of an object holds t just when the object leads to it.
LEMMA HoldsMeans ==
  ASSUME NEW o \in Objs, NEW t \in Tids, Cells!Holds(o, t)
  PROVE  obj[o].st = "live" /\ Reaches(o) /\ Tra(o) = t
<1>1. cellOf(o).at = "open" /\ cellOf(o).tra = t
  BY DEF Cells!Holds, Cells!Cell
<1>2. t # 0
  BY BoundsAssumption DEF Tids
<1> QED
  BY <1>1, <1>2 DEF cellOf

\* When the Databases in {d} go, the cells in C close and the others stay.
LEMMA GoneCells ==
  ASSUME CellInv, NEW d \in Dbhs, fbu_is_valid_dbh(d), NEW C \in SUBSET Objs,
         C = {o \in Objs : obj[o].st = "live" /\ obj[o].dbh = d},
         db' = [db EXCEPT ![d] = "gone"], ClearLists({d}),
         NEW at \in {"closed", "freed"},
         \A o \in Objs \ C : obj'[o] = obj[o],
         \A o \in C : obj'[o] = IF at = "closed" THEN obj[o] ELSE [obj[o] EXCEPT !.st = "freed"]
  PROVE  /\ CellsNow' = [o \in Objs |-> IF o \in C THEN Cells!Cell(at, 0) ELSE CellsNow[o]]
         /\ \A o \in C : CellsNow[o].at = "open"
         /\ SlotsKept'
<1>0. /\ TypeOK /\ db \in [Dbhs -> DbState] /\ obj \in [Objs -> ObjRec]
      /\ \A e \in Dbhs : db'[e] = IF e = d THEN "gone" ELSE db[e]
      /\ \A e \in Dbhs, n \in Trhs :
           slot'[e][n] = IF e = d THEN UnusedSlot ELSE slot[e][n]
  BY ClearEffect DEF CellInv, IndInv, TypeOK
<1>1. ASSUME NEW o \in C
      PROVE  /\ cellOf(o)' = Cells!Cell(at, 0) /\ CellsNow[o].at = "open"
             /\ ~fbu_is_valid_dbh(obj[o].dbh)'
  <2>1. obj[o] \in ObjRec /\ obj'[o].dbh = d
        /\ obj'[o].st = IF at = "closed" THEN "live" ELSE "freed"
    BY <1>0 DEF ObjRec
  <2>2. ~fbu_is_valid_dbh(d)'
    BY <1>0 DEF fbu_is_valid_dbh
  <2>3. cellOf(o)' = Cells!Cell(at, 0)
    BY <2>1, <2>2 DEF cellOf, Reaches, fbu_is_valid_trh, Cells!Cell
  <2>4. o \in Objs /\ Reaches(o)
    BY DEF CellInv, SlotsKept
  <2>5. CellsNow[o].at = "open"
    BY <2>4 DEF CellsNow, cellOf, Reaches
  <2> QED
    BY <2>1, <2>2, <2>3, <2>5
<1>2. ASSUME NEW o \in Objs \ C PROVE SameCell(o)
  <2>1. obj[o].st = "live" => obj[o].dbh \in Dbhs \ {d} /\ obj[o].trh \in Trhs
    BY HandlesBelow DEF CellInv
  <2> QED
    BY <1>0, <2>1 DEF SameCell, fbu_is_valid_dbh
<1>3. \A o \in Objs \ C : cellOf(o)' = cellOf(o) /\ (Reaches(o)' <=> Reaches(o))
  BY <1>2, SameCellMeans
<1>4. SlotsKept'
  <2> SUFFICES ASSUME NEW o \in Objs, obj'[o].st = "live", fbu_is_valid_dbh(obj[o].dbh)'
               PROVE  Reaches(o)'
    BY DEF SlotsKept
  <2>1. o \notin C
    BY <1>1
  <2>2. obj[o].st = "live" /\ fbu_is_valid_dbh(obj[o].dbh)
    BY <1>2, <2>1 DEF SameCell
  <2> QED
    BY <1>3, <2>1, <2>2 DEF CellInv, SlotsKept
<1> QED
  BY <1>1, <1>3, <1>4 DEF CellsNow

\* What has to be shown of every step.
Maps == SlotsKept' /\ (Cells!Next \/ UNCHANGED <<CellsNow, srv>>)

\* Disconnect, drop and the destructor of a Database close its cells.
LEMMA DatabaseMaps ==
  ASSUME CellInv, NEW d \in Dbhs, Disconnect(d) \/ Drop(d) \/ FreeDatabase(d)
  PROVE  Maps
<1> DEFINE C == {o \in Objs : obj[o].st = "live" /\ obj[o].dbh = d}
<1>0. /\ TypeOK /\ IndInv /\ fbu_is_valid_dbh(d) /\ db' = [db EXCEPT ![d] = "gone"]
      /\ C \in SUBSET Objs
  BY DEF CellInv, IndInv, Disconnect, Drop, FreeDatabase
<1>1. ASSUME NEW R \in SUBSET {d}, EndAttachments({d}, R), NEW at \in {"closed", "freed"},
             \A o \in C : CellsNow[o].at = "open",
             CellsNow' = [o \in Objs |-> IF o \in C THEN Cells!Cell(at, 0) ELSE CellsNow[o]]
      PROVE  Cells!Close(C, at)
  <2> DEFINE S == Ended({d}, R)
  <2>1. Cells!RollBackAll(S) /\ S \in SUBSET Tids
    BY <1>0, <1>1, EndedRollsBack DEF Ended
  <2>2. ASSUME NEW o \in C, NEW t \in Tids, Cells!Holds(o, t), srv[t] = "active"
        PROVE  t \in S
    <3>1. Reaches(o) /\ Tra(o) = t /\ obj[o].dbh = d
      BY <2>2, HoldsMeans
    <3>2. t \in ActiveIn(d)
      BY <1>0, <2>2, <3>1, ReachesType, BoundsAssumption DEF ActiveIn, Held, Tra, Slot, Tids
    <3> QED
      BY <3>2 DEF Ended
  <2>3. ASSUME NEW o \in Objs \ C, NEW t \in S, Cells!Holds(o, t)
        PROVE  srv[t] = "prepared"
    <3>0. t \in Tids
      BY DEF Ended
    <3>1. obj[o].st = "live" /\ Reaches(o) /\ Tra(o) = t
      BY <2>3, <3>0, HoldsMeans
    <3>2. t \notin ActiveIn(d)
      BY <1>0, <3>0, <3>1, ActiveInside
    <3> QED
      BY <3>2 DEF Ended, PreparedIn
  <2> HIDE DEF S
  <2> QED
    BY <1>1, <2>1, <2>2, <2>3 DEF Cells!Close, CellsNow
<1>2. CASE Disconnect(d)
  <2>1. EndAttachments({d}, {}) /\ ClearLists({d}) /\ obj' = obj
    BY <1>2 DEF Disconnect
  <2>2. /\ CellsNow' = [o \in Objs |-> IF o \in C THEN Cells!Cell("closed", 0) ELSE CellsNow[o]]
        /\ \A o \in C : CellsNow[o].at = "open"
        /\ SlotsKept'
    BY <1>0, <2>1, GoneCells
  <2>3. Cells!Close(C, "closed")
    BY <1>1, <2>1, <2>2
  <2> QED
    BY <1>0, <2>2, <2>3 DEF Maps, Cells!Next
<1>3. CASE Drop(d)
  <2>1. ClearLists({d}) /\ obj' = obj
        /\ srv' = [t \in Tids |-> IF srv[t] \in Unresolved THEN "destroyed" ELSE srv[t]]
    BY <1>3 DEF Drop
  <2>2. /\ CellsNow' = [o \in Objs |-> IF o \in C THEN Cells!Cell("closed", 0) ELSE CellsNow[o]]
        /\ \A o \in C : CellsNow[o].at = "open"
        /\ SlotsKept'
    BY <1>0, <2>1, GoneCells
  <2>3. Cells!Drop(C)
    BY <2>1, <2>2 DEF Cells!Drop, CellsNow, Unresolved, Cells!Unresolved
  <2> QED
    BY <1>0, <2>2, <2>3 DEF Maps, Cells!Next
<1>4. CASE FreeDatabase(d)
  <2>1. PICK R \in SUBSET Undetachable({d}) : EndAttachments({d}, R)
    BY <1>4 DEF FreeDatabase, Destructors
  <2>2. /\ ClearLists({d}) /\ R \in SUBSET {d}
        /\ obj' = [o \in Objs |-> IF obj[o].dbh = d /\ obj[o].st = "live"
                                  THEN [obj[o] EXCEPT !.st = "freed"] ELSE obj[o]]
    BY <1>4 DEF FreeDatabase, Destructors, Undetachable
  <2>3. /\ \A o \in Objs \ C : obj'[o] = obj[o]
        /\ \A o \in C : obj'[o] = [obj[o] EXCEPT !.st = "freed"]
    BY <2>2
  <2>4. /\ CellsNow' = [o \in Objs |-> IF o \in C THEN Cells!Cell("freed", 0) ELSE CellsNow[o]]
        /\ \A o \in C : CellsNow[o].at = "open"
        /\ SlotsKept'
    BY <1>0, <2>2, <2>3, GoneCells
  <2>5. Cells!Close(C, "freed")
    BY <1>1, <2>1, <2>2, <2>4
  <2> QED
    BY <1>0, <2>4, <2>5 DEF Maps, Cells!Next
<1> QED
  BY <1>2, <1>3, <1>4

\* Where every object leads to the slot it led to, no cell changes.
LEMMA QuietMaps ==
  ASSUME SlotsKept, \A o \in Objs : SameCell(o)
  PROVE  CellsNow' = CellsNow /\ SlotsKept'
<1>1. \A o \in Objs : cellOf(o)' = cellOf(o) /\ (Reaches(o)' <=> Reaches(o))
  BY SameCellMeans
<1>2. SlotsKept'
  BY <1>1 DEF SlotsKept, SameCell
<1> QED
  BY <1>1, <1>2, CellsSame

\* What leaves the tables and the objects alone changes no cell.
LEMMA TablesQuiet ==
  ASSUME CellInv, UNCHANGED <<size, slot, obj>>,
         \A d \in Dbhs : db[d] # "none" =>
           (db'[d] \in {"open", "broken"} <=> db[d] \in {"open", "broken"})
  PROVE  CellsNow' = CellsNow /\ SlotsKept'
<1>1. IndInv /\ SlotsKept
  BY DEF CellInv
<1>2. ASSUME NEW o \in Objs PROVE SameCell(o)
  BY <1>1, HandlesBelow DEF SameCell, fbu_is_valid_dbh
<1> QED
  BY <1>1, <1>2, QuietMaps

\* A new attachment, and a lost one.
LEMMA AttachMaps ==
  ASSUME CellInv, NEW d \in Dbhs, Connect(d) \/ LoseConnection(d)
  PROVE  Maps
<1>0. TypeOK /\ db \in [Dbhs -> DbState]
  BY DEF CellInv, IndInv, TypeOK
<1>1. CellsNow' = CellsNow /\ SlotsKept'
  BY <1>0, TablesQuiet DEF Connect, LoseConnection
<1>2. CASE Connect(d)
  BY <1>1, <1>2 DEF Connect, Maps
<1>3. CASE LoseConnection(d)
  <2> DEFINE S == Ended({d}, {})
  <2>1. Cells!RollBackAll(S) /\ S \in SUBSET Tids
    BY <1>0, <1>3, EndedRollsBack DEF Ended, LoseConnection
  <2>2. \A u \in S : srv[u] = "active"
    BY DEF Ended, ActiveIn
  <2> HIDE DEF S
  <2>3. Cells!Lose
    BY <1>1, <2>1, <2>2 DEF Cells!Lose, CellsNow
  <2> QED
    BY <1>1, <2>3 DEF Maps, Cells!Next
<1> QED
  BY <1>2, <1>3

\* What happens in another process.
LEMMA ElsewhereMaps ==
  ASSUME CellInv, NEW t \in Tids, ResolveElsewhere(t)
  PROVE  Maps
<1>1. CellsNow' = CellsNow /\ SlotsKept'
  BY TablesQuiet DEF ResolveElsewhere
<1>2. PICK outcome \in Cells!Outcome : srv' = [srv EXCEPT ![t] = outcome]
  BY DEF ResolveElsewhere, Cells!Outcome
<1>3. Cells!ResolveElsewhere(t, outcome)
  BY <1>1, <1>2 DEF ResolveElsewhere, Cells!ResolveElsewhere, CellsNow
<1> QED
  BY <1>1, <1>3 DEF Maps, Cells!Next

\* RSHUTDOWN and a crash leave no cell, and nothing running.
LEMMA ResetMaps ==
  ASSUME CellInv, Shutdown \/ Crash
  PROVE  Maps
<1>0. TypeOK /\ IndInv
  BY DEF CellInv, IndInv
<1>1. PICK R \in SUBSET Dbhs : EndAttachments(Dbhs, R)
  BY DEF Shutdown, Crash, Undetachable
<1>2. NewRequest
  BY DEF Shutdown, Crash
<1>3. \A o \in Objs : cellOf(o)' = Cells!Cell("none", 0) /\ obj'[o].st = "none"
  BY <1>2 DEF NewRequest, NoObj, cellOf, Cells!Cell
<1> DEFINE S == Ended(Dbhs, R)
<1>4. Cells!RollBackAll(S) /\ S \in SUBSET Tids
  BY <1>0, <1>1, EndedRollsBack DEF Ended
<1>5. \A t \in Tids : srv[t] = "active" => t \in S
  BY <1>0 DEF IndInv, ActiveHeld, ActiveIn, Ended
<1> HIDE DEF S
<1>6. Cells!Reset
  BY <1>3, <1>4, <1>5 DEF Cells!Reset
<1>7. SlotsKept'
  BY <1>3 DEF SlotsKept
<1> QED
  BY <1>6, <1>7 DEF Maps, Cells!Next

\* The cells of the other objects, while slots are appended to one tr_list.
LEMMA AppendKeeps ==
  ASSUME IndInv, NEW d \in Dbhs, size[d] \in Nat, UNCHANGED db, NEW o \in Objs,
         obj'[o] = obj[o], obj[o].st = "live" => fbu_is_valid_dbh(d),
         \A e \in Dbhs, n \in Trhs : e # d \/ n <= size[d] => slot'[e][n] = slot[e][n]
  PROVE  SameCell(o)
<1> SUFFICES ASSUME obj[o].st = "live", fbu_is_valid_dbh(obj[o].dbh)
             PROVE  slot'[obj[o].dbh][obj[o].trh] = slot[obj[o].dbh][obj[o].trh]
  BY DEF SameCell, fbu_is_valid_dbh
<1> QED
  BY HandlesBelow

\* An object that is born has an open cell with what its slot holds, and no
\* other cell changes.
LEMMA BirthCells ==
  ASSUME CellInv, NEW d \in Dbhs, fbu_is_valid_dbh(d), UNCHANGED db,
         NEW o \in Objs, obj[o].st = "none", NEW trh \in Trhs, NEW info,
         Born(o, d, trh, info), size[d] \in Nat, trh > size[d],
         \A e \in Dbhs, n \in Trhs : e # d \/ n <= size[d] => slot'[e][n] = slot[e][n],
         slot'[d][trh].st = "alive"
  PROVE  /\ CellsNow[o].at = "none"
         /\ CellsNow' = [CellsNow EXCEPT ![o] = Cells!Cell("open", slot'[d][trh].tra)]
         /\ SlotsKept'
<1>0. /\ TypeOK /\ IndInv /\ obj \in [Objs -> ObjRec]
      /\ obj'[o].st = "live" /\ obj'[o].dbh = d /\ obj'[o].trh = trh
      /\ \A p \in Objs \ {o} : obj'[p] = obj[p]
  BY DEF CellInv, IndInv, TypeOK, Born
<1>1. Reaches(o)' /\ Tra(o)' = slot'[d][trh].tra
  BY <1>0 DEF Reaches, Tra, Slot, fbu_is_valid_trh, fbu_is_valid_dbh
<1>2. cellOf(o)' = Cells!Cell("open", slot'[d][trh].tra)
  BY <1>0, <1>1 DEF cellOf, Cells!Cell
<1>3. ASSUME NEW p \in Objs \ {o}
      PROVE  SameCell(p) /\ cellOf(p)' = cellOf(p) /\ (Reaches(p)' <=> Reaches(p))
  BY <1>0, AppendKeeps, SameCellMeans
<1>4. CellsNow[o].at = "none"
  BY DEF CellsNow, cellOf
<1>5. CellsNow' = [CellsNow EXCEPT ![o] = Cells!Cell("open", slot'[d][trh].tra)]
  BY <1>2, <1>3, CellsOne
<1>6. SlotsKept'
  BY <1>1, <1>3 DEF SlotsKept, CellInv, SameCell
<1> QED
  BY <1>4, <1>5, <1>6

\* A start or a reconnect that failed leaves a freed slot and no object.
LEMMA FailedBirthMaps ==
  ASSUME CellInv, NEW d \in Dbhs, fbu_is_valid_dbh(d),
         AppendSlots(d, <<FreedSlot>>), UNCHANGED <<db, obj>>
  PROVE  CellsNow' = CellsNow /\ SlotsKept'
<1>1. TypeOK /\ IndInv /\ SlotsKept /\ FreedSlot \in SlotRec
  BY SlotTypes DEF CellInv, IndInv
<1>2. /\ size[d] \in Nat
      /\ \A e \in Dbhs, n \in Trhs :
           slot'[e][n] = IF e = d /\ n = size[d] + 1 THEN FreedSlot ELSE slot[e][n]
  BY <1>1, AppendOneEffect
<1>3. ASSUME NEW o \in Objs PROVE SameCell(o)
  <2>1. \A e \in Dbhs, n \in Trhs : e # d \/ n <= size[d] => slot'[e][n] = slot[e][n]
    BY <1>2, BoundsAssumption DEF Trhs
  <2> QED
    BY <1>1, <1>2, <2>1, AppendKeeps
<1> QED
  BY <1>1, <1>3, QuietMaps

\* An object born with the slot appended for it.
LEMMA OneBirth ==
  ASSUME CellInv, NEW d \in Dbhs, fbu_is_valid_dbh(d), UNCHANGED db,
         NEW o \in Objs, obj[o].st = "none", NEW s \in SlotRec, s.st = "alive",
         AppendSlots(d, <<s>>), Born(o, d, size[d] + 1, size[d] + 1)
  PROVE  /\ CellsNow[o].at = "none"
         /\ CellsNow' = [CellsNow EXCEPT ![o] = Cells!Cell("open", s.tra)]
         /\ SlotsKept'
<1>1. TypeOK
  BY DEF CellInv, IndInv
<1>2. /\ size[d] \in Nat /\ size[d] + 1 \in Trhs
      /\ \A e \in Dbhs, n \in Trhs :
           slot'[e][n] = IF e = d /\ n = size[d] + 1 THEN s ELSE slot[e][n]
  BY <1>1, AppendOneEffect
<1>3. /\ \A e \in Dbhs, n \in Trhs : e # d \/ n <= size[d] => slot'[e][n] = slot[e][n]
      /\ slot'[d][size[d] + 1] = s /\ size[d] + 1 > size[d]
  BY <1>2, BoundsAssumption DEF Trhs
<1> QED
  BY <1>2, <1>3, BirthCells

\* new_transaction makes an idle cell.
LEMMA NewMaps ==
  ASSUME CellInv, NEW d \in Dbhs, NEW o \in Objs, NewTransaction(d, o)
  PROVE  Maps
<1>0. NewSlot \in SlotRec /\ NewSlot.st = "alive" /\ NewSlot.tra = 0
  BY SlotTypes DEF NewSlot
<1>1. /\ CellsNow[o].at = "none" /\ SlotsKept'
      /\ CellsNow' = [CellsNow EXCEPT ![o] = Cells!Cell("open", 0)]
  BY <1>0, OneBirth DEF NewTransaction
<1>2. Cells!New(o)
  BY <1>1 DEF NewTransaction, Cells!New, CellsNow
<1> QED
  BY <1>1, <1>2 DEF Maps, Cells!Next

\* start_transaction and reconnect_transaction make one that holds something.
LEMMA BirthMaps ==
  ASSUME CellInv, NEW d \in Dbhs, NEW o \in Objs, NEW t \in Tids,
         StartTransaction(d, o, t) \/ ReconnectTransaction(d, o, t)
  PROVE  Maps
<1>1. /\ TypeOK /\ IndInv /\ NewSlot \in SlotRec /\ StartedSlot(t) \in SlotRec
      /\ StartedSlot(t).st = "alive" /\ StartedSlot(t).tra = t
      /\ fbu_is_valid_dbh(d) /\ db' = db /\ obj[o].st = "none"
  BY SlotTypes DEF CellInv, IndInv, StartTransaction, ReconnectTransaction, StartedSlot
<1>2. CASE StartTransaction(d, o, t)
  <2>1. CASE /\ AppendSlots(d, <<FreedSlot>>) /\ UNCHANGED obj
             /\ UNCHANGED srv \/ (Fresh(t) /\ srv' = [srv EXCEPT ![t] = "rolledback"])
    <3>1. CellsNow' = CellsNow /\ SlotsKept'
      BY <1>1, <2>1, FailedBirthMaps
    <3>2. UNCHANGED srv \/ Cells!Vain(t)
      BY <2>1, <3>1 DEF Fresh, Cells!Vain, CellsNow
    <3> QED
      BY <3>1, <3>2 DEF Maps, Cells!Next
  <2>2. CASE /\ Fresh(t) /\ AppendSlots(d, <<StartedSlot(t)>>)
             /\ Born(o, d, size[d] + 1, size[d] + 1)
             /\ srv' = [srv EXCEPT ![t] = "active"]
    <3>1. /\ CellsNow[o].at = "none" /\ SlotsKept'
          /\ CellsNow' = [CellsNow EXCEPT ![o] = Cells!Cell("open", t)]
      BY <1>1, <2>2, OneBirth
    <3>2. Cells!Begin(o, t)
      BY <2>2, <3>1 DEF Cells!Begin, CellsNow, Fresh
    <3> QED
      BY <3>1, <3>2 DEF Maps, Cells!Next
  <2> QED
    BY <1>2, <2>1, <2>2 DEF StartTransaction
<1>3. CASE ReconnectTransaction(d, o, t)
  <2>1. CASE AppendSlots(d, <<FreedSlot>>) /\ UNCHANGED obj
    BY <1>1, <1>3, <2>1, FailedBirthMaps DEF ReconnectTransaction, Maps
  <2>2. CASE /\ srv[t] = "prepared" /\ AppendSlots(d, <<NewSlot, StartedSlot(t)>>)
             /\ Born(o, d, size[d] + 2, size[d] + 1)
    <3>1. /\ size[d] \in Nat /\ size[d] + 2 \in Trhs
          /\ \A e \in Dbhs, n \in Trhs :
               slot'[e][n] = IF e = d /\ n = size[d] + 1 THEN NewSlot
                             ELSE IF e = d /\ n = size[d] + 2 THEN StartedSlot(t)
                             ELSE slot[e][n]
      BY <1>1, <2>2, AppendTwoEffect
    <3>2. /\ \A e \in Dbhs, n \in Trhs : e # d \/ n <= size[d] => slot'[e][n] = slot[e][n]
          /\ slot'[d][size[d] + 2] = StartedSlot(t) /\ size[d] + 2 > size[d]
      BY <3>1, BoundsAssumption DEF Trhs
    <3>3. /\ CellsNow[o].at = "none" /\ SlotsKept'
          /\ CellsNow' = [CellsNow EXCEPT ![o] = Cells!Cell("open", t)]
      BY <1>1, <2>2, <3>1, <3>2, BirthCells
    <3>4. Cells!Adopt(o, t)
      BY <1>3, <2>2, <3>3 DEF ReconnectTransaction, Cells!Adopt, CellsNow
    <3> QED
      BY <3>3, <3>4 DEF Maps, Cells!Next
  <2> QED
    BY <1>3, <2>1, <2>2 DEF ReconnectTransaction
<1> QED
  BY <1>2, <1>3

\* A slot that stays alive leaves every object with its slot.
LEMMA PutKeeps ==
  ASSUME CellInv, UNCHANGED <<db, obj>>, NEW o \in Objs, Reaches(o),
         NEW s \in SlotRec, s.st = "alive", PutSlot(o, s)
  PROVE  SlotsKept'
<1>1. \A e \in Dbhs, n \in Trhs :
        slot'[e][n] = IF e = obj[o].dbh /\ n = obj[o].trh THEN s ELSE slot[e][n]
  BY PutEffect DEF CellInv, IndInv
<1> SUFFICES ASSUME NEW p \in Objs, obj[p].st = "live", fbu_is_valid_dbh(obj[p].dbh)'
             PROVE  Reaches(p)'
  BY DEF SlotsKept
<1>2. Reaches(p) /\ obj[p].dbh \in Dbhs /\ obj[p].trh \in Trhs
  BY HandlesBelow DEF CellInv, SlotsKept, fbu_is_valid_dbh
<1> QED
  BY <1>1, <1>2 DEF Reaches, fbu_is_valid_trh, fbu_is_valid_dbh

\* What a method that gets through to the server finds in its cell.
LEMMA UsableCell ==
  ASSUME CellInv, NEW o \in Objs, Usable(o)
  PROVE  /\ Reaches(o) /\ Tra(o) \in Tids /\ Slot(o) \in SlotRec
         /\ Cells!Holds(o, Tra(o)) /\ srv[Tra(o)] \in Cells!Unresolved
<1>1. TypeOK
  BY DEF CellInv, IndInv
<1>2. Reaches(o) /\ Tra(o) \in Tids /\ Slot(o) \in SlotRec
  BY <1>1, ReachesType DEF Usable, Slot
<1>3. CellsNow[o] = Cells!Cell("open", Tra(o))
  BY <1>1, <1>2, OpenCell
<1> QED
  BY <1>2, <1>3 DEF Usable, Cells!Holds, CellsNow, Unresolved, Cells!Unresolved

\* start() begins in an idle cell.
LEMMA StartMaps ==
  ASSUME CellInv, NEW o \in Objs, NEW t \in Tids, Start(o, t)
  PROVE  Maps
<1>0. /\ TypeOK /\ IndInv /\ Reaches(o) /\ Tra(o) = 0 /\ Fresh(t)
  BY DEF CellInv, IndInv, Start
<1>1. PICK s \in SlotRec : PutSlot(o, s) /\ s.st = "alive" /\ s.tra = t
  BY <1>0, StartedAs
<1>2. /\ CellsNow' = [CellsNow EXCEPT ![o] = Cells!Cell("open", t)]
      /\ SlotsKept' /\ CellsNow[o] = Cells!Cell("open", 0)
  BY <1>0, <1>1, PutCells, PutKeeps, OpenCell DEF Start
<1>3. Cells!Begin(o, t)
  BY <1>0, <1>2 DEF Start, Fresh, Cells!Begin, Cells!Idle, CellsNow
<1> QED
  BY <1>2, <1>3 DEF Maps, Cells!Next

\* commit() and rollback(), retaining or not, also as SQL, change one cell.
LEMMA EndMaps ==
  ASSUME CellInv, NEW o \in Objs, Finalize(o) \/ ExecuteSql(o)
  PROVE  Maps
<1>0. IndInv
  BY DEF CellInv
<1>1. ASSUME NEW outcome \in {"committed", "rolledback"}, End(o, outcome) \/ EndSql(o, outcome)
      PROVE  Maps
  <2>1. Usable(o) /\ srv' = [srv EXCEPT ![Tra(o)] = outcome] /\ UNCHANGED <<db, obj>>
    BY <1>1 DEF End, EndSql
  <2>2. /\ Reaches(o) /\ Tra(o) \in Tids /\ Slot(o) \in SlotRec /\ Slot(o).st = "alive"
        /\ Cells!Holds(o, Tra(o)) /\ srv[Tra(o)] \in Cells!Unresolved
    BY <2>1, UsableCell DEF Reaches, fbu_is_valid_trh, Slot
  <2>3. PICK s \in SlotRec : PutSlot(o, s) /\ s.st = "alive" /\ s.tra = 0
    <3>1. NewSlot \in SlotRec /\ NewSlot.st = "alive" /\ NewSlot.tra = 0
      BY SlotTypes DEF NewSlot
    <3>2. /\ [Slot(o) EXCEPT !.tra = 0] \in SlotRec
          /\ [Slot(o) EXCEPT !.tra = 0].st = "alive" /\ [Slot(o) EXCEPT !.tra = 0].tra = 0
      BY <2>2, BoundsAssumption DEF SlotRec
    <3> QED
      BY <1>1, <3>1, <3>2 DEF End, EndSql, SetTra
  <2>4. CellsNow' = [CellsNow EXCEPT ![o] = Cells!Cell("open", 0)] /\ SlotsKept'
    BY <1>0, <2>1, <2>2, <2>3, PutCells, PutKeeps
  <2>5. Cells!End(o, Tra(o), outcome) /\ outcome \in Cells!Outcome
    BY <2>1, <2>2, <2>4 DEF Cells!End, Cells!Outcome, CellsNow
  <2> QED
    BY <2>2, <2>4, <2>5 DEF Maps, Cells!Next
<1>2. ASSUME NEW outcome \in {"committed", "rolledback"}, NEW u \in Tids,
             EndRetaining(o, outcome, u)
      PROVE  Maps
  <2>1. /\ Usable(o) /\ Fresh(u) /\ UNCHANGED <<db, obj>>
        /\ srv' = [srv EXCEPT ![Tra(o)] = outcome, ![u] = "active"]
    BY <1>2 DEF EndRetaining
  <2>2. /\ Reaches(o) /\ Tra(o) \in Tids /\ Slot(o) \in SlotRec /\ Slot(o).st = "alive"
        /\ Cells!Holds(o, Tra(o)) /\ srv[Tra(o)] \in Cells!Unresolved
    BY <2>1, UsableCell DEF Reaches, fbu_is_valid_trh, Slot
  <2>3. PICK s \in SlotRec : PutSlot(o, s) /\ s.st = "alive" /\ s.tra = u
    <3>1. /\ [Slot(o) EXCEPT !.tra = u] \in SlotRec
          /\ [Slot(o) EXCEPT !.tra = u].st = "alive" /\ [Slot(o) EXCEPT !.tra = u].tra = u
      BY <2>2, BoundsAssumption DEF SlotRec, Tids
    <3> QED
      BY <1>2, <3>1 DEF EndRetaining, SetTra
  <2>4. CellsNow' = [CellsNow EXCEPT ![o] = Cells!Cell("open", u)] /\ SlotsKept'
    BY <1>0, <2>1, <2>2, <2>3, PutCells, PutKeeps
  <2>5. Cells!Retain(o, Tra(o), outcome, u) /\ outcome \in Cells!Outcome
    BY <2>1, <2>2, <2>4 DEF Cells!Retain, Cells!Outcome, CellsNow, Fresh
  <2> QED
    BY <2>2, <2>4, <2>5 DEF Maps, Cells!Next
<1> QED
  BY <1>1, <1>2, StartMaps DEF Finalize, ExecuteSql

\* prepare_2pc() changes no cell.
LEMMA PrepareMaps ==
  ASSUME CellInv, NEW o \in Objs, Prepare2pc(o)
  PROVE  Maps
<1>1. /\ Cells!Holds(o, Tra(o)) /\ srv[Tra(o)] \in Cells!Unresolved /\ Tra(o) \in Tids
      /\ obj \in [Objs -> ObjRec] /\ SlotsKept
  BY UsableCell DEF Prepare2pc, CellInv, IndInv, TypeOK
<1>2. ASSUME NEW p \in Objs PROVE SameCell(p)
  BY <1>1 DEF Prepare2pc, SameCell, ObjRec, fbu_is_valid_dbh
<1>3. CellsNow' = CellsNow /\ SlotsKept'
  BY <1>1, <1>2, QuietMaps
<1>4. Cells!Prepare(o, Tra(o))
  BY <1>1, <1>3 DEF Prepare2pc, Cells!Prepare, CellsNow
<1> QED
  BY <1>1, <1>3, <1>4 DEF Maps, Cells!Next

\* The destructor of an object frees its cell.
LEMMA FreeMaps ==
  ASSUME CellInv, NEW o \in Objs, FreeTransaction(o)
  PROVE  Maps
<1>0. /\ TypeOK /\ IndInv /\ obj[o].st = "live" /\ obj \in [Objs -> ObjRec] /\ db' = db
      /\ obj'[o].st = "freed" /\ \A p \in Objs \ {o} : obj'[p] = obj[p]
  BY DEF CellInv, IndInv, TypeOK, FreeTransaction, ObjRec
<1>1. ASSUME NEW p \in Objs \ {o} PROVE SameCell(p)
  <2>1. CASE slot' = slot
    BY <1>0, <2>1 DEF SameCell, fbu_is_valid_dbh
  <2>2. CASE Reaches(o) /\ PutSlot(o, FreedSlot)
    <3> SUFFICES ASSUME obj[p].st = "live", fbu_is_valid_dbh(obj[p].dbh)
                 PROVE  slot'[obj[p].dbh][obj[p].trh] = slot[obj[p].dbh][obj[p].trh]
      BY <1>0 DEF SameCell, fbu_is_valid_dbh
    <3>1. Reaches(p) /\ obj[p].dbh \in Dbhs /\ obj[p].trh \in Trhs
      BY <1>0, HandlesBelow DEF CellInv, SlotsKept
    <3>2. ~(obj[p].dbh = obj[o].dbh /\ obj[p].trh = obj[o].trh)
      BY <1>0, <2>2, <3>1 DEF IndInv, HandlesExclusive
    <3> QED
      BY <1>0, <2>2, <3>1, <3>2, PutEffect, SlotTypes
  <2> QED
    BY <2>1, <2>2 DEF FreeTransaction
<1>2. \A p \in Objs \ {o} : cellOf(p)' = cellOf(p) /\ (Reaches(p)' <=> Reaches(p))
  BY <1>1, SameCellMeans
<1>3. cellOf(o)' = Cells!Cell("freed", 0)
  BY <1>0 DEF cellOf, Cells!Cell
<1>4. CellsNow' = [CellsNow EXCEPT ![o] = Cells!Cell("freed", 0)]
  BY <1>2, <1>3, CellsOne
<1>5. CellsNow[o].at \in {"open", "closed"}
  BY <1>0 DEF CellsNow, cellOf
<1>6. \/ srv' = srv
      \/ \E t \in Tids : /\ Cells!Holds(o, t) /\ srv[t] \in Cells!Unresolved
                         /\ srv' = [srv EXCEPT ![t] = "rolledback"]
  BY UsableCell DEF FreeTransaction
<1>7. Cells!Free(o)
  BY <1>4, <1>5, <1>6 DEF Cells!Free, CellsNow
<1>8. SlotsKept'
  BY <1>0, <1>1, <1>2 DEF SlotsKept, CellInv, SameCell
<1> QED
  BY <1>7, <1>8 DEF Maps, Cells!Next

\* Transaction objects are private cells: what one object does shows in its own
\* cell alone, and the end of an attachment in no cell outside it.
THEOREM CellsImplemented == Spec => ImplementsCells
<1>1. Init => Cells!Init /\ SlotsKept
  <2> SUFFICES ASSUME Init PROVE Cells!Init /\ SlotsKept
    OBVIOUS
  <2>1. \A o \in Objs : cellOf(o) = Cells!Cell("none", 0) /\ obj[o].st = "none"
    BY DEF Init, NoObj, cellOf, Cells!Cell
  <2> QED
    BY <2>1 DEF Init, Cells!Init, SlotsKept
<1>2. ASSUME CellInv, [Next]_vars PROVE Maps
  <2>0. SlotsKept
    BY <1>2 DEF CellInv
  <2>1. ASSUME NEW d \in Dbhs,
               \/ Connect(d) \/ Disconnect(d) \/ Drop(d)
               \/ FreeDatabase(d) \/ LoseConnection(d)
        PROVE  Maps
    BY <1>2, <2>1, DatabaseMaps, AttachMaps
  <2>2. ASSUME NEW d \in Dbhs, NEW o \in Objs, NewTransaction(d, o) PROVE Maps
    BY <1>2, <2>2, NewMaps
  <2>3. ASSUME NEW d \in Dbhs, NEW o \in Objs, NEW t \in Tids,
               StartTransaction(d, o, t) \/ ReconnectTransaction(d, o, t)
        PROVE  Maps
    BY <1>2, <2>3, BirthMaps
  <2>4. ASSUME NEW o \in Objs, NEW t \in Tids, Start(o, t) PROVE Maps
    BY <1>2, <2>4, StartMaps
  <2>5. ASSUME NEW o \in Objs,
               FreeTransaction(o) \/ Finalize(o) \/ ExecuteSql(o) \/ Prepare2pc(o)
        PROVE  Maps
    BY <1>2, <2>5, FreeMaps, EndMaps, PrepareMaps
  <2>6. ASSUME NEW t \in Tids, ResolveElsewhere(t) PROVE Maps
    BY <1>2, <2>6, ElsewhereMaps
  <2>7. CASE Shutdown \/ Crash
    BY <1>2, <2>7, ResetMaps
  <2>8. CASE UNCHANGED vars
    <3>1. \A o \in Objs : SameCell(o)
      BY <2>8 DEF vars, SameCell, fbu_is_valid_dbh
    <3> QED
      BY <2>0, <2>8, <3>1, QuietMaps DEF vars, Maps
  <2> QED
    BY <1>2, <2>1, <2>2, <2>3, <2>4, <2>5, <2>6, <2>7, <2>8 DEF Next, PrepareNull
<1>3. IndInv /\ SlotsKept /\ [Next]_vars => SlotsKept'
  BY <1>2 DEF CellInv, Maps
<1>4. IndInv /\ SlotsKept /\ [Next]_vars => [Cells!Next]_(<<[o \in Objs |-> cellOf(o)], srv>>)
  BY <1>2 DEF CellInv, Maps, CellsNow
<1> QED
  BY <1>1, <1>3, <1>4, Invariance, PTL DEF Spec, ImplementsCells, Cells!Spec, Cells!vars
=============================================================================
