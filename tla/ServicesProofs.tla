--------------------------- MODULE ServicesProofs ---------------------------
(***************************************************************************)
(* Services: its invariants, its refinement of Sessions and what may       *)
(* happen to an account.                                                   *)
(*                                                                         *)
(* The three invariants are inductive together.  An action either leaves   *)
(* sv and svh alone (Elsewhere), appends an entry, or changes one entry or *)
(* one handle; only the last two have something to prove.                  *)
(***************************************************************************)
EXTENDS Services, TLAPS

IInv == TypeOK /\ HandlesPrivate /\ SessionsOwned

Table == {"attached", "lost", "reset"}

\* An entry that is overwritten leaves a table of the same length.
LEMMA Overwrite ==
  ASSUME NEW q \in Seq(Table), NEW i \in DOMAIN q, NEW e \in Table
  PROVE  /\ [q EXCEPT ![i] = e] \in Seq(Table)
         /\ Len([q EXCEPT ![i] = e]) = Len(q)
         /\ DOMAIN [q EXCEPT ![i] = e] = DOMAIN q
         /\ \A k \in DOMAIN q : [q EXCEPT ![i] = e][k] = IF k = i THEN e ELSE q[k]
  OBVIOUS

\* What Append does, entry by entry.
LEMMA Appended ==
  ASSUME NEW q \in Seq(Table), NEW e \in Table
  PROVE  /\ Append(q, e) \in Seq(Table)
         /\ Len(Append(q, e)) = Len(q) + 1
         /\ DOMAIN Append(q, e) = 1..Len(q) + 1
         /\ DOMAIN q = 1..Len(q)
         /\ \A k \in DOMAIN q : Append(q, e)[k] = q[k]
         /\ Append(q, e)[Len(q) + 1] = e
  OBVIOUS

\* The account after a block was applied is an account.
LEMMA AppliedTyped ==
  ASSUME TypeOK, NEW a \in Account
  PROVE  Applied(a) \in Account
  BY DEF TypeOK, UserInfo, Account, Applied, Text, Sent

\* The actions that touch neither the table nor a handle.
Elsewhere ==
  \/ NewInfo
  \/ \E n \in Names : SetName(n)
  \/ \E c \in Columns, v \in Texts : SetColumn(c, v)
  \/ \E s \in Svcs, n \in Names : GetUser(s, n) \/ DeleteUser(s, n)
  \/ \E s \in Svcs : AddUser(s) \/ ModifyUser(s)

LEMMA ElsewhereTyped ==
  ASSUME TypeOK, Elsewhere
  PROVE  TypeOK' /\ UNCHANGED <<sv, svh>>
<1>1. CASE NewInfo
  BY <1>1 DEF NewInfo, TypeOK, Blank, UserInfo
<1>2. CASE \E n \in Names : SetName(n)
  BY <1>2 DEF SetName, TypeOK, UserInfo
<1>3. CASE \E c \in Columns, v \in Texts : SetColumn(c, v)
  BY <1>3 DEF SetColumn, TypeOK, UserInfo
<1>4. ASSUME NEW s \in Svcs, NEW n \in Names, GetUser(s, n)
      PROVE  TypeOK' /\ UNCHANGED <<sv, svh>>
  <2>1. users[n] \in Account
    BY <1>4 DEF GetUser, TypeOK
  <2>2. Received(users[n]) \in UserInfo
    BY <2>1 DEF Received, Account, UserInfo
  <2> QED
    BY <1>4, <2>2 DEF GetUser, TypeOK
<1>5. ASSUME NEW s \in Svcs, NEW n \in Names, DeleteUser(s, n)
      PROVE  TypeOK' /\ UNCHANGED <<sv, svh>>
  BY <1>5 DEF DeleteUser, TypeOK
<1>6. ASSUME NEW s \in Svcs, AddUser(s)
      PROVE  TypeOK' /\ UNCHANGED <<sv, svh>>
  <2>1. Applied([c \in Columns |-> Default]) \in Account
    BY AppliedTyped DEF Account
  <2>2. info.username \in Names
    BY <1>6 DEF AddUser, TypeOK
  <2> QED
    BY <1>6, <2>1, <2>2 DEF AddUser, TypeOK
<1>7. ASSUME NEW s \in Svcs, ModifyUser(s)
      PROVE  TypeOK' /\ UNCHANGED <<sv, svh>>
  <2>1. info.username \in Names /\ users[info.username] \in Account
    BY <1>7 DEF ModifyUser, TypeOK
  <2>2. Applied(users[info.username]) \in Account
    BY <2>1, AppliedTyped
  <2> QED
    BY <1>7, <2>1, <2>2 DEF ModifyUser, TypeOK
<1> QED
  BY <1>1, <1>2, <1>3, <1>4, <1>5, <1>6, <1>7 DEF Elsewhere

\* Next, split the way the proofs below need it.
LEMMA Split ==
  ASSUME Next
  PROVE  \/ \E s \in Svcs : Connect(s) \/ ConnectFails(s) \/ Disconnect(s) \/ Free(s)
         \/ Shutdown \/ LoseConnection \/ Elsewhere
  BY DEF Next, Elsewhere

-----------------------------------------------------------------------------

LEMMA Start ==
  Init => IInv
<1> SUFFICES ASSUME Init PROVE IInv
  OBVIOUS
<1>1. TypeOK
  BY ServicesAssumption DEF Init, TypeOK, Blank, UserInfo
<1>2. HandlesPrivate /\ SessionsOwned
  BY DEF Init, HandlesPrivate, SessionsOwned
<1> QED
  BY <1>1, <1>2 DEF IInv

LEMMA Step ==
  IInv /\ [Next]_vars => IInv'
<1> SUFFICES ASSUME IInv, [Next]_vars PROVE IInv'
  OBVIOUS
<1> USE ServicesAssumption
<1>0. /\ TypeOK /\ HandlesPrivate /\ SessionsOwned
      /\ sv \in Seq(Table) /\ Len(sv) \in Nat /\ DOMAIN sv = 1..Len(sv)
      /\ svh \in [Svcs -> {NoObject} \union 1..Len(sv)]
  BY DEF IInv, TypeOK, Table
<1>1. ASSUME NEW s \in Svcs, Connect(s) PROVE IInv'
  <2>1. sv' = Append(sv, "attached") /\ svh' = [svh EXCEPT ![s] = Len(sv) + 1]
    BY <1>1 DEF Connect
  <2>2. /\ sv' \in Seq(Table) /\ Len(sv') = Len(sv) + 1 /\ DOMAIN sv' = 1..Len(sv) + 1
        /\ \A k \in DOMAIN sv : sv'[k] = sv[k]
    BY <1>0, <2>1, Appended DEF Table
  <2>3. TypeOK'
    BY <1>0, <1>1, <2>1, <2>2 DEF Connect, TypeOK, Table, NoObject
  <2>4. HandlesPrivate'
    BY <1>0, <2>1 DEF HandlesPrivate, NoObject
  <2>5. SessionsOwned'
    <3> SUFFICES ASSUME NEW h \in DOMAIN sv', Valid(h)' PROVE \E t \in Svcs : svh'[t] = h
      BY DEF SessionsOwned
    <3>1. CASE h = Len(sv) + 1
      BY <1>0, <2>1, <3>1
    <3>2. CASE h \in DOMAIN sv
      <4>1. PICK t \in Svcs : svh[t] = h
        BY <1>0, <2>2, <3>2 DEF SessionsOwned, Valid
      <4>2. t # s
        BY <1>0, <1>1, <3>2, <4>1 DEF Connect, NoObject
      <4> QED
        BY <1>0, <2>1, <4>1, <4>2
    <3> QED
      BY <1>0, <2>2, <3>1, <3>2
  <2> QED
    BY <2>3, <2>4, <2>5 DEF IInv
<1>2. ASSUME NEW s \in Svcs, ConnectFails(s) PROVE IInv'
  <2>1. sv' = Append(sv, "reset") /\ svh' = svh
    BY <1>2 DEF ConnectFails
  <2>2. /\ sv' \in Seq(Table) /\ Len(sv') = Len(sv) + 1 /\ DOMAIN sv' = 1..Len(sv) + 1
        /\ \A k \in DOMAIN sv : sv'[k] = sv[k]
        /\ sv'[Len(sv) + 1] = "reset"
    BY <1>0, <2>1, Appended DEF Table
  <2>3. TypeOK'
    BY <1>0, <1>2, <2>1, <2>2 DEF ConnectFails, TypeOK, Table, NoObject
  <2>4. HandlesPrivate' /\ SessionsOwned'
    BY <1>0, <2>1, <2>2 DEF HandlesPrivate, SessionsOwned, Valid
  <2> QED
    BY <2>3, <2>4 DEF IInv
<1>3. ASSUME NEW s \in Svcs, Disconnect(s) PROVE IInv'
  <2>1. sv' = [sv EXCEPT ![svh[s]] = "reset"] /\ svh' = svh /\ svh[s] \in DOMAIN sv
    BY <1>3 DEF Disconnect, Valid
  <2>2. /\ sv' \in Seq(Table) /\ Len(sv') = Len(sv) /\ DOMAIN sv' = DOMAIN sv
        /\ \A k \in DOMAIN sv : sv'[k] = IF k = svh[s] THEN "reset" ELSE sv[k]
    BY <1>0, <2>1, Overwrite DEF Table
  <2>3. TypeOK'
    BY <1>0, <1>3, <2>1, <2>2 DEF Disconnect, TypeOK, Table
  <2>4. HandlesPrivate' /\ SessionsOwned'
    BY <1>0, <2>1, <2>2 DEF HandlesPrivate, SessionsOwned, Valid
  <2> QED
    BY <2>3, <2>4 DEF IInv
<1>4. ASSUME NEW s \in Svcs, Free(s) PROVE IInv'
  <2>1. svh' = [svh EXCEPT ![s] = NoObject]
    BY <1>4 DEF Free
  <2>2. /\ sv' \in Seq(Table) /\ Len(sv') = Len(sv) /\ DOMAIN sv' = DOMAIN sv
        /\ \A k \in DOMAIN sv : sv'[k] = IF k = svh[s] THEN "reset" ELSE sv[k]
    <3>1. CASE Valid(svh[s])
      <4>1. sv' = [sv EXCEPT ![svh[s]] = "reset"] /\ svh[s] \in DOMAIN sv
        BY <1>4, <3>1 DEF Free, Valid
      <4> QED
        BY <1>0, <4>1, Overwrite DEF Table
    <3>2. CASE ~Valid(svh[s])
      BY <1>0, <1>4, <3>2 DEF Free, Valid
    <3> QED
      BY <3>1, <3>2
  <2>3. TypeOK'
    BY <1>0, <1>4, <2>1, <2>2 DEF Free, TypeOK, Table
  <2>4. HandlesPrivate'
    BY <1>0, <2>1 DEF HandlesPrivate
  <2>5. SessionsOwned'
    BY <1>0, <2>1, <2>2 DEF SessionsOwned, Valid
  <2> QED
    BY <2>3, <2>4, <2>5 DEF IInv
<1>5. CASE Shutdown
  <2>1. TypeOK'
    BY <1>0, <1>5 DEF Shutdown, TypeOK, Blank, UserInfo
  <2> QED
    BY <1>5, <2>1 DEF Shutdown, IInv, HandlesPrivate, SessionsOwned
<1>6. CASE LoseConnection
  <2>1. PICK h \in DOMAIN sv : sv[h] = "attached" /\ sv' = [sv EXCEPT ![h] = "lost"]
    BY <1>6 DEF LoseConnection
  <2>2. /\ sv' \in Seq(Table) /\ Len(sv') = Len(sv) /\ DOMAIN sv' = DOMAIN sv
        /\ \A k \in DOMAIN sv : sv'[k] = IF k = h THEN "lost" ELSE sv[k]
    BY <1>0, <2>1, Overwrite DEF Table
  <2>3. TypeOK'
    BY <1>0, <1>6, <2>2 DEF LoseConnection, TypeOK, Table
  <2>4. HandlesPrivate' /\ SessionsOwned'
    BY <1>0, <1>6, <2>1, <2>2 DEF LoseConnection, HandlesPrivate, SessionsOwned, Valid
  <2> QED
    BY <2>3, <2>4 DEF IInv
<1>7. CASE Elsewhere
  BY <1>0, <1>7, ElsewhereTyped DEF IInv, HandlesPrivate, SessionsOwned, Valid
<1>8. CASE UNCHANGED vars
  BY <1>0, <1>8 DEF vars, IInv, TypeOK, HandlesPrivate, SessionsOwned, Valid
<1> QED
  BY <1>1, <1>2, <1>3, <1>4, <1>5, <1>6, <1>7, <1>8, Split

\* Every state the module can reach satisfies its invariants.
LEMMA Inductive ==
  Spec => []IInv
<1>1. Init => IInv
  BY Start
<1>2. IInv /\ [Next]_vars => IInv'
  BY Step
<1> QED
  BY <1>1, <1>2, PTL DEF Spec

\* The table and the handles have their types for any number of objects.
THEOREM Typed == Spec => []TypeOK
<1>1. IInv => TypeOK
  BY DEF IInv
<1> QED
  BY <1>1, Inductive, PTL

\* No two objects share a handle, connected or not (service.cpp:70).
THEOREM Alone == Spec => []HandlesPrivate
<1>1. IInv => HandlesPrivate
  BY DEF IInv
<1> QED
  BY <1>1, Inductive, PTL

\* An open session always has the object that can close it.
THEOREM Owned == Spec => []SessionsOwned
<1>1. IInv => SessionsOwned
  BY DEF IInv
<1> QED
  BY <1>1, Inductive, PTL

-----------------------------------------------------------------------------
(* The refinement.  The mapping of Private, under a name the proof can use. *)

Mapped == [s \in Svcs |-> IF svh[s] = NoObject THEN "none"
                          ELSE IF Valid(svh[s]) THEN "open" ELSE "closed"]

\* A step that leaves every object in its state is a stutter.
LEMMA SameMapped ==
  ASSUME \A s \in Svcs : svh'[s] = svh[s] /\ (svh[s] # NoObject => Valid(svh[s])' = Valid(svh[s]))
  PROVE  UNCHANGED Mapped
  BY DEF Mapped

\* A step that changes the state of one object changes that of no other.
LEMMA OneMapped ==
  ASSUME NEW s \in Svcs, NEW m,
         \A t \in Svcs \ {s} : svh'[t] = svh[t] /\ (svh[t] # NoObject => Valid(svh[t])' = Valid(svh[t])),
         Mapped'[s] = m
  PROVE  Mapped' = [Mapped EXCEPT ![s] = m]
  BY DEF Mapped

LEMMA StepMapped ==
  ASSUME IInv, Next
  PROVE  UNCHANGED Mapped \/
         \/ \E s \in Svcs : \/ Mapped[s] = "none" /\ Mapped' = [Mapped EXCEPT ![s] = "open"]
                            \/ Mapped[s] = "open" /\ Mapped' = [Mapped EXCEPT ![s] = "closed"]
                            \/ Mapped[s] # "none" /\ Mapped' = [Mapped EXCEPT ![s] = "none"]
         \/ Mapped' = [s \in Svcs |-> "none"]
<1>0. /\ TypeOK /\ HandlesPrivate
      /\ sv \in Seq(Table) /\ Len(sv) \in Nat /\ DOMAIN sv = 1..Len(sv)
      /\ svh \in [Svcs -> {NoObject} \union 1..Len(sv)]
  BY DEF IInv, TypeOK, Table
<1>1. ASSUME NEW s \in Svcs, Connect(s)
      PROVE  Mapped[s] = "none" /\ Mapped' = [Mapped EXCEPT ![s] = "open"]
  <2>1. /\ svh[s] = NoObject /\ svh' = [svh EXCEPT ![s] = Len(sv) + 1]
        /\ sv' = Append(sv, "attached")
    BY <1>1 DEF Connect
  <2>2. /\ DOMAIN sv' = 1..Len(sv) + 1 /\ sv'[Len(sv) + 1] = "attached"
        /\ \A k \in DOMAIN sv : sv'[k] = sv[k]
    BY <1>0, <2>1, Appended DEF Table
  <2>3. \A t \in Svcs \ {s} : svh'[t] = svh[t] /\ (svh[t] # NoObject => Valid(svh[t])' = Valid(svh[t]))
    BY <1>0, <2>1, <2>2 DEF Valid
  <2>4. svh'[s] = Len(sv) + 1 /\ Valid(svh[s])'
    BY <1>0, <2>1, <2>2 DEF Valid
  <2>5. Mapped'[s] = "open" /\ Mapped[s] = "none"
    BY <1>0, <2>1, <2>4 DEF Mapped, NoObject
  <2> QED
    BY <2>3, <2>5, OneMapped
<1>2. ASSUME NEW s \in Svcs, ConnectFails(s)
      PROVE  UNCHANGED Mapped
  <2>1. svh' = svh /\ sv' = Append(sv, "reset")
    BY <1>2 DEF ConnectFails
  <2>2. DOMAIN sv' = 1..Len(sv) + 1 /\ \A k \in DOMAIN sv : sv'[k] = sv[k]
    BY <1>0, <2>1, Appended DEF Table
  <2> QED
    BY <1>0, <2>1, <2>2, SameMapped DEF Valid
<1>3. ASSUME NEW s \in Svcs, Disconnect(s)
      PROVE  Mapped[s] = "open" /\ Mapped' = [Mapped EXCEPT ![s] = "closed"]
  <2>1. /\ svh[s] # NoObject /\ Valid(svh[s]) /\ svh[s] \in DOMAIN sv
        /\ svh' = svh /\ sv' = [sv EXCEPT ![svh[s]] = "reset"]
    BY <1>3 DEF Disconnect, Valid
  <2>2. DOMAIN sv' = DOMAIN sv /\ \A k \in DOMAIN sv : sv'[k] = IF k = svh[s] THEN "reset" ELSE sv[k]
    BY <1>0, <2>1, Overwrite DEF Table
  <2>3. \A t \in Svcs \ {s} : svh'[t] = svh[t] /\ (svh[t] # NoObject => Valid(svh[t])' = Valid(svh[t]))
    BY <1>0, <2>1, <2>2 DEF Valid, HandlesPrivate
  <2>4. Mapped'[s] = "closed" /\ Mapped[s] = "open"
    BY <1>0, <2>1, <2>2 DEF Mapped, Valid
  <2> QED
    BY <2>3, <2>4, OneMapped
<1>4. ASSUME NEW s \in Svcs, Free(s)
      PROVE  Mapped[s] # "none" /\ Mapped' = [Mapped EXCEPT ![s] = "none"]
  <2>1. svh[s] # NoObject /\ svh' = [svh EXCEPT ![s] = NoObject]
    BY <1>4 DEF Free
  <2>2. DOMAIN sv' = DOMAIN sv /\ \A k \in DOMAIN sv : k # svh[s] => sv'[k] = sv[k]
    BY <1>0, <1>4, Overwrite DEF Free, Table, Valid
  <2>3. \A t \in Svcs \ {s} : svh'[t] = svh[t] /\ (svh[t] # NoObject => Valid(svh[t])' = Valid(svh[t]))
    BY <1>0, <2>1, <2>2 DEF Valid, HandlesPrivate
  <2>4. Mapped'[s] = "none" /\ Mapped[s] # "none"
    BY <1>0, <2>1 DEF Mapped
  <2> QED
    BY <2>3, <2>4, OneMapped
<1>5. CASE Shutdown
  <2>1. svh' = [s \in Svcs |-> NoObject]
    BY <1>5 DEF Shutdown
  <2> QED
    BY <2>1 DEF Mapped
<1>6. CASE LoseConnection
  <2>1. PICK h \in DOMAIN sv : sv[h] = "attached" /\ sv' = [sv EXCEPT ![h] = "lost"] /\ svh' = svh
    BY <1>6 DEF LoseConnection
  <2>2. DOMAIN sv' = DOMAIN sv /\ \A k \in DOMAIN sv : sv'[k] = IF k = h THEN "lost" ELSE sv[k]
    BY <1>0, <2>1, Overwrite DEF Table
  <2> QED
    BY <1>0, <2>1, <2>2, SameMapped DEF Valid
<1>7. CASE Elsewhere
  BY <1>0, <1>7, ElsewhereTyped, SameMapped DEF Valid
<1> QED
  BY <1>1, <1>2, <1>3, <1>4, <1>5, <1>6, <1>7, Split

\* Each object's session is opened once, closed at most once and touched by no
\* other object: Services implements Sessions.
THEOREM Refinement == Spec => ImplementsSessions
<1>1. Init => Private!Init
  BY DEF Init, Private!Init
<1>2. IInv /\ [Next]_vars => [Private!Next]_Mapped
  <2> SUFFICES ASSUME IInv, [Next]_vars PROVE [Private!Next]_Mapped
    OBVIOUS
  <2>1. CASE Next
    BY <2>1, StepMapped DEF Private!Next, Private!Open, Private!Close, Private!Drop,
       Private!DropAll, Mapped
  <2>2. CASE UNCHANGED vars
    BY <2>2, SameMapped DEF vars, Valid
  <2> QED
    BY <2>1, <2>2
<1> QED
  BY <1>1, <1>2, Inductive, PTL DEF Spec, ImplementsSessions, Private!Spec, Mapped

\* No step of any session changes what the User_Info object at hand does not say.
THEOREM SaidOnly == Spec => OnlyWhatWasSaid
<1> DEFINE Said ==
      \A n \in Names, c \in Columns :
        users[n] # Absent /\ users'[n] # Absent /\ users'[n][c] # users[n][c] =>
          info.username = n /\ info.at[c] = users'[n][c]
<1>1. IInv /\ [Next]_vars => [Said]_vars
  <2> SUFFICES ASSUME TypeOK, Next PROVE Said
    BY DEF IInv
  <2>1. ASSUME NEW s \in Svcs, AddUser(s) PROVE Said
    BY <2>1 DEF AddUser, TypeOK
  <2>2. ASSUME NEW s \in Svcs, ModifyUser(s) PROVE Said
    <3>1. info.username \in Names
      BY <2>2 DEF ModifyUser, TypeOK
    <3>2. users' = [users EXCEPT ![info.username] = Applied(users[info.username])]
      BY <2>2 DEF ModifyUser
    <3>3. \A c \in Columns : Applied(users[info.username])[c] # users[info.username][c] =>
            info.at[c] = Applied(users[info.username])[c]
      BY DEF Applied, Text, Sent
    <3> QED
      BY <3>1, <3>2, <3>3 DEF TypeOK
  <2>3. ASSUME NEW s \in Svcs, NEW n \in Names, DeleteUser(s, n) PROVE Said
    BY <2>3 DEF DeleteUser, TypeOK
  <2>4. CASE UNCHANGED users
    BY <2>4
  <2> QED
    BY <2>1, <2>2, <2>3, <2>4 DEF Next, Connect, ConnectFails, Disconnect, Free, Shutdown,
       LoseConnection, NewInfo, SetName, SetColumn, GetUser
<1> QED
  BY <1>1, Inductive, PTL DEF Spec, OnlyWhatWasSaid

=============================================================================
