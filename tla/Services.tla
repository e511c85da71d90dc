------------------------------ MODULE Services ------------------------------
(***************************************************************************)
(* Service objects, the table sv_list their handles lead into, the         *)
(* sessions with the service manager that its entries hold, and the user   *)
(* accounts that are maintained through them.  The calls that only read    *)
(* server information are in Responses.                                    *)
(***************************************************************************)
EXTENDS Integers, Sequences

CONSTANTS
  Svcs,    \* PHP objects that may exist at a time
  Names,   \* user names
  Texts,   \* values of a text property
  Absent,  \* no such user
  Unset,   \* a typed property of User_Info that was never written
  MaxSv    \* bound: entries of sv_list in one request

\* The server's own value of a column that add_user does not send.
CONSTANT Default

ASSUME ServicesAssumption ==
  MaxSv \in Nat /\ Absent \notin [{"password", "firstname"} -> Texts \union {Default}]

VARIABLES
  sv,     \* sv_list: "attached", "lost" (the connection is gone) or "reset"
  svh,    \* the handle of each object; NoObject if there is none
  users,  \* the server's accounts
  info    \* the User_Info object of the script

vars == <<sv, svh, users, info>>

NoObject == -1

\* The column the server never sends back, and one that stands for middlename,
\* lastname and admin too: they go the same way (admin is sent as 0 or 1).
Columns == {"password", "firstname"}
Account == [Columns -> Texts \union {Default}]
UserInfo == [Columns -> Texts \union {Default, Unset}]

Valid(h) == h \in DOMAIN sv /\ sv[h] # "reset"

TypeOK ==
  /\ sv \in Seq({"attached", "lost", "reset"}) /\ Len(sv) <= MaxSv
  /\ svh \in [Svcs -> {NoObject} \union 1..Len(sv)]
  /\ users \in [Names -> Account \union {Absent}]
  /\ info \in [username : Names \union {Unset}, at : UserInfo]

Blank == [username |-> Unset, at |-> [c \in Columns |-> Unset]]

Init == /\ sv = << >> /\ svh = [s \in Svcs |-> NoObject]
        /\ users = [n \in Names |-> Absent]
        /\ info = Blank

-----------------------------------------------------------------------------
(* Sessions.                                                               *)

\* Mutant: an entry that was reset is used again.
ConnectReuses(s) ==
  /\ svh[s] = NoObject /\ Len(sv) < MaxSv
  /\ LET free == {h \in DOMAIN sv : sv[h] = "reset"} IN
     IF free = {}
     THEN sv' = Append(sv, "attached") /\ svh' = [svh EXCEPT ![s] = Len(sv) + 1]
     ELSE \E h \in free :
            sv' = [sv EXCEPT ![h] = "attached"] /\ svh' = [svh EXCEPT ![s] = h]
  /\ UNCHANGED <<users, info>>

\* connect: an entry is appended, then the session is opened.
Connect(s) ==
  /\ svh[s] = NoObject /\ Len(sv) < MaxSv
  /\ sv' = Append(sv, "attached")
  /\ svh' = [svh EXCEPT ![s] = Len(sv) + 1]
  /\ UNCHANGED <<users, info>>

\* The service manager refuses: the exception frees the object, and that resets
\* its entry.
ConnectFails(s) ==
  /\ svh[s] = NoObject /\ Len(sv) < MaxSv
  /\ sv' = Append(sv, "reset")
  /\ UNCHANGED <<svh, users, info>>

\* disconnect: the object keeps its handle.  Nothing changes when the detach
\* fails on a connection that is gone, or the handle is no longer valid.
Disconnect(s) ==
  /\ svh[s] # NoObject /\ Valid(svh[s])
  /\ sv' = [sv EXCEPT ![svh[s]] = "reset"]
  /\ UNCHANGED <<svh, users, info>>

\* Mutant: the object goes, its entry stays.
FreeForgets(s) ==
  /\ svh[s] # NoObject
  /\ svh' = [svh EXCEPT ![s] = NoObject]
  /\ UNCHANGED <<sv, users, info>>

\* free_obj: the destructor of the entry detaches and swallows what fails.
Free(s) ==
  /\ svh[s] # NoObject
  /\ svh' = [svh EXCEPT ![s] = NoObject]
  /\ sv' = IF Valid(svh[s]) THEN [sv EXCEPT ![svh[s]] = "reset"] ELSE sv
  /\ UNCHANGED <<users, info>>

\* RSHUTDOWN clears the list, then PHP frees the objects, whose handles are
\* beyond its size.  The accounts stay.
Shutdown == /\ sv' = << >> /\ svh' = [s \in Svcs |-> NoObject]
            /\ info' = Blank
            /\ UNCHANGED users

\* The connection of a session is lost.
LoseConnection ==
  \E h \in DOMAIN sv :
    /\ sv[h] = "attached" /\ sv' = [sv EXCEPT ![h] = "lost"]
    /\ UNCHANGED <<svh, users, info>>

-----------------------------------------------------------------------------
(* Accounts.  A refused call throws and changes nothing.                   *)

Serves(s) == svh[s] # NoObject /\ Valid(svh[s]) /\ sv[svh[s]] = "attached"

\* The script takes a new User_Info or writes a property of the one it has.
NewInfo == info' = Blank /\ UNCHANGED <<sv, svh, users>>
SetName(n) == info' = [info EXCEPT !.username = n] /\ UNCHANGED <<sv, svh, users>>
SetColumn(c, v) == info' = [info EXCEPT !.at[c] = v] /\ UNCHANGED <<sv, svh, users>>

\* get_users: one of the objects it returns.  The server never sends a password,
\* so the property stays uninitialised.
Received(a) == [c \in Columns |-> IF c = "password" THEN Unset ELSE a[c]]
GetUser(s, n) ==
  /\ Serves(s) /\ users[n] # Absent
  /\ info' = [username |-> n, at |-> Received(users[n])]
  /\ UNCHANGED <<sv, svh, users>>

\* Mutant: an uninitialised property is sent as the empty value.
SendsAll(c) == TRUE

\* fbu_xpb_insert_object: what it puts into the parameter block.
Sent(c) == info.at[c] # Unset

\* The account after the block was applied to a.  An uninitialised property, if
\* it were sent, would have no text to send.
Text(c) == IF info.at[c] = Unset THEN Default ELSE info.at[c]
Applied(a) == [c \in Columns |-> IF Sent(c) THEN Text(c) ELSE a[c]]

\* add_user: the server refuses a block without a name and a name in use.
AddUser(s) ==
  /\ Serves(s) /\ info.username # Unset
  /\ users[info.username] = Absent
  /\ users' = [users EXCEPT ![info.username] = Applied([c \in Columns |-> Default])]
  /\ UNCHANGED <<sv, svh, info>>

\* modify_user: the same block under another action.
ModifyUser(s) ==
  /\ Serves(s) /\ info.username # Unset
  /\ users[info.username] # Absent
  /\ users' = [users EXCEPT ![info.username] = Applied(@)]
  /\ UNCHANGED <<sv, svh, info>>

DeleteUser(s, n) ==
  /\ Serves(s) /\ users[n] # Absent
  /\ users' = [users EXCEPT ![n] = Absent]
  /\ UNCHANGED <<sv, svh, info>>

Next ==
  \/ \E s \in Svcs : Connect(s) \/ ConnectFails(s) \/ Disconnect(s) \/ Free(s)
  \/ Shutdown \/ LoseConnection \/ NewInfo
  \/ \E n \in Names : SetName(n)
  \/ \E c \in Columns, v \in Texts : SetColumn(c, v)
  \/ \E s \in Svcs, n \in Names : GetUser(s, n) \/ DeleteUser(s, n)
  \/ \E s \in Svcs : AddUser(s) \/ ModifyUser(s)

Spec == Init /\ [][Next]_vars

-----------------------------------------------------------------------------
(* Properties.                                                             *)

\* Two objects never have the same handle, also when one of them was
\* disconnected and still has its own (service.cpp:70 does not clear it).
HandlesPrivate ==
  \A s, t \in Svcs : svh[s] = svh[t] => s = t \/ svh[s] = NoObject

\* An open session belongs to an object that can close it, so none is left when
\* a script that is still running has let go of its objects.
SessionsOwned ==
  \A h \in DOMAIN sv : Valid(h) => \E s \in Svcs : svh[s] = h

\* Each object has a session of its own (Sessions): the stale handle of a
\* disconnected object never reaches a session that another one opened.
Private == INSTANCE Sessions WITH session <-
  [s \in Svcs |-> IF svh[s] = NoObject THEN "none"
                  ELSE IF Valid(svh[s]) THEN "open" ELSE "closed"]
ImplementsSessions == Private!Spec

\* An account changes in what the script's object says and in nothing else.  In
\* particular modify_user with an object that get_users returned keeps the
\* password, which that object does not have.
OnlyWhatWasSaid ==
  [][\A n \in Names, c \in Columns :
       users[n] # Absent /\ users'[n] # Absent /\ users'[n][c] # users[n][c] =>
         info.username = n /\ info.at[c] = users'[n][c]]_vars

=============================================================================
