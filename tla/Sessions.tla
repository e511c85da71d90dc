------------------------------ MODULE Sessions ------------------------------
(***************************************************************************)
(* What Services promises: every Service object has a session of its own.  *)
(* It is opened once, closed at most once and never reopened, and nothing  *)
(* that is done to one object touches the session of another.              *)
(***************************************************************************)
CONSTANT Svcs
VARIABLE session  \* "none" (no object), "open" or "closed", for each object

Init == session = [s \in Svcs |-> "none"]

Open(s) == session[s] = "none" /\ session' = [session EXCEPT ![s] = "open"]
Close(s) == session[s] = "open" /\ session' = [session EXCEPT ![s] = "closed"]
Drop(s) == session[s] # "none" /\ session' = [session EXCEPT ![s] = "none"]

\* The request ends: all sessions at once.
DropAll == session' = [s \in Svcs |-> "none"]

Next == DropAll \/ \E s \in Svcs : Open(s) \/ Close(s) \/ Drop(s)

Spec == Init /\ [][Next]_session

=============================================================================
