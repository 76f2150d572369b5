------------------------------ MODULE ApiMutex ------------------------------
(***************************************************************************)
(* What the services ask of the shared AvN API client: from the moment an  *)
(* operation is given the client until its background confirmation is      *)
(* over, no other operation, in this process or another, is given it.      *)
(***************************************************************************)
CONSTANT Ops          \* operations that need the client

VARIABLE users        \* the operations the client is given to

TypeOK == users \subseteq Ops

Init == users = {}

Enter(o) == users = {} /\ users' = {o}

\* The operation is over, or the process that ran it has died.
Leave == users # {} /\ users' = {}

Next == Leave \/ \E o \in Ops : Enter(o)

Spec == Init /\ [][Next]_users
=============================================================================
