-------------------------- MODULE AuctionLifecycle --------------------------
(***************************************************************************)
(* What a seller may rely on about the status of an auction: it goes on    *)
(* sale once, it is taken off sale by closing it, a closing may fail or be *)
(* refused, and a withdrawn auction stays withdrawn.  The promise may end, *)
(* for good; from then on anything may happen.                             *)
(***************************************************************************)
CONSTANT Auctions

VARIABLES
  status,      \* per auction: its status, "none" before it exists
  promised     \* the promise still holds

\* An unsuccessful listing or closing leaves the error status; a closing that
\* had an error may still go through.
Follows == [
  none        |-> {"open", "unconfirmed"},
  unconfirmed |-> {"open", "error"},
  open        |-> {"closing", "error"},
  closing     |-> {"withdraw", "open", "error"},
  error       |-> {"closing", "withdraw", "open"},
  withdraw    |-> {}]

TypeOK == status \in [Auctions -> DOMAIN Follows] /\ promised \in BOOLEAN

Init == status = [a \in Auctions |-> "none"] /\ promised = TRUE

Change(a) == \E s \in Follows[status[a]] : status' = [status EXCEPT ![a] = s]

Next ==
  \/ promised /\ promised' /\ \E a \in Auctions : Change(a)
  \/ ~promised'

Spec == Init /\ [][Next]_<<status, promised>>
=============================================================================
