------------------------------ MODULE Editions ------------------------------
(***************************************************************************)
(* What happens when the network has minted a batch                        *)
(* (EditionService.handleEditionMinted): the edition is marked, the NFT    *)
(* service is asked for one NFT per number, and once all the answers are   *)
(* in, the ids of the NFTs are listed on the edition.                      *)
(*                                                                         *)
(* The bus is Redis publish/subscribe.  Every replica of a service hears   *)
(* every message: each handles the event, and each makes the NFTs that any *)
(* of them asks for.  The id of an NFT is computed from the batch and the  *)
(* number, so it can be inserted only once; every other attempt is         *)
(* answered with an error.  Whoever asks takes the first answer.           *)
(*                                                                         *)
(* An id is a binary UUID where it is computed and listed, and the string  *)
(* that JSON makes of it where an NFT is inserted.                         *)
(***************************************************************************)
EXTENDS Naturals, Sequences, FiniteSets, SequencesExt

CONSTANTS
  Pods,       \* replicas of the service
  Handlers,   \* events received by the replicas
  PodOf,      \* the replica that received an event
  Quantity,   \* NFTs of the edition
  Nobody,     \* no handler
  MaxFaults   \* bound on deaths of replicas and failures of the database

ASSUME EditionsAssumption ==
  /\ IsFiniteSet(Pods)
  /\ PodOf \in [Handlers -> Pods]
  /\ Quantity \in Nat \ {0}
  /\ Nobody \notin Handlers
  \* The bus keeps nothing: what no living replica hears is lost.
  /\ MaxFaults \in Nat /\ MaxFaults < Cardinality(Pods)

Numbers == 1 .. Quantity

\* generateNftId, for the batch of the edition.
GenerateNftId(n) == <<"binary", n>>
Ids == {GenerateNftId(n) : n \in Numbers}

\* What the replicas of the NFT service are given for an id.
InJson(id) == <<"string", id[2]>>
StoredIds == {InJson(id) : id \in Ids}

VARIABLES
  minted,     \* whether the edition has its status and the id of the batch
  listed,     \* edition.nfts: the ids it lists
  maker,      \* per id of a document: the handler that asked for the NFT inserted with it
  unsent,     \* per handler: the numbers it is about to ask for
  requests,   \* requests at the replicas, on their way or inserted and not answered yet
  ids,        \* per handler: the ids it has positive answers for (editionNftIds)
  pc,         \* per handler: where it is
  up,         \* the replicas that run
  faults      \* how many faults there were

edition == <<minted, listed>>
vars == <<edition, maker, unsent, requests, ids, pc, up, faults>>

Ended == {"done", "failed", "dead"}
PC == {"idle", "updating", "creating"} \union Ended
Outcomes == {"sent", "inserted", "refused"}
Requests == [by: Handlers, id: Ids, at: Pods, outcome: Outcomes]

Init ==
  /\ minted = FALSE
  /\ listed = <<>>
  /\ maker = [id \in StoredIds |-> Nobody]
  /\ unsent = [h \in Handlers |-> {}]
  /\ requests = {}
  /\ ids = [h \in Handlers |-> <<>>]
  /\ pc = [h \in Handlers |-> "idle"]
  /\ up = Pods
  /\ faults = 0

At(h, label) == pc[h] = label
Goto(h, label) == pc' = [pc EXCEPT ![h] = label]
\* Also after a refusal a handler goes on asking for the rest.
Busy(h) == pc[h] \notin Ended \union {"idle"} \/ unsent[h] # {}
Fault == faults < MaxFaults /\ faults' = faults + 1

-----------------------------------------------------------------------------
(* handleEditionMinted *)

Receive(h) ==
  /\ At(h, "idle") /\ PodOf[h] \in up
  /\ Goto(h, "updating")
  /\ UNCHANGED <<edition, maker, unsent, requests, ids, up, faults>>

\* The edition is marked; only then is anything asked for.
UpdateEdition(h) ==
  /\ At(h, "updating")
  /\ minted' = TRUE
  /\ unsent' = [unsent EXCEPT ![h] = Numbers]
  /\ Goto(h, "creating")
  /\ UNCHANGED <<listed, maker, requests, ids, up, faults>>

Publish(h, n, pods, id) ==
  /\ n \in unsent[h]
  /\ unsent' = [unsent EXCEPT ![h] = @ \ {n}]
  /\ requests' = requests \union [by: {h}, id: {id}, at: pods, outcome: {"sent"}]
  /\ UNCHANGED <<edition, maker, ids, pc, up, faults>>

\* Mutant: the numbers start at zero.
AskFromZero(h) == \E n \in Numbers : Publish(h, n, up, GenerateNftId(n - 1))

\* Mutant: the replica makes the NFTs itself.
AskLocally(h) == \E n \in Numbers : Publish(h, n, {PodOf[h]}, GenerateNftId(n))

\* All NFTs are asked for side by side, with a message each.
Ask(h) == \E n \in Numbers : Publish(h, n, up, GenerateNftId(n))

\* Mutant: the answers are not awaited.
ListUnawaited(h) ==
  /\ At(h, "creating")
  /\ listed' = ids[h]
  /\ Goto(h, "done")
  /\ UNCHANGED <<minted, maker, unsent, requests, ids, up, faults>>

\* Every NFT has been answered for; the list is in the order of the answers.
ListNfts(h) ==
  /\ At(h, "creating")
  /\ ToSet(ids[h]) = Ids
  /\ listed' = ids[h]
  /\ Goto(h, "done")
  /\ UNCHANGED <<minted, maker, unsent, requests, ids, up, faults>>

\* An update of the edition fails, or only its answer does.
HandlerFails(h) ==
  /\ \/ At(h, "updating") /\ minted' \in {minted, TRUE} /\ UNCHANGED listed
     \/ /\ At(h, "creating") /\ ToSet(ids[h]) = Ids
        /\ listed' \in {listed, ids[h]} /\ UNCHANGED minted
  /\ Fault
  /\ Goto(h, "failed")
  /\ UNCHANGED <<maker, unsent, requests, ids, up>>

-----------------------------------------------------------------------------
(* createNft, at a replica *)

Becomes(r, outcome) == requests' = (requests \ {r}) \union {[r EXCEPT !.outcome = outcome]}

\* Mutant: an NFT that exists is written again.
InsertAgain(r) ==
  /\ r.outcome = "sent"
  /\ maker' = [maker EXCEPT ![InJson(r.id)] = r.by]
  /\ Becomes(r, "inserted")
  /\ UNCHANGED <<edition, unsent, ids, pc, up, faults>>

Insert(r) ==
  /\ r.outcome = "sent"
  /\ IF maker[InJson(r.id)] = Nobody
       THEN maker' = [maker EXCEPT ![InJson(r.id)] = r.by] /\ Becomes(r, "inserted")
       ELSE UNCHANGED maker /\ Becomes(r, "refused")
  /\ UNCHANGED <<edition, unsent, ids, pc, up, faults>>

InsertFails(r) ==
  /\ r.outcome = "sent"
  /\ Fault
  /\ Becomes(r, "refused")
  /\ UNCHANGED <<edition, maker, unsent, ids, pc, up>>

\* The first answer counts; one error and the handler gives up, while its other
\* requests go on.
Answer(r) ==
  /\ r.outcome # "sent"
  /\ requests' = requests \ {r}
  /\ IF At(r.by, "creating") /\ r.id \notin ToSet(ids[r.by])
       THEN IF r.outcome = "inserted"
              THEN ids' = [ids EXCEPT ![r.by] = Append(@, r.id)] /\ UNCHANGED pc
              ELSE Goto(r.by, "failed") /\ UNCHANGED ids
       ELSE UNCHANGED <<ids, pc>>
  /\ UNCHANGED <<edition, maker, unsent, up, faults>>

-----------------------------------------------------------------------------
\* A replica dies, with the events it handles and the requests it has heard.
Crash(p) ==
  /\ p \in up
  /\ Fault
  /\ up' = up \ {p}
  /\ pc' = [h \in Handlers |-> IF PodOf[h] = p /\ Busy(h) THEN "dead" ELSE pc[h]]
  /\ unsent' = [h \in Handlers |-> IF PodOf[h] = p THEN {} ELSE unsent[h]]
  /\ requests' = {r \in requests : r.at # p}
  /\ UNCHANGED <<edition, maker, ids>>

Restart(p) ==
  /\ p \in Pods \ up
  /\ up' = up \union {p}
  /\ UNCHANGED <<edition, maker, unsent, requests, ids, pc, faults>>

Serve == \E r \in requests : Insert(r) \/ Answer(r)

Next ==
  \/ \E h \in Handlers :
       Receive(h) \/ UpdateEdition(h) \/ Ask(h) \/ ListNfts(h) \/ HandlerFails(h)
  \/ \E r \in requests : Insert(r) \/ InsertFails(r) \/ Answer(r)
  \/ \E p \in Pods : Crash(p) \/ Restart(p)

Spec == Init /\ [][Next]_vars

\* Living replicas go on; nobody has to announce a batch, and nothing has to restart.
FairSpec ==
  /\ Spec
  /\ \A h \in Handlers : WF_vars(UpdateEdition(h)) /\ WF_vars(Ask(h)) /\ WF_vars(ListNfts(h))
  /\ WF_vars(Serve)

-----------------------------------------------------------------------------
TypeOK ==
  /\ minted \in BOOLEAN
  /\ listed \in Seq(Ids)
  /\ maker \in [StoredIds -> Handlers \union {Nobody}]
  /\ unsent \in [Handlers -> SUBSET Numbers]
  /\ requests \subseteq Requests
  /\ ids \in [Handlers -> Seq(Ids)]
  /\ pc \in [Handlers -> PC]
  /\ up \subseteq Pods
  /\ faults \in 0 .. MaxFaults

Made == {id \in Ids : maker[InJson(id)] # Nobody}

\* An edition lists the id of each of its NFTs once, or none, and lists only what was
\* made.  (What was made has the string of the id, so that the listed id itself finds
\* no document: the property is about the NFTs and not about looking them up.)
ListIsComplete ==
  listed # <<>> => ToSet(listed) = Ids /\ IsInjective(listed) /\ Made = Ids

\* The list is written once, though every replica handles the event and events may
\* be repeated: the others are refused an NFT.
ListIsWrittenOnce == [][listed # <<>> => UNCHANGED listed]_vars

\* A handler that has marked the edition and goes on makes all the NFTs exist, also when
\* it is refused one of them; and an NFT it has asked for comes to exist whatever becomes
\* of it.  An edition that is marked may have no NFTs: whoever marked it may die, or be
\* told that it failed, before it asks for any.
NftsAreCreated ==
  /\ \A h \in Handlers : At(h, "creating") ~> At(h, "dead") \/ Made = Ids
  /\ \A id \in Ids : (\E r \in requests : r.id = id) ~> id \in Made
=============================================================================
