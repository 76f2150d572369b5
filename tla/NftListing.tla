----------------------------- MODULE NftListing -----------------------------
(***************************************************************************)
(* One NFT and the requests on it: minting it, listing it for sale and     *)
(* cancelling a listing.  A request writes the database, sends a           *)
(* transaction to the AvN network through the shared API client (module    *)
(* AvnApiLock; here the mutex it implements), and leaves a background       *)
(* confirmation that polls the transaction and writes the statuses it      *)
(* learns.  Most status writes travel over Redis publish/subscribe: every  *)
(* replica of the NFT service gets each message, in order, and applies it  *)
(* at its own pace.                                                        *)
(***************************************************************************)
EXTENDS Naturals, Sequences, FiniteSets

CONSTANTS
  Mint,          \* the request that mints the NFT
  Lists,         \* requests to list it; a list request names its auction
  Cancels,       \* requests to cancel a listing
  Replicas,      \* replicas of the NFT service
  None,
  Currencies,    \* currencies a listing may ask for
  PollingLoops,  \* polls before a transaction is given up (pollingLoops)
  LeaseLoops,    \* polls that fit into the time to live of the API client's key
  MaxInFlight,   \* bound: requests served at the same time
  MaxFaults      \* bound: failures of the environment

ASSUME ListingAssumption ==
  /\ Currencies \subseteq {"USD", "ETH", "ADA"}
  /\ PollingLoops \in Nat \ {0}
  /\ LeaseLoops \in Nat \ {0}
  /\ MaxInFlight \in Nat
  /\ MaxFaults \in Nat

\* Requests are told apart.
ASSUME RequestAssumption ==
  /\ IsFiniteSet(Lists \union Cancels)
  /\ Lists \intersect Cancels = {}
  /\ Mint \notin Lists \union Cancels
  /\ None \notin {Mint} \union Lists \union Cancels

\* Somebody listens to the bus, and None is no word.
ASSUME BusAssumption ==
  /\ Replicas # {}
  /\ None \notin Currencies \union {"USD", "sent", "pending", "processed", "rejected", "other"}

Reqs == {Mint} \union Lists \union Cancels

VARIABLES
  nft,        \* the NFT document: status, whether it has an AvN id, hidden
  soldBefore, \* an earlier auction of the NFT is sold
  auctions,   \* per list request: the status of its auction
  currency,   \* per list request: the currency asked for
  target,     \* per cancel request: the auction it cancels
  pc,         \* per request: where it is
  polls,      \* per request: polls made
  polled,     \* per request: the last state polled
  api,        \* the request the API client is given to
  inbox,      \* per replica: 'setStatusToNft' and 'setAvnNftIdToNft' messages
  replied,    \* requests whose awaited message has been answered
  chain,      \* the AvN network: NFT minted, NFT listed, and per request its transaction
  faults,     \* failures so far
  lapsed,     \* the client's key has lapsed under a confirmation that goes on
  lost        \* messages of a replica have been lost

docs == <<nft, soldBefore, auctions>>
input == <<currency, target>>
polling == <<polls, polled>>
bus == <<inbox, replied>>
past == <<faults, lapsed, lost>>
vars == <<docs, input, pc, polling, api, bus, chain, past>>

NftStatus == {"none", "draft", "minting", "minted", "saleOpening", "forSale", "saleClosing", "owned"}
AuctionStatus == {"none", "unconfirmed", "open", "closing", "withdraw", "error"}
PollStates == {"pending", "processed", "rejected", "other"}
Ended == {"done", "failed", "gaveUp", "dead"}
\* The caller waits for the answer: a mint is answered at once, the others when
\* their transaction is sent or their work is done.
Serving == {"checking", "marking", "creating", "closing", "closingNft", "withdrawing", "withdrawn"}
Background == {"polling", "confirming", "awaiting", "unlocking"}
PC == {"idle", "locking", "sending"} \union Serving \union Background \union Ended

InService(r) == pc[r] \in Serving \/ (r # Mint /\ pc[r] \in {"locking", "sending"})

Goto(r, label) == pc' = [pc EXCEPT ![r] = label]
Arrives(r) ==
  /\ pc[r] = "idle"
  /\ Cardinality({q \in Reqs : InService(q)}) < MaxInFlight

\* A new NFT, or one minted or bought before, with no auction under way.
Init ==
  /\ \/ nft = [status |-> "none", avnNftId |-> FALSE, isHidden |-> TRUE] /\ soldBefore = FALSE
     \/ nft = [status |-> "minted", avnNftId |-> TRUE, isHidden |-> FALSE] /\ soldBefore = FALSE
     \/ nft = [status |-> "owned", avnNftId |-> TRUE, isHidden |-> FALSE] /\ soldBefore = TRUE
  /\ auctions = [l \in Lists |-> "none"]
  /\ currency = [l \in Lists |-> None]
  /\ target = [c \in Cancels |-> None]
  /\ pc = [r \in Reqs |-> "idle"]
  /\ polls = [r \in Reqs |-> 0]
  /\ polled = [r \in Reqs |-> None]
  /\ api = None
  /\ inbox = [p \in Replicas |-> <<>>]
  /\ replied = {}
  /\ chain = [minted |-> nft.avnNftId, listed |-> FALSE, tx |-> [r \in Reqs |-> None]]
  /\ faults = 0
  /\ lapsed = FALSE /\ lost = FALSE

-----------------------------------------------------------------------------
(* The message bus *)

\* Every replica is sent the message; the sender that awaits an answer is named in re.
Publish(set, re) == inbox' = [p \in Replicas |-> Append(inbox[p], [set |-> set, re |-> re])]

\* setStatusToNft, setAvnNftIdToNft: a replica writes what its next message says
\* and answers; a status that was undefined is dropped from the update.
Deliver(p) ==
  /\ inbox[p] # <<>>
  /\ LET msg == Head(inbox[p]) IN
     /\ nft' = IF msg.set = "avnNftId" THEN [nft EXCEPT !.avnNftId = TRUE]
               ELSE IF msg.set = "undefined" THEN nft
               ELSE [nft EXCEPT !.status = msg.set]
     /\ replied' = replied \union ({msg.re} \ {None})
  /\ inbox' = [inbox EXCEPT ![p] = Tail(@)]
  /\ UNCHANGED <<soldBefore, auctions, input, pc, polling, api, chain, past>>

-----------------------------------------------------------------------------
(* Requests, up to the AvN network *)

\* mint: the document and the transaction are created, the answer is given and
\* the rest runs on.
MintRequest ==
  /\ Arrives(Mint)
  /\ nft.status = "none"
  /\ nft' = [status |-> "minting", avnNftId |-> FALSE, isHidden |-> TRUE]
  /\ Goto(Mint, "locking")
  /\ UNCHANGED <<soldBefore, auctions, input, polling, api, bus, chain, past>>

\* list: the NFT is read and checked.
ListRequest(l) ==
  /\ Arrives(l)
  /\ nft.avnNftId
  /\ nft.status \in {"minted", "owned"}
  /\ ~nft.isHidden
  /\ \E c \in Currencies : currency' = [currency EXCEPT ![l] = c]
  /\ Goto(l, "checking")
  /\ UNCHANGED <<docs, target, polling, api, bus, chain, past>>

\* getCurrentAuctionByNftId finds an auction one could still bid on.
Current == {l \in Lists : auctions[l] \in {"open", "unconfirmed"}}

ListCheckSale(l) ==
  /\ pc[l] = "checking"
  /\ Goto(l, IF Current = {} THEN "marking" ELSE "failed")
  /\ UNCHANGED <<docs, input, polling, api, bus, chain, past>>

ListMark(l) ==
  /\ pc[l] = "marking"
  /\ nft' = [nft EXCEPT !.status = "saleOpening"]
  /\ Goto(l, "creating")
  /\ UNCHANGED <<soldBefore, auctions, input, polling, api, bus, chain, past>>

\* createAuction, history entry and transaction document; a currency that cannot
\* be auctioned is found out only here.
ListCreate(l) ==
  /\ pc[l] = "creating"
  /\ IF currency[l] \in {"USD", "ETH"}
     THEN /\ auctions' = [auctions EXCEPT ![l] =
                            IF currency[l] = "USD" THEN "open" ELSE "unconfirmed"]
          /\ Goto(l, "locking")
     ELSE Goto(l, "failed") /\ UNCHANGED auctions
  /\ UNCHANGED <<nft, soldBefore, input, polling, api, bus, chain, past>>

\* Mutant: the status of the auction is not checked.
CancelRequestUnchecked(c) ==
  /\ Arrives(c)
  /\ \E l \in Lists : auctions[l] # "none" /\ target' = [target EXCEPT ![c] = l]
  /\ Goto(c, "closing")
  /\ UNCHANGED <<docs, currency, polling, api, bus, chain, past>>

\* cancelListing: only an open auction is cancelled.
CancelRequest(c) ==
  /\ Arrives(c)
  /\ \E l \in Lists : auctions[l] = "open" /\ target' = [target EXCEPT ![c] = l]
  /\ Goto(c, "closing")
  /\ UNCHANGED <<docs, currency, polling, api, bus, chain, past>>

CancelClose(c) ==
  /\ pc[c] = "closing"
  /\ auctions' = [auctions EXCEPT ![target[c]] = "closing"]
  /\ Goto(c, "closingNft")
  /\ UNCHANGED <<nft, soldBefore, input, polling, api, bus, chain, past>>

\* A USD listing is cancelled on the network, any other one only in the database.
CancelMark(c) ==
  /\ pc[c] = "closingNft"
  /\ nft' = [nft EXCEPT !.status = "saleClosing"]
  /\ Goto(c, IF currency[target[c]] = "USD" THEN "locking" ELSE "withdrawing")
  /\ UNCHANGED <<soldBefore, auctions, input, polling, api, bus, chain, past>>

\* cancelNoneUsdAuction: NFT first, over the bus; then, once answered, the auction.
CancelRestoreNft(c) ==
  /\ pc[c] = "withdrawing"
  /\ Publish(IF soldBefore THEN "owned" ELSE "minted", c)
  /\ Goto(c, "withdrawn")
  /\ UNCHANGED <<docs, input, polling, api, replied, chain, past>>

CancelWithdraw(c) ==
  /\ pc[c] = "withdrawn"
  /\ c \in replied
  /\ auctions' = [auctions EXCEPT ![target[c]] = "withdraw"]
  /\ Goto(c, "done")
  /\ UNCHANGED <<nft, soldBefore, input, polling, api, bus, chain, past>>

-----------------------------------------------------------------------------
(* The AvN network through the API client *)

\* Mutant: the API client is used without its lock.
AcquireUnlocked(r) ==
  /\ pc[r] = "locking"
  /\ api' = r
  /\ Goto(r, "sending")
  /\ UNCHANGED <<docs, input, polling, bus, chain, past>>

Acquire(r) ==
  /\ pc[r] = "locking"
  /\ api = None
  /\ api' = r
  /\ Goto(r, "sending")
  /\ UNCHANGED <<docs, input, polling, bus, chain, past>>

\* lockAvnApiInstance found the key taken at every attempt: the caller gets an
\* error, or the mint, which nobody awaits, an unhandled rejection.  Nothing is undone.
GiveUp(r) ==
  /\ pc[r] = "locking"
  /\ api # None
  /\ Goto(r, "gaveUp")
  /\ UNCHANGED <<docs, input, polling, api, bus, chain, past>>

Send(r) ==
  /\ pc[r] = "sending"
  /\ chain' = [chain EXCEPT !.tx[r] = "sent"]
  /\ Goto(r, "polling")
  /\ UNCHANGED <<docs, input, polling, api, bus, past>>

\* What the network may do with a transaction: a listing needs a minted NFT that
\* is not listed, a cancellation one that is; any transaction may be rejected.
Valid(r) ==
  \/ r = Mint
  \/ r \in Lists /\ chain.minted /\ ~chain.listed
  \/ r \in Cancels /\ chain.listed

ChainProcesses(r) ==
  /\ chain.tx[r] = "sent"
  /\ Valid(r)
  /\ chain' = [minted |-> TRUE, listed |-> r \in Lists, tx |-> [chain.tx EXCEPT ![r] = "processed"]]
  /\ UNCHANGED <<docs, input, pc, polling, api, bus, past>>

ChainRejects(r) ==
  /\ chain.tx[r] = "sent"
  /\ chain' = [chain EXCEPT !.tx[r] = "rejected"]
  /\ UNCHANGED <<docs, input, pc, polling, api, bus, past>>

\* The state a poll may return.
Observable(r) == IF chain.tx[r] = "sent" THEN {"pending", "other"} ELSE {chain.tx[r]}

Committed(s) == s \in {"processed", "rejected"}

-----------------------------------------------------------------------------
(* The background confirmation *)

\* updateNftStatusForMintingAndListing
MintStatus == [pending |-> "minting", processed |-> "minted", rejected |-> "draft", other |-> "draft"]
ListStatus == [pending |-> "saleOpening", processed |-> "forSale", rejected |-> "minted", other |-> "draft"]
\* updateAuctionStatusForCancelListing, updateNFTStatusForCancelListing
CancelAuctionStatus == [pending |-> "closing", processed |-> "withdraw", rejected |-> "open", other |-> "error"]
CancelNftStatus == [pending |-> "saleClosing", processed |-> "minted", rejected |-> "forSale", other |-> "undefined"]

\* Mutant: one poll more than there are loops.
PollOnceMore(r) ==
  /\ pc[r] = "polling"
  /\ \E s \in Observable(r) :
       /\ polled' = [polled EXCEPT ![r] = s]
       /\ IF r \in Cancels
          THEN auctions' = [auctions EXCEPT ![target[r]] = CancelAuctionStatus[s]] /\ UNCHANGED inbox
          ELSE Publish((IF r = Mint THEN MintStatus ELSE ListStatus)[s], None) /\ UNCHANGED auctions
       /\ Goto(r, IF Committed(s) \/ polls[r] = PollingLoops THEN "confirming" ELSE "polling")
  /\ polls' = [polls EXCEPT ![r] = @ + 1]
  /\ UNCHANGED <<nft, soldBefore, input, api, replied, chain, past>>

\* Mutant: the loop only ends with a verdict.
PollUntilCommitted(r) ==
  /\ pc[r] = "polling"
  /\ \E s \in Observable(r) :
       /\ polled' = [polled EXCEPT ![r] = s]
       /\ IF r \in Cancels
          THEN auctions' = [auctions EXCEPT ![target[r]] = CancelAuctionStatus[s]] /\ UNCHANGED inbox
          ELSE UNCHANGED <<auctions, inbox>>
       /\ Goto(r, IF Committed(s) THEN "confirming" ELSE "polling")
  /\ UNCHANGED <<nft, soldBefore, input, polls, api, replied, chain, past>>

\* One poll: the state is written, without waiting for a mint or a listing, and
\* the loop ends when the transaction is committed or the loops are used up.
Poll(r) ==
  /\ pc[r] = "polling"
  /\ \E s \in Observable(r) :
       /\ polled' = [polled EXCEPT ![r] = s]
       /\ IF r \in Cancels
          THEN auctions' = [auctions EXCEPT ![target[r]] = CancelAuctionStatus[s]] /\ UNCHANGED inbox
          ELSE Publish((IF r = Mint THEN MintStatus ELSE ListStatus)[s], None) /\ UNCHANGED auctions
       /\ Goto(r, IF Committed(s) \/ polls[r] + 1 = PollingLoops THEN "confirming" ELSE "polling")
  /\ polls' = [polls EXCEPT ![r] = @ + 1]
  /\ UNCHANGED <<nft, soldBefore, input, api, replied, chain, past>>

\* Mutant: a mint that was not committed is left as it is.
ConfirmMintOnly ==
  /\ pc[Mint] = "confirming"
  /\ IF polled[Mint] = "processed" THEN Publish("avnNftId", None) ELSE UNCHANGED inbox
  /\ Goto(Mint, "unlocking")
  /\ UNCHANGED <<docs, input, polling, api, replied, chain, past>>

\* After the loop of a mint: the AvN id when it was processed, back to draft
\* when it was not committed.
ConfirmMint ==
  /\ pc[Mint] = "confirming"
  /\ CASE polled[Mint] = "processed" -> Publish("avnNftId", None) /\ Goto(Mint, "unlocking")
       [] polled[Mint] = "rejected"  -> Goto(Mint, "unlocking") /\ UNCHANGED inbox
       [] OTHER                      -> Publish("draft", Mint) /\ Goto(Mint, "awaiting")
  /\ UNCHANGED <<docs, input, polling, api, replied, chain, past>>

\* After the loop of a listing: for sale once more when it was processed, the
\* auction in error when it was not committed.
ConfirmList(l) ==
  /\ pc[l] = "confirming"
  /\ IF polled[l] = "processed"
     THEN Publish("forSale", l) /\ Goto(l, "awaiting") /\ UNCHANGED auctions
     ELSE /\ auctions' = IF Committed(polled[l]) THEN auctions ELSE [auctions EXCEPT ![l] = "error"]
          /\ Goto(l, "unlocking")
          /\ UNCHANGED inbox
  /\ UNCHANGED <<nft, soldBefore, input, polling, api, replied, chain, past>>

\* After the loop of a cancellation the NFT follows; nobody waits for that.
ConfirmCancel(c) ==
  /\ pc[c] = "confirming"
  /\ Publish(CancelNftStatus[polled[c]], None)
  /\ Goto(c, "unlocking")
  /\ UNCHANGED <<docs, input, polling, api, replied, chain, past>>

Answered(r) ==
  /\ pc[r] = "awaiting"
  /\ r \in replied
  /\ Goto(r, "unlocking")
  /\ UNCHANGED <<docs, input, polling, api, bus, chain, past>>

\* unlockAvnApiInstance releases the lock object its process keeps by now: its own,
\* or that of a request the process gave the client to after the key had lapsed.
Unlock(r) ==
  /\ pc[r] = "unlocking"
  /\ api # None
  /\ api' = None
  /\ Goto(r, "done")
  /\ UNCHANGED <<docs, input, polling, bus, chain, past>>

\* The release of a lock whose key has lapsed fails, which nobody catches: the
\* process ends, with whatever else it runs.
UnlockFails(r) ==
  /\ pc[r] = "unlocking"
  /\ api # r
  /\ \E ran \in SUBSET Reqs :
       pc' = [q \in Reqs |-> IF q = r \/ (q \in ran /\ pc[q] \notin Ended \union {"idle"})
                            THEN "dead" ELSE pc[q]]
  /\ UNCHANGED <<docs, input, polling, api, bus, chain, past>>

-----------------------------------------------------------------------------
(* The environment *)

\* The legacy back end publishes the NFT, and confirms an auction on Ethereum.
Unhide ==
  /\ nft.isHidden /\ nft.avnNftId
  /\ nft' = [nft EXCEPT !.isHidden = FALSE]
  /\ UNCHANGED <<soldBefore, auctions, input, pc, polling, api, bus, chain, past>>

ConfirmAuction(l) ==
  /\ auctions[l] = "unconfirmed"
  /\ auctions' = [auctions EXCEPT ![l] = "open"]
  /\ UNCHANGED <<nft, soldBefore, input, pc, polling, api, bus, chain, past>>

Fault == faults < MaxFaults /\ faults' = faults + 1

\* The lock client fails, or the transaction cannot be sent: the caller gets
\* an error, nothing is undone, and a key that was taken stays.
Fail(r) ==
  /\ Fault
  /\ pc[r] \in {"locking", "sending"}
  /\ Goto(r, IF r = Mint THEN "dead" ELSE "failed")
  /\ UNCHANGED <<docs, input, polling, api, bus, chain, lapsed, lost>>

\* The process that runs the request dies, or its background part throws.
Die(r) ==
  /\ Fault
  /\ pc[r] \notin Ended \union {"idle"}
  /\ Goto(r, "dead")
  /\ UNCHANGED <<docs, input, polling, api, bus, chain, lapsed, lost>>

\* A replica restarts: messages it had not handled are lost.
LoseInbox(p) ==
  /\ Fault
  /\ inbox[p] # <<>>
  /\ inbox' = [inbox EXCEPT ![p] = <<>>]
  /\ lost' = TRUE
  /\ UNCHANGED <<docs, input, pc, polling, api, replied, chain, lapsed>>

\* The answer a request waits for has not come and will not come any more.
Unanswered(r) ==
  /\ r \notin replied
  /\ \A p \in Replicas : \A i \in DOMAIN inbox[p] : inbox[p][i].re # r

\* Whoever has the client will do nothing more with it.
Abandoned(r) == pc[r] \in Ended \/ (pc[r] = "awaiting" /\ Unanswered(r))

\* The key has a time to live.  It outlives a holder that is gone, and lapses under
\* one that has polled for that long; no other time is counted.
Lapse ==
  /\ api # None
  /\ Abandoned(api) \/ polls[api] >= LeaseLoops
  /\ api' = None
  /\ lapsed' = (lapsed \/ ~Abandoned(api))
  /\ UNCHANGED <<docs, input, pc, polling, bus, chain, faults, lost>>

-----------------------------------------------------------------------------
Serve(r) ==
  \/ r \in Lists /\ (ListCheckSale(r) \/ ListMark(r) \/ ListCreate(r) \/ ConfirmList(r))
  \/ r \in Cancels /\ (\/ CancelClose(r) \/ CancelMark(r) \/ CancelRestoreNft(r)
                       \/ CancelWithdraw(r) \/ ConfirmCancel(r))
  \/ r = Mint /\ ConfirmMint
  \/ Acquire(r) \/ GiveUp(r) \/ Send(r) \/ Poll(r) \/ Answered(r) \/ Unlock(r) \/ UnlockFails(r)

Request ==
  \/ MintRequest
  \/ \E l \in Lists : ListRequest(l)
  \/ \E c \in Cancels : CancelRequest(c)

Network == \E r \in Reqs : ChainProcesses(r) \/ ChainRejects(r)

Environment ==
  \/ Unhide
  \/ \E l \in Lists : ConfirmAuction(l)
  \/ \E r \in Reqs : Fail(r) \/ Die(r)
  \/ \E p \in Replicas : LoseInbox(p)

Next ==
  \/ Request \/ Network \/ Environment \/ Lapse
  \/ \E r \in Reqs : Serve(r)
  \/ \E p \in Replicas : Deliver(p)

Spec == Init /\ [][Next]_vars

\* Live processes run, and attempts to have the client are numbered; nothing makes
\* a request arrive, the network decide or a failure happen.
FairSpec ==
  /\ Spec
  /\ \A r \in Reqs : WF_vars(Serve(r))
  /\ \A p \in Replicas : WF_vars(Deliver(p))
  /\ WF_vars(Lapse)

-----------------------------------------------------------------------------
TypeOK ==
  /\ nft \in [status: NftStatus, avnNftId: BOOLEAN, isHidden: BOOLEAN]
  /\ soldBefore \in BOOLEAN
  /\ auctions \in [Lists -> AuctionStatus]
  /\ currency \in [Lists -> Currencies \union {None}]
  /\ target \in [Cancels -> Lists \union {None}]
  /\ pc \in [Reqs -> PC]
  /\ polls \in [Reqs -> 0..PollingLoops]
  /\ polled \in [Reqs -> PollStates \union {None}]
  /\ api \in Reqs \union {None}
  /\ \A p \in Replicas : \A i \in DOMAIN inbox[p] :
       inbox[p][i] \in [set: NftStatus \union {"avnNftId", "undefined"}, re: Reqs \union {None}]
  /\ replied \subseteq Reqs
  /\ faults \in 0..MaxFaults
  /\ lapsed \in BOOLEAN /\ lost \in BOOLEAN

\* Nothing is under way.
Quiet ==
  /\ \A r \in Reqs : pc[r] \in Ended \union {"idle"}
  /\ \A p \in Replicas : inbox[p] = <<>>
  /\ api = None

\* Nothing failed, nobody gave up waiting for the client or lost it to a lapse, and
\* every confirmation has learnt the verdict on its transaction.
Settled ==
  /\ faults = 0 /\ ~lapsed
  /\ \A r \in Reqs : pc[r] # "gaveUp" /\ polled[r] \in {None, "processed", "rejected"}

USDOnly == \A l \in Lists : currency[l] \in {None, "USD"}

\* When everything has come to rest with a verdict, no listing was rejected and no
\* key lapsed under a confirmation, the database says what the network says: the
\* NFT is for sale exactly when it is listed, and has its AvN id exactly when it is
\* minted, however the replicas were delayed.
DatabaseAgreesWithChain ==
  Quiet /\ Settled /\ USDOnly /\ (\A l \in Lists : polled[l] # "rejected") =>
    /\ nft.status = "forSale" <=> chain.listed
    /\ nft.avnNftId <=> chain.minted

\* "If it's listing NFT and is processed, update NFT status to forSale": an NFT
\* that is for sale was listed on the network, also after a rejected listing.
ForSaleOnlyIfListed ==
  Quiet /\ Settled /\ USDOnly /\ nft.status = "forSale" => chain.listed

\* The statuses of USD auctions follow the life a seller may rely on; above all
\* a withdrawn auction stays withdrawn, though confirmations of the listing and
\* of its cancellation both write the status.  The promise ends with the first key
\* that lapses under a confirmation: that one may still write when another has
\* withdrawn the auction.
Lifecycle == INSTANCE AuctionLifecycle WITH
  Auctions <- Lists,
  status <- [l \in Lists |-> IF currency[l] = "USD" THEN auctions[l] ELSE "none"],
  promised <- ~lapsed
LifecycleSpec == Lifecycle!Spec

\* A mint does not stay minting, also when the network never gives a verdict or the
\* client is lost: unless the mint itself could not have the client, could not be
\* sent or died, or a replica lost what it was told.
MintSettles ==
  <>[](nft.status = "minting" => pc[Mint] \in {"gaveUp", "dead"} \/ lost)

\* Every request comes to an end, or waits for an answer that was lost, which is
\* the only thing a request can wait for in vain; either way it does not keep the
\* API client, whatever failed, lapsed or was released by somebody else.
RequestsEnd ==
  \A r \in Reqs : pc[r] # "idle" ~> /\ pc[r] \in Ended \/ (lost /\ Unanswered(r))
                                    /\ api # r
=============================================================================
