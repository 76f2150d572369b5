--------------------------- MODULE FixedPriceSale ---------------------------
(***************************************************************************)
(* Purchases of one NFT that is on sale at a fixed price                   *)
(* (NftService.buyNft).  A request checks the auction under the Redlock    *)
(* key it shares with bids, gives the key back, and then pays: in USD with *)
(* a Stripe payment intent that is recorded on the auction, in ETH by      *)
(* recording the transaction hash.  The cases of the final switch fall     *)
(* through: a USD purchase ends in the check of the ETH case, an ETH       *)
(* purchase goes on as a free one, whose completion nobody awaits, and one *)
(* in ADA matches no case.                                                 *)
(*                                                                         *)
(* One step is what runs between two awaits.  A process whose un-awaited   *)
(* part throws ends, with every request it serves.                         *)
(***************************************************************************)
EXTENDS FiniteSets, JobQueue

CONSTANTS
  Buys,        \* purchase requests
  Users,       \* buyers
  Buyer,       \* the user who makes a request
  Pods,        \* processes
  PodOf,       \* the process that serves a request
  Currencies,  \* currencies the auction may be in
  NoBuy        \* no purchase

ASSUME SaleAssumption ==
  /\ IsFiniteSet(Buys)
  /\ Buyer \in [Buys -> Users]
  /\ PodOf \in [Buys -> Pods]
  /\ Currencies \subseteq {"USD", "ETH", "ADA", "NONE"}
  /\ NoBuy \notin Buys

VARIABLES
  nft,         \* the NFT document: minted on the network, part of an edition
  currency,    \* the auction's currency
  status,      \* the auction's status
  sale,        \* the auction's sale: the purchase whose payment intent or hash it has
  winner,      \* the purchase whose buyer is the auction's winner
  cancelling,  \* where the seller's cancellation is, of which there is one at a time
  bidLock,     \* whose value the key 'bid:<nft>' holds in Redis
  customers,   \* users with a stripeCustomerId
  knownAs,     \* requests whose user record has a stripeCustomerId
  seen,        \* per request: the sale of the auction it read
  intent,      \* per request: the state of its payment intent at Stripe
  mintTx,      \* purchases with an AvnMintFiatBatchNft transaction
  saleTx,      \* purchases with an AvnProcessFiatSale transaction
  notices,     \* jobs in the queue that tell a buyer of the transfer
  pc           \* per request: where it is

auction == <<currency, status, sale, winner, cancelling>>
stripe == <<customers, intent>>
avn == <<mintTx, saleTx>>
locals == <<knownAs, seen>>
vars == <<nft, auction, bidLock, stripe, locals, avn, notices, pc>>

Locked == {"checking", "checkingMethod", "enrolling", "releasing", "aborting"}
Paying == {"creating", "listing", "connecting", "confirming", "recording", "recordingHash"}
\* Nobody awaits completeFreeAuction.
Unawaited == {"ending", "finding", "minting", "composing", "notifying", "notifyingAgain",
              "selling", "transferring", "reporting"}
Ended == {"done", "failed", "dead"}
PC == {"idle", "locking"} \union Locked \union Paying \union Unawaited \union Ended
Intents == {"none", "created", "connected", "requiresAction", "requiresMethod", "authorised"}

Init ==
  /\ nft \in [isMinted: BOOLEAN, edition: BOOLEAN]
  /\ currency \in Currencies
  /\ status = "open"
  /\ sale = NoBuy
  /\ winner = NoBuy
  /\ cancelling = "no"
  /\ bidLock = NoBuy
  /\ customers \in SUBSET Users
  /\ knownAs = {}
  /\ seen = [b \in Buys |-> NoBuy]
  /\ intent = [b \in Buys |-> "none"]
  /\ mintTx = {}
  /\ saleTx = {}
  /\ notices = {}
  /\ pc = [b \in Buys |-> "idle"]

Goto(b, label) == pc' = [pc EXCEPT ![b] = label]
At(b, label) == pc[b] = label
\* What a pod's death does to the requests it serves.
PodDies(p) ==
  pc' = [b \in Buys |-> IF PodOf[b] = p /\ pc[b] \notin Ended \union {"idle"} THEN "dead" ELSE pc[b]]

-----------------------------------------------------------------------------
(* buyNft, up to the end of its try block *)

\* The user record is the one that authenticated the request.
Arrive(b) ==
  /\ At(b, "idle")
  /\ knownAs' = IF Buyer[b] \in customers THEN knownAs \union {b} ELSE knownAs
  /\ Goto(b, "locking")
  /\ UNCHANGED <<nft, auction, bidLock, stripe, seen, avn, notices>>

AcquireBidRedlock(b) ==
  /\ At(b, "locking")
  /\ bidLock = NoBuy
  /\ bidLock' = b
  /\ Goto(b, "checking")
  /\ UNCHANGED <<nft, auction, stripe, locals, avn, notices>>

LockRefused(b) ==
  /\ At(b, "locking")
  /\ Goto(b, "failed")
  /\ UNCHANGED <<nft, auction, bidLock, stripe, locals, avn, notices>>

\* The auction must be open; one in USD that has payment details is looked at
\* more closely, and its buyer needs a Stripe customer.
CheckAuction(b) ==
  /\ At(b, "checking")
  /\ status = "open"
  /\ seen' = [seen EXCEPT ![b] = sale]
  /\ Goto(b, CASE currency = "USD" /\ sale # NoBuy -> "checkingMethod"
               [] currency = "USD" /\ sale = NoBuy /\ b \notin knownAs -> "enrolling"
               [] OTHER -> "releasing")
  /\ UNCHANGED <<nft, auction, bidLock, stripe, knownAs, avn, notices>>

\* Mutant: whose payment method it is does not matter.
CheckNoMethod(b) ==
  /\ At(b, "checkingMethod")
  /\ Goto(b, "releasing")
  /\ UNCHANGED <<nft, auction, bidLock, stripe, locals, avn, notices>>

\* The payment method recorded on the auction must be the buyer's own.
CheckPaymentMethod(b) ==
  /\ At(b, "checkingMethod")
  /\ Goto(b, IF Buyer[seen[b]] = Buyer[b] /\ b \in knownAs THEN "releasing" ELSE "aborting")
  /\ UNCHANGED <<nft, auction, bidLock, stripe, locals, avn, notices>>

\* createStripeCustomer; the question for the updated user that follows is
\* malformed and fails, so the buyer has to come back.
CreateStripeCustomer(b) ==
  /\ At(b, "enrolling")
  /\ customers' = customers \union {Buyer[b]}
  /\ Goto(b, "aborting")
  /\ UNCHANGED <<nft, auction, bidLock, intent, locals, avn, notices>>

\* No current auction, another type or the buyer's own, or a call throws.
CheckFails(b) ==
  /\ pc[b] \in {"checking", "checkingMethod", "enrolling"}
  /\ Goto(b, "aborting")
  /\ UNCHANGED <<nft, auction, bidLock, stripe, locals, avn, notices>>

\* Where the switch takes a purchase.
Purchase == [USD |-> "creating", ETH |-> "recordingHash", NONE |-> "ending", ADA |-> "done"]

\* Mutant: the release of a key that has lapsed is tried again.
ReleaseHeld(b) ==
  /\ pc[b] \in {"releasing", "aborting"}
  /\ bidLock = b
  /\ bidLock' = NoBuy
  /\ Goto(b, IF At(b, "aborting") THEN "failed" ELSE Purchase[currency])
  /\ UNCHANGED <<nft, auction, stripe, locals, avn, notices>>

\* The finally clause: the release of a lost key throws.  Then the switch.
Release(b) ==
  /\ pc[b] \in {"releasing", "aborting"}
  /\ bidLock' = IF bidLock = b THEN NoBuy ELSE bidLock
  /\ Goto(b, IF At(b, "aborting") \/ bidLock # b THEN "failed" ELSE Purchase[currency])
  /\ UNCHANGED <<nft, auction, stripe, locals, avn, notices>>

\* Mutant: the key has no time to live.
NoLapse == FALSE

\* The key's time to live ends, whatever its holder is doing.
Lapse ==
  /\ bidLock # NoBuy
  /\ bidLock' = NoBuy
  /\ UNCHANGED <<nft, auction, stripe, locals, avn, notices, pc>>

-----------------------------------------------------------------------------
(* purchaseFiatNft and purchaseEthNft *)

CreatePaymentIntent(b) ==
  /\ At(b, "creating")
  /\ intent' = [intent EXCEPT ![b] = "created"]
  /\ Goto(b, "listing")
  /\ UNCHANGED <<nft, auction, bidLock, customers, locals, avn, notices>>

\* A buyer has a card.
GetPaymentMethods(b) ==
  /\ At(b, "listing")
  /\ Goto(b, "connecting")
  /\ UNCHANGED <<nft, auction, bidLock, stripe, locals, avn, notices>>

\* Mutant: the payment details are recorded before the payment is confirmed.
ConnectAndRecord(b) ==
  /\ At(b, "connecting")
  /\ intent' = [intent EXCEPT ![b] = "connected"]
  /\ sale' = b
  /\ Goto(b, "confirming")
  /\ UNCHANGED <<nft, currency, status, winner, cancelling, bidLock, customers, locals, avn, notices>>

ConnectPaymentMethod(b) ==
  /\ At(b, "connecting")
  /\ intent' = [intent EXCEPT ![b] = "connected"]
  /\ Goto(b, "confirming")
  /\ UNCHANGED <<nft, auction, bidLock, customers, locals, avn, notices>>

\* A payment that waits for the cardholder counts as confirmed.
ConfirmPaymentIntent(b) ==
  /\ At(b, "confirming")
  /\ \E s \in {"authorised", "requiresAction"} : intent' = [intent EXCEPT ![b] = s]
  /\ Goto(b, "recording")
  /\ UNCHANGED <<nft, auction, bidLock, customers, locals, avn, notices>>

\* Mutant: the user is recorded where the payment belongs.
SetBuyerOnly(b) ==
  /\ At(b, "recording")
  /\ sale' = Buyer[b]
  /\ Goto(b, "failed")
  /\ UNCHANGED <<nft, currency, status, winner, cancelling, bidLock, stripe, locals, avn, notices>>

\* The sale is replaced, whoever's it was; then the next case of the switch
\* refuses the auction for not being in ETH, and the buyer gets an error.
SetPaymentDetails(b) ==
  /\ At(b, "recording")
  /\ sale' = b
  /\ Goto(b, "failed")
  /\ UNCHANGED <<nft, currency, status, winner, cancelling, bidLock, stripe, locals, avn, notices>>

\* purchaseEthNft; the case falls through to that of a free auction, and the
\* buyer is answered while it is completed.
RecordTransactionHash(b) ==
  /\ At(b, "recordingHash")
  /\ sale' = b
  /\ Goto(b, "ending")
  /\ UNCHANGED <<nft, currency, status, winner, cancelling, bidLock, stripe, locals, avn, notices>>

\* A call throws.  The answer to a confirmation may be what is lost.
PurchaseFails(b) ==
  /\ pc[b] \in Paying
  /\ \/ UNCHANGED intent
     \/ At(b, "confirming") /\ intent' = [intent EXCEPT ![b] = "authorised"]
  /\ Goto(b, "failed")
  /\ UNCHANGED <<nft, auction, bidLock, customers, locals, avn, notices>>

\* The cardholder authenticates the payment, or fails to.
Authenticate(b) ==
  /\ intent[b] = "requiresAction"
  /\ \E s \in {"authorised", "requiresMethod"} : intent' = [intent EXCEPT ![b] = s]
  /\ UNCHANGED <<nft, auction, bidLock, customers, locals, avn, notices, pc>>

-----------------------------------------------------------------------------
(* completeFreeAuction *)

\* Mutant: ownership is transferred without a transaction.
TransferFirst(b) ==
  /\ At(b, "ending")
  /\ status' = "sold"
  /\ winner' = b
  /\ Goto(b, IF nft.isMinted THEN "selling" ELSE "finding")
  /\ UNCHANGED <<nft, currency, sale, cancelling, bidLock, stripe, locals, avn, notices>>

\* The NFT is read and the auction's end time written.
EndAuction(b) ==
  /\ At(b, "ending")
  /\ Goto(b, IF nft.isMinted THEN "selling" ELSE "finding")
  /\ UNCHANGED <<nft, auction, bidLock, stripe, locals, avn, notices>>

\* createMintBatchAvnTransaction is for NFTs of an edition, and only once.
FindMintTransaction(b) ==
  /\ At(b, "finding")
  /\ nft.edition
  /\ mintTx = {}
  /\ Goto(b, "minting")
  /\ UNCHANGED <<nft, auction, bidLock, stripe, locals, avn, notices>>

CreateMintTransaction(b) ==
  /\ At(b, "minting")
  /\ mintTx' = mintTx \union {b}
  /\ Goto(b, "composing")
  /\ UNCHANGED <<nft, auction, bidLock, stripe, locals, saleTx, notices>>

\* Mutant: as with the mails about bids, a failure is only logged.
ComposeOrLog(b) ==
  /\ At(b, "composing")
  /\ \E label \in {"notifying", "transferring"} : Goto(b, label)
  /\ UNCHANGED <<nft, auction, bidLock, stripe, locals, avn, notices>>

\* sendTransferredWinnerNotification: the NFT service is asked for the mail's data.
ComposeNotice(b) ==
  /\ At(b, "composing")
  /\ Goto(b, "notifying")
  /\ UNCHANGED <<nft, auction, bidLock, stripe, locals, avn, notices>>

\* The mail is the job of its template and reader; it is added as often as Adds.main.
AddNotice(b) ==
  /\ pc[b] \in {"notifying", "notifyingAgain"}
  /\ notices' = Added(notices, [id |-> Buyer[b]])
  /\ Goto(b, IF At(b, "notifying") THEN "notifyingAgain" ELSE "transferring")
  /\ UNCHANGED <<nft, auction, bidLock, stripe, locals, avn>>

\* completeAuctionOnAvn refuses an NFT that has a current auction: it only goes
\* through when the auction has been closed since it was checked.
CreateSaleTransaction(b) ==
  /\ At(b, "selling")
  /\ status # "open"
  /\ saleTx' = saleTx \union {b}
  /\ Goto(b, "transferring")
  /\ UNCHANGED <<nft, auction, bidLock, stripe, locals, mintTx, notices>>

\* transferOwnership: the auction is sold, whatever became of it; the hash of an
\* ETH purchase is not passed on and so is overwritten.  The NFT is only read
\* where it should be updated.
TransferOwnership(b) ==
  /\ At(b, "transferring")
  /\ status' = "sold"
  /\ winner' = b
  /\ sale' = IF currency = "ETH" THEN NoBuy ELSE sale
  /\ Goto(b, "reporting")
  /\ UNCHANGED <<nft, currency, cancelling, bidLock, stripe, locals, avn, notices>>

\* The history of the NFT is written.  The finally clause that follows is for auctions
\* of another type, which are not bought this way.
AddHistory(b) ==
  /\ At(b, "reporting")
  /\ Goto(b, "done")
  /\ UNCHANGED <<nft, auction, bidLock, stripe, locals, avn, notices>>

\* The NFT is not for sale this way, a transaction exists, or a call throws.  Nobody
\* handles the rejection, and the process ends.
CompletionFails(b) ==
  /\ pc[b] \in Unawaited
  /\ PodDies(PodOf[b])
  /\ UNCHANGED <<nft, auction, bidLock, stripe, locals, avn, notices>>

-----------------------------------------------------------------------------
(* The surroundings *)

Crash(p) ==
  /\ \E b \in Buys : PodOf[b] = p /\ pc[b] \notin Ended \union {"idle"}
  /\ PodDies(p)
  /\ UNCHANGED <<nft, auction, bidLock, stripe, locals, avn, notices>>

\* The seller's cancellation reads the auction and closes it later.
CancelCheck ==
  /\ cancelling = "no"
  /\ status = "open"
  /\ cancelling' = "checked"
  /\ UNCHANGED <<nft, currency, status, sale, winner, bidLock, stripe, locals, avn, notices, pc>>

CancelClose ==
  /\ cancelling = "checked"
  /\ status' = "closing"
  /\ cancelling' = "closed"
  /\ UNCHANGED <<nft, currency, sale, winner, bidLock, stripe, locals, avn, notices, pc>>

\* It withdraws the auction or fails on the way; one in USD ends as the network
\* says.
CancelEnds ==
  /\ cancelling = "closed"
  /\ status' \in {status, "withdraw"} \union (IF currency = "USD" THEN {"open", "error"} ELSE {})
  /\ cancelling' = "no"
  /\ UNCHANGED <<nft, currency, sale, winner, bidLock, stripe, locals, avn, notices, pc>>

Step(b) ==
  \/ AcquireBidRedlock(b) \/ LockRefused(b)
  \/ CheckAuction(b) \/ CheckPaymentMethod(b) \/ CreateStripeCustomer(b) \/ CheckFails(b)
  \/ Release(b)
  \/ CreatePaymentIntent(b) \/ GetPaymentMethods(b) \/ ConnectPaymentMethod(b)
  \/ ConfirmPaymentIntent(b) \/ SetPaymentDetails(b) \/ RecordTransactionHash(b)
  \/ PurchaseFails(b)
  \/ EndAuction(b) \/ FindMintTransaction(b) \/ CreateMintTransaction(b)
  \/ ComposeNotice(b) \/ AddNotice(b)
  \/ CreateSaleTransaction(b) \/ TransferOwnership(b) \/ AddHistory(b)
  \/ CompletionFails(b)

Next ==
  \/ \E b \in Buys : Arrive(b) \/ Step(b) \/ Authenticate(b)
  \/ \E p \in Pods : Crash(p)
  \/ Lapse
  \/ CancelCheck
  \/ CancelClose
  \/ CancelEnds

Spec == Init /\ [][Next]_vars

\* A live process goes on and a key left behind lapses; nobody has to buy, to
\* authenticate or to cancel.
FairSpec == Spec /\ (\A b \in Buys : WF_vars(Step(b))) /\ WF_vars(Lapse)

-----------------------------------------------------------------------------
TypeOK ==
  /\ nft \in [isMinted: BOOLEAN, edition: BOOLEAN]
  /\ currency \in Currencies
  /\ status \in {"open", "closing", "withdraw", "error", "sold"}
  /\ sale \in Buys \union {NoBuy}
  /\ winner \in Buys \union {NoBuy}
  /\ cancelling \in {"no", "checked", "closed"}
  /\ bidLock \in Buys \union {NoBuy}
  /\ customers \subseteq Users
  /\ knownAs \subseteq Buys
  /\ seen \in [Buys -> Buys \union {NoBuy}]
  /\ intent \in [Buys -> Intents]
  /\ mintTx \subseteq Buys
  /\ saleTx \subseteq Buys
  /\ notices \subseteq [id: Users]
  /\ pc \in [Buys -> PC]

\* The payment recorded on a USD auction is one that Stripe has confirmed, also
\* when purchases overlap and replace each other's.
RecordedPaymentConfirmed ==
  currency = "USD" /\ sale # NoBuy =>
    intent[sale] \in {"requiresAction", "requiresMethod", "authorised"}

\* An auction has no winner without a transaction that gives the NFT to the
\* winner, whatever failed or died on the way and whoever else was buying.
WinnerHasTransaction == winner # NoBuy => winner \in mintTx \union saleTx

\* Whoever is told that he got an NFT has the transaction that mints it for him, and
\* nobody becomes its owner that way without having been told: the mail is made between
\* the transaction and the transfer, and whatever fails on the way stops the transfer.
Told == {job.id : job \in notices}
MintedForWhoIsTold ==
  /\ Told \subseteq {Buyer[b] : b \in mintTx}
  /\ winner \in mintTx => Buyer[winner] \in Told

\* Once a payment is recorded on a USD auction, and none of a user's requests
\* has passed its checks yet, no money of that user is ever touched, though the
\* key that guards the checks is given back before anything is paid.
NotStarted(u) == \A b \in Buys : Buyer[b] = u => pc[b] \in {"idle", "locking"} /\ intent[b] = "none"
TooLate(u) == currency = "USD" /\ sale # NoBuy /\ Buyer[sale] # u /\ NotStarted(u)
LateBuyerIsRefused ==
  \A u \in Users : [](TooLate(u) => [](\A b \in Buys : Buyer[b] = u => intent[b] = "none"))

\* "Throw if AvnTransaction already exists": an NFT is minted for one buyer.
OneMintTransaction == Cardinality(mintTx) <= 1

\* Every purchase comes to an end.
PurchasesEnd == \A b \in Buys : At(b, "locking") ~> pc[b] \in Ended

\* The key shared with the bids never stays taken.
LockIsFreed == \A b \in Buys : bidLock = b ~> bidLock # b
=============================================================================
