------------------------------- MODULE Bidding -------------------------------
(***************************************************************************)
(* Bids on one USD auction (PaymentService.bid).  A request takes the       *)
(* Redlock key of the NFT, checks and inserts its bid, creates a Stripe    *)
(* payment intent, cancels the intents of the user's earlier bids, confirms *)
(* its own (which authorises the amount) and makes the bid the auction's    *)
(* highest one.                                                            *)
(*                                                                         *)
(* One step is what runs between two awaits.  Stripe and the database keep *)
(* what a request did when the request fails half-way or its pod dies.     *)
(***************************************************************************)
EXTENDS Naturals, FiniteSets

CONSTANTS
  Bids,      \* bid requests
  Users,     \* bidders
  Bidder,    \* the user who places a bid
  Offers,    \* the amounts a request may offer
  Reserve,   \* the auction's reserve price
  NoBid,     \* no bid
  SlowBids   \* requests that may outlast the key's time to live of 120 s

ASSUME BiddingAssumption ==
  /\ IsFiniteSet(Bids)
  /\ Bidder \in [Bids -> Users]
  /\ Offers \in [Bids -> SUBSET Nat]
  /\ Reserve \in Nat
  /\ NoBid \notin Bids
  /\ SlowBids \subseteq Bids

VARIABLES
  bidLock,       \* whose value the key 'bid:<nft>' holds in Redis
  auctionOpen,   \* the auction's status is open
  highestBidId,  \* the auction's highestBidId
  value,         \* the amount of each request
  createdAt,     \* per bid in the database: its place in creation order; 0: none
  attached,      \* bids whose stripe.paymentIntentId is set in the database
  canceled,      \* bids whose stripe.canceled is set in the database
  intent,        \* per bid: the state of its payment intent at Stripe
  pc,            \* per request: where it is
  toCancel,      \* per request: bids whose intent it has still to cancel
  toMark,        \* per request: bids whose cancellation it has still to record
  seen           \* per request: the highest bid it read

auction == <<auctionOpen, highestBidId>>
bids == <<value, createdAt, attached, canceled>>
locals == <<toCancel, toMark, seen>>
vars == <<bidLock, auction, bids, intent, pc, locals>>

\* Before the try block an error leaves bid() without releasing the key.
BeforeTry == {"checking", "inserting", "recording", "paying"}
InTry == {"intending", "attaching", "querying", "cancelling", "confirming",
          "stamping", "reading", "writing", "notifying"}
InFinally == {"releasing", "aborting"}
Running == BeforeTry \union InTry \union InFinally
Ended == {"done", "failed", "dead"}
PC == {"idle", "locking"} \union Running \union Ended
Intents == {"none", "created", "requiresAction", "authorised", "cancelled"}

Init ==
  /\ bidLock = NoBid
  /\ auctionOpen = TRUE
  /\ highestBidId = NoBid
  /\ value = [b \in Bids |-> 0]
  /\ createdAt = [b \in Bids |-> 0]
  /\ attached = {}
  /\ canceled = {}
  /\ intent = [b \in Bids |-> "none"]
  /\ pc = [b \in Bids |-> "idle"]
  /\ toCancel = [b \in Bids |-> {}]
  /\ toMark = [b \in Bids |-> {}]
  /\ seen = [b \in Bids |-> NoBid]

Goto(b, label) == pc' = [pc EXCEPT ![b] = label]
At(b, label) == pc[b] = label

-----------------------------------------------------------------------------
(* The key of the NFT *)

\* A bid arrives; the NFT, the auction and the Stripe customer exist.
Arrive(b, v) ==
  /\ At(b, "idle")
  /\ value' = [value EXCEPT ![b] = v]
  /\ Goto(b, "locking")
  /\ UNCHANGED <<bidLock, auction, createdAt, attached, canceled, intent, locals>>

\* Mutant: the key is taken, whoever holds it.
AcquireTaken(b) ==
  /\ At(b, "locking")
  /\ bidLock' = b
  /\ Goto(b, "checking")
  /\ UNCHANGED <<auction, bids, intent, locals>>

AcquireBidRedlock(b) ==
  /\ At(b, "locking")
  /\ bidLock = NoBid
  /\ bidLock' = b
  /\ Goto(b, "checking")
  /\ UNCHANGED <<auction, bids, intent, locals>>

\* The key stays taken for all of redlock's retries, or Redis fails.
LockRefused(b) ==
  /\ At(b, "locking")
  /\ Goto(b, "failed")
  /\ UNCHANGED <<bidLock, auction, bids, intent, locals>>

\* Mutant: the key is released at the end of the try block only.
ReleaseAfterSuccess(b) ==
  /\ At(b, "releasing")
  /\ bidLock' = IF bidLock = b THEN NoBid ELSE bidLock
  /\ Goto(b, IF bidLock = b THEN "done" ELSE "failed")
  /\ UNCHANGED <<auction, bids, intent, locals>>

\* The finally clause: a release of a lost key throws, bid placed or not.
Release(b) ==
  /\ pc[b] \in InFinally
  /\ bidLock' = IF bidLock = b THEN NoBid ELSE bidLock
  /\ Goto(b, IF At(b, "releasing") /\ bidLock = b THEN "done" ELSE "failed")
  /\ UNCHANGED <<auction, bids, intent, locals>>

\* Mutant: the key has no time to live.
NeverLapses(b) == FALSE

MayLapse(b) == pc[b] \in Ended \/ b \in SlowBids

Lapse ==
  /\ bidLock # NoBid
  /\ MayLapse(bidLock)
  /\ bidLock' = NoBid
  /\ UNCHANGED <<auction, bids, intent, pc, locals>>

-----------------------------------------------------------------------------
(* createBid *)

\* The auction and its highest bid are read; nothing is written.
CheckBid(b) ==
  /\ At(b, "checking")
  /\ auctionOpen
  /\ value[b] >= Reserve
  /\ highestBidId # NoBid => value[b] >= value[highestBidId]
  /\ Goto(b, "inserting")
  /\ UNCHANGED <<bidLock, auction, bids, intent, locals>>

InsertBid(b) ==
  /\ At(b, "inserting")
  /\ createdAt' = [createdAt EXCEPT ![b] = Cardinality({c \in Bids : createdAt[c] # 0}) + 1]
  /\ Goto(b, "recording")
  /\ UNCHANGED <<bidLock, auction, value, attached, canceled, intent, locals>>

AddHistory(b) ==
  /\ At(b, "recording")
  /\ Goto(b, "paying")
  /\ UNCHANGED <<bidLock, auction, bids, intent, locals>>

\* A card is on file: enter the try block.
FindPaymentMethod(b) ==
  /\ At(b, "paying")
  /\ Goto(b, "intending")
  /\ UNCHANGED <<bidLock, auction, bids, intent, locals>>

\* A check fails, a call fails, or there is no card: the request ends and
\* leaves the key to its time to live.
EndsLocked(b) ==
  /\ pc[b] \in BeforeTry
  /\ Goto(b, "failed")
  /\ UNCHANGED <<bidLock, auction, bids, intent, locals>>

-----------------------------------------------------------------------------
(* The try block *)

CreatePaymentIntent(b) ==
  /\ At(b, "intending")
  /\ intent' = [intent EXCEPT ![b] = "created"]
  /\ Goto(b, "attaching")
  /\ UNCHANGED <<bidLock, auction, bids, locals>>

AttachIntent(b) ==
  /\ At(b, "attaching")
  /\ attached' = attached \union {b}
  /\ Goto(b, "querying")
  /\ UNCHANGED <<bidLock, auction, value, createdAt, canceled, intent, locals>>

Uncaptured == {c \in Bids : createdAt[c] # 0 /\ c \in attached /\ c \notin canceled}

\* Mutant: the later bids of the user are taken for the earlier ones.
LaterBids(b) ==
  {c \in Uncaptured : Bidder[c] = Bidder[b] /\ createdAt[c] > createdAt[b]}

\* Mutant: the query does not ask for the user.
EarlierBids(b) == {c \in Uncaptured : createdAt[c] < createdAt[b]}

PreviousBids(b) ==
  {c \in Uncaptured : Bidder[c] = Bidder[b] /\ createdAt[c] < createdAt[b]}

QueryPreviousBids(b) ==
  /\ At(b, "querying")
  /\ toCancel' = [toCancel EXCEPT ![b] = PreviousBids(b)]
  /\ Goto(b, "cancelling")
  /\ UNCHANGED <<bidLock, auction, bids, intent, toMark, seen>>

\* The cancellations run side by side.
CancelIntent(b, c) ==
  /\ c \in toCancel[b]
  /\ intent' = [intent EXCEPT ![c] = "cancelled"]
  /\ toCancel' = [toCancel EXCEPT ![b] = @ \ {c}]
  /\ toMark' = [toMark EXCEPT ![b] = @ \union {c}]
  /\ UNCHANGED <<bidLock, auction, bids, pc, seen>>

MarkCanceled(b, c) ==
  /\ c \in toMark[b]
  /\ canceled' = canceled \union {c}
  /\ toMark' = [toMark EXCEPT ![b] = @ \ {c}]
  /\ UNCHANGED <<bidLock, auction, value, createdAt, attached, intent, pc, toCancel, seen>>

\* The first failure rejects Promise.all; the other cancellations go on, even
\* after the key is released.
CancelFails(b, c) ==
  /\ c \in toCancel[b] \union toMark[b]
  /\ toCancel' = [toCancel EXCEPT ![b] = @ \ {c}]
  /\ toMark' = [toMark EXCEPT ![b] = @ \ {c}]
  /\ Goto(b, IF At(b, "cancelling") THEN "aborting" ELSE pc[b])
  /\ UNCHANGED <<bidLock, auction, bids, intent, seen>>

AllCanceled(b) ==
  /\ At(b, "cancelling")
  /\ toCancel[b] = {} /\ toMark[b] = {}
  /\ Goto(b, "confirming")
  /\ UNCHANGED <<bidLock, auction, bids, intent, locals>>

\* A payment that waits for the cardholder counts as confirmed.
ConfirmIntent(b) ==
  /\ At(b, "confirming")
  /\ intent[b] = "created"
  /\ \E s \in {"authorised", "requiresAction"} : intent' = [intent EXCEPT ![b] = s]
  /\ Goto(b, "stamping")
  /\ UNCHANGED <<bidLock, auction, bids, locals>>

\* setPaymentMethodOnBid writes back the stripe record as it was attached,
\* without a cancellation recorded since.
StampPaymentMethod(b) ==
  /\ At(b, "stamping")
  /\ canceled' = canceled \ {b}
  /\ Goto(b, "reading")
  /\ UNCHANGED <<bidLock, auction, value, createdAt, attached, intent, locals>>

ReadHighestBid(b) ==
  /\ At(b, "reading")
  /\ seen' = [seen EXCEPT ![b] = highestBidId]
  /\ Goto(b, "writing")
  /\ UNCHANGED <<bidLock, auction, bids, intent, toCancel, toMark>>

\* Mutant: the amount is written where the bid's id belongs.
WriteHighestValue(b) ==
  /\ At(b, "writing")
  /\ highestBidId' = value[b]
  /\ Goto(b, "notifying")
  /\ UNCHANGED <<bidLock, auctionOpen, bids, intent, locals>>

\* Mutant: the bid is not compared with the highest one.
WriteUncompared(b) ==
  /\ At(b, "writing")
  /\ highestBidId' = b
  /\ Goto(b, "notifying")
  /\ UNCHANGED <<bidLock, auctionOpen, bids, intent, locals>>

\* The comparison is with the highest bid read before the owner was notified.
WriteHighestBid(b) ==
  /\ At(b, "writing")
  /\ highestBidId' = IF seen[b] = NoBid \/ value[seen[b]] < value[b] THEN b ELSE highestBidId
  /\ Goto(b, "notifying")
  /\ UNCHANGED <<bidLock, auctionOpen, bids, intent, locals>>

NotifyOutbid(b) ==
  /\ At(b, "notifying")
  /\ Goto(b, "releasing")
  /\ UNCHANGED <<bidLock, auction, bids, intent, locals>>

\* A call throws.  The answer to a confirmation may be what is lost.
Throws(b) ==
  /\ pc[b] \in InTry \ {"cancelling"}
  /\ \/ UNCHANGED intent
     \/ /\ At(b, "confirming") /\ intent[b] = "created"
        /\ intent' = [intent EXCEPT ![b] = "authorised"]
  /\ Goto(b, "aborting")
  /\ UNCHANGED <<bidLock, auction, bids, locals>>

-----------------------------------------------------------------------------
(* The surroundings *)

\* The pod that runs the request dies.
Dies(b) ==
  /\ pc[b] \notin Ended \union {"idle"} \/ toCancel[b] # {} \/ toMark[b] # {}
  /\ Goto(b, "dead")
  /\ toCancel' = [toCancel EXCEPT ![b] = {}]
  /\ toMark' = [toMark EXCEPT ![b] = {}]
  /\ UNCHANGED <<bidLock, auction, bids, intent, seen>>

\* The cardholder authenticates, or does not.
Authenticate(b) ==
  /\ intent[b] = "requiresAction"
  /\ \E s \in {"authorised", "created"} : intent' = [intent EXCEPT ![b] = s]
  /\ UNCHANGED <<bidLock, auction, bids, pc, locals>>

\* The seller cancels the listing.
CloseAuction ==
  /\ auctionOpen
  /\ auctionOpen' = FALSE
  /\ UNCHANGED <<bidLock, highestBidId, bids, intent, pc, locals>>

Step(b) ==
  \/ AcquireBidRedlock(b) \/ LockRefused(b) \/ Release(b)
  \/ CheckBid(b) \/ InsertBid(b) \/ AddHistory(b) \/ FindPaymentMethod(b) \/ EndsLocked(b)
  \/ CreatePaymentIntent(b) \/ AttachIntent(b) \/ QueryPreviousBids(b)
  \/ \E c \in Bids : CancelIntent(b, c) \/ MarkCanceled(b, c) \/ CancelFails(b, c)
  \/ AllCanceled(b) \/ ConfirmIntent(b) \/ StampPaymentMethod(b)
  \/ ReadHighestBid(b) \/ WriteHighestBid(b) \/ NotifyOutbid(b) \/ Throws(b)

Next ==
  \/ \E b \in Bids :
       Step(b) \/ Dies(b) \/ Authenticate(b) \/ \E v \in Offers[b] : Arrive(b, v)
  \/ Lapse
  \/ CloseAuction

Spec == Init /\ [][Next]_vars

\* A live request goes on and a key left behind lapses; nobody has to bid, to
\* authenticate or to cancel the listing.
FairSpec == Spec /\ (\A b \in Bids : WF_vars(Step(b))) /\ WF_vars(Lapse)

-----------------------------------------------------------------------------
TypeOK ==
  /\ bidLock \in Bids \union {NoBid}
  /\ auctionOpen \in BOOLEAN
  /\ highestBidId \in Bids \union {NoBid}
  /\ value \in [Bids -> Nat]
  /\ createdAt \in [Bids -> Nat]
  /\ attached \subseteq Bids
  /\ canceled \subseteq Bids
  /\ intent \in [Bids -> Intents]
  /\ pc \in [Bids -> PC]
  /\ toCancel \in [Bids -> SUBSET Bids]
  /\ toMark \in [Bids -> SUBSET Bids]
  /\ seen \in [Bids -> Bids \union {NoBid}]

\* "Update the highest bid if this bid is higher": the highest bid is only
\* ever replaced by a higher one.
HighestBidRises ==
  [][highestBidId' # highestBidId =>
       /\ highestBidId' # NoBid
       /\ highestBidId # NoBid => value[highestBidId'] > value[highestBidId]]_vars

\* A bid may become the highest of an auction that was closed after its check, but then
\* no other request is between the lock and the answer: the closing lets through one
\* bid at most, and all that follow are refused by their check.
OneBidOutlivesAuction ==
  [][~auctionOpen /\ highestBidId' # highestBidId =>
       \A b \in Bids \ {highestBidId'} : pc[b] \notin Running]_vars

\* A bid that was placed is the only one of its user with money behind it: every
\* earlier one has lost its authorisation, even those of requests that failed
\* or died half-way.
OneAuthorisationPerUser ==
  \A b, c \in Bids :
    At(b, "done") /\ Bidder[c] = Bidder[b] /\ createdAt[c] # 0 /\ createdAt[c] < createdAt[b]
    => intent[c] \notin {"requiresAction", "authorised"}

\* The payment of the highest bid is only ever cancelled by a later bid of the
\* same user, however requests overlap: nobody is outbid by another's failure.
CancelledByOwnRebid ==
  highestBidId # NoBid /\ intent[highestBidId] = "cancelled" =>
    \E c \in Bids : Bidder[c] = Bidder[highestBidId] /\ createdAt[c] > createdAt[highestBidId]

\* Every bid request is answered, or its pod dies.  Bids are finitely many and never
\* come back from their end, so it is enough that again and again none is under way.
BidsEnd == []<>(\A b \in Bids : pc[b] \in Ended \union {"idle"})

\* The key of the NFT never stays taken: not by a rejected bid, a bidder without
\* a card or a pod that died, none of which releases it.
BidLockIsFreed == []<>(bidLock = NoBid)
=============================================================================
