# Verification of the NFT marketplace services (mkps)

This directory models the parts of the marketplace back end (`src/src/`, a NestJS
application) in which several requests, processes and outside services meet: the
shared client of the AvN network, the life of an NFT and its listings, bids,
fixed-price purchases, the creation of user accounts, the documents and caches that
transactions leave behind, editions, and fees. The modules are model-checked with TLC.
Every safety property of the passing runs is also proved with TLAPS, for any number of requests,
replicas, retries and failures; liveness is model-checked only.

Paths below are relative to `src/src/` unless they start with `src/chart`.

## 1. The system

Every deployed service runs the same application (`main.ts`, `app.module.ts`) in
one or more replicas (`src/chart/services`). A replica serves HTTP and, on the Redis
transport, messages of the other services. Redis publish/subscribe hands a message
to *every* replica that listens; the sender takes the first answer, and waits
without a time-out. State lives in MongoDB (no transactions, no unique indexes, no
conditional updates), in Redis (Redlock keys with a time to live), at Stripe, in
Vault, at the split-fee administration, and on the AvN network. A promise nobody
awaits ends the Node process when it rejects.

| Component | State | Operations | Interacts with |
|---|---|---|---|
| AvN API client (`avn-transaction/services/avn-transaction-api-setup.service.ts`, `common/redis`) | per process: client, signer, current user, lock object; in Redis: `avn-api-instance` | take, set up, sign, release | gateway, Vault |
| AvN gateway (`…-api-gateway.service.ts`) | auctions, NFT statuses (over the bus) | mint, list, cancel; background polling and confirmation | API client, NFT service, job queue |
| AvN transactions (`avn-transaction.service.ts`) | transaction documents | mint, list, cancel, batch mint, fiat sale, history | gateway, editions |
| NFT service (`nft/services`, `nft/controllers`) | NFT documents and history | create, mint, list, cancel, buy, status changes | all of the above, listing, payment |
| Listing (`listing/`) | auctions, bids | create, status, cancel, complete, ownership, fees | NFT service, editions, e-mail |
| Payment (`payment/`) | bids, Stripe intents, `bid:<nft>` in Redis | bid, cancel earlier bids, confirm, highest bid, customers | Stripe, listing, users |
| Fixed-price sale (`listing/fixed-price`, `NftService.buyNft`) | auction's sale, intents | buy in USD, ETH, ADA or for free | Stripe, listing, AvN transactions |
| Users (`auth/`, `user/`) | user documents, Auth0 | log in, create, set up, roll back, profile | Vault, split fee |
| Vault, split fee (`vault/`, `user/split.fee.service.ts`) | login token cache; keys and users outside | get or create a key, sign; register | – |
| Editions (`edition/`, `edition-listing/`) | editions, counts, listings | create, mint, batch minted, count | NFT service |
| Job queue (`bull-mq/`), e-mail (`common/email/`) | jobs in Redis | refresh a cached NFT, send a mail | a worker outside the repository |
| Fees (`listing.service.ts`, `utils/settings`, `utils/get-royalties.ts`) | – | royalties and platform fee of a payment | Stripe |
| Change stream (`…-change-stream.service.ts`) | none | – | is no provider of any module, so it never runs |
| Assets, HTTP surface, logging | – | S3 calls, validation | – |

What is hard here, and what the properties are for (each at its line in
`PROJECT.json`, "hazards"):

* a key whose time to live (120 s) is shorter than the work it guards (polling of up
  to 180 s); releases of keys that have lapsed; singletons shared by operations;
* un-awaited work that ends the process when it fails, and crashes that leave keys,
  closing auctions or minting NFTs behind;
* checks separated from the writes they guard by awaits, often without any lock;
* statuses that travel over the bus and reach lagging replicas late;
* confirmations of two operations that write the same status;
* payments that are half created, confirmed without the answer arriving, or waiting
  for the cardholder; earlier payments cancelled before the new one is confirmed;
* a key given back before the purchase it was taken for is carried out;
* a message that every replica obeys, though one effect was meant;
* transactions that are asked for again under the request id of an earlier one;
* jobs that are added several times, dropped while one with their id runs, and read what
  an un-awaited write has not written yet;
* many creations side by side of which one may fail;
* roll-back while another request already uses what is rolled back.

What makes the components correct, in a sentence each: one operation at a time uses
the API client, and signs as its own user (until somebody polls past its lease); at rest the
database says what the network says; an auction's status follows a life cycle in which a withdrawn
auction stays withdrawn (both as long as no key lapses under a confirmation); the highest bid only rises and every user has at most one live payment
behind a placed bid; nobody pays for an auction that another has already paid for, and
nobody wins one without a transaction; a user who is let in for the first time has a
complete account; whoever asks for a transaction is told its latest verdict, and the cached
NFT never goes back to an older version; an edition lists all of its NFTs or none; a fee is a part of its payment;
and every request ends and every key is freed.

## 2. Modules

| Module | What it is | Proved in |
|---|---|---|
| `AvnApiLock` | the lock, signer and polling of the AvN client, on any number of pods | `AvnApiLock_proofs` |
| `ApiMutex` | abstract: the client is given to one operation at a time | refinement proved |
| `NftListing` | one NFT: mint, list, cancel, confirmations, bus, network | `NftListing_proofs` |
| `AuctionLifecycle` | abstract: what a seller may rely on about an auction's status | refinement proved |
| `Bidding` | bids on one USD auction, with Stripe | `Bidding_proofs` |
| `FixedPriceSale` | purchases of one NFT at a fixed price | `FixedPriceSale_proofs` |
| `UserLogin` | authenticated requests of one person | `UserLogin_proofs` |
| `Confirmations` | documents, verdicts and cache refreshes of one NFT's transactions | `Confirmations_proofs` |
| `JobQueue` | what adding a job does; used by `Confirmations` and `FixedPriceSale` | – |
| `Editions` | the NFTs of a batch that the network has minted | `Editions_proofs` |
| `Fees` | the fee of a second-hand payment (operators, no behaviour) | `Fees_proofs` |
| `MC…` | small instances for TLC | – |

How they fit together: `NftListing` uses the API client through a variable `api` that
behaves like `ApiMutex`, which `AvnApiLock` is shown to implement until somebody polls
past the lease; past it, `api` is given to the next request while the former holder goes on
(`Lapse`, `lapsed`). `Bidding` and `FixedPriceSale` are about the same key `bid:<nft>` and
the same auction; each stands for the other by the refusals of the key and, in
`Bidding`, by `CloseAuction`. The cancellation that `NftListing` models in full is a
few steps of the surroundings in those two. `Confirmations` looks at what `NftListing`
leaves out of a confirmation: the transaction's document, and the refresh at the end; it takes
over that confirmations overlap once a lease has lapsed (`AvnApiLock_signer`). A purchase in
`FixedPriceSale` queues its notice with `JobQueue`, and the intents of second-hand sales carry
the fee of `Fees`. `UserLogin` is where the user and key
come from that all others suppose.

In every module a step is what runs between two awaits; local variables that live
across an await are variables of the model (`seen`, `toCancel`, `user`, …), everything
else is read where it is used. `pc` says at which await a request is. Logging, formats,
amounts other than bids, and checks of permissions are left out; a call that may throw
has a step in which it does. "Mutant" in a comment marks a variant of the operator
below it that is not part of the specification: it has a bug one could well make, and
shows that the properties notice it.

### AvnApiLock and ApiMutex

| Model | Code |
|---|---|
| `redisKey` | Redlock key `avn-api-instance`; `Released` deletes it only with the right value |
| `currentRedLock`, `currentAvnUser`, `signer`, `isInitialised` | fields of the singleton `AvnTransactionApiSetupService`, per pod |
| `Enter`, `Grant`, `Retry`, `GiveUp` | `lockAvnApiInstance` (retries on top of Redlock's) |
| `Install`, `Initialise`, `SetupFails` | `getAndLockAvnApiInstance`, `setAvnApiSigner` |
| `Send`, `SendFails` | the gateway's calls, and `remoteSign`, which reads the singleton when called back |
| `Poll`, `Confirm`, `Unlock` | background confirmation; `unlockAvnApiInstance` releases the lock object the pod keeps *now* |
| `Lapse`, `Crash`, `Rejects` | time to live; process death; an un-awaited mint that throws |

Time is polling time: `LeaseLoops` polls fit into the time to live, and a living
holder's key lapses only after that many polls of that holder (`MayLapse`).

### NftListing and AuctionLifecycle

| Model | Code |
|---|---|
| `nft`, `auctions` | NFT document, auction statuses |
| `MintRequest` …, `ListRequest` …, `CancelRequest` … | `NftService.mint`, `list`, `cancelListing`, one step per await |
| `Poll`, `ConfirmMint`, `ConfirmList`, `ConfirmCancel` | the gateway's confirmations with their status tables |
| `inbox`, `Deliver`, `replied` | `setStatusToNft` and `setAvnNftIdToNft` on every replica; awaited answers |
| `chain`, `ChainProcesses`, `ChainRejects` | the network (external): it may reject anything, and processes what is valid |
| `Unhide`, `ConfirmAuction` | the legacy back end (external) |
| `GiveUp` | `lockAvnApiInstance` after its last retry: an error for the caller, an unhandled rejection for a mint |
| `Unlock`, `UnlockFails` | `unlockAvnApiInstance` releases the lock object its process keeps by now; when that has lapsed the release fails, which nobody catches |
| `Lapse`, `lapsed` | the key's time to live: it outlives a holder that is gone, and lapses under one that has polled `LeaseLoops` times (120 s of up to 180 s) |
| `Fail`, `Die`, `LoseInbox` | a call that throws, a dead process, a dead replica |

`Abandoned` holders are those that will do nothing more: they have ended, or they wait for an
answer (`Unanswered`) that was lost with a replica's messages, which without a time-out is for ever.

### Bidding

| Model | Code |
|---|---|
| `Arrive` … `LockRefused` | `PaymentService.bid` up to the lock; `acquireBidRedlock` |
| `CheckBid`, `InsertBid`, `AddHistory` | `createBid`; errors here leave the key (`EndsLocked`) |
| `CreatePaymentIntent`, `AttachIntent` | `createPaymentIntentForBid`, `updateBidById` |
| `QueryPreviousBids`, `CancelIntent`, `MarkCanceled`, `CancelFails` | `cancelPreviousBidsForUser`: cancellations run side by side, and go on when one has failed the request |
| `ConfirmIntent`, `StampPaymentMethod` | confirmation; `requires_action` counts as confirmed |
| `ReadHighestBid`, `NotifyOutbid`, `WriteHighestBid` | `updateHighestBid`: the write has no condition |
| `Release`, `Lapse`, `Throws`, `Dies` | finally clause, time to live, errors, crashes |

`SlowBids` names the requests that may outlast the 120 s of the key.

### FixedPriceSale

| Model | Code |
|---|---|
| `AcquireBidRedlock` … `Release` | `buyNft` up to its finally clause: the key guards the checks only |
| `CheckPaymentMethod`, `CreateStripeCustomer` | the method on the auction must be the buyer's; a new customer has to come back, since the question for the updated user has the wrong shape |
| `Purchase` | the switch: USD, ETH, none; ADA matches no case and is answered without any effect |
| `CreatePaymentIntent` … `SetPaymentDetails` | `purchaseFiatNft`; then the missing `break` makes the request fail |
| `RecordTransactionHash` | `purchaseEthNft`, which falls through to the free purchase |
| `EndAuction` … `AddHistory`, `CompletionFails` | `completeFreeAuction`, which nobody awaits: its failure ends the process |
| `ComposeNotice`, `AddNotice` | the mail to the winner, between the mint transaction and the transfer: `getNftEmailData` over the bus, `addSendEmailJob`; an error fails the purchase |
| `CancelCheck`, `CancelClose`, `CancelEnds` | the seller's cancellation, one at a time |

### UserLogin

| Model | Code |
|---|---|
| `Find`, `UpdatePreferences`, `PublishCreate`, `CreateUser`, `Rollback` | `AuthService.validateUser` and the user service behind the bus |
| `AskVault`, `CreateVaultUser`, `VaultFails` | `getUserKeyOrCreateNewUser` with its retries |
| `StoreKey`, `SearchSplitFeeUser`, `SaveSplitFeeUser`, `SetupFails` | `setupAvnAccount`, `registerAsSplitFeeUser` |
| `docs`, `keyed`, `prefs` | the person's documents; a login's own are named after it and the replica |

Assumed of Vault: asked to create a user it has, it answers with that user's key (or
fails). Updates and deletions reach all replicas as creations do, but are idempotent,
so they are one step. The person's requests are alike: each is authenticated anew.

### Confirmations and JobQueue

| Model | Code |
|---|---|
| `earlier` | what the NFT was before the transactions looked at: a draft, minted or listed |
| `created`, `kind`, `state`, `history` | transaction documents in the order of creation; `history` keeps whose verdict an entry is |
| `CreateDocument` | `mintNft`, `listNft`, `cancelFiatNftListing`: a document with a fixed request id per NFT (mint) or auction (list, cancel) |
| `Admitted` | what may be asked for: `POST avn-transaction/mint` checks nothing; a listing is for a minted NFT, a cancellation for one on sale |
| `Poll` | the end of the polling; the statuses sent meanwhile, one per poll, are among the writes of `WriteAny` |
| `FindDocument`, `UpdateDocument` | `updateTransactionHistory`: `findOne`, then `updateOne` with `$set` and `$push`, both of the first document with the id |
| `GetNftId`, `StatusSettled` | what the confirmation still waits for |
| `AddRefresh` | `addUpdateCachedItemTask`; `addToQueue` adds a "task" three times: once before the switch, then by the missing `break`, and both queues are one Bull queue |
| `Added` | Bull drops a job whose id is waiting or active, and forgets ended ones |
| `sent`, `Write`, `written` | a status that is waited for, and the first replica that writes it and answers; nobody has to hear it |
| `nft`, `WriteAny` | the version of the NFT's document: any replica may write any status it was sent, and any service anything else, at any time and over what is there |
| `StartRefresh`, `EndRefresh` | the worker (external): it reads the NFT, and later writes its copy |

`cached` is the version the copy was read from. `owed` is a history variable: the confirmations that
waited for their status, asked for a refresh when none was running, and whose write no copy in the
cache has been read after. The worker is assumed to do its jobs.

### Editions

| Model | Code |
|---|---|
| `Receive`, `UpdateEdition`, `ListNfts`, `HandlerFails` | `handleEditionMinted`, on every replica that hears the event; an update may fail though it was written |
| `unsent`, `Ask` | the callbacks of `Promise.all`: after the edition is marked each asks for its NFT with a message of its own, also when another one has failed |
| `requests` | `createNft` messages: each goes to every replica that runs, and each answers |
| `GenerateNftId`, `InJson` | an id computed from the batch and the number is a binary UUID; over the bus it becomes a string, and `createNft` stores that |
| `maker` | NFT documents, by the id they are stored under; a second insertion is a duplicate key |
| `Insert`, `InsertFails`, `Answer` | `NftService.createNft`, and `firstValueFrom`: the first answer counts, later ones are dropped |
| `ids`, `listed` | `editionNftIds` in the order of the answers; `edition.nfts`: binary ids |
| `Crash`, `Restart` | a replica dies with its handlers, what they have not asked for yet and the messages it has heard |

### Fees

Amounts are integers (cents), rates parts per million and per mille. The code computes in floating
point, so `Rounded` and `Ceiled` are relations: on a boundary a value may fall to either side, and
`FeesTotal` is the set of fees the code may arrive at. `Asked` is the sum before the limit. Royalties
that are absent and royalties that are null are told apart (`NoRoyalties`, `NullRoyalties`), as in the
code only one of the two functions that look at them treats them alike.

## 3. Runs

| Run | Instance | Shows |
|---|---|---|
| `AvnApiLock_code` | 3 operations (one un-awaited mint), 2 pods, 2 polls, lease of 1 poll, 1 retry | `TypeOK`, `ExclusiveWithinLease`, `SignedByOwnerWithinLease`, `NoKeyLeftBehind`, `FreedByItsPod`, refinement of `ApiMutex`, `EveryOpEnds`, `KeyIsFreed` |
| `AvnApiLock_signer` | 3 operations, 1 pod, lease 2, 3 polls | finding: signed as another user |
| `NftListing_safe` | mint, 1 list, 2 cancels; one request served at a time, confirmations in the background; 2 polls, lease of 1; 2 replicas, 1 failure | `DatabaseAgreesWithChain`, refinement of `AuctionLifecycle` |
| `NftListing_live` | mint, list, cancel; two served at a time; 1 poll, lease of 1; 1 replica, 1 failure | `MintSettles`, `RequestsEnd` |
| `NftListing_rejected` | a rejected listing, cancelled | finding: for sale without being listed |
| `Bidding_prompt` | 3 bids, 2 users, 2 amounts, no slow request | `OneAuthorisationPerUser`, `CancelledByOwnRebid`, `HighestBidRises`, `OneBidOutlivesAuction`, `BidsEnd`, `BidLockIsFreed` |
| `Bidding_lost` | 2 bids of two users, slow | finding: the higher bid is overwritten |
| `FixedPriceSale_safe` | 2 purchases, 2 users, 2 pods, all currencies and NFTs, cancellations | `RecordedPaymentConfirmed`, `WinnerHasTransaction`, `MintedForWhoIsTold`, `LateBuyerIsRefused`, `PurchasesEnd`, `LockIsFreed` |
| `FixedPriceSale_twomints` | 2 purchases in ETH | finding: two mint transactions |
| `UserLogin_safe` | 2 requests, 2 replicas, 3 failures, 1 retry | `FirstLoginIsComplete`, `KeyedUnlessFailure`, `OnlyOwnRolledBack`, `LoginsEnd` |
| `Confirmations_safe` | 2 transactions of any kind (mint, list, cancel), the NFT a draft, minted or listed before | `VerdictsAreKept`, `CacheNeverGoesBack`, `CachedAfterTheWrite` |
| `Editions_safe` | 2 NFTs, 2 replicas, an event at each, 1 fault, restarts | `ListIsComplete`, `ListIsWrittenOnce`, `NftsAreCreated` |

Why these bounds are enough to be of interest. Three operations are the least that show
the wrong signer (holder, successor, intruder); a lease shorter than the polling is the
code's own proportion (120 s against 180 s), so leases do lapse under living holders; `NftListing_live`
has polls and lease of one, which lets the key lapse between the poll and the end of the confirmation. Two
cancellations and a listing are the least in which confirmations outlive their subject;
two replicas the least that can disagree. Three bids of two users let a user rebid below
and above another's bid. Two purchases are the least that overlap; a third one adds nothing
the properties, which speak of one purchase or of two, tell apart. Two logins on two
replicas give a creator, one who finds its document, and a document nobody completes. Two
transactions are the least that share a request id, and whose refreshes meet in the queue. Two
handlers on two replicas can each be refused an NFT the other had inserted, for two NFTs crosswise.
`MCFixedPriceSale` also evaluates the fees of a few payments as assumptions.

Bounds that are no part of the code: `MaxInFlight` and `MaxFaults` in `NftListing`
and `MaxFaults` in `UserLogin` and `Editions`; one cancellation at a time in `FixedPriceSale`.
`PollingLoops`, `LeaseLoops` and `MaxRetry` are the code's own limits, made small. In `Editions`
`MaxFaults` is less than the number of replicas, because Redis keeps no message: if every
replica dies the requests are gone, and nothing makes them again.

`CHECK_DEADLOCK FALSE` is set because every request may have ended. `NftListing_safe`
uses symmetry of cancellations and replicas, which neither `Init` nor any property tells
apart, and the constraint `Promised`, which cuts behaviours after the first lapse under a
confirmation: past it neither of its properties promises anything.

What the properties leave open on purpose. The code does not keep the client exclusive
beyond the lease, so `ExclusiveWithinLease` and the refinement speak of the time before
anybody has polled that long (`Overrun`). In `NftListing` the same holds of `DatabaseAgreesWithChain`
and `LifecycleSpec`: a key that lapses under a confirmation (`lapsed`) ends both promises, since
from then on the confirmation of a listing may outlive the listing and write over what a cancellation
wrote. `DatabaseAgreesWithChain` is, besides, about runs without failures in which nobody gave up
waiting for the client, every confirmation has learnt a verdict and no listing was rejected; without
these conditions the code gives no guarantee (`NftListing_rejected`). Both are about USD auctions: the
others are confirmed by the legacy back end. `LifecycleSpec` is checked with one request served at a
time; two overlapping cancellations break it, since the rejected one reopens the auction. It allows an
auction that stays closing, which a cancellation that cannot be sent leaves. `MintSettles` and
`RequestsEnd` are checked through lapses, give-ups and failures, and name their exceptions: a mint that
could not have the client, could not be sent or died stays minting, as may one whose messages a replica
lost; and a request may wait for ever for an answer that was lost, which is the only thing it can wait for
in vain. `Bidding_prompt`
supposes that no request outlasts its key, `Bidding_lost` shows why; `OneBidOutlivesAuction`
says how far the unguarded close goes: the one request that holds the key may still place its bid.
`CachedAfterTheWrite` is about the statuses a confirmation waits for, and says nothing of an add
that Bull dropped because a refresh was already running: that refresh may have read the NFT before.
It says that the copy was read after the write and not that it shows the status, over which a replica
that is late may have written an older one.
`MintedForWhoIsTold` says that a notice implies a mint transaction for its reader and not that the
NFT is his: the transfer comes later and may fail. `ListIsComplete` allows an edition without a
list, which is what two replicas that refuse each other leave; it is about which NFTs are listed and
not about finding them, for which the listed ids are of no use (section 5). `NftsAreCreated` starts from a
handler that lives or an NFT that was asked for: an edition that is marked may have no NFTs at all.

Fairness. Weak fairness of a request's steps says that a living process runs its
continuations and timers and that a call is answered or fails; of `Lapse`, that Redis
lets keys expire; of `Deliver` and `CreateUser` and, in `Editions`, of `Serve`, that a replica handles the messages it
has; of `Work` in `Confirmations`, that the worker runs. No fairness is strong: a request of `NftListing`
that waits for the client has it or gives up, since its attempts are numbered. Nothing makes a request
arrive, the network decide, a cardholder answer, a call fail, a process die or a replica restart; the
runs let each of these happen within their bounds, and what liveness then excepts is part of the
properties. That a call is answered or fails does not cover messages of Redis publish/subscribe: in
`NftListing` and `Editions` these may be lost, elsewhere it is an assumption that they are answered.

## 4. Proofs

`AvnApiLock_proofs`, for any pods, operations, lease, polling and retry limits:

* the inductive invariant `LockInv` adds to the properties where an operation's lock
  object may be (`LockObjectPlaced`), that a key just granted is there
  (`GrantedHasKey`), where operations run and how often they have polled (`Placed`), and
  that within the lease whoever uses the client has the key and is the one expected to
  sign (`UserHasKey`). Exclusion alone is not inductive: that a release frees only the
  releaser's key depends on where lock objects are kept.
* `Typing`, `Exclusive`, `OwnSignature`, `NothingLeftBehind` follow; `ForeignKeysAreSafe`
  is the action property; `ImplementsMutex` is the refinement of `ApiMutex`. A step that
  leads to an overrun empties the abstract client for good (`OverrunLasts`).

`Bidding_proofs`, for any requests, users and amounts:

* `BidInv`: what a request has left behind by how far it came (`Traces`), whose bids it
  cancels (`CancelsOwn`), and that each cancelled intent was followed by a later bid of
  its user (`FollowedUp`). `OwnRebids` follows, even for slow requests.
* `LockedInv`, if no request is slow: a request past the lock has the key, so the highest
  bid cannot change between its read and its write. `Rising` follows.
* `SettledInv`: the creation order, the completeness of the query for uncaptured bids, and
  that past the cancellations no earlier intent of the user is live. `OneAuthorisation`
  follows. The order is needed because "earlier" in the code is an order of creation times.

* `LastBid`, if no request is slow: a bid that becomes the highest of a closed auction is the
  only one under way, because whoever writes it has the key (`HighestChange`, `LockedInv`).

`FixedPriceSale_proofs`, for any purchases, buyers, pods, keys and cancellations:

* `Paths`: the currency settles which way a purchase takes, so that only card purchases reach
  Stripe, and only the others end the auction.
* `PaymentInv`: who records a payment has confirmed it, and the payment on a USD auction is that of
  a request that has ended since, so that nothing takes the confirmation back. `PaymentConfirmed`
  follows.
* `TransferInv`: a request past its transaction has made or found one for its buyer, and one past
  the notice has sent it. `WinnerIsGivenNft` and `Notified` follow. The invariant is per
  request, because several complete the same auction side by side.
* `Refused`: once another's payment is on a USD auction, requests of a buyer who had none under way
  stay before the point where an intent is made: whichever reads the auction sees the payment, which
  nobody takes off again. Every step keeps it, whoever holds the key. `LateBuyer` follows.

`UserLogin_proofs`, for any logins, replicas, retries and failures:

* `Typing` counts: the split-fee administration has been told at most once by each login
  that is past its setup (`SavedOnceEach`).
* `LoginInv`: a login that has asked for a document has not got one yet (`NothingYet`), deletes only
  documents of its own (`RollsBackOwn`), and the account it sets up for such a document stays as
  complete as it was (`SetUp`).
  `Complete` and `OwnOnly` follow; that others cannot disturb it rests on the documents of
  different logins being different (`OwnDocs`).
* `UntroubledInv`, while nothing has failed: nobody rolls back, so a document found is completed.
  `EverybodyHasKey` follows.

`NftListing_proofs`, for any listings, cancellations, replicas, polls and failures:

* `Types` adds to the types that requests poll only what they have sent (`Progress`): the tables
  of statuses are asked for states they have. `Typing` follows.
* `FollowsLifecycle` is the refinement of `AuctionLifecycle`, with `promised` as `~lapsed`. `HasApi` says,
  until a key lapses under a confirmation, that the client is with the request that polls or confirms
  (unless an answer is awaited that cannot come any more), `LifecycleInv` that an auction exists once it is created and is not withdrawn while its
  listing is under way, and that a cancellation that still writes is the only one of its target.
  The status alone is not inductive: a poll writes what the network says whatever the status is.
* `Agreement` is `DatabaseAgreesWithChain`. The runs that come to rest with a verdict are those
  that never leave `Sound`, which includes that no key lapsed and nobody gave up (`SoundBack`: once left
  it is never entered again), and in them:
  `Orderly` (nobody gave up between asking and learning the verdict); `MintInv` and `Minting` (a
  minted NFT has its AvN id, or it is on the bus, or the confirmation is still to send it);
  `ListedInv` (one listing at most stands; it is listed on the network unless its cancellation
  has just been processed; a cancellation comes after the verdict on its listing); and `SaidInv`:
  unless a request has still to speak, the last status on the bus of every replica is right, and
  the document is when no status is left on it. What makes it inductive is who has the last word:
  a status on the bus counts only if none follows it.
* `FollowsLifecycle` and `Agreement` suppose `Apart`: nobody asks for the cancellation of an auction
  while another request about it is still being answered, which a caller who waits for answers never
  does. Any number of requests may be served at the same time otherwise, and the confirmations, which
  run on after the answers, overlap with all of them. `OneAtATime` shows that the run's
  `MaxInFlight = 1` gives `Apart`. Without it the life cycle is broken (section 5).

`Editions_proofs`, for any replicas, events, quantity and faults:

* `Inv` adds to the types that an id a handler has an answer for, or one on its way, is that of an NFT
  made for that handler (the answer "inserted" is given to the maker only), that its ids are
  different, and that what is listed is the complete list of some handler that has ended, perhaps with an
  error because the answer to its last update was lost. `Complete` follows.
* `WrittenOnce`: a handler that writes the list has had every NFT made, so that no other can ever
  write; it needs `Quantity > 0`.

`Fees_proofs`, for every value, royalties and configuration: `FeeIsPartOfPayment`; with one
default entry `SharesAreRespected` (royalties and platform get their shares up to rounding) and
`LimitIsRounding` (the limit to the payment cuts off at most one cent).

`Confirmations_proofs`, for any number of transactions, of any kinds:

* `CacheInv`: there is one refresh in the queue at most, because its id is the NFT's, and the version it
  has read lies between that of the cached copy and that of the NFT's document. `NeverBack` follows.
* `DocInv`: once a document with a request id exists, the first one with it stays the first
  (`FirstStays`), so that a confirmation updates the document a lookup finds; an entry of a history
  is the verdict of its transaction, and is the only one of it. `Kept` follows. `FoundFirst` carries it from
  `findOne` to `updateOne`, which looks the id up again: no document created in between is found.
* `Typing`, with the count of adds still to be made (`Adding`).

The theorems rest on the named assumptions of the modules only (which TLC evaluates in the runs):
`LockAssumption`, `BiddingAssumption`, `SaleAssumption`, `LoginAssumption`, `ConfirmationsAssumption`,
`EditionsAssumption`, and of `NftListing` `ListingAssumption`, `RequestAssumption` (requests are finitely
many and told apart) and `BusAssumption` (somebody listens to the bus). Where stated they also
suppose `SlowBids = {}`, `Apart` or bounds of the percentages.

Only model-checked: all liveness, since fairness and `ENABLED` are out of the prover's reach:
`EveryOpEnds`, `KeyIsFreed`, `MintSettles`, `RequestsEnd`, `BidsEnd`, `BidLockIsFreed`, `PurchasesEnd`,
`LockIsFreed`, `LoginsEnd`, `CachedAfterTheWrite` and `NftsAreCreated`.

## 5. Divergences met

Four have a run and an entry under "findings". Seen while modelling, without a run:

* two list requests that overlap both find no sale and create two current auctions of one NFT
  (`nft.service.ts:219`, whose comment says "Throw if NFT is already on sale");
* two cancellations that overlap: the one the network rejects reopens the auction the other
  withdrew (`nft.service.ts:330`);
* a cancellation of an NFT that was bought before sets it to minted, not to owned (`nft.service.ts:299`,
  `…-api-gateway.service.ts:479`);
* a purchase in USD is authorised and recorded, then answered with an error (`nft.service.ts:894`);
* the hash of an ETH purchase is lost when the ownership is transferred (`listing.service.ts:600`);
* the NFT is read where it should be updated (`listing.service.ts:628`, `645`);
* a document of a new user per replica (`user.ms-controller.ts:61`); a user from before there
  were accounts whose registration fails is never registered (`auth.service.ts:106`);
* a repeated mint has a document nobody ever updates; whoever asks by request id is told the
  verdict of the earlier one meanwhile (`avn-transaction.service.ts:90`);
* a key lapses under a confirmation that polls on (`…-api-setup.service.ts:134`): the confirmation of a listing
  then outlives it and may set a withdrawn auction to error, or the NFT for sale (`…-api-gateway.service.ts:201`, `213`);
* a cancellation whose transaction cannot be sent leaves its auction closing, and a mint that cannot have the
  client its NFT minting, for good (`nft.service.ts:364`, `avn-transaction.service.ts:101`);
* statuses sent without waiting may be missed by the refresh that follows them (`…-api-gateway.service.ts:434`,
  `227`), and, as every replica writes every one, a replica that is late may write them over the status that
  was waited for (`nft.service.ts:437`);
* with two replicas each handler may be refused an NFT the other made, and the edition is never
  given its list (`edition.service.ts:318`);
* an edition is marked as minted before its NFTs are asked for, so that one whose replica dies in between, or is
  told that the update failed, has none (`edition.service.ts:290`);
* the ids an edition lists are binary UUIDs, while the NFTs made over the bus are stored under strings: no NFT is
  found by a listed id, such as the first one for its image (`edition.service.ts:299`, `nft.service.ts:595`, `724`); `createNft` drops the status it is sent
  (`nft.ms-controller.ts:143`), so that an edition's NFTs are drafts;
* `completeFreeAuction` keeps the buyers of free claims on the edition's listing (`listing.service.ts:530`), but only
  auctions at a fixed price are bought (`nft.service.ts:822`), so it never does;
* the id of a mail job ends in `undefined`, whatever the auction (`email.service.ts:145`), and the two
  notices to bidders always fail, because the question for the NFT has the wrong shape (`email.service.ts:95`);
* an NFT's own royalties are added up once per default entry (`listing.service.ts:393`), and royalties that are null
  count as zero there and as the default in the platform's fee (`listing.service.ts:395`, `430`).

## 6. Not modelled

Profiles and Auth0, assets, the HTTP surface and configuration have no state worth checking or only
forward to others; the job queue's consumers are outside the repository; the change stream never
runs; NFT histories are append-only records no decision depends on. Of editions, `createEdition` and
`mintEdition` ask the NFT service with fields it does not read and always fail, and the recount of
`updateEditionCounts` is not reached for NFTs made over the bus, whose ids are strings. The check of
listing prices and the formatting of currencies are validation. The notices to bidders change nothing
(see above).

## 7. Plan

Done, in this order: the API lock and its proofs, the listing life cycle, bidding and its
proofs, fixed-price sales, logins; then the notice of purchases, editions and
their proofs, fees and their proofs, confirmations, the job queue and their proofs; then the proofs
of fixed-price sales, logins and the listing life cycle. Next:

1. Proofs: lemmas that say more than the runs check, such as what the database may still be
   trusted for after a failure.
2. The cache of the Vault token.
