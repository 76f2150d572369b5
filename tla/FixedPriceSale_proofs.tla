------------------------ MODULE FixedPriceSale_proofs ------------------------
(***************************************************************************)
(* Theorems about FixedPriceSale, for any purchases, buyers and pods.      *)
(***************************************************************************)
EXTENDS FixedPriceSale, TLAPS

\* The jobs of a queue after one more was added.
LEMMA AddedIds ==
  ASSUME NEW queue, NEW job
  PROVE  {j.id : j \in Added(queue, job)} = {j.id : j \in queue} \union {job.id}
  BY DEF Added, Queued

-----------------------------------------------------------------------------
(* Types *)

LEMMA PurchaseGoesOn == TypeOK => Purchase[currency] \in PC
  BY SaleAssumption DEF TypeOK, Purchase, PC, Paying, Unawaited, Ended

LEMMA Dying ==
  ASSUME TypeOK, NEW p, PodDies(p)
  PROVE  pc' \in [Buys -> PC] /\ \A b \in Buys : pc'[b] \in {pc[b], "dead"}
  BY DEF TypeOK, PodDies, PC, Ended

LEMMA TypeStep == TypeOK /\ [Next]_vars => TypeOK'
<1> SUFFICES ASSUME TypeOK, [Next]_vars PROVE TypeOK'
  OBVIOUS
<1> USE DEF Goto, At
<1>1. ASSUME NEW b \in Buys, Arrive(b) \/ AcquireBidRedlock(b) \/ LockRefused(b) PROVE TypeOK'
  BY <1>1 DEF Arrive, AcquireBidRedlock, LockRefused, TypeOK, auction, stripe, avn, locals,
              PC, Locked, Ended
<1>2. ASSUME NEW b \in Buys, CheckAuction(b) \/ CheckPaymentMethod(b) \/ CreateStripeCustomer(b)
                             \/ CheckFails(b)
      PROVE  TypeOK'
  BY <1>2, SaleAssumption
     DEF CheckAuction, CheckPaymentMethod, CreateStripeCustomer, CheckFails, TypeOK,
         auction, stripe, avn, locals, PC, Locked
<1>3. ASSUME NEW b \in Buys, Release(b) PROVE TypeOK'
  <2>1. pc' \in [Buys -> PC]
    BY <1>3, PurchaseGoesOn DEF Release, TypeOK, PC, Ended
  <2> QED
    BY <1>3, <2>1 DEF Release, TypeOK, auction, stripe, avn, locals
<1>4. ASSUME NEW b \in Buys, CreatePaymentIntent(b) \/ GetPaymentMethods(b) \/ ConnectPaymentMethod(b)
                             \/ ConfirmPaymentIntent(b) \/ PurchaseFails(b) \/ Authenticate(b)
      PROVE  TypeOK'
  BY <1>4 DEF CreatePaymentIntent, GetPaymentMethods, ConnectPaymentMethod, ConfirmPaymentIntent,
              PurchaseFails, Authenticate, TypeOK, Intents, auction, stripe, avn, locals,
              PC, Paying, Ended
<1>5. ASSUME NEW b \in Buys, SetPaymentDetails(b) \/ RecordTransactionHash(b) PROVE TypeOK'
  BY <1>5 DEF SetPaymentDetails, RecordTransactionHash, TypeOK, stripe, avn, locals,
              PC, Unawaited, Ended
<1>6. ASSUME NEW b \in Buys, EndAuction(b) \/ FindMintTransaction(b) \/ CreateMintTransaction(b)
                             \/ ComposeNotice(b) \/ CreateSaleTransaction(b)
      PROVE  TypeOK'
  BY <1>6 DEF EndAuction, FindMintTransaction, CreateMintTransaction, ComposeNotice,
              CreateSaleTransaction, TypeOK, auction, stripe, avn, locals, PC, Unawaited
<1>7. ASSUME NEW b \in Buys, AddNotice(b) PROVE TypeOK'
  <2>1. notices' \subseteq [id: Users]
    <3>1. [id |-> Buyer[b]] \in [id: Users]
      BY SaleAssumption
    <3>2. notices' \in {notices, notices \union {[id |-> Buyer[b]]}}
      BY <1>7 DEF AddNotice, Added
    <3> QED
      BY <3>1, <3>2 DEF TypeOK
  <2> QED
    BY <1>7, <2>1 DEF AddNotice, TypeOK, auction, stripe, avn, locals, PC, Unawaited
<1>8. ASSUME NEW b \in Buys, TransferOwnership(b) \/ AddHistory(b) PROVE TypeOK'
  BY <1>8 DEF TransferOwnership, AddHistory, TypeOK, auction, stripe, avn, locals,
              PC, Unawaited, Ended
<1>9. ASSUME NEW b \in Buys, CompletionFails(b) PROVE TypeOK'
  <2>1. pc' \in [Buys -> PC]
    BY <1>9, Dying DEF CompletionFails, TypeOK, PC, Ended
  <2> QED
    BY <1>9, <2>1 DEF CompletionFails, TypeOK, auction, stripe, avn, locals
<1>10. ASSUME NEW p \in Pods, Crash(p) PROVE TypeOK'
  BY <1>10, Dying DEF Crash, TypeOK, auction, stripe, avn, locals
<1>11. CASE Lapse \/ CancelCheck \/ CancelClose \/ CancelEnds
  BY <1>11 DEF Lapse, CancelCheck, CancelClose, CancelEnds, TypeOK, auction, stripe, avn, locals
<1>12. CASE UNCHANGED vars
  BY <1>12 DEF vars, TypeOK, auction, stripe, avn, locals
<1> QED
  BY <1>1, <1>2, <1>3, <1>4, <1>5, <1>6, <1>7, <1>8, <1>9, <1>10, <1>11, <1>12 DEF Next, Step

(* Requests, auction, transactions and notices have their types, whatever  *)
(* the currency and the kind of the NFT.                                   *)
THEOREM Typing == Spec => []TypeOK
<1>1. Init => TypeOK
  BY DEF Init, TypeOK, PC, Intents
<1> QED
  BY <1>1, TypeStep, PTL DEF Spec
-----------------------------------------------------------------------------
(* Which way a purchase takes is settled by the currency, and a request    *)
(* moves on alone, or dies with others of its pod.                         *)
Card == {"creating", "listing", "connecting", "confirming", "recording"}
Paths ==
  \A b \in Buys :
    /\ pc[b] \in Card => currency = "USD"
    /\ pc[b] = "recordingHash" => currency = "ETH"
    /\ pc[b] \in Unawaited => currency \in {"ETH", "NONE"}

LEMMA PathsStep == TypeOK /\ Paths /\ [Next]_vars => Paths'
<1> SUFFICES ASSUME TypeOK, Paths, [Next]_vars PROVE Paths'
  OBVIOUS
<1> USE DEF Paths, Goto, At
<1>0. currency' = currency
  BY DEF Next, Step, Arrive, AcquireBidRedlock, LockRefused, CheckAuction, CheckPaymentMethod,
         CreateStripeCustomer, CheckFails, Release, CreatePaymentIntent, GetPaymentMethods,
         ConnectPaymentMethod, ConfirmPaymentIntent, SetPaymentDetails, RecordTransactionHash,
         PurchaseFails, Authenticate, EndAuction, FindMintTransaction, CreateMintTransaction,
         ComposeNotice, AddNotice, CreateSaleTransaction, TransferOwnership, AddHistory,
         CompletionFails, Crash, Lapse, CancelCheck, CancelClose, CancelEnds,
         vars, auction
<1>1. ASSUME NEW b \in Buys, Arrive(b) \/ AcquireBidRedlock(b) \/ LockRefused(b) \/ CheckAuction(b)
                             \/ CheckPaymentMethod(b) \/ CreateStripeCustomer(b) \/ CheckFails(b)
      PROVE  Paths'
  BY <1>0, <1>1 DEF Arrive, AcquireBidRedlock, LockRefused, CheckAuction, CheckPaymentMethod,
                    CreateStripeCustomer, CheckFails, TypeOK, Card, Unawaited
<1>2. ASSUME NEW b \in Buys, Release(b) PROVE Paths'
  <2>1. PICK label \in {"failed", Purchase[currency]} : pc' = [pc EXCEPT ![b] = label]
    BY <1>2 DEF Release
  <2>2. currency \in {"USD", "ETH", "ADA", "NONE"}
    BY SaleAssumption DEF TypeOK
  <2> QED
    BY <1>0, <2>1, <2>2 DEF TypeOK, Purchase, Card, Unawaited
<1>3. ASSUME NEW b \in Buys, CreatePaymentIntent(b) \/ GetPaymentMethods(b) \/ ConnectPaymentMethod(b)
                             \/ ConfirmPaymentIntent(b) \/ SetPaymentDetails(b)
                             \/ RecordTransactionHash(b) \/ PurchaseFails(b) \/ Authenticate(b)
      PROVE  Paths'
  BY <1>0, <1>3 DEF CreatePaymentIntent, GetPaymentMethods, ConnectPaymentMethod, ConfirmPaymentIntent,
                    SetPaymentDetails, RecordTransactionHash, PurchaseFails, Authenticate,
                    TypeOK, Card, Unawaited
<1>4. ASSUME NEW b \in Buys, EndAuction(b) \/ FindMintTransaction(b) \/ CreateMintTransaction(b)
                             \/ ComposeNotice(b) \/ AddNotice(b) \/ CreateSaleTransaction(b)
                             \/ TransferOwnership(b) \/ AddHistory(b)
      PROVE  Paths'
  BY <1>0, <1>4 DEF EndAuction, FindMintTransaction, CreateMintTransaction, ComposeNotice, AddNotice,
                    CreateSaleTransaction, TransferOwnership, AddHistory,
                    TypeOK, Card, Unawaited
<1>5. ASSUME NEW p, PodDies(p) PROVE Paths'
  BY <1>0, <1>5, Dying DEF Card, Unawaited
<1>6. ASSUME NEW b \in Buys, CompletionFails(b) PROVE Paths'
  BY <1>0, <1>5, <1>6 DEF CompletionFails, TypeOK, Card, Unawaited
<1>7. ASSUME NEW p \in Pods, Crash(p) PROVE Paths'
  BY <1>5, <1>7 DEF Crash
<1>8. CASE Lapse \/ CancelCheck \/ CancelClose \/ CancelEnds \/ UNCHANGED vars
  BY <1>0, <1>8 DEF Lapse, CancelCheck, CancelClose, CancelEnds, vars
<1> QED
  BY <1>1, <1>2, <1>3, <1>4, <1>6, <1>7, <1>8 DEF Next, Step

-----------------------------------------------------------------------------
(* The payment on a USD auction is that of a request that has ended after  *)
(* its confirmation: nothing it does later takes the confirmation back.    *)
Confirmed == {"requiresAction", "requiresMethod", "authorised"}
PaymentInv ==
  /\ \A b \in Buys : pc[b] = "recording" => intent[b] \in Confirmed
  /\ currency = "USD" /\ sale # NoBuy =>
       pc[sale] \in {"failed", "dead"} /\ intent[sale] \in Confirmed

LEMMA PaymentKept ==
  ASSUME TypeOK, PaymentInv, UNCHANGED <<currency, intent>>, currency = "USD" => sale' = sale,
         \A b \in Buys : pc'[b] = "recording" => pc[b] = "recording",
         \A b \in Buys : pc[b] \in {"failed", "dead"} => pc'[b] \in {"failed", "dead"}
  PROVE  PaymentInv'
  BY DEF TypeOK, PaymentInv

LEMMA PaymentStep == TypeOK /\ Paths /\ PaymentInv /\ [Next]_vars => PaymentInv'
<1> SUFFICES ASSUME TypeOK, Paths, PaymentInv, [Next]_vars PROVE PaymentInv'
  OBVIOUS
<1> USE DEF Goto, At
<1>1. ASSUME NEW b \in Buys, Arrive(b) \/ AcquireBidRedlock(b) \/ LockRefused(b) \/ CheckAuction(b)
                             \/ CheckPaymentMethod(b) \/ CreateStripeCustomer(b) \/ CheckFails(b)
                             \/ GetPaymentMethods(b)
      PROVE  PaymentInv'
  BY <1>1, PaymentKept DEF Arrive, AcquireBidRedlock, LockRefused, CheckAuction, CheckPaymentMethod,
                           CreateStripeCustomer, CheckFails, GetPaymentMethods, TypeOK, auction, stripe
<1>2. ASSUME NEW b \in Buys, Release(b) PROVE PaymentInv'
  <2>1. PICK label \in {"failed", Purchase[currency]} : pc' = [pc EXCEPT ![b] = label]
    BY <1>2 DEF Release
  <2>2. label # "recording"
    BY <2>1, SaleAssumption DEF TypeOK, Purchase
  <2>3. pc[b] \notin {"failed", "dead"} /\ UNCHANGED <<currency, intent, sale>>
    BY <1>2 DEF Release, auction, stripe
  <2> QED
    BY <2>1, <2>2, <2>3, PaymentKept DEF TypeOK
<1>3. ASSUME NEW b \in Buys, CreatePaymentIntent(b) \/ ConnectPaymentMethod(b)
                             \/ ConfirmPaymentIntent(b) \/ PurchaseFails(b)
      PROVE  PaymentInv'
  BY <1>3 DEF CreatePaymentIntent, ConnectPaymentMethod, ConfirmPaymentIntent, PurchaseFails,
              PaymentInv, Confirmed, TypeOK, Paying, auction
<1>4. ASSUME NEW b \in Buys, SetPaymentDetails(b) PROVE PaymentInv'
  BY <1>4 DEF SetPaymentDetails, PaymentInv, TypeOK, stripe
<1>5. ASSUME NEW b \in Buys, RecordTransactionHash(b) PROVE PaymentInv'
  BY <1>5, PaymentKept DEF RecordTransactionHash, Paths, TypeOK, stripe
<1>6. ASSUME NEW b \in Buys, Authenticate(b) PROVE PaymentInv'
  BY <1>6 DEF Authenticate, PaymentInv, Confirmed, TypeOK, auction
<1>7. ASSUME NEW b \in Buys, EndAuction(b) \/ FindMintTransaction(b) \/ CreateMintTransaction(b)
                             \/ ComposeNotice(b) \/ AddNotice(b) \/ CreateSaleTransaction(b)
                             \/ AddHistory(b)
      PROVE  PaymentInv'
  BY <1>7, PaymentKept DEF EndAuction, FindMintTransaction, CreateMintTransaction, ComposeNotice,
                           AddNotice, CreateSaleTransaction, AddHistory, TypeOK,
                           Unawaited, auction, stripe
<1>8. ASSUME NEW b \in Buys, TransferOwnership(b) PROVE PaymentInv'
  BY <1>8, PaymentKept DEF TransferOwnership, TypeOK, stripe
<1>9. ASSUME NEW p, PodDies(p), UNCHANGED <<auction, stripe>> PROVE PaymentInv'
  BY <1>9, Dying, PaymentKept DEF auction, stripe
<1>10. ASSUME NEW b \in Buys, CompletionFails(b) PROVE PaymentInv'
  BY <1>9, <1>10, PaymentKept DEF CompletionFails, TypeOK, auction, stripe
<1>11. ASSUME NEW p \in Pods, Crash(p) PROVE PaymentInv'
  BY <1>9, <1>11 DEF Crash
<1>12. CASE Lapse \/ CancelCheck \/ CancelClose \/ CancelEnds \/ UNCHANGED vars
  BY <1>12, PaymentKept DEF Lapse, CancelCheck, CancelClose, CancelEnds, vars, auction, stripe
<1> QED
  BY <1>1, <1>2, <1>3, <1>4, <1>5, <1>6, <1>7, <1>8, <1>10, <1>11, <1>12 DEF Next, Step
LEMMA PaymentInvariance == Spec => [](TypeOK /\ Paths /\ PaymentInv)
<1>1. Init => Paths /\ PaymentInv
  BY DEF Init, Paths, PaymentInv, Card, Unawaited
<1> QED
  BY <1>1, Typing, PathsStep, PaymentStep, PTL DEF Spec

(* setPaymentDetails replaces whatever payment was there: what it leaves   *)
(* is nevertheless one that Stripe has confirmed, however many purchases   *)
(* are past their checks at the same time.                                 *)
THEOREM PaymentConfirmed == Spec => []RecordedPaymentConfirmed
<1>1. PaymentInv => RecordedPaymentConfirmed
  BY DEF PaymentInv, RecordedPaymentConfirmed, Confirmed
<1> QED
  BY <1>1, PaymentInvariance, PTL

-----------------------------------------------------------------------------
(* What a purchase has done by how far its completion came: it mints or    *)
(* sells, then tells the buyer, then becomes the winner.                   *)
Past == {"reporting", "settling", "unwinding", "done", "dead"}
Telling == {"composing", "notifying", "notifyingAgain"}
Given(b) == b \in mintTx \union saleTx /\ (b \in mintTx => Buyer[b] \in Told)
TransferInv ==
  /\ \A b \in mintTx : pc[b] \in Telling \union {"transferring"} \union Past
  /\ \A b \in Buys : pc[b] \in Telling => b \in mintTx
  /\ \A b \in Buys : pc[b] = "notifyingAgain" => Buyer[b] \in Told
  /\ \A b \in Buys : pc[b] = "transferring" => Given(b)
  /\ winner # NoBuy => pc[winner] \in Past /\ Given(winner)
  /\ Told \subseteq {Buyer[b] : b \in mintTx}

LEMMA TransferKept ==
  ASSUME TypeOK, TransferInv, UNCHANGED <<winner, mintTx, notices>>, saleTx \subseteq saleTx',
         \A b \in Buys : pc'[b] \in Telling \union {"transferring"} => pc'[b] = pc[b],
         \A b \in Buys : pc[b] \in Telling \union {"transferring"} \union Past =>
                           pc'[b] = pc[b] \/ pc'[b] \in Past
  PROVE  TransferInv'
<1>1. Told' = Told
  BY DEF Told
<1>2. \A b \in Buys : Given(b) => Given(b)'
  BY <1>1 DEF Given
<1> QED
  BY <1>1, <1>2 DEF TypeOK, TransferInv, Telling, Past

LEMMA TransferStep == TypeOK /\ TransferInv /\ [Next]_vars => TransferInv'
<1> SUFFICES ASSUME TypeOK, TransferInv, [Next]_vars PROVE TransferInv'
  OBVIOUS
<1> USE DEF Goto, At
<1>1. ASSUME NEW b \in Buys, Arrive(b) \/ AcquireBidRedlock(b) \/ LockRefused(b) \/ CheckAuction(b)
                             \/ CheckPaymentMethod(b) \/ CreateStripeCustomer(b) \/ CheckFails(b)
      PROVE  TransferInv'
  BY <1>1, TransferKept DEF Arrive, AcquireBidRedlock, LockRefused, CheckAuction, CheckPaymentMethod,
                            CreateStripeCustomer, CheckFails, TypeOK, Telling, Past, auction, avn
<1>2. ASSUME NEW b \in Buys, Release(b) PROVE TransferInv'
  <2>1. PICK label \in {"failed", Purchase[currency]} : pc' = [pc EXCEPT ![b] = label]
    BY <1>2 DEF Release
  <2>2. label \notin Telling \union {"transferring"}
    BY <2>1, SaleAssumption DEF TypeOK, Purchase, Telling
  <2>3. pc[b] \in {"releasing", "aborting"} /\ UNCHANGED <<winner, mintTx, saleTx, notices>>
    BY <1>2 DEF Release, auction, avn
  <2> QED
    BY <2>1, <2>2, <2>3, TransferKept DEF TypeOK, Telling, Past
<1>3. ASSUME NEW b \in Buys, CreatePaymentIntent(b) \/ GetPaymentMethods(b) \/ ConnectPaymentMethod(b)
                             \/ ConfirmPaymentIntent(b) \/ SetPaymentDetails(b)
                             \/ RecordTransactionHash(b) \/ PurchaseFails(b) \/ Authenticate(b)
      PROVE  TransferInv'
  BY <1>3, TransferKept DEF CreatePaymentIntent, GetPaymentMethods, ConnectPaymentMethod,
                            ConfirmPaymentIntent, SetPaymentDetails, RecordTransactionHash,
                            PurchaseFails, Authenticate, TypeOK, Paying, Telling, Past,
                            auction, avn
<1>4. ASSUME NEW b \in Buys, EndAuction(b) \/ FindMintTransaction(b) \/ AddHistory(b)
      PROVE  TransferInv'
  BY <1>4, TransferKept DEF EndAuction, FindMintTransaction, AddHistory, TypeOK,
                            Unawaited, Telling, Past, auction, avn
<1>5. ASSUME NEW b \in Buys, CreateMintTransaction(b) PROVE TransferInv'
  <2>1. /\ pc[b] = "minting" /\ pc' = [pc EXCEPT ![b] = "composing"]
        /\ mintTx' = mintTx \union {b} /\ UNCHANGED <<winner, saleTx, notices>>
    BY <1>5 DEF CreateMintTransaction, auction
  <2>2. Told' = Told /\ b # winner
    BY <2>1, SaleAssumption DEF Told, TransferInv, Past, TypeOK
  <2> QED
    BY <2>1, <2>2, SaleAssumption DEF TypeOK, TransferInv, Given, Telling, Past
<1>6. ASSUME NEW b \in Buys, ComposeNotice(b) PROVE TransferInv'
  <2>1. Told' = Told
    BY <1>6 DEF ComposeNotice, Told
  <2> QED
    BY <1>6, <2>1 DEF ComposeNotice, TypeOK, TransferInv, Given, Telling, Past, auction, avn
<1>7. ASSUME NEW b \in Buys, AddNotice(b) PROVE TransferInv'
  <2>1. /\ pc[b] \in {"notifying", "notifyingAgain"} /\ UNCHANGED <<winner, mintTx, saleTx>>
        /\ \E label \in {"notifyingAgain", "transferring"} : pc' = [pc EXCEPT ![b] = label]
    BY <1>7 DEF AddNotice, auction, avn
  <2>2. Told' = Told \union {Buyer[b]}
    BY <1>7, AddedIds DEF AddNotice, Told
  <2>3. b \in mintTx
    BY <2>1 DEF TransferInv, Telling
  <2> QED
    BY <2>1, <2>2, <2>3 DEF TypeOK, TransferInv, Given, Telling, Past
<1>8. ASSUME NEW b \in Buys, CreateSaleTransaction(b) PROVE TransferInv'
  <2>1. /\ pc[b] = "selling" /\ pc' = [pc EXCEPT ![b] = "transferring"]
        /\ saleTx' = saleTx \union {b} /\ UNCHANGED <<winner, mintTx, notices>>
    BY <1>8 DEF CreateSaleTransaction, auction
  <2>2. Told' = Told /\ b \notin mintTx
    BY <2>1 DEF Told, TransferInv, Telling, Past
  <2> QED
    BY <2>1, <2>2 DEF TypeOK, TransferInv, Given, Telling, Past
<1>9. ASSUME NEW b \in Buys, TransferOwnership(b) PROVE TransferInv'
  <2>1. /\ pc[b] = "transferring" /\ pc' = [pc EXCEPT ![b] = "reporting"]
        /\ winner' = b /\ UNCHANGED <<mintTx, saleTx, notices>>
    BY <1>9 DEF TransferOwnership, avn
  <2>2. Told' = Told
    BY <2>1 DEF Told
  <2> QED
    BY <2>1, <2>2 DEF TypeOK, TransferInv, Given, Telling, Past
<1>10. ASSUME NEW p, PodDies(p), UNCHANGED <<auction, avn, notices>> PROVE TransferInv'
  BY <1>10, Dying, TransferKept DEF Telling, Past, auction, avn
<1>11. ASSUME NEW b \in Buys, CompletionFails(b) PROVE TransferInv'
  BY <1>10, <1>11, TransferKept DEF CompletionFails, TypeOK, Telling, Past,
                                    auction, avn
<1>12. ASSUME NEW p \in Pods, Crash(p) PROVE TransferInv'
  BY <1>10, <1>12 DEF Crash
<1>13. CASE Lapse \/ CancelCheck \/ CancelClose \/ CancelEnds \/ UNCHANGED vars
  BY <1>13, TransferKept DEF Lapse, CancelCheck, CancelClose, CancelEnds, vars, auction, avn
<1> QED
  BY <1>1, <1>2, <1>3, <1>4, <1>5, <1>6, <1>7, <1>8, <1>9, <1>11, <1>12, <1>13 DEF Next, Step

LEMMA TransferInvariance == Spec => [](TypeOK /\ TransferInv)
<1>1. Init => TransferInv
  BY SaleAssumption DEF Init, TransferInv, Told, Telling, Past
<1> QED
  BY <1>1, Typing, TransferStep, PTL DEF Spec

(* Nobody wins without a transaction that gives him the NFT.               *)
THEOREM WinnerIsGivenNft == Spec => []WinnerHasTransaction
<1>1. TransferInv => WinnerHasTransaction
  BY DEF TransferInv, Given, WinnerHasTransaction
<1> QED
  BY <1>1, TransferInvariance, PTL

(* Who is told has a mint transaction, and the winner of one was told.     *)
THEOREM Notified == Spec => []MintedForWhoIsTold
<1>1. TypeOK /\ TransferInv => MintedForWhoIsTold
  BY SaleAssumption DEF TypeOK, TransferInv, Given, MintedForWhoIsTold
<1> QED
  BY <1>1, TransferInvariance, PTL

-----------------------------------------------------------------------------
(* A late buyer's requests never come past their checks: the first of them *)
(* sees the other's payment, which nobody takes off a USD auction again.   *)
Refused(u) ==
  /\ currency = "USD"
  /\ sale # NoBuy
  /\ Buyer[sale] # u
  /\ \A b \in Buys : Buyer[b] = u =>
       /\ intent[b] = "none"
       /\ pc[b] \in {"idle", "locking", "checking", "checkingMethod", "aborting", "failed", "dead"}
       /\ pc[b] = "checkingMethod" => seen[b] # NoBuy /\ Buyer[seen[b]] # u

LEMMA RefusedKept ==
  ASSUME TypeOK, NEW u, Refused(u), UNCHANGED <<currency, sale, intent, seen>>,
         \A b \in Buys : pc'[b] = pc[b] \/ pc'[b] \in {"locking", "checking", "aborting", "failed", "dead"}
                         \/ Buyer[b] # u
  PROVE  Refused(u)'
  BY DEF Refused

LEMMA RefusedStep ==
  ASSUME NEW u
  PROVE  TypeOK /\ Paths /\ Refused(u) /\ [Next]_vars => Refused(u)'
<1> SUFFICES ASSUME TypeOK, Paths, Refused(u), [Next]_vars PROVE Refused(u)'
  OBVIOUS
<1> USE DEF Goto, At
<1>1. ASSUME NEW b \in Buys, Arrive(b) \/ AcquireBidRedlock(b) \/ LockRefused(b)
                             \/ CreateStripeCustomer(b) \/ CheckFails(b) \/ GetPaymentMethods(b)
      PROVE  Refused(u)'
  BY <1>1, RefusedKept DEF Arrive, AcquireBidRedlock, LockRefused, CreateStripeCustomer, CheckFails,
                           GetPaymentMethods, Refused, TypeOK, auction, stripe, locals
<1>2. ASSUME NEW b \in Buys, CheckAuction(b) PROVE Refused(u)'
  <2>1. /\ seen' = [seen EXCEPT ![b] = sale] /\ UNCHANGED <<currency, sale, intent>>
        /\ pc' = [pc EXCEPT ![b] = "checkingMethod"]
    BY <1>2 DEF CheckAuction, Refused, auction, stripe
  <2> QED
    BY <2>1 DEF Refused, TypeOK
<1>3. ASSUME NEW b \in Buys, CheckPaymentMethod(b) PROVE Refused(u)'
  BY <1>3, RefusedKept DEF CheckPaymentMethod, Refused, TypeOK, auction, stripe, locals
<1>4. ASSUME NEW b \in Buys, Release(b) PROVE Refused(u)'
  <2>1. CASE Buyer[b] = u
    <3>1. pc' = [pc EXCEPT ![b] = "failed"]
      BY <1>4, <2>1 DEF Release, Refused
    <3> QED
      BY <1>4, <3>1, RefusedKept DEF Release, TypeOK, auction, stripe, locals
  <2>2. CASE Buyer[b] # u
    <3>1. \E label : pc' = [pc EXCEPT ![b] = label]
      BY <1>4 DEF Release
    <3> QED
      BY <1>4, <2>2, <3>1, RefusedKept DEF Release, TypeOK, auction, stripe, locals
  <2> QED
    BY <2>1, <2>2
<1>5. ASSUME NEW b \in Buys, CreatePaymentIntent(b) \/ ConnectPaymentMethod(b)
                             \/ ConfirmPaymentIntent(b) \/ PurchaseFails(b)
      PROVE  Refused(u)'
  <2>1. Buyer[b] # u
    BY <1>5 DEF CreatePaymentIntent, ConnectPaymentMethod, ConfirmPaymentIntent, PurchaseFails,
                Paying, Refused
  <2>2. /\ UNCHANGED <<currency, sale, seen>>
        /\ \A c \in Buys \ {b} : pc'[c] = pc[c] /\ intent'[c] = intent[c]
    BY <1>5 DEF CreatePaymentIntent, ConnectPaymentMethod, ConfirmPaymentIntent, PurchaseFails,
                TypeOK, auction, locals
  <2> QED
    BY <2>1, <2>2 DEF Refused
<1>6. ASSUME NEW b \in Buys, SetPaymentDetails(b) PROVE Refused(u)'
  <2>1. Buyer[b] # u
    BY <1>6 DEF SetPaymentDetails, Refused
  <2>2. /\ UNCHANGED <<currency, intent, seen>> /\ sale' = b
        /\ \A c \in Buys \ {b} : pc'[c] = pc[c]
    BY <1>6 DEF SetPaymentDetails, TypeOK, stripe, locals
  <2> QED
    BY <2>1, <2>2, SaleAssumption DEF Refused
<1>7. ASSUME NEW b \in Buys, Authenticate(b) PROVE Refused(u)'
  <2>1. Buyer[b] # u
    BY <1>7 DEF Authenticate, Refused
  <2>2. /\ UNCHANGED <<currency, sale, seen, pc>>
        /\ \A c \in Buys \ {b} : intent'[c] = intent[c]
    BY <1>7 DEF Authenticate, TypeOK, auction, locals
  <2> QED
    BY <2>1, <2>2 DEF Refused
<1>8. ASSUME NEW b \in Buys, pc[b] = "recordingHash" \/ pc[b] \in Unawaited PROVE FALSE
  BY <1>8 DEF Paths, Refused
<1>9. ASSUME NEW p, PodDies(p), UNCHANGED <<currency, sale, intent, seen>> PROVE Refused(u)'
  BY <1>9, Dying, RefusedKept
<1>10. ASSUME NEW p \in Pods, Crash(p) PROVE Refused(u)'
  BY <1>9, <1>10 DEF Crash, auction, stripe, locals
<1>11. CASE Lapse \/ CancelCheck \/ CancelClose \/ CancelEnds \/ UNCHANGED vars
  BY <1>11, RefusedKept DEF Lapse, CancelCheck, CancelClose, CancelEnds, vars, auction, stripe, locals
<1>12. ASSUME NEW b \in Buys, \/ RecordTransactionHash(b) \/ EndAuction(b) \/ FindMintTransaction(b)
                              \/ CreateMintTransaction(b) \/ ComposeNotice(b) \/ AddNotice(b)
                              \/ CreateSaleTransaction(b) \/ TransferOwnership(b) \/ AddHistory(b)
                              \/ CompletionFails(b)
       PROVE  FALSE
  BY <1>8, <1>12 DEF RecordTransactionHash, EndAuction, FindMintTransaction, CreateMintTransaction,
                     ComposeNotice, AddNotice, CreateSaleTransaction, TransferOwnership, AddHistory,
                     CompletionFails, Unawaited
<1> QED
  BY <1>1, <1>2, <1>3, <1>4, <1>5, <1>6, <1>7, <1>10, <1>11, <1>12 DEF Next, Step

(* Once a payment is on a USD auction, nobody else who starts to buy after *)
(* that is ever charged, though the key is given back before the payment.  *)
THEOREM LateBuyer == Spec => LateBuyerIsRefused
<1> SUFFICES ASSUME NEW u \in Users
             PROVE  Spec => [](TooLate(u) => [](\A b \in Buys : Buyer[b] = u => intent[b] = "none"))
  BY DEF LateBuyerIsRefused
<1>1. TooLate(u) => Refused(u)
  BY DEF TooLate, NotStarted, Refused
<1>2. Refused(u) => \A b \in Buys : Buyer[b] = u => intent[b] = "none"
  BY DEF Refused
<1>3. TypeOK /\ Paths /\ Refused(u) /\ [Next]_vars => Refused(u)'
  BY RefusedStep
<1> QED
  BY <1>1, <1>2, <1>3, PaymentInvariance, PTL DEF Spec
=============================================================================
