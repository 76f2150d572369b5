--------------------------- MODULE Bidding_proofs ---------------------------
(***************************************************************************)
(* What holds of the bids on an auction for any number of requests, users  *)
(* and amounts.                                                            *)
(***************************************************************************)
EXTENDS Bidding, FiniteSetTheorems, TLAPS

USE BiddingAssumption

-----------------------------------------------------------------------------
(* The inductive invariants. *)

Unsent == {"idle", "locking", "checking", "inserting"}
NoIntentYet == Unsent \union {"recording", "paying", "intending"}

\* What a request has left behind in the database and at Stripe, by how far it came.
Traces ==
  \A b \in Bids :
    /\ pc[b] \in Unsent => createdAt[b] = 0
    /\ pc[b] \in NoIntentYet => intent[b] = "none"
    /\ pc[b] \in NoIntentYet \union {"attaching"} => b \notin attached
    /\ pc[b] \in {"recording", "paying"} \union InTry => createdAt[b] # 0
    /\ pc[b] \in InTry \ {"intending"} => intent[b] # "none"
    /\ pc[b] \in InTry \ {"intending", "attaching"} => b \in attached
    /\ b \in attached => createdAt[b] # 0 /\ intent[b] # "none"

\* A request cancels earlier bids of its own user only, and records what it cancelled.
CancelsOwn ==
  \A b, c \in Bids :
    /\ c \in toCancel[b] \union toMark[b] =>
         Bidder[c] = Bidder[b] /\ createdAt[c] < createdAt[b] /\ c \in attached
    /\ c \in toMark[b] => intent[c] = "cancelled"

\* A cancelled intent is that of a bid which its user followed by a later one.
FollowedUp ==
  \A c \in Bids : intent[c] = "cancelled" =>
    \E b \in Bids : Bidder[b] = Bidder[c] /\ createdAt[c] < createdAt[b]

BidInv == TypeOK /\ Traces /\ CancelsOwn /\ FollowedUp

-----------------------------------------------------------------------------
Inserted == {c \in Bids : createdAt[c] # 0}

LEMMA InsertedCount == Cardinality(Inserted) \in Nat
<1>1. Inserted \in SUBSET Bids
  BY DEF Inserted
<1> QED BY <1>1, FS_Subset, FS_CardinalityType

LEMMA BidInit == Init => BidInv
  BY DEF Init, BidInv, TypeOK, Traces, CancelsOwn, FollowedUp, Unsent, NoIntentYet,
         PC, Running, BeforeTry, InTry, InFinally, Ended, Intents

LEMMA BidNext == BidInv /\ [Next]_vars => BidInv'
<1> SUFFICES ASSUME BidInv, [Next]_vars PROVE BidInv'
  OBVIOUS
<1> USE DEF BidInv, TypeOK, At, Goto, auction, bids, locals,
            PC, Running, BeforeTry, InTry, InFinally, Ended, Intents
<1>1. ASSUME NEW b \in Bids, NEW v \in Offers[b], Arrive(b, v) PROVE BidInv'
  <2> v \in Nat
    BY BiddingAssumption
  <2>1. TypeOK'
    BY <1>1 DEF Arrive
  <2>2. Traces'
    BY <1>1 DEF Arrive, Traces, Unsent, NoIntentYet
  <2>3. CancelsOwn'
    BY <1>1 DEF Arrive, Traces, CancelsOwn, Unsent, NoIntentYet
  <2>4. FollowedUp'
    BY <1>1 DEF Arrive, Traces, CancelsOwn, FollowedUp, Unsent, NoIntentYet
  <2> QED BY <2>1, <2>2, <2>3, <2>4
<1>2. ASSUME NEW b \in Bids,
             AcquireBidRedlock(b) \/ LockRefused(b) \/ Release(b) \/ EndsLocked(b)
             \/ CheckBid(b) \/ AddHistory(b) \/ FindPaymentMethod(b)
      PROVE  BidInv'
  <2>1. CASE Release(b)
    <3>1. TypeOK'
      BY <2>1 DEF Release
    <3>2. Traces'
      BY <2>1 DEF Release, Traces, Unsent, NoIntentYet
    <3>3. CancelsOwn'
      BY <2>1 DEF Release, CancelsOwn
    <3>4. FollowedUp'
      BY <2>1 DEF Release, FollowedUp
    <3> QED BY <3>1, <3>2, <3>3, <3>4
  <2>2. CASE AcquireBidRedlock(b) \/ LockRefused(b) \/ EndsLocked(b)
    <3>1. TypeOK'
      BY <2>2 DEF AcquireBidRedlock, LockRefused, EndsLocked
    <3>2. Traces'
      BY <2>2 DEF AcquireBidRedlock, LockRefused, EndsLocked, Traces, Unsent, NoIntentYet
    <3>3. CancelsOwn'
      BY <2>2 DEF AcquireBidRedlock, LockRefused, EndsLocked, CancelsOwn
    <3>4. FollowedUp'
      BY <2>2 DEF AcquireBidRedlock, LockRefused, EndsLocked, FollowedUp
    <3> QED BY <3>1, <3>2, <3>3, <3>4
  <2>3. CASE CheckBid(b)
    <3>1. TypeOK'
      BY <2>3 DEF CheckBid
    <3>2. Traces'
      BY <2>3 DEF CheckBid, Traces, Unsent, NoIntentYet
    <3>3. CancelsOwn'
      BY <2>3 DEF CheckBid, CancelsOwn
    <3>4. FollowedUp'
      BY <2>3 DEF CheckBid, FollowedUp
    <3> QED BY <3>1, <3>2, <3>3, <3>4
  <2>4. CASE AddHistory(b) \/ FindPaymentMethod(b)
    <3>1. TypeOK'
      BY <2>4 DEF AddHistory, FindPaymentMethod
    <3>2. Traces'
      BY <2>4 DEF AddHistory, FindPaymentMethod, Traces, Unsent, NoIntentYet
    <3>3. CancelsOwn'
      BY <2>4 DEF AddHistory, FindPaymentMethod, CancelsOwn
    <3>4. FollowedUp'
      BY <2>4 DEF AddHistory, FindPaymentMethod, FollowedUp
    <3> QED BY <3>1, <3>2, <3>3, <3>4
  <2> QED BY <1>2, <2>1, <2>2, <2>3, <2>4
<1>3. ASSUME NEW b \in Bids, InsertBid(b) PROVE BidInv'
  <2>1. PICK n \in Nat : n > 0 /\ createdAt' = [createdAt EXCEPT ![b] = n]
    <3>1. Cardinality(Inserted) + 1 \in Nat /\ Cardinality(Inserted) + 1 > 0
      BY InsertedCount
    <3>2. createdAt' = [createdAt EXCEPT ![b] = Cardinality(Inserted) + 1]
      BY <1>3 DEF InsertBid, Inserted
    <3> QED BY <3>1, <3>2
  <2>2. createdAt[b] = 0 /\ b \notin attached /\ intent[b] = "none"
    BY <1>3 DEF InsertBid, Traces, Unsent, NoIntentYet
  <2>3. TypeOK'
    BY <1>3, <2>1 DEF InsertBid
  <2>4. Traces'
    BY <1>3, <2>1, <2>2 DEF InsertBid, Traces, Unsent, NoIntentYet
  <2>5. CancelsOwn'
    BY <1>3, <2>1, <2>2 DEF InsertBid, CancelsOwn
  <2>6. FollowedUp'
    BY <1>3, <2>1, <2>2 DEF InsertBid, FollowedUp
  <2> QED BY <2>3, <2>4, <2>5, <2>6
<1>4. ASSUME NEW b \in Bids, CreatePaymentIntent(b) PROVE BidInv'
  <2>1. TypeOK'
    BY <1>4 DEF CreatePaymentIntent
  <2>2. Traces'
    BY <1>4 DEF CreatePaymentIntent, Traces, Unsent, NoIntentYet
  <2>3. CancelsOwn'
    BY <1>4 DEF CreatePaymentIntent, Traces, CancelsOwn, Unsent, NoIntentYet
  <2>4. FollowedUp'
    BY <1>4 DEF CreatePaymentIntent, Traces, CancelsOwn, FollowedUp, Unsent, NoIntentYet
  <2> QED BY <2>1, <2>2, <2>3, <2>4
<1>5. ASSUME NEW b \in Bids, AttachIntent(b) PROVE BidInv'
  <2>1. TypeOK'
    BY <1>5 DEF AttachIntent
  <2>2. Traces'
    BY <1>5 DEF AttachIntent, Traces, Unsent, NoIntentYet
  <2>3. CancelsOwn'
    BY <1>5 DEF AttachIntent, Traces, CancelsOwn, Unsent, NoIntentYet
  <2>4. FollowedUp'
    BY <1>5 DEF AttachIntent, Traces, CancelsOwn, FollowedUp, Unsent, NoIntentYet
  <2> QED BY <2>1, <2>2, <2>3, <2>4
<1>6. ASSUME NEW b \in Bids, QueryPreviousBids(b) PROVE BidInv'
  <2> PreviousBids(b) \subseteq Bids
    BY DEF PreviousBids, Uncaptured
  <2>1. TypeOK'
    BY <1>6 DEF QueryPreviousBids
  <2>2. Traces'
    BY <1>6 DEF QueryPreviousBids, PreviousBids, Uncaptured, Traces, Unsent, NoIntentYet
  <2>3. CancelsOwn'
    BY <1>6 DEF QueryPreviousBids, PreviousBids, Uncaptured, Traces, CancelsOwn
  <2>4. FollowedUp'
    BY <1>6 DEF QueryPreviousBids, PreviousBids, Uncaptured, FollowedUp
  <2> QED BY <2>1, <2>2, <2>3, <2>4
<1>7. ASSUME NEW b \in Bids, NEW c \in Bids, CancelIntent(b, c) PROVE BidInv'
  <2>1. TypeOK'
    BY <1>7 DEF CancelIntent
  <2>2. Traces'
    <3>1. createdAt[c] # 0 /\ intent[c] # "none" /\ pc[c] \notin NoIntentYet
      BY <1>7 DEF CancelIntent, CancelsOwn, Traces
    <3>2. UNCHANGED <<pc, createdAt, attached>> /\ intent' = [intent EXCEPT ![c] = "cancelled"]
      BY <1>7 DEF CancelIntent
    <3> QED BY <3>1, <3>2 DEF Traces, Unsent, NoIntentYet
  <2>3. CancelsOwn'
    BY <1>7 DEF CancelIntent, Traces, CancelsOwn, Unsent, NoIntentYet
  <2>4. FollowedUp'
    BY <1>7 DEF CancelIntent, Traces, CancelsOwn, FollowedUp, Unsent, NoIntentYet
  <2> QED BY <2>1, <2>2, <2>3, <2>4
<1>8. ASSUME NEW b \in Bids, NEW c \in Bids, MarkCanceled(b, c) \/ CancelFails(b, c)
      PROVE  BidInv'
  <2>1. TypeOK'
    BY <1>8 DEF MarkCanceled, CancelFails
  <2>2. Traces'
    BY <1>8 DEF MarkCanceled, CancelFails, Traces, Unsent, NoIntentYet
  <2>3. CancelsOwn'
    BY <1>8 DEF MarkCanceled, CancelFails, Traces, CancelsOwn, Unsent, NoIntentYet
  <2>4. FollowedUp'
    BY <1>8 DEF MarkCanceled, CancelFails, Traces, CancelsOwn, FollowedUp, Unsent, NoIntentYet
  <2> QED BY <2>1, <2>2, <2>3, <2>4
<1>9. ASSUME NEW b \in Bids, AllCanceled(b) \/ StampPaymentMethod(b) \/ ReadHighestBid(b)
                             \/ WriteHighestBid(b) \/ NotifyOutbid(b)
      PROVE  BidInv'
  <2>1. TypeOK'
    BY <1>9 DEF AllCanceled, StampPaymentMethod, ReadHighestBid, WriteHighestBid,
         NotifyOutbid
  <2>2. Traces'
    BY <1>9 DEF AllCanceled, StampPaymentMethod, ReadHighestBid, WriteHighestBid,
         NotifyOutbid, Traces, Unsent, NoIntentYet
  <2>3. CancelsOwn'
    BY <1>9 DEF AllCanceled, StampPaymentMethod, ReadHighestBid, WriteHighestBid,
         NotifyOutbid, Traces, CancelsOwn
  <2>4. FollowedUp'
    BY <1>9 DEF AllCanceled, StampPaymentMethod, ReadHighestBid, WriteHighestBid,
         NotifyOutbid, FollowedUp
  <2> QED BY <2>1, <2>2, <2>3, <2>4
<1>10. ASSUME NEW b \in Bids, ConfirmIntent(b) \/ Throws(b) \/ Authenticate(b) PROVE BidInv'
  <2>1. TypeOK'
    BY <1>10 DEF ConfirmIntent, Throws, Authenticate
  <2>2. Traces'
    BY <1>10 DEF ConfirmIntent, Throws, Authenticate, Traces, Unsent, NoIntentYet
  <2>3. CancelsOwn'
    BY <1>10 DEF ConfirmIntent, Throws, Authenticate, Traces, CancelsOwn, Unsent, NoIntentYet
  <2>4. FollowedUp'
    BY <1>10 DEF ConfirmIntent, Throws, Authenticate, Traces, CancelsOwn, FollowedUp, Unsent, NoIntentYet
  <2> QED BY <2>1, <2>2, <2>3, <2>4
<1>11. ASSUME NEW b \in Bids, Dies(b) PROVE BidInv'
  <2>1. TypeOK'
    BY <1>11 DEF Dies
  <2>2. Traces'
    BY <1>11 DEF Dies, Traces, Unsent, NoIntentYet
  <2>3. CancelsOwn'
    BY <1>11 DEF Dies, Traces, CancelsOwn
  <2>4. FollowedUp'
    BY <1>11 DEF Dies, FollowedUp
  <2> QED BY <2>1, <2>2, <2>3, <2>4
<1>12. CASE Lapse
  BY <1>12 DEF Lapse, Traces, CancelsOwn, FollowedUp
<1>13. CASE CloseAuction
  BY <1>13 DEF CloseAuction, Traces, CancelsOwn, FollowedUp
<1>14. CASE UNCHANGED vars
  BY <1>14 DEF vars, Traces, CancelsOwn, FollowedUp
<1> QED BY <1>1, <1>2, <1>3, <1>4, <1>5, <1>6, <1>7, <1>8, <1>9, <1>10, <1>11, <1>12, <1>13,
       <1>14 DEF Next, Step

LEMMA BidInvariant == Spec => []BidInv
<1> QED BY BidInit, BidNext, PTL DEF Spec

\* Type correctness.
THEOREM Typing == Spec => []TypeOK
<1> QED BY BidInvariant, PTL DEF BidInv

\* The payment of the highest bid is only cancelled by its own user's later
\* bid, even if every request outlasts its key.
THEOREM OwnRebids == Spec => []CancelledByOwnRebid
<1>1. BidInv => CancelledByOwnRebid
  BY DEF BidInv, TypeOK, FollowedUp, CancelledByOwnRebid
<1> QED BY BidInvariant, <1>1, PTL

-----------------------------------------------------------------------------
(* While no request outlasts its key. *)

\* A request past the lock has the key.
KeyHeld == \A b \in Bids : pc[b] \in Running => bidLock = b

\* So the highest bid cannot change between a request's read and its write.
SeenIsHighest == \A b \in Bids : At(b, "writing") => seen[b] = highestBidId

LockedInv == KeyHeld /\ SeenIsHighest

LEMMA LockedInit == Init => LockedInv
  BY DEF Init, LockedInv, KeyHeld, SeenIsHighest, At, Running, BeforeTry, InTry, InFinally

LEMMA LockedNext == SlowBids = {} /\ BidInv /\ LockedInv /\ [Next]_vars => LockedInv'
<1> SUFFICES ASSUME SlowBids = {}, BidInv, LockedInv, [Next]_vars PROVE LockedInv'
  OBVIOUS
<1> USE DEF BidInv, TypeOK, LockedInv, KeyHeld, SeenIsHighest, At, Goto, auction, bids, locals,
            Running, BeforeTry, InTry, InFinally, Ended
<1>1. ASSUME NEW b \in Bids, \/ LockRefused(b) \/ EndsLocked(b) \/ Dies(b)
                             \/ \E v \in Offers[b] : Arrive(b, v)
      PROVE  LockedInv'
  BY <1>1 DEF LockRefused, EndsLocked, Dies, Arrive
<1>2. ASSUME NEW b \in Bids, AcquireBidRedlock(b) \/ Release(b) PROVE LockedInv'
  BY <1>2 DEF AcquireBidRedlock, Release
<1>3. ASSUME NEW b \in Bids, \/ CheckBid(b) \/ AddHistory(b) \/ FindPaymentMethod(b)
                             \/ CreatePaymentIntent(b) \/ AttachIntent(b)
      PROVE  LockedInv'
  BY <1>3 DEF CheckBid, AddHistory, FindPaymentMethod, CreatePaymentIntent, AttachIntent
<1>4. ASSUME NEW b \in Bids, InsertBid(b) PROVE LockedInv'
  BY <1>4 DEF InsertBid
<1>5. ASSUME NEW b \in Bids, QueryPreviousBids(b) \/ AllCanceled(b) PROVE LockedInv'
  BY <1>5 DEF QueryPreviousBids, AllCanceled
<1>6. ASSUME NEW b \in Bids, NEW c \in Bids,
             CancelIntent(b, c) \/ MarkCanceled(b, c) \/ CancelFails(b, c)
      PROVE  LockedInv'
  BY <1>6 DEF CancelIntent, MarkCanceled, CancelFails
<1>7. ASSUME NEW b \in Bids, ConfirmIntent(b) \/ StampPaymentMethod(b) \/ Throws(b)
      PROVE  LockedInv'
  BY <1>7 DEF ConfirmIntent, StampPaymentMethod, Throws
<1>8. ASSUME NEW b \in Bids, ReadHighestBid(b) \/ NotifyOutbid(b) PROVE LockedInv'
  BY <1>8 DEF ReadHighestBid, NotifyOutbid
<1>9. ASSUME NEW b \in Bids, WriteHighestBid(b) PROVE LockedInv'
  BY <1>9 DEF WriteHighestBid
<1>10. ASSUME NEW b \in Bids, Authenticate(b) PROVE LockedInv'
  BY <1>10 DEF Authenticate
<1>11. CASE Lapse
  BY <1>11 DEF Lapse, MayLapse
<1>12. CASE CloseAuction
  BY <1>12 DEF CloseAuction
<1>13. CASE UNCHANGED vars
  BY <1>13 DEF vars
<1> QED BY <1>1, <1>2, <1>3, <1>4, <1>5, <1>6, <1>7, <1>8, <1>9, <1>10, <1>11, <1>12, <1>13
        DEF Next, Step

\* Only the update of the highest bid changes it.
LEMMA HighestChange ==
  ASSUME [Next]_vars, highestBidId' # highestBidId
  PROVE  \E b \in Bids : WriteHighestBid(b)
  <1>1. ASSUME NEW b \in Bids, Step(b) PROVE WriteHighestBid(b)
    <2>1. CASE AcquireBidRedlock(b) \/ LockRefused(b) \/ Release(b) \/ CheckBid(b)
               \/ InsertBid(b) \/ AddHistory(b) \/ FindPaymentMethod(b) \/ EndsLocked(b)
      BY <2>1 DEF AcquireBidRedlock, LockRefused, Release, CheckBid, InsertBid, AddHistory,
             FindPaymentMethod, EndsLocked, auction
    <2>2. CASE CreatePaymentIntent(b) \/ AttachIntent(b) \/ QueryPreviousBids(b)
      BY <2>2 DEF CreatePaymentIntent, AttachIntent, QueryPreviousBids, auction
    <2>3. CASE \E c \in Bids : CancelIntent(b, c) \/ MarkCanceled(b, c) \/ CancelFails(b, c)
      BY <2>3 DEF CancelIntent, MarkCanceled, CancelFails, auction
    <2>4. CASE AllCanceled(b) \/ ConfirmIntent(b) \/ StampPaymentMethod(b) \/ ReadHighestBid(b)
               \/ NotifyOutbid(b) \/ Throws(b)
      BY <2>4 DEF AllCanceled, ConfirmIntent, StampPaymentMethod, ReadHighestBid, NotifyOutbid,
             Throws, auction
    <2> QED BY <1>1, <2>1, <2>2, <2>3, <2>4 DEF Step
  <1>2. ~Lapse /\ ~CloseAuction /\ ~UNCHANGED vars
    BY DEF Lapse, CloseAuction, vars, auction
  <1>3. \A b \in Bids : ~Dies(b) /\ ~Authenticate(b) /\ \A v \in Offers[b] : ~Arrive(b, v)
    BY DEF Dies, Authenticate, Arrive, auction
  <1> QED BY <1>1, <1>2, <1>3 DEF Next

\* The highest bid is only ever replaced by a higher one.
THEOREM Rising == SlowBids = {} => (Spec => HighestBidRises)
<1> SUFFICES ASSUME SlowBids = {} PROVE Spec => HighestBidRises
  OBVIOUS
<1>1. LockedInv /\ BidInv /\ [Next]_vars
      => [highestBidId' # highestBidId =>
            /\ highestBidId' # NoBid
            /\ highestBidId # NoBid => value[highestBidId'] > value[highestBidId]]_vars
  <2> SUFFICES ASSUME LockedInv, BidInv, [Next]_vars, highestBidId' # highestBidId
               PROVE  /\ highestBidId' # NoBid
                      /\ highestBidId # NoBid => value[highestBidId'] > value[highestBidId]
    OBVIOUS
  <2>1. PICK b \in Bids : WriteHighestBid(b)
    BY HighestChange
  <2>2. seen[b] = highestBidId
    BY <2>1 DEF WriteHighestBid, LockedInv, SeenIsHighest
  <2>3. highestBidId \in Bids \union {NoBid}
    BY DEF BidInv, TypeOK
  <2>4. \A c \in Bids : value[c] \in Nat
    BY DEF BidInv, TypeOK
  <2> QED BY <2>1, <2>2, <2>3, <2>4 DEF WriteHighestBid
<1>2. LockedInv /\ BidInv /\ [Next]_vars => LockedInv'
  BY LockedNext
<1> QED BY BidInvariant, LockedInit, <1>1, <1>2, PTL DEF Spec, HighestBidRises

\* A bid that becomes the highest of a closed auction is the only one under way.
THEOREM LastBid == SlowBids = {} => (Spec => OneBidOutlivesAuction)
<1> SUFFICES ASSUME SlowBids = {} PROVE Spec => OneBidOutlivesAuction
  OBVIOUS
<1>1. LockedInv /\ BidInv /\ [Next]_vars
      => [~auctionOpen /\ highestBidId' # highestBidId =>
            \A b \in Bids \ {highestBidId'} : pc[b] \notin Running]_vars
  <2> SUFFICES ASSUME LockedInv, BidInv, [Next]_vars, highestBidId' # highestBidId,
                      NEW c \in Bids \ {highestBidId'}, pc[c] \in Running
               PROVE  FALSE
    OBVIOUS
  <2>1. PICK b \in Bids : WriteHighestBid(b)
    BY HighestChange
  <2>2. bidLock = b /\ bidLock = c
    BY <2>1 DEF WriteHighestBid, At, LockedInv, KeyHeld, Running, InTry
  <2> QED BY <2>1, <2>2 DEF WriteHighestBid
<1>2. LockedInv /\ BidInv /\ [Next]_vars => LockedInv'
  BY LockedNext
<1> QED BY BidInvariant, LockedInit, <1>1, <1>2, PTL DEF Spec, OneBidOutlivesAuction

-----------------------------------------------------------------------------
(* One authorisation per user, while no request outlasts its key. *)

Live == {"requiresAction", "authorised"}

\* The creation order has no gaps above, and the request that has the key is
\* the last that inserted a bid.
InOrder ==
  /\ \A b \in Bids : createdAt[b] <= Cardinality(Inserted)
  /\ \A b, c \in Bids :
       pc[b] \in Running /\ createdAt[b] # 0 => createdAt[c] <= createdAt[b]

\* The query for uncaptured bids misses no live intent.
LiveIsUncaptured ==
  \A c \in Bids :
    /\ intent[c] \in Live => c \in attached
    /\ c \in canceled => intent[c] = "cancelled"

Earlier(b) ==
  {c \in Bids : Bidder[c] = Bidder[b] /\ createdAt[c] # 0 /\ createdAt[c] < createdAt[b]}

Cleared == {"confirming", "stamping", "reading", "writing", "notifying", "releasing", "done"}

\* A request that cancels has still to cancel every live earlier intent of its
\* user; past that there is none left.
Settled ==
  \A b \in Bids : \A c \in Earlier(b) :
    /\ At(b, "cancelling") /\ intent[c] \in Live => c \in toCancel[b]
    /\ pc[b] \in Cleared => intent[c] \notin Live

SettledInv == InOrder /\ LiveIsUncaptured /\ Settled

LEMMA SettledInit == Init => SettledInv
<1> SUFFICES ASSUME Init PROVE SettledInv
  OBVIOUS
<1>1. Inserted = {}
  BY DEF Init, Inserted
<1>2. InOrder
  BY <1>1, FS_EmptySet DEF Init, InOrder
<1>3. LiveIsUncaptured /\ Settled
  BY DEF Init, LiveIsUncaptured, Settled, Earlier, Live, Cleared, At
<1> QED BY <1>2, <1>3 DEF SettledInv

LEMMA InOrderNext ==
  ASSUME SlowBids = {}, BidInv, LockedInv, InOrder, [Next]_vars
  PROVE  InOrder'
<1> USE DEF BidInv, TypeOK, LockedInv, KeyHeld, At, Goto, auction, bids, locals,
            Running, BeforeTry, InTry, InFinally, Ended
<1>1. ASSUME NEW b \in Bids, InsertBid(b) PROVE InOrder'
  <2> DEFINE n == Cardinality(Inserted)
  <2>1. n \in Nat /\ createdAt' = [createdAt EXCEPT ![b] = n + 1]
    BY <1>1, InsertedCount DEF InsertBid, Inserted
  <2>2. createdAt[b] = 0
    BY <1>1 DEF InsertBid, Traces, Unsent
  <2>3. Inserted' = Inserted \union {b} /\ b \notin Inserted
    <3>1. n + 1 # 0
      BY <2>1
    <3>2. \A c \in Bids : createdAt'[c] # 0 <=> createdAt[c] # 0 \/ c = b
      BY <2>1, <3>1
    <3> QED BY <2>2, <3>2 DEF Inserted
  <2>4. IsFiniteSet(Inserted)
    <3>1. Inserted \in SUBSET Bids
      BY DEF Inserted
    <3> QED BY <3>1, FS_Subset
  <2>5. Cardinality(Inserted') = n + 1
    BY <2>3, <2>4, FS_AddElement
  <2>6. \A c \in Bids : createdAt'[c] <= n + 1
    BY <2>1 DEF InOrder
  <2>7. \A d \in Bids : pc'[d] \in Running => d = b
    BY <1>1 DEF InsertBid
  <2>8. createdAt'[b] = n + 1
    BY <2>1
  <2> QED BY <2>5, <2>6, <2>7, <2>8 DEF InOrder
<1>2. CASE createdAt' = createdAt /\ \A b \in Bids : pc'[b] \in Running => pc[b] \in Running
  BY <1>2 DEF InOrder, Inserted
<1>3. ASSUME NEW b \in Bids, AcquireBidRedlock(b) PROVE InOrder'
  BY <1>3 DEF AcquireBidRedlock, InOrder, Inserted, Traces, Unsent
<1>4. ASSUME NEW b \in Bids, \/ LockRefused(b) \/ EndsLocked(b) \/ Dies(b) \/ Release(b)
                             \/ \E v \in Offers[b] : Arrive(b, v)
      PROVE  InOrder'
  BY <1>4, <1>2 DEF LockRefused, EndsLocked, Dies, Arrive, Release
<1>5. ASSUME NEW b \in Bids, \/ CheckBid(b) \/ AddHistory(b) \/ FindPaymentMethod(b)
                             \/ CreatePaymentIntent(b) \/ AttachIntent(b)
      PROVE  InOrder'
  BY <1>5, <1>2 DEF CheckBid, AddHistory, FindPaymentMethod, CreatePaymentIntent, AttachIntent
<1>6. ASSUME NEW b \in Bids, NEW c \in Bids,
             \/ CancelIntent(b, c) \/ MarkCanceled(b, c) \/ CancelFails(b, c)
             \/ QueryPreviousBids(b) \/ AllCanceled(b)
      PROVE  InOrder'
  BY <1>6, <1>2 DEF CancelIntent, MarkCanceled, CancelFails, QueryPreviousBids, AllCanceled
<1>7. ASSUME NEW b \in Bids, \/ ConfirmIntent(b) \/ StampPaymentMethod(b) \/ Throws(b)
                             \/ ReadHighestBid(b) \/ WriteHighestBid(b) \/ NotifyOutbid(b)
                             \/ Authenticate(b)
      PROVE  InOrder'
  BY <1>7, <1>2 DEF ConfirmIntent, StampPaymentMethod, Throws, ReadHighestBid,
         WriteHighestBid, NotifyOutbid, Authenticate
<1>8. CASE Lapse \/ CloseAuction
  BY <1>8, <1>2 DEF Lapse, CloseAuction
<1>9. CASE UNCHANGED vars
  BY <1>9, <1>2 DEF vars
<1> QED BY <1>1, <1>3, <1>4, <1>5, <1>6, <1>7, <1>8, <1>9 DEF Next, Step

LEMMA LiveIsUncapturedNext ==
  ASSUME BidInv, LiveIsUncaptured, [Next]_vars
  PROVE  LiveIsUncaptured'
<1> USE DEF BidInv, TypeOK, LiveIsUncaptured, Live, At, Goto, auction, bids, locals
<1>1. CASE UNCHANGED <<intent, attached, canceled>>
  BY <1>1
<1>2. ASSUME NEW b \in Bids, CreatePaymentIntent(b) \/ Authenticate(b) PROVE LiveIsUncaptured'
  BY <1>2 DEF CreatePaymentIntent, Authenticate, Traces, NoIntentYet
<1>3. ASSUME NEW b \in Bids, ConfirmIntent(b) \/ Throws(b) PROVE LiveIsUncaptured'
  BY <1>3 DEF ConfirmIntent, Throws, Traces, InTry
<1>4. ASSUME NEW b \in Bids, AttachIntent(b) \/ StampPaymentMethod(b) PROVE LiveIsUncaptured'
  BY <1>4 DEF AttachIntent, StampPaymentMethod
<1>5. ASSUME NEW b \in Bids, NEW c \in Bids, CancelIntent(b, c) \/ MarkCanceled(b, c)
      PROVE  LiveIsUncaptured'
  BY <1>5 DEF CancelIntent, MarkCanceled, CancelsOwn
<1>6. ASSUME NEW b \in Bids, \/ AcquireBidRedlock(b) \/ LockRefused(b) \/ Release(b)
                             \/ CheckBid(b) \/ InsertBid(b) \/ AddHistory(b)
                             \/ FindPaymentMethod(b) \/ EndsLocked(b) \/ Dies(b)
                             \/ \E v \in Offers[b] : Arrive(b, v)
      PROVE  UNCHANGED <<intent, attached, canceled>>
  BY <1>6 DEF AcquireBidRedlock, LockRefused, Release, CheckBid, InsertBid, AddHistory,
         FindPaymentMethod, EndsLocked, Dies, Arrive
<1>7. ASSUME NEW b \in Bids, \/ QueryPreviousBids(b) \/ AllCanceled(b) \/ ReadHighestBid(b)
                             \/ WriteHighestBid(b) \/ NotifyOutbid(b)
                             \/ \E c \in Bids : CancelFails(b, c)
      PROVE  UNCHANGED <<intent, attached, canceled>>
  BY <1>7 DEF QueryPreviousBids, AllCanceled, ReadHighestBid, WriteHighestBid, NotifyOutbid,
         CancelFails
<1>8. CASE Lapse \/ CloseAuction \/ UNCHANGED vars
  BY <1>8, <1>1 DEF Lapse, CloseAuction, vars
<1> QED BY <1>1, <1>2, <1>3, <1>4, <1>5, <1>6, <1>7, <1>8 DEF Next, Step

LEMMA SettledNext ==
  ASSUME SlowBids = {}, BidInv, LockedInv, InOrder, LiveIsUncaptured, Settled, [Next]_vars
  PROVE  Settled'
<1> USE DEF BidInv, TypeOK, Settled, Earlier, Live, Cleared, At, Goto, auction, bids, locals
<1>1. ASSUME NEW b \in Bids, InsertBid(b) PROVE Settled'
  <2> DEFINE n == Cardinality(Inserted)
  <2>1. n \in Nat /\ createdAt' = [createdAt EXCEPT ![b] = n + 1]
    BY <1>1, InsertedCount DEF InsertBid, Inserted
  <2>2. \A c \in Bids : createdAt[c] < n + 1
    BY <2>1 DEF InOrder
  <2> HIDE DEF n
  <2>3. \A d \in Bids : d # b => Earlier(d)' \subseteq Earlier(d)
    BY <2>1, <2>2
  <2> QED BY <1>1, <2>3 DEF InsertBid
<1>2. ASSUME NEW b \in Bids, ConfirmIntent(b) \/ Throws(b) PROVE Settled'
  <2>1. ASSUME NEW d \in Bids, b \in Earlier(d) PROVE pc[d] \notin Cleared \union {"cancelling"}
    <3>1. pc[b] \in Running /\ createdAt[b] # 0
      BY <1>2 DEF ConfirmIntent, Throws, Traces, Running, InTry
    <3>2. createdAt[d] <= createdAt[b]
      BY <3>1 DEF InOrder
    <3> QED BY <2>1, <3>2
  <2> QED BY <1>2, <2>1 DEF ConfirmIntent, Throws, InTry
<1>3. ASSUME NEW b \in Bids, QueryPreviousBids(b) PROVE Settled'
  BY <1>3 DEF QueryPreviousBids, PreviousBids, Uncaptured, LiveIsUncaptured
<1>4. ASSUME NEW b \in Bids, NEW c \in Bids, CancelIntent(b, c) PROVE Settled'
  BY <1>4 DEF CancelIntent
<1>5. ASSUME NEW b \in Bids, NEW c \in Bids, MarkCanceled(b, c) \/ CancelFails(b, c)
      PROVE  Settled'
  BY <1>5 DEF MarkCanceled, CancelFails
<1>6. ASSUME NEW b \in Bids, AllCanceled(b) \/ Authenticate(b) PROVE Settled'
  BY <1>6 DEF AllCanceled, Authenticate
<1>7. ASSUME NEW b \in Bids, CreatePaymentIntent(b) \/ AttachIntent(b) PROVE Settled'
  BY <1>7 DEF CreatePaymentIntent, AttachIntent
<1>8. ASSUME NEW b \in Bids, \/ AcquireBidRedlock(b) \/ LockRefused(b) \/ Release(b)
                             \/ EndsLocked(b) \/ Dies(b) \/ \E v \in Offers[b] : Arrive(b, v)
      PROVE  Settled'
  BY <1>8 DEF AcquireBidRedlock, LockRefused, Release, EndsLocked, Dies, Arrive, InFinally
<1>9. ASSUME NEW b \in Bids, CheckBid(b) \/ AddHistory(b) \/ FindPaymentMethod(b)
      PROVE  Settled'
  BY <1>9 DEF CheckBid, AddHistory, FindPaymentMethod
<1>10. ASSUME NEW b \in Bids, \/ StampPaymentMethod(b) \/ ReadHighestBid(b)
                              \/ WriteHighestBid(b) \/ NotifyOutbid(b)
       PROVE  Settled'
  BY <1>10 DEF StampPaymentMethod, ReadHighestBid, WriteHighestBid, NotifyOutbid
<1>11. CASE Lapse \/ CloseAuction \/ UNCHANGED vars
  BY <1>11 DEF Lapse, CloseAuction, vars
<1> QED BY <1>1, <1>2, <1>3, <1>4, <1>5, <1>6, <1>7, <1>8, <1>9, <1>10, <1>11 DEF Next, Step

\* A placed bid is the only one of its user with money behind it.
THEOREM OneAuthorisation == SlowBids = {} => (Spec => []OneAuthorisationPerUser)
<1> SUFFICES ASSUME SlowBids = {} PROVE Spec => []OneAuthorisationPerUser
  OBVIOUS
<1>1. BidInv /\ LockedInv /\ SettledInv /\ [Next]_vars => LockedInv' /\ SettledInv'
  BY LockedNext, InOrderNext, LiveIsUncapturedNext, SettledNext DEF SettledInv
<1>2. SettledInv => OneAuthorisationPerUser
  BY DEF SettledInv, Settled, Earlier, Cleared, Live, OneAuthorisationPerUser, At
<1> QED BY BidInvariant, LockedInit, SettledInit, <1>1, <1>2, PTL DEF Spec
=============================================================================
