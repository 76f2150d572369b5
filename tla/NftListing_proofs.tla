-------------------------- MODULE NftListing_proofs --------------------------
(***************************************************************************)
(* Theorems about NftListing, for any requests, replicas, polls and        *)
(* faults.                                                                 *)
(***************************************************************************)
EXTENDS NftListing, FiniteSetTheorems, TLAPS

-----------------------------------------------------------------------------
(* Types.  A request polls at most PollingLoops times because it counts    *)
(* from zero and stops polling when it has used them up; what it writes to *)
(* the bus or to an auction is a status because a request that polls has   *)
(* sent its transaction, and one that is past the loop has polled.         *)
Msgs == [set: NftStatus \union {"avnNftId", "undefined"}, re: Reqs \union {None}]
Sent == {"sent", "processed", "rejected"}
Early == {"idle", "locking", "sending"} \union Serving
Cancelling == {"closing", "closingNft", "withdrawing", "withdrawn", "locking", "sending", "polling"}
TypeInv ==
  /\ nft \in [status: NftStatus, avnNftId: BOOLEAN, isHidden: BOOLEAN]
  /\ soldBefore \in BOOLEAN
  /\ auctions \in [Lists -> AuctionStatus]
  /\ currency \in [Lists -> Currencies \union {None}]
  /\ target \in [Cancels -> Lists \union {None}]
  /\ pc \in [Reqs -> PC]
  /\ polls \in [Reqs -> 0..PollingLoops]
  /\ polled \in [Reqs -> PollStates \union {None}]
  /\ api \in Reqs \union {None}
  /\ inbox \in [Replicas -> Seq(Msgs)]
  /\ replied \subseteq Reqs
  /\ faults \in 0..MaxFaults
  /\ lapsed \in BOOLEAN /\ lost \in BOOLEAN
Progress ==
  /\ chain \in [minted: BOOLEAN, listed: BOOLEAN, tx: [Reqs -> Sent \union {None}]]
  /\ \A c \in Cancels : pc[c] \in Cancelling => target[c] \in Lists
  /\ \A r \in Reqs :
       /\ pc[r] \in Early => polls[r] = 0
       /\ pc[r] = "polling" => polls[r] < PollingLoops /\ chain.tx[r] \in Sent
       /\ pc[r] = "confirming" => polled[r] \in PollStates
Types == TypeInv /\ Progress

LEMMA PublishIs ==
  ASSUME TypeInv, NEW set \in NftStatus \union {"avnNftId", "undefined"}, NEW re \in Reqs \union {None},
         Publish(set, re)
  PROVE  inbox' \in [Replicas -> Seq(Msgs)]
<1> DEFINE msg == [set |-> set, re |-> re]
<1>1. msg \in Msgs
  BY DEF Msgs
<1>2. inbox' = [p \in Replicas |-> Append(inbox[p], msg)]
  BY DEF Publish
<1> HIDE DEF msg
<1>3. ASSUME NEW p \in Replicas PROVE Append(inbox[p], msg) \in Seq(Msgs)
  BY <1>1 DEF TypeInv
<1> QED
  BY <1>2, <1>3

LEMMA ObservableIs ==
  ASSUME NEW r, chain.tx[r] \in Sent
  PROVE  Observable(r) \subseteq PollStates
  BY DEF Observable, PollStates, Sent

\* A release that fails may end any requests besides its own, and changes nothing else.
LEMMA FailingReleaseEnds ==
  ASSUME TypeInv, NEW r \in Reqs, UnlockFails(r)
  PROVE  /\ pc' \in [Reqs -> PC]
         /\ \A q \in Reqs : /\ pc'[q] \in {pc[q], "dead"}
                            /\ pc[q] = "idle" => pc'[q] = "idle"
         /\ UNCHANGED <<nft, soldBefore, auctions, currency, target, polls, polled, api, inbox,
                         replied, chain, faults, lapsed, lost>>
<1>1. PICK ran \in SUBSET Reqs :
        pc' = [q \in Reqs |-> IF q = r \/ (q \in ran /\ pc[q] \notin Ended \union {"idle"})
                             THEN "dead" ELSE pc[q]]
  BY DEF UnlockFails
<1>2. pc[r] = "unlocking" /\ "dead" \in PC
  BY DEF UnlockFails, PC, Ended
<1>3. ASSUME NEW q \in Reqs
      PROVE  pc'[q] \in {pc[q], "dead"} /\ (pc[q] = "idle" => pc'[q] = "idle") /\ pc[q] \in PC
  BY <1>1, <1>2 DEF TypeInv
<1> QED
  BY <1>1, <1>2, <1>3 DEF UnlockFails, docs, input, polling, bus, past

LEMMA TypeStep == Types /\ [Next]_vars => TypeInv'
<1> SUFFICES ASSUME TypeInv, Progress, [Next]_vars PROVE TypeInv'
  BY DEF Types
<1> USE ListingAssumption DEF Goto, docs, input, polling, bus, past, Reqs
<1>1. ASSUME NEW p \in Replicas, Deliver(p) PROVE TypeInv'
  <2> DEFINE msg == Head(inbox[p])
  <2>1. msg \in Msgs /\ inbox' \in [Replicas -> Seq(Msgs)]
    BY <1>1 DEF Deliver, TypeInv
  <2>2. /\ nft' = IF msg.set = "avnNftId" THEN [nft EXCEPT !.avnNftId = TRUE]
                  ELSE IF msg.set = "undefined" THEN nft
                  ELSE [nft EXCEPT !.status = msg.set]
        /\ replied' = replied \union ({msg.re} \ {None})
        /\ UNCHANGED <<soldBefore, auctions, currency, target, pc, polls, polled, api, faults, lapsed, lost>>
    BY <1>1 DEF Deliver
  <2> HIDE DEF msg
  <2>3. msg.set \in NftStatus \union {"avnNftId", "undefined"} /\ msg.re \in Reqs \union {None}
    BY <2>1 DEF Msgs
  <2>4. nft' \in [status: NftStatus, avnNftId: BOOLEAN, isHidden: BOOLEAN]
    BY <2>2, <2>3 DEF TypeInv
  <2> QED
    BY <2>1, <2>2, <2>3, <2>4 DEF TypeInv
<1>2. CASE MintRequest
  BY <1>2 DEF MintRequest, TypeInv, NftStatus, PC
<1>3. CASE Unhide \/ Lapse
  <2>1. /\ nft' \in {nft, [nft EXCEPT !.isHidden = FALSE]} /\ api' \in {api, None}
        /\ lapsed' \in BOOLEAN
    BY <1>3 DEF Unhide, Lapse, TypeInv
  <2> QED
    BY <1>3, <2>1 DEF Unhide, Lapse, TypeInv
<1>4. ASSUME NEW l \in Lists, ListRequest(l) \/ ListCheckSale(l) PROVE TypeInv'
  <2>1. pc' \in [Reqs -> PC]
    BY <1>4 DEF ListRequest, ListCheckSale, TypeInv, PC, Serving, Ended
  <2>2. currency' \in [Lists -> Currencies \union {None}]
    <3>1. currency' = currency \/ \E c \in Currencies : currency' = [currency EXCEPT ![l] = c]
      BY <1>4 DEF ListRequest, ListCheckSale
    <3> QED
      BY <3>1 DEF TypeInv
  <2> QED
    BY <1>4, <2>1, <2>2 DEF ListRequest, ListCheckSale, TypeInv
<1>15. ASSUME NEW l \in Lists, ListMark(l) PROVE TypeInv'
  BY <1>15 DEF ListMark, TypeInv, NftStatus, PC, Serving
<1>16. ASSUME NEW l \in Lists, ListCreate(l) \/ ConfirmAuction(l) PROVE TypeInv'
  <2>1. PICK label \in PC : pc' = [pc EXCEPT ![l] = label] \/ pc' = pc
    BY <1>16 DEF ListCreate, ConfirmAuction, PC, Ended
  <2>2. PICK s \in AuctionStatus : auctions' = [auctions EXCEPT ![l] = s] \/ auctions' = auctions
    BY <1>16 DEF ListCreate, ConfirmAuction, AuctionStatus
  <2>3. pc' \in [Reqs -> PC]
    BY <2>1 DEF TypeInv
  <2>4. auctions' \in [Lists -> AuctionStatus]
    BY <2>2 DEF TypeInv
  <2> QED
    BY <1>16, <2>3, <2>4 DEF ListCreate, ConfirmAuction, TypeInv
<1>17. ASSUME NEW c \in Cancels, CancelRequest(c) PROVE TypeInv'
  BY <1>17 DEF CancelRequest, TypeInv, PC, Serving
<1>18. ASSUME NEW c \in Cancels, CancelClose(c) \/ CancelWithdraw(c) PROVE TypeInv'
  <2>1. PICK s \in AuctionStatus : auctions' = [auctions EXCEPT ![target[c]] = s]
    BY <1>18 DEF CancelClose, CancelWithdraw, AuctionStatus
  <2>2. PICK label \in PC : pc' = [pc EXCEPT ![c] = label]
    BY <1>18 DEF CancelClose, CancelWithdraw, PC, Serving, Ended
  <2> QED
    BY <1>18, <2>1, <2>2 DEF CancelClose, CancelWithdraw, TypeInv
<1>19. ASSUME NEW c \in Cancels, CancelMark(c) PROVE TypeInv'
  <2>1. PICK label \in PC : pc' = [pc EXCEPT ![c] = label]
    BY <1>19 DEF CancelMark, PC, Serving
  <2>2. nft' \in [status: NftStatus, avnNftId: BOOLEAN, isHidden: BOOLEAN]
    BY <1>19 DEF CancelMark, TypeInv, NftStatus
  <2>3. pc' \in [Reqs -> PC]
    BY <2>1 DEF TypeInv
  <2> QED
    BY <1>19, <2>2, <2>3 DEF CancelMark, TypeInv
<1>5. ASSUME NEW c \in Cancels, CancelRestoreNft(c) PROVE TypeInv'
  <2>1. inbox' \in [Replicas -> Seq(Msgs)]
    BY <1>5, PublishIs DEF CancelRestoreNft, NftStatus
  <2> QED
    BY <1>5, <2>1 DEF CancelRestoreNft, TypeInv, PC, Serving
<1>6. ASSUME NEW r \in Reqs, Acquire(r) \/ GiveUp(r) \/ Send(r) \/ Answered(r) \/ Unlock(r)
      PROVE  TypeInv'
  <2>1. PICK label \in PC : pc' = [pc EXCEPT ![r] = label]
    BY <1>6 DEF Acquire, GiveUp, Send, Answered, Unlock, PC, Background, Ended
  <2> QED
    BY <1>6, <2>1 DEF Acquire, GiveUp, Send, Answered, Unlock, TypeInv
<1>20. ASSUME NEW r \in Reqs, UnlockFails(r) PROVE TypeInv'
  BY <1>20, FailingReleaseEnds DEF TypeInv
<1>7. ASSUME NEW r \in Reqs, Poll(r) PROVE TypeInv'
  <2>1. PICK s \in Observable(r) :
          /\ polled' = [polled EXCEPT ![r] = s]
          /\ IF r \in Cancels
             THEN auctions' = [auctions EXCEPT ![target[r]] = CancelAuctionStatus[s]] /\ UNCHANGED inbox
             ELSE Publish((IF r = Mint THEN MintStatus ELSE ListStatus)[s], None) /\ UNCHANGED auctions
          /\ Goto(r, IF Committed(s) \/ polls[r] + 1 = PollingLoops THEN "confirming" ELSE "polling")
    BY <1>7 DEF Poll
  <2>2. s \in PollStates
    BY <1>7, <2>1, ObservableIs DEF Poll, Progress
  <2>3. /\ CancelAuctionStatus[s] \in AuctionStatus
        /\ (IF r = Mint THEN MintStatus ELSE ListStatus)[s] \in NftStatus
    BY <2>2 DEF PollStates, CancelAuctionStatus, MintStatus, ListStatus, AuctionStatus, NftStatus
  <2>4. auctions' \in [Lists -> AuctionStatus] /\ inbox' \in [Replicas -> Seq(Msgs)]
    <3>1. CASE r \in Cancels
      BY <2>1, <2>3, <3>1 DEF TypeInv
    <3>2. CASE r \notin Cancels
      BY <2>1, <2>3, <3>2, PublishIs DEF TypeInv
    <3> QED
      BY <3>1, <3>2
  <2>5. polls' \in [Reqs -> 0..PollingLoops]
    <3>1. polls[r] < PollingLoops /\ polls' = [polls EXCEPT ![r] = @ + 1]
      BY <1>7 DEF Poll, Progress
    <3> QED
      BY <3>1 DEF TypeInv
  <2>6. pc' \in [Reqs -> PC] /\ polled' \in [Reqs -> PollStates \union {None}]
    BY <2>1, <2>2 DEF TypeInv, PC, Background
  <2> QED
    BY <1>7, <2>4, <2>5, <2>6 DEF Poll, TypeInv
<1>8. CASE ConfirmMint
  <2>1. inbox' \in [Replicas -> Seq(Msgs)] /\ pc' \in [Reqs -> PC]
    BY <1>8, PublishIs DEF ConfirmMint, TypeInv, NftStatus, PC, Background
  <2> QED
    BY <1>8, <2>1 DEF ConfirmMint, TypeInv
<1>9. ASSUME NEW l \in Lists, ConfirmList(l) PROVE TypeInv'
  <2>1. inbox' \in [Replicas -> Seq(Msgs)] /\ pc' \in [Reqs -> PC]
    BY <1>9, PublishIs DEF ConfirmList, TypeInv, NftStatus, PC, Background
  <2>2. auctions' \in [Lists -> AuctionStatus]
    BY <1>9 DEF ConfirmList, TypeInv, AuctionStatus
  <2> QED
    BY <1>9, <2>1, <2>2 DEF ConfirmList, TypeInv
<1>10. ASSUME NEW c \in Cancels, ConfirmCancel(c) PROVE TypeInv'
  <2>1. CancelNftStatus[polled[c]] \in NftStatus \union {"undefined"}
    BY <1>10 DEF ConfirmCancel, Progress, PollStates, CancelNftStatus, NftStatus
  <2>2. inbox' \in [Replicas -> Seq(Msgs)]
    BY <1>10, <2>1, PublishIs DEF ConfirmCancel
  <2> QED
    BY <1>10, <2>2 DEF ConfirmCancel, TypeInv, PC, Background
<1>11. ASSUME NEW r \in Reqs, ChainProcesses(r) \/ ChainRejects(r) PROVE TypeInv'
  BY <1>11 DEF ChainProcesses, ChainRejects, TypeInv
<1>12. ASSUME NEW r \in Reqs, Fail(r) \/ Die(r) PROVE TypeInv'
  <2>1. PICK label \in PC : pc' = [pc EXCEPT ![r] = label]
    BY <1>12 DEF Fail, Die, PC, Ended
  <2>2. faults' \in 0..MaxFaults
    BY <1>12 DEF Fail, Die, Fault, TypeInv
  <2> QED
    BY <1>12, <2>1, <2>2 DEF Fail, Die, TypeInv
<1>13. ASSUME NEW p \in Replicas, LoseInbox(p) PROVE TypeInv'
  <2>1. inbox' \in [Replicas -> Seq(Msgs)] /\ faults' \in 0..MaxFaults
    BY <1>13 DEF LoseInbox, Fault, TypeInv
  <2> QED
    BY <1>13, <2>1 DEF LoseInbox, TypeInv
<1>14. CASE UNCHANGED vars
  BY <1>14 DEF vars, TypeInv
<1> QED
  BY <1>1, <1>2, <1>3, <1>4, <1>5, <1>6, <1>7, <1>8, <1>9, <1>10, <1>11, <1>12, <1>13, <1>14,
     <1>15, <1>16, <1>17, <1>18, <1>19, <1>20
     DEF Next, Request, Network, Environment, Serve

LEMMA ProgressStep == Types /\ [Next]_vars => Progress'
<1> SUFFICES ASSUME TypeInv, Progress, [Next]_vars PROVE Progress'
  BY DEF Types
<1> USE ListingAssumption, RequestAssumption DEF Goto, docs, input, polling, bus, past, Reqs, Progress
<1>1. CASE /\ UNCHANGED <<target, pc, polls, polled>>
           /\ chain' \in [minted: BOOLEAN, listed: BOOLEAN, tx: [Reqs -> Sent \union {None}]]
           /\ \A r \in Reqs : chain.tx[r] \in Sent => chain'.tx[r] \in Sent
  BY <1>1
\* A request that moves on, without polling.
<1>2. ASSUME NEW r \in Reqs, NEW label \in PC, pc' = [pc EXCEPT ![r] = label],
             label \notin {"polling", "confirming"},
             label \in Early => pc[r] \in Early,
             r \in Cancels /\ label \in Cancelling => target'[r] \in Lists,
             \A c \in Cancels \ {r} : target'[c] = target[c],
             UNCHANGED <<polls, polled, chain>>
      PROVE  Progress'
  <2>1. pc'[r] = label /\ \A q \in Reqs \ {r} : pc'[q] = pc[q]
    BY <1>2 DEF TypeInv
  <2>2. \A c \in Cancels : pc'[c] \in Cancelling => target'[c] \in Lists
    BY <1>2, <2>1
  <2>3. \A q \in Reqs : /\ pc'[q] \in Early => polls'[q] = 0
                        /\ pc'[q] = "polling" => polls'[q] < PollingLoops /\ chain'.tx[q] \in Sent
                        /\ pc'[q] = "confirming" => polled'[q] \in PollStates
    BY <1>2, <2>1
  <2> QED
    BY <1>2, <2>2, <2>3
<1>3. CASE MintRequest
  BY <1>2, <1>3 DEF MintRequest, Arrives, PC, Early
<1>4. ASSUME NEW l \in Lists, ListRequest(l) \/ ListCheckSale(l) \/ ListMark(l) \/ ListCreate(l)
      PROVE  Progress'
  <2>1. PICK label \in {"checking", "marking", "failed", "creating", "locking"} :
          pc' = [pc EXCEPT ![l] = label]
    BY <1>4 DEF ListRequest, ListCheckSale, ListMark, ListCreate
  <2>2. pc[l] \in Early /\ UNCHANGED <<target, polls, polled, chain>>
    BY <1>4 DEF ListRequest, ListCheckSale, ListMark, ListCreate, Arrives, Early, Serving
  <2> QED
    BY <1>2, <2>1, <2>2 DEF PC, Serving, Ended
<1>5. ASSUME NEW c \in Cancels, CancelRequest(c) PROVE Progress'
  <2>1. target'[c] \in Lists
    BY <1>5 DEF CancelRequest, TypeInv
  <2> QED
    BY <1>2, <1>5, <2>1 DEF CancelRequest, Arrives, PC, Early, Serving, TypeInv
<1>6. ASSUME NEW c \in Cancels, \/ CancelClose(c) \/ CancelMark(c) \/ CancelRestoreNft(c)
                                \/ CancelWithdraw(c) \/ ConfirmCancel(c)
      PROVE  Progress'
  <2>1. PICK label \in {"closingNft", "locking", "withdrawing", "withdrawn", "done", "unlocking"} :
          pc' = [pc EXCEPT ![c] = label]
    BY <1>6 DEF CancelClose, CancelMark, CancelRestoreNft, CancelWithdraw, ConfirmCancel
  <2>2. /\ UNCHANGED <<target, polls, polled, chain>>
        /\ label \notin {"done", "unlocking"} => pc[c] \in {"closing", "closingNft", "withdrawing"}
    BY <1>6, <2>1 DEF CancelClose, CancelMark, CancelRestoreNft, CancelWithdraw, ConfirmCancel, TypeInv
  <2>3. label \in Early => pc[c] \in Early
    BY <2>1, <2>2 DEF Early, Serving
  <2>4. label \in Cancelling => target'[c] \in Lists
    BY <2>1, <2>2 DEF Cancelling
  <2> QED
    BY <1>2, <2>1, <2>2, <2>3, <2>4 DEF PC, Serving, Background, Ended
<1>7. ASSUME NEW r \in Reqs, Acquire(r) \/ GiveUp(r) \/ Answered(r) \/ Unlock(r) PROVE Progress'
  <2>1. PICK label \in {"sending", "gaveUp", "unlocking", "done"} : pc' = [pc EXCEPT ![r] = label]
    BY <1>7 DEF Acquire, GiveUp, Answered, Unlock
  <2>2. UNCHANGED <<target, polls, polled, chain>> /\ (label = "sending" => pc[r] = "locking")
    BY <1>7, <2>1 DEF Acquire, GiveUp, Answered, Unlock, TypeInv
  <2> QED
    BY <1>2, <2>1, <2>2 DEF PC, Background, Ended, Early, Serving, Cancelling
<1>8. ASSUME NEW r \in Reqs, Send(r) PROVE Progress'
  <2>1. /\ pc[r] = "sending" /\ pc'[r] = "polling" /\ \A q \in Reqs \ {r} : pc'[q] = pc[q]
        /\ UNCHANGED <<target, polls, polled>>
    BY <1>8 DEF Send, TypeInv
  <2>2. chain' = [chain EXCEPT !.tx = [chain.tx EXCEPT ![r] = "sent"]]
    BY <1>8 DEF Send
  <2>3. /\ chain' \in [minted: BOOLEAN, listed: BOOLEAN, tx: [Reqs -> Sent \union {None}]]
        /\ chain'.tx[r] \in Sent
        /\ \A q \in Reqs \ {r} : chain'.tx[q] = chain.tx[q]
    BY <2>2 DEF Sent
  <2>4. \A c \in Cancels : pc'[c] \in Cancelling => pc[c] \in Cancelling
    BY <2>1 DEF Cancelling
  <2>5. polls'[r] < PollingLoops /\ "polling" \notin Early
    BY <2>1 DEF Early, Serving
  <2> QED
    BY <2>1, <2>3, <2>4, <2>5
<1>9. ASSUME NEW r \in Reqs, Poll(r) PROVE Progress'
  <2>1. PICK s \in Observable(r) :
          /\ polled' = [polled EXCEPT ![r] = s]
          /\ Goto(r, IF Committed(s) \/ polls[r] + 1 = PollingLoops THEN "confirming" ELSE "polling")
    BY <1>9 DEF Poll
  <2>2. s \in PollStates
    BY <1>9, <2>1, ObservableIs DEF Poll
  <2>3. /\ pc[r] = "polling" /\ polls' = [polls EXCEPT ![r] = @ + 1] /\ UNCHANGED <<target, chain>>
    BY <1>9 DEF Poll
  <2>4. \A q \in Reqs \ {r} : pc'[q] = pc[q] /\ polls'[q] = polls[q] /\ polled'[q] = polled[q]
    BY <2>1, <2>3 DEF TypeInv
  <2>5. pc'[r] \in {"polling", "confirming"} /\ polled'[r] \in PollStates
    BY <2>1, <2>2 DEF TypeInv
  <2>6. pc'[r] = "polling" => polls'[r] < PollingLoops
    <3>1. polls[r] \in 0..PollingLoops /\ polls[r] < PollingLoops /\ polls'[r] = polls[r] + 1
      BY <2>3 DEF TypeInv
    <3>2. pc'[r] = "polling" => polls[r] + 1 # PollingLoops
      BY <2>1 DEF TypeInv
    <3> QED
      BY <3>1, <3>2
  <2>7. \A c \in Cancels : pc'[c] \in Cancelling => pc[c] \in Cancelling
    BY <2>3, <2>4 DEF Cancelling
  <2>8. {"polling", "confirming"} \intersect Early = {}
    BY DEF Early, Serving
  <2> QED
    BY <2>3, <2>4, <2>5, <2>6, <2>7, <2>8
<1>10. CASE ConfirmMint
  <2>1. PICK label \in {"unlocking", "awaiting"} : pc' = [pc EXCEPT ![Mint] = label]
    BY <1>10 DEF ConfirmMint
  <2> QED
    BY <1>2, <1>10, <2>1 DEF ConfirmMint, PC, Background, Early, Serving
<1>11. ASSUME NEW l \in Lists, ConfirmList(l) PROVE Progress'
  <2>1. PICK label \in {"unlocking", "awaiting"} : pc' = [pc EXCEPT ![l] = label]
    BY <1>11 DEF ConfirmList
  <2> QED
    BY <1>2, <1>11, <2>1 DEF ConfirmList, PC, Background, Early, Serving
<1>12. ASSUME NEW r \in Reqs, Fail(r) \/ Die(r) PROVE Progress'
  <2>1. PICK label \in {"dead", "failed"} : pc' = [pc EXCEPT ![r] = label]
    BY <1>12 DEF Fail, Die
  <2> QED
    BY <1>2, <1>12, <2>1 DEF Fail, Die, PC, Ended, Early, Serving, Cancelling
<1>13. ASSUME NEW r \in Reqs, ChainProcesses(r) \/ ChainRejects(r) PROVE Progress'
  <2>1. /\ chain' \in [minted: BOOLEAN, listed: BOOLEAN, tx: [Reqs -> Sent \union {None}]]
        /\ \A q \in Reqs : chain.tx[q] \in Sent => chain'.tx[q] \in Sent
    <3>1. CASE ChainProcesses(r)
      <4>1. chain' = [minted |-> TRUE, listed |-> r \in Lists, tx |-> [chain.tx EXCEPT ![r] = "processed"]]
        BY <3>1 DEF ChainProcesses
      <4>2. (r \in Lists) \in BOOLEAN
        OBVIOUS
      <4> QED
        BY <4>1, <4>2 DEF Sent
    <3>2. CASE ChainRejects(r)
      <4>1. chain' = [chain EXCEPT !.tx = [chain.tx EXCEPT ![r] = "rejected"]]
        BY <3>2 DEF ChainRejects
      <4> QED
        BY <4>1 DEF Sent
    <3> QED
      BY <1>13, <3>1, <3>2
  <2> QED
    BY <1>1, <1>13, <2>1 DEF ChainProcesses, ChainRejects
<1>14. CASE \/ \E p \in Replicas : Deliver(p) \/ LoseInbox(p)
            \/ \E l \in Lists : ConfirmAuction(l)
            \/ Unhide \/ Lapse \/ UNCHANGED vars
  BY <1>1, <1>14 DEF Deliver, LoseInbox, ConfirmAuction, Unhide, Lapse, vars
<1>15. ASSUME NEW r \in Reqs, UnlockFails(r) PROVE Progress'
  <2>1. "dead" \notin Early \union Cancelling
    BY DEF Early, Serving, Cancelling
  <2> QED
    BY <1>15, <2>1, FailingReleaseEnds
<1> QED
  BY <1>3, <1>4, <1>5, <1>6, <1>7, <1>8, <1>9, <1>10, <1>11, <1>12, <1>13, <1>14, <1>15
     DEF Next, Request, Network, Environment, Serve

LEMMA TypesInvariant == Spec => []Types
<1>1. Init => Types
  <2> SUFFICES ASSUME Init PROVE Types
    OBVIOUS
  <2>1. inbox \in [Replicas -> Seq(Msgs)]
    BY DEF Init
  <2>2. nft \in [status: NftStatus, avnNftId: BOOLEAN, isHidden: BOOLEAN] /\ soldBefore \in BOOLEAN
    <3>1. \E st \in {"none", "minted", "owned"}, id, hidden, sold \in BOOLEAN :
            nft = [status |-> st, avnNftId |-> id, isHidden |-> hidden] /\ soldBefore = sold
      BY DEF Init
    <3> QED
      BY <3>1 DEF NftStatus
  <2>3. TypeInv
    <3>1. faults \in 0..MaxFaults /\ polls \in [Reqs -> 0..PollingLoops] /\ pc \in [Reqs -> PC]
      BY ListingAssumption DEF Init, PC
    <3> QED
      BY <2>1, <2>2, <3>1 DEF Init, TypeInv, AuctionStatus, PollStates
  <2>4. chain \in [minted: BOOLEAN, listed: BOOLEAN, tx: [Reqs -> Sent \union {None}]]
    <3>1. chain = [minted |-> nft.avnNftId, listed |-> FALSE, tx |-> [r \in Reqs |-> None]]
      BY DEF Init
    <3>2. nft.avnNftId \in BOOLEAN
      BY <2>2
    <3> QED
      BY <3>1, <3>2
  <2>5. Progress
    BY <2>4 DEF Init, Progress, Reqs, Cancelling
  <2> QED
    BY <2>3, <2>5 DEF Types
<1> QED
  BY <1>1, TypeStep, ProgressStep, PTL DEF Spec, Types

(* Documents, requests, messages and the polls counted have their types: a *)
(* confirmation makes at most PollingLoops polls, and only statuses travel *)
(* over the bus, whatever the network answers and whichever process dies.  *)
THEOREM Typing == Spec => []TypeOK
<1>1. TypeInv => TypeOK
  <2> SUFFICES ASSUME TypeInv PROVE TypeOK
    OBVIOUS
  <2>1. \A p \in Replicas : \A i \in DOMAIN inbox[p] : inbox[p][i] \in Msgs
    BY DEF TypeInv
  <2> QED
    BY <2>1 DEF TypeInv, TypeOK, Msgs
<1> QED
  BY <1>1, TypesInvariant, PTL DEF Types

-----------------------------------------------------------------------------
(* The life of a USD auction, when nobody asks for its cancellation while  *)
(* another request about it is being answered, and until a key lapses      *)
(* under a confirmation that goes on.  Its status is written by the        *)
(* confirmation of its listing and by the cancellations of it, which run   *)
(* on in the background.  What keeps them apart is the API client: only    *)
(* the request that has it polls or confirms, and a cancellation only      *)
(* starts on an auction that is open, which it is not while another one    *)
(* still has something to write.                                           *)
About(r) == IF r \in Lists THEN r ELSE target[r]
Apart ==
  \A c \in Cancels, r \in Lists \union Cancels :
    InService(c) /\ InService(r) /\ r # c => About(r) # target[c]

\* It is so, above all, when one request is served at a time.
OneServed == \A q, r \in Reqs : InService(q) /\ InService(r) => q = r

\* Unless a key has lapsed under a confirmation, the client is with the request that
\* uses it, except while the request waits for an answer that will not come any more.
Using == {"sending", "polling", "confirming", "unlocking"}
HasApi ==
  \A r \in Reqs :
    /\ pc[r] \in Using => api = r
    /\ pc[r] = "awaiting" => api = r \/ Unanswered(r)

\* An auction exists once its request has created it, and the listing of a USD
\* auction can still be confirmed as long as it is not withdrawn.
Creating == {"idle", "checking", "marking", "creating"}
Confirmable == {"locking", "sending", "polling", "confirming"}
ListingStands ==
  \A l \in Lists :
    /\ pc[l] \in Creating => auctions[l] = "none"
    /\ pc[l] \in Confirmable /\ currency[l] = "USD" => auctions[l] \notin {"none", "withdraw"}

\* A cancellation that still writes the auction of its target: it came after the
\* listing was sent, found the auction open, and is alone.
Closed == {"closing", "error"}
CancellingInv ==
  \A c \in Cancels : pc[c] \in Cancelling =>
    /\ pc[target[c]] \notin Creating \union {"locking", "sending"}
    /\ currency[target[c]] = "USD" =>
         /\ pc[c] \notin {"withdrawing", "withdrawn"}
         /\ auctions[target[c]] \in IF pc[c] = "closing" THEN {"open", "error"} ELSE Closed
         /\ \A d \in Cancels : pc[d] \in Cancelling /\ target[d] = target[c] => d = c

LifecycleInv == ListingStands /\ CancellingInv

\* A request is taken up alone.
LEMMA ArrivesAlone ==
  ASSUME MaxInFlight = 1, NEW r, Arrives(r)
  PROVE  \A q \in Reqs : ~InService(q)
<1> DEFINE Served == {q \in Reqs : InService(q)}
<1>1. IsFiniteSet(Reqs)
  <2>1. Reqs = (Lists \union Cancels) \union {Mint}
    BY DEF Reqs
  <2> QED
    BY <2>1, RequestAssumption, FS_AddElement
<1>2. IsFiniteSet(Served) /\ Cardinality(Served) \in Nat /\ Cardinality(Served) < 1
  BY <1>1, FS_Subset, FS_CardinalityType DEF Arrives
<1>3. Served = {}
  BY <1>2, FS_EmptySet
<1> QED
  BY <1>3

LEMMA OneServedStep ==
  ASSUME MaxInFlight = 1, Types, OneServed, [Next]_vars
  PROVE  OneServed'
<1> USE RequestAssumption DEF Goto, docs, input, polling, bus, past, Reqs, Types, TypeInv
<1>1. CASE \A r \in Reqs : InService(r)' => InService(r)
  BY <1>1 DEF OneServed
<1>2. ASSUME NEW r \in Lists \union Cancels, Arrives(r), \A q \in Reqs \ {r} : pc'[q] = pc[q]
      PROVE  OneServed'
  <2>1. \A q \in Reqs : ~InService(q)
    BY <1>2, ArrivesAlone
  <2>2. \A q \in Reqs : InService(q)' => q = r
    BY <1>2, <2>1 DEF InService
  <2> QED
    BY <2>2 DEF OneServed
<1>3. ASSUME NEW l \in Lists, ListRequest(l) PROVE OneServed'
  BY <1>2, <1>3 DEF ListRequest
<1>4. ASSUME NEW c \in Cancels, CancelRequest(c) PROVE OneServed'
  BY <1>2, <1>4 DEF CancelRequest
<1>5. ASSUME NEW l \in Lists, ListCheckSale(l) \/ ListMark(l) \/ ListCreate(l) \/ ConfirmList(l)
      PROVE  OneServed'
  <2>1. PICK label \in PC : pc' = [pc EXCEPT ![l] = label]
    BY <1>5 DEF ListCheckSale, ListMark, ListCreate, ConfirmList, PC, Serving, Background, Ended
  <2>2. pc[l] = "confirming" => label \in {"awaiting", "unlocking"}
    BY <1>5, <2>1 DEF ListCheckSale, ListMark, ListCreate, ConfirmList
  <2>3. pc[l] \in {"checking", "marking", "creating", "confirming"}
    BY <1>5 DEF ListCheckSale, ListMark, ListCreate, ConfirmList
  <2> QED
    BY <1>1, <2>1, <2>2, <2>3 DEF InService, Serving
<1>6. ASSUME NEW c \in Cancels, \/ CancelClose(c) \/ CancelMark(c) \/ CancelRestoreNft(c)
                                \/ CancelWithdraw(c) \/ ConfirmCancel(c)
      PROVE  OneServed'
  <2>1. PICK label \in PC : pc' = [pc EXCEPT ![c] = label]
    BY <1>6 DEF CancelClose, CancelMark, CancelRestoreNft, CancelWithdraw, ConfirmCancel,
                PC, Serving, Background, Ended
  <2>2. pc[c] = "confirming" => label = "unlocking"
    BY <1>6, <2>1 DEF CancelClose, CancelMark, CancelRestoreNft, CancelWithdraw, ConfirmCancel
  <2>3. pc[c] \in {"closing", "closingNft", "withdrawing", "withdrawn", "confirming"}
    BY <1>6 DEF CancelClose, CancelMark, CancelRestoreNft, CancelWithdraw, ConfirmCancel
  <2> QED
    BY <1>1, <2>1, <2>2, <2>3 DEF InService, Serving
<1>7. CASE MintRequest \/ ConfirmMint
  <2>1. PICK label \in {"locking", "awaiting", "unlocking"} : pc' = [pc EXCEPT ![Mint] = label]
    BY <1>7 DEF MintRequest, ConfirmMint
  <2> QED
    BY <1>1, <2>1 DEF InService, Serving
<1>10. ASSUME NEW r \in Reqs, UnlockFails(r) PROVE OneServed'
  BY <1>1, <1>10, FailingReleaseEnds DEF InService, Serving
<1>8. ASSUME NEW r \in Reqs, \/ Acquire(r) \/ GiveUp(r) \/ Send(r) \/ Poll(r) \/ Answered(r)
                             \/ Unlock(r) \/ Fail(r) \/ Die(r)
      PROVE  OneServed'
  <2>1. PICK label \in {"sending"} \union Background \union Ended : pc' = [pc EXCEPT ![r] = label]
    BY <1>8 DEF Acquire, GiveUp, Send, Poll, Answered, Unlock, Fail, Die, Background, Ended
  <2>2. label = "sending" => pc[r] = "locking"
    BY <1>8, <2>1 DEF Acquire, GiveUp, Send, Poll, Answered, Unlock, Fail, Die, Background, Ended
  <2> QED
    BY <1>1, <2>1, <2>2 DEF InService, Serving, Background, Ended
<1>9. CASE pc' = pc
  BY <1>1, <1>9 DEF InService
<1> QED
  BY <1>3, <1>4, <1>5, <1>6, <1>7, <1>8, <1>9, <1>10
     DEF Next, Request, Network, Environment, Serve, ChainProcesses, ChainRejects, Unhide,
         ConfirmAuction, LoseInbox, Lapse, Deliver, vars

LEMMA OneAtATime == MaxInFlight = 1 /\ Spec => []Apart
<1> SUFFICES ASSUME MaxInFlight = 1 PROVE Spec => []Apart
  OBVIOUS
<1>1. Init => OneServed
  BY DEF Init, OneServed, InService, Serving, Reqs
<1>2. OneServed => Apart
  BY DEF OneServed, Apart, Reqs
<1> QED
  BY <1>1, <1>2, OneServedStep, TypesInvariant, PTL DEF Spec

\* When a cancellation starts nobody else is served about its target.
LEMMA StartsApart ==
  ASSUME TypeInv, Apart', NEW c \in Cancels, CancelRequest(c),
         NEW l \in Lists, target' = [target EXCEPT ![c] = l],
         NEW q \in Lists \union Cancels, q # c, InService(q)
  PROVE  About(q) # l
<1> USE RequestAssumption DEF Reqs, TypeInv
<1>1. pc' = [pc EXCEPT ![c] = "closing"]
  BY DEF CancelRequest, Goto
<1>2. InService(c)' /\ target'[c] = l
  BY <1>1 DEF InService, Serving
<1>3. InService(q)' /\ About(q)' = About(q)
  BY <1>1 DEF InService, About
<1> QED
  BY <1>2, <1>3 DEF Apart

\* Messages are added at the end and taken at the head.
LEMMA Published ==
  ASSUME TypeInv, NEW set, NEW re, Publish(set, re), NEW p \in Replicas
  PROVE  \E n \in Nat : /\ DOMAIN inbox[p] = 1..n /\ DOMAIN inbox'[p] = 1..n+1
                        /\ inbox'[p][n+1] = [set |-> set, re |-> re]
                        /\ \A i \in 1..n : inbox'[p][i] = inbox[p][i]
<1> DEFINE msg == [set |-> set, re |-> re]
<1>1. inbox[p] \in Seq(Msgs) /\ inbox'[p] = Append(inbox[p], msg)
  BY DEF Publish, TypeInv
<1> HIDE DEF msg
<1>2. Len(inbox[p]) \in Nat /\ DOMAIN inbox[p] = 1..Len(inbox[p]) /\ DOMAIN inbox'[p] = 1..Len(inbox[p])+1
  BY <1>1
<1>3. /\ inbox'[p][Len(inbox[p])+1] = msg
      /\ \A i \in 1..Len(inbox[p]) : inbox'[p][i] = inbox[p][i]
  BY <1>1
<1> QED
  BY <1>2, <1>3 DEF msg

LEMMA Delivered ==
  ASSUME TypeInv, NEW p \in Replicas, Deliver(p)
  PROVE  /\ \E n \in Nat : /\ DOMAIN inbox[p] = 1..n+1 /\ DOMAIN inbox'[p] = 1..n
                           /\ \A i \in 1..n : inbox'[p][i] = inbox[p][i+1]
         /\ inbox[p][1] \in Msgs
         /\ nft' = IF inbox[p][1].set = "avnNftId" THEN [nft EXCEPT !.avnNftId = TRUE]
                   ELSE IF inbox[p][1].set = "undefined" THEN nft
                   ELSE [nft EXCEPT !.status = inbox[p][1].set]
         /\ replied' = replied \union ({inbox[p][1].re} \ {None})
         /\ \A q \in Replicas \ {p} : inbox'[q] = inbox[q]
         /\ UNCHANGED <<soldBefore, auctions, currency, target, pc, polls, polled, api, chain, faults, lapsed, lost>>
<1>1. inbox[p] \in Seq(Msgs) /\ inbox[p] # <<>> /\ inbox' = [inbox EXCEPT ![p] = Tail(inbox[p])]
  BY DEF Deliver, TypeInv
<1>2. /\ inbox'[p] = Tail(inbox[p]) /\ Len(inbox[p]) - 1 \in Nat
      /\ \A q \in Replicas \ {p} : inbox'[q] = inbox[q]
  BY <1>1 DEF TypeInv
<1>3. /\ DOMAIN inbox[p] = 1..(Len(inbox[p]) - 1)+1 /\ DOMAIN inbox'[p] = 1..Len(inbox[p]) - 1
      /\ \A i \in 1..Len(inbox[p]) - 1 : inbox'[p][i] = inbox[p][i+1]
  <2>1. Len(inbox[p]) \in Nat \ {0} /\ DOMAIN inbox[p] = 1..Len(inbox[p])
    BY <1>1
  <2>2. Len(Tail(inbox[p])) = Len(inbox[p]) - 1 /\ Tail(inbox[p]) \in Seq(Msgs)
    BY <1>1
  <2>3. \A i \in 1..Len(inbox[p]) - 1 : Tail(inbox[p])[i] = inbox[p][i+1]
    BY <1>1
  <2> QED
    BY <1>2, <2>1, <2>2, <2>3
<1>6. Head(inbox[p]) = inbox[p][1] /\ inbox[p][1] \in Msgs
  BY <1>1
<1>4. /\ nft' = IF Head(inbox[p]).set = "avnNftId" THEN [nft EXCEPT !.avnNftId = TRUE]
                ELSE IF Head(inbox[p]).set = "undefined" THEN nft
                ELSE [nft EXCEPT !.status = Head(inbox[p]).set]
      /\ replied' = replied \union ({Head(inbox[p]).re} \ {None})
  BY DEF Deliver
<1>5. UNCHANGED <<soldBefore, auctions, currency, target, pc, polls, polled, api, chain, faults, lapsed, lost>>
  BY DEF Deliver, input, polling, past
<1> QED
  BY <1>2, <1>3, <1>4, <1>5, <1>6

LEMMA BusKeeps ==
  ASSUME TypeInv, NEW r \in Reqs, Unanswered(r),
         \/ \E set, re : Publish(set, re) /\ re # r /\ UNCHANGED replied
         \/ \E p \in Replicas : Deliver(p) \/ LoseInbox(p)
         \/ UNCHANGED <<inbox, replied>>
  PROVE  Unanswered(r)'
<1>1. ASSUME NEW set, NEW re, Publish(set, re), re # r, UNCHANGED replied PROVE Unanswered(r)'
  <2>1. ASSUME NEW p \in Replicas, NEW i \in DOMAIN inbox'[p] PROVE inbox'[p][i].re # r
    <3>1. PICK n \in Nat : /\ DOMAIN inbox[p] = 1..n /\ DOMAIN inbox'[p] = 1..n+1
                           /\ inbox'[p][n+1] = [set |-> set, re |-> re]
                           /\ \A j \in 1..n : inbox'[p][j] = inbox[p][j]
      BY <1>1, Published
    <3>2. CASE i = n+1
      BY <1>1, <3>1, <3>2
    <3>3. CASE i \in 1..n
      BY <3>1, <3>3 DEF Unanswered
    <3> QED
      BY <2>1, <3>1, <3>2, <3>3
  <2> QED
    BY <1>1, <2>1 DEF Unanswered
<1>2. ASSUME NEW p \in Replicas, Deliver(p) PROVE Unanswered(r)'
  <2>1. PICK n \in Nat : /\ DOMAIN inbox[p] = 1..n+1 /\ DOMAIN inbox'[p] = 1..n
                         /\ \A i \in 1..n : inbox'[p][i] = inbox[p][i+1]
    BY <1>2, Delivered
  <2>2. /\ inbox[p][1].re # r
        /\ \A i \in DOMAIN inbox'[p] : inbox'[p][i].re # r
    BY <2>1 DEF Unanswered
  <2>3. /\ replied' = replied \union ({inbox[p][1].re} \ {None})
        /\ \A q \in Replicas \ {p} : inbox'[q] = inbox[q]
    BY <1>2, Delivered
  <2> QED
    BY <2>2, <2>3 DEF Unanswered
<1>3. ASSUME NEW p \in Replicas, LoseInbox(p) PROVE Unanswered(r)'
  BY <1>3 DEF LoseInbox, TypeInv, Unanswered
<1>4. CASE UNCHANGED <<inbox, replied>>
  BY <1>4 DEF Unanswered
<1> QED
  BY <1>1, <1>2, <1>3, <1>4

\* What has lapsed stays lapsed.
LEMMA LapsedLasts == [Next]_vars /\ ~lapsed' => ~lapsed
  BY DEF Next, Request, MintRequest, ListRequest, CancelRequest, Network, ChainProcesses, ChainRejects,
         Environment, Unhide, ConfirmAuction, Fail, Die, LoseInbox, Lapse, Serve, ListCheckSale,
         ListMark, ListCreate, ConfirmList, CancelClose, CancelMark, CancelRestoreNft, CancelWithdraw,
         ConfirmCancel, ConfirmMint, Acquire, GiveUp, Send, Poll, Answered, Unlock, UnlockFails, Deliver,
         past, vars

\* Until then a release does not fail.
LEMMA ReleaseSucceeds ==
  ASSUME HasApi, NEW r \in Reqs
  PROVE  ~UnlockFails(r)
  BY DEF HasApi, Using, UnlockFails

LEMMA HasApiStep == Types /\ HasApi /\ [Next]_vars /\ ~lapsed' => HasApi'
<1> SUFFICES ASSUME TypeInv, HasApi, [Next]_vars, ~lapsed' PROVE HasApi'
  BY DEF Types
<1> USE RequestAssumption DEF Goto, docs, input, polling, bus, past, Reqs
\* Nobody else is disturbed by what a request does.
<1>1. ASSUME NEW r \in Reqs, \A q \in Reqs \ {r} : pc'[q] = pc[q],
             \/ \E set, re : Publish(set, re) /\ re \in {r, None} /\ UNCHANGED replied
             \/ UNCHANGED <<inbox, replied>>,
             api' = api,
             pc'[r] \in Using \union {"awaiting"} => pc[r] \in Using
      PROVE  HasApi'
  <2>1. ASSUME NEW q \in Reqs \ {r}, Unanswered(q) PROVE Unanswered(q)'
    BY <1>1, <2>1, BusKeeps
  <2> QED
    BY <1>1, <2>1 DEF HasApi
<1>2. CASE MintRequest \/ \E l \in Lists : ListRequest(l) \/ ListCheckSale(l) \/ ListMark(l) \/ ListCreate(l)
  <2>1. PICK r \in Reqs, label \in {"locking", "checking", "marking", "failed", "creating"} :
          pc' = [pc EXCEPT ![r] = label]
    BY <1>2 DEF MintRequest, ListRequest, ListCheckSale, ListMark, ListCreate
  <2>2. UNCHANGED <<inbox, replied, api>>
    BY <1>2 DEF MintRequest, ListRequest, ListCheckSale, ListMark, ListCreate
  <2> QED
    BY <1>1, <2>1, <2>2 DEF TypeInv, Using
<1>3. ASSUME NEW c \in Cancels, CancelRequest(c) \/ CancelClose(c) \/ CancelMark(c) \/ CancelWithdraw(c)
      PROVE  HasApi'
  <2>1. PICK label \in {"closing", "closingNft", "locking", "withdrawing", "done"} :
          pc' = [pc EXCEPT ![c] = label]
    BY <1>3 DEF CancelRequest, CancelClose, CancelMark, CancelWithdraw
  <2>2. UNCHANGED <<inbox, replied, api>>
    BY <1>3 DEF CancelRequest, CancelClose, CancelMark, CancelWithdraw
  <2> QED
    BY <1>1, <2>1, <2>2 DEF TypeInv, Using
<1>4. ASSUME NEW c \in Cancels, CancelRestoreNft(c) \/ ConfirmCancel(c) PROVE HasApi'
  <2>1. PICK label \in {"withdrawn", "unlocking"} : pc' = [pc EXCEPT ![c] = label]
    BY <1>4 DEF CancelRestoreNft, ConfirmCancel
  <2>2. label = "unlocking" => pc[c] = "confirming"
    BY <1>4, <2>1 DEF CancelRestoreNft, ConfirmCancel, TypeInv
  <2>3. UNCHANGED <<replied, api>> /\ \E set, re : Publish(set, re) /\ re \in {c, None}
    BY <1>4 DEF CancelRestoreNft, ConfirmCancel
  <2> QED
    BY <1>1, <2>1, <2>2, <2>3 DEF TypeInv, Using
<1>5. CASE ConfirmMint \/ \E l \in Lists : ConfirmList(l)
  <2>1. PICK r \in Reqs, label \in {"awaiting", "unlocking"} :
          /\ pc[r] = "confirming"
          /\ pc' = [pc EXCEPT ![r] = label]
          /\ (\E set, re : Publish(set, re) /\ re \in {r, None}) \/ UNCHANGED inbox
          /\ UNCHANGED <<replied, api>>
    BY <1>5 DEF ConfirmMint, ConfirmList
  <2> QED
    BY <1>1, <2>1 DEF TypeInv, Using
<1>6. ASSUME NEW r \in Reqs, Poll(r) PROVE HasApi'
  <2>1. /\ pc[r] = "polling" /\ UNCHANGED <<replied, api>> /\ \E label : pc' = [pc EXCEPT ![r] = label]
        /\ UNCHANGED inbox \/ \E set : Publish(set, None)
    BY <1>6 DEF Poll
  <2> QED
    BY <1>1, <2>1 DEF TypeInv, Using
<1>7. ASSUME NEW r \in Reqs, Send(r) PROVE HasApi'
  BY <1>1, <1>7 DEF Send, TypeInv, Using
<1>8. ASSUME NEW r \in Reqs, Answered(r) PROVE HasApi'
  <2>1. api = r
    BY <1>8 DEF Answered, HasApi, Unanswered
  <2>2. \A q \in Reqs : Unanswered(q) => Unanswered(q)'
    BY <1>8, BusKeeps DEF Answered
  <2> QED
    BY <1>8, <2>1, <2>2 DEF Answered, HasApi, TypeInv, Using
<1>9. ASSUME NEW r \in Reqs, Acquire(r) PROVE HasApi'
  <2>1. \A q \in Reqs : api # q
    BY <1>9 DEF Acquire
  <2>2. \A q \in Reqs : Unanswered(q) => Unanswered(q)'
    BY <1>9, BusKeeps DEF Acquire
  <2> QED
    BY <1>9, <2>1, <2>2 DEF Acquire, HasApi, TypeInv, Using
<1>10. ASSUME NEW r \in Reqs, Unlock(r) PROVE HasApi'
  <2>1. api = r
    BY <1>10 DEF Unlock, HasApi, Using
  <2>2. \A q \in Reqs : Unanswered(q) => Unanswered(q)'
    BY <1>10, BusKeeps DEF Unlock
  <2> QED
    BY <1>10, <2>1, <2>2 DEF Unlock, HasApi, TypeInv, Using
<1>11. CASE Lapse
  <2>1. \A q \in Reqs : Unanswered(q) => Unanswered(q)'
    BY <1>11, BusKeeps DEF Lapse
  <2>2. pc[api] \in Ended \/ (pc[api] = "awaiting" /\ Unanswered(api))
    BY <1>11 DEF Lapse, Abandoned
  <2> QED
    BY <1>11, <2>1, <2>2 DEF Lapse, HasApi, Using, Ended
<1>12. ASSUME NEW r \in Reqs, GiveUp(r) \/ Fail(r) \/ Die(r) PROVE HasApi'
  <2>1. PICK label \in {"dead", "failed", "gaveUp"} : pc' = [pc EXCEPT ![r] = label]
    BY <1>12 DEF GiveUp, Fail, Die
  <2> QED
    BY <1>1, <1>12, <2>1 DEF GiveUp, Fail, Die, TypeInv, Using
<1>13. CASE \E p \in Replicas : Deliver(p) \/ LoseInbox(p)
  <2>1. \A q \in Reqs : Unanswered(q) => Unanswered(q)'
    BY <1>13, BusKeeps
  <2> QED
    BY <1>13, <2>1 DEF Deliver, LoseInbox, HasApi
<1>14. CASE UNCHANGED <<pc, api, inbox, replied>>
  BY <1>14 DEF HasApi, Unanswered
<1> QED
  BY <1>2, <1>3, <1>4, <1>5, <1>6, <1>7, <1>8, <1>9, <1>10, <1>11, <1>12, <1>13, <1>14, ReleaseSucceeds
     DEF Next, Request, Network, Environment, Serve, ChainProcesses, ChainRejects, Unhide,
         ConfirmAuction, vars

\* What the abstract specification sees.
Changes == \E l \in Lists : Lifecycle!Change(l)
Statuses == [l \in Lists |-> IF currency[l] = "USD" THEN auctions[l] ELSE "none"]

LEMMA FollowsAre ==
  /\ Lifecycle!Follows["none"] = {"open", "unconfirmed"}
  /\ Lifecycle!Follows["unconfirmed"] = {"open", "error"}
  /\ Lifecycle!Follows["open"] = {"closing", "error"}
  /\ Lifecycle!Follows["closing"] = {"withdraw", "open", "error"}
  /\ Lifecycle!Follows["error"] = {"closing", "withdraw", "open"}
  BY DEF Lifecycle!Follows

LEMMA StatusFollows ==
  ASSUME TypeInv, NEW l \in Lists, NEW s, UNCHANGED currency,
         auctions' = [auctions EXCEPT ![l] = s],
         currency[l] = "USD" => s = auctions[l] \/ s \in Lifecycle!Follows[auctions[l]]
  PROVE  [Changes]_Statuses
<1>1. \A k \in Lists : auctions'[k] = IF k = l THEN s ELSE auctions[k]
  BY DEF TypeInv
<1>2. CASE currency[l] = "USD" /\ s # auctions[l]
  <2>1. s \in Lifecycle!Follows[Statuses[l]]
    BY <1>2 DEF Statuses
  <2>2. Statuses' = [Statuses EXCEPT ![l] = s]
    BY <1>1, <1>2 DEF Statuses
  <2> QED
    BY <2>1, <2>2 DEF Changes, Lifecycle!Change, Statuses
<1>3. CASE currency[l] # "USD" \/ s = auctions[l]
  BY <1>1, <1>3 DEF Statuses
<1> QED
  BY <1>2, <1>3

\* Steps that write no auction, each request staying in its stage or leaving it.
LEMMA StagesKept ==
  ASSUME LifecycleInv, UNCHANGED <<auctions, currency, target>>, Types,
         \A l \in Lists :
           /\ pc'[l] \in Creating => pc[l] \in Creating
           /\ pc'[l] \in Confirmable => pc[l] \in Confirmable
           /\ pc'[l] \in {"locking", "sending"} => pc[l] \in {"locking", "sending"},
         \A c \in Cancels : pc'[c] \in Cancelling =>
           /\ pc[c] \in Cancelling
           /\ pc'[c] = "closing" <=> pc[c] = "closing"
           /\ pc'[c] \in {"withdrawing", "withdrawn"} =>
                pc[c] \in {"withdrawing", "withdrawn"} \/ currency[target[c]] # "USD"
  PROVE  LifecycleInv' /\ [Changes]_Statuses
<1>1. ListingStands'
  BY DEF LifecycleInv, ListingStands
<1>2. \A c \in Cancels : pc[c] \in Cancelling => target[c] \in Lists
  BY DEF Types, Progress
<1>3. CancellingInv'
  BY <1>2 DEF LifecycleInv, CancellingInv
<1>4. UNCHANGED Statuses
  BY DEF Statuses
<1> QED
  BY <1>1, <1>3, <1>4 DEF LifecycleInv

LEMMA LifecycleStep ==
  ASSUME Types, HasApi, LifecycleInv, [Next]_vars, Apart'
  PROVE  LifecycleInv' /\ [Changes]_Statuses
<1> DEFINE Goal == LifecycleInv' /\ [Changes]_Statuses
<1> SUFFICES Goal
  OBVIOUS
<1> USE RequestAssumption DEF Goto, docs, input, polling, bus, past, Reqs, Types, TypeInv
<1>0. \A c \in Cancels : pc[c] \in Cancelling => target[c] \in Lists
  BY DEF Progress
\* Steps that write no auction.
<1>1. CASE pc' = pc /\ UNCHANGED <<auctions, currency, target>>
  <2> HIDE DEF Types, TypeInv
  <2> QED
    BY <1>1, StagesKept
<1>2. CASE \/ MintRequest \/ ConfirmMint
           \/ \E r \in Reqs : GiveUp(r) \/ Answered(r) \/ Unlock(r) \/ Fail(r) \/ Die(r)
           \/ \E l \in Lists : ConfirmList(l) /\ UNCHANGED auctions
  <2>1. PICK r \in Reqs, label \in {"locking", "awaiting", "unlocking"} \union Ended :
          pc' = [pc EXCEPT ![r] = label] /\ (label = "locking" => r = Mint)
    <3>1. CASE MintRequest \/ ConfirmMint
      BY <3>1 DEF MintRequest, ConfirmMint
    <3>2. CASE \E r \in Reqs : GiveUp(r) \/ Answered(r) \/ Unlock(r) \/ Fail(r) \/ Die(r)
      BY <3>2 DEF GiveUp, Answered, Unlock, Fail, Die, Ended
    <3>3. CASE \E l \in Lists : ConfirmList(l)
      BY <3>3 DEF ConfirmList
    <3> QED
      BY <1>2, <3>1, <3>2, <3>3
  <2>2. UNCHANGED <<auctions, currency, target>>
    BY <1>2 DEF MintRequest, ConfirmMint, GiveUp, Answered, Unlock, Fail, Die, ConfirmList
  <2>3. Goal
    BY <2>1, <2>2, StagesKept DEF Creating, Confirmable, Cancelling, Ended
  <2> QED
    BY <2>3
<1>3. ASSUME NEW l \in Lists, \/ ListCheckSale(l) \/ ListMark(l)
                              \/ ListCreate(l) /\ UNCHANGED auctions /\ pc'[l] = "failed"
      PROVE  Goal
  <2>1. PICK label \in {"marking", "creating", "failed"} : pc' = [pc EXCEPT ![l] = label]
    BY <1>3 DEF ListCheckSale, ListMark, ListCreate
  <2>2. UNCHANGED <<auctions, currency, target>> /\ pc[l] \in Creating
    BY <1>3 DEF ListCheckSale, ListMark, ListCreate, Creating
  <2> QED
    BY <2>1, <2>2, StagesKept DEF Creating, Confirmable, Cancelling
<1>4. ASSUME NEW c \in Cancels, CancelMark(c) \/ CancelRestoreNft(c) \/ ConfirmCancel(c) PROVE Goal
  <2>1. PICK label \in {"locking", "withdrawing", "withdrawn", "unlocking"} : pc' = [pc EXCEPT ![c] = label]
    BY <1>4 DEF CancelMark, CancelRestoreNft, ConfirmCancel
  <2>2. UNCHANGED <<auctions, currency, target>> /\ pc[c] \in {"closingNft", "withdrawing", "confirming"}
    BY <1>4 DEF CancelMark, CancelRestoreNft, ConfirmCancel
  <2>3. /\ label \in {"locking", "unlocking"} \/ currency[target[c]] # "USD" \/ pc[c] = "withdrawing"
        /\ label = "unlocking" <=> pc[c] = "confirming"
    BY <1>4, <2>1 DEF CancelMark, CancelRestoreNft, ConfirmCancel
  <2> QED
    BY <2>1, <2>2, <2>3, StagesKept DEF Creating, Confirmable, Cancelling
<1>5. ASSUME NEW r \in Reqs, Acquire(r) \/ Send(r) \/ (Poll(r) /\ r \notin Cancels) PROVE Goal
  <2>1. PICK label \in {"sending", "polling", "confirming"} : pc' = [pc EXCEPT ![r] = label]
    BY <1>5 DEF Acquire, Send, Poll
  <2>2. UNCHANGED <<auctions, currency, target>> /\ pc[r] \in {"locking", "sending", "polling"}
    BY <1>5 DEF Acquire, Send, Poll
  <2>3. /\ label = "sending" => pc[r] = "locking"
        /\ label = "confirming" => r \notin Cancels
    BY <1>5, <2>1 DEF Acquire, Send, Poll
  <2> QED
    BY <2>1, <2>2, <2>3, StagesKept DEF Creating, Confirmable, Cancelling
\* A listing is asked for: nobody knows its auction yet.
<1>6. ASSUME NEW l \in Lists, ListRequest(l) PROVE Goal
  <2>1. /\ pc[l] = "idle" /\ pc' = [pc EXCEPT ![l] = "checking"] /\ UNCHANGED <<auctions, target>>
        /\ \E cur : currency' = [currency EXCEPT ![l] = cur]
    BY <1>6 DEF ListRequest, Arrives
  <2>2. auctions[l] = "none" /\ \A k \in Lists \ {l} : currency'[k] = currency[k]
    BY <2>1 DEF LifecycleInv, ListingStands, Creating
  <2>3. \A c \in Cancels : pc[c] \in Cancelling => target[c] # l
    BY <2>1 DEF LifecycleInv, CancellingInv, Creating
  <2>4. ListingStands'
    BY <2>1, <2>2 DEF LifecycleInv, ListingStands, Creating, Confirmable
  <2>5. CancellingInv'
    BY <1>0, <2>1, <2>2, <2>3 DEF LifecycleInv, CancellingInv, Cancelling
  <2>6. UNCHANGED Statuses
    BY <2>1, <2>2 DEF Statuses
  <2> QED
    BY <2>4, <2>5, <2>6 DEF LifecycleInv
<1>7. ASSUME NEW l \in Lists, ListCreate(l), ~(UNCHANGED auctions /\ pc'[l] = "failed") PROVE Goal
  <2>1. PICK s \in {"open", "unconfirmed"} :
          /\ auctions' = [auctions EXCEPT ![l] = s]
          /\ pc[l] = "creating" /\ pc' = [pc EXCEPT ![l] = "locking"]
          /\ UNCHANGED <<currency, target>>
    BY <1>7 DEF ListCreate
  <2>2. auctions[l] = "none" /\ \A c \in Cancels : pc[c] \in Cancelling => target[c] # l
    BY <2>1 DEF LifecycleInv, ListingStands, CancellingInv, Creating
  <2>3. ListingStands'
    BY <2>1 DEF LifecycleInv, ListingStands, Creating, Confirmable
  <2>4. CancellingInv'
    BY <1>0, <2>1, <2>2 DEF LifecycleInv, CancellingInv
  <2>5. [Changes]_Statuses
    BY <2>1, <2>2, StatusFollows, FollowsAre
  <2> QED
    BY <2>3, <2>4, <2>5 DEF LifecycleInv
\* A cancellation starts: nobody else is served about its target, so one that still
\* wrote this auction would be polling, and would have closed it.
<1>8. ASSUME NEW c \in Cancels, CancelRequest(c) PROVE Goal
  <2>1. PICK l \in Lists : auctions[l] = "open" /\ target' = [target EXCEPT ![c] = l]
    BY <1>8 DEF CancelRequest
  <2>2. pc' = [pc EXCEPT ![c] = "closing"] /\ UNCHANGED <<auctions, currency>>
    BY <1>8 DEF CancelRequest
  <2>9. \A q \in Lists \union Cancels : q # c /\ InService(q) => About(q) # l
    BY <1>8, <2>1, StartsApart
  <2>3. pc[l] \notin Creating \union {"locking", "sending"}
    BY <2>1, <2>9 DEF LifecycleInv, ListingStands, InService, About
  <2>4. pc[c] = "idle" /\ "idle" \notin Cancelling
    BY <1>8 DEF CancelRequest, Arrives, Cancelling
  <2>5. ASSUME NEW d \in Cancels, pc[d] \in Cancelling, currency[l] = "USD" PROVE target[d] # l
    <3>1. CASE pc[d] = "polling"
      BY <2>1, <2>5, <3>1 DEF LifecycleInv, CancellingInv, Closed
    <3>2. CASE pc[d] # "polling"
      BY <2>4, <2>5, <2>9, <3>2 DEF InService, Serving, Cancelling, About
    <3> QED
      BY <3>1, <3>2
  <2>6. ListingStands'
    BY <2>2 DEF LifecycleInv, ListingStands, Creating, Confirmable
  <2>7. CancellingInv'
    <3>1. pc'[c] = "closing" /\ target'[c] = l /\ \A d \in Cancels \ {c} : pc'[d] = pc[d] /\ target'[d] = target[d]
      BY <2>1, <2>2
    <3>2. \A k \in Lists : pc'[k] = pc[k]
      BY <2>2
    <3> QED
      BY <1>0, <2>1, <2>2, <2>3, <2>5, <3>1, <3>2 DEF LifecycleInv, CancellingInv
  <2>8. UNCHANGED Statuses
    BY <2>2 DEF Statuses
  <2> QED
    BY <2>6, <2>7, <2>8 DEF LifecycleInv
<1>9. ASSUME NEW c \in Cancels, CancelClose(c) PROVE Goal
  <2>1. /\ pc[c] = "closing" /\ pc' = [pc EXCEPT ![c] = "closingNft"]
        /\ auctions' = [auctions EXCEPT ![target[c]] = "closing"] /\ UNCHANGED <<currency, target>>
    BY <1>9 DEF CancelClose
  <2>2. pc[c] \in Cancelling /\ target[c] \in Lists
    BY <1>0, <2>1 DEF Cancelling
  <2>3. ListingStands'
    BY <2>1, <2>2 DEF LifecycleInv, ListingStands, CancellingInv, Creating, Confirmable
  <2>4. CancellingInv'
    BY <1>0, <2>1, <2>2 DEF LifecycleInv, CancellingInv, Cancelling, Closed
  <2>5. currency[target[c]] = "USD" => auctions[target[c]] \in {"open", "error"}
    BY <2>1, <2>2 DEF LifecycleInv, CancellingInv
  <2>6. [Changes]_Statuses
    BY <2>1, <2>2, <2>5, StatusFollows, FollowsAre
  <2> QED
    BY <2>3, <2>4, <2>6 DEF LifecycleInv
<1>10. ASSUME NEW c \in Cancels, CancelWithdraw(c) PROVE Goal
  <2>1. /\ pc[c] = "withdrawn" /\ pc' = [pc EXCEPT ![c] = "done"]
        /\ auctions' = [auctions EXCEPT ![target[c]] = "withdraw"] /\ UNCHANGED <<currency, target>>
    BY <1>10 DEF CancelWithdraw
  <2>2. target[c] \in Lists /\ currency[target[c]] # "USD" /\ pc[target[c]] \notin Creating
    BY <1>0, <2>1 DEF LifecycleInv, CancellingInv, Cancelling
  <2>3. ListingStands'
    BY <2>1, <2>2 DEF LifecycleInv, ListingStands
  <2>4. CancellingInv'
    BY <1>0, <2>1, <2>2 DEF LifecycleInv, CancellingInv, Cancelling
  <2>5. [Changes]_Statuses
    BY <2>1, <2>2, StatusFollows
  <2> QED
    BY <2>3, <2>4, <2>5 DEF LifecycleInv
\* A cancellation learns about its transaction: it has the client, so the listing
\* of its target is not being confirmed at the same time.
<1>11. ASSUME NEW c \in Cancels, Poll(c) PROVE Goal
  <2>1. PICK s \in Observable(c) :
          /\ auctions' = [auctions EXCEPT ![target[c]] = CancelAuctionStatus[s]]
          /\ Goto(c, IF Committed(s) \/ polls[c] + 1 = PollingLoops THEN "confirming" ELSE "polling")
    BY <1>11 DEF Poll
  <2>2. pc[c] = "polling" /\ UNCHANGED <<currency, target>>
    BY <1>11 DEF Poll
  <2>3. s \in PollStates /\ target[c] \in Lists /\ pc[c] \in Cancelling
    BY <1>0, <2>1, <2>2, ObservableIs DEF Progress, Cancelling
  <2>4. pc[target[c]] \notin Creating \union Confirmable
    <3>1. api = c /\ target[c] # c
      BY <2>2, <2>3 DEF HasApi, Using
    <3>2. pc[target[c]] \notin {"polling", "confirming"}
      BY <2>3, <3>1 DEF HasApi, Using
    <3> QED
      BY <2>3, <3>2 DEF LifecycleInv, CancellingInv, Confirmable
  <2>5. pc'[c] \in {"polling", "confirming"} /\ \A q \in Reqs \ {c} : pc'[q] = pc[q]
    BY <2>1
  <2>6. ListingStands'
    BY <2>1, <2>2, <2>4, <2>5 DEF LifecycleInv, ListingStands
  <2>7. CancelAuctionStatus[s] \in {"closing", "withdraw", "open", "error"}
        /\ (pc'[c] = "polling" => CancelAuctionStatus[s] \in Closed)
    BY <2>1, <2>3 DEF PollStates, CancelAuctionStatus, Committed, Closed
  <2>8. CancellingInv'
    <3>1. \A d \in Cancels : pc'[d] \in Cancelling => pc[d] \in Cancelling
      BY <2>3, <2>5
    <3>2. pc'[c] = "polling" \/ pc'[c] \notin Cancelling
      BY <2>5 DEF Cancelling
    <3>3. \A k \in Lists : auctions'[k] = IF k = target[c] THEN CancelAuctionStatus[s] ELSE auctions[k]
      BY <2>1
    <3>4. \A k \in Lists : pc'[k] = pc[k]
      BY <2>5
    <3>5. ASSUME NEW d \in Cancels, pc'[d] \in Cancelling, currency[target[d]] = "USD"
          PROVE  /\ pc'[d] \notin {"withdrawing", "withdrawn"}
                 /\ auctions'[target[d]] \in IF pc'[d] = "closing" THEN {"open", "error"} ELSE Closed
                 /\ \A e \in Cancels : pc'[e] \in Cancelling /\ target[e] = target[d] => e = d
      <4>1. target[d] \in Lists /\ pc[d] \in Cancelling /\ (target[d] = target[c] => d = c)
        BY <1>0, <2>3, <3>1, <3>5 DEF LifecycleInv, CancellingInv
      <4>2. CASE d = c
        BY <2>3, <3>1, <3>2, <3>3, <3>5, <2>7, <4>1, <4>2 DEF LifecycleInv, CancellingInv
      <4>3. CASE d # c
        BY <2>5, <3>1, <3>3, <3>5, <4>1, <4>3 DEF LifecycleInv, CancellingInv
      <4> QED
        BY <4>2, <4>3
    <3>6. \A d \in Cancels : pc'[d] \in Cancelling => pc'[target[d]] \notin Creating \union {"locking", "sending"}
      BY <1>0, <3>1, <3>4 DEF LifecycleInv, CancellingInv
    <3> QED
      BY <2>2, <3>5, <3>6 DEF CancellingInv
  <2>9. currency[target[c]] = "USD" => auctions[target[c]] \in Closed
    BY <2>2, <2>3 DEF LifecycleInv, CancellingInv
  <2>10. [Changes]_Statuses
    BY <2>1, <2>2, <2>3, <2>7, <2>9, StatusFollows, FollowsAre DEF Closed
  <2> QED
    BY <2>6, <2>8, <2>10 DEF LifecycleInv
<1>12. ASSUME NEW l \in Lists, ConfirmList(l), ~UNCHANGED auctions PROVE Goal
  <2>1. /\ pc[l] = "confirming" /\ pc' = [pc EXCEPT ![l] = "unlocking"]
        /\ auctions' = [auctions EXCEPT ![l] = "error"] /\ UNCHANGED <<currency, target>>
    BY <1>12 DEF ConfirmList
  <2>2. ListingStands'
    BY <2>1 DEF LifecycleInv, ListingStands, Creating, Confirmable
  <2>3. CancellingInv'
    BY <1>0, <2>1 DEF LifecycleInv, CancellingInv, Closed, Creating
  <2>4. currency[l] = "USD" => auctions[l] \in {"open", "unconfirmed", "closing", "error"}
    BY <2>1 DEF LifecycleInv, ListingStands, Confirmable, AuctionStatus
  <2>5. [Changes]_Statuses
    BY <2>1, <2>4, StatusFollows, FollowsAre
  <2> QED
    BY <2>2, <2>3, <2>5 DEF LifecycleInv
<1>13. ASSUME NEW l \in Lists, ConfirmAuction(l) PROVE Goal
  <2>1. /\ auctions[l] = "unconfirmed" /\ auctions' = [auctions EXCEPT ![l] = "open"]
        /\ UNCHANGED <<pc, currency, target>>
    BY <1>13 DEF ConfirmAuction
  <2>2. ListingStands'
    BY <2>1 DEF LifecycleInv, ListingStands
  <2>3. CancellingInv'
    BY <1>0, <2>1 DEF LifecycleInv, CancellingInv, Closed
  <2>4. [Changes]_Statuses
    BY <2>1, StatusFollows, FollowsAre
  <2> QED
    BY <2>2, <2>3, <2>4 DEF LifecycleInv
<1>14. CASE \/ \E r \in Reqs : ChainProcesses(r) \/ ChainRejects(r)
            \/ \E p \in Replicas : LoseInbox(p) \/ Deliver(p)
            \/ Unhide \/ Lapse \/ UNCHANGED vars
  BY <1>1, <1>14 DEF ChainProcesses, ChainRejects, LoseInbox, Deliver, Unhide, Lapse, vars
<1> HIDE DEF Goal, Types, TypeInv
<1> QED
  BY <1>2, <1>3, <1>4, <1>5, <1>6, <1>7, <1>8, <1>9, <1>10, <1>11, <1>12, <1>13, <1>14, ReleaseSucceeds
     DEF Next, Request, Network, Environment, Serve

(* As long as requests about one auction are asked for one after the other, *)
(* and until a key lapses under a confirmation that goes on (polls of it     *)
(* reached LeaseLoops), the status of every USD auction follows the life the *)
(* seller may rely on, however many requests are served at the same time,    *)
(* however late the confirmations of listings and cancellations come, and    *)
(* whichever process dies.                                                   *)
THEOREM FollowsLifecycle == Spec /\ []Apart => LifecycleSpec
<1> DEFINE Inv == ~lapsed => HasApi /\ LifecycleInv
<1>1. Init => Inv /\ Lifecycle!Init
  BY DEF Init, HasApi, LifecycleInv, ListingStands, CancellingInv,
         Serving, Using, Creating, Confirmable, Cancelling, Lifecycle!Init, Reqs
<1>2. Types /\ Inv /\ [Next]_vars /\ Apart' => Inv' /\ [Lifecycle!Next]_<<Statuses, ~lapsed>>
  <2> SUFFICES ASSUME Types, Inv, [Next]_vars, Apart'
               PROVE  Inv' /\ [Lifecycle!Next]_<<Statuses, ~lapsed>>
    OBVIOUS
  <2>1. CASE lapsed'
    BY <2>1 DEF Lifecycle!Next
  <2>2. CASE ~lapsed'
    <3>1. ~lapsed /\ HasApi /\ LifecycleInv
      BY <2>2, LapsedLasts
    <3>2. HasApi' /\ LifecycleInv' /\ [Changes]_Statuses
      BY <2>2, <3>1, HasApiStep, LifecycleStep
    <3>3. [Lifecycle!Next]_<<Statuses, ~lapsed>>
      BY <2>2, <3>1, <3>2 DEF Lifecycle!Next, Changes, Statuses
    <3> QED
      BY <3>2, <3>3
  <2> QED
    BY <2>1, <2>2
<1> QED
  BY <1>1, <1>2, TypesInvariant, PTL DEF Spec, LifecycleSpec, Lifecycle!Spec, Statuses

-----------------------------------------------------------------------------
(* At rest the database agrees with the network.  The claim is about runs   *)
(* in which every confirmation learns a verdict; they are the runs that     *)
(* never leave Sound.                                                       *)
PastPolling == {"confirming", "awaiting", "unlocking", "done"}
Sound ==
  /\ faults = 0 /\ ~lapsed
  /\ USDOnly
  /\ \A r \in Reqs :
       /\ pc[r] # "gaveUp"
       /\ pc[r] # "polling" =>
            polled[r] \in {None, "processed"} \union (IF r \in Lists THEN {} ELSE {"rejected"})

\* What a request leaves behind as it goes.
Trail ==
  \A r \in Reqs :
    /\ pc[r] \in Early => polled[r] = None /\ chain.tx[r] = None
    /\ polled[r] \in {"processed", "rejected"} => chain.tx[r] = polled[r]
    /\ r \in Lists => (IF pc[r] = "idle" THEN currency[r] = None ELSE currency[r] \in Currencies)
Orderly ==
  \A r \in Reqs :
    /\ pc[r] \notin {"dead", "gaveUp", "withdrawing", "withdrawn"}
    /\ pc[r] = "failed" => r \in Lists /\ auctions[r] = "none" /\ chain.tx[r] = None
    /\ pc[r] \in PastPolling => polled[r] \in {"processed", "rejected"}

\* The NFT has its AvN id, or will have when the bus is read.
OnBus(set) == \E p \in Replicas : \E i \in DOMAIN inbox[p] : inbox[p][i].set = set
Known == nft.avnNftId \/ OnBus("avnNftId")
MintInv ==
  /\ nft.status = "none" =>
       /\ \A r \in Reqs : pc[r] = "idle"
       /\ \A p \in Replicas : inbox[p] = <<>>
       /\ ~nft.avnNftId /\ ~chain.minted
  /\ ~OnBus("none")
  /\ Known => chain.minted /\ pc[Mint] \notin {"locking", "sending", "polling", "confirming"}
  /\ \A r \in Lists \union Cancels : pc[r] # "idle" => nft.avnNftId
  /\ \A r \in Reqs : chain.tx[r] = "processed" => chain.minted
  /\ chain.listed => \E l \in Lists : pc[l] # "idle"
Minting ==
  chain.minted /\ ~Known => chain.tx[Mint] = "processed" /\ pc[Mint] \in {"polling", "confirming"}

\* A listing the network has made and nobody has withdrawn; a cancellation comes
\* after the listing it cancels.
Standing(l) == pc[l] \in PastPolling /\ auctions[l] # "withdraw"
TargetsSent ==
  \A c \in Cancels : pc[c] # "idle" =>
    /\ target[c] \in Lists
    /\ pc[target[c]] \in PastPolling \union
         (IF pc[c] \in {"sending", "polling"} \union PastPolling THEN {} ELSE {"polling"})
    /\ pc[c] = "confirming" /\ polled[c] = "rejected" => auctions[target[c]] # "withdraw"
OneStanding == \A l, k \in Lists : Standing(l) /\ Standing(k) => l = k
Withdrawing(l) == \E c \in Cancels : target[c] = l /\ pc[c] = "polling" /\ chain.tx[c] = "processed"
StandingIsListed == \A l \in Lists : Standing(l) => chain.listed \/ Withdrawing(l)
ListedAlone == \A l, k \in Lists : pc[l] = "polling" /\ chain.tx[l] = "processed" => ~Standing(k)
VerdictHolds ==
  \A r \in Lists \union Cancels :
    pc[r] \in {"polling", "confirming"} /\ chain.tx[r] = "processed" => chain.listed = (r \in Lists)
ListedInv == TargetsSent /\ OneStanding /\ StandingIsListed /\ ListedAlone /\ VerdictHolds

\* Unless a request will still say so, the status that is said last is right.
Busy ==
  \/ \E l \in Lists : pc[l] \in {"creating", "locking", "sending", "polling"}
  \/ \E c \in Cancels : pc[c] \in {"locking", "sending", "polling", "confirming"}
Says(m) == m.set \notin {"avnNftId", "undefined"}
Silent(q) == \A i \in DOMAIN q : ~Says(q[i])
Right(status) == status = "forSale" <=> chain.listed
EndsRight(q) ==
  \A i \in DOMAIN q : Says(q[i]) /\ (\A j \in DOMAIN q : j > i => ~Says(q[j])) => Right(q[i].set)
SaidRight ==
  /\ \A p \in Replicas : EndsRight(inbox[p])
  /\ (\A p \in Replicas : Silent(inbox[p])) => Right(nft.status)
SaidInv == ~Busy => SaidRight

AgreeInv == Sound => Orderly /\ Minting /\ ListedInv /\ SaidInv

LEMMA TrailStep == Types /\ Trail /\ [Next]_vars => Trail'
<1> SUFFICES ASSUME TypeInv, Progress, Trail, [Next]_vars PROVE Trail'
  BY DEF Types
<1> USE RequestAssumption, BusAssumption DEF Goto, docs, input, polling, bus, past, Reqs, Trail
\* A request that moves on without asking, sending or polling.
<1>1. ASSUME NEW r \in Reqs, NEW label \in PC \ {"idle"}, pc' = [pc EXCEPT ![r] = label], pc[r] # "idle",
             label \in Early => pc[r] \in Early, UNCHANGED <<polled, currency, chain>>
      PROVE  Trail'
  BY <1>1 DEF TypeInv
<1>2. CASE MintRequest \/ \E c \in Cancels : CancelRequest(c)
  <2>1. PICK r \in Reqs \ Lists : pc[r] = "idle" /\ UNCHANGED <<polled, currency, chain>> /\
                                  \E label \in PC : pc' = [pc EXCEPT ![r] = label]
    BY <1>2 DEF MintRequest, CancelRequest, Arrives, PC, Serving
  <2> QED
    BY <2>1 DEF TypeInv, Early
<1>3. ASSUME NEW l \in Lists, ListRequest(l) PROVE Trail'
  <2>1. /\ pc[l] = "idle" /\ pc' = [pc EXCEPT ![l] = "checking"] /\ UNCHANGED <<polled, chain>>
        /\ \E c \in Currencies : currency' = [currency EXCEPT ![l] = c]
    BY <1>3 DEF ListRequest, Arrives
  <2> QED
    BY <2>1 DEF TypeInv, Early
<1>4. ASSUME NEW l \in Lists, ListCheckSale(l) \/ ListMark(l) \/ ListCreate(l) \/ ConfirmList(l)
      PROVE  Trail'
  <2>1. PICK label \in {"marking", "creating", "failed", "locking", "awaiting", "unlocking"} :
          pc' = [pc EXCEPT ![l] = label]
    BY <1>4 DEF ListCheckSale, ListMark, ListCreate, ConfirmList
  <2>2. UNCHANGED <<polled, currency, chain>> /\ pc[l] \in {"checking", "marking", "creating", "confirming"}
    BY <1>4 DEF ListCheckSale, ListMark, ListCreate, ConfirmList
  <2>3. pc[l] = "confirming" => label \in {"awaiting", "unlocking"}
    BY <1>4, <2>1 DEF ListCheckSale, ListMark, ListCreate, ConfirmList, TypeInv
  <2> QED
    BY <1>1, <2>1, <2>2, <2>3 DEF PC, Early, Serving, Background, Ended
<1>5. ASSUME NEW c \in Cancels, \/ CancelClose(c) \/ CancelMark(c) \/ CancelRestoreNft(c)
                                \/ CancelWithdraw(c) \/ ConfirmCancel(c)
      PROVE  Trail'
  <2>1. PICK label \in {"closingNft", "locking", "withdrawing", "withdrawn", "done", "unlocking"} :
          pc' = [pc EXCEPT ![c] = label]
    BY <1>5 DEF CancelClose, CancelMark, CancelRestoreNft, CancelWithdraw, ConfirmCancel
  <2>2. /\ UNCHANGED <<polled, currency, chain>>
        /\ pc[c] \in {"closing", "closingNft", "withdrawing", "withdrawn", "confirming"}
    BY <1>5 DEF CancelClose, CancelMark, CancelRestoreNft, CancelWithdraw, ConfirmCancel
  <2>3. pc[c] = "confirming" => label = "unlocking"
    BY <1>5, <2>1 DEF CancelClose, CancelMark, CancelRestoreNft, CancelWithdraw, ConfirmCancel, TypeInv
  <2> QED
    BY <1>1, <2>1, <2>2, <2>3 DEF PC, Early, Serving, Background, Ended
<1>6. CASE ConfirmMint
  <2>1. PICK label \in {"unlocking", "awaiting"} : pc' = [pc EXCEPT ![Mint] = label]
    BY <1>6 DEF ConfirmMint
  <2> QED
    BY <1>1, <1>6, <2>1 DEF ConfirmMint, PC, Background, Early, Serving
<1>7. ASSUME NEW r \in Reqs, Acquire(r) \/ GiveUp(r) \/ Answered(r) \/ Unlock(r) \/ Fail(r) \/ Die(r)
      PROVE  Trail'
  <2>1. PICK label \in {"sending", "gaveUp", "unlocking", "done", "dead", "failed"} :
          pc' = [pc EXCEPT ![r] = label]
    BY <1>7 DEF Acquire, GiveUp, Answered, Unlock, Fail, Die
  <2>2. /\ UNCHANGED <<polled, currency, chain>> /\ pc[r] # "idle"
        /\ label = "sending" => pc[r] = "locking"
    BY <1>7, <2>1 DEF Acquire, GiveUp, Answered, Unlock, Fail, Die, TypeInv
  <2> QED
    BY <1>1, <2>1, <2>2 DEF PC, Background, Ended, Early, Serving
<1>8. ASSUME NEW r \in Reqs, Send(r) PROVE Trail'
  <2>1. /\ pc[r] = "sending" /\ pc' = [pc EXCEPT ![r] = "polling"] /\ UNCHANGED <<polled, currency>>
        /\ chain' = [chain EXCEPT !.tx = [chain.tx EXCEPT ![r] = "sent"]]
    BY <1>8 DEF Send
  <2>2. \A q \in Reqs \ {r} : chain'.tx[q] = chain.tx[q]
    BY <2>1 DEF Progress
  <2> QED
    BY <2>1, <2>2 DEF TypeInv, Early, Serving
<1>9. ASSUME NEW r \in Reqs, Poll(r) PROVE Trail'
  <2>1. PICK s \in Observable(r), label \in {"polling", "confirming"} :
          polled' = [polled EXCEPT ![r] = s] /\ pc' = [pc EXCEPT ![r] = label]
    BY <1>9 DEF Poll
  <2>2. pc[r] = "polling" /\ UNCHANGED <<currency, chain>>
    BY <1>9 DEF Poll
  <2>3. s \in {"processed", "rejected"} => chain.tx[r] = s
    BY <2>1 DEF Observable
  <2> QED
    BY <2>1, <2>2, <2>3 DEF TypeInv, Early, Serving
<1>10. ASSUME NEW r \in Reqs, ChainProcesses(r) \/ ChainRejects(r) PROVE Trail'
  <2>1. /\ chain.tx[r] = "sent" /\ UNCHANGED <<pc, polled, currency>>
        /\ \A q \in Reqs \ {r} : chain'.tx[q] = chain.tx[q]
    BY <1>10 DEF ChainProcesses, ChainRejects, Progress
  <2> QED
    BY <2>1
<1>11. CASE \/ \E p \in Replicas : Deliver(p) \/ LoseInbox(p)
            \/ \E l \in Lists : ConfirmAuction(l)
            \/ Unhide \/ Lapse \/ UNCHANGED vars
  BY <1>11 DEF Deliver, LoseInbox, ConfirmAuction, Unhide, Lapse, vars
<1>12. ASSUME NEW r \in Reqs, UnlockFails(r) PROVE Trail'
  BY <1>12, FailingReleaseEnds DEF Early, Serving
<1> QED
  BY <1>2, <1>3, <1>4, <1>5, <1>6, <1>7, <1>8, <1>9, <1>10, <1>11, <1>12
     DEF Next, Request, Network, Environment, Serve

\* A run that leaves Sound never comes back.
LEMMA SoundBack == Types /\ Trail /\ [Next]_vars /\ Sound' => Sound /\ faults' = faults
<1> SUFFICES ASSUME TypeInv, Trail, [Next]_vars, Sound' PROVE Sound /\ faults' = faults
  BY DEF Types
<1> USE RequestAssumption, BusAssumption DEF Goto, docs, input, polling, bus, past, Reqs
<1>1. faults' \in {faults, faults + 1}
  BY DEF Next, Request, MintRequest, ListRequest, CancelRequest, Network, ChainProcesses, ChainRejects,
         Environment, Unhide, ConfirmAuction, Fail, Die, LoseInbox, Fault, Lapse, Serve, ListCheckSale,
         ListMark, ListCreate, ConfirmList, CancelClose, CancelMark, CancelRestoreNft, CancelWithdraw,
         ConfirmCancel, ConfirmMint, Acquire, GiveUp, Send, Poll, Answered, Unlock, UnlockFails,
         Deliver, vars
<1>2. faults = 0 /\ faults' = 0
  BY <1>1, ListingAssumption DEF Sound, TypeInv
\* Outside of the loop nothing is polled, only who sends enters it, and who gave
\* up comes to nothing else.
<1>3. \A r \in Reqs : pc[r] # "polling" =>
        /\ polled'[r] = polled[r]
        /\ pc'[r] = "polling" => pc[r] = "sending"
        /\ pc[r] = "gaveUp" => pc'[r] = "gaveUp"
  <2> DEFINE Goal(r) == /\ polled'[r] = polled[r]
                        /\ pc'[r] = "polling" => pc[r] = "sending"
                        /\ pc[r] = "gaveUp" => pc'[r] = "gaveUp"
  <2> SUFFICES ASSUME NEW r \in Reqs, pc[r] # "polling" PROVE Goal(r)
    OBVIOUS
  <2>1. ASSUME NEW q \in Reqs, Send(q) \/ Poll(q)
        PROVE  Goal(r)
    BY <2>1 DEF Send, Poll, TypeInv
  <2>2. ASSUME NEW q \in Reqs, pc[q] # "gaveUp", NEW label, label # "polling", UNCHANGED polled,
               pc' = [pc EXCEPT ![q] = label]
        PROVE  Goal(r)
    BY <2>2 DEF TypeInv
  <2>3. CASE Request
    BY <2>2, <2>3 DEF Request, MintRequest, ListRequest, CancelRequest, Arrives
  <2>4. ASSUME NEW l \in Lists, ListCheckSale(l) \/ ListMark(l) \/ ListCreate(l) \/ ConfirmList(l)
        PROVE  /\ UNCHANGED polled /\ pc[l] # "gaveUp"
               /\ \E label : label # "polling" /\ pc' = [pc EXCEPT ![l] = label]
    BY <2>4 DEF ListCheckSale, ListMark, ListCreate, ConfirmList
  <2>5. ASSUME NEW c \in Cancels, \/ CancelClose(c) \/ CancelMark(c) \/ CancelRestoreNft(c)
                                  \/ CancelWithdraw(c) \/ ConfirmCancel(c)
        PROVE  /\ UNCHANGED polled /\ pc[c] # "gaveUp"
               /\ \E label : label # "polling" /\ pc' = [pc EXCEPT ![c] = label]
    BY <2>5 DEF CancelClose, CancelMark, CancelRestoreNft, CancelWithdraw, ConfirmCancel
  <2>6. CASE ConfirmMint
    BY <2>2, <2>6 DEF ConfirmMint
  <2>7. ASSUME NEW q \in Reqs, Acquire(q) \/ GiveUp(q) \/ Answered(q) \/ Unlock(q) \/ Fail(q) \/ Die(q)
        PROVE  /\ UNCHANGED polled /\ pc[q] # "gaveUp"
               /\ \E label : label # "polling" /\ pc' = [pc EXCEPT ![q] = label]
    BY <2>7 DEF Acquire, GiveUp, Answered, Unlock, Fail, Die, Ended
  <2>8. CASE UNCHANGED <<pc, polled>>
    BY <2>8
  <2>9. ASSUME NEW q \in Reqs, UnlockFails(q) PROVE Goal(r)
    <3>1. pc[r] = "gaveUp" => pc'[r] = "gaveUp"
      BY <2>9 DEF UnlockFails, TypeInv, Ended
    <3>2. pc'[r] \in {pc[r], "dead"} /\ polled'[r] = polled[r]
      BY <2>9, FailingReleaseEnds
    <3> QED
      BY <3>1, <3>2
  <2>10. CASE UNCHANGED <<pc, polled>> \/ \E q \in Reqs : ChainProcesses(q) \/ ChainRejects(q)
    BY <2>8, <2>10 DEF ChainProcesses, ChainRejects
  <2>11. CASE \/ Unhide \/ (\E l \in Lists : ConfirmAuction(l)) \/ Lapse \/ UNCHANGED vars
              \/ \E p \in Replicas : LoseInbox(p) \/ Deliver(p)
    BY <2>8, <2>11 DEF Unhide, ConfirmAuction, LoseInbox, Lapse, Deliver, vars
  <2>12. ASSUME NEW l \in Lists, ListCheckSale(l) \/ ListMark(l) \/ ListCreate(l) \/ ConfirmList(l)
         PROVE  Goal(r)
    BY <2>2, <2>4, <2>12
  <2>13. ASSUME NEW c \in Cancels, \/ CancelClose(c) \/ CancelMark(c) \/ CancelRestoreNft(c)
                                   \/ CancelWithdraw(c) \/ ConfirmCancel(c)
         PROVE  Goal(r)
    BY <2>2, <2>5, <2>13
  <2>14. ASSUME NEW q \in Reqs, \/ Acquire(q) \/ GiveUp(q) \/ Answered(q) \/ Unlock(q) \/ Fail(q)
                                \/ Die(q)
         PROVE  Goal(r)
    BY <2>2, <2>7, <2>14
  <2> HIDE DEF Goal
  <2> QED
    BY <2>1, <2>3, <2>6, <2>9, <2>10, <2>11, <2>12, <2>13, <2>14
       DEF Next, Network, Environment, Serve
<1>4. USDOnly
  <2>1. CASE UNCHANGED currency
    BY <2>1 DEF Sound, USDOnly
  <2>2. ASSUME NEW l \in Lists, ListRequest(l) PROVE USDOnly
    <3>1. currency[l] = None /\ \A k \in Lists \ {l} : currency'[k] = currency[k]
      BY <2>2 DEF ListRequest, Arrives, Trail, TypeInv
    <3> QED
      BY <3>1 DEF Sound, USDOnly
  <2>3. (\E l \in Lists : ListRequest(l)) \/ UNCHANGED currency
    BY DEF Next, Request, MintRequest, CancelRequest, Network, ChainProcesses, ChainRejects,
           Environment, Unhide, ConfirmAuction, Fail, Die, LoseInbox, Lapse, Serve, ListCheckSale,
           ListMark, ListCreate, ConfirmList, CancelClose, CancelMark, CancelRestoreNft, CancelWithdraw,
           ConfirmCancel, ConfirmMint, Acquire, GiveUp, Send, Poll, Answered, Unlock, UnlockFails,
         Deliver, vars
  <2> QED
    BY <2>1, <2>2, <2>3
<1>5. ASSUME NEW r \in Reqs, pc[r] # "polling"
      PROVE  /\ pc[r] # "gaveUp"
             /\ polled[r] \in {None, "processed"} \union (IF r \in Lists THEN {} ELSE {"rejected"})
  <2>1. CASE pc'[r] = "polling"
    BY <1>3, <1>5, <2>1 DEF Trail, Early
  <2>2. CASE pc'[r] # "polling"
    BY <1>3, <1>5, <2>2 DEF Sound
  <2> QED
    BY <2>1, <2>2
<1>6. ~lapsed
  BY LapsedLasts DEF Sound
<1> QED
  BY <1>2, <1>4, <1>5, <1>6 DEF Sound

LEMMA PublishedIsOnBus ==
  ASSUME TypeInv, NEW set, NEW re, Publish(set, re)
  PROVE  OnBus(set)' /\ \A s : (OnBus(s)' => OnBus(s) \/ s = set) /\ (OnBus(s) => OnBus(s)')
<1>1. OnBus(set)'
  <2>1. PICK p \in Replicas : TRUE
    BY BusAssumption
  <2>2. PICK n \in Nat : DOMAIN inbox'[p] = 1..n+1 /\ inbox'[p][n+1] = [set |-> set, re |-> re]
    BY Published
  <2>3. n+1 \in DOMAIN inbox'[p] /\ inbox'[p][n+1].set = set
    BY <2>2
  <2> QED
    BY <2>3 DEF OnBus
<1>2. ASSUME NEW s, NEW p \in Replicas, NEW i \in DOMAIN inbox'[p], inbox'[p][i].set = s
      PROVE  OnBus(s) \/ s = set
  <2>1. PICK n \in Nat : /\ DOMAIN inbox[p] = 1..n /\ DOMAIN inbox'[p] = 1..n+1
                         /\ inbox'[p][n+1] = [set |-> set, re |-> re]
                         /\ \A j \in 1..n : inbox'[p][j] = inbox[p][j]
    BY Published
  <2>2. CASE i = n+1
    BY <1>2, <2>1, <2>2
  <2>3. CASE i \in 1..n
    BY <1>2, <2>1, <2>3 DEF OnBus
  <2> QED
    BY <1>2, <2>1, <2>2, <2>3
<1>3. ASSUME NEW s, NEW p \in Replicas, NEW i \in DOMAIN inbox[p], inbox[p][i].set = s
      PROVE  OnBus(s)'
  <2>1. i \in DOMAIN inbox'[p] /\ inbox'[p][i] = inbox[p][i]
    <3>1. PICK n \in Nat : /\ DOMAIN inbox[p] = 1..n /\ DOMAIN inbox'[p] = 1..n+1
                           /\ inbox'[p][n+1] = [set |-> set, re |-> re]
                           /\ \A j \in 1..n : inbox'[p][j] = inbox[p][j]
      BY Published
    <3> QED
      BY <1>3, <3>1
  <2> QED
    BY <1>3, <2>1 DEF OnBus
<1>4. \A s : (OnBus(s)' => OnBus(s) \/ s = set)
  BY <1>2 DEF OnBus
<1>5. \A s : OnBus(s) => OnBus(s)'
  BY <1>3 DEF OnBus
<1> QED
  BY <1>1, <1>4, <1>5

LEMMA DeliveredWasOnBus ==
  ASSUME TypeInv, NEW p \in Replicas, Deliver(p)
  PROVE  /\ OnBus(inbox[p][1].set)
         /\ \A s : (OnBus(s)' => OnBus(s)) /\ (OnBus(s) => OnBus(s)' \/ s = inbox[p][1].set)
<1>1. PICK n \in Nat : /\ DOMAIN inbox[p] = 1..n+1 /\ DOMAIN inbox'[p] = 1..n
                       /\ \A i \in 1..n : inbox'[p][i] = inbox[p][i+1]
  BY Delivered
<1>2. \A q \in Replicas \ {p} : inbox'[q] = inbox[q]
  BY Delivered
<1>3. OnBus(inbox[p][1].set)
  BY <1>1 DEF OnBus
<1>4. ASSUME NEW s, NEW q \in Replicas, NEW i \in DOMAIN inbox'[q], inbox'[q][i].set = s
      PROVE  OnBus(s)
  <2>1. CASE q = p
    <3>1. i + 1 \in DOMAIN inbox[p] /\ inbox[p][i+1].set = s
      BY <1>1, <1>4, <2>1
    <3> QED
      BY <3>1 DEF OnBus
  <2>2. CASE q # p
    BY <1>2, <1>4, <2>2 DEF OnBus
  <2> QED
    BY <2>1, <2>2
<1>5. ASSUME NEW s, NEW q \in Replicas, NEW i \in DOMAIN inbox[q], inbox[q][i].set = s, s # inbox[p][1].set
      PROVE  OnBus(s)'
  <2>1. CASE q = p
    <3>1. i \in 2..n+1
      BY <1>1, <1>5, <2>1
    <3>2. i - 1 \in DOMAIN inbox'[p] /\ inbox'[p][i-1].set = s
      BY <1>1, <1>5, <2>1, <3>1
    <3> QED
      BY <3>2 DEF OnBus
  <2>2. CASE q # p
    BY <1>2, <1>5, <2>2 DEF OnBus
  <2> QED
    BY <2>1, <2>2
<1>6. \A s : OnBus(s)' => OnBus(s)
  BY <1>4 DEF OnBus
<1>7. \A s : OnBus(s) => OnBus(s)' \/ s = inbox[p][1].set
  BY <1>5 DEF OnBus
<1> QED
  BY <1>3, <1>6, <1>7

LEMMA MintStep == Types /\ Trail /\ HasApi /\ ListingStands /\ MintInv /\ [Next]_vars => MintInv'
<1> SUFFICES ASSUME TypeInv, Progress, Trail, HasApi, ListingStands, MintInv, [Next]_vars PROVE MintInv'
  BY DEF Types
<1> USE RequestAssumption, BusAssumption DEF Goto, docs, input, polling, bus, past, Reqs
<1> DEFINE AtWork == {"locking", "sending", "polling", "confirming"}
\* A request moves on; what it writes or publishes, if anything, is a status.
<1>1. ASSUME NEW r \in Reqs, pc[r] # "idle", NEW label, label # "idle", pc' = [pc EXCEPT ![r] = label],
             nft'.avnNftId = nft.avnNftId, nft'.status = "none" => nft.status = "none",
             chain'.minted = chain.minted, chain'.listed = chain.listed,
             \A q \in Reqs : chain'.tx[q] = "processed" => chain.tx[q] = "processed",
             label \in AtWork => r # Mint \/ pc[r] \in AtWork,
             \/ UNCHANGED inbox
             \/ \E set \in NftStatus \union {"undefined"} : \E re : set # "none" /\ Publish(set, re)
      PROVE  MintInv'
  <2>1. \A q \in Reqs : pc'[q] = IF q = r THEN label ELSE pc[q]
    BY <1>1 DEF TypeInv
  <2>2. nft.status # "none"
    BY <1>1 DEF MintInv
  <2>3. (OnBus("none")' => OnBus("none")) /\ (OnBus("avnNftId")' => OnBus("avnNftId"))
    <3>1. CASE UNCHANGED inbox
      BY <3>1 DEF OnBus
    <3>2. ASSUME NEW set \in NftStatus \union {"undefined"}, NEW re, set # "none", Publish(set, re)
          PROVE  (OnBus("none")' => OnBus("none")) /\ (OnBus("avnNftId")' => OnBus("avnNftId"))
      BY <3>2, PublishedIsOnBus DEF NftStatus
    <3> QED
      BY <1>1, <3>1, <3>2
  <2>4. Known' => Known
    BY <1>1, <2>3 DEF Known
  <2>5. pc'[Mint] \in AtWork => pc[Mint] \in AtWork
    BY <1>1, <2>1
  <2> QED
    BY <1>1, <2>1, <2>2, <2>3, <2>4, <2>5 DEF MintInv
<1>2. CASE MintRequest
  <2>1. /\ nft.status = "none" /\ pc' = [pc EXCEPT ![Mint] = "locking"] /\ UNCHANGED <<inbox, chain>>
        /\ nft'.status # "none" /\ nft'.avnNftId = FALSE
    BY <1>2 DEF MintRequest
  <2>2. ~Known
    BY <2>1 DEF MintInv, Known, OnBus
  <2>3. ~Known' /\ ~OnBus("none")'
    BY <2>1, <2>2 DEF MintInv, Known, OnBus
  <2>4. \A r \in Lists \union Cancels : pc'[r] = "idle"
    BY <2>1 DEF MintInv, TypeInv
  <2> QED
    BY <2>1, <2>3, <2>4 DEF MintInv
<1>3. ASSUME NEW r \in Lists \union Cancels, pc[r] = "idle", NEW label, label # "idle",
             pc' = [pc EXCEPT ![r] = label], nft.avnNftId, UNCHANGED <<nft, inbox, chain>>
      PROVE  MintInv'
  <2>1. \A q \in Reqs : pc'[q] = IF q = r THEN label ELSE pc[q]
    BY <1>3 DEF TypeInv
  <2>2. (OnBus("none")' => OnBus("none")) /\ (Known' => Known)
    BY <1>3 DEF OnBus, Known
  <2> QED
    BY <1>3, <2>1, <2>2 DEF MintInv
<1>4. ASSUME NEW l \in Lists, ListRequest(l) PROVE MintInv'
  BY <1>3, <1>4 DEF ListRequest, Arrives
<1>5. ASSUME NEW c \in Cancels, CancelRequest(c) PROVE MintInv'
  <2>1. PICK l \in Lists : auctions[l] = "open"
    BY <1>5 DEF CancelRequest
  <2>2. nft.avnNftId
    BY <2>1 DEF ListingStands, Creating, MintInv
  <2> QED
    BY <1>3, <1>5, <2>2 DEF CancelRequest, Arrives
<1>6. ASSUME NEW l \in Lists, ListCheckSale(l) \/ ListCreate(l) \/ ConfirmList(l) PROVE MintInv'
  <2>1. PICK label : label # "idle" /\ pc' = [pc EXCEPT ![l] = label]
    BY <1>6 DEF ListCheckSale, ListCreate, ConfirmList
  <2>2. /\ pc[l] # "idle" /\ UNCHANGED <<nft, chain>>
        /\ UNCHANGED inbox \/ Publish("forSale", l)
    BY <1>6 DEF ListCheckSale, ListCreate, ConfirmList
  <2> QED
    BY <1>1, <2>1, <2>2 DEF NftStatus
<1>7. ASSUME NEW c \in Cancels, CancelClose(c) \/ CancelRestoreNft(c) \/ CancelWithdraw(c) \/ ConfirmCancel(c)
      PROVE  MintInv'
  <2>1. PICK label : label # "idle" /\ pc' = [pc EXCEPT ![c] = label]
    BY <1>7 DEF CancelClose, CancelRestoreNft, CancelWithdraw, ConfirmCancel
  <2>2. pc[c] # "idle" /\ UNCHANGED <<nft, chain>>
    BY <1>7 DEF CancelClose, CancelRestoreNft, CancelWithdraw, ConfirmCancel
  <2>3. \/ UNCHANGED inbox
        \/ \E set \in NftStatus \union {"undefined"} : \E re : set # "none" /\ Publish(set, re)
    <3>1. CASE CancelRestoreNft(c)
      BY <3>1 DEF CancelRestoreNft, NftStatus
    <3>2. CASE ConfirmCancel(c)
      <4>1. CancelNftStatus[polled[c]] \in (NftStatus \union {"undefined"}) \ {"none"}
        BY <3>2 DEF ConfirmCancel, Progress, PollStates, CancelNftStatus, NftStatus
      <4>2. Publish(CancelNftStatus[polled[c]], None)
        BY <3>2 DEF ConfirmCancel
      <4> QED
        BY <4>1, <4>2
    <3>3. CASE CancelClose(c) \/ CancelWithdraw(c)
      BY <3>3 DEF CancelClose, CancelWithdraw
    <3> QED
      BY <1>7, <3>1, <3>2, <3>3
  <2> QED
    BY <1>1, <2>1, <2>2, <2>3
<1>8. ASSUME NEW r \in Reqs, (r \in Lists /\ ListMark(r)) \/ (r \in Cancels /\ CancelMark(r))
      PROVE  MintInv'
  <2>1. PICK label : label # "idle" /\ pc' = [pc EXCEPT ![r] = label]
    BY <1>8 DEF ListMark, CancelMark
  <2>2. pc[r] # "idle" /\ r # Mint /\ UNCHANGED <<inbox, chain>>
    BY <1>8 DEF ListMark, CancelMark
  <2>3. \E s \in NftStatus : s # "none" /\ nft' = [nft EXCEPT !.status = s]
    BY <1>8 DEF ListMark, CancelMark, NftStatus
  <2>4. nft'.avnNftId = nft.avnNftId /\ nft'.status # "none"
    BY <2>3 DEF TypeInv
  <2> QED
    BY <1>1, <2>1, <2>2, <2>4
<1>9. CASE ConfirmMint
  <2>1. /\ pc[Mint] = "confirming" /\ UNCHANGED <<nft, chain>>
        /\ \E label \in {"unlocking", "awaiting"} : pc' = [pc EXCEPT ![Mint] = label]
    BY <1>9 DEF ConfirmMint
  <2>2. CASE UNCHANGED inbox \/ Publish("draft", Mint)
    BY <1>1, <2>1, <2>2 DEF NftStatus
  <2>3. CASE polled[Mint] = "processed" /\ Publish("avnNftId", None)
    <3>1. chain.minted
      BY <2>3 DEF Trail, MintInv
    <3>2. OnBus("none")' => OnBus("none")
      BY <2>3, PublishedIsOnBus
    <3>3. pc'[Mint] \in {"unlocking", "awaiting"} /\ \A r \in Reqs \ {Mint} : pc'[r] = pc[r]
      BY <2>1 DEF TypeInv
    <3>4. nft.status # "none"
      BY <2>1 DEF MintInv
    <3> QED
      BY <2>1, <3>1, <3>2, <3>3, <3>4 DEF MintInv
  <2> QED
    BY <1>9, <2>2, <2>3 DEF ConfirmMint
<1>10. ASSUME NEW r \in Reqs, Acquire(r) \/ GiveUp(r) \/ Answered(r) \/ Unlock(r) \/ Fail(r) \/ Die(r)
       PROVE  MintInv'
  <2>1. PICK label \in {"sending", "gaveUp", "unlocking", "done", "dead", "failed"} :
          pc' = [pc EXCEPT ![r] = label]
    BY <1>10 DEF Acquire, GiveUp, Answered, Unlock, Fail, Die
  <2>2. pc[r] # "idle" /\ UNCHANGED <<nft, inbox, chain>> /\ (label = "sending" => pc[r] = "locking")
    BY <1>10, <2>1 DEF Acquire, GiveUp, Answered, Unlock, Fail, Die, TypeInv
  <2> QED
    BY <1>1, <2>1, <2>2
<1>11. ASSUME NEW r \in Reqs, Send(r) PROVE MintInv'
  <2>1. /\ pc[r] = "sending" /\ pc' = [pc EXCEPT ![r] = "polling"] /\ UNCHANGED <<nft, inbox>>
        /\ chain' = [chain EXCEPT !.tx = [chain.tx EXCEPT ![r] = "sent"]]
    BY <1>11 DEF Send
  <2>2. /\ chain'.minted = chain.minted /\ chain'.listed = chain.listed
        /\ \A q \in Reqs : chain'.tx[q] = "processed" => chain.tx[q] = "processed"
    BY <2>1 DEF Progress
  <2> QED
    BY <1>1, <2>1, <2>2
<1>12. ASSUME NEW r \in Reqs, Poll(r) PROVE MintInv'
  <2>1. PICK s \in Observable(r), label \in {"polling", "confirming"} :
          /\ pc' = [pc EXCEPT ![r] = label]
          /\ UNCHANGED inbox \/ Publish((IF r = Mint THEN MintStatus ELSE ListStatus)[s], None)
    BY <1>12 DEF Poll
  <2>2. pc[r] = "polling" /\ UNCHANGED <<nft, chain>>
    BY <1>12 DEF Poll
  <2>3. (IF r = Mint THEN MintStatus ELSE ListStatus)[s] \in NftStatus \ {"none"}
    BY <2>1, <2>2, ObservableIs DEF Progress, PollStates, MintStatus, ListStatus, NftStatus
  <2> QED
    BY <1>1, <2>1, <2>2, <2>3
<1>13. ASSUME NEW r \in Reqs, ChainProcesses(r) PROVE MintInv'
  <2>1. /\ chain.tx[r] = "sent" /\ UNCHANGED <<nft, inbox, pc>>
        /\ chain'.minted = TRUE /\ chain'.listed = (r \in Lists)
    BY <1>13 DEF ChainProcesses
  <2>2. pc[r] # "idle"
    BY <2>1 DEF Trail, Early
  <2>3. nft.status # "none"
    BY <2>2 DEF MintInv
  <2> QED
    BY <2>1, <2>2, <2>3 DEF MintInv, Known, OnBus
<1>14. ASSUME NEW r \in Reqs, ChainRejects(r) PROVE MintInv'
  <2>1. /\ UNCHANGED <<nft, inbox, pc>>
        /\ chain' = [chain EXCEPT !.tx = [chain.tx EXCEPT ![r] = "rejected"]]
    BY <1>14 DEF ChainRejects
  <2>2. /\ chain'.minted = chain.minted /\ chain'.listed = chain.listed
        /\ \A q \in Reqs : chain'.tx[q] = "processed" => chain.tx[q] = "processed"
    BY <2>1 DEF Progress
  <2> QED
    BY <2>1, <2>2 DEF MintInv, Known, OnBus
<1>15. ASSUME NEW p \in Replicas, Deliver(p) PROVE MintInv'
  <2>1. /\ inbox[p] # <<>> /\ UNCHANGED <<pc, chain>>
        /\ inbox[p][1] \in Msgs /\ OnBus(inbox[p][1].set)
        /\ nft' = IF inbox[p][1].set = "avnNftId" THEN [nft EXCEPT !.avnNftId = TRUE]
                  ELSE IF inbox[p][1].set = "undefined" THEN nft
                  ELSE [nft EXCEPT !.status = inbox[p][1].set]
        /\ OnBus("none")' => OnBus("none")
        /\ OnBus("avnNftId")' => OnBus("avnNftId")
    BY <1>15, Delivered, DeliveredWasOnBus DEF Deliver
  <2>2. nft'.avnNftId = (nft.avnNftId \/ inbox[p][1].set = "avnNftId")
    BY <2>1 DEF TypeInv
  <2>3. nft'.status # "none"
    BY <2>1 DEF TypeInv, MintInv
  <2>4. Known' => Known
    BY <2>1, <2>2 DEF Known
  <2> QED
    BY <2>1, <2>2, <2>3, <2>4 DEF MintInv
<1>16. ASSUME NEW p \in Replicas, LoseInbox(p) PROVE MintInv'
  <2>1. UNCHANGED <<nft, pc, chain>> /\ inbox' = [inbox EXCEPT ![p] = <<>>]
    BY <1>16 DEF LoseInbox
  <2>2. \A s : OnBus(s)' => OnBus(s)
    BY <2>1 DEF OnBus, TypeInv
  <2>3. (\A q \in Replicas : inbox[q] = <<>>) => \A q \in Replicas : inbox'[q] = <<>>
    BY <2>1 DEF TypeInv
  <2> QED
    BY <2>1, <2>2, <2>3 DEF MintInv, Known
<1>17. CASE Unhide
  <2>1. nft'.avnNftId = nft.avnNftId /\ nft'.status = nft.status /\ UNCHANGED <<pc, inbox, chain>>
    BY <1>17 DEF Unhide, TypeInv
  <2> QED
    BY <2>1 DEF MintInv, Known, OnBus
<1>18. CASE (\E l \in Lists : ConfirmAuction(l)) \/ Lapse \/ UNCHANGED vars
  <2>1. UNCHANGED <<nft, pc, inbox, chain>>
    BY <1>18 DEF ConfirmAuction, Lapse, vars
  <2> QED
    BY <2>1 DEF MintInv, Known, OnBus
<1> QED
  BY <1>2, <1>4, <1>5, <1>6, <1>7, <1>8, <1>9, <1>10, <1>11, <1>12, <1>13, <1>14, <1>15, <1>16,
     <1>17, <1>18, ReleaseSucceeds DEF Next, Request, Network, Environment, Serve

\* In a sound run every listing asked for is in USD, nothing fails, nobody gives up,
\* and every request that is past its polling has a verdict, which is the network's.
LEMMA InUSD == Types /\ Trail /\ Sound => \A l \in Lists : pc[l] # "idle" => currency[l] = "USD"
  BY BusAssumption DEF Types, TypeInv, Trail, Sound, USDOnly, Reqs

LEMMA NoFault ==
  ASSUME Types, Trail, [Next]_vars, Sound'
  PROVE  /\ \A r \in Reqs : ~Fail(r) /\ ~Die(r) /\ ~GiveUp(r)
         /\ \A p \in Replicas : ~LoseInbox(p)
<1>1. faults' = faults /\ faults \in Nat
  BY SoundBack, ListingAssumption DEF Types, TypeInv
<1>2. \A r \in Reqs : ~GiveUp(r)
  BY DEF GiveUp, Goto, Sound, Types, TypeInv
<1> QED
  BY <1>1, <1>2 DEF Fail, Die, LoseInbox, Fault

LEMMA OrderlyStep ==
  ASSUME Types, Trail, HasApi, LifecycleInv, Sound, Sound', Orderly, [Next]_vars
  PROVE  Orderly'
<1> USE RequestAssumption, BusAssumption DEF Goto, docs, input, polling, bus, past, Reqs, Types, TypeInv
<1>0. ASSUME NEW c \in Cancels, pc[c] \in Cancelling
      PROVE  /\ target[c] \in Lists /\ currency[target[c]] = "USD"
             /\ auctions[target[c]] # "none"
  <2>1. target[c] \in Lists /\ pc[target[c]] # "idle"
    BY <1>0 DEF Progress, LifecycleInv, CancellingInv, Creating
  <2>2. currency[target[c]] = "USD"
    BY <2>1, InUSD
  <2> QED
    BY <1>0, <2>1, <2>2 DEF LifecycleInv, CancellingInv, Closed
\* A request that moves on as it should.
<1>1. ASSUME NEW r \in Reqs, NEW label, pc' = [pc EXCEPT ![r] = label],
             label \notin {"failed", "dead", "gaveUp", "withdrawing", "withdrawn"},
             label \in PastPolling => pc[r] \in PastPolling,
             UNCHANGED polled, \A q \in Reqs \ {r} : chain'.tx[q] = chain.tx[q],
             \A l \in Lists : l # r /\ auctions[l] = "none" => auctions'[l] = "none"
      PROVE  Orderly'
  <2>1. \A q \in Reqs : pc'[q] = IF q = r THEN label ELSE pc[q]
    BY <1>1
  <2> QED
    BY <1>1, <2>1 DEF Orderly
<1>2. CASE MintRequest \/ \E r \in Lists \union Cancels : ListRequest(r) \/ CancelRequest(r)
  <2>1. \E r \in Reqs, label \in {"locking", "checking", "closing"} : pc' = [pc EXCEPT ![r] = label]
    BY <1>2 DEF MintRequest, ListRequest, CancelRequest
  <2>2. UNCHANGED <<polled, auctions, chain>>
    BY <1>2 DEF MintRequest, ListRequest, CancelRequest
  <2> QED
    BY <1>1, <2>1, <2>2 DEF PastPolling
<1>3. ASSUME NEW l \in Lists, ListCheckSale(l) \/ ListMark(l) \/ ListCreate(l) PROVE Orderly'
  <2>1. CASE pc' = [pc EXCEPT ![l] = "failed"]
    <3>1. pc[l] = "checking" /\ UNCHANGED <<auctions, polled, chain>>
      <4>1. ~ListMark(l)
        BY <2>1 DEF ListMark
      <4>2. ~ListCreate(l)
        <5>1. pc[l] = "creating" => currency[l] = "USD"
          BY InUSD
        <5> QED
          BY <2>1, <5>1 DEF ListCreate
      <4> QED
        BY <1>3, <4>1, <4>2 DEF ListCheckSale
    <3>2. auctions[l] = "none" /\ chain.tx[l] = None
      BY <3>1 DEF LifecycleInv, ListingStands, Creating, Trail, Early, Serving
    <3>3. \A q \in Reqs : pc'[q] = IF q = l THEN "failed" ELSE pc[q]
      BY <2>1
    <3> QED
      BY <3>1, <3>2, <3>3 DEF Orderly, PastPolling
  <2>2. CASE \E label \in {"marking", "creating", "locking"} : pc' = [pc EXCEPT ![l] = label]
    <3>1. /\ UNCHANGED <<polled, chain>>
          /\ \A k \in Lists \ {l} : auctions'[k] = auctions[k]
      BY <1>3 DEF ListCheckSale, ListMark, ListCreate
    <3> QED
      BY <1>1, <2>2, <3>1 DEF PastPolling
  <2> QED
    BY <1>3, <2>1, <2>2 DEF ListCheckSale, ListMark, ListCreate
<1>4. ASSUME NEW l \in Lists, ConfirmList(l) PROVE Orderly'
  <2>1. /\ pc[l] \in PastPolling /\ UNCHANGED <<polled, chain>>
        /\ \E label \in {"awaiting", "unlocking"} : pc' = [pc EXCEPT ![l] = label]
        /\ \A k \in Lists \ {l} : auctions'[k] = auctions[k]
    BY <1>4 DEF ConfirmList, PastPolling
  <2> QED
    BY <1>1, <2>1
<1>5. ASSUME NEW c \in Cancels, CancelClose(c) \/ CancelMark(c) PROVE Orderly'
  <2>1. pc[c] \in {"closing", "closingNft"} /\ UNCHANGED <<polled, chain>>
    BY <1>5 DEF CancelClose, CancelMark
  <2>2. currency[target[c]] = "USD" /\ auctions[target[c]] # "none"
    BY <1>0, <2>1 DEF Cancelling
  <2>3. PICK label \in {"closingNft", "locking"} : pc' = [pc EXCEPT ![c] = label]
    BY <1>5, <2>2 DEF CancelClose, CancelMark
  <2>4. \A l \in Lists : auctions[l] = "none" => auctions'[l] = "none"
    BY <1>5, <2>2 DEF CancelClose, CancelMark
  <2> QED
    BY <1>1, <2>1, <2>3, <2>4 DEF PastPolling
<1>6. ASSUME NEW c \in Cancels, CancelRestoreNft(c) \/ CancelWithdraw(c) PROVE FALSE
  BY <1>6 DEF CancelRestoreNft, CancelWithdraw, Orderly
<1>7. CASE ConfirmMint \/ \E c \in Cancels : ConfirmCancel(c)
  <2>1. /\ \E r \in Reqs, label \in {"awaiting", "unlocking"} :
             pc[r] = "confirming" /\ pc' = [pc EXCEPT ![r] = label]
        /\ UNCHANGED <<auctions, polled, chain>>
    BY <1>7 DEF ConfirmMint, ConfirmCancel
  <2> QED
    BY <1>1, <2>1 DEF PastPolling
<1>8. ASSUME NEW r \in Reqs, Acquire(r) \/ Answered(r) \/ Unlock(r) PROVE Orderly'
  <2>1. \E label \in {"sending", "unlocking", "done"} :
          /\ pc' = [pc EXCEPT ![r] = label]
          /\ label = "sending" \/ pc[r] \in PastPolling
    BY <1>8 DEF Acquire, Answered, Unlock, PastPolling
  <2>2. UNCHANGED <<auctions, polled, chain>>
    BY <1>8 DEF Acquire, Answered, Unlock
  <2> QED
    BY <1>1, <2>1, <2>2 DEF PastPolling
<1>9. ASSUME NEW r \in Reqs, Send(r) PROVE Orderly'
  <2>1. /\ pc' = [pc EXCEPT ![r] = "polling"] /\ UNCHANGED <<auctions, polled>>
        /\ chain' = [chain EXCEPT !.tx = [chain.tx EXCEPT ![r] = "sent"]]
    BY <1>9 DEF Send
  <2>2. \A q \in Reqs \ {r} : chain'.tx[q] = chain.tx[q]
    BY <2>1 DEF Progress
  <2> QED
    BY <1>1, <2>1, <2>2 DEF PastPolling
<1>10. ASSUME NEW r \in Reqs, Poll(r) PROVE Orderly'
  <2>1. PICK s \in Observable(r), label \in {"polling", "confirming"} :
          polled' = [polled EXCEPT ![r] = s] /\ pc' = [pc EXCEPT ![r] = label]
    BY <1>10 DEF Poll
  <2>2. pc[r] = "polling" /\ UNCHANGED chain
    BY <1>10 DEF Poll
  <2>3. s \in PollStates
    BY <2>2, ObservableIs DEF Progress
  <2>4. label = "confirming" => s \in {"processed", "rejected"}
    BY <2>1, <2>3 DEF Sound, PollStates
  <2>5. \A l \in Lists : auctions[l] = "none" => auctions'[l] = "none"
    <3>1. CASE r \in Cancels
      <4>1. \E t \in AuctionStatus : auctions' = [auctions EXCEPT ![target[r]] = t]
        BY <1>10, <2>2, <3>1, ObservableIs
           DEF Poll, Progress, PollStates, CancelAuctionStatus, AuctionStatus
      <4> QED
        BY <1>0, <2>2, <3>1, <4>1 DEF Cancelling
    <3>2. CASE r \notin Cancels
      BY <1>10, <3>2 DEF Poll
    <3> QED
      BY <3>1, <3>2
  <2>6. \A q \in Reqs : /\ pc'[q] = IF q = r THEN label ELSE pc[q]
                        /\ polled'[q] = IF q = r THEN s ELSE polled[q]
    BY <2>1
  <2> QED
    BY <2>1, <2>2, <2>4, <2>5, <2>6 DEF Orderly, PastPolling
<1>11. ASSUME NEW r \in Reqs, ChainProcesses(r) \/ ChainRejects(r) PROVE Orderly'
  <2>1. chain.tx[r] = "sent" /\ UNCHANGED <<auctions, pc, polled>>
    BY <1>11 DEF ChainProcesses, ChainRejects
  <2>2. \A q \in Reqs \ {r} : chain'.tx[q] = chain.tx[q]
    BY <1>11 DEF ChainProcesses, ChainRejects, Progress
  <2> QED
    BY <2>1, <2>2 DEF Orderly
<1>12. CASE \/ \E p \in Replicas : Deliver(p)
            \/ \E l \in Lists : ConfirmAuction(l)
            \/ Unhide \/ Lapse \/ UNCHANGED vars
  <2>1. UNCHANGED <<pc, polled, chain>>
    BY <1>12 DEF Deliver, ConfirmAuction, Unhide, Lapse, vars
  <2>2. \A l \in Lists : auctions[l] = "none" => auctions'[l] = "none"
    BY <1>12 DEF Deliver, ConfirmAuction, Unhide, Lapse, vars
  <2> QED
    BY <2>1, <2>2 DEF Orderly
<1> HIDE DEF Types, TypeInv
<1> QED
  BY <1>2, <1>3, <1>4, <1>5, <1>6, <1>7, <1>8, <1>9, <1>10, <1>11, <1>12, NoFault, ReleaseSucceeds
     DEF Next, Request, Network, Environment, Serve

\* As long as no message is lost, an AvN id is not forgotten.
LEMMA KnownKept ==
  ASSUME Types, MintInv, Known, [Next]_vars, \A p \in Replicas : ~LoseInbox(p)
  PROVE  Known'
<1> USE RequestAssumption DEF docs, bus, Types
<1>1. CASE nft'.avnNftId = nft.avnNftId /\ ((\E set, re : Publish(set, re)) \/ UNCHANGED inbox)
  <2>1. OnBus("avnNftId") => OnBus("avnNftId")'
    BY <1>1, PublishedIsOnBus DEF OnBus
  <2> QED
    BY <1>1, <2>1 DEF Known
<1>2. CASE MintRequest
  BY <1>2 DEF MintRequest, MintInv, Known, OnBus
<1>3. ASSUME NEW p \in Replicas, Deliver(p) PROVE Known'
  <2>1. OnBus("avnNftId") => OnBus("avnNftId")' \/ inbox[p][1].set = "avnNftId"
    BY <1>3, DeliveredWasOnBus
  <2>2. /\ inbox[p][1].set = "avnNftId" => nft'.avnNftId
        /\ nft.avnNftId => nft'.avnNftId
    BY <1>3, Delivered DEF TypeInv
  <2> QED
    BY <2>1, <2>2 DEF Known
<1>4. CASE \/ \E l \in Lists : ListRequest(l) \/ ListCheckSale(l) \/ ListMark(l) \/ ListCreate(l)
                               \/ ConfirmAuction(l)
           \/ \E c \in Cancels : CancelRequest(c) \/ CancelClose(c) \/ CancelMark(c) \/ CancelWithdraw(c)
           \/ \E r \in Reqs : \/ Acquire(r) \/ GiveUp(r) \/ Send(r) \/ Answered(r) \/ Unlock(r)
                              \/ UnlockFails(r) \/ Fail(r) \/ Die(r)
                              \/ ChainProcesses(r) \/ ChainRejects(r)
           \/ Unhide \/ Lapse \/ UNCHANGED vars
  <2>1. UNCHANGED inbox
    BY <1>4 DEF ListRequest, ListCheckSale, ListMark, ListCreate, ConfirmAuction, CancelRequest, CancelClose,
         CancelMark, CancelWithdraw, Acquire, GiveUp, Send, Answered, Unlock, UnlockFails, Fail, Die,
         ChainProcesses, ChainRejects,
         Unhide, Lapse, vars
  <2>2. nft'.avnNftId = nft.avnNftId
    BY <1>4 DEF ListRequest, ListCheckSale, ListMark, ListCreate, ConfirmAuction, CancelRequest, CancelClose,
         CancelMark, CancelWithdraw, Acquire, GiveUp, Send, Answered, Unlock, UnlockFails, Fail, Die,
         ChainProcesses, ChainRejects,
         Unhide, Lapse, vars, TypeInv
  <2> QED
    BY <1>1, <2>1, <2>2
<1>5. CASE \/ \E l \in Lists : ConfirmList(l)
           \/ \E c \in Cancels : CancelRestoreNft(c) \/ ConfirmCancel(c)
           \/ \E r \in Reqs : Poll(r)
           \/ ConfirmMint
  <2>1. UNCHANGED nft
    BY <1>5 DEF ConfirmList, CancelRestoreNft, ConfirmCancel, Poll, ConfirmMint
  <2>2. (\E set, re : Publish(set, re)) \/ UNCHANGED inbox
    BY <1>5 DEF ConfirmList, CancelRestoreNft, ConfirmCancel, Poll, ConfirmMint
  <2> QED
    BY <1>1, <2>1, <2>2
<1> QED
  BY <1>2, <1>3, <1>4, <1>5 DEF Next, Request, Network, Environment, Serve

LEMMA MintingStep ==
  ASSUME Types, Trail, HasApi, MintInv, Orderly, Minting, [Next]_vars,
         \A r \in Reqs : ~Die(r), \A p \in Replicas : ~LoseInbox(p)
  PROVE  Minting'
<1> USE RequestAssumption, BusAssumption DEF Goto, docs, input, polling, bus, past, Reqs, Types, TypeInv
<1> DEFINE AtVerdict == pc[Mint] \in {"polling", "confirming"}
<1>1. Known => Known'
  BY KnownKept
<1>2. CASE /\ chain'.minted = chain.minted
           /\ AtVerdict => pc'[Mint] \in {"polling", "confirming"} /\ chain'.tx[Mint] = chain.tx[Mint]
  BY <1>1, <1>2 DEF Minting
<1>3. CASE UNCHANGED chain /\ UNCHANGED pc
  BY <1>2, <1>3
<1>4. ASSUME NEW r \in Reqs, r # Mint \/ ~AtVerdict, UNCHANGED chain, NEW label, pc' = [pc EXCEPT ![r] = label]
      PROVE  Minting'
  BY <1>2, <1>4
<1>5. ASSUME NEW r \in Reqs, Send(r) PROVE Minting'
  <2>1. /\ pc[r] = "sending" /\ pc' = [pc EXCEPT ![r] = "polling"]
        /\ chain' = [chain EXCEPT !.tx = [chain.tx EXCEPT ![r] = "sent"]]
    BY <1>5 DEF Send
  <2>2. chain'.minted = chain.minted /\ \A q \in Reqs \ {r} : chain'.tx[q] = chain.tx[q]
    BY <2>1 DEF Progress
  <2> QED
    BY <1>2, <2>1, <2>2
<1>6. ASSUME NEW r \in Reqs, Poll(r) PROVE Minting'
  <2>1. \E label \in {"polling", "confirming"} : pc' = [pc EXCEPT ![r] = label]
    BY <1>6 DEF Poll
  <2> QED
    BY <1>2, <1>6, <2>1 DEF Poll
<1>7. CASE ConfirmMint
  <2>1. pc[Mint] = "confirming" /\ UNCHANGED chain
    BY <1>7 DEF ConfirmMint
  <2>2. polled[Mint] \in {"processed", "rejected"} /\ chain.tx[Mint] = polled[Mint]
    BY <2>1 DEF Orderly, PastPolling, Trail
  <2>3. CASE polled[Mint] = "processed"
    <3>1. Publish("avnNftId", None)
      BY <1>7, <2>3 DEF ConfirmMint
    <3> QED
      BY <3>1, PublishedIsOnBus DEF Minting, Known
  <2>4. CASE polled[Mint] = "rejected"
    BY <1>1, <2>1, <2>2, <2>4 DEF Minting
  <2> QED
    BY <2>2, <2>3, <2>4
<1>8. ASSUME NEW r \in Reqs, ChainProcesses(r) PROVE Minting'
  <2>1. /\ chain.tx[r] = "sent" /\ UNCHANGED pc
        /\ chain'.tx = [chain.tx EXCEPT ![r] = "processed"]
    BY <1>8 DEF ChainProcesses
  <2>2. CASE r = Mint
    <3>1. pc[Mint] = "polling"
      BY <2>1, <2>2 DEF Trail, Early, Orderly, PastPolling, PC, Background, Ended
    <3> QED
      BY <2>1, <2>2, <3>1 DEF Minting, Progress
  <2>3. CASE r # Mint
    <3>1. pc[r] # "idle"
      BY <2>1 DEF Trail, Early
    <3>2. Known
      BY <2>3, <3>1 DEF MintInv, Known
    <3> QED
      BY <1>1, <3>2 DEF Minting
  <2> QED
    BY <2>2, <2>3
<1>9. ASSUME NEW r \in Reqs, ChainRejects(r) PROVE Minting'
  <2>1. /\ chain.tx[r] = "sent" /\ UNCHANGED pc
        /\ chain' = [chain EXCEPT !.tx = [chain.tx EXCEPT ![r] = "rejected"]]
    BY <1>9 DEF ChainRejects
  <2>2. chain'.minted = chain.minted /\ \A q \in Reqs \ {r} : chain'.tx[q] = chain.tx[q]
    BY <2>1 DEF Progress
  <2>3. CASE r = Mint
    BY <1>1, <2>1, <2>2, <2>3 DEF Minting
  <2>4. CASE r # Mint
    BY <1>2, <2>1, <2>2, <2>4
  <2> QED
    BY <2>3, <2>4
<1>10. CASE MintRequest
  BY <1>10 DEF MintRequest, MintInv, Minting
<1>11. CASE \/ \E l \in Lists : ListRequest(l) \/ ListCheckSale(l) \/ ListMark(l) \/ ListCreate(l)
                                \/ ConfirmList(l)
            \/ \E c \in Cancels : \/ CancelRequest(c) \/ CancelClose(c) \/ CancelMark(c) \/ CancelRestoreNft(c)
                                  \/ CancelWithdraw(c) \/ ConfirmCancel(c)
  <2>1. \E r \in Lists \union Cancels : \E label : pc' = [pc EXCEPT ![r] = label]
    BY <1>11 DEF ListRequest, ListCheckSale, ListMark, ListCreate, ConfirmList, CancelRequest, CancelClose,
         CancelMark, CancelRestoreNft, CancelWithdraw, ConfirmCancel
  <2>2. UNCHANGED chain
    BY <1>11 DEF ListRequest, ListCheckSale, ListMark, ListCreate, ConfirmList, CancelRequest, CancelClose,
         CancelMark, CancelRestoreNft, CancelWithdraw, ConfirmCancel
  <2> QED
    BY <1>4, <2>1, <2>2
<1>12. ASSUME NEW r \in Reqs, Acquire(r) \/ GiveUp(r) \/ Answered(r) \/ Unlock(r) \/ Fail(r)
       PROVE  Minting'
  <2>1. \E label : pc' = [pc EXCEPT ![r] = label]
    BY <1>12 DEF Acquire, GiveUp, Answered, Unlock, Fail
  <2>2. pc[r] \notin {"polling", "confirming"} /\ UNCHANGED chain
    BY <1>12 DEF Acquire, GiveUp, Answered, Unlock, Fail
  <2> QED
    BY <1>4, <2>1, <2>2
<1>13. CASE \/ \E p \in Replicas : Deliver(p)
            \/ \E l \in Lists : ConfirmAuction(l)
            \/ Unhide \/ Lapse \/ UNCHANGED vars
  BY <1>3, <1>13 DEF Deliver, ConfirmAuction, Unhide, Lapse, vars
<1> HIDE DEF Types, TypeInv
<1> QED
  BY <1>5, <1>6, <1>7, <1>8, <1>9, <1>10, <1>11, <1>12, <1>13, ReleaseSucceeds
     DEF Next, Request, Network, Environment, Serve

\* Only one request is between asking the network and knowing its answer.
LEMMA OneAsks ==
  ASSUME HasApi, NEW q \in Reqs, NEW r \in Reqs, pc[q] \in Using, pc[r] \in Using
  PROVE  q = r
  BY DEF HasApi

\* Steps of requests that stay on their side of the polling.
LEMMA ListedKept ==
  ASSUME ListedInv, TypeInv,
         chain'.listed = chain.listed,
         UNCHANGED <<target>>,
         \A l \in Lists : auctions'[l] = "withdraw" <=> auctions[l] = "withdraw",
         \A r \in Lists \union Cancels :
           /\ pc'[r] \in PastPolling <=> pc[r] \in PastPolling
           /\ pc[r] = "polling" => pc'[r] = "polling"
           /\ chain'.tx[r] = "processed" <=> chain.tx[r] = "processed"
           /\ pc'[r] \in {"polling", "confirming"} /\ chain'.tx[r] = "processed" => pc[r] = pc'[r],
         \A c \in Cancels :
           /\ pc[c] = "idle" => pc'[c] = "idle"
           /\ pc'[c] \in {"sending", "polling"} \union PastPolling =>
                pc[c] \in {"sending", "polling"} \union PastPolling
           /\ pc'[c] = "confirming" => pc[c] = "confirming" /\ polled'[c] = polled[c]
  PROVE  ListedInv'
<1>1. \A l \in Lists : Standing(l)' <=> Standing(l)
  BY DEF Standing
<1>2. TargetsSent'
  BY DEF ListedInv, TargetsSent
<1>3. OneStanding'
  BY <1>1 DEF ListedInv, OneStanding
<1>4. \A l \in Lists : Withdrawing(l) => Withdrawing(l)'
  BY DEF Withdrawing
<1>5. StandingIsListed'
  BY <1>1, <1>4 DEF ListedInv, StandingIsListed
<1>6. ListedAlone'
  BY <1>1 DEF ListedInv, ListedAlone
<1>7. VerdictHolds'
  BY DEF ListedInv, VerdictHolds
<1> QED
  BY <1>2, <1>3, <1>5, <1>6, <1>7 DEF ListedInv

\* The network lists the NFT, or takes it off sale.
LEMMA ListedByChain ==
  ASSUME Types, Trail, MintInv, HasApi, LifecycleInv, Sound, Orderly, ListedInv,
         NEW r \in Reqs, ChainProcesses(r)
  PROVE  ListedInv'
<1> USE RequestAssumption, BusAssumption DEF docs, input, polling, bus, past, Reqs
<1>1. /\ chain.tx[r] = "sent" /\ Valid(r)
      /\ UNCHANGED <<auctions, currency, target, pc, polled>>
      /\ chain'.listed = (r \in Lists)
      /\ chain'.tx = [chain.tx EXCEPT ![r] = "processed"]
  BY DEF ChainProcesses
<1>2. \A q \in Reqs : chain'.tx[q] = IF q = r THEN "processed" ELSE chain.tx[q]
  BY <1>1 DEF Types, Progress
<1>3. pc[r] = "polling"
  BY <1>1 DEF Trail, Early, Orderly, PastPolling, Types, TypeInv, PC, Background, Ended
<1>4. \A q \in Reqs : pc[q] \in Using => q = r
  BY <1>3, OneAsks DEF Using
<1>5. \A l \in Lists : Standing(l)' <=> Standing(l)
  BY <1>1 DEF Standing
<1>6. TargetsSent' /\ OneStanding'
  BY <1>1, <1>5 DEF ListedInv, TargetsSent, OneStanding
<1>7. CASE r \in Lists
  <2>1. \A l \in Lists : ~Withdrawing(l)
    BY <1>4, <1>7 DEF Withdrawing, Using
  <2>2. \A l \in Lists : ~Standing(l)
    BY <1>1, <1>7, <2>1 DEF Valid, ListedInv, StandingIsListed
  <2>3. StandingIsListed' /\ ListedAlone'
    BY <1>5, <2>2 DEF StandingIsListed, ListedAlone
  <2>4. VerdictHolds'
    BY <1>1, <1>4, <1>7 DEF VerdictHolds, Using
  <2> QED
    BY <1>6, <2>3, <2>4 DEF ListedInv
<1>8. CASE r \in Cancels
  <2>1. target[r] \in Lists /\ pc[target[r]] \in PastPolling
    BY <1>3, <1>8 DEF ListedInv, TargetsSent
  <2>2. auctions[target[r]] # "withdraw"
    BY <1>3, <1>8, <2>1, InUSD DEF LifecycleInv, CancellingInv, Cancelling, Closed, PastPolling
  <2>3. Standing(target[r])
    BY <2>1, <2>2 DEF Standing
  <2>4. \A l \in Lists : Standing(l) => l = target[r]
    BY <2>1, <2>3 DEF ListedInv, OneStanding
  <2>5. Withdrawing(target[r])'
    BY <1>1, <1>2, <1>3, <1>8 DEF Withdrawing
  <2>6. StandingIsListed'
    BY <1>1, <1>5, <2>4, <2>5 DEF StandingIsListed
  <2>7. ListedAlone' /\ VerdictHolds'
    BY <1>1, <1>4, <1>8 DEF ListedAlone, VerdictHolds, Using
  <2> QED
    BY <1>6, <2>6, <2>7 DEF ListedInv
<1>9. CASE r = Mint
  <2>1. \A q \in Lists \union Cancels : pc[q] = "idle"
    BY <1>3, <1>9 DEF MintInv, Known
  <2>2. StandingIsListed' /\ ListedAlone' /\ VerdictHolds'
    BY <1>1, <2>1 DEF StandingIsListed, ListedAlone, VerdictHolds, Standing, PastPolling
  <2> QED
    BY <1>6, <2>2 DEF ListedInv
<1> QED
  BY <1>7, <1>8, <1>9

\* A poll that ends a listing makes it stand, one that ends a cancellation
\* takes it away.
LEMMA ListedByPoll ==
  ASSUME Types, Trail, MintInv, HasApi, LifecycleInv, Sound, Sound', Trail', Orderly, ListedInv,
         NEW r \in Lists \union Cancels, Poll(r)
  PROVE  ListedInv'
<1> USE RequestAssumption, BusAssumption DEF Goto, docs, input, polling, bus, past, Reqs
<1>1. PICK s \in Observable(r), label \in {"polling", "confirming"} :
        /\ polled' = [polled EXCEPT ![r] = s]
        /\ IF r \in Cancels THEN auctions' = [auctions EXCEPT ![target[r]] = CancelAuctionStatus[s]]
           ELSE UNCHANGED auctions
        /\ pc' = [pc EXCEPT ![r] = label]
  BY DEF Poll
<1>2. pc[r] = "polling" /\ UNCHANGED <<currency, target, chain>>
  BY DEF Poll
<1>3. s \in PollStates
  BY <1>2, ObservableIs DEF Types, Progress
<1>4. \A q \in Reqs : /\ pc'[q] = IF q = r THEN label ELSE pc[q]
                      /\ polled'[q] = IF q = r THEN s ELSE polled[q]
  BY <1>1 DEF Types, TypeInv
<1>5. label = "confirming" => s = (IF r \in Lists THEN "processed" ELSE chain.tx[r]) /\ chain.tx[r] = s
  BY <1>2, <1>3, <1>4 DEF Sound, Trail, PollStates
<1>6. \A q \in Reqs : pc[q] \in Using => q = r
  BY <1>2, OneAsks DEF Using
<1>7. CASE r \in Lists
  <2>1. UNCHANGED auctions
    BY <1>1, <1>7
  <2>2. \A l \in Lists : Standing(l)' => Standing(l) \/ (l = r /\ label = "confirming")
    BY <1>4, <2>1 DEF Standing, PastPolling
  <2>3. label = "confirming" => chain.listed /\ \A l \in Lists : ~Standing(l)
    BY <1>2, <1>5, <1>7 DEF ListedInv, ListedAlone, VerdictHolds
  <2>4. TargetsSent'
    BY <1>2, <1>4, <1>7, <2>1 DEF ListedInv, TargetsSent, PastPolling
  <2>5. OneStanding'
    BY <2>2, <2>3 DEF ListedInv, OneStanding
  <2>6. StandingIsListed'
    <3>1. \A l \in Lists : Withdrawing(l) => Withdrawing(l)'
      BY <1>2, <1>4, <1>7 DEF Withdrawing
    <3> QED
      BY <1>2, <2>2, <2>3, <3>1 DEF ListedInv, StandingIsListed
  <2>7. ListedAlone'
    BY <1>2, <1>4, <1>6, <2>2 DEF ListedInv, ListedAlone, Using
  <2>8. VerdictHolds'
    BY <1>2, <1>4, <1>6 DEF ListedInv, VerdictHolds, Using
  <2> QED
    BY <2>4, <2>5, <2>6, <2>7, <2>8 DEF ListedInv
<1>8. CASE r \in Cancels
  <2>1. target[r] \in Lists /\ pc[target[r]] \in PastPolling
    BY <1>2, <1>8 DEF ListedInv, TargetsSent
  <2>2. auctions[target[r]] # "withdraw"
    BY <1>2, <1>8, <2>1, InUSD DEF LifecycleInv, CancellingInv, Cancelling, Closed, PastPolling
  <2>3. \A l \in Lists : auctions'[l] = IF l = target[r] THEN CancelAuctionStatus[s] ELSE auctions[l]
    BY <1>1, <1>8 DEF Types, TypeInv
  <2>4. CancelAuctionStatus[s] = "withdraw" <=> s = "processed"
    BY <1>3 DEF PollStates, CancelAuctionStatus
  <2>5. \A l \in Lists : Standing(l)' => Standing(l) /\ (l = target[r] => s # "processed")
    BY <1>4, <1>8, <2>2, <2>3, <2>4 DEF Standing
  <2>6. TargetsSent'
    <3>1. ASSUME NEW c \in Cancels, pc'[c] # "idle"
          PROVE  /\ target[c] \in Lists
                 /\ pc'[target[c]] \in PastPolling \union
                      (IF pc'[c] \in {"sending", "polling"} \union PastPolling THEN {} ELSE {"polling"})
      BY <1>2, <1>4, <1>8, <3>1 DEF ListedInv, TargetsSent, PastPolling
    <3>2. ASSUME NEW c \in Cancels, pc'[c] = "confirming", polled'[c] = "rejected"
          PROVE  auctions'[target[c]] # "withdraw"
      <4>1. c = r
        BY <1>4, <1>6, <3>2 DEF Using
      <4> QED
        BY <1>4, <2>1, <2>3, <2>4, <3>2, <4>1
    <3> QED
      BY <1>2, <3>1, <3>2 DEF TargetsSent
  <2>7. OneStanding'
    BY <2>5 DEF ListedInv, OneStanding
  <2>8. StandingIsListed'
    <3>1. ASSUME NEW l \in Lists, Standing(l)', ~chain.listed PROVE Withdrawing(l)'
      <4>1. PICK c \in Cancels : target[c] = l /\ pc[c] = "polling" /\ chain.tx[c] = "processed"
        BY <2>5, <3>1 DEF ListedInv, StandingIsListed, Withdrawing
      <4>2. c = r
        BY <1>6, <4>1 DEF Using
      <4>3. s = "processed"
        BY <4>1, <4>2 DEF Observable
      <4> QED
        BY <2>5, <3>1, <4>1, <4>2, <4>3
    <3> QED
      BY <1>2, <3>1 DEF StandingIsListed
  <2>9. ListedAlone'
    BY <1>2, <1>4, <1>8, <2>5 DEF ListedInv, ListedAlone
  <2>10. VerdictHolds'
    BY <1>2, <1>4, <1>6 DEF ListedInv, VerdictHolds, Using
  <2> QED
    BY <2>6, <2>7, <2>8, <2>9, <2>10 DEF ListedInv
<1> QED
  BY <1>7, <1>8

LEMMA ListedStep ==
  ASSUME Types, Trail, MintInv, HasApi, LifecycleInv, Sound, Sound', Trail',
         Orderly, ListedInv, [Next]_vars, Apart'
  PROVE  ListedInv'
<1> USE RequestAssumption, BusAssumption DEF Goto, docs, input, polling, bus, past, Reqs
<1>0. TypeInv /\ Progress
  BY DEF Types
\* A request moves on without asking the network or learning its answer.
<1>1. ASSUME NEW r \in Reqs, NEW label, pc' = [pc EXCEPT ![r] = label],
             label \notin {"polling", "confirming"}, pc[r] # "polling",
             label \in PastPolling <=> pc[r] \in PastPolling,
             r \in Cancels => pc[r] # "idle" /\ label # "sending",
             UNCHANGED <<target, polled, chain>>,
             \A l \in Lists : auctions'[l] = "withdraw" <=> auctions[l] = "withdraw"
      PROVE  ListedInv'
  <2>1. \A q \in Reqs : pc'[q] = IF q = r THEN label ELSE pc[q]
    BY <1>0, <1>1 DEF TypeInv
  <2> QED
    BY <1>0, <1>1, <2>1, ListedKept
<1>2. CASE UNCHANGED <<pc, target, polled, chain>> /\
           \A l \in Lists : auctions'[l] = "withdraw" <=> auctions[l] = "withdraw"
  BY <1>0, <1>2, ListedKept
<1>3. CASE MintRequest \/ \E l \in Lists : ListRequest(l) \/ ListCheckSale(l) \/ ListMark(l)
  <2>1. PICK r \in {Mint} \union Lists, label \in {"locking", "checking", "failed", "marking", "creating"} :
          /\ pc' = [pc EXCEPT ![r] = label]
          /\ pc[r] \in {"idle", "checking", "marking"}
    BY <1>3 DEF MintRequest, ListRequest, ListCheckSale, ListMark, Arrives
  <2>2. UNCHANGED <<target, polled, chain, auctions>>
    BY <1>3 DEF MintRequest, ListRequest, ListCheckSale, ListMark
  <2> QED
    BY <1>1, <2>1, <2>2 DEF PastPolling
<1>4. ASSUME NEW l \in Lists, ListCreate(l) PROVE ListedInv'
  <2>1. PICK label \in {"locking", "failed"} : pc' = [pc EXCEPT ![l] = label]
    BY <1>4 DEF ListCreate
  <2>2. pc[l] = "creating" /\ UNCHANGED <<target, polled, chain>>
    BY <1>4 DEF ListCreate
  <2>3. auctions[l] = "none"
    BY <2>2 DEF LifecycleInv, ListingStands, Creating
  <2>4. \A k \in Lists : auctions'[k] = "withdraw" <=> auctions[k] = "withdraw"
    BY <1>0, <1>4, <2>3 DEF ListCreate, TypeInv
  <2> QED
    BY <1>1, <2>1, <2>2, <2>4 DEF PastPolling
<1>5. ASSUME NEW l \in Lists, ConfirmList(l) PROVE ListedInv'
  <2>1. PICK label \in {"awaiting", "unlocking"} : pc' = [pc EXCEPT ![l] = label]
    BY <1>5 DEF ConfirmList
  <2>2. pc[l] = "confirming" /\ UNCHANGED <<target, polled, chain>>
    BY <1>5 DEF ConfirmList
  <2>3. UNCHANGED auctions
    BY <1>5, <2>2 DEF ConfirmList, Orderly, PastPolling, Committed
  <2> QED
    BY <1>1, <2>1, <2>2, <2>3 DEF PastPolling
<1>6. ASSUME NEW c \in Cancels, CancelRequest(c) PROVE ListedInv'
  <2>1. PICK l \in Lists : auctions[l] = "open" /\ target' = [target EXCEPT ![c] = l]
    BY <1>6 DEF CancelRequest
  <2>2. /\ pc[c] = "idle" /\ pc' = [pc EXCEPT ![c] = "closing"]
        /\ UNCHANGED <<auctions, polled, chain>>
    BY <1>6 DEF CancelRequest, Arrives
  <2>3. \A q \in Reqs : pc'[q] = IF q = c THEN "closing" ELSE pc[q]
    BY <1>0, <2>2 DEF TypeInv
  <2>4. \A d \in Cancels : target'[d] = IF d = c THEN l ELSE target[d]
    BY <1>0, <2>1 DEF TypeInv
  <2>5. pc[l] \in PastPolling \union {"polling"}
    <3>1. ~InService(l)
      BY <1>0, <1>6, <2>1, StartsApart DEF About
    <3>2. pc[l] \notin Serving \union {"locking", "sending", "idle", "failed", "gaveUp", "dead"}
      BY <2>1, <3>1 DEF InService, LifecycleInv, ListingStands, Creating, Orderly
    <3> QED
      BY <1>0, <3>2 DEF TypeInv, PC, Background, Ended, PastPolling
  <2>6. \A k \in Lists : Standing(k)' <=> Standing(k)
    BY <2>2, <2>3 DEF Standing
  <2>7. TargetsSent'
    BY <2>1, <2>2, <2>3, <2>4, <2>5 DEF ListedInv, TargetsSent, PastPolling
  <2>8. \A k \in Lists : Withdrawing(k) => Withdrawing(k)'
    BY <2>2, <2>3, <2>4 DEF Withdrawing
  <2>9. OneStanding' /\ StandingIsListed'
    BY <2>2, <2>6, <2>8 DEF ListedInv, OneStanding, StandingIsListed
  <2>10. ListedAlone' /\ VerdictHolds'
    BY <2>2, <2>3, <2>6 DEF ListedInv, ListedAlone, VerdictHolds
  <2> QED
    BY <2>7, <2>9, <2>10 DEF ListedInv
<1>7. ASSUME NEW c \in Cancels, CancelClose(c) \/ CancelMark(c) PROVE ListedInv'
  <2>1. /\ pc[c] \in {"closing", "closingNft"} /\ UNCHANGED <<target, polled, chain>>
        /\ \/ auctions' = [auctions EXCEPT ![target[c]] = "closing"] /\ pc[c] = "closing"
           \/ UNCHANGED auctions
    BY <1>7 DEF CancelClose, CancelMark
  <2>2. /\ target[c] \in Lists /\ currency[target[c]] = "USD"
        /\ pc[c] = "closing" => auctions[target[c]] # "withdraw"
    <3>1. target[c] \in Lists /\ pc[target[c]] # "idle"
      BY <2>1 DEF ListedInv, TargetsSent, PastPolling
    <3>2. currency[target[c]] = "USD"
      BY <3>1, InUSD
    <3> QED
      BY <2>1, <3>1, <3>2 DEF LifecycleInv, CancellingInv, Cancelling
  <2>3. PICK label \in {"closingNft", "locking"} : pc' = [pc EXCEPT ![c] = label]
    BY <1>7, <2>2 DEF CancelClose, CancelMark
  <2>4. \A l \in Lists : auctions'[l] = "withdraw" <=> auctions[l] = "withdraw"
    BY <1>0, <2>1, <2>2 DEF TypeInv
  <2> QED
    BY <1>1, <2>1, <2>3, <2>4 DEF PastPolling
<1>8. ASSUME NEW c \in Cancels, CancelRestoreNft(c) \/ CancelWithdraw(c) PROVE FALSE
  BY <1>8 DEF CancelRestoreNft, CancelWithdraw, Orderly
<1>9. CASE ConfirmMint \/ \E c \in Cancels : ConfirmCancel(c)
  <2>1. PICK r \in Reqs, label \in {"awaiting", "unlocking"} :
          pc[r] = "confirming" /\ pc' = [pc EXCEPT ![r] = label]
    BY <1>9 DEF ConfirmMint, ConfirmCancel
  <2>2. UNCHANGED <<auctions, target, polled, chain>>
    BY <1>9 DEF ConfirmMint, ConfirmCancel
  <2> QED
    BY <1>1, <2>1, <2>2 DEF PastPolling
<1>10. ASSUME NEW r \in Reqs, Acquire(r) PROVE ListedInv'
  <2>1. /\ pc[r] = "locking" /\ api = None /\ pc' = [pc EXCEPT ![r] = "sending"]
        /\ UNCHANGED <<auctions, target, polled, chain>>
    BY <1>10 DEF Acquire
  <2>2. CASE r \notin Cancels
    <3>1. \A q \in Reqs : pc'[q] = IF q = r THEN "sending" ELSE pc[q]
      BY <1>0, <2>1 DEF TypeInv
    <3> QED
      BY <1>0, <2>1, <2>2, <3>1, ListedKept DEF PastPolling
  <2>3. CASE r \in Cancels
    <3>1. \A q \in Reqs : pc'[q] = IF q = r THEN "sending" ELSE pc[q]
      BY <1>0, <2>1 DEF TypeInv
    <3>2. \A q \in Reqs : pc[q] # "polling"
      BY <2>1 DEF HasApi, Using
    <3>3. TargetsSent'
      BY <2>1, <2>3, <3>1, <3>2 DEF ListedInv, TargetsSent, PastPolling
    <3>4. \A l \in Lists : Standing(l)' <=> Standing(l)
      BY <2>1, <2>3, <3>1 DEF Standing, PastPolling
    <3>5. OneStanding' /\ StandingIsListed' /\ ListedAlone' /\ VerdictHolds'
      BY <2>1, <3>1, <3>2, <3>4
         DEF ListedInv, OneStanding, StandingIsListed, Withdrawing, ListedAlone, VerdictHolds
    <3> QED
      BY <3>3, <3>5 DEF ListedInv
  <2> QED
    BY <2>2, <2>3
<1>11. ASSUME NEW r \in Reqs, Answered(r) \/ Unlock(r) PROVE ListedInv'
  <2>1. PICK label \in {"unlocking", "done"} : pc' = [pc EXCEPT ![r] = label]
    BY <1>11 DEF Answered, Unlock
  <2>2. pc[r] \in {"awaiting", "unlocking"} /\ UNCHANGED <<auctions, target, polled, chain>>
    BY <1>11 DEF Answered, Unlock
  <2> QED
    BY <1>1, <2>1, <2>2 DEF PastPolling
<1>12. ASSUME NEW r \in Reqs, Send(r) PROVE ListedInv'
  <2>1. /\ pc[r] = "sending" /\ pc' = [pc EXCEPT ![r] = "polling"]
        /\ chain' = [chain EXCEPT !.tx = [chain.tx EXCEPT ![r] = "sent"]]
        /\ UNCHANGED <<auctions, target, polled>>
    BY <1>12 DEF Send
  <2>2. /\ chain'.listed = chain.listed
        /\ \A q \in Reqs : chain'.tx[q] = IF q = r THEN "sent" ELSE chain.tx[q]
        /\ \A q \in Reqs : pc'[q] = IF q = r THEN "polling" ELSE pc[q]
    BY <1>0, <2>1 DEF TypeInv, Progress
  <2>3. chain.tx[r] = None
    BY <2>1 DEF Trail, Early
  <2> QED
    BY <1>0, <2>1, <2>2, <2>3, ListedKept DEF PastPolling
<1>13. CASE Poll(Mint)
  <2>1. /\ UNCHANGED <<auctions, target, chain>>
        /\ \E label, s : pc' = [pc EXCEPT ![Mint] = label] /\ polled' = [polled EXCEPT ![Mint] = s]
    BY <1>13 DEF Poll
  <2>2. \A q \in Lists \union Cancels : pc'[q] = pc[q] /\ polled'[q] = polled[q]
    BY <1>0, <2>1 DEF TypeInv
  <2> QED
    BY <1>0, <2>1, <2>2, ListedKept
<1>14. ASSUME NEW r \in Reqs, ChainRejects(r) PROVE ListedInv'
  <2>1. /\ chain.tx[r] = "sent" /\ UNCHANGED <<auctions, target, pc, polled>>
        /\ chain' = [chain EXCEPT !.tx = [chain.tx EXCEPT ![r] = "rejected"]]
    BY <1>14 DEF ChainRejects
  <2>2. /\ chain'.listed = chain.listed
        /\ \A q \in Reqs : chain'.tx[q] = IF q = r THEN "rejected" ELSE chain.tx[q]
    BY <1>0, <2>1 DEF Progress
  <2> QED
    BY <1>0, <2>1, <2>2, ListedKept
<1>15. CASE \/ \E p \in Replicas : Deliver(p)
            \/ \E l \in Lists : ConfirmAuction(l)
            \/ Unhide \/ Lapse \/ UNCHANGED vars
  <2>1. UNCHANGED <<pc, target, polled, chain>>
    BY <1>15 DEF Deliver, ConfirmAuction, Unhide, Lapse, vars
  <2>2. \A l \in Lists : auctions'[l] = "withdraw" <=> auctions[l] = "withdraw"
    BY <1>0, <1>15 DEF Deliver, ConfirmAuction, Unhide, Lapse, vars, TypeInv
  <2> QED
    BY <1>2, <2>1, <2>2
<1> QED
  BY <1>3, <1>4, <1>5, <1>6, <1>7, <1>8, <1>9, <1>10, <1>11, <1>12, <1>13, <1>14, <1>15,
     NoFault, ReleaseSucceeds, ListedByChain, ListedByPoll
     DEF Next, Request, Network, Environment, Serve

\* Who publishes a status has the last word; anything else says nothing.
LEMMA LastWord ==
  ASSUME TypeInv, NEW set, NEW re, Publish(set, re), chain'.listed = chain.listed,
         IF set \in {"avnNftId", "undefined"} THEN SaidRight /\ nft'.status = nft.status ELSE Right(set)
  PROVE  SaidRight'
<1>1. ASSUME NEW p \in Replicas PROVE EndsRight(inbox[p])' /\ (Silent(inbox[p])' => Silent(inbox[p]))
                                      /\ (set \notin {"avnNftId", "undefined"} => ~Silent(inbox[p])')
  <2>1. PICK n \in Nat : /\ DOMAIN inbox[p] = 1..n /\ DOMAIN inbox'[p] = 1..n+1
                         /\ inbox'[p][n+1] = [set |-> set, re |-> re]
                         /\ \A i \in 1..n : inbox'[p][i] = inbox[p][i]
    BY Published
  <2>2. n+1 \in DOMAIN inbox'[p] /\ inbox'[p][n+1].set = set /\ \A i \in 1..n : i < n+1 /\ i \in 1..n+1
    BY <2>1
  <2>3. Silent(inbox[p])' => Silent(inbox[p])
    BY <2>1, <2>2 DEF Silent, Says
  <2>4. CASE set \in {"avnNftId", "undefined"}
    <3>1. EndsRight(inbox[p])
      BY <2>4 DEF SaidRight
    <3>2. ASSUME NEW i \in DOMAIN inbox'[p], Says(inbox'[p][i]),
                 \A j \in DOMAIN inbox'[p] : j > i => ~Says(inbox'[p][j])
          PROVE  Right(inbox'[p][i].set)
      <4>1. i \in 1..n
        BY <2>1, <2>2, <2>4, <3>2 DEF Says
      <4>2. \A j \in 1..n : j > i => ~Says(inbox[p][j])
        BY <2>1, <2>2, <3>2
      <4> QED
        BY <2>1, <3>1, <3>2, <4>1, <4>2 DEF EndsRight
    <3>3. EndsRight(inbox[p])'
      BY <3>2 DEF EndsRight, Right, Says
    <3> QED
      BY <2>3, <2>4, <3>3
  <2>5. CASE set \notin {"avnNftId", "undefined"}
    <3>1. Says(inbox'[p][n+1])
      BY <2>2, <2>5 DEF Says
    <3>2. EndsRight(inbox[p])'
      BY <2>1, <2>2, <2>5, <3>1 DEF EndsRight, Right, Says
    <3>3. ~Silent(inbox[p])'
      BY <2>2, <3>1 DEF Silent, Says
    <3> QED
      BY <2>3, <3>2, <3>3
  <2> QED
    BY <2>4, <2>5
<1>2. CASE set \in {"avnNftId", "undefined"}
  BY <1>1, <1>2 DEF SaidRight, Right
<1>3. CASE set \notin {"avnNftId", "undefined"}
  BY <1>1, <1>3, BusAssumption DEF SaidRight
<1> QED
  BY <1>2, <1>3

LEMMA StillRight ==
  ASSUME TypeInv, SaidRight, chain'.listed = chain.listed,
         \/ UNCHANGED inbox /\ nft'.status = nft.status
         \/ \E p \in Replicas : Deliver(p)
  PROVE  SaidRight'
<1>1. CASE UNCHANGED inbox /\ nft'.status = nft.status
  BY <1>1 DEF SaidRight, EndsRight, Silent, Says, Right
<1>2. ASSUME NEW p \in Replicas, Deliver(p) PROVE SaidRight'
  <2>1. PICK n \in Nat : /\ DOMAIN inbox[p] = 1..n+1 /\ DOMAIN inbox'[p] = 1..n
                         /\ \A i \in 1..n : inbox'[p][i] = inbox[p][i+1]
    BY <1>2, Delivered
  <2>2. /\ \A q \in Replicas \ {p} : inbox'[q] = inbox[q]
        /\ nft'.status = IF Says(inbox[p][1]) THEN inbox[p][1].set ELSE nft.status
    BY <1>2, Delivered DEF TypeInv, Says
  <2>3. EndsRight(inbox[p])'
    <3>1. ASSUME NEW i \in DOMAIN inbox'[p], Says(inbox'[p][i]),
                 \A j \in DOMAIN inbox'[p] : j > i => ~Says(inbox'[p][j])
          PROVE  Right(inbox'[p][i].set)
      <4>1. i+1 \in DOMAIN inbox[p] /\ Says(inbox[p][i+1])
        BY <2>1, <3>1
      <4>2. ASSUME NEW j \in DOMAIN inbox[p], j > i+1 PROVE ~Says(inbox[p][j])
        <5>1. j-1 \in 1..n /\ j-1 > i /\ inbox'[p][j-1] = inbox[p][j]
          BY <2>1, <4>2
        <5> QED
          BY <2>1, <3>1, <5>1
      <4> QED
        BY <2>1, <4>1, <4>2 DEF SaidRight, EndsRight
    <3> QED
      BY <3>1 DEF EndsRight, Right, Says
  <2>4. \A q \in Replicas : EndsRight(inbox[q])'
    BY <2>2, <2>3 DEF SaidRight, EndsRight, Right, Says
  <2>5. ASSUME \A q \in Replicas : Silent(inbox[q])' PROVE Right(nft.status)'
    <3>1. \A i \in 1..n : ~Says(inbox[p][i+1])
      BY <2>1, <2>5 DEF Silent, Says
    <3>2. \A i \in DOMAIN inbox[p] : i > 1 => ~Says(inbox[p][i])
      <4>1. ASSUME NEW i \in 1..n+1, i > 1 PROVE ~Says(inbox[p][i])
        <5>1. i-1 \in 1..n /\ (i-1)+1 = i
          BY <4>1
        <5> QED
          BY <3>1, <5>1
      <4> QED
        BY <2>1, <4>1
    <3>3. CASE Says(inbox[p][1])
      <4>1. Right(inbox[p][1].set)
        BY <2>1, <3>2, <3>3 DEF SaidRight, EndsRight
      <4> QED
        BY <2>2, <3>3, <4>1 DEF Right
    <3>4. CASE ~Says(inbox[p][1])
      <4>1. Silent(inbox[p])
        BY <2>1, <3>2, <3>4 DEF Silent
      <4>2. \A q \in Replicas : Silent(inbox[q])
        BY <2>2, <2>5, <4>1 DEF Silent, Says
      <4> QED
        BY <2>2, <3>4, <4>2 DEF SaidRight, Right
    <3> QED
      BY <3>3, <3>4
  <2> QED
    BY <2>4, <2>5 DEF SaidRight
<1> QED
  BY <1>1, <1>2

\* Who has still something to say about the sale.
Speaking == {"creating", "locking", "sending", "polling"}
Deciding == {"locking", "sending", "polling", "confirming"}

LEMMA SaidByVerdict ==
  ASSUME Types, Trail, HasApi, Orderly, ListedInv, SaidInv, Sound', Trail',
         NEW r \in Reqs,
         \/ r \in Lists /\ (Poll(r) \/ ConfirmList(r))
         \/ r \in Cancels /\ (Poll(r) \/ ConfirmCancel(r))
  PROVE  SaidInv'
<1> USE RequestAssumption, BusAssumption DEF Goto, docs, input, polling, bus, past, Reqs
<1>0. TypeInv /\ Progress
  BY DEF Types
<1>1. ASSUME r \in Lists, Poll(r) PROVE SaidInv'
  <2>1. PICK s \in Observable(r), label \in {"polling", "confirming"} :
          /\ polled' = [polled EXCEPT ![r] = s]
          /\ pc' = [pc EXCEPT ![r] = label]
          /\ Publish(ListStatus[s], None)
    BY <1>1 DEF Poll
  <2>2. pc[r] = "polling" /\ UNCHANGED <<nft, chain>>
    BY <1>1 DEF Poll
  <2>3. s \in PollStates
    BY <1>0, <2>2, ObservableIs DEF Progress
  <2>4. pc'[r] = label /\ polled'[r] = s
    BY <1>0, <2>1 DEF TypeInv
  <2>5. CASE label = "polling"
    BY <1>1, <2>4, <2>5 DEF SaidInv, Busy
  <2>6. CASE label = "confirming"
    <3>1. s = "processed" /\ chain.tx[r] = "processed"
      BY <1>1, <2>2, <2>3, <2>4, <2>6 DEF Sound, Trail, PollStates
    <3>2. chain.listed
      BY <1>1, <2>2, <3>1 DEF ListedInv, VerdictHolds
    <3>3. ListStatus[s] = "forSale"
      BY <3>1 DEF ListStatus
    <3>4. SaidRight'
      BY <1>0, <2>1, <2>2, <3>2, <3>3, LastWord DEF Right
    <3> QED
      BY <3>4 DEF SaidInv
  <2> QED
    BY <2>1, <2>5, <2>6
<1>2. ASSUME r \in Lists, ConfirmList(r) PROVE SaidInv'
  <2>1. pc[r] = "confirming" /\ UNCHANGED <<nft, chain>>
    BY <1>2 DEF ConfirmList
  <2>2. polled[r] \in {"processed", "rejected"} /\ chain.tx[r] = polled[r]
    BY <2>1 DEF Orderly, PastPolling, Trail
  <2>3. CASE polled[r] = "processed"
    <3>1. chain.listed
      BY <1>2, <2>1, <2>2, <2>3 DEF ListedInv, VerdictHolds
    <3>2. Publish("forSale", r)
      BY <1>2, <2>3 DEF ConfirmList
    <3>3. SaidRight'
      BY <1>0, <2>1, <3>1, <3>2, LastWord DEF Right
    <3> QED
      BY <3>3 DEF SaidInv
  <2>4. polled'[r] = polled[r] /\ pc'[r] # "polling"
    BY <1>0, <1>2 DEF ConfirmList, TypeInv
  <2> QED
    BY <1>2, <2>2, <2>3, <2>4 DEF Sound
<1>3. ASSUME r \in Cancels, Poll(r) PROVE SaidInv'
  <2>1. pc'[r] \in {"polling", "confirming"}
    BY <1>0, <1>3 DEF Poll, TypeInv
  <2> QED
    BY <1>3, <2>1 DEF SaidInv, Busy
<1>4. ASSUME r \in Cancels, ConfirmCancel(r) PROVE SaidInv'
  <2>1. pc[r] = "confirming" /\ UNCHANGED <<nft, chain>> /\ Publish(CancelNftStatus[polled[r]], None)
    BY <1>4 DEF ConfirmCancel
  <2>2. polled[r] \in {"processed", "rejected"} /\ chain.tx[r] = polled[r]
    BY <2>1 DEF Orderly, PastPolling, Trail
  <2>3. CASE polled[r] = "processed"
    <3>1. ~chain.listed
      BY <1>4, <2>1, <2>2, <2>3 DEF ListedInv, VerdictHolds
    <3>2. CancelNftStatus[polled[r]] = "minted"
      BY <2>3 DEF CancelNftStatus
    <3>3. SaidRight'
      BY <1>0, <2>1, <3>1, <3>2, LastWord DEF Right
    <3> QED
      BY <3>3 DEF SaidInv
  <2>4. CASE polled[r] = "rejected"
    <3>1. target[r] \in Lists /\ Standing(target[r])
      BY <1>4, <2>1, <2>4 DEF ListedInv, TargetsSent, Standing, PastPolling
    <3>2. ~Withdrawing(target[r])
      BY <1>4, <2>1, OneAsks DEF Withdrawing, Using
    <3>3. chain.listed
      BY <3>1, <3>2 DEF ListedInv, StandingIsListed
    <3>4. CancelNftStatus[polled[r]] = "forSale"
      BY <2>4 DEF CancelNftStatus
    <3>5. SaidRight'
      BY <1>0, <2>1, <3>3, <3>4, LastWord DEF Right
    <3> QED
      BY <3>5 DEF SaidInv
  <2> QED
    BY <2>2, <2>3, <2>4
<1> QED
  BY <1>1, <1>2, <1>3, <1>4

LEMMA SaidStep ==
  ASSUME Types, Trail, MintInv, HasApi, LifecycleInv, Sound, Sound', Trail', Orderly, ListedInv,
         SaidInv, [Next]_vars
  PROVE  SaidInv'
<1> USE RequestAssumption, BusAssumption DEF Goto, docs, input, polling, bus, past, Reqs
<1>0. TypeInv /\ Progress
  BY DEF Types
\* A request that had nothing to say moves on.
<1>1. ASSUME NEW r \in Reqs, NEW label, pc' = [pc EXCEPT ![r] = label],
             r \in Lists => pc[r] \notin Speaking,
             r \in Cancels => pc[r] \notin Deciding,
             chain'.listed = chain.listed, UNCHANGED inbox, nft'.status = nft.status
      PROVE  SaidInv'
  <2>1. \A q \in Reqs \ {r} : pc'[q] = pc[q]
    BY <1>1
  <2>2. Busy => Busy'
    BY <1>1, <2>1 DEF Busy, Speaking, Deciding
  <2> QED
    BY <1>0, <1>1, <2>2, StillRight DEF SaidInv
\* A request will still speak.
<1>2. ASSUME NEW r \in Lists \union Cancels, NEW label, pc' = [pc EXCEPT ![r] = label],
             IF r \in Lists THEN label \in Speaking ELSE label \in Deciding
      PROVE  SaidInv'
  <2>1. pc'[r] = label
    BY <1>0, <1>2 DEF TypeInv
  <2> QED
    BY <1>2, <2>1 DEF SaidInv, Busy, Speaking, Deciding
<1>3. ASSUME UNCHANGED pc, chain'.listed = chain.listed,
             \/ UNCHANGED inbox /\ nft'.status = nft.status
             \/ \E p \in Replicas : Deliver(p)
      PROVE  SaidInv'
  BY <1>0, <1>3, StillRight DEF SaidInv, Busy
<1>4. CASE MintRequest
  <2>1. nft.status = "none" /\ nft'.status = "minting" /\ UNCHANGED <<inbox, chain>>
    BY <1>4 DEF MintRequest
  <2>2. ~chain.listed /\ \A p \in Replicas : inbox'[p] = <<>>
    BY <2>1 DEF MintInv
  <2>3. SaidRight'
    BY <2>1, <2>2 DEF SaidRight, EndsRight, Right
  <2> QED
    BY <2>3 DEF SaidInv
<1>5. ASSUME NEW r \in Lists \union Cancels,
             \/ r \in Lists /\ (ListRequest(r) \/ ListCheckSale(r))
             \/ r \in Cancels /\ (CancelRequest(r) \/ CancelClose(r))
      PROVE  SaidInv'
  <2>1. \E label : pc' = [pc EXCEPT ![r] = label]
    BY <1>5 DEF ListRequest, ListCheckSale, CancelRequest, CancelClose
  <2>2. pc[r] \in {"idle", "checking", "closing"} /\ UNCHANGED <<nft, inbox, chain>>
    BY <1>5 DEF ListRequest, ListCheckSale, CancelRequest, CancelClose, Arrives
  <2> QED
    BY <1>1, <2>1, <2>2 DEF Speaking, Deciding
<1>6. ASSUME NEW l \in Lists, ListMark(l) \/ ListCreate(l) PROVE SaidInv'
  <2>1. pc[l] \in {"marking", "creating"}
    BY <1>6 DEF ListMark, ListCreate
  <2>2. currency[l] = "USD"
    BY <2>1, InUSD
  <2>3. \E label \in {"creating", "locking"} : pc' = [pc EXCEPT ![l] = label]
    BY <1>6, <2>2 DEF ListMark, ListCreate
  <2> QED
    BY <1>2, <2>3 DEF Speaking
<1>7. ASSUME NEW c \in Cancels, CancelMark(c) PROVE SaidInv'
  <2>1. pc[c] = "closingNft"
    BY <1>7 DEF CancelMark
  <2>2. target[c] \in Lists /\ pc[target[c]] # "idle"
    BY <2>1 DEF ListedInv, TargetsSent, PastPolling
  <2>3. pc' = [pc EXCEPT ![c] = "locking"]
    BY <1>7, <2>2, InUSD DEF CancelMark
  <2> QED
    BY <1>2, <2>3 DEF Deciding
<1>8. ASSUME NEW c \in Cancels, CancelRestoreNft(c) \/ CancelWithdraw(c) PROVE FALSE
  BY <1>8 DEF CancelRestoreNft, CancelWithdraw, Orderly
<1>9. ASSUME NEW r \in Reqs, Acquire(r) \/ Send(r) PROVE SaidInv'
  <2>1. \E label \in {"sending", "polling"} : pc' = [pc EXCEPT ![r] = label]
    BY <1>9 DEF Acquire, Send
  <2>2. UNCHANGED <<nft, inbox>> /\ chain'.listed = chain.listed
    BY <1>0, <1>9 DEF Acquire, Send, Progress
  <2>3. CASE r = Mint
    BY <1>1, <2>1, <2>2, <2>3
  <2>4. CASE r # Mint
    BY <1>2, <2>1, <2>4 DEF Speaking, Deciding
  <2> QED
    BY <2>3, <2>4
<1>10. ASSUME Poll(Mint) PROVE SaidInv'
  <2>1. PICK s \in Observable(Mint) : Publish(MintStatus[s], None)
    BY <1>10 DEF Poll
  <2>2. pc[Mint] = "polling" /\ UNCHANGED <<nft, chain>>
    BY <1>10 DEF Poll
  <2>3. ~chain.listed
    BY <2>2 DEF MintInv, Known
  <2>4. MintStatus[s] \in {"minting", "minted", "draft"}
    BY <1>0, <2>1, <2>2, ObservableIs DEF Progress, PollStates, MintStatus
  <2>5. SaidRight'
    BY <1>0, <2>1, <2>2, <2>3, <2>4, LastWord DEF Right
  <2> QED
    BY <2>5 DEF SaidInv
<1>11. CASE ConfirmMint
  <2>1. pc[Mint] = "confirming" /\ UNCHANGED <<nft, chain>> /\ \E label : pc' = [pc EXCEPT ![Mint] = label]
    BY <1>11 DEF ConfirmMint
  <2>2. polled[Mint] \in {"processed", "rejected"}
    BY <2>1 DEF Orderly, PastPolling
  <2>3. CASE UNCHANGED inbox
    BY <1>1, <2>1, <2>3
  <2>4. CASE Publish("avnNftId", None)
    <3>1. Busy => Busy'
      BY <1>0, <2>1 DEF Busy, TypeInv
    <3> QED
      BY <1>0, <2>1, <2>4, <3>1, LastWord DEF SaidInv
  <2> QED
    BY <1>11, <2>2, <2>3, <2>4 DEF ConfirmMint
<1>12. ASSUME NEW r \in Reqs, Answered(r) \/ Unlock(r) PROVE SaidInv'
  <2>1. \E label : pc' = [pc EXCEPT ![r] = label]
    BY <1>12 DEF Answered, Unlock
  <2>2. pc[r] \in {"awaiting", "unlocking"} /\ UNCHANGED <<nft, inbox, chain>>
    BY <1>12 DEF Answered, Unlock
  <2> QED
    BY <1>1, <2>1, <2>2 DEF Speaking, Deciding
<1>13. ASSUME NEW r \in Reqs, ChainProcesses(r) PROVE SaidInv'
  <2>1. /\ chain.tx[r] = "sent" /\ UNCHANGED <<nft, inbox, pc>>
        /\ chain'.listed = (r \in Lists)
    BY <1>13 DEF ChainProcesses
  <2>2. pc[r] = "polling"
    BY <1>0, <2>1 DEF Trail, Early, Orderly, PastPolling, TypeInv, PC, Background, Ended
  <2>3. CASE r # Mint
    BY <2>1, <2>2, <2>3 DEF SaidInv, Busy
  <2>4. CASE r = Mint
    <3>1. ~chain.listed
      BY <2>2, <2>4 DEF MintInv, Known
    <3>2. chain'.listed = chain.listed
      BY <1>0, <2>1, <2>4, <3>1 DEF Progress
    <3> QED
      BY <1>3, <2>1, <3>2
  <2> QED
    BY <2>3, <2>4
<1>14. ASSUME NEW r \in Reqs, ChainRejects(r) PROVE SaidInv'
  <2>1. UNCHANGED <<nft, inbox, pc>> /\ chain'.listed = chain.listed
    BY <1>0, <1>14 DEF ChainRejects, Progress
  <2> QED
    BY <1>3, <2>1
<1>15. CASE \/ \E p \in Replicas : Deliver(p)
            \/ \E l \in Lists : ConfirmAuction(l)
            \/ Unhide \/ Lapse \/ UNCHANGED vars
  <2>1. UNCHANGED <<pc, chain>>
    BY <1>15 DEF Deliver, ConfirmAuction, Unhide, Lapse, vars
  <2>2. (UNCHANGED inbox /\ nft'.status = nft.status) \/ \E p \in Replicas : Deliver(p)
    BY <1>0, <1>15 DEF ConfirmAuction, Unhide, Lapse, vars, TypeInv
  <2> QED
    BY <1>3, <2>1, <2>2
<1>16. ASSUME NEW r \in Reqs,
              \/ r \in Lists /\ (Poll(r) \/ ConfirmList(r))
              \/ r \in Cancels /\ (Poll(r) \/ ConfirmCancel(r))
       PROVE  SaidInv'
  BY <1>16, SaidByVerdict
<1> QED
  BY <1>4, <1>5, <1>6, <1>7, <1>8, <1>9, <1>10, <1>11, <1>12, <1>13, <1>14, <1>15, <1>16, NoFault,
     ReleaseSucceeds
     DEF Next, Request, Network, Environment, Serve

LEMMA AgreeStep ==
  ASSUME Types, Trail, MintInv, HasApi, LifecycleInv, AgreeInv, [Next]_vars, Apart'
  PROVE  AgreeInv'
<1> SUFFICES ASSUME Sound' PROVE Orderly' /\ Minting' /\ ListedInv' /\ SaidInv'
  BY DEF AgreeInv
<1>1. Sound /\ Trail'
  BY SoundBack, TrailStep
<1>2. Orderly /\ Minting /\ ListedInv /\ SaidInv
  BY <1>1 DEF AgreeInv
<1>3. (\A r \in Reqs : ~Die(r)) /\ \A p \in Replicas : ~LoseInbox(p)
  BY NoFault
<1> QED
  BY <1>1, <1>2, <1>3, OrderlyStep, MintingStep, ListedStep, SaidStep

LEMMA AgreeInit == Init => Trail /\ MintInv /\ AgreeInv
<1> SUFFICES ASSUME Init PROVE Trail /\ MintInv /\ AgreeInv
  OBVIOUS
<1> USE RequestAssumption, BusAssumption DEF Reqs
<1>1. /\ pc = [r \in Reqs |-> "idle"] /\ polled = [r \in Reqs |-> None]
      /\ currency = [l \in Lists |-> None] /\ inbox = [p \in Replicas |-> <<>>]
      /\ chain = [minted |-> nft.avnNftId, listed |-> FALSE, tx |-> [r \in Reqs |-> None]]
  BY DEF Init
<1>2. nft.status \in {"none", "minted", "owned"} /\ (nft.status = "none" => ~nft.avnNftId)
  BY DEF Init
<1>3. ~OnBus("none") /\ ~OnBus("avnNftId")
  BY <1>1 DEF OnBus
<1>4. Trail
  BY <1>1 DEF Trail
<1>5. MintInv
  BY <1>1, <1>2, <1>3 DEF MintInv, Known
<1>6. Orderly /\ Minting
  BY <1>1 DEF Orderly, PastPolling, Minting, Known
<1>7. ListedInv
  BY <1>1 DEF ListedInv, TargetsSent, OneStanding, StandingIsListed, ListedAlone, VerdictHolds,
              Standing, PastPolling
<1>8. SaidInv
  BY <1>1, <1>2 DEF SaidInv, SaidRight, EndsRight, Right
<1> QED
  BY <1>4, <1>5, <1>6, <1>7, <1>8 DEF AgreeInv

(* As long as requests about one auction are asked for one after the other, *)
(* the database agrees with the network when everything has come to rest    *)
(* with a verdict, nothing failed, nobody gave up waiting for the client    *)
(* and no key lapsed under a confirmation that polled LeaseLoops times: the *)
(* NFT is for sale exactly when it is listed and has its AvN id exactly     *)
(* when it is minted, however many requests are served at the same time and *)
(* however far replicas had fallen behind on the bus.                       *)
THEOREM Agreement == Spec /\ []Apart => []DatabaseAgreesWithChain
<1> DEFINE Inv == Trail /\ (~lapsed => HasApi /\ LifecycleInv /\ MintInv /\ AgreeInv)
<1>1. Init => Inv
  <2>1. Init => HasApi /\ LifecycleInv
    BY DEF Init, HasApi, LifecycleInv, ListingStands, CancellingInv, Using, Creating, Confirmable,
           Cancelling, Reqs
  <2> QED
    BY <2>1, AgreeInit
<1>2. Types /\ Inv /\ [Next]_vars /\ Apart' => Inv'
  <2> SUFFICES ASSUME Types, Inv, [Next]_vars, Apart' PROVE Inv'
    OBVIOUS
  <2>1. Trail'
    BY TrailStep
  <2>2. ASSUME ~lapsed' PROVE HasApi' /\ LifecycleInv' /\ MintInv' /\ AgreeInv'
    <3>1. HasApi /\ LifecycleInv /\ MintInv /\ AgreeInv
      BY <2>2, LapsedLasts
    <3>2. HasApi' /\ LifecycleInv'
      BY <2>2, <3>1, HasApiStep, LifecycleStep
    <3>3. MintInv'
      BY <3>1, MintStep DEF LifecycleInv
    <3> QED
      BY <3>1, <3>2, <3>3, AgreeStep
  <2> QED
    BY <2>1, <2>2
<1>3. Inv => DatabaseAgreesWithChain
  <2> SUFFICES ASSUME Inv, Quiet, Settled, USDOnly, \A l \in Lists : polled[l] # "rejected"
               PROVE  (nft.status = "forSale" <=> chain.listed) /\ (nft.avnNftId <=> chain.minted)
    BY DEF DatabaseAgreesWithChain
  <2> USE DEF Ended, Reqs
  <2>1. Sound /\ MintInv /\ AgreeInv
    BY DEF Sound, Settled
  <2>2. ~Busy /\ \A p \in Replicas : Silent(inbox[p])
    BY DEF Quiet, Busy, Silent
  <2>3. nft.status = "forSale" <=> chain.listed
    BY <2>1, <2>2 DEF AgreeInv, SaidInv, SaidRight, Right
  <2>4. Known <=> nft.avnNftId
    BY DEF Known, OnBus, Quiet
  <2>5. pc[Mint] \notin {"polling", "confirming"}
    BY DEF Quiet
  <2>6. nft.avnNftId <=> chain.minted
    BY <2>1, <2>4, <2>5 DEF MintInv, AgreeInv, Minting
  <2> QED
    BY <2>3, <2>6
<1> QED
  BY <1>1, <1>2, <1>3, TypesInvariant, PTL DEF Spec
=============================================================================
