--------------------------- MODULE Editions_proofs ---------------------------
(***************************************************************************)
(* Theorems about Editions, for any number of replicas, events and NFTs.   *)
(***************************************************************************)
EXTENDS Editions, TLAPS

(* What makes the list unique: an NFT remembers who asked for it.  An      *)
(* answer that it was inserted goes to its maker, a handler only collects  *)
(* ids of NFTs it is the maker of, and a list that was written is that of  *)
(* a handler which has ended, though perhaps with an error, and has        *)
(* collected every id.                                                     *)
InsertedByMaker ==
  \A r \in requests : r.outcome = "inserted" => maker[InJson(r.id)] = r.by
IdsOfMaker ==
  \A h \in Handlers : IsInjective(ids[h]) /\ \A i \in DOMAIN ids[h] : maker[InJson(ids[h][i])] = h
ListOf(h) == pc[h] \in Ended /\ listed = ids[h] /\ ToSet(ids[h]) = Ids
ListedByOne == listed # <<>> => \E h \in Handlers : ListOf(h)
Inv == TypeOK /\ InsertedByMaker /\ IdsOfMaker /\ ListedByOne

-----------------------------------------------------------------------------
(* A sequence without repetitions stays one when a new element is added.   *)
LEMMA AppendNew ==
  ASSUME NEW S, NEW s \in Seq(S), NEW e \in S, e \notin ToSet(s), IsInjective(s)
  PROVE  /\ Append(s, e) \in Seq(S)
         /\ IsInjective(Append(s, e))
         /\ DOMAIN Append(s, e) = 1 .. Len(s) + 1
         /\ DOMAIN s = 1 .. Len(s)
         /\ \A i \in 1 .. Len(s) : Append(s, e)[i] = s[i]
         /\ Append(s, e)[Len(s) + 1] = e
  BY DEF ToSet, IsInjective

(* No two handlers can have collected every id.                            *)
LEMMA OneComplete ==
  ASSUME TypeOK, IdsOfMaker, NEW g \in Handlers, NEW h \in Handlers,
         ToSet(ids[g]) = Ids, ToSet(ids[h]) = Ids
  PROVE  g = h
<1>1. PICK id : id \in Ids
  <2>1. 1 \in Numbers
    BY EditionsAssumption DEF Numbers
  <2> QED
    BY <2>1 DEF Ids
<1>2. PICK i \in DOMAIN ids[g] : ids[g][i] = id
  BY <1>1 DEF ToSet
<1>3. PICK j \in DOMAIN ids[h] : ids[h][j] = id
  BY <1>1 DEF ToSet
<1> QED
  BY <1>2, <1>3 DEF IdsOfMaker

-----------------------------------------------------------------------------
LEMMA InitInv == Init => Inv
<1> SUFFICES ASSUME Init PROVE Inv
  OBVIOUS
<1>1. TypeOK
  <2>1. listed \in Seq(Ids) /\ requests \subseteq Requests
    BY DEF Init
  <2>2. ids \in [Handlers -> Seq(Ids)]
    BY DEF Init
  <2>3. pc \in [Handlers -> PC] /\ maker \in [StoredIds -> Handlers \union {Nobody}]
    BY DEF Init, PC
  <2>4. minted \in BOOLEAN
    BY Zenon DEF Init
  <2>5. faults \in 0 .. MaxFaults /\ up \subseteq Pods
    BY EditionsAssumption DEF Init
  <2>6. unsent \in [Handlers -> SUBSET Numbers]
    BY DEF Init
  <2> QED
    BY <2>1, <2>2, <2>3, <2>4, <2>5, <2>6 DEF TypeOK
<1>2. InsertedByMaker /\ ListedByOne
  BY DEF Init, InsertedByMaker, ListedByOne
<1>3. IdsOfMaker
  BY DEF Init, IdsOfMaker, IsInjective
<1> QED
  BY <1>1, <1>2, <1>3 DEF Inv

(* Every step keeps the types.                                             *)
LEMMA TypeStep == TypeOK /\ [Next]_vars => TypeOK'
<1> SUFFICES ASSUME TypeOK, [Next]_vars PROVE TypeOK'
  OBVIOUS
<1> USE DEF TypeOK
<1>1. ASSUME NEW h \in Handlers, Receive(h) PROVE TypeOK'
  BY <1>1 DEF Receive, Goto, edition, PC
<1>2. ASSUME NEW h \in Handlers, UpdateEdition(h) PROVE TypeOK'
  BY <1>2 DEF UpdateEdition, Goto, PC
<1>a. ASSUME NEW h \in Handlers, Ask(h) PROVE TypeOK'
  <2>1. PICK n \in Numbers : Publish(h, n, up, GenerateNftId(n))
    BY <1>a DEF Ask
  <2>2. GenerateNftId(n) \in Ids
    BY DEF Ids
  <2>3. requests' \subseteq Requests
    BY <2>1, <2>2 DEF Publish, Requests, Outcomes
  <2> QED
    BY <2>1, <2>3 DEF Publish, edition
<1>3. ASSUME NEW h \in Handlers, ListNfts(h) PROVE TypeOK'
  BY <1>3 DEF ListNfts, Goto, PC, Ended
<1>4. ASSUME NEW h \in Handlers, HandlerFails(h) PROVE TypeOK'
  <2>1. minted' \in BOOLEAN /\ listed' \in Seq(Ids)
    BY <1>4 DEF HandlerFails
  <2> QED
    BY <1>4, <2>1, EditionsAssumption DEF HandlerFails, Goto, Fault, PC, Ended
<1>5. ASSUME NEW r \in requests, Insert(r) PROVE TypeOK'
  <2>1. r \in Requests /\ InJson(r.id) \in StoredIds /\ r.by \in Handlers
    BY DEF Requests, StoredIds
  <2>2. \A o \in Outcomes : Becomes(r, o) => requests' \subseteq Requests
    BY <2>1 DEF Becomes, Requests
  <2> QED
    BY <1>5, <2>1, <2>2 DEF Insert, edition, Outcomes
<1>6. ASSUME NEW r \in requests, InsertFails(r) PROVE TypeOK'
  <2>1. r \in Requests
    OBVIOUS
  <2>2. \A o \in Outcomes : Becomes(r, o) => requests' \subseteq Requests
    BY <2>1 DEF Becomes, Requests
  <2> QED
    BY <1>6, <2>2, EditionsAssumption DEF InsertFails, Fault, edition, Outcomes
<1>7. ASSUME NEW r \in requests, Answer(r) PROVE TypeOK'
  <2>1. r.id \in Ids /\ r.by \in Handlers
    BY DEF Requests
  <2>2. ids' \in [Handlers -> Seq(Ids)]
    <3>1. Append(ids[r.by], r.id) \in Seq(Ids)
      BY <2>1
    <3> QED
      BY <1>7, <3>1 DEF Answer, Goto
  <2>3. pc' \in [Handlers -> PC]
    BY <1>7, <2>1 DEF Answer, Goto, PC, Ended
  <2> QED
    BY <1>7, <2>2, <2>3 DEF Answer, edition
<1>8. ASSUME NEW p \in Pods, Crash(p) PROVE TypeOK'
  BY <1>8, EditionsAssumption DEF Crash, Fault, edition, PC, Ended
<1>b. ASSUME NEW p \in Pods, Restart(p) PROVE TypeOK'
  BY <1>b DEF Restart, edition
<1>9. CASE UNCHANGED vars
  BY <1>9 DEF vars, edition
<1> QED
  BY <1>1, <1>2, <1>3, <1>4, <1>5, <1>6, <1>7, <1>8, <1>9, <1>a, <1>b DEF Next

-----------------------------------------------------------------------------
(* A handler that is about to write the list is the first to do so.        *)
LEMMA ListsOnce ==
  ASSUME Inv, NEW h \in Handlers, At(h, "creating"), ToSet(ids[h]) = Ids
  PROVE  listed = <<>>
<1>1. SUFFICES ASSUME listed # <<>> PROVE FALSE
  OBVIOUS
<1>2. PICK g \in Handlers : ListOf(g)
  BY <1>1 DEF Inv, ListedByOne
<1>3. g = h
  BY <1>2, OneComplete DEF Inv, ListOf
<1> QED
  BY <1>2, <1>3 DEF ListOf, At, Ended

(* Every step keeps the invariant.                                         *)
LEMMA InvStep == Inv /\ [Next]_vars => Inv'
<1> SUFFICES ASSUME Inv, [Next]_vars PROVE Inv'
  OBVIOUS
<1>0. TypeOK'
  BY TypeStep DEF Inv
<1> USE DEF Inv
\* Steps that neither insert nor answer, and leave ended handlers alone.
<1>0a. ASSUME UNCHANGED <<listed, maker, ids>>,
              \A r \in requests' : r.outcome = "inserted" => r \in requests,
              \A h \in Handlers : pc[h] \in Ended => pc'[h] \in Ended
       PROVE  InsertedByMaker' /\ IdsOfMaker' /\ ListedByOne'
  BY <1>0a DEF InsertedByMaker, IdsOfMaker, ListedByOne, ListOf
\* Steps by which a handler ends with its list written.
<1>0b. ASSUME NEW h \in Handlers, UNCHANGED <<maker, requests, ids>>, ListOf(h)'
       PROVE  InsertedByMaker' /\ IdsOfMaker' /\ ListedByOne'
  BY <1>0b DEF InsertedByMaker, IdsOfMaker, ListedByOne
<1>1. ASSUME NEW h \in Handlers, Receive(h) PROVE Inv'
  BY <1>0, <1>1, <1>0a DEF Receive, At, Goto, edition, TypeOK, Ended
<1>2. ASSUME NEW h \in Handlers, UpdateEdition(h) PROVE Inv'
  BY <1>0, <1>2, <1>0a DEF UpdateEdition, At, Goto, TypeOK, Ended
<1>a. ASSUME NEW h \in Handlers, Ask(h) PROVE Inv'
  <2>1. PICK n \in Numbers : Publish(h, n, up, GenerateNftId(n))
    BY <1>a DEF Ask
  <2>2. \A r \in requests' : r.outcome = "inserted" => r \in requests
    BY <2>1 DEF Publish
  <2> QED
    BY <1>0, <1>0a, <2>1, <2>2 DEF Publish, edition
<1>3. ASSUME NEW h \in Handlers, ListNfts(h) PROVE Inv'
  <2>1. ListOf(h)'
    BY <1>3 DEF ListNfts, ListOf, Goto, TypeOK, Ended
  <2> QED
    BY <1>0, <1>3, <2>1, <1>0b DEF ListNfts
<1>4. ASSUME NEW h \in Handlers, HandlerFails(h) PROVE Inv'
  <2>1. CASE UNCHANGED listed
    BY <1>0, <1>4, <2>1, <1>0a DEF HandlerFails, Goto, TypeOK, Ended
  <2>2. CASE listed' = ids[h] /\ ToSet(ids[h]) = Ids
    <3>1. ListOf(h)'
      BY <1>4, <2>2 DEF HandlerFails, ListOf, Goto, TypeOK, Ended
    <3> QED
      BY <1>0, <1>4, <3>1, <1>0b DEF HandlerFails
  <2> QED
    BY <1>4, <2>1, <2>2 DEF HandlerFails
<1>5. ASSUME NEW r \in requests, Insert(r) PROVE Inv'
  <2>1. r \in Requests /\ InJson(r.id) \in StoredIds /\ r.by \in Handlers
    BY DEF TypeOK, Requests, StoredIds
  <2>2. CASE maker[InJson(r.id)] = Nobody
    <3>1. /\ maker' = [maker EXCEPT ![InJson(r.id)] = r.by]
          /\ requests' = (requests \ {r}) \union {[r EXCEPT !.outcome = "inserted"]}
          /\ UNCHANGED <<listed, ids, pc>>
      BY <1>5, <2>2 DEF Insert, Becomes, edition
    <3>2. \A id \in StoredIds : maker[id] \in Handlers => maker'[id] = maker[id]
      BY <2>1, <2>2, <3>1, EditionsAssumption DEF TypeOK
    <3>3. InsertedByMaker'
      <4> SUFFICES ASSUME NEW q \in requests', q.outcome = "inserted"
                   PROVE  maker'[InJson(q.id)] = q.by
        BY DEF InsertedByMaker
      <4>1. CASE q \in requests
        <5>1. InJson(q.id) \in StoredIds /\ q.by \in Handlers
          BY <4>1 DEF TypeOK, Requests, StoredIds
        <5> QED
          BY <4>1, <5>1, <3>2 DEF InsertedByMaker
      <4>2. CASE q = [r EXCEPT !.outcome = "inserted"]
        BY <4>2, <2>1, <3>1 DEF TypeOK, Requests
      <4> QED
        BY <3>1, <4>1, <4>2
    <3>4. IdsOfMaker'
      <4>1. \A g \in Handlers : \A i \in DOMAIN ids[g] : InJson(ids[g][i]) \in StoredIds
        BY DEF TypeOK, StoredIds
      <4> QED
        BY <3>1, <3>2, <4>1 DEF IdsOfMaker
    <3>5. ListedByOne'
      BY <3>1 DEF ListedByOne, ListOf, At
    <3> QED
      BY <1>0, <3>3, <3>4, <3>5
  <2>3. CASE maker[InJson(r.id)] # Nobody
    <3>1. /\ requests' = (requests \ {r}) \union {[r EXCEPT !.outcome = "refused"]}
          /\ UNCHANGED <<listed, maker, ids, pc>>
      BY <1>5, <2>3 DEF Insert, Becomes, edition
    <3>2. \A q \in requests' : q.outcome = "inserted" => q \in requests
      BY <2>1, <3>1 DEF Requests
    <3> QED
      BY <1>0, <1>0a, <3>1, <3>2
  <2> QED
    BY <2>2, <2>3
<1>6. ASSUME NEW r \in requests, InsertFails(r) PROVE Inv'
  <2>1. r \in Requests
    BY DEF TypeOK
  <2>2. \A q \in requests' : q.outcome = "inserted" => q \in requests
    BY <1>6, <2>1 DEF InsertFails, Becomes, Requests
  <2> QED
    BY <1>0, <1>6, <1>0a, <2>2 DEF InsertFails, edition
<1>7. ASSUME NEW r \in requests, Answer(r) PROVE Inv'
  <2>1. r.id \in Ids /\ r.by \in Handlers /\ r.outcome \in Outcomes
    BY DEF TypeOK, Requests
  <2>2. CASE At(r.by, "creating") /\ r.id \notin ToSet(ids[r.by]) /\ r.outcome = "inserted"
    <3> DEFINE h == r.by
    <3>1. /\ requests' = requests \ {r}
          /\ ids' = [ids EXCEPT ![h] = Append(@, r.id)]
          /\ UNCHANGED <<listed, maker, pc>>
      BY <1>7, <2>2 DEF Answer, edition
    <3>2. maker[InJson(r.id)] = h
      BY <2>2 DEF InsertedByMaker
    <3>3. InsertedByMaker'
      BY <3>1 DEF InsertedByMaker
    <3>4. IdsOfMaker'
      <4> SUFFICES ASSUME NEW g \in Handlers
                   PROVE  IsInjective(ids'[g]) /\ \A i \in DOMAIN ids'[g] : maker[InJson(ids'[g][i])] = g
        BY <3>1 DEF IdsOfMaker
      <4>1. CASE g # h
        BY <3>1, <4>1, <2>1 DEF IdsOfMaker, TypeOK
      <4>2. CASE g = h
        <5>1. ids'[g] = Append(ids[h], r.id) /\ ids[h] \in Seq(Ids)
          BY <3>1, <4>2, <2>1 DEF TypeOK
        <5>2. IsInjective(ids[h]) /\ \A i \in DOMAIN ids[h] : maker[InJson(ids[h][i])] = h
          BY <2>1 DEF IdsOfMaker
        <5>3. IsInjective(Append(ids[h], r.id))
          BY <5>1, <5>2, <2>1, <2>2, AppendNew
        <5>4. ASSUME NEW i \in DOMAIN Append(ids[h], r.id)
              PROVE  maker[InJson(Append(ids[h], r.id)[i])] = h
          <6>1. /\ DOMAIN Append(ids[h], r.id) = 1 .. Len(ids[h]) + 1
                /\ DOMAIN ids[h] = 1 .. Len(ids[h])
                /\ \A j \in 1 .. Len(ids[h]) : Append(ids[h], r.id)[j] = ids[h][j]
                /\ Append(ids[h], r.id)[Len(ids[h]) + 1] = r.id
            BY <5>1, <5>2, <2>1, <2>2, AppendNew
          <6>2. i \in 1 .. Len(ids[h]) \/ i = Len(ids[h]) + 1
            BY <5>1, <6>1
          <6> QED
            BY <6>1, <6>2, <5>2, <3>2
        <5> QED
          BY <5>1, <5>3, <5>4, <4>2
      <4> QED
        BY <4>1, <4>2
    <3>5. ListedByOne'
      BY <2>1, <2>2, <3>1 DEF ListedByOne, ListOf, At, TypeOK
    <3> QED
      BY <1>0, <3>3, <3>4, <3>5
  <2>3. CASE ~(At(r.by, "creating") /\ r.id \notin ToSet(ids[r.by]) /\ r.outcome = "inserted")
    <3>1. UNCHANGED <<listed, maker, ids>> /\ requests' = requests \ {r}
      BY <1>7, <2>3 DEF Answer, edition
    <3>2. \A g \in Handlers : pc[g] \in Ended => pc'[g] \in Ended
      BY <1>7, <2>1, <2>3 DEF Answer, At, Goto, TypeOK, Ended
    <3> QED
      BY <1>0, <1>0a, <3>1, <3>2
  <2> QED
    BY <2>2, <2>3
<1>8. ASSUME NEW p \in Pods, Crash(p) PROVE Inv'
  BY <1>0, <1>8, <1>0a DEF Crash, Ended, edition, TypeOK
<1>b. ASSUME NEW p \in Pods, Restart(p) PROVE Inv'
  BY <1>0, <1>b, <1>0a DEF Restart, edition
<1>9. CASE UNCHANGED vars
  BY <1>0, <1>9, <1>0a DEF vars, edition
<1> QED
  BY <1>1, <1>2, <1>3, <1>4, <1>5, <1>6, <1>7, <1>8, <1>9, <1>a, <1>b DEF Next

LEMMA Invariance == Spec => []Inv
  BY InitInv, InvStep, PTL DEF Spec

-----------------------------------------------------------------------------
(* Every reachable state of the fan-out is well typed.                     *)
THEOREM Typing == Spec => []TypeOK
<1>1. Inv => TypeOK
  BY DEF Inv
<1> QED
  BY <1>1, Invariance, PTL

(* handleEditionMinted: an edition lists the ids of all of its NFTs, each  *)
(* once, or none, and lists them only when every NFT was made, whatever    *)
(* died on the way.                                                        *)
THEOREM Complete == Spec => []ListIsComplete
<1>1. Inv => ListIsComplete
  <2> SUFFICES ASSUME Inv, listed # <<>>
               PROVE  ToSet(listed) = Ids /\ IsInjective(listed) /\ Made = Ids
    BY DEF ListIsComplete
  <2>1. PICK h \in Handlers : ListOf(h)
    BY DEF Inv, ListedByOne
  <2>2. ToSet(listed) = Ids /\ IsInjective(listed)
    BY <2>1 DEF Inv, ListOf, IdsOfMaker
  <2>3. ASSUME NEW id \in Ids PROVE maker[InJson(id)] # Nobody
    <3>1. PICK i \in DOMAIN ids[h] : ids[h][i] = id
      BY <2>1 DEF ListOf, ToSet
    <3> QED
      BY <3>1, EditionsAssumption DEF Inv, IdsOfMaker
  <2> QED
    BY <2>2, <2>3 DEF Made
<1> QED
  BY <1>1, Invariance, PTL

(* The list of an edition is written once, however many replicas handle    *)
(* the event.                                                              *)
THEOREM WrittenOnce == Spec => ListIsWrittenOnce
<1>1. Inv /\ [Next]_vars => [listed # <<>> => UNCHANGED listed]_vars
  <2> SUFFICES ASSUME Inv, [Next]_vars, listed # <<>> PROVE UNCHANGED listed
    OBVIOUS
  <2>1. ASSUME NEW h \in Handlers, At(h, "creating"), ToSet(ids[h]) = Ids PROVE FALSE
    BY <2>1, ListsOnce
  <2>2. ASSUME NEW h \in Handlers, ListNfts(h) \/ HandlerFails(h) PROVE UNCHANGED listed
    BY <2>1, <2>2 DEF ListNfts, HandlerFails
  <2>3. ASSUME NEW h \in Handlers, Receive(h) \/ UpdateEdition(h) \/ Ask(h)
        PROVE  UNCHANGED listed
    BY <2>3 DEF Receive, UpdateEdition, Ask, Publish, edition
  <2> QED
    BY <2>2, <2>3 DEF Next, vars, edition, Insert, InsertFails, Answer, Crash, Restart
<1> QED
  BY <1>1, Invariance, PTL DEF Spec, ListIsWrittenOnce
=============================================================================
