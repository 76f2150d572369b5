------------------------ MODULE Confirmations_proofs ------------------------
(***************************************************************************)
(* Theorems about Confirmations, for any number of transactions.           *)
(***************************************************************************)
EXTENDS Confirmations, FiniteSetTheorems, TLAPS

Jobs == [id: {"updateCachedItem"}, no: Nat, active: BOOLEAN, read: Nat]

(* The cache: the queue has one refresh at most, and what it has read is   *)
(* between the cached copy and the NFT's document.                         *)
OneRefresh == jobs \subseteq Jobs /\ \A i \in jobs, j \in jobs : i = j
CopiesAreOlder ==
  /\ nft \in Nat /\ cached \in 0 .. nft
  /\ \A j \in jobs : j.active => cached <= j.read /\ j.read <= nft
CacheInv == OneRefresh /\ CopiesAreOlder

-----------------------------------------------------------------------------
LEMMA RefreshIsJob == OneRefresh => Refresh \in Jobs
<1> SUFFICES ASSUME OneRefresh PROVE Cardinality(jobs) \in Nat
  BY DEF Refresh, Jobs
<1>1. CASE jobs = {}
  BY <1>1, FS_EmptySet
<1>2. CASE jobs # {}
  <2>1. PICK j \in jobs : TRUE
    BY <1>2
  <2>2. jobs = {j}
    BY <2>1 DEF OneRefresh
  <2>3. Cardinality({j}) = 1
    BY FS_Singleton
  <2> QED
    BY <2>2, <2>3
<1> QED
  BY <1>1, <1>2

(* Steps that leave the queue and the NFT alone.                           *)
LEMMA CacheKept ==
  ASSUME CacheInv, UNCHANGED <<nft, jobs, cached>>
  PROVE  CacheInv'
  BY DEF CacheInv, OneRefresh, CopiesAreOlder

LEMMA CacheStep == CacheInv /\ [Next]_vars => CacheInv' /\ cached <= cached'
<1> SUFFICES ASSUME CacheInv, [Next]_vars PROVE CacheInv' /\ cached <= cached'
  OBVIOUS
<1>0. cached \in Nat /\ cached <= cached
  BY DEF CacheInv, CopiesAreOlder
<1>1. ASSUME NEW t \in Txs, \/ CreateDocument(t) \/ Poll(t) \/ FindDocument(t) \/ UpdateDocument(t)
                            \/ GetNftId(t) \/ StatusSettled(t) \/ Fails(t)
      PROVE  CacheInv' /\ cached' = cached
  <2>1. UNCHANGED <<nft, jobs, cached>>
    BY <1>1 DEF CreateDocument, Poll, FindDocument, UpdateDocument, GetNftId, StatusSettled, Fails,
                item, queue
  <2> QED
    BY <2>1, CacheKept
<1>2. ASSUME NEW t \in Txs, AddRefresh(t) PROVE CacheInv' /\ cached' = cached
  <2>1. UNCHANGED <<nft, cached>> /\ jobs' = Added(jobs, Refresh)
    BY <1>2 DEF AddRefresh, item
  <2>2. CASE jobs = {}
    <3>1. jobs' = {Refresh} /\ Refresh \in Jobs
      BY <2>1, <2>2, RefreshIsJob DEF Added, Queued, CacheInv
    <3>2. ~Refresh.active
      BY DEF Refresh
    <3> QED
      BY <2>1, <3>1, <3>2 DEF CacheInv, OneRefresh, CopiesAreOlder
  <2>3. CASE jobs # {}
    <3>1. Queued(jobs, Refresh.id) # {}
      BY <2>3 DEF Queued, Refresh, CacheInv, OneRefresh, Jobs
    <3> QED
      BY <2>1, <3>1, CacheKept DEF Added, CacheInv
  <2> QED
    BY <2>2, <2>3
<1>3. CASE WriteAny \/ \E t \in Txs : Write(t)
  <2>1. nft' = nft + 1 /\ UNCHANGED <<jobs, cached>>
    BY <1>3 DEF WriteAny, Write, queue
  <2>2. \A j \in jobs : j.read \in Nat
    BY DEF CacheInv, OneRefresh, Jobs
  <2> QED
    BY <2>1, <2>2 DEF CacheInv, OneRefresh, CopiesAreOlder
<1>4. ASSUME NEW j \in jobs, StartRefresh(j) PROVE CacheInv' /\ cached' = cached
  <2> DEFINE k == [j EXCEPT !.active = TRUE, !.read = nft]
  <2>1. jobs = {j} /\ j \in Jobs /\ nft \in Nat
    BY DEF CacheInv, OneRefresh, CopiesAreOlder
  <2>2. k \in Jobs /\ k.read = nft
    BY <2>1 DEF Jobs
  <2>3. jobs' = {k} /\ UNCHANGED <<item, cached>>
    BY <1>4, <2>1 DEF StartRefresh
  <2> QED
    BY <2>1, <2>2, <2>3 DEF CacheInv, OneRefresh, CopiesAreOlder, item
<1>5. ASSUME NEW j \in jobs, EndRefresh(j) PROVE CacheInv' /\ cached <= cached'
  <2>1. jobs = {j} /\ j.read \in Nat
    BY DEF CacheInv, OneRefresh, Jobs
  <2>2. jobs' = {} /\ cached' = j.read /\ UNCHANGED item /\ j.active
    BY <1>5, <2>1 DEF EndRefresh
  <2> QED
    BY <2>1, <2>2 DEF CacheInv, OneRefresh, CopiesAreOlder, item
<1>6. CASE UNCHANGED vars
  BY <1>0, <1>6, CacheKept DEF vars, item, queue
<1> QED
  BY <1>0, <1>1, <1>2, <1>3, <1>4, <1>5, <1>6 DEF Next, Step, Work

(* A refresh never brings a copy of an older version of the NFT back,      *)
(* whoever writes the document and however late.                           *)
THEOREM NeverBack == Spec => CacheNeverGoesBack
<1>1. Init => CacheInv
  BY DEF Init, CacheInv, OneRefresh, CopiesAreOlder
<1>2. CacheInv /\ [Next]_vars => CacheInv'
  BY CacheStep
<1>3. CacheInv /\ [Next]_vars => [cached <= cached']_vars
  BY CacheStep
<1> QED
  BY <1>1, <1>2, <1>3, PTL DEF Spec, CacheNeverGoesBack

-----------------------------------------------------------------------------
(* The documents.  Which one a request id leads to never changes once a    *)
(* document with it exists; a confirmation updates that document, and      *)
(* every verdict in a history is the one of its transaction, listed once.  *)
Polled == {"finding", "updating"} \union Recorded
IsFirst(n, t) ==
  /\ n \in DOMAIN created
  /\ created[n] \in SameRequest(t)
  /\ \A m \in DOMAIN created : created[m] \in SameRequest(t) => n <= m

DocTypes ==
  /\ earlier \in {"draft", "minted", "listed"}
  /\ created \in Seq(Txs)
  /\ kind \in [Txs -> Kinds \union {"none"}]
  /\ state \in [Txs -> {"none", "NEW"} \union Settled]
  /\ history \in [Txs -> Seq(Log)]
  /\ verdict \in [Txs -> Verdicts \union {"none"}]
  /\ found \in [Txs -> Txs \union {NoTx}]
  /\ pc \in [Txs -> PC]
  /\ \A t \in Txs : pc[t] \in Polled => verdict[t] \in Verdicts
Created == \A t \in Txs : pc[t] # "idle" => \E n \in DOMAIN created : created[n] = t
OnlyCreated == \A n \in DOMAIN created : pc[created[n]] # "idle"
HasFirst == \A t \in Txs : pc[t] # "idle" => \E n \in DOMAIN created : IsFirst(n, t)
FoundFirst == \A t \in Txs : pc[t] = "updating" => found[t] = FirstDocument(t)
HistoryOfCreated == \A d \in Txs : history[d] # <<>> => pc[d] # "idle"
Entry(t) == [tx |-> t, state |-> StateOf[verdict[t]]]
Entries ==
  \A d \in Txs : \A n \in DOMAIN history[d] :
    /\ pc[history[d][n].tx] \in Recorded \union {"failed"}
    /\ history[d][n] = Entry(history[d][n].tx)
    /\ \A m \in DOMAIN history[d] : history[d][m].tx = history[d][n].tx => m = n
Latest == \A d \in Txs : history[d] # <<>> => state[d] = history[d][Len(history[d])].state
Listed ==
  \A t \in Txs : pc[t] \in Recorded =>
    \E n \in DOMAIN history[FirstDocument(t)] : history[FirstDocument(t)][n].tx = t
DocInv ==
  /\ DocTypes /\ Created /\ OnlyCreated /\ HasFirst /\ FoundFirst
  /\ HistoryOfCreated /\ Entries /\ Latest /\ Listed

LEMMA MinIs ==
  ASSUME NEW S, S \subseteq Nat, NEW n \in S, \A m \in S : n <= m
  PROVE  Min(S) = n
<1>1. \A m \in S : (\A k \in S : m <= k) => m = n
  OBVIOUS
<1> QED
  BY <1>1, Zenon DEF Min

LEMMA FirstIs ==
  ASSUME created \in Seq(Txs), NEW t \in Txs, NEW n \in DOMAIN created, IsFirst(n, t)
  PROVE  FirstDocument(t) = created[n]
<1> DEFINE S == {m \in DOMAIN created : created[m] \in SameRequest(t)}
<1>1. n \in S /\ (\A m \in S : n <= m) /\ S \subseteq Nat
  BY DEF IsFirst
<1>2. Min(S) = n
  BY <1>1, MinIs
<1> QED
  BY <1>2 DEF FirstDocument

LEMMA EntriesAreLogs ==
  DocTypes => \A d \in Txs : \A n \in DOMAIN history[d] :
                history[d][n] \in Log /\ history[d][n].tx \in Txs
<1> SUFFICES ASSUME DocTypes, NEW d \in Txs, NEW n \in DOMAIN history[d]
             PROVE  history[d][n] \in Log /\ history[d][n].tx \in Txs
  OBVIOUS
<1>1. history[d] \in Seq(Log)
  BY DEF DocTypes
<1>2. history[d][n] \in Log
  BY <1>1
<1> QED
  BY <1>2 DEF Log

LEMMA FirstIsCreated ==
  ASSUME DocInv, NEW t \in Txs, pc[t] # "idle"
  PROVE  FirstDocument(t) \in Txs /\ pc[FirstDocument(t)] # "idle"
<1>1. PICK n \in DOMAIN created : IsFirst(n, t)
  BY DEF DocInv, HasFirst
<1>2. FirstDocument(t) = created[n]
  BY <1>1, FirstIs DEF DocInv, DocTypes
<1> QED
  BY <1>2 DEF DocInv, DocTypes, OnlyCreated

(* A new document is never the first of a request that had one.            *)
LEMMA FirstStays ==
  ASSUME DocInv, NEW u \in Txs, CreateDocument(u), NEW t \in Txs, pc[t] # "idle"
  PROVE  /\ FirstDocument(t)' = FirstDocument(t)
         /\ \E n \in DOMAIN created' : IsFirst(n, t)'
<1>1. PICK n \in DOMAIN created : IsFirst(n, t)
  BY DEF DocInv, HasFirst
<1>2. /\ created \in Seq(Txs) /\ created' = Append(created, u) /\ created' \in Seq(Txs)
      /\ DOMAIN created = 1 .. Len(created) /\ DOMAIN created' = 1 .. Len(created) + 1
      /\ \A m \in DOMAIN created : created'[m] = created[m]
  BY DEF CreateDocument, DocInv, DocTypes
<1>3. u # t /\ \A d \in Txs : d # u => kind'[d] = kind[d]
  BY DEF CreateDocument, At, DocInv, DocTypes
<1>4. \A m \in DOMAIN created : created[m] # u
  BY DEF CreateDocument, At, DocInv, OnlyCreated
<1>5. \A m \in DOMAIN created : (created'[m] \in SameRequest(t)') = (created[m] \in SameRequest(t))
  BY <1>2, <1>3, <1>4 DEF SameRequest
<1>6. IsFirst(n, t)'
  BY <1>1, <1>2, <1>5 DEF IsFirst
<1>7. FirstDocument(t)' = created'[n]
  <2> DEFINE S == {m \in DOMAIN created' : created'[m] \in SameRequest(t)'}
  <2>1. n \in S /\ (\A m \in S : n <= m) /\ S \subseteq Nat
    BY <1>2, <1>6 DEF IsFirst
  <2>2. Min(S) = n
    BY <2>1, MinIs
  <2> QED
    BY <2>2 DEF FirstDocument
<1> QED
  BY <1>1, <1>2, <1>6, <1>7, FirstIs

-----------------------------------------------------------------------------
LEMMA InitDoc == Init => DocInv
<1> SUFFICES ASSUME Init PROVE DocInv
  OBVIOUS
<1>1. DocTypes
  BY DEF Init, DocTypes, PC, Polled, Recorded
<1>2. Created /\ OnlyCreated /\ HasFirst /\ FoundFirst /\ Listed
  BY DEF Init, Created, OnlyCreated, HasFirst, FoundFirst, Listed, Recorded
<1>3. HistoryOfCreated /\ Entries /\ Latest
  BY DEF Init, HistoryOfCreated, Entries, Latest
<1> QED
  BY <1>1, <1>2, <1>3 DEF DocInv

LEMMA SameFirst ==
  ASSUME UNCHANGED <<created, kind>>, NEW t
  PROVE  FirstDocument(t)' = FirstDocument(t) /\ \A n : IsFirst(n, t)' = IsFirst(n, t)
  BY DEF FirstDocument, IsFirst, SameRequest

(* Steps of a confirmation that leave the documents alone.                 *)
LEMMA DocKept ==
  ASSUME DocInv, DocTypes', UNCHANGED <<docs, verdict>>,
         \A t \in Txs : (pc'[t] = "idle") = (pc[t] = "idle"),
         \A t \in Txs : pc[t] \in Recorded \union {"failed"} => pc'[t] \in Recorded \union {"failed"},
         \A t \in Txs : pc'[t] \in Recorded => pc[t] \in Recorded,
         \A t \in Txs : pc'[t] = "updating" => found'[t] = FirstDocument(t)
  PROVE  DocInv'
<1>1. UNCHANGED <<created, kind, state, history, verdict>>
  BY DEF docs
<1>2. \A t \in Txs : FirstDocument(t)' = FirstDocument(t) /\ \A n : IsFirst(n, t)' = IsFirst(n, t)
  BY <1>1, SameFirst
<1>3. Created' /\ HasFirst'
  BY <1>1, <1>2 DEF DocInv, Created, HasFirst
<1>4. OnlyCreated' /\ HistoryOfCreated'
  BY <1>1 DEF DocInv, DocTypes, OnlyCreated, HistoryOfCreated
<1>5. FoundFirst' /\ Listed'
  BY <1>1, <1>2 DEF DocInv, FoundFirst, Listed
<1>6. Entries'
  <2>1. \A d \in Txs : \A n \in DOMAIN history[d] : history[d][n].tx \in Txs
    BY EntriesAreLogs DEF DocInv
  <2> QED
    BY <1>1, <2>1 DEF DocInv, Entries, Entry
<1>7. Latest'
  BY <1>1 DEF DocInv, Latest
<1> QED
  BY <1>3, <1>4, <1>5, <1>6, <1>7 DEF DocInv

LEMMA CreateStep ==
  ASSUME DocInv, NEW u \in Txs, CreateDocument(u)
  PROVE  DocInv'
<1>1. /\ created' = Append(created, u) /\ pc' = [pc EXCEPT ![u] = "sending"]
      /\ state' = [state EXCEPT ![u] = "NEW"]
      /\ pc[u] = "idle"
      /\ UNCHANGED <<earlier, history, verdict, found>>
  BY DEF CreateDocument, At, Goto
<1>2. DocTypes'
  <2>1. kind' \in [Txs -> Kinds \union {"none"}]
    BY DEF CreateDocument, DocInv, DocTypes
  <2>2. pc' \in [Txs -> PC] /\ state' \in [Txs -> {"none", "NEW"} \union Settled]
    BY <1>1 DEF DocInv, DocTypes, PC
  <2>3. created' \in Seq(Txs)
    BY <1>1 DEF DocInv, DocTypes
  <2>4. \A t \in Txs : pc'[t] \in Polled => verdict'[t] \in Verdicts
    BY <1>1 DEF DocInv, DocTypes, Polled, Recorded
  <2> QED
    BY <1>1, <2>1, <2>2, <2>3, <2>4 DEF DocInv, DocTypes
<1>a. pc'[u] = "sending" /\ \A t \in Txs \ {u} : pc'[t] = pc[t]
  BY <1>1 DEF DocInv, DocTypes
<1>3. /\ created \in Seq(Txs)
      /\ DOMAIN created = 1 .. Len(created) /\ DOMAIN created' = 1 .. Len(created) + 1
      /\ \A m \in DOMAIN created : created'[m] = created[m]
      /\ created'[Len(created) + 1] = u
  BY <1>1 DEF DocInv, DocTypes
<1>4. Created' /\ OnlyCreated'
  <2>1. ASSUME NEW t \in Txs, pc'[t] # "idle" PROVE \E n \in DOMAIN created' : created'[n] = t
    <3>1. CASE t = u
      BY <1>3, <3>1
    <3>2. CASE t # u
      BY <1>a, <1>3, <2>1, <3>2 DEF DocInv, Created
    <3> QED
      BY <3>1, <3>2
  <2>2. ASSUME NEW n \in DOMAIN created' PROVE pc'[created'[n]] # "idle"
    <3>1. CASE n = Len(created) + 1
      BY <1>a, <1>3, <3>1
    <3>2. CASE n \in DOMAIN created
      <4>1. created[n] \in Txs /\ pc[created[n]] # "idle"
        BY <1>3, <3>2 DEF DocInv, OnlyCreated
      <4> QED
        BY <1>a, <1>3, <3>2, <4>1
    <3> QED
      BY <1>3, <3>1, <3>2
  <2> QED
    BY <2>1, <2>2 DEF Created, OnlyCreated
<1>5. \A t \in Txs \ {u} : pc'[t] = pc[t] /\ (pc[t] # "idle" => FirstDocument(t)' = FirstDocument(t))
  BY <1>1, FirstStays DEF DocInv, DocTypes
<1>6. HasFirst'
  <2>1. ASSUME NEW t \in Txs, pc[t] # "idle" PROVE \E n \in DOMAIN created' : IsFirst(n, t)'
    BY <2>1, FirstStays
  <2>2. \E n \in DOMAIN created' : IsFirst(n, u)'
    <3>1. CASE \E m \in DOMAIN created : created[m] \in SameRequest(u)'
      <4>1. PICK m \in DOMAIN created : created[m] \in SameRequest(u)'
        BY <3>1
      <4>2. PICK t \in Txs : t = created[m] /\ pc[t] # "idle" /\ t # u
        BY <1>1, <1>3 DEF DocInv, OnlyCreated
      <4>3. PICK n \in DOMAIN created' : IsFirst(n, t)'
        BY <2>1, <4>2
      <4>4. SameRequest(t)' = SameRequest(u)'
        BY <4>1, <4>2 DEF SameRequest
      <4> QED
        BY <4>3, <4>4 DEF IsFirst
    <3>2. CASE ~\E m \in DOMAIN created : created[m] \in SameRequest(u)'
      <4>1. u \in SameRequest(u)'
        BY DEF SameRequest
      <4> QED
        BY <1>3, <3>2, <4>1 DEF IsFirst
    <3> QED
      BY <3>1, <3>2
  <2> QED
    BY <1>1, <2>1, <2>2 DEF HasFirst, DocInv, DocTypes
<1>7. FoundFirst' /\ Listed'
  <2>1. ASSUME NEW t \in Txs, pc'[t] \in Recorded \union {"updating"}
        PROVE  pc[t] = pc'[t] /\ FirstDocument(t)' = FirstDocument(t)
    BY <1>a, <1>5, <2>1 DEF Recorded
  <2> QED
    BY <1>1, <2>1 DEF DocInv, FoundFirst, Listed
<1>8. HistoryOfCreated' /\ Latest'
  BY <1>1 DEF DocInv, DocTypes, HistoryOfCreated, Latest
<1>9. Entries'
  <2>1. \A d \in Txs : \A n \in DOMAIN history[d] : history[d][n].tx \in Txs \ {u}
    BY <1>1, EntriesAreLogs DEF DocInv, Entries, Recorded
  <2> QED
    BY <1>1, <2>1 DEF DocInv, DocTypes, Entries, Entry
<1> QED
  BY <1>2, <1>4, <1>6, <1>7, <1>8, <1>9 DEF DocInv

LEMMA PollStep ==
  ASSUME DocInv, NEW u \in Txs, Poll(u)
  PROVE  DocInv'
<1>1. /\ pc' = [pc EXCEPT ![u] = "finding"] /\ pc[u] = "sending"
      /\ UNCHANGED <<earlier, created, kind, state, history, found>>
  BY DEF Poll, At, Goto, docs
<1>2. PICK v \in Verdicts : verdict' = [verdict EXCEPT ![u] = v]
  BY DEF Poll
<1>3. /\ pc'[u] = "finding" /\ verdict'[u] \in Verdicts
      /\ \A t \in Txs \ {u} : pc'[t] = pc[t] /\ verdict'[t] = verdict[t]
  BY <1>1, <1>2 DEF DocInv, DocTypes
<1>4. DocTypes'
  <2>1. pc' \in [Txs -> PC] /\ verdict' \in [Txs -> Verdicts \union {"none"}]
    BY <1>1, <1>2 DEF DocInv, DocTypes, PC
  <2> QED
    BY <1>1, <1>3, <2>1 DEF DocInv, DocTypes
<1>5. \A t \in Txs : FirstDocument(t)' = FirstDocument(t) /\ \A n : IsFirst(n, t)' = IsFirst(n, t)
  BY <1>1, SameFirst
<1>6. Created' /\ HasFirst'
  BY <1>1, <1>3, <1>5 DEF DocInv, Created, HasFirst
<1>7. OnlyCreated' /\ HistoryOfCreated'
  BY <1>1, <1>3 DEF DocInv, DocTypes, OnlyCreated, HistoryOfCreated
<1>8. FoundFirst' /\ Listed'
  BY <1>1, <1>3, <1>5 DEF DocInv, FoundFirst, Listed, Recorded
<1>9. Entries'
  <2>1. \A d \in Txs : \A n \in DOMAIN history[d] : history[d][n].tx \in Txs \ {u}
    BY <1>1, EntriesAreLogs DEF DocInv, Entries, Recorded
  <2> QED
    BY <1>1, <1>3, <2>1 DEF DocInv, Entries, Entry
<1>10. Latest'
  BY <1>1 DEF DocInv, Latest
<1> QED
  BY <1>4, <1>6, <1>7, <1>8, <1>9, <1>10 DEF DocInv

LEMMA FindStep ==
  ASSUME DocInv, NEW u \in Txs, FindDocument(u)
  PROVE  DocInv'
<1>1. /\ found' = [found EXCEPT ![u] = FirstDocument(u)] /\ pc' = [pc EXCEPT ![u] = "updating"]
      /\ pc[u] = "finding" /\ UNCHANGED <<docs, verdict>>
  BY DEF FindDocument, At, Goto
<1>2. FirstDocument(u) \in Txs
  BY <1>1, FirstIsCreated
<1>3. /\ pc'[u] = "updating" /\ found'[u] = FirstDocument(u)
      /\ \A t \in Txs \ {u} : pc'[t] = pc[t] /\ found'[t] = found[t]
  BY <1>1 DEF DocInv, DocTypes
<1>4. DocTypes'
  <2>1. pc' \in [Txs -> PC] /\ found' \in [Txs -> Txs \union {NoTx}]
    BY <1>1, <1>2 DEF DocInv, DocTypes, PC
  <2> QED
    BY <1>1, <1>3, <2>1 DEF DocInv, DocTypes, docs, Polled
<1> QED
  BY <1>1, <1>3, <1>4, DocKept DEF DocInv, FoundFirst, Recorded

LEMMA EndStep ==
  ASSUME DocInv, NEW u \in Txs, GetNftId(u) \/ StatusSettled(u) \/ AddRefresh(u) \/ Fails(u)
  PROVE  DocInv'
<1>1. UNCHANGED <<docs, verdict>>
  BY DEF GetNftId, StatusSettled, AddRefresh, Fails
<1>2. PICK label \in {"adding", "done", "failed"} : pc' = [pc EXCEPT ![u] = label]
  BY DEF GetNftId, StatusSettled, AddRefresh, Fails, Goto
<1>3. /\ pc[u] # "idle" /\ (label # "failed" => pc[u] \in Recorded)
      /\ found' \in {found, [found EXCEPT ![u] = NoTx]}
  BY <1>2 DEF GetNftId, StatusSettled, AddRefresh, Fails, Goto, At, Recorded, DocInv, DocTypes
<1>4. /\ pc'[u] = label
      /\ \A t \in Txs \ {u} : pc'[t] = pc[t] /\ found'[t] = found[t]
  BY <1>2, <1>3 DEF DocInv, DocTypes
<1>5. DocTypes'
  <2>1. pc' \in [Txs -> PC] /\ found' \in [Txs -> Txs \union {NoTx}]
    BY <1>2, <1>3 DEF DocInv, DocTypes, PC, Recorded, Ended
  <2> QED
    BY <1>1, <1>3, <1>4, <2>1 DEF DocInv, DocTypes, docs, Polled, Recorded
<1> QED
  BY <1>1, <1>3, <1>4, <1>5, DocKept DEF DocInv, FoundFirst, Recorded

LEMMA AppendIs ==
  ASSUME NEW S, NEW s \in Seq(S), NEW x \in S
  PROVE  /\ Append(s, x) \in Seq(S) /\ Append(s, x) # <<>>
         /\ Len(Append(s, x)) = Len(s) + 1
         /\ DOMAIN s = 1 .. Len(s) /\ DOMAIN Append(s, x) = 1 .. Len(s) + 1
         /\ \A n \in DOMAIN s : Append(s, x)[n] = s[n]
         /\ Append(s, x)[Len(s) + 1] = x
  OBVIOUS

LEMMA UpdateStep ==
  ASSUME DocInv, NEW u \in Txs, UpdateDocument(u)
  PROVE  DocInv'
<1> DEFINE e == Entry(u)
<1>1. /\ pc[u] = "updating"
      /\ UNCHANGED <<earlier, created, kind, verdict>>
  BY DEF UpdateDocument, At
<1>2. PICK d \in Txs : d = found[u] /\ d = FirstDocument(u) /\ pc[d] # "idle"
  BY <1>1, FirstIsCreated DEF DocInv, FoundFirst
<1>3. /\ state' = [state EXCEPT ![d] = e.state]
      /\ history' = [history EXCEPT ![d] = Append(@, e)]
      /\ found' = [found EXCEPT ![u] = NoTx]
      /\ pc' = [pc EXCEPT ![u] = AfterRecord(u)]
  BY <1>2 DEF UpdateDocument, Goto, Entry
<1>4. AfterRecord(u) \in {"asking", "awaiting", "adding"}
  BY DEF AfterRecord
<1>5. e \in Log /\ e.tx = u /\ e.state \in Settled
  <2>1. verdict[u] \in Verdicts
    BY <1>1 DEF DocInv, DocTypes, Polled
  <2>2. StateOf[verdict[u]] \in Settled
    BY <2>1 DEF Settled
  <2> QED
    BY <2>2 DEF Entry, Log
<1>6. /\ pc'[u] \in {"asking", "awaiting", "adding"}
      /\ \A t \in Txs \ {u} : pc'[t] = pc[t] /\ found'[t] = found[t]
      /\ state'[d] = e.state /\ \A t \in Txs \ {d} : state'[t] = state[t]
      /\ \A t \in Txs \ {d} : history'[t] = history[t]
  BY <1>3, <1>4 DEF DocInv, DocTypes
<1>7. /\ history'[d] = Append(history[d], e) /\ history[d] \in Seq(Log)
      /\ history'[d] \in Seq(Log) /\ history'[d] # <<>>
      /\ Len(history'[d]) = Len(history[d]) + 1
      /\ DOMAIN history[d] = 1 .. Len(history[d])
      /\ DOMAIN history'[d] = 1 .. Len(history[d]) + 1
      /\ \A n \in DOMAIN history[d] : history'[d][n] = history[d][n]
      /\ history'[d][Len(history[d]) + 1] = e
  <2>1. history'[d] = Append(history[d], e) /\ history[d] \in Seq(Log)
    BY <1>3 DEF DocInv, DocTypes
  <2> HIDE DEF e
  <2> QED
    BY <1>5, <2>1, AppendIs
<1>8. DocTypes'
  <2>1. pc' \in [Txs -> PC] /\ found' \in [Txs -> Txs \union {NoTx}]
    BY <1>3, <1>4 DEF DocInv, DocTypes, PC, Recorded
  <2>2. state' \in [Txs -> {"none", "NEW"} \union Settled] /\ history' \in [Txs -> Seq(Log)]
    BY <1>3, <1>5, <1>7 DEF DocInv, DocTypes
  <2>3. \A t \in Txs : pc'[t] \in Polled => verdict'[t] \in Verdicts
    BY <1>1, <1>6 DEF DocInv, DocTypes, Polled
  <2> QED
    BY <1>1, <2>1, <2>2, <2>3 DEF DocInv, DocTypes
<1>9. \A t \in Txs : FirstDocument(t)' = FirstDocument(t) /\ \A n : IsFirst(n, t)' = IsFirst(n, t)
  BY <1>1, SameFirst
<1>10. Created' /\ HasFirst'
  BY <1>1, <1>6, <1>9 DEF DocInv, Created, HasFirst
<1>11. OnlyCreated' /\ HistoryOfCreated'
  BY <1>1, <1>2, <1>6 DEF DocInv, DocTypes, OnlyCreated, HistoryOfCreated
<1>12. FoundFirst'
  BY <1>6, <1>9 DEF DocInv, FoundFirst
<1>13. Latest'
  BY <1>6, <1>7 DEF DocInv, Latest
<1>14. Listed'
  <2> SUFFICES ASSUME NEW t \in Txs, pc'[t] \in Recorded
               PROVE  \E n \in DOMAIN history'[FirstDocument(t)] : history'[FirstDocument(t)][n].tx = t
    BY <1>9 DEF Listed
  <2>1. CASE t = u
    BY <1>2, <1>5, <1>7, <2>1
  <2>2. CASE t # u
    <3>1. PICK n \in DOMAIN history[FirstDocument(t)] : history[FirstDocument(t)][n].tx = t
      BY <1>6, <2>2 DEF DocInv, Listed
    <3>2. FirstDocument(t) \in Txs
      BY <1>6, <2>2, FirstIsCreated DEF Recorded
    <3> QED
      BY <1>6, <1>7, <3>1, <3>2
  <2> QED
    BY <2>1, <2>2
<1>15. Entries'
  <2>1. \A c \in Txs : \A n \in DOMAIN history[c] : history[c][n].tx \in Txs \ {u}
    BY <1>1, EntriesAreLogs DEF DocInv, Entries, Recorded
  <2>2. \A c \in Txs : \A n \in DOMAIN history[c] :
          /\ pc'[history[c][n].tx] \in Recorded \union {"failed"}
          /\ history[c][n] = Entry(history[c][n].tx)
          /\ \A m \in DOMAIN history[c] : history[c][m].tx = history[c][n].tx => m = n
    BY <1>6, <2>1 DEF DocInv, Entries
  <2>3. pc'[e.tx] \in Recorded /\ e = Entry(e.tx)
    BY <1>5, <1>6 DEF Recorded
  <2> HIDE DEF e
  <2>4. ASSUME NEW c \in Txs, NEW n \in DOMAIN history'[c]
        PROVE  /\ pc'[history'[c][n].tx] \in Recorded \union {"failed"}
               /\ history'[c][n] = Entry(history'[c][n].tx)
               /\ \A m \in DOMAIN history'[c] : history'[c][m].tx = history'[c][n].tx => m = n
    <3>1. CASE c # d
      BY <1>6, <2>2, <3>1
    <3>2. CASE c = d /\ n \in DOMAIN history[d]
      <4>1. history'[c][n] = history[d][n] /\ history[d][n].tx \in Txs \ {u}
        BY <1>7, <2>1, <3>2
      <4>2. ASSUME NEW m \in DOMAIN history'[c], history'[c][m].tx = history'[c][n].tx
            PROVE  m = n
        <5>1. m # Len(history[d]) + 1
          BY <1>5, <1>7, <3>2, <4>1, <4>2
        <5>2. m \in DOMAIN history[d] /\ history'[c][m] = history[d][m]
          BY <1>7, <3>2, <5>1
        <5> QED
          BY <2>2, <3>2, <4>1, <4>2, <5>2
      <4> QED
        BY <2>2, <3>2, <4>1, <4>2
    <3>3. CASE c = d /\ n = Len(history[d]) + 1
      BY <1>5, <1>7, <2>1, <2>3, <3>3
    <3> QED
      BY <1>7, <3>1, <3>2, <3>3
  <2> QED
    BY <1>1, <2>4 DEF Entries, Entry
<1> QED
  BY <1>8, <1>10, <1>11, <1>12, <1>13, <1>14, <1>15 DEF DocInv

LEMMA DocStep == DocInv /\ [Next]_vars => DocInv'
<1> SUFFICES ASSUME DocInv, [Next]_vars PROVE DocInv'
  OBVIOUS
<1>1. CASE UNCHANGED <<docs, verdict, found, pc>>
  <2>1. DocTypes'
    BY <1>1 DEF DocInv, DocTypes, docs
  <2> QED
    BY <1>1, <2>1, DocKept DEF DocInv, FoundFirst
<1>2. CASE WriteAny \/ \E t \in Txs : Write(t)
  BY <1>1, <1>2 DEF WriteAny, Write
<1>3. ASSUME NEW j \in jobs, StartRefresh(j) \/ EndRefresh(j)
      PROVE  UNCHANGED <<docs, verdict, found, pc>>
  BY <1>3 DEF StartRefresh, EndRefresh
<1>4. CASE UNCHANGED vars
  BY <1>1, <1>4 DEF vars
<1> QED
  BY <1>1, <1>2, <1>3, <1>4, CreateStep, PollStep, FindStep, UpdateStep, EndStep
     DEF Next, Step, Work

LEMMA DocInvariance == Spec => []DocInv
  BY InitDoc, DocStep, PTL DEF Spec

(* updateTransactionHistory: whoever looks up a request id is told the     *)
(* verdict recorded last, and every verdict once, however many             *)
(* transactions share the id and however their confirmations interleave.   *)
THEOREM Kept == Spec => []VerdictsAreKept
<1>1. DocInv => VerdictsAreKept
  <2> SUFFICES ASSUME DocInv, NEW t \in Txs, pc[t] \in Recorded
               PROVE  LET log == history[FirstDocument(t)] IN
                        ListedOnce(t, log) /\ state[FirstDocument(t)] = log[Len(log)].state
    BY DEF VerdictsAreKept
  <2>1. PICK d \in Txs : d = FirstDocument(t)
    BY FirstIsCreated DEF Recorded
  <2>2. PICK n \in DOMAIN history[d] : history[d][n].tx = t
    BY <2>1 DEF DocInv, Listed
  <2>3. /\ history[d][n] = Entry(t)
        /\ \A m \in DOMAIN history[d] : history[d][m].tx = t => m = n
    BY <2>2 DEF DocInv, Entries
  <2>4. ListedOnce(t, history[d])
    BY <2>2, <2>3 DEF ListedOnce, Entry
  <2>5. history[d] # <<>>
    BY <2>2 DEF DocInv, DocTypes
  <2> QED
    BY <2>1, <2>4, <2>5 DEF DocInv, Latest
<1> QED
  BY <1>1, DocInvariance, PTL
-----------------------------------------------------------------------------
(* How often a refresh is still to be added: at least once, until it is.   *)
Adding == \A t \in Txs : pc[t] \in {"asking", "awaiting", "adding"} => left[t] >= 1
Counts ==
  /\ left \in [Txs -> 0 .. Adds.task] /\ Adding
  /\ owed \subseteq Txs /\ sent \subseteq Txs
  /\ nft \in Nat /\ written \in [Txs -> Nat]

LEMMA CountsStep == DocInv /\ Counts /\ [Next]_vars => Counts'
<1> SUFFICES ASSUME DocInv, Counts, [Next]_vars PROVE Counts'
  OBVIOUS
<1> USE DEF Counts, Adding
<1>0. pc \in [Txs -> PC] /\ Adds.task = 3
  BY DEF DocInv, DocTypes, Adds
<1>1. ASSUME NEW t \in Txs, CreateDocument(t) \/ Poll(t) \/ FindDocument(t) PROVE Counts'
  BY <1>0, <1>1 DEF CreateDocument, Poll, FindDocument, Goto, queue, item
<1>2. ASSUME NEW t \in Txs, UpdateDocument(t) PROVE Counts'
  BY <1>0, <1>2 DEF UpdateDocument, Goto, queue, item
<1>3. ASSUME NEW t \in Txs, GetNftId(t) \/ StatusSettled(t) PROVE Counts'
  BY <1>0, <1>3 DEF GetNftId, StatusSettled, At, Goto, queue, item
<1>4. ASSUME NEW t \in Txs, AddRefresh(t) PROVE Counts'
  BY <1>0, <1>4 DEF AddRefresh, At, Goto, item
<1>5. ASSUME NEW t \in Txs, Fails(t) PROVE Counts'
  BY <1>0, <1>5 DEF Fails, Goto, queue, item
<1>6. CASE WriteAny \/ \E t \in Txs : Write(t)
  BY <1>6 DEF WriteAny, Write, queue
<1>7. ASSUME NEW j \in jobs, StartRefresh(j) \/ EndRefresh(j) PROVE Counts'
  BY <1>7 DEF StartRefresh, EndRefresh, item
<1>8. CASE UNCHANGED vars
  BY <1>8 DEF vars, queue, item
<1> QED
  BY <1>1, <1>2, <1>3, <1>4, <1>5, <1>6, <1>7, <1>8 DEF Next, Step, Work

(* Documents, queue and cache have their types: the repeated adds are      *)
(* counted down to none, and never further.                                *)
THEOREM Typing == Spec => []TypeOK
<1>1. Init => CacheInv /\ Counts
  BY DEF Init, CacheInv, OneRefresh, CopiesAreOlder, Counts, Adding, Adds
<1>2. CacheInv /\ DocInv /\ Counts /\ [Next]_vars => (CacheInv /\ DocInv /\ Counts)'
  BY CacheStep, DocStep, CountsStep
<1>3. CacheInv /\ DocInv /\ Counts => TypeOK
  <2> SUFFICES ASSUME CacheInv, DocInv, Counts PROVE TypeOK
    OBVIOUS
  <2>1. \A j \in jobs : j.no \in Nat /\ j.read \in Nat
    BY DEF CacheInv, OneRefresh, Jobs
  <2>2. cached \in Nat
    BY DEF CacheInv, CopiesAreOlder
  <2> QED
    BY <2>1, <2>2 DEF TypeOK, CacheInv, DocInv, DocTypes, Counts
<1> QED
  BY <1>1, <1>2, <1>3, InitDoc, PTL DEF Spec
=============================================================================
