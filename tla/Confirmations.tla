---------------------------- MODULE Confirmations ----------------------------
(***************************************************************************)
(* What the transactions of one NFT leave behind: their documents          *)
(* (AvnTransactionService, updateTransactionHistory), and the cached copy  *)
(* of the NFT, which a worker refreshes when the gateway asks for it at    *)
(* the end of each confirmation (addUpdateCachedItemTask).  A confirmation *)
(* sends the NFT service a status with every poll, waits for none of these *)
(* and at most for one sent after the polling; every replica writes every  *)
(* one it is sent, as late as it likes, over what it finds.                *)
(*                                                                         *)
(* The client of the network is left to AvnApiLock: a lease lapses before  *)
(* the polling ends, so that confirmations of one NFT may overlap.         *)
(***************************************************************************)
EXTENDS Sequences, FiniteSetsExt, JobQueue

CONSTANTS
  Txs,  \* transactions of the NFT
  NoTx  \* no transaction

ASSUME ConfirmationsAssumption ==
  /\ IsFiniteSet(Txs)
  /\ NoTx \notin Txs

VARIABLES
  earlier,     \* what the NFT was before: "draft", "minted" or "listed"
  created,     \* the transaction documents, in the order of their creation
  kind,        \* per document: what it asks for
  state,       \* per document: its state
  history,     \* per document: the verdicts it lists, each with its transaction
  verdict,     \* per transaction: what its confirmation polled last
  found,       \* per transaction: the document its confirmation found
  left,        \* per transaction: how often its refresh is still to be added
  pc,          \* per transaction: where it is
  sent,        \* transactions whose last status is sent, and not written by any replica
  nft,         \* the version of the NFT document: each write makes a new one
  written,     \* per transaction: the version its last status made first, or 0
  jobs,        \* refresh jobs in the queue
  cached,      \* the version the cached copy was read from
  owed         \* history: confirmations that waited for a write and asked for a refresh
               \* while none was running, which they have not had yet

docs == <<earlier, created, kind, state, history>>
item == <<sent, nft, written>>
queue == <<jobs, cached, owed>>
vars == <<docs, verdict, found, left, pc, item, queue>>

Kinds == {"mint", "list", "cancel"}
Verdicts == {"processed", "rejected", "pending"}
\* The document's state for a verdict; a transaction still pending has timed out.
StateOf == [processed |-> "PROCESSING_COMPLETE", rejected |-> "AVN_REJECTED",
            pending |-> "PROCESSING_FAILED"]
Settled == {StateOf[v] : v \in Verdicts}
Log == [tx: Txs, state: Settled]
Recorded == {"asking", "awaiting", "adding", "done"}
Ended == {"done", "failed"}
PC == {"idle", "sending", "finding", "updating"} \union Recorded \union Ended

Init ==
  /\ earlier \in {"draft", "minted", "listed"}
  /\ created = <<>>
  /\ kind = [t \in Txs |-> "none"]
  /\ state = [t \in Txs |-> "none"]
  /\ history = [t \in Txs |-> <<>>]
  /\ verdict = [t \in Txs |-> "none"]
  /\ found = [t \in Txs |-> NoTx]
  /\ left = [t \in Txs |-> 0]
  /\ pc = [t \in Txs |-> "idle"]
  /\ sent = {}
  /\ nft = 0
  /\ written = [t \in Txs |-> 0]
  /\ jobs = {}
  /\ cached = 0
  /\ owed = {}

At(t, label) == pc[t] = label
Goto(t, label) == pc' = [pc EXCEPT ![t] = label]

-----------------------------------------------------------------------------
(* The transaction and its document *)

Minted ==
  \/ earlier = "minted"
  \/ \E u \in Txs : kind[u] = "mint" /\ verdict[u] = "processed"

\* A mint can be asked for at any time, whatever became of others.  A listing is for a
\* minted NFT, a cancellation for one on sale; their checks are made too early to exclude
\* a second one.
Admitted(k) ==
  \/ k = "mint"
  \/ k = "list" /\ Minted
  \/ k = "cancel" /\ earlier = "listed"

\* A new document is created, whether or not there is one with that request id.
CreateDocument(t) ==
  /\ At(t, "idle")
  /\ \E k \in Kinds :
       /\ Admitted(k)
       /\ kind' = [kind EXCEPT ![t] = k]
  /\ created' = Append(created, t)
  /\ state' = [state EXCEPT ![t] = "NEW"]
  /\ Goto(t, "sending")
  /\ UNCHANGED <<earlier, history, verdict, found, left, item, queue>>

\* The polling ends with a verdict or without; what is sent meanwhile, a status for
\* every poll, nobody waits for (WriteAny).
Poll(t) ==
  /\ At(t, "sending")
  /\ \E v \in Verdicts : verdict' = [verdict EXCEPT ![t] = v]
  /\ Goto(t, "finding")
  /\ UNCHANGED <<docs, found, left, item, queue>>

-----------------------------------------------------------------------------
(* updateTransactionHistory *)

\* Request ids are made of the kind and the NFT or the auction, which is a new one for
\* every listing.
SameRequest(t) == {u \in Txs : u = t \/ (kind[u] = kind[t] /\ kind[t] # "list")}
\* Documents are found by request id: the first that was created.
FirstDocument(t) == created[Min({n \in DOMAIN created : created[n] \in SameRequest(t)})]

FindDocument(t) ==
  /\ At(t, "finding")
  /\ found' = [found EXCEPT ![t] = FirstDocument(t)]
  /\ Goto(t, "updating")
  /\ UNCHANGED <<docs, verdict, left, item, queue>>

\* What remains to be done: the id of a minted NFT is asked for, a listing is
\* confirmed and a mint without a verdict is undone.
AfterRecord(t) ==
  CASE kind[t] = "mint" /\ verdict[t] = "processed" -> "asking"
    [] <<kind[t], verdict[t]>> \in {<<"list", "processed">>, <<"mint", "pending">>} -> "awaiting"
    [] OTHER -> "adding"
Settles(t) == AfterRecord(t) = "awaiting"

\* Mutant: the history is set, not pushed to.
UpdateSettingHistory(t) ==
  /\ At(t, "updating")
  /\ state' = [state EXCEPT ![found[t]] = StateOf[verdict[t]]]
  /\ history' = [history EXCEPT ![found[t]] = <<[tx |-> t, state |-> StateOf[verdict[t]]]>>]
  /\ sent' = IF Settles(t) THEN sent \union {t} ELSE sent
  /\ left' = [left EXCEPT ![t] = Adds.task]
  /\ found' = [found EXCEPT ![t] = NoTx]
  /\ Goto(t, AfterRecord(t))
  /\ UNCHANGED <<earlier, created, kind, verdict, nft, written, queue>>

\* Mutant: nobody awaits that the NFT service has settled the status.
UpdateUnawaited(t) ==
  /\ At(t, "updating")
  /\ state' = [state EXCEPT ![found[t]] = StateOf[verdict[t]]]
  /\ history' = [history EXCEPT ![found[t]] = Append(@, [tx |-> t, state |-> StateOf[verdict[t]]])]
  /\ sent' = IF Settles(t) THEN sent \union {t} ELSE sent
  /\ left' = [left EXCEPT ![t] = Adds.task]
  /\ found' = [found EXCEPT ![t] = NoTx]
  /\ Goto(t, IF Settles(t) THEN "adding" ELSE AfterRecord(t))
  /\ UNCHANGED <<earlier, created, kind, verdict, nft, written, queue>>

\* One update sets the state and pushes to the history; the confirmation then goes
\* on to its next await.
UpdateDocument(t) ==
  /\ At(t, "updating")
  /\ state' = [state EXCEPT ![found[t]] = StateOf[verdict[t]]]
  /\ history' = [history EXCEPT ![found[t]] = Append(@, [tx |-> t, state |-> StateOf[verdict[t]]])]
  /\ sent' = IF Settles(t) THEN sent \union {t} ELSE sent
  /\ left' = [left EXCEPT ![t] = Adds.task]
  /\ found' = [found EXCEPT ![t] = NoTx]
  /\ Goto(t, AfterRecord(t))
  /\ UNCHANGED <<earlier, created, kind, verdict, nft, written, queue>>

-----------------------------------------------------------------------------
(* The rest of the confirmation *)

\* The network knows the NFT's id, which is sent on without waiting.
GetNftId(t) ==
  /\ At(t, "asking")
  /\ Goto(t, "adding")
  /\ UNCHANGED <<docs, verdict, found, left, item, queue>>

\* A replica of the NFT service has written the status and answered; others may not
\* have written it yet.
StatusSettled(t) ==
  /\ At(t, "awaiting")
  /\ t \notin sent
  /\ Goto(t, "adding")
  /\ UNCHANGED <<docs, verdict, found, left, item, queue>>

Refresh == [id |-> "updateCachedItem", no |-> Cardinality(jobs), active |-> FALSE, read |-> 0]

\* Mutant: the refresh is added once more than often enough.
AddRefreshOnceMore(t) ==
  /\ At(t, "adding")
  /\ jobs' = Added(jobs, Refresh)
  /\ owed' = IF Settles(t) /\ Active(jobs, Refresh.id) = {} THEN owed \union {t} ELSE owed
  /\ left' = [left EXCEPT ![t] = @ - 1]
  /\ Goto(t, IF left[t] = 0 THEN "done" ELSE "adding")
  /\ UNCHANGED <<docs, verdict, found, item, cached>>

\* addUpdateCachedItemTask, one add after the other; then the client is released.
AddRefresh(t) ==
  /\ At(t, "adding")
  /\ jobs' = Added(jobs, Refresh)
  /\ owed' = IF Settles(t) /\ Active(jobs, Refresh.id) = {} THEN owed \union {t} ELSE owed
  /\ left' = [left EXCEPT ![t] = @ - 1]
  /\ Goto(t, IF left[t] = 1 THEN "done" ELSE "adding")
  /\ UNCHANGED <<docs, verdict, found, item, cached>>

\* The transaction cannot be sent, a call of its confirmation throws, the id is not
\* found or the process dies.
Fails(t) ==
  /\ pc[t] \notin Ended \union {"idle"}
  /\ Goto(t, "failed")
  /\ found' = [found EXCEPT ![t] = NoTx]
  /\ left' = [left EXCEPT ![t] = 0]
  /\ UNCHANGED <<docs, verdict, item, queue>>

-----------------------------------------------------------------------------
(* The NFT service and the worker *)

\* The first replica that writes a status somebody waits for; none does if no replica
\* hears it.
Write(t) ==
  /\ t \in sent
  /\ sent' = sent \ {t}
  /\ nft' = nft + 1
  /\ written' = [written EXCEPT ![t] = nft + 1]
  /\ UNCHANGED <<docs, verdict, found, left, pc, queue>>

\* Any other write, at any time: a status sent at some poll, or one that was waited for,
\* of this confirmation or another, by a replica that is late; the id of a minted NFT;
\* what else the services write.  Writes that no copy comes between count as one.
WriteAny ==
  /\ nft \in {cached} \union {j.read : j \in jobs}
  /\ nft' = nft + 1
  /\ UNCHANGED <<docs, verdict, found, left, pc, sent, written, queue>>

\* The worker reads the NFT, and later writes the cached copy.
StartRefresh(j) ==
  /\ ~j.active
  /\ jobs' = (jobs \ {j}) \union {[j EXCEPT !.active = TRUE, !.read = nft]}
  /\ UNCHANGED <<docs, verdict, found, left, pc, item, cached, owed>>

EndRefresh(j) ==
  /\ j.active
  /\ cached' = j.read
  /\ jobs' = jobs \ {j}
  /\ owed' = {t \in owed : written[t] = 0 \/ written[t] > j.read}
  /\ UNCHANGED <<docs, verdict, found, left, pc, item>>

Step(t) ==
  \/ Poll(t) \/ FindDocument(t) \/ UpdateDocument(t)
  \/ GetNftId(t) \/ StatusSettled(t) \/ AddRefresh(t)

Work == \E j \in jobs : StartRefresh(j) \/ EndRefresh(j)

Next ==
  \/ \E t \in Txs : CreateDocument(t) \/ Step(t) \/ Fails(t)
  \/ WriteAny \/ \E t \in Txs : Write(t)
  \/ Work

Spec == Init /\ [][Next]_vars

\* A living confirmation goes on and the worker does its jobs; nobody has to ask for
\* a transaction, and messages may wait.
FairSpec == Spec /\ (\A t \in Txs : WF_vars(Step(t))) /\ WF_vars(Work)

-----------------------------------------------------------------------------
TypeOK ==
  /\ earlier \in {"draft", "minted", "listed"}
  /\ created \in Seq(Txs)
  /\ kind \in [Txs -> Kinds \union {"none"}]
  /\ state \in [Txs -> {"none", "NEW"} \union Settled]
  /\ history \in [Txs -> Seq(Log)]
  /\ verdict \in [Txs -> Verdicts \union {"none"}]
  /\ found \in [Txs -> Txs \union {NoTx}]
  /\ left \in [Txs -> 0 .. Adds.task]
  /\ pc \in [Txs -> PC]
  /\ sent \subseteq Txs
  /\ nft \in Nat
  /\ written \in [Txs -> Nat]
  /\ cached \in Nat
  /\ owed \subseteq Txs
  /\ \A j \in jobs : j.no \in Nat /\ j.read \in Nat

\* Whoever asks for a transaction by its request id is told the verdict recorded last,
\* and every verdict, once: also when a transaction is made again under the same
\* request id, while the confirmation of the first one is still under way.
ListedOnce(t, log) ==
  \E n \in DOMAIN log :
    /\ log[n] = [tx |-> t, state |-> StateOf[verdict[t]]]
    /\ \A m \in DOMAIN log : log[m].tx = t => m = n
VerdictsAreKept ==
  \A t \in Txs : pc[t] \in Recorded =>
    LET log == history[FirstDocument(t)] IN
      ListedOnce(t, log) /\ state[FirstDocument(t)] = log[Len(log)].state

\* A refresh never brings a copy of an older version of the NFT back: jobs with the
\* NFT's id do not run side by side, whoever writes the document meanwhile.
CacheNeverGoesBack == [][cached <= cached']_vars

\* A confirmation that waited for a replica to write its status gets a cached copy that
\* was read after that write, if the refresh it asked for was not dropped in favour of
\* one already running.  The copy need not show that status: by then a replica that is
\* late may have written an older one over it.
CachedAfterTheWrite == []<>(owed = {})
=============================================================================
