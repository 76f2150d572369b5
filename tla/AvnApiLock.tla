----------------------------- MODULE AvnApiLock -----------------------------
(***************************************************************************)
(* The AvN API client of one process is a singleton whose signer is        *)
(* swapped for each operation (mint, list, cancel a listing).  A Redlock   *)
(* key shared by all pods serialises the operations: an operation takes    *)
(* the key, installs its user as the signer, sends its transaction and     *)
(* polls for its confirmation in the background; the last thing the        *)
(* background part does is release the key.                                *)
(*                                                                         *)
(* One step is what runs between two awaits.  The only time that is        *)
(* counted is polling time: a key can lapse while its holder lives only    *)
(* after LeaseLoops polls of that holder.                                  *)
(***************************************************************************)
EXTENDS Naturals

CONSTANTS
  Pods,          \* processes that embed the API client
  Ops,           \* operations; each acts for a user of its own
  Unawaited,     \* operations whose caller does not await them (mints)
  NoOp,          \* no operation
  NoPod,         \* not handled by a pod yet
  PollingLoops,  \* polls before a transaction is given up (pollingLoops)
  LeaseLoops,    \* polls that fit into the key's time to live
  MaxRetry       \* further attempts after a key found taken (maxRetry)

ASSUME LockAssumption ==
  /\ Unawaited \subseteq Ops
  /\ NoOp \notin Ops
  /\ NoPod \notin Pods
  /\ PollingLoops \in Nat \ {0}
  /\ LeaseLoops \in Nat \ {0}
  /\ MaxRetry \in Nat

VARIABLES
  redisKey,        \* whose value the key 'avn-api-instance' holds in Redis
  currentRedLock,  \* per pod: the lock object kept by the setup service
  currentAvnUser,  \* per pod: the user the setup service expects to sign
  signer,          \* per pod: the signer set in the API client
  isInitialised,   \* per pod: the client has been initialised
  pc,              \* per operation: where it is
  podOf,           \* per operation: the pod that runs it
  retries,         \* per operation: lock attempts that found the key taken
  polls,           \* per operation: polls made
  signedBy         \* per operation: whose key signed its transaction

podVars == <<currentRedLock, currentAvnUser, signer, isInitialised>>
opVars == <<podOf, retries, polls, signedBy>>
vars == <<redisKey, podVars, pc, opVars>>

\* An operation that has been given the key and has not finished.
Holding == {"granted", "initialising", "signing", "polling", "confirming", "unlocking"}
\* The part of it in which the operation uses the API client.
UsingApi == Holding \ {"granted"}
Ended == {"done", "failed", "dead"}
PC == {"idle", "locking"} \union Holding \union Ended

Init ==
  /\ redisKey = NoOp
  /\ currentRedLock = [p \in Pods |-> NoOp]
  /\ currentAvnUser = [p \in Pods |-> NoOp]
  /\ signer = [p \in Pods |-> NoOp]
  /\ isInitialised = [p \in Pods |-> FALSE]
  /\ pc = [o \in Ops |-> "idle"]
  /\ podOf = [o \in Ops |-> NoPod]
  /\ retries = [o \in Ops |-> 0]
  /\ polls = [o \in Ops |-> 0]
  /\ signedBy = [o \in Ops |-> NoOp]

Goto(o, label) == pc' = [pc EXCEPT ![o] = label]

-----------------------------------------------------------------------------
(* Failures *)

\* A pod dies: what it ran is gone, and so is the state of its singletons;
\* the key in Redis stays.
CrashEffect(p) ==
  /\ pc' = [o \in Ops |-> IF podOf[o] = p /\ pc[o] \notin Ended THEN "dead" ELSE pc[o]]
  /\ currentRedLock' = [currentRedLock EXCEPT ![p] = NoOp]
  /\ currentAvnUser' = [currentAvnUser EXCEPT ![p] = NoOp]
  /\ signer' = [signer EXCEPT ![p] = NoOp]
  /\ isInitialised' = [isInitialised EXCEPT ![p] = FALSE]
  /\ UNCHANGED opVars

\* A crash, or an unhandled rejection in a background confirmation (a failed
\* poll, database write, message or job), which ends a Node 18 process.
Crash(p) ==
  /\ \E o \in Ops : podOf[o] = p /\ pc[o] \notin Ended
  /\ CrashEffect(p)
  /\ UNCHANGED redisKey

\* The operation throws.  Its caller answers with an error, except that nobody
\* awaits a mint: its rejection ends the process.
Rejects(o) ==
  IF o \in Unawaited
  THEN CrashEffect(podOf[o])
  ELSE Goto(o, "failed") /\ UNCHANGED <<podVars, opVars>>

\* Mutant: the key is deleted without comparing its value.
ReleasedUnchecked(l) == NoOp

\* release() of the lock object l deletes the key only where the key still
\* holds l's value, and fails otherwise.
Released(l) == IF redisKey = l THEN NoOp ELSE redisKey

-----------------------------------------------------------------------------
(* Taking the key *)

\* Mutant: the expected user and the signer are set before the key is taken.
EnterSettingSigner(o, p) ==
  /\ pc[o] = "idle"
  /\ podOf' = [podOf EXCEPT ![o] = p]
  /\ currentAvnUser' = [currentAvnUser EXCEPT ![p] = o]
  /\ signer' = [signer EXCEPT ![p] = o]
  /\ Goto(o, "locking")
  /\ UNCHANGED <<redisKey, currentRedLock, isInitialised, retries, polls, signedBy>>

Enter(o, p) ==
  /\ pc[o] = "idle"
  /\ podOf' = [podOf EXCEPT ![o] = p]
  /\ Goto(o, "locking")
  /\ UNCHANGED <<redisKey, podVars, retries, polls, signedBy>>

\* Mutant: the key is taken over from whoever has it.
GrantTaken(o) ==
  /\ pc[o] = "locking"
  /\ redisKey' = o
  /\ Goto(o, "granted")
  /\ UNCHANGED <<podVars, opVars>>

Grant(o) ==
  /\ pc[o] = "locking"
  /\ redisKey = NoOp
  /\ redisKey' = o
  /\ Goto(o, "granted")
  /\ UNCHANGED <<podVars, opVars>>

\* Mutant: one attempt too many.
RetryOnceMore(o) ==
  /\ pc[o] = "locking"
  /\ redisKey # NoOp
  /\ retries[o] <= MaxRetry
  /\ retries' = [retries EXCEPT ![o] = @ + 1]
  /\ UNCHANGED <<redisKey, podVars, pc, podOf, polls, signedBy>>

\* ResourceLockedError with attempts left: wait and try again.
Retry(o) ==
  /\ pc[o] = "locking"
  /\ redisKey # NoOp
  /\ retries[o] < MaxRetry
  /\ retries' = [retries EXCEPT ![o] = @ + 1]
  /\ UNCHANGED <<redisKey, podVars, pc, podOf, polls, signedBy>>

\* No attempts left, or any other error of the lock client.
GiveUp(o) ==
  /\ pc[o] = "locking"
  /\ Rejects(o)
  /\ UNCHANGED redisKey

-----------------------------------------------------------------------------
(* Installing the signer and sending *)

\* The continuation of lockAvnApiInstance: lock object, user and signer are set
\* in one go; a client not yet initialised is initialised next.
Install(o) ==
  LET p == podOf[o] IN
  /\ pc[o] = "granted"
  /\ currentRedLock' = [currentRedLock EXCEPT ![p] = o]
  /\ currentAvnUser' = [currentAvnUser EXCEPT ![p] = o]
  /\ signer' = [signer EXCEPT ![p] = o]
  /\ Goto(o, IF isInitialised[p] THEN "signing" ELSE "initialising")
  /\ UNCHANGED <<redisKey, isInitialised, opVars>>

Initialise(o) ==
  /\ pc[o] = "initialising"
  /\ isInitialised' = [isInitialised EXCEPT ![podOf[o]] = TRUE]
  /\ Goto(o, "signing")
  /\ UNCHANGED <<redisKey, currentRedLock, currentAvnUser, signer, opVars>>

\* init() or setSigner() throws: the key is released, then the operation throws.
SetupFails(o) ==
  /\ pc[o] \in {"initialising", "signing"}
  /\ redisKey' = Released(currentRedLock[podOf[o]])
  /\ Rejects(o)

\* Mutant: the key is released as soon as the transaction is sent.
SendAndRelease(o) ==
  LET p == podOf[o] IN
  /\ pc[o] = "signing"
  /\ signer[p] = currentAvnUser[p]
  /\ signedBy' = [signedBy EXCEPT ![o] = currentAvnUser[p]]
  /\ redisKey' = Released(currentRedLock[p])
  /\ Goto(o, "polling")
  /\ UNCHANGED <<podVars, podOf, retries, polls>>

\* send.* calls back remoteSign, which checks that the client's signer is the
\* current user and lets the vault sign as the current user.
Send(o) ==
  LET p == podOf[o] IN
  /\ pc[o] = "signing"
  /\ signer[p] = currentAvnUser[p]
  /\ signedBy' = [signedBy EXCEPT ![o] = currentAvnUser[p]]
  /\ Goto(o, "polling")
  /\ UNCHANGED <<redisKey, podVars, podOf, retries, polls>>

\* send.* throws (or remoteSign refuses): the key is not released.
SendFails(o) ==
  /\ pc[o] = "signing"
  /\ Rejects(o)
  /\ UNCHANGED redisKey

-----------------------------------------------------------------------------
(* Confirming in the background *)

\* Mutant: nothing after the loop runs when the loops are used up.
PollUntilCommitted(o) ==
  /\ pc[o] = "polling"
  /\ polls[o] < PollingLoops
  /\ polls' = [polls EXCEPT ![o] = @ + 1]
  /\ \/ Goto(o, "confirming")
     \/ UNCHANGED pc
  /\ UNCHANGED <<redisKey, podVars, podOf, retries, signedBy>>

\* One poll; the loop ends when the transaction is committed or the loops are used up.
Poll(o) ==
  /\ pc[o] = "polling"
  /\ polls' = [polls EXCEPT ![o] = @ + 1]
  /\ \/ Goto(o, "confirming")
     \/ polls[o] + 1 < PollingLoops /\ UNCHANGED pc
  /\ UNCHANGED <<redisKey, podVars, podOf, retries, signedBy>>

\* The database writes, messages and jobs that follow the loop.
Confirm(o) ==
  /\ pc[o] = "confirming"
  /\ Goto(o, "unlocking")
  /\ UNCHANGED <<redisKey, podVars, opVars>>

\* Mutant: the background part ends without releasing the key.
UnlockForgotten(o) ==
  /\ pc[o] = "unlocking"
  /\ Goto(o, "done")
  /\ UNCHANGED <<redisKey, podVars, opVars>>

\* unlockAvnApiInstance releases the lock object the pod keeps at that moment,
\* whoever took it; a release that fails is an unhandled rejection.
Unlock(o) ==
  LET lock == currentRedLock[podOf[o]] IN
  /\ pc[o] = "unlocking"
  /\ redisKey' = Released(lock)
  /\ IF redisKey = lock
     THEN Goto(o, "done") /\ UNCHANGED <<podVars, opVars>>
     ELSE CrashEffect(podOf[o])

-----------------------------------------------------------------------------
(* The key's time to live *)

\* Mutant: the key is set without a time to live.
NeverLapses(o) == FALSE

MayLapse(o) == pc[o] \notin Holding \/ polls[o] >= LeaseLoops

Lapse ==
  /\ redisKey # NoOp
  /\ MayLapse(redisKey)
  /\ redisKey' = NoOp
  /\ UNCHANGED <<podVars, pc, opVars>>

Step(o) ==
  \/ Grant(o) \/ Retry(o) \/ GiveUp(o)
  \/ Install(o) \/ Initialise(o) \/ SetupFails(o)
  \/ Send(o) \/ SendFails(o)
  \/ Poll(o) \/ Confirm(o) \/ Unlock(o)

Next ==
  \/ \E o \in Ops : Step(o) \/ \E p \in Pods : Enter(o, p)
  \/ \E p \in Pods : Crash(p)
  \/ Lapse

Spec == Init /\ [][Next]_vars

\* A live process runs its continuations and timers; a key left behind lapses.
\* Nothing makes a request arrive, a call fail or a pod crash.
Fairness ==
  /\ \A o \in Ops : WF_vars(Step(o))
  /\ WF_vars(Lapse)

FairSpec == Spec /\ Fairness

-----------------------------------------------------------------------------
TypeOK ==
  /\ redisKey \in Ops \union {NoOp}
  /\ currentRedLock \in [Pods -> Ops \union {NoOp}]
  /\ currentAvnUser \in [Pods -> Ops \union {NoOp}]
  /\ signer \in [Pods -> Ops \union {NoOp}]
  /\ isInitialised \in [Pods -> BOOLEAN]
  /\ pc \in [Ops -> PC]
  /\ podOf \in [Ops -> Pods \union {NoPod}]
  /\ retries \in [Ops -> 0..MaxRetry]
  /\ polls \in [Ops -> 0..PollingLoops]
  /\ signedBy \in [Ops -> Ops \union {NoOp}]

\* Some operation has polled for as long as the key lives.
Overrun == \E o \in Ops : polls[o] >= LeaseLoops

\* "Consider the avnApi instance above to be locked until the asynchronous
\* 'getConfirmation...' operation is completed": two operations never use the
\* API client at the same time, on one pod or on two.
ApiExclusive == \A o, q \in Ops : pc[o] \in UsingApi /\ pc[q] \in UsingApi => o = q

\* The client is exclusive for as long as nobody has polled past the lease,
\* whatever failed, crashed or was left locked on the way there.
ExclusiveWithinLease == ~Overrun => ApiExclusive

\* "Check if the signerAddress is who we expect it to be before signing": no
\* transaction is signed with the key of another operation's user.
SignedByOwner == \A o \in Ops : signedBy[o] \in {NoOp, o}

\* The same, for as long as nobody has polled past the lease.
SignedByOwnerWithinLease == ~Overrun => SignedByOwner

\* An operation that ran to its end left no key behind, so the next one need
\* not wait for the time to live, even if leases lapsed and keys were retaken.
NoKeyLeftBehind == \A o \in Ops : redisKey = o => pc[o] # "done"

\* A key that may not lapse is only ever freed by a step of the pod it was
\* granted to: no pod can release a lock taken through another pod.
FreedByItsPod ==
  [][\A o \in Ops :
       redisKey = o /\ redisKey' # o /\ ~MayLapse(o)
       => \E q \in Ops : podOf[q] = podOf[o] /\ pc'[q] # pc[q]]_vars

\* Every operation that asked for the client comes to an end: however requests
\* overlap, the system returns to a state in which nobody waits, polls or holds.
EveryOpEnds == []<>(\A o \in Ops : pc[o] \in Ended \union {"idle"})

\* No key is held for ever, by a crashed pod, a failed send or a lost release:
\* the key is free again and again.
KeyIsFreed == []<>(redisKey = NoOp)

\* Until somebody polls past the lease the protocol implements a plain mutex on
\* the client; with a lease that outlives the polling, for good.
Mutex == INSTANCE ApiMutex WITH
  users <- IF Overrun THEN {} ELSE {o \in Ops : pc[o] \in UsingApi}
MutexSpec == Mutex!Spec
=============================================================================
