------------------------- MODULE AvnApiLock_proofs -------------------------
(***************************************************************************)
(* What holds of the lock on the AvN API client for any number of pods,    *)
(* operations, polls and retries, and any proportion of lease and polling. *)
(***************************************************************************)
EXTENDS AvnApiLock, TLAPS

USE LockAssumption

-----------------------------------------------------------------------------
(* The inductive invariant, in parts. *)

\* An operation that has started runs on a pod; before its transaction is sent
\* it has not polled, and while it polls it has loops left.
Placed ==
  \A o \in Ops :
    /\ pc[o] # "idle" => podOf[o] \in Pods
    /\ pc[o] \in {"idle", "locking", "granted", "initialising", "signing"} => polls[o] = 0
    /\ pc[o] = "polling" => polls[o] < PollingLoops

\* A key that has just been granted is still there: it cannot have lapsed, and
\* no pod has the lock object that could release it.
GrantedHasKey == \A o \in Ops : pc[o] = "granted" => redisKey = o

\* A lock object is kept only on the pod of the operation that took it, and
\* only once the operation has seen the grant.
LockObjectPlaced ==
  \A p \in Pods : \A o \in Ops :
    currentRedLock[p] = o => podOf[o] = p /\ pc[o] \notin {"idle", "locking", "granted"}

\* Within the lease, whoever uses the client has the key, and its pod expects
\* its user to sign.
UserHasKey ==
  ~Overrun =>
    \A o \in Ops : pc[o] \in UsingApi => redisKey = o /\ currentAvnUser[podOf[o]] = o

LockInv ==
  /\ TypeOK
  /\ Placed
  /\ GrantedHasKey
  /\ LockObjectPlaced
  /\ UserHasKey
  /\ SignedByOwnerWithinLease
  /\ NoKeyLeftBehind

-----------------------------------------------------------------------------
LEMMA LockInit == Init => LockInv
  BY DEF Init, LockInv, TypeOK, Placed, GrantedHasKey, LockObjectPlaced, UserHasKey,
         SignedByOwnerWithinLease, SignedByOwner, NoKeyLeftBehind, Overrun,
         UsingApi, Holding, PC, Ended

\* A crash keeps the invariant; the key is left to whoever had it.
LEMMA CrashKeepsInv ==
  ASSUME LockInv, NEW p \in Pods, CrashEffect(p),
         redisKey' = redisKey \/ redisKey' = Released(currentRedLock[p])
  PROVE  LockInv'
<1> USE DEF LockInv, CrashEffect, opVars, PC, Ended, Holding, UsingApi
<1>1. TypeOK'
  BY DEF TypeOK, Released
<1>2. Placed'
  BY DEF TypeOK, Placed
<1>3. GrantedHasKey'
  BY DEF TypeOK, GrantedHasKey, LockObjectPlaced, Released
<1>4. LockObjectPlaced'
  BY DEF TypeOK, LockObjectPlaced
<1>5. UserHasKey'
  <2> SUFFICES ASSUME ~Overrun', NEW o \in Ops, pc'[o] \in UsingApi
               PROVE  redisKey' = o /\ currentAvnUser'[podOf'[o]] = o
    BY DEF UserHasKey
  <2>1. podOf[o] # p /\ pc[o] \in UsingApi /\ ~Overrun
    BY DEF TypeOK, Overrun
  <2>2. redisKey = o /\ currentAvnUser[podOf[o]] = o
    BY <2>1 DEF UserHasKey
  <2>3. redisKey' = o
    BY <2>1, <2>2 DEF Released, LockObjectPlaced, TypeOK
  <2>4. currentAvnUser'[podOf'[o]] = o
    BY <2>1, <2>2 DEF TypeOK, Placed
  <2> QED BY <2>3, <2>4
<1>6. SignedByOwnerWithinLease'
  BY DEF SignedByOwnerWithinLease, SignedByOwner, Overrun
<1>7. NoKeyLeftBehind'
  BY DEF TypeOK, NoKeyLeftBehind, Released
<1> QED BY <1>1, <1>2, <1>3, <1>4, <1>5, <1>6, <1>7

\* So does an operation that throws, awaited or not.
LEMMA RejectKeepsInv ==
  ASSUME LockInv, NEW o \in Ops, pc[o] \in {"locking", "initialising", "signing"},
         Rejects(o),
         \/ redisKey' = redisKey
         \/ pc[o] # "locking" /\ redisKey' = Released(currentRedLock[podOf[o]])
  PROVE  LockInv'
<1>1. CASE o \in Unawaited
  BY <1>1, CrashKeepsInv DEF Rejects, LockInv, Placed
<1>2. CASE o \notin Unawaited
  <2> USE <1>2 DEF LockInv, Rejects, Goto, podVars, opVars, PC, Ended, Holding, UsingApi
  <2>1. TypeOK'
    BY DEF TypeOK, Released
  <2>2. Placed'
    BY DEF TypeOK, Placed
  <2>3. GrantedHasKey'
    BY DEF TypeOK, GrantedHasKey, LockObjectPlaced, Released, Placed
  <2>4. LockObjectPlaced'
    BY DEF TypeOK, LockObjectPlaced
  <2>5. UserHasKey'
    <3> SUFFICES ASSUME ~Overrun', NEW q \in Ops, pc'[q] \in UsingApi
                 PROVE  redisKey' = q /\ currentAvnUser'[podOf'[q]] = q
      BY DEF UserHasKey
    <3>1. q # o /\ pc[q] \in UsingApi /\ ~Overrun
      BY DEF TypeOK, Overrun
    <3>2. redisKey = q /\ currentAvnUser[podOf[q]] = q
      BY <3>1 DEF UserHasKey
    <3>3. pc[o] = "locking"
      BY <3>1, <3>2 DEF UserHasKey
    <3> QED BY <3>2, <3>3 DEF Released
  <2>6. SignedByOwnerWithinLease'
    BY DEF SignedByOwnerWithinLease, SignedByOwner, Overrun
  <2>7. NoKeyLeftBehind'
    BY DEF TypeOK, NoKeyLeftBehind, Released
  <2> QED BY <2>1, <2>2, <2>3, <2>4, <2>5, <2>6, <2>7
<1> QED BY <1>1, <1>2

LEMMA LockNext == LockInv /\ [Next]_vars => LockInv'
<1> SUFFICES ASSUME LockInv, [Next]_vars
             PROVE  LockInv'
  OBVIOUS
<1> USE DEF LockInv, Goto, podVars, opVars, PC, Ended, Holding, UsingApi
<1>1. ASSUME NEW o \in Ops, NEW p \in Pods, Enter(o, p)
      PROVE  LockInv'
  BY <1>1 DEF Enter, TypeOK, Placed, GrantedHasKey, LockObjectPlaced, UserHasKey,
     SignedByOwnerWithinLease, SignedByOwner, NoKeyLeftBehind, Overrun
<1>2. ASSUME NEW o \in Ops, Grant(o)
      PROVE  LockInv'
  BY <1>2 DEF Grant, TypeOK, Placed, GrantedHasKey, LockObjectPlaced, UserHasKey,
     SignedByOwnerWithinLease, SignedByOwner, NoKeyLeftBehind, Overrun
<1>3. ASSUME NEW o \in Ops, Retry(o)
      PROVE  LockInv'
  BY <1>3 DEF Retry, TypeOK, Placed, GrantedHasKey, LockObjectPlaced, UserHasKey,
     SignedByOwnerWithinLease, SignedByOwner, NoKeyLeftBehind, Overrun
<1>4. ASSUME NEW o \in Ops, GiveUp(o)
      PROVE  LockInv'
  BY <1>4, RejectKeepsInv DEF GiveUp
<1>5. ASSUME NEW o \in Ops, Install(o)
      PROVE  LockInv'
  <2>1. podOf[o] \in Pods /\ redisKey = o
    BY <1>5 DEF Install, Placed, GrantedHasKey
  <2>2. TypeOK'
    BY <1>5, <2>1 DEF Install, TypeOK
  <2>3. Placed' /\ GrantedHasKey' /\ LockObjectPlaced'
    BY <1>5, <2>1 DEF Install, TypeOK, Placed, GrantedHasKey, LockObjectPlaced
  <2>4. UserHasKey'
    BY <1>5, <2>1 DEF Install, TypeOK, UserHasKey, Overrun
  <2>5. SignedByOwnerWithinLease' /\ NoKeyLeftBehind'
    BY <1>5 DEF Install, TypeOK, SignedByOwnerWithinLease, SignedByOwner, NoKeyLeftBehind, Overrun
  <2> QED BY <2>2, <2>3, <2>4, <2>5
<1>6. ASSUME NEW o \in Ops, Initialise(o)
      PROVE  LockInv'
  BY <1>6 DEF Initialise, TypeOK, Placed, GrantedHasKey, LockObjectPlaced, UserHasKey,
     SignedByOwnerWithinLease, SignedByOwner, NoKeyLeftBehind, Overrun
<1>7. ASSUME NEW o \in Ops, SetupFails(o)
      PROVE  LockInv'
  BY <1>7, RejectKeepsInv DEF SetupFails
<1>8. ASSUME NEW o \in Ops, Send(o)
      PROVE  LockInv'
  <2>1. TypeOK'
    BY <1>8 DEF Send, TypeOK, Placed
  <2>2. Placed' /\ GrantedHasKey' /\ LockObjectPlaced' /\ NoKeyLeftBehind'
    BY <1>8 DEF Send, TypeOK, Placed, GrantedHasKey, LockObjectPlaced, NoKeyLeftBehind
  <2>3. UserHasKey' /\ SignedByOwnerWithinLease'
    BY <1>8 DEF Send, TypeOK, UserHasKey, SignedByOwnerWithinLease, SignedByOwner, Overrun
  <2> QED BY <2>1, <2>2, <2>3
<1>9. ASSUME NEW o \in Ops, SendFails(o)
      PROVE  LockInv'
  BY <1>9, RejectKeepsInv DEF SendFails
<1>10. ASSUME NEW o \in Ops, Poll(o)
       PROVE  LockInv'
  <2>1. TypeOK'
    <3>1. polls[o] + 1 \in 0..PollingLoops
      BY <1>10 DEF Poll, TypeOK, Placed
    <3> QED BY <1>10, <3>1 DEF Poll, TypeOK
  <2>2. Placed' /\ GrantedHasKey' /\ LockObjectPlaced' /\ NoKeyLeftBehind'
    BY <1>10 DEF Poll, TypeOK, Placed, GrantedHasKey, LockObjectPlaced, NoKeyLeftBehind
  <2>3. Overrun => Overrun'
    BY <1>10 DEF Poll, TypeOK, Overrun
  <2>4. UserHasKey' /\ SignedByOwnerWithinLease'
    BY <1>10, <2>3 DEF Poll, TypeOK, UserHasKey, SignedByOwnerWithinLease, SignedByOwner
  <2> QED BY <2>1, <2>2, <2>4
<1>11. ASSUME NEW o \in Ops, Confirm(o)
       PROVE  LockInv'
  BY <1>11 DEF Confirm, TypeOK, Placed, GrantedHasKey, LockObjectPlaced, UserHasKey,
     SignedByOwnerWithinLease, SignedByOwner, NoKeyLeftBehind, Overrun
<1>12. ASSUME NEW o \in Ops, Unlock(o)
       PROVE  LockInv'
  <2>1. CASE redisKey = currentRedLock[podOf[o]]
    BY <1>12, <2>1 DEF Unlock, Released, TypeOK, Placed, GrantedHasKey, LockObjectPlaced,
       UserHasKey, SignedByOwnerWithinLease, SignedByOwner, NoKeyLeftBehind, Overrun
  <2>2. CASE redisKey # currentRedLock[podOf[o]]
    BY <1>12, <2>2, CrashKeepsInv DEF Unlock, Placed
  <2> QED BY <2>1, <2>2
<1>13. ASSUME NEW p \in Pods, Crash(p)
       PROVE  LockInv'
  BY <1>13, CrashKeepsInv DEF Crash
<1>14. CASE Lapse
  BY <1>14 DEF Lapse, MayLapse, TypeOK, Placed, GrantedHasKey, LockObjectPlaced, UserHasKey,
     SignedByOwnerWithinLease, SignedByOwner, NoKeyLeftBehind, Overrun
<1>15. CASE UNCHANGED vars
  BY <1>15 DEF vars, TypeOK, Placed, GrantedHasKey, LockObjectPlaced, UserHasKey,
     SignedByOwnerWithinLease, SignedByOwner, NoKeyLeftBehind, Overrun
<1> QED
  BY <1>1, <1>2, <1>3, <1>4, <1>5, <1>6, <1>7, <1>8, <1>9, <1>10, <1>11, <1>12, <1>13,
     <1>14, <1>15 DEF Next, Step

LEMMA LockInvariant == Spec => []LockInv
<1> QED BY LockInit, LockNext, PTL DEF Spec

-----------------------------------------------------------------------------
(* Types, for any number of pods and operations: the status and the counters  *)
(* of every operation stay in range.                                          *)
THEOREM Typing == Spec => []TypeOK
<1> QED BY LockInvariant, PTL DEF LockInv

(* The API client is used by one operation at a time until somebody has polled *)
(* for as long as a key lives, whatever failed or crashed before.              *)
THEOREM Exclusive == Spec => []ExclusiveWithinLease
<1>1. LockInv => ExclusiveWithinLease
  BY DEF LockInv, UserHasKey, ExclusiveWithinLease, ApiExclusive
<1> QED BY <1>1, LockInvariant, PTL

(* Until then every transaction is signed with its own user's key.             *)
THEOREM OwnSignature == Spec => []SignedByOwnerWithinLease
<1> QED BY LockInvariant, PTL DEF LockInv

(* An operation that ran to its end has left no key behind, within the lease   *)
(* or past it.                                                                 *)
THEOREM NothingLeftBehind == Spec => []NoKeyLeftBehind
<1> QED BY LockInvariant, PTL DEF LockInv

-----------------------------------------------------------------------------
\* Lock objects stay on their pods: what a pod releases, it was granted.
LEMMA StepFreesOwn ==
  ASSUME LockInv, [Next]_vars, NEW o \in Ops, redisKey = o, redisKey' # o, ~MayLapse(o)
  PROVE  \E q \in Ops : podOf[q] = podOf[o] /\ pc'[q] # pc[q]
<1> USE DEF LockInv, PC, Ended, Holding
<1>1. ASSUME NEW q \in Ops, pc[q] \in UsingApi, currentRedLock[podOf[q]] = o, pc'[q] # pc[q]
      PROVE  podOf[q] = podOf[o] /\ pc'[q] # pc[q]
  BY <1>1 DEF LockObjectPlaced, Placed, UsingApi
<1>2. ASSUME NEW q \in Ops, SetupFails(q)
      PROVE  currentRedLock[podOf[q]] = o /\ pc[q] \in UsingApi /\ pc'[q] # pc[q]
  BY <1>2 DEF SetupFails, Rejects, CrashEffect, Goto, Released, UsingApi, TypeOK
<1>3. ASSUME NEW q \in Ops, Unlock(q)
      PROVE  currentRedLock[podOf[q]] = o /\ pc[q] \in UsingApi /\ pc'[q] # pc[q]
  BY <1>3 DEF Unlock, CrashEffect, Goto, Released, UsingApi, TypeOK
<1>4. \E q \in Ops : SetupFails(q) \/ Unlock(q)
  BY DEF Next, Step, vars, Enter, Grant, Retry, GiveUp, Install, Initialise, Send, SendFails,
     Poll, Confirm, Crash, Lapse, TypeOK
<1> QED BY <1>1, <1>2, <1>3, <1>4

(* No pod ever releases a key that another pod's operation took and that may   *)
(* not lapse: a release deletes the key only where its value matches.          *)
THEOREM ForeignKeysAreSafe == Spec => FreedByItsPod
<1>1. LockInv /\ [Next]_vars =>
        [\A o \in Ops :
           redisKey = o /\ redisKey' # o /\ ~MayLapse(o)
           => \E q \in Ops : podOf[q] = podOf[o] /\ pc'[q] # pc[q]]_vars
  BY StepFreesOwn
<1> QED BY <1>1, LockInvariant, PTL DEF Spec, FreedByItsPod

-----------------------------------------------------------------------------
ClientUsers == IF Overrun THEN {} ELSE {o \in Ops : pc[o] \in UsingApi}

\* Polls are never forgotten.
LEMMA OverrunLasts ==
  ASSUME TypeOK, [Next]_vars, Overrun
  PROVE  Overrun'
<1> USE DEF TypeOK, Goto, podVars, opVars
<1>1. \A o \in Ops : polls[o] \in Nat /\ polls'[o] \in Nat /\ polls'[o] >= polls[o]
  BY DEF Next, Step, vars, Enter, Grant, Retry, GiveUp, Install, Initialise, SetupFails, Send,
     SendFails, Poll, Confirm, Unlock, Crash, Lapse, Rejects, CrashEffect
<1> QED BY <1>1, LockAssumption DEF Overrun

\* Until somebody has polled past the lease, a step gives the client to nobody
\* while somebody uses it.
LEMMA StepOfMutex ==
  ASSUME LockInv, [Next]_vars, ~Overrun'
  PROVE  [Mutex!Next]_ClientUsers
<1> USE DEF LockInv, Goto, podVars, opVars, PC, Ended, Holding, UsingApi
<1>0. /\ ~Overrun
      /\ ClientUsers = {o \in Ops : pc[o] \in UsingApi}
      /\ ClientUsers' = {o \in Ops : pc'[o] \in UsingApi}
  BY OverrunLasts DEF ClientUsers
<1>1. \A o \in ClientUsers : redisKey = o
  BY <1>0 DEF UserHasKey
<1>2. ASSUME NEW o \in Ops, Install(o)
      PROVE  Mutex!Enter(o)
  <2>1. redisKey = o /\ pc[o] = "granted"
    BY <1>2 DEF Install, GrantedHasKey
  <2>2. ClientUsers = {}
    BY <1>0, <1>1, <2>1
  <2>3. ClientUsers' = {o}
    BY <1>0, <1>2, <2>2 DEF Install, TypeOK
  <2> QED BY <2>2, <2>3 DEF Mutex!Enter, ClientUsers
<1>3. ASSUME \A q \in Ops : pc'[q] \in UsingApi => pc[q] \in UsingApi
      PROVE  Mutex!Leave \/ ClientUsers' = ClientUsers
  <2>1. ClientUsers' \subseteq ClientUsers
    BY <1>0, <1>3
  <2>2. CASE ClientUsers' = {}
    BY <2>2 DEF Mutex!Leave, ClientUsers
  <2>3. CASE ClientUsers' # {}
    BY <1>1, <2>1, <2>3
  <2> QED BY <2>2, <2>3
<1>4. ASSUME ~\E o \in Ops : Install(o)
      PROVE  \A q \in Ops : pc'[q] \in UsingApi => pc[q] \in UsingApi
  BY <1>4 DEF Next, Step, vars, Enter, Grant, Retry, GiveUp, Initialise, SetupFails, Send,
     SendFails, Poll, Confirm, Unlock, Crash, Lapse, Rejects, CrashEffect, TypeOK
<1> QED BY <1>2, <1>3, <1>4 DEF Mutex!Next

(* Until somebody polls past the lease, which a lease that outlives the polling *)
(* rules out, the lock implements the plain mutex the confirmations rely on.    *)
THEOREM ImplementsMutex == Spec => MutexSpec
<1>1. Init => Mutex!Init
  BY DEF Init, Mutex!Init, UsingApi, Holding
<1>2. LockInv /\ [Next]_vars => [Mutex!Next]_ClientUsers
  <2> SUFFICES ASSUME LockInv, [Next]_vars, Overrun'
               PROVE  [Mutex!Next]_ClientUsers
    BY StepOfMutex
  <2>1. ClientUsers' = {}
    BY DEF ClientUsers
  <2> QED BY <2>1 DEF Mutex!Next, Mutex!Leave, ClientUsers
<1> QED BY <1>1, <1>2, LockInvariant, PTL DEF Spec, MutexSpec, Mutex!Spec, ClientUsers
=============================================================================
