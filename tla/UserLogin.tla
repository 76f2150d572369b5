------------------------------ MODULE UserLogin ------------------------------
(***************************************************************************)
(* Authenticated requests of one person (AuthService.validateUser).  The   *)
(* first one creates a user document over Redis publish/subscribe, where   *)
(* every replica of the user service handles the message and the first     *)
(* answer counts; then it sets up an account: a key from Vault, stored in  *)
(* the document, and a registration as split-fee user.  A failure rolls    *)
(* the creation back; for a user who existed before it is swallowed.       *)
(* Requests of one person overlap, as a browser sends several at once.     *)
(*                                                                         *)
(* Updates and deletions reach every replica as well; their effect is the  *)
(* same however often it is applied, so one step stands for all.  Vault    *)
(* answers the creation of a user it has with the key of that user.        *)
(***************************************************************************)
EXTENDS Naturals, FiniteSets

CONSTANTS
  Logins,     \* authenticated requests of the person
  Replicas,   \* replicas of the user service
  Imported,   \* a document from before there were accounts
  NoDoc,      \* no document
  MaxRetry,   \* retries of a call of Vault
  MaxFaults   \* bound: failures of the environment

ASSUME LoginAssumption ==
  /\ IsFiniteSet(Logins)
  /\ NoDoc # Imported
  /\ {NoDoc, Imported} \intersect (Logins \X Replicas) = {}
  /\ MaxRetry \in Nat
  /\ MaxFaults \in Nat

\* The documents a login creates, one at each replica.
Own(l) == {l} \X Replicas
Docs == (Logins \X Replicas) \union {Imported}

VARIABLES
  docs,       \* the person's documents
  prefs,      \* documents with notification preferences
  keyed,      \* documents with avnPubKey and avnAddress
  creating,   \* per replica: 'createUser' messages it has yet to handle
  vaultUser,  \* Vault has a user, and so a key, for the person
  registered, \* how often the key was added to the split-fee users
  user,       \* per login: the document it works with
  tries,      \* per login: failed attempts of the call of Vault it makes
  pc,         \* per login: where it is
  faults      \* failures so far

db == <<docs, prefs, keyed>>
services == <<vaultUser, registered>>
vars == <<db, creating, services, user, tries, pc, faults>>

Setup == {"askingVault", "creatingKey", "storing", "searching", "saving"}
Ended == {"done", "failed", "dead"}
PC == {"idle", "preferring", "creating", "awaiting", "rollingBack"} \union Setup \union Ended

Init ==
  /\ docs \in {{}, {Imported}}
  /\ prefs \in SUBSET docs
  /\ keyed = {}
  /\ creating = [r \in Replicas |-> {}]
  /\ vaultUser \in BOOLEAN
  /\ registered = 0
  /\ user = [l \in Logins |-> NoDoc]
  /\ tries = [l \in Logins |-> 0]
  /\ pc = [l \in Logins |-> "idle"]
  /\ faults = 0

Goto(l, label) == pc' = [pc EXCEPT ![l] = label]
At(l, label) == pc[l] = label
Fault == faults < MaxFaults /\ faults' = faults + 1

-----------------------------------------------------------------------------
(* validateUser *)

\* Mutant: only who created the document sets the account up.
FindOnly(l) ==
  /\ At(l, "idle")
  /\ IF docs = {}
     THEN Goto(l, "creating") /\ UNCHANGED user
     ELSE \E d \in docs :
            /\ user' = [user EXCEPT ![l] = d]
            /\ Goto(l, IF d \notin prefs THEN "preferring" ELSE "done")
  /\ UNCHANGED <<db, creating, services, tries, faults>>

\* getUserByProvider: any of the person's documents.
Find(l) ==
  /\ At(l, "idle")
  /\ IF docs = {}
     THEN Goto(l, "creating") /\ UNCHANGED user
     ELSE \E d \in docs :
            /\ user' = [user EXCEPT ![l] = d]
            /\ Goto(l, CASE d \notin prefs                 -> "preferring"
                         [] d \in prefs /\ d \notin keyed  -> "askingVault"
                         [] d \in prefs /\ d \in keyed     -> "done")
  /\ UNCHANGED <<db, creating, services, tries, faults>>

\* The update returns the document, or nothing when it is gone: then reading
\* its key throws.
UpdatePreferences(l) ==
  /\ At(l, "preferring")
  /\ prefs' = prefs \union ({user[l]} \intersect docs)
  /\ Goto(l, CASE user[l] \notin docs -> "failed"
               [] user[l] \in keyed   -> "done"
               [] OTHER               -> "askingVault")
  /\ UNCHANGED <<docs, keyed, creating, services, user, tries, faults>>

PublishCreate(l) ==
  /\ At(l, "creating")
  /\ creating' = [r \in Replicas |-> creating[r] \union {l}]
  /\ Goto(l, "awaiting")
  /\ UNCHANGED <<db, services, user, tries, faults>>

\* Every replica creates a document; the login goes on with the first answer.
CreateUser(r, l) ==
  /\ l \in creating[r]
  /\ creating' = [creating EXCEPT ![r] = @ \ {l}]
  /\ docs' = docs \union {<<l, r>>}
  /\ prefs' = prefs \union {<<l, r>>}
  /\ IF At(l, "awaiting")
     THEN user' = [user EXCEPT ![l] = <<l, r>>] /\ Goto(l, "askingVault")
     ELSE UNCHANGED <<user, pc>>
  /\ UNCHANGED <<keyed, services, tries, faults>>

\* Mutant: a failure is swallowed for a new user as well.
Swallowed(l) == "done"

\* Where a failed setup takes a login.
AfterFailure(l) == IF user[l] \in Own(l) THEN "rollingBack" ELSE "done"

\* Mutant: everything the person has is deleted.
RollbackAll(l) ==
  /\ At(l, "rollingBack")
  /\ docs' = {}
  /\ prefs' = {}
  /\ keyed' = {}
  /\ Goto(l, "failed")
  /\ UNCHANGED <<creating, services, user, tries, faults>>

\* rollbackUserCreation: the document the login went on with is deleted, not
\* those of the other replicas.
Rollback(l) ==
  /\ At(l, "rollingBack")
  /\ docs' = docs \ {user[l]}
  /\ prefs' = prefs \ {user[l]}
  /\ keyed' = keyed \ {user[l]}
  /\ Goto(l, "failed")
  /\ UNCHANGED <<creating, services, user, tries, faults>>

-----------------------------------------------------------------------------
(* setupAvnAccount *)

\* getUserKeyOrCreateNewUser asks before it creates.
AskVault(l) ==
  /\ At(l, "askingVault")
  /\ tries' = [tries EXCEPT ![l] = 0]
  /\ Goto(l, IF vaultUser THEN "storing" ELSE "creatingKey")
  /\ UNCHANGED <<db, creating, services, user, faults>>

CreateVaultUser(l) ==
  /\ At(l, "creatingKey")
  /\ vaultUser' = TRUE
  /\ Goto(l, "storing")
  /\ UNCHANGED <<db, creating, registered, user, tries, faults>>

\* Mutant: a call of Vault is repeated until it succeeds.
RetryForever(l) ==
  /\ pc[l] \in {"askingVault", "creatingKey"}
  /\ UNCHANGED faults
  /\ vaultUser' \in {vaultUser, vaultUser \/ At(l, "creatingKey")}
  /\ tries' = [tries EXCEPT ![l] = 1 - @]
  /\ UNCHANGED <<db, creating, registered, user, pc>>

\* Mutant: one retry too many.
VaultFailsOnceMore(l) ==
  /\ pc[l] \in {"askingVault", "creatingKey"}
  /\ Fault
  /\ tries[l] <= MaxRetry
  /\ tries' = [tries EXCEPT ![l] = @ + 1]
  /\ UNCHANGED <<db, creating, services, user, pc>>

\* A call of Vault fails, though it may have had its effect: it is repeated, as
\* often as allowed.  Without a token to call with the login gives up at once.
VaultFails(l) ==
  /\ pc[l] \in {"askingVault", "creatingKey"}
  /\ Fault
  /\ vaultUser' \in {vaultUser, vaultUser \/ At(l, "creatingKey")}
  /\ \/ /\ tries[l] < MaxRetry
        /\ tries' = [tries EXCEPT ![l] = @ + 1]
        /\ UNCHANGED pc
     \/ /\ tries[l] = MaxRetry \/ At(l, "askingVault")
        /\ Goto(l, AfterFailure(l))
        /\ UNCHANGED tries
  /\ UNCHANGED <<db, creating, registered, user>>

\* The key is stored; a document that is gone meanwhile is a failure.
StoreKey(l) ==
  /\ At(l, "storing")
  /\ keyed' = keyed \union ({user[l]} \intersect docs)
  /\ Goto(l, IF user[l] \in docs THEN "searching" ELSE AfterFailure(l))
  /\ UNCHANGED <<docs, prefs, creating, services, user, tries, faults>>

\* splitFeeUserExists, then saveUser.
SearchSplitFeeUser(l) ==
  /\ At(l, "searching")
  /\ Goto(l, IF registered > 0 THEN "done" ELSE "saving")
  /\ UNCHANGED <<db, creating, services, user, tries, faults>>

SaveSplitFeeUser(l) ==
  /\ At(l, "saving")
  /\ registered' = registered + 1
  /\ Goto(l, "done")
  /\ UNCHANGED <<db, creating, vaultUser, user, tries, faults>>

-----------------------------------------------------------------------------
(* Failures *)

\* A call after that of Vault fails, though it may have had its effect.
SetupFails(l) ==
  /\ Fault
  /\ \/ /\ At(l, "storing")
        /\ keyed' \in {keyed, keyed \union ({user[l]} \intersect docs)}
        /\ UNCHANGED registered
     \/ /\ At(l, "searching")
        /\ UNCHANGED <<keyed, registered>>
     \/ /\ At(l, "saving")
        /\ registered' \in {registered, registered + 1}
        /\ UNCHANGED keyed
  /\ Goto(l, AfterFailure(l))
  /\ UNCHANGED <<docs, prefs, creating, vaultUser, user, tries>>

\* A call outside the setup fails, and with it the login.
LoginFails(l) ==
  /\ Fault
  /\ \/ pc[l] \in {"idle", "creating", "awaiting"} /\ UNCHANGED db
     \/ /\ At(l, "preferring")
        /\ prefs' \in {prefs, prefs \union ({user[l]} \intersect docs)}
        /\ UNCHANGED <<docs, keyed>>
     \/ /\ At(l, "rollingBack")
        /\ docs' \in {docs, docs \ {user[l]}}
        /\ prefs' = prefs \intersect docs'
        /\ keyed' = keyed \intersect docs'
  /\ Goto(l, "failed")
  /\ UNCHANGED <<creating, services, user, tries>>

\* The process that serves a login dies.
Die(l) ==
  /\ pc[l] \notin Ended \union {"idle"}
  /\ Fault
  /\ Goto(l, "dead")
  /\ UNCHANGED <<db, creating, services, user, tries>>

Step(l) ==
  \/ UpdatePreferences(l) \/ PublishCreate(l) \/ Rollback(l)
  \/ AskVault(l) \/ CreateVaultUser(l) \/ VaultFails(l) \/ StoreKey(l)
  \/ SearchSplitFeeUser(l) \/ SaveSplitFeeUser(l)
  \/ SetupFails(l)
  \/ (~At(l, "idle") /\ LoginFails(l))

Next ==
  \/ \E l \in Logins : Find(l) \/ Step(l) \/ LoginFails(l) \/ Die(l)
  \/ \E r \in Replicas, l \in Logins : CreateUser(r, l)

Spec == Init /\ [][Next]_vars

\* A call is answered or fails, a live process goes on, and a replica handles the messages it has got; nobody
\* has to log in.
FairSpec ==
  /\ Spec
  /\ \A l \in Logins : WF_vars(Step(l))
  /\ \A r \in Replicas, l \in Logins : WF_vars(CreateUser(r, l))

-----------------------------------------------------------------------------
TypeOK ==
  /\ docs \subseteq Docs
  /\ prefs \subseteq docs
  /\ keyed \subseteq docs
  /\ creating \in [Replicas -> SUBSET Logins]
  /\ vaultUser \in BOOLEAN
  /\ registered \in 0..Cardinality(Logins)
  /\ user \in [Logins -> Docs \union {NoDoc}]
  /\ tries \in [Logins -> 0..MaxRetry]
  /\ pc \in [Logins -> PC]
  /\ faults \in 0..MaxFaults

\* A first login that is let in has a complete account behind it: its document
\* is there with its key, Vault has the key and the key is a split-fee user,
\* whatever failed, died or was repeated, and whoever else logged in meanwhile.
FirstLoginIsComplete ==
  \A l \in Logins : At(l, "done") /\ user[l] \in Own(l) =>
    user[l] \in keyed /\ vaultUser /\ registered > 0

\* As long as nothing has failed everybody who is let in has a document with a
\* key, also who came in while another login was still setting it up.
KeyedUnlessFailure ==
  faults = 0 => \A l \in Logins : At(l, "done") => user[l] \in keyed

\* A document is only deleted by the login that created it, as it fails.
OnlyOwnRolledBack ==
  [][\A d \in docs \ docs' : \E l \in Logins :
       d \in Own(l) /\ At(l, "rollingBack") /\ pc'[l] = "failed"]_vars

\* Every login is let in or refused.
LoginsEnd == \A l \in Logins : ~At(l, "idle") ~> pc[l] \in Ended
=============================================================================
