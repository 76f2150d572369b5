--------------------------- MODULE UserLogin_proofs ---------------------------
(***************************************************************************)
(* Theorems about UserLogin, for any logins, replicas, retries and faults. *)
(***************************************************************************)
EXTENDS UserLogin, FiniteSetTheorems, TLAPS

(* The documents of different logins are different.                        *)
LEMMA OwnDocs ==
  /\ \A l \in Logins : Own(l) \subseteq Docs /\ NoDoc \notin Own(l) /\ Imported \notin Own(l)
  /\ \A l \in Logins, r \in Replicas : <<l, r>> \in Own(l)
  /\ \A l, k \in Logins : l # k => Own(l) \intersect Own(k) = {}
  BY LoginAssumption DEF Own, Docs

-----------------------------------------------------------------------------
(* Types.  The key is added to the split-fee users once per login at most: *)
(* a login that has tried to is past the setup.                            *)
PastSetup == {"rollingBack"} \union Ended
Savers == {l \in Logins : pc[l] \in PastSetup}
TypeInv ==
  /\ docs \subseteq Docs
  /\ prefs \subseteq docs
  /\ keyed \subseteq docs
  /\ creating \in [Replicas -> SUBSET Logins]
  /\ vaultUser \in BOOLEAN
  /\ registered \in Nat
  /\ user \in [Logins -> Docs \union {NoDoc}]
  /\ tries \in [Logins -> 0..MaxRetry]
  /\ pc \in [Logins -> PC]
  /\ faults \in 0..MaxFaults
SavedOnceEach == registered <= Cardinality(Savers)

LEMMA AfterFailureIs == \A l \in Logins : AfterFailure(l) \in {"rollingBack", "done"}
  BY DEF AfterFailure

LEMMA TypeStep == TypeInv /\ [Next]_vars => TypeInv'
<1> SUFFICES ASSUME TypeInv, [Next]_vars PROVE TypeInv'
  OBVIOUS
<1> USE LoginAssumption DEF Goto, At, Fault, db, services, PC, Setup, Ended
<1>1. ASSUME NEW l \in Logins, Find(l) PROVE TypeInv'
  <2>1. /\ user' \in [Logins -> Docs \union {NoDoc}]
        /\ \E label \in PC : pc' = [pc EXCEPT ![l] = label]
    BY <1>1 DEF Find, TypeInv
  <2> QED
    BY <1>1, <2>1 DEF Find, TypeInv
<1>2. ASSUME NEW l \in Logins, UpdatePreferences(l) PROVE TypeInv'
  <2>1. \E label \in PC : pc' = [pc EXCEPT ![l] = label]
    BY <1>2 DEF UpdatePreferences
  <2> QED
    BY <1>2, <2>1 DEF UpdatePreferences, TypeInv
<1>3. ASSUME NEW l \in Logins, PublishCreate(l) \/ Rollback(l) PROVE TypeInv'
  BY <1>3 DEF PublishCreate, Rollback, TypeInv
<1>4. ASSUME NEW l \in Logins, AskVault(l) PROVE TypeInv'
  <2>1. PICK label \in PC : pc' = [pc EXCEPT ![l] = label]
    BY <1>4 DEF AskVault
  <2>2. pc' \in [Logins -> PC] /\ tries' \in [Logins -> 0..MaxRetry]
    BY <1>4, <2>1 DEF AskVault, TypeInv
  <2> QED
    BY <1>4, <2>2 DEF AskVault, TypeInv
<1>5. ASSUME NEW l \in Logins, CreateVaultUser(l) PROVE TypeInv'
  <2>1. vaultUser' \in BOOLEAN
    BY <1>5 DEF CreateVaultUser
  <2>2. pc' \in [Logins -> PC]
    BY <1>5 DEF CreateVaultUser, TypeInv
  <2> QED
    BY <1>5, <2>1, <2>2 DEF CreateVaultUser, TypeInv
<1>6. ASSUME NEW l \in Logins, SearchSplitFeeUser(l) PROVE TypeInv'
  BY <1>6 DEF SearchSplitFeeUser, TypeInv
<1>7. ASSUME NEW l \in Logins, SaveSplitFeeUser(l) \/ Die(l) PROVE TypeInv'
  BY <1>7 DEF SaveSplitFeeUser, Die, TypeInv
<1>8. ASSUME NEW l \in Logins, VaultFails(l) PROVE TypeInv'
  <2>1. PICK label \in PC : pc' = [pc EXCEPT ![l] = label] \/ pc' = pc
    BY <1>8, AfterFailureIs DEF VaultFails
  <2>2. tries' = tries \/ (tries' = [tries EXCEPT ![l] = @ + 1] /\ tries[l] < MaxRetry)
    BY <1>8 DEF VaultFails
  <2>3. tries' \in [Logins -> 0..MaxRetry]
    BY <2>2 DEF TypeInv
  <2>4. pc' \in [Logins -> PC]
    BY <2>1 DEF TypeInv
  <2>5. vaultUser' \in BOOLEAN
    BY <1>8 DEF VaultFails, TypeInv
  <2>6. UNCHANGED <<docs, prefs, keyed, creating, registered, user>> /\ faults' \in 0..MaxFaults
    BY <1>8 DEF VaultFails, TypeInv
  <2> QED
    BY <2>3, <2>4, <2>5, <2>6 DEF TypeInv
<1>9. ASSUME NEW l \in Logins, StoreKey(l) PROVE TypeInv'
  <2>1. \E label \in PC : pc' = [pc EXCEPT ![l] = label]
    BY <1>9, AfterFailureIs DEF StoreKey
  <2> QED
    BY <1>9, <2>1 DEF StoreKey, TypeInv
<1>10. ASSUME NEW l \in Logins, SetupFails(l) PROVE TypeInv'
  BY <1>10, AfterFailureIs DEF SetupFails, TypeInv
<1>11. ASSUME NEW l \in Logins, LoginFails(l) PROVE TypeInv'
  BY <1>11 DEF LoginFails, TypeInv
<1>12. ASSUME NEW r \in Replicas, NEW l \in Logins, CreateUser(r, l) PROVE TypeInv'
  <2>1. <<l, r>> \in Docs
    BY DEF Docs
  <2> QED
    BY <1>12, <2>1 DEF CreateUser, TypeInv
<1>13. CASE UNCHANGED vars
  BY <1>13 DEF vars, TypeInv
<1> QED
  BY <1>1, <1>2, <1>3, <1>4, <1>5, <1>6, <1>7, <1>8, <1>9, <1>10, <1>11, <1>12, <1>13 DEF Next, Step

LEMMA FiniteSavers ==
  /\ IsFiniteSet(Savers) /\ Cardinality(Savers) \in Nat
  /\ Cardinality(Savers) <= Cardinality(Logins) /\ Cardinality(Logins) \in Nat
<1>1. Savers \subseteq Logins
  BY DEF Savers
<1> QED
  BY <1>1, LoginAssumption, FS_Subset, FS_CardinalityType

LEMMA SaversGrow ==
  ASSUME \A l \in Logins : pc[l] \in PastSetup => pc'[l] \in PastSetup
  PROVE  Cardinality(Savers) <= Cardinality(Savers')
<1>1. Savers \subseteq Savers' /\ Savers' \subseteq Logins
  BY DEF Savers
<1>2. IsFiniteSet(Savers')
  BY <1>1, LoginAssumption, FS_Subset
<1> QED
  BY <1>1, <1>2, FS_Subset

LEMMA SaverAdded ==
  ASSUME NEW l \in Logins, pc[l] \notin PastSetup, pc'[l] \in PastSetup,
         \A k \in Logins \ {l} : pc'[k] = pc[k]
  PROVE  Cardinality(Savers') = Cardinality(Savers) + 1
<1>1. Savers' = Savers \union {l} /\ l \notin Savers
  BY DEF Savers
<1> QED
  BY <1>1, FiniteSavers, FS_AddElement

LEMMA SavedStep == TypeInv /\ SavedOnceEach /\ [Next]_vars => SavedOnceEach'
<1> SUFFICES ASSUME TypeInv, SavedOnceEach, [Next]_vars PROVE SavedOnceEach'
  OBVIOUS
<1>0. /\ Cardinality(Savers) \in Nat /\ registered \in Nat
      /\ registered' \in Nat /\ Cardinality(Savers)' \in Nat
  <2>1. Savers' \subseteq Logins
    BY DEF Savers
  <2> QED
    BY <2>1, FiniteSavers, TypeStep, LoginAssumption, FS_Subset, FS_CardinalityType DEF TypeInv
<1>1. CASE registered' = registered /\ \A l \in Logins : pc[l] \in PastSetup => pc'[l] \in PastSetup
  BY <1>0, <1>1, SaversGrow DEF SavedOnceEach
<1>2. ASSUME NEW l \in Logins, pc[l] = "saving", registered' <= registered + 1, pc'[l] \in PastSetup,
             \A k \in Logins \ {l} : pc'[k] = pc[k]
      PROVE  SavedOnceEach'
  <2>1. Cardinality(Savers') = Cardinality(Savers) + 1
    BY <1>2, SaverAdded DEF PastSetup, Ended
  <2> QED
    BY <1>0, <1>2, <2>1 DEF SavedOnceEach
<1> USE DEF Goto, At, services
<1>3. ASSUME NEW l \in Logins, SaveSplitFeeUser(l) PROVE SavedOnceEach'
  BY <1>0, <1>2, <1>3 DEF SaveSplitFeeUser, TypeInv, PastSetup, Ended
<1>4. ASSUME NEW l \in Logins, SetupFails(l) PROVE SavedOnceEach'
  <2>1. /\ pc'[l] \in PastSetup /\ \A k \in Logins \ {l} : pc'[k] = pc[k]
        /\ pc[l] \notin PastSetup
    BY <1>4, AfterFailureIs DEF SetupFails, TypeInv, PastSetup, Ended
  <2>2. CASE pc[l] = "saving"
    <3>1. registered' <= registered + 1
      BY <1>0, <1>4, <2>2 DEF SetupFails
    <3> QED
      BY <1>2, <2>1, <2>2, <3>1
  <2>3. CASE pc[l] # "saving"
    BY <1>1, <1>4, <2>1, <2>3 DEF SetupFails
  <2> QED
    BY <2>2, <2>3
<1>5. ASSUME NEW l \in Logins, \/ Find(l) \/ UpdatePreferences(l) \/ PublishCreate(l) \/ AskVault(l)
                               \/ CreateVaultUser(l) \/ VaultFails(l) \/ StoreKey(l)
                               \/ SearchSplitFeeUser(l) \/ Rollback(l) \/ LoginFails(l) \/ Die(l)
      PROVE  SavedOnceEach'
  <2>1. registered' = registered
    BY <1>5 DEF Find, UpdatePreferences, PublishCreate, AskVault, CreateVaultUser, VaultFails,
                StoreKey, SearchSplitFeeUser, Rollback, LoginFails, Die
  <2>2. /\ pc[l] \in PastSetup => pc'[l] \in PastSetup
        /\ \A k \in Logins \ {l} : pc'[k] = pc[k]
    BY <1>5, AfterFailureIs
       DEF Find, UpdatePreferences, PublishCreate, AskVault, CreateVaultUser, VaultFails,
           StoreKey, SearchSplitFeeUser, Rollback, LoginFails, Die, TypeInv, PastSetup, Ended
  <2> QED
    BY <1>1, <2>1, <2>2
<1>6. ASSUME NEW r \in Replicas, NEW l \in Logins, CreateUser(r, l) PROVE SavedOnceEach'
  BY <1>1, <1>6 DEF CreateUser, TypeInv, PastSetup, Ended
<1>7. CASE UNCHANGED vars
  BY <1>1, <1>7 DEF vars
<1> QED
  BY <1>3, <1>4, <1>5, <1>6, <1>7 DEF Next, Step

(* Documents, keys, messages and registrations have their types; a person  *)
(* is registered as split-fee user at most once per login.                 *)
THEOREM Typing == Spec => []TypeOK
<1>1. Init => TypeInv /\ SavedOnceEach
  <2> SUFFICES ASSUME Init PROVE TypeInv /\ SavedOnceEach
    OBVIOUS
  <2>1. TypeInv
    BY LoginAssumption DEF Init, TypeInv, Docs, PC
  <2>2. registered = 0
    BY DEF Init
  <2> QED
    BY <2>1, <2>2, FiniteSavers DEF SavedOnceEach
<1>2. TypeInv /\ SavedOnceEach => TypeOK
  BY FiniteSavers DEF TypeInv, SavedOnceEach, TypeOK
<1> QED
  BY <1>1, <1>2, TypeStep, SavedStep, PTL DEF Spec
-----------------------------------------------------------------------------
(* What is true of each login.  It has no document of its own before it    *)
(* asked for one; it rolls back nothing but its own; and the account it    *)
(* sets up for a document of its own stays as complete as it was, because  *)
(* nobody else deletes that document, Vault keeps the key and nobody is    *)
(* unregistered.                                                           *)
Fresh == {"idle", "preferring", "creating"}
NothingYet(l) ==
  /\ pc[l] \in Fresh => Own(l) \intersect docs = {} /\ \A r \in Replicas : l \notin creating[r]
  /\ pc[l] \in Fresh \union {"awaiting"} => user[l] \notin Own(l)
RollsBackOwn(l) == pc[l] = "rollingBack" => user[l] \in Own(l)
SetUp(l) ==
  user[l] \in Own(l) =>
    /\ pc[l] \in Setup \union {"done"} => user[l] \in docs
    /\ pc[l] \in {"storing", "searching", "saving", "done"} => vaultUser
    /\ pc[l] \in {"searching", "saving", "done"} => user[l] \in keyed
    /\ pc[l] = "done" => registered > 0
LoginOK(l) == NothingYet(l) /\ RollsBackOwn(l) /\ SetUp(l)
LoginInv == \A l \in Logins : LoginOK(l)

LEMMA OtherKept ==
  ASSUME TypeInv, NEW k \in Logins, LoginOK(k),
         pc'[k] = pc[k], user'[k] = user[k],
         Own(k) \intersect docs' = Own(k) \intersect docs,
         Own(k) \intersect keyed \subseteq keyed',
         \A r \in Replicas : k \in creating'[r] => k \in creating[r],
         vaultUser => vaultUser', registered > 0 => registered' > 0
  PROVE  LoginOK(k)'
<1>1. Own(k)' = Own(k)
  BY DEF Own
<1>2. NothingYet(k)' /\ RollsBackOwn(k)'
  BY <1>1 DEF LoginOK, NothingYet, RollsBackOwn
<1>3. ASSUME user[k] \in Own(k) PROVE (user[k] \in docs => user[k] \in docs')
                                      /\ (user[k] \in keyed => user[k] \in keyed')
  BY <1>3
<1>4. SetUp(k)'
  BY <1>1, <1>3 DEF LoginOK, SetUp
<1> QED
  BY <1>2, <1>4 DEF LoginOK

LEMMA LoginStep == TypeInv /\ LoginInv /\ [Next]_vars => LoginInv'
<1> SUFFICES ASSUME TypeInv, LoginInv, [Next]_vars PROVE LoginInv'
  OBVIOUS
<1>0. \A l \in Logins : LoginOK(l)
  BY DEF LoginInv
<1>1. ASSUME NEW l \in Logins, LoginOK(l)',
             \A k \in Logins \ {l} :
               /\ pc'[k] = pc[k] /\ user'[k] = user[k]
               /\ Own(k) \intersect docs' = Own(k) \intersect docs
               /\ Own(k) \intersect keyed \subseteq keyed'
               /\ \A r \in Replicas : k \in creating'[r] => k \in creating[r],
             vaultUser => vaultUser', registered > 0 => registered' > 0
      PROVE  LoginInv'
  BY <1>0, <1>1, OtherKept DEF LoginInv
<1> USE DEF Goto, At, db, services
<1>2. ASSUME NEW l \in Logins, Find(l) PROVE LoginInv'
  <2>1. LoginOK(l)'
    BY <1>0, <1>2 DEF Find, TypeInv, LoginOK, NothingYet, RollsBackOwn, SetUp, Fresh, Setup, Own
  <2> QED
    BY <1>1, <1>2, <2>1 DEF Find, TypeInv
<1>3. ASSUME NEW l \in Logins, UpdatePreferences(l) PROVE LoginInv'
  <2>1. LoginOK(l)'
    BY <1>0, <1>3 DEF UpdatePreferences, TypeInv, LoginOK, NothingYet, RollsBackOwn, SetUp, Fresh,
                      Setup, Own
  <2> QED
    BY <1>1, <1>3, <2>1 DEF UpdatePreferences, TypeInv
<1>4. ASSUME NEW l \in Logins, PublishCreate(l) PROVE LoginInv'
  <2>1. LoginOK(l)'
    BY <1>0, <1>4 DEF PublishCreate, TypeInv, LoginOK, NothingYet, RollsBackOwn, SetUp, Fresh,
                      Setup, Own
  <2> QED
    BY <1>1, <1>4, <2>1 DEF PublishCreate, TypeInv
<1>5. ASSUME NEW r \in Replicas, NEW l \in Logins, CreateUser(r, l) PROVE LoginInv'
  <2>1. pc[l] \notin Fresh
    BY <1>0, <1>5 DEF CreateUser, LoginOK, NothingYet
  <2>2. LoginOK(l)'
    <3>1. CASE pc[l] = "awaiting"
      <4>1. pc'[l] = "askingVault" /\ user'[l] = <<l, r>> /\ <<l, r>> \in docs'
        BY <1>5, <3>1 DEF CreateUser, TypeInv
      <4> QED
        BY <4>1 DEF LoginOK, NothingYet, RollsBackOwn, SetUp, Fresh
    <3>2. CASE pc[l] # "awaiting"
      BY <1>0, <1>5, <2>1, <3>2 DEF CreateUser, LoginOK, NothingYet, RollsBackOwn, SetUp, Own
    <3> QED
      BY <3>1, <3>2
  <2>3. \A k \in Logins \ {l} : <<l, r>> \notin Own(k)
    BY OwnDocs
  <2> QED
    BY <1>1, <1>5, <2>2, <2>3 DEF CreateUser, TypeInv
<1>6. ASSUME NEW l \in Logins, AskVault(l) PROVE LoginInv'
  <2>1. LoginOK(l)'
    BY <1>0, <1>6 DEF AskVault, TypeInv, LoginOK, NothingYet, RollsBackOwn, SetUp, Fresh, Setup, Own
  <2> QED
    BY <1>1, <1>6, <2>1 DEF AskVault, TypeInv
<1>7. ASSUME NEW l \in Logins, CreateVaultUser(l) PROVE LoginInv'
  <2>1. LoginOK(l)'
    BY <1>0, <1>7 DEF CreateVaultUser, TypeInv, LoginOK, NothingYet, RollsBackOwn, SetUp, Fresh,
                      Setup, Own
  <2> QED
    BY <1>1, <1>7, <2>1 DEF CreateVaultUser, TypeInv
<1>8. ASSUME NEW l \in Logins, VaultFails(l) PROVE LoginInv'
  <2>1. vaultUser => vaultUser'
    BY <1>8 DEF VaultFails
  <2>2. /\ pc'[l] \in {pc[l], AfterFailure(l)} /\ pc[l] \in {"askingVault", "creatingKey"}
        /\ \A k \in Logins \ {l} : pc'[k] = pc[k]
        /\ UNCHANGED <<docs, keyed, user, creating, registered>>
    BY <1>8 DEF VaultFails, TypeInv
  <2>3. LoginOK(l)'
    BY <1>0, <2>2 DEF AfterFailure, LoginOK, NothingYet, RollsBackOwn, SetUp, Fresh, Setup, Own
  <2> QED
    BY <1>1, <2>1, <2>2, <2>3
<1>9. ASSUME NEW l \in Logins, StoreKey(l) PROVE LoginInv'
  <2>1. LoginOK(l)'
    BY <1>0, <1>9 DEF StoreKey, AfterFailure, TypeInv, LoginOK, NothingYet, RollsBackOwn, SetUp,
                      Fresh, Setup, Own
  <2> QED
    BY <1>1, <1>9, <2>1 DEF StoreKey, TypeInv
<1>10. ASSUME NEW l \in Logins, SearchSplitFeeUser(l) \/ SaveSplitFeeUser(l) PROVE LoginInv'
  <2>1. LoginOK(l)'
    BY <1>0, <1>10 DEF SearchSplitFeeUser, SaveSplitFeeUser, TypeInv, LoginOK, NothingYet,
                       RollsBackOwn, SetUp, Fresh, Setup, Own
  <2> QED
    BY <1>1, <1>10, <2>1 DEF SearchSplitFeeUser, SaveSplitFeeUser, TypeInv
<1>11. ASSUME NEW l \in Logins, SetupFails(l) PROVE LoginInv'
  <2>1. /\ pc'[l] = AfterFailure(l) /\ pc[l] \in {"storing", "searching", "saving"}
        /\ \A k \in Logins \ {l} : pc'[k] = pc[k]
        /\ UNCHANGED <<docs, user, creating, vaultUser>>
        /\ keyed \subseteq keyed' /\ registered' \in {registered, registered + 1}
    BY <1>11 DEF SetupFails, TypeInv
  <2>2. LoginOK(l)'
    BY <1>0, <2>1 DEF AfterFailure, LoginOK, NothingYet, RollsBackOwn, SetUp, Fresh, Setup, Own
  <2>3. registered > 0 => registered' > 0
    BY <2>1 DEF TypeInv
  <2> QED
    BY <1>1, <2>1, <2>2, <2>3
<1>12. ASSUME NEW l \in Logins, Rollback(l) \/ LoginFails(l) PROVE LoginInv'
  <2>1. /\ pc' = [pc EXCEPT ![l] = "failed"]
        /\ UNCHANGED <<creating, vaultUser, registered, user>>
    BY <1>12 DEF Rollback, LoginFails
  <2>2. \/ docs' = docs /\ keyed' = keyed
        \/ /\ pc[l] = "rollingBack" /\ docs' \in {docs, docs \ {user[l]}}
           /\ keyed' = keyed \intersect docs'
    BY <1>12 DEF Rollback, LoginFails, TypeInv
  <2>3. \A k \in Logins \ {l} : pc[l] = "rollingBack" => user[l] \notin Own(k)
    BY <1>0, OwnDocs DEF LoginOK, RollsBackOwn
  <2>4. \A k \in Logins \ {l} : /\ Own(k) \intersect docs' = Own(k) \intersect docs
                                /\ Own(k) \intersect keyed \subseteq keyed'
    BY <2>2, <2>3 DEF TypeInv
  <2>5. LoginOK(l)'
    BY <2>1 DEF TypeInv, LoginOK, NothingYet, RollsBackOwn, SetUp, Fresh, Setup
  <2> QED
    BY <1>1, <2>1, <2>4, <2>5 DEF TypeInv
<1>13. ASSUME NEW l \in Logins, Die(l) PROVE LoginInv'
  <2>1. LoginOK(l)'
    BY <1>13 DEF Die, TypeInv, LoginOK, NothingYet, RollsBackOwn, SetUp, Fresh, Setup
  <2> QED
    BY <1>1, <1>13, <2>1 DEF Die, TypeInv
<1>14. CASE UNCHANGED vars
  BY <1>0, <1>14, OtherKept DEF vars, LoginInv
<1> QED
  BY <1>2, <1>3, <1>4, <1>5, <1>6, <1>7, <1>8, <1>9, <1>10, <1>11, <1>12, <1>13, <1>14 DEF Next, Step

LEMMA LoginInvariance == Spec => [](TypeInv /\ LoginInv)
<1>1. Init => TypeInv /\ LoginInv
  <2> SUFFICES ASSUME Init PROVE TypeInv /\ LoginInv
    OBVIOUS
  <2>1. TypeInv
    BY LoginAssumption DEF Init, TypeInv, Docs, PC
  <2>2. LoginInv
    BY OwnDocs DEF Init, LoginInv, LoginOK, NothingYet, RollsBackOwn, SetUp, Fresh, Setup
  <2> QED
    BY <2>1, <2>2
<1> QED
  BY <1>1, TypeStep, LoginStep, PTL DEF Spec

(* Whoever is let in for the first time has a complete account behind him, *)
(* whatever failed or was repeated and whoever of his logins meanwhile     *)
(* rolled its own documents back.                                          *)
THEOREM Complete == Spec => []FirstLoginIsComplete
<1>1. LoginInv => FirstLoginIsComplete
  BY DEF LoginInv, LoginOK, SetUp, FirstLoginIsComplete, At
<1> QED
  BY <1>1, LoginInvariance, PTL

(* A document is only deleted by the login that created it.                *)
THEOREM OwnOnly == Spec => OnlyOwnRolledBack
<1>1. TypeInv /\ LoginInv /\ [Next]_vars =>
        [\A d \in docs \ docs' : \E l \in Logins :
           d \in Own(l) /\ At(l, "rollingBack") /\ pc'[l] = "failed"]_vars
  <2> SUFFICES ASSUME TypeInv, LoginInv, Next, NEW d \in docs \ docs'
               PROVE  \E l \in Logins : d \in Own(l) /\ At(l, "rollingBack") /\ pc'[l] = "failed"
    OBVIOUS
  <2>1. PICK l \in Logins : Rollback(l) \/ LoginFails(l)
    BY DEF Next, Step, Find, UpdatePreferences, PublishCreate, CreateUser, AskVault, CreateVaultUser,
           VaultFails, StoreKey, SearchSplitFeeUser, SaveSplitFeeUser, SetupFails, Die, db
  <2>2. d = user[l] /\ At(l, "rollingBack") /\ pc'[l] = "failed"
    BY <2>1 DEF Rollback, LoginFails, Goto, TypeInv, At, db
  <2> QED
    BY <2>2 DEF LoginInv, LoginOK, RollsBackOwn, At
<1> QED
  BY <1>1, LoginInvariance, PTL DEF Spec, OnlyOwnRolledBack
-----------------------------------------------------------------------------
(* As long as nothing has failed no document is deleted, and nobody passes *)
(* the storing of the key without it.                                      *)
Keyed == {"searching", "saving", "done"}
Untroubled(l) ==
  /\ pc[l] \notin {"rollingBack", "failed", "dead"}
  /\ pc[l] \in {"preferring"} \union Setup \union {"done"} => user[l] \in docs
  /\ pc[l] \in Keyed => user[l] \in keyed
UntroubledInv == faults = 0 => \A l \in Logins : Untroubled(l)

LEMMA UntroubledStep == TypeInv /\ UntroubledInv /\ [Next]_vars => UntroubledInv'
<1> SUFFICES ASSUME TypeInv, UntroubledInv, [Next]_vars, faults' = 0
             PROVE  \A l \in Logins : Untroubled(l)'
  BY DEF UntroubledInv
<1>1. ASSUME Fault PROVE FALSE
  BY <1>1, LoginAssumption DEF Fault, TypeInv
<1>2. ASSUME faults = 0, NEW l \in Logins, Untroubled(l)', docs \subseteq docs', keyed \subseteq keyed',
             \A k \in Logins \ {l} : pc'[k] = pc[k] /\ user'[k] = user[k]
      PROVE  \A k \in Logins : Untroubled(k)'
  BY <1>2 DEF UntroubledInv, Untroubled
<1> USE DEF Goto, At, db, Untroubled, UntroubledInv, Keyed, Setup
<1>3. ASSUME NEW l \in Logins, Find(l) PROVE \A k \in Logins : Untroubled(k)'
  <2>1. Untroubled(l)'
    BY <1>3 DEF Find, TypeInv
  <2> QED
    BY <1>2, <1>3, <2>1 DEF Find, TypeInv
<1>4. ASSUME NEW l \in Logins, UpdatePreferences(l) PROVE \A k \in Logins : Untroubled(k)'
  <2>1. Untroubled(l)'
    BY <1>4 DEF UpdatePreferences, TypeInv
  <2> QED
    BY <1>2, <1>4, <2>1 DEF UpdatePreferences, TypeInv
<1>5. ASSUME NEW l \in Logins, PublishCreate(l) \/ AskVault(l) \/ CreateVaultUser(l)
                               \/ SearchSplitFeeUser(l) \/ SaveSplitFeeUser(l)
      PROVE  \A k \in Logins : Untroubled(k)'
  <2>1. Untroubled(l)'
    BY <1>5 DEF PublishCreate, AskVault, CreateVaultUser, SearchSplitFeeUser, SaveSplitFeeUser, TypeInv
  <2> QED
    BY <1>2, <1>5, <2>1 DEF PublishCreate, AskVault, CreateVaultUser, SearchSplitFeeUser,
                            SaveSplitFeeUser, TypeInv
<1>6. ASSUME NEW r \in Replicas, NEW l \in Logins, CreateUser(r, l)
      PROVE  \A k \in Logins : Untroubled(k)'
  <2>1. Untroubled(l)'
    BY <1>6 DEF CreateUser, TypeInv
  <2> QED
    BY <1>2, <1>6, <2>1 DEF CreateUser, TypeInv
<1>7. ASSUME NEW l \in Logins, StoreKey(l) PROVE \A k \in Logins : Untroubled(k)'
  <2>1. Untroubled(l)'
    BY <1>7 DEF StoreKey, TypeInv
  <2> QED
    BY <1>2, <1>7, <2>1 DEF StoreKey, TypeInv
<1>8. ASSUME NEW l \in Logins, VaultFails(l) \/ SetupFails(l) \/ LoginFails(l) \/ Die(l) PROVE FALSE
  BY <1>1, <1>8 DEF VaultFails, SetupFails, LoginFails, Die
<1>9. ASSUME NEW l \in Logins, Rollback(l) PROVE FALSE
  BY <1>9 DEF Rollback
<1>10. CASE UNCHANGED vars
  BY <1>10 DEF vars
<1> QED
  BY <1>3, <1>4, <1>5, <1>6, <1>7, <1>8, <1>9, <1>10 DEF Next, Step

(* Without failures whoever is let in has a document with a key, also who  *)
(* came in while another of the person's requests was still setting it up. *)
THEOREM EverybodyHasKey == Spec => []KeyedUnlessFailure
<1>1. Init => UntroubledInv
  BY DEF Init, UntroubledInv, Untroubled, Setup, Keyed
<1>2. UntroubledInv => KeyedUnlessFailure
  BY DEF UntroubledInv, Untroubled, Keyed, KeyedUnlessFailure, At
<1> QED
  BY <1>1, <1>2, LoginInvariance, UntroubledStep, PTL DEF Spec
=============================================================================
