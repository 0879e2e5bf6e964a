-------------------------- MODULE RedisLockProofs --------------------------
(* Theorems about RedisLock, for any clients, requests, secrets and leases. *)
EXTENDS RedisLock, TLAPS

USE LeaseAssumption, RequestAssumption, NoneAssumption

(* _create_pk_for_lock always yields one of the keys asked for. *)
LEMMA LockIdIsKey == ASSUME NEW r \in Request PROVE LockId(r) \in Key
  BY DEF Key

(* Two requests share a lock exactly if they are about the same resource.  *)
LEMMA LockIdIsResource ==
  ASSUME NEW r1 \in Request, NEW r2 \in Request
  PROVE  LockId(r1) = LockId(r2) <=> SameResource(r1, r2)
<1>1. "op" # "target"
  OBVIOUS
<1>2. CASE r1.target = None /\ r2.target = None
  BY <1>2 DEF LockId, SameResource
<1>3. CASE r1.target # None /\ r2.target # None
  BY <1>3 DEF LockId, SameResource
<1>4. CASE r1.target = None /\ r2.target # None
  BY <1>1, <1>4 DEF LockId, SameResource
<1>5. CASE r1.target # None /\ r2.target = None
  BY <1>1, <1>5 DEF LockId, SameResource
<1> QED
  BY <1>2, <1>3, <1>4, <1>5

(* Nothing is locked, nobody has a lock: well typed. *)
LEMMA InitTypeOK == Init => TypeOK
<1> SUFFICES ASSUME Init PROVE TypeOK
  OBVIOUS
<1>1. Absent \in Entry /\ NoLock \in Handle
  BY DEF Absent, Entry, NoLock, Handle
<1>2. (CHOOSE x \in Call : x.how = "acquire") \in Call
  <2>1. PICK r \in Request : TRUE
    OBVIOUS
  <2>2. [how |-> "acquire", req |-> r, lease |-> 1] \in Call
    BY <2>1 DEF Call, Lease
  <2> QED
    BY <2>2
<1>3. store \in [Key -> Entry] /\ lock \in [Client -> Handle]
  BY <1>1 DEF Init
<1>4. call \in [Client -> Call]
  BY <1>2 DEF Init
<1>5. pc \in [Client -> Phase]
  BY DEF Init, Phase, Resting
<1>6. waited \in [Client -> 0..(WaitingTimeout + 1)] /\ newExp \in [Client -> 0..MaxLease]
  BY DEF Init
<1> QED
  BY <1>3, <1>4, <1>5, <1>6 DEF TypeOK

(* Every step of every variant of the specification keeps the types. *)
LEMMA StepTypeOK == TypeOK /\ [Next]_vars => TypeOK'
<1> SUFFICES ASSUME TypeOK, [Next]_vars PROVE TypeOK'
  OBVIOUS
<1> USE DEF TypeOK, Phase, Resting, Waiting, Inside, Goto
<1>a. Absent \in Entry /\ NoLock \in Handle
  BY DEF Absent, Entry, NoLock, Handle
<1>b. ASSUME NEW c \in Client, NEW r \in Request, NEW n \in Lease, BuildLock(c, r, n)
      PROVE  lock' \in [Client -> Handle]
  BY <1>b, LockIdIsKey DEF BuildLock, Handle, Lease
<1>1. CASE AdminStep
  BY <1>a, <1>1 DEF AdminStep, CleanAllLocks, AdminDelete
<1>2. CASE Tick
  <2>1. \A n \in 0..MaxLease : Down(n) \in 0..MaxLease
    BY DEF Down
  <2>2. ASSUME NEW e \in Entry PROVE Aged(e) \in Entry
    <3>1. CASE e.ttl <= 1
      BY <1>a, <3>1 DEF Aged
    <3>2. CASE ~(e.ttl <= 1)
      <4>1. e.ttl - 1 \in 0..MaxLease /\ Down(e.exp) \in 0..MaxLease
        BY <2>1, <3>2 DEF Entry
      <4>2. Aged(e) = [e EXCEPT !.ttl = e.ttl - 1, !.exp = Down(e.exp)]
        BY <3>2 DEF Aged
      <4> QED
        BY <4>1, <4>2 DEF Entry
    <3> QED
      BY <3>1, <3>2
  <2>3. store' \in [Key -> Entry]
    BY <1>2, <2>2 DEF Tick
  <2>4. lock' \in [Client -> Handle]
    BY <1>2, <2>1 DEF Tick, Handle
  <2>5. newExp' \in [Client -> 0..MaxLease]
    BY <1>2, <2>1 DEF Tick
  <2>6. waited' \in [Client -> 0..(WaitingTimeout + 1)]
    BY <1>2 DEF Tick, Elapsed
  <2> QED
    BY <1>2, <2>3, <2>4, <2>5, <2>6 DEF Tick
<1>3. ASSUME NEW c \in Client, ClientStep(c) PROVE TypeOK'
  <2>1. ASSUME NEW how \in {"acquire", "wait"}, NEW r \in Request, NEW n \in Lease,
               BeginAcquire(c, how, r, n)
        PROVE  TypeOK'
    <3>1. [how |-> how, req |-> r, lease |-> n] \in Call
      BY DEF Call
    <3>2. lock' \in [Client -> Handle]
      BY <1>b, <2>1 DEF BeginAcquire
    <3>3. call' \in [Client -> Call]
      BY <2>1, <3>1 DEF BeginAcquire
    <3>4. pc' \in [Client -> Phase]
      BY <2>1 DEF BeginAcquire
    <3> QED
      BY <2>1, <3>2, <3>3, <3>4 DEF BeginAcquire
  <2>2. CASE Granted(c)
    <3>1. Stored(lock[c]) \in Entry
      BY <1>a DEF Stored, Entry, Handle
    <3>2. store' \in [Key -> Entry]
      BY <2>2, <3>1 DEF Granted
    <3>3. waited' \in [Client -> 0..(WaitingTimeout + 1)] /\ pc' \in [Client -> Phase]
      BY <2>2 DEF Granted
    <3> QED
      BY <2>2, <3>2, <3>3 DEF Granted
  <2>3. CASE Denied(c)
    BY <1>a, <2>3 DEF Denied
  <2>4. CASE CheckDeadline(c)
    BY <2>4 DEF CheckDeadline
  <2>5. CASE Retry(c)
    <3>1. call[c].req \in Request /\ call[c].lease \in Lease
      BY DEF Call
    <3> QED
      BY <1>b, <2>5, <3>1 DEF Retry
  <2>6. ASSUME NEW r \in Request, GetLock(c, r) PROVE TypeOK'
    <3>1. lock' \in [Client -> Handle]
      BY <1>a, <2>6, LockIdIsKey DEF GetLock, Handle, Entry
    <3> QED
      BY <2>6, <3>1 DEF GetLock
  <2>7. CASE ReleaseGet(c)
    BY <2>7 DEF ReleaseGet
  <2>8. CASE ReleaseDelete(c)
    BY <1>a, <2>8 DEF ReleaseDelete
  <2>9. ASSUME NEW n \in Lease, ExtendGet(c, n) PROVE TypeOK'
    BY <2>9 DEF ExtendGet, Lease
  <2>10. CASE ExtendSet(c)
    <3>1. \A e \in Entry : Expiring(e, newExp[c]) \in Entry
      BY <1>a DEF Expiring, Entry
    <3>2. store' \in [Key -> Entry]
      BY <2>10, <3>1 DEF ExtendSet
    <3>3. lock' \in [Client -> Handle]
      BY <2>10 DEF ExtendSet, Handle
    <3> QED
      BY <2>10, <3>2, <3>3 DEF ExtendSet
  <2>11. CASE Crash(c)
    BY <1>a, <2>11 DEF Crash
  <2> QED
    BY <1>3, <2>1, <2>2, <2>3, <2>4, <2>5, <2>6, <2>7, <2>8, <2>9, <2>10, <2>11 DEF ClientStep
<1>4. CASE UNCHANGED vars
  BY <1>4 DEF vars
<1> QED
  BY <1>1, <1>2, <1>3, <1>4 DEF Next

(* Every reachable state is well typed, whatever operators and clients do. *)
THEOREM TypeCorrect == Spec => []TypeOK
  BY InitTypeOK, StepTypeOK, PTL DEF Spec

(* What one command does to a key that is there: it keeps the secret or    *)
(* drops the key.                                                          *)
LEMMA SecretStays ==
  ASSUME TypeOK, [Next]_vars, NEW k \in Key, store[k].ttl > 0, store'[k].ttl > 0
  PROVE  store'[k].secret = store[k].secret
<1>1. store \in [Key -> Entry] /\ store[k] \in Entry
  BY DEF TypeOK
<1>2. CASE UNCHANGED store
  BY <1>2
<1>3. CASE AdminStep
  BY <1>1, <1>3 DEF AdminStep, AdminDelete, CleanAllLocks, Absent
<1>4. CASE Tick
  <2>1. store'[k] = Aged(store[k])
    BY <1>4 DEF Tick
  <2> QED
    BY <1>1, <2>1 DEF Aged, Absent, Entry
<1>5. ASSUME NEW c \in Client, Granted(c) PROVE store'[k].secret = store[k].secret
  <2>1. k # lock[c].id
    BY <1>1, <1>5 DEF Granted, KeyIsFree, Entry
  <2> QED
    BY <1>1, <1>5, <2>1 DEF Granted
<1>6. ASSUME NEW c \in Client, ReleaseDelete(c) PROVE store'[k].secret = store[k].secret
  BY <1>1, <1>6 DEF ReleaseDelete, Absent
<1>7. ASSUME NEW c \in Client, ExtendSet(c) PROVE store'[k].secret = store[k].secret
  <2>1. CASE k = lock[c].id
    <3>1. store'[k] = Expiring(store[k], newExp[c])
      BY <1>1, <1>7, <2>1 DEF ExtendSet
    <3> QED
      BY <1>1, <3>1 DEF Expiring, Absent, Entry
  <2>2. CASE k # lock[c].id
    BY <1>1, <1>7, <2>2 DEF ExtendSet
  <2> QED
    BY <2>1, <2>2
<1>8. ASSUME NEW c \in Client, ClientStep(c), ~Granted(c), ~ReleaseDelete(c), ~ExtendSet(c)
      PROVE  UNCHANGED store
  BY <1>8 DEF ClientStep, BeginAcquire, Denied, CheckDeadline, Retry, GetLock, ReleaseGet,
       ExtendGet, Crash
<1>9. CASE UNCHANGED vars
  BY <1>2, <1>9 DEF vars
<1> QED
  BY <1>2, <1>3, <1>4, <1>5, <1>6, <1>7, <1>8, <1>9 DEF Next

(* No lock is ever taken over: between two holders of a key there is a     *)
(* moment without it, whatever operators, clients and leases do.           *)
THEOREM NeverTakenOver == Spec => NoTakeover
<1>1. TypeOK /\ [Next]_vars => [\A k \in Key : store[k].ttl > 0 /\ store'[k].ttl > 0
                                => store'[k].secret = store[k].secret]_vars
  BY SecretStays
<1> QED
  BY <1>1, TypeCorrect, PTL DEF Spec, NoTakeover

-----------------------------------------------------------------------------
(* PromptInv, one action at a time. *)

(* A new lock object: fresh secret, not sent, not owned. *)
LEMMA BeginAcquireSafe ==
  ASSUME PromptInv, TypeOK', NEW c \in Client,
         NEW how \in {"acquire", "wait"}, NEW r \in Request, NEW n \in Lease,
         BeginAcquire(c, how, r, n)
  PROVE  PromptInv'
<1> USE DEF PromptInv, BeginAcquire, Goto
<1>1. StoreNormal'
  BY DEF StoreNormal
<1>2. SecretsDistinct'
  BY DEF BuildLock, Fresh, SecretsDistinct
<1>3. LockOfCall' /\ UserHasSecret'
  BY DEF TypeOK, BuildLock, LockOfCall, UserHasSecret
<1>4. UnsentIsUnknown'
  BY DEF TypeOK, BuildLock, Fresh, UnsentIsUnknown
<1>5. PendingIsOwned'
  BY DEF TypeOK, Owns, HasLock, BuildLock, PendingIsOwned
<1>6. RunningIsOwned'
  BY DEF Owns, HasLock, BuildLock, Resting, Inside, RunningIsOwned
<1>7. OwnedIsUsed'
  BY DEF TypeOK, Owns, HasLock, BuildLock, Fresh, Handle, OwnedIsUsed
<1> QED
  BY <1>1, <1>2, <1>3, <1>4, <1>5, <1>6, <1>7

(* The key was free, so nobody owned it; now the client may. *)
LEMMA GrantedSafe ==
  ASSUME PromptInv, TypeOK', NEW c \in Client,
         Granted(c)
  PROVE  PromptInv'
<1> USE DEF PromptInv, Granted, Goto
<1>1. StoreNormal'
  BY DEF Stored, KeyIsFree, UserHasSecret, StoreNormal
<1>2. SecretsDistinct' /\ LockOfCall' /\ UserHasSecret'
  BY DEF SecretsDistinct, LockOfCall, UserHasSecret
<1>3. UnsentIsUnknown'
  BY DEF TypeOK, Stored, KeyIsFree, StoreNormal, SecretsDistinct,
         UserHasSecret, UnsentIsUnknown
<1>4. PendingIsOwned'
  BY DEF TypeOK, Owns, HasLock, Absent, KeyIsFree, StoreNormal, PendingIsOwned
<1>5. RunningIsOwned'
  BY DEF TypeOK, Owns, HasLock, Stored, KeyIsFree, UserHasSecret, OwnedIsUsed,
         RunningIsOwned
<1>6. OwnedIsUsed'
  BY DEF TypeOK, Owns, HasLock, Stored, KeyIsFree, Inside, StoreNormal,
         SecretsDistinct, OwnedIsUsed
<1> QED
  BY <1>1, <1>2, <1>3, <1>4, <1>5, <1>6

(* The lock object is thrown away unsent. *)
LEMMA DeniedSafe ==
  ASSUME PromptInv, TypeOK', NEW c \in Client,
         Denied(c)
  PROVE  PromptInv'
<1> USE DEF PromptInv, Denied, Goto
<1>1. StoreNormal'
  BY DEF StoreNormal
<1>2. SecretsDistinct' /\ LockOfCall'
  BY DEF NoLock, SecretsDistinct, LockOfCall
<1>3. UserHasSecret'
  BY DEF TypeOK, Inside, UserHasSecret
<1>4. UnsentIsUnknown'
  BY DEF TypeOK, UnsentIsUnknown
<1>5. PendingIsOwned'
  BY DEF Owns, HasLock, PendingIsOwned
<1>6. RunningIsOwned' /\ OwnedIsUsed'
  BY DEF TypeOK, Owns, HasLock, NoLock, RunningIsOwned, OwnedIsUsed
<1> QED
  BY <1>1, <1>2, <1>3, <1>4, <1>5, <1>6

(* Only the program counter moves, among phases that own nothing. *)
LEMMA CheckDeadlineSafe ==
  ASSUME PromptInv, TypeOK', NEW c \in Client,
         CheckDeadline(c)
  PROVE  PromptInv'
<1> USE DEF PromptInv, CheckDeadline, Goto
<1>1. StoreNormal' /\ SecretsDistinct' /\ LockOfCall'
  BY DEF StoreNormal, SecretsDistinct, LockOfCall
<1>2. UserHasSecret'
  BY DEF TypeOK, Inside, UserHasSecret
<1>3. UnsentIsUnknown'
  BY DEF TypeOK, UnsentIsUnknown
<1>4. PendingIsOwned'
  BY DEF TypeOK, Owns, HasLock, PendingIsOwned
<1>5. RunningIsOwned' /\ OwnedIsUsed'
  BY DEF TypeOK, Owns, HasLock, Inside, RunningIsOwned, OwnedIsUsed
<1> QED
  BY <1>1, <1>2, <1>3, <1>4, <1>5

(* As for the first attempt: a new lock object. *)
LEMMA RetrySafe ==
  ASSUME PromptInv, TypeOK', NEW c \in Client,
         Retry(c)
  PROVE  PromptInv'
<1> USE DEF PromptInv, Retry, Goto
<1>1. StoreNormal'
  BY DEF StoreNormal
<1>2. SecretsDistinct'
  BY DEF BuildLock, Fresh, SecretsDistinct
<1>3. LockOfCall'
  BY DEF BuildLock, LockOfCall
<1>4. UserHasSecret'
  BY DEF TypeOK, BuildLock, UserHasSecret
<1>5. UnsentIsUnknown'
  BY DEF TypeOK, BuildLock, Fresh, UnsentIsUnknown
<1>6. PendingIsOwned'
  BY DEF Owns, HasLock, BuildLock, PendingIsOwned
<1>7. RunningIsOwned'
  BY DEF Owns, HasLock, BuildLock, Inside, RunningIsOwned
<1>8. OwnedIsUsed'
  BY DEF TypeOK, Owns, HasLock, BuildLock, Fresh, Handle, OwnedIsUsed
<1> QED
  BY <1>1, <1>2, <1>3, <1>4, <1>5, <1>6, <1>7, <1>8

(* A lock object without a secret owns nothing. *)
LEMMA GetLockSafe ==
  ASSUME PromptInv, TypeOK', NEW c \in Client,
         NEW r \in Request, GetLock(c, r)
  PROVE  PromptInv'
<1> USE DEF PromptInv, GetLock, Goto
<1>1. StoreNormal'
  BY DEF StoreNormal
<1>2. SecretsDistinct' /\ LockOfCall'
  BY DEF NoLock, SecretsDistinct, LockOfCall
<1>3. UserHasSecret'
  BY DEF Resting, Inside, UserHasSecret
<1>4. UnsentIsUnknown'
  BY DEF TypeOK, UnsentIsUnknown
<1>5. PendingIsOwned'
  BY DEF TypeOK, Owns, HasLock, PendingIsOwned
<1>6. RunningIsOwned'
  BY DEF Owns, HasLock, Resting, Inside, RunningIsOwned
<1>7. OwnedIsUsed'
  BY DEF TypeOK, Owns, HasLock, NoLock, OwnedIsUsed
<1> QED
  BY <1>1, <1>2, <1>3, <1>4, <1>5, <1>6, <1>7

(* A client that goes on to delete has just seen its own secret; the others leave without owning anything. *)
LEMMA ReleaseGetSafe ==
  ASSUME PromptInv, TypeOK', NEW c \in Client,
         ReleaseGet(c)
  PROVE  PromptInv'
<1> USE DEF PromptInv, ReleaseGet, Goto
<1>1. StoreNormal' /\ SecretsDistinct' /\ LockOfCall'
  BY DEF StoreNormal, SecretsDistinct, LockOfCall
<1>2. UserHasSecret'
  BY DEF TypeOK, HasLock, SecretMatches, Inside, Handle, StoreNormal,
         UserHasSecret
<1>3. UnsentIsUnknown'
  BY DEF TypeOK, UnsentIsUnknown
<1>4. PendingIsOwned'
  BY DEF TypeOK, Owns, HasLock, SecretMatches, Handle, StoreNormal,
         PendingIsOwned
<1>5. RunningIsOwned'
  BY DEF TypeOK, Owns, HasLock, SecretMatches, Inside, Handle, StoreNormal,
         RunningIsOwned
<1>6. OwnedIsUsed'
  BY DEF TypeOK, Owns, HasLock, Absent, SecretMatches, Handle, StoreNormal,
         OwnedIsUsed
<1> QED
  BY <1>1, <1>2, <1>3, <1>4, <1>5, <1>6

(* The client owns what it deletes, so nobody else does. *)
LEMMA ReleaseDeleteSafe ==
  ASSUME PromptInv, TypeOK', NEW c \in Client,
         ReleaseDelete(c)
  PROVE  PromptInv'
<1> USE DEF PromptInv, ReleaseDelete, Goto
<1>1. StoreNormal'
  BY DEF Absent, StoreNormal
<1>2. SecretsDistinct' /\ LockOfCall' /\ UserHasSecret'
  BY DEF SecretsDistinct, LockOfCall, UserHasSecret
<1>3. UnsentIsUnknown'
  BY DEF Absent, UserHasSecret, UnsentIsUnknown
<1>4. PendingIsOwned'
  BY DEF TypeOK, Owns, HasLock, SecretsDistinct, PendingIsOwned
<1>5. RunningIsOwned'
  BY DEF TypeOK, Owns, HasLock, Inside, SecretsDistinct, PendingIsOwned,
         RunningIsOwned
<1>6. OwnedIsUsed'
  BY DEF TypeOK, Owns, HasLock, Absent, OwnedIsUsed
<1> QED
  BY <1>1, <1>2, <1>3, <1>4, <1>5, <1>6

(* A client that goes on has just seen its own secret. *)
LEMMA ExtendGetSafe ==
  ASSUME PromptInv, TypeOK', NEW c \in Client,
         NEW n \in Lease, ExtendGet(c, n)
  PROVE  PromptInv'
<1> USE DEF PromptInv, ExtendGet, Goto
<1>1. StoreNormal' /\ SecretsDistinct' /\ LockOfCall'
  BY DEF StoreNormal, SecretsDistinct, LockOfCall
<1>2. UserHasSecret'
  BY DEF TypeOK, HasLock, SecretMatches, Inside, Handle, StoreNormal,
         UserHasSecret
<1>3. UnsentIsUnknown'
  BY DEF TypeOK, UnsentIsUnknown
<1>4. PendingIsOwned'
  BY DEF TypeOK, Owns, HasLock, SecretMatches, Handle, StoreNormal,
         PendingIsOwned
<1>5. RunningIsOwned'
  BY DEF TypeOK, Owns, HasLock, SecretMatches, Inside, Handle, StoreNormal,
         RunningIsOwned
<1>6. OwnedIsUsed'
  <2>1. CASE SecretMatches(c)
    <3>1. Owns(c)
      BY <2>1 DEF TypeOK, SecretMatches, Owns, HasLock, StoreNormal, Handle
    <3>2. \A d \in Client : Owns(d)' <=> Owns(d)
      BY DEF Owns, HasLock
    <3>3. \A d \in Client : pc'[d] = IF d = c THEN "extending" ELSE pc[d]
      BY <2>1 DEF TypeOK
    <3> QED
      BY <3>1, <3>2, <3>3 DEF OwnedIsUsed, Inside
  <2>2. CASE ~SecretMatches(c)
    <3>1. ~Owns(c)
      <4> SUFFICES ASSUME Owns(c) PROVE FALSE
        OBVIOUS
      <4>1. lock[c].id \in Key
        BY DEF TypeOK, Owns, HasLock, Handle
      <4>2. store[lock[c].id].ttl # 0
        BY <4>1 DEF Owns, StoreNormal, Absent
      <4> QED
        BY <2>2, <4>1, <4>2 DEF SecretMatches, Owns, TypeOK, Entry
    <3>2. \A d \in Client : Owns(d)' <=> Owns(d)
      BY DEF Owns, HasLock
    <3> QED
      BY <2>2, <3>1, <3>2 DEF TypeOK, OwnedIsUsed
  <2> QED
    BY <2>1, <2>2
<1> QED
  BY <1>1, <1>2, <1>3, <1>4, <1>5, <1>6

(* The client owns what it prolongs, so nobody else does. *)
LEMMA ExtendSetSafe ==
  ASSUME PromptInv, TypeOK', NEW c \in Client,
         ExtendSet(c)
  PROVE  PromptInv'
<1> USE DEF PromptInv, ExtendSet, Goto
<1>1. StoreNormal'
  BY DEF Absent, Expiring, StoreNormal
<1>2. SecretsDistinct' /\ LockOfCall'
  BY DEF SecretsDistinct, LockOfCall
<1>3. UserHasSecret'
  BY DEF Inside, UserHasSecret
<1>4. UnsentIsUnknown'
  BY DEF Absent, Expiring, UserHasSecret, UnsentIsUnknown
<1>5. PendingIsOwned'
  BY DEF TypeOK, Owns, HasLock, SecretsDistinct, PendingIsOwned
<1>6. RunningIsOwned'
  BY DEF TypeOK, Owns, HasLock, Expiring, StoreNormal, SecretsDistinct,
         PendingIsOwned, RunningIsOwned
<1>7. OwnedIsUsed'
  BY DEF TypeOK, Owns, HasLock, Absent, Expiring, Inside, SecretsDistinct,
         PendingIsOwned, OwnedIsUsed
<1> QED
  BY <1>1, <1>2, <1>3, <1>4, <1>5, <1>6, <1>7

(* The lock object is gone, and with it the client's ownership. *)
LEMMA CrashSafe ==
  ASSUME PromptInv, TypeOK', NEW c \in Client,
         Crash(c)
  PROVE  PromptInv'
<1> USE DEF PromptInv, Crash, Goto
<1>1. StoreNormal'
  BY DEF StoreNormal
<1>2. SecretsDistinct' /\ LockOfCall'
  BY DEF NoLock, SecretsDistinct, LockOfCall
<1>3. UserHasSecret'
  BY DEF TypeOK, Inside, UserHasSecret
<1>4. UnsentIsUnknown'
  BY DEF TypeOK, UnsentIsUnknown
<1>5. PendingIsOwned'
  BY DEF TypeOK, Owns, HasLock, PendingIsOwned
<1>6. RunningIsOwned' /\ OwnedIsUsed'
  BY DEF TypeOK, Owns, HasLock, NoLock, RunningIsOwned, OwnedIsUsed
<1> QED
  BY <1>1, <1>2, <1>3, <1>4, <1>5, <1>6

(* Time leaves an entry as it is but for the time left, or removes it. *)
LEMMA AgedFields ==
  ASSUME NEW e \in Entry
  PROVE  /\ e.ttl <= 1 => Aged(e) = Absent
         /\ e.ttl > 1 => Aged(e).secret = e.secret /\ Aged(e).ttl = e.ttl - 1
<1>1. CASE e.ttl <= 1
  BY <1>1 DEF Aged, Entry
<1>2. CASE e.ttl > 1
  <2>1. Aged(e) = [e EXCEPT !.ttl = e.ttl - 1, !.exp = Down(e.exp)]
    BY <1>2 DEF Aged, Entry
  <2> QED
    BY <1>2, <2>1 DEF Entry
<1> QED
  BY <1>1, <1>2 DEF Entry

(* No lease lapses between two commands; what else lapses, nobody relies on. *)
LEMMA PromptTickSafe ==
  ASSUME PromptInv, TypeOK', PromptTick
  PROVE  PromptInv'
<1> USE DEF PromptInv
<1>1. /\ pc' = pc /\ call' = call
      /\ store' = [k \in Key |-> Aged(store[k])]
      /\ lock' = [c \in Client |-> [lock[c] EXCEPT !.left = Down(lock[c].left)]]
      /\ \A c \in Client : pc[c] \in {"extending", "deleting"} => lock[c].left > 1
  BY DEF PromptTick, Tick
<1>2. ASSUME NEW k \in Key
      PROVE  /\ store[k] \in Entry
             /\ store[k].ttl <= 1 => store'[k] = Absent
             /\ store[k].ttl > 1 => /\ store'[k].secret = store[k].secret
                                    /\ store'[k].ttl = store[k].ttl - 1
  <2>1. store'[k] = Aged(store[k]) /\ store[k] \in Entry
    BY <1>1 DEF TypeOK
  <2> QED
    BY <2>1, AgedFields
<1>3. ASSUME NEW c \in Client
      PROVE  /\ lock'[c].id = lock[c].id
             /\ lock'[c].secret = lock[c].secret
             /\ lock'[c].left = Down(lock[c].left)
  <2>1. lock[c] \in Handle /\ lock'[c] = [lock[c] EXCEPT !.left = Down(lock[c].left)]
    BY <1>1 DEF TypeOK
  <2> QED
    BY <2>1 DEF Handle
<1>4. \A k \in Key : store'[k].secret = store[k].secret \/ store'[k] = Absent
  BY <1>2 DEF Entry
<1>5. SecretsDistinct'
  BY <1>3 DEF SecretsDistinct
<1>6. LockOfCall'
  BY <1>1, <1>3 DEF LockOfCall
<1>7. UserHasSecret'
  BY <1>1, <1>3 DEF UserHasSecret
<1>8. StoreNormal'
  <2> SUFFICES ASSUME NEW k \in Key
               PROVE  IF store'[k].ttl = 0 THEN store'[k] = Absent ELSE store'[k].secret # None
    BY DEF StoreNormal, Absent
  <2>1. CASE store[k].ttl <= 1
    BY <1>2, <2>1 DEF Absent
  <2>2. CASE store[k].ttl > 1
    BY <1>2, <2>2 DEF StoreNormal, Entry
  <2> QED
    BY <1>2, <2>1, <2>2 DEF Entry
<1>9. UnsentIsUnknown'
  BY <1>1, <1>3, <1>4 DEF UnsentIsUnknown, UserHasSecret, Absent
<1>10. ASSUME NEW c \in Client, Owns(c), lock[c].left > 1
      PROVE  Owns(c)' /\ store'[lock[c].id].ttl = store[lock[c].id].ttl - 1
  <2>1. lock[c].id \in Key
    BY <1>10 DEF Owns, HasLock, TypeOK, Handle
  <2>2. store[lock[c].id].ttl > 1
    BY <1>10 DEF OwnedIsUsed
  <2> QED
    BY <1>2, <1>3, <1>10, <2>1, <2>2 DEF Owns, HasLock
<1>11. ASSUME NEW c \in Client, Owns(c)' PROVE Owns(c) /\ lock[c].left > 1
  <2>1. lock[c].id \in Key /\ lock[c].secret # None
    BY <1>3, <1>11 DEF Owns, HasLock, TypeOK, Handle
  <2>2. store'[lock[c].id] # Absent
    BY <1>3, <1>11 DEF Owns, HasLock, Absent
  <2>3. store[lock[c].id].ttl > 1
    BY <1>2, <2>1, <2>2 DEF Entry
  <2>4. Owns(c)
    BY <1>2, <1>3, <1>11, <2>1, <2>3 DEF Owns, HasLock
  <2> QED
    BY <2>3, <2>4 DEF OwnedIsUsed
<1>12. PendingIsOwned'
  BY <1>1, <1>10 DEF PendingIsOwned
<1>13. RunningIsOwned'
  <2> SUFFICES ASSUME NEW c \in Client, pc[c] \in Inside \cup {"deleting"}, lock'[c].left > 0
               PROVE  Owns(c)'
    BY <1>1 DEF RunningIsOwned
  <2>1. lock[c].left \in Nat /\ lock'[c].left = Down(lock[c].left)
    BY <1>3 DEF TypeOK, Handle
  <2>2. lock[c].left > 1
    BY <2>1 DEF Down
  <2>3. Owns(c)
    BY <2>1, <2>2 DEF RunningIsOwned
  <2> QED
    BY <1>10, <2>2, <2>3
<1>14. OwnedIsUsed'
  <2> SUFFICES ASSUME NEW c \in Client, Owns(c)'
               PROVE  /\ pc[c] \in Inside \cup {"deleting"}
                      /\ store'[lock'[c].id].ttl = lock'[c].left
    BY <1>1 DEF OwnedIsUsed
  <2>1. store'[lock[c].id].ttl = store[lock[c].id].ttl - 1
    BY <1>10, <1>11
  <2> QED
    BY <1>3, <1>11, <2>1 DEF OwnedIsUsed, Down, TypeOK, Handle
<1> QED
  BY <1>5, <1>9, <1>12, <1>13, <1>14, <1>8, <1>6, <1>7

(* With nothing locked every part of the inductive invariant holds. *)
LEMMA PromptInit == Init => PromptInv
<1> SUFFICES ASSUME Init PROVE PromptInv
  OBVIOUS
<1>1. TypeOK
  BY InitTypeOK
<1>2. StoreNormal
  BY DEF Init, StoreNormal, Absent
<1>3. \A c \in Client : lock[c] = NoLock /\ pc[c] = "idle" /\ ~Owns(c)
  BY DEF Init, Owns, HasLock, NoLock
<1>4. SecretsDistinct /\ LockOfCall /\ UserHasSecret /\ UnsentIsUnknown
  BY <1>3 DEF SecretsDistinct, LockOfCall, UserHasSecret, UnsentIsUnknown, NoLock, Inside
<1>5. PendingIsOwned /\ RunningIsOwned /\ OwnedIsUsed
  BY <1>3 DEF PendingIsOwned, RunningIsOwned, OwnedIsUsed, Inside
<1> QED
  BY <1>1, <1>2, <1>4, <1>5 DEF PromptInv

(* Each step of a client, and each prompt tick, keeps the invariant. *)
LEMMA PromptStep == PromptInv /\ [PromptNext]_vars => PromptInv'
<1> SUFFICES ASSUME PromptInv, [PromptNext]_vars PROVE PromptInv'
  OBVIOUS
<1>1. TypeOK'
  BY StepTypeOK DEF PromptInv, PromptNext, PromptTick, Next
<1>2. CASE PromptTick
  BY <1>1, <1>2, PromptTickSafe
<1>3. ASSUME NEW c \in Client, ClientStep(c) PROVE PromptInv'
  BY <1>1, <1>3, BeginAcquireSafe, GrantedSafe, DeniedSafe, CheckDeadlineSafe,
     RetrySafe, GetLockSafe, ReleaseGetSafe, ReleaseDeleteSafe,
     ExtendGetSafe, ExtendSetSafe, CrashSafe DEF ClientStep
<1>4. CASE UNCHANGED vars
  BY <1>4 DEF vars, PromptInv, TypeOK, StoreNormal, SecretsDistinct, LockOfCall, UserHasSecret,
              UnsentIsUnknown, PendingIsOwned, RunningIsOwned, OwnedIsUsed, Owns, HasLock
<1> QED
  BY <1>2, <1>3, <1>4 DEF PromptNext

(* If no lease lapses between the two commands of a release or extend_lock, *)
(* the inductive invariant holds, however long bodies run.                  *)
THEOREM PromptInvariant == PromptSpec => []PromptInv
  BY PromptInit, PromptStep, PTL DEF PromptSpec

(* Two owners of locks for the same resource are the same client. *)
LEMMA OwnersDiffer ==
  ASSUME PromptInv, NEW c \in Client, NEW d \in Client, c # d, Owns(c), Owns(d)
  PROVE  ~SameResource(call[c].req, call[d].req)
<1>1. lock[c].id # lock[d].id
  BY DEF PromptInv, SecretsDistinct, Owns
<1>2. lock[c].id = LockId(call[c].req) /\ lock[d].id = LockId(call[d].req)
  BY DEF PromptInv, LockOfCall, Owns
<1>3. call[c].req \in Request /\ call[d].req \in Request
  BY DEF PromptInv, TypeOK, Call
<1> QED
  BY <1>1, <1>2, <1>3, LockIdIsResource

(* Of two clients inside code for the same resource, at most one has a     *)
(* lease that still runs.                                                  *)
THEOREM LeasesExclude == PromptSpec => []LeaseExclusion
<1>1. PromptInv => LeaseExclusion
  BY OwnersDiffer DEF LeaseExclusion, PromptInv, RunningIsOwned
<1> QED
  BY <1>1, PromptInvariant, PTL

(* A lease that runs is in Redis, with the time left that its holder sees. *)
THEOREM RunningLeasesStored == PromptSpec => []RunningLeaseIsStored
<1>1. PromptInv => RunningLeaseIsStored
  BY DEF RunningLeaseIsStored, PromptInv, RunningIsOwned, OwnedIsUsed
<1> QED
  BY <1>1, PromptInvariant, PTL

(* A client between its two commands owns the lock it sends the second for. *)
LEMMA SenderOwns ==
  ASSUME PromptInv, NEW c \in Client, ReleaseDelete(c) \/ ExtendSet(c)
  PROVE  Owns(c)
BY DEF PromptInv, PendingIsOwned, ReleaseDelete, ExtendSet

(* release deletes only the caller's own lock. *)
THEOREM OwnersRelease == PromptSpec => OnlyOwnerReleases
<1>1. PromptInv /\ [PromptNext]_vars
      => [\A c \in Client : ReleaseDelete(c) => Owns(c) \/ store[lock[c].id] = Absent]_vars
  BY SenderOwns
<1> QED
  BY <1>1, PromptInvariant, PTL DEF PromptSpec, OnlyOwnerReleases

(* extend_lock prolongs only the caller's own lock, which is still there. *)
THEOREM OwnersExtend == PromptSpec => OnlyOwnerExtends
<1>1. PromptInv /\ [PromptNext]_vars
      => [\A c \in Client : ExtendSet(c) => Owns(c)]_vars
  BY SenderOwns
<1> QED
  BY <1>1, PromptInvariant, PTL DEF PromptSpec, OnlyOwnerExtends

-----------------------------------------------------------------------------
(* Punctual clients: every use of a lock is shorter than its lease. *)

(* A punctual client is a prompt one. *)
LEMMA PunctualIsPrompt == [PunctualNext]_vars => [PromptNext]_vars
  BY DEF PunctualNext, PunctualTick, PromptNext, PromptTick, Inside

(* A client asks for a lease of at least one unit, and prolongs by as much. *)
LEMMA ClientLeaseNotOver ==
  ASSUME PunctualInv, NEW c \in Client, ClientStep(c)
  PROVE  LeaseNotOver'
<1> USE DEF PunctualInv, PromptInv, TypeOK, LeaseNotOver, Goto, Inside, Handle
<1>1. ASSUME NEW how \in {"acquire", "wait"}, NEW r \in Request, NEW n \in Lease,
             BeginAcquire(c, how, r, n)
      PROVE  LeaseNotOver'
  BY <1>1 DEF BeginAcquire, BuildLock, Lease
<1>2. CASE Granted(c)
  BY <1>2 DEF Granted
<1>3. CASE Denied(c)
  BY <1>3 DEF Denied
<1>4. CASE CheckDeadline(c)
  BY <1>4 DEF CheckDeadline
<1>5. CASE Retry(c)
  BY <1>5 DEF Retry, BuildLock, Call, Lease
<1>6. ASSUME NEW r \in Request, GetLock(c, r) PROVE LeaseNotOver'
  BY <1>6 DEF GetLock, Resting
<1>7. ASSUME SecretMatches(c), HasLock(c) PROVE lock[c].left > 0
  <2>1. Owns(c)
    BY <1>7 DEF SecretMatches, HasLock, Owns, StoreNormal
  <2> QED
    BY <2>1 DEF OwnedIsUsed
<1>8. CASE ReleaseGet(c)
  BY <1>7, <1>8 DEF ReleaseGet
<1>9. CASE ReleaseDelete(c)
  BY <1>9 DEF ReleaseDelete
<1>10. ASSUME NEW n \in Lease, ExtendGet(c, n) PROVE LeaseNotOver'
  BY <1>7, <1>10 DEF ExtendGet, Lease
<1>11. CASE ExtendSet(c)
  BY <1>11 DEF ExtendSet
<1>12. CASE Crash(c)
  BY <1>12 DEF Crash
<1> QED
  BY <1>1, <1>2, <1>3, <1>4, <1>5, <1>6, <1>8, <1>9, <1>10, <1>11, <1>12 DEF ClientStep

(* Punctual clients stay within their leases. *)
LEMMA PunctualStep == PunctualInv /\ [PunctualNext]_vars => PunctualInv'
<1> SUFFICES ASSUME PunctualInv, [PunctualNext]_vars PROVE PunctualInv'
  OBVIOUS
<1>1. PromptInv'
  BY PunctualIsPrompt, PromptStep DEF PunctualInv
<1>2. CASE PunctualTick
  <2>1. /\ pc' = pc
        /\ \A c \in Client : /\ pc[c] \in Inside \cup {"setting", "deleting"} => lock[c].left > 1
                             /\ pc[c] = "extending" => newExp[c] > 1
    BY <1>2 DEF PunctualTick, Tick
  <2>2. ASSUME NEW c \in Client
        PROVE  lock'[c].left = Down(lock[c].left) /\ newExp'[c] = Down(newExp[c])
    BY <1>2 DEF PunctualTick, Tick, PunctualInv, PromptInv, TypeOK, Handle
  <2>3. \A c \in Client : lock[c].left \in Nat /\ newExp[c] \in Nat
    BY DEF PunctualInv, PromptInv, TypeOK, Handle
  <2>4. \A n \in Nat : n > 1 => Down(n) > 0
    BY DEF Down
  <2>5. LeaseNotOver'
    <3> SUFFICES ASSUME NEW c \in Client
                 PROVE  /\ pc[c] \in Inside \cup {"setting", "deleting"} => lock'[c].left > 0
                        /\ pc[c] = "extending" => newExp'[c] > 0
      BY <2>1 DEF LeaseNotOver
    <3>1. lock[c].left > 1 => lock'[c].left > 0
      BY <2>2, <2>3, <2>4
    <3>2. newExp[c] > 1 => newExp'[c] > 0
      BY <2>2, <2>3, <2>4
    <3> QED
      BY <2>1, <3>1, <3>2
  <2> QED
    BY <1>1, <2>5 DEF PunctualInv
<1>3. ASSUME NEW c \in Client, ClientStep(c) PROVE PunctualInv'
  BY <1>1, <1>3, ClientLeaseNotOver DEF PunctualInv
<1>4. CASE UNCHANGED vars
  BY <1>1, <1>4 DEF vars, PunctualInv, LeaseNotOver
<1> QED
  BY <1>2, <1>3, <1>4 DEF PunctualNext

(* If every use of a lock is shorter than its lease, no lease that a client *)
(* asked for or uses is ever over, and the prompt invariant holds as well.  *)
THEOREM PunctualInvariant == PunctualSpec => []PunctualInv
<1>1. Init => PunctualInv
  BY PromptInit DEF Init, PunctualInv, LeaseNotOver, Inside
<1> QED
  BY <1>1, PunctualStep, PTL DEF PunctualSpec

(* Bodies for the same resource never run at the same time. *)
THEOREM BodiesExclude == PunctualSpec => []MutualExclusion
<1>1. PunctualInv => MutualExclusion
  BY OwnersDiffer DEF MutualExclusion, PunctualInv, LeaseNotOver, PromptInv, RunningIsOwned
<1> QED
  BY <1>1, PunctualInvariant, PTL

(* The release of a client within its lease never raises ValueError. *)
THEOREM OwnersNotRefused == PunctualSpec => OwnerNotRefused
<1>1. ASSUME PunctualInv, PunctualNext, NEW c \in Client, pc[c] = "section"
      PROVE  pc'[c] # "refused"
  <2>0. PromptInv /\ TypeOK /\ LeaseNotOver
    BY <1>1 DEF PunctualInv, PromptInv
  <2>1. Owns(c) /\ lock[c].id \in Key
    BY <1>1, <2>0 DEF PromptInv, TypeOK, LeaseNotOver, RunningIsOwned, Inside, Owns, HasLock, Handle
  <2>2. SecretMatches(c)
    <3>1. store[lock[c].id] \in Entry
      BY <2>0, <2>1 DEF TypeOK
    <3>2. store[lock[c].id] # Absent
      BY <2>1 DEF Owns, Absent
    <3>3. store[lock[c].id].ttl > 0
      BY <2>0, <2>1, <3>1, <3>2 DEF PromptInv, StoreNormal, Entry
    <3> QED
      BY <2>1, <3>3 DEF Owns, SecretMatches
  <2>3. CASE PunctualTick
    BY <1>1, <2>3 DEF PunctualTick, Tick
  <2>4. ASSUME NEW d \in Client, ClientStep(d) PROVE pc'[c] # "refused"
    BY <1>1, <2>0, <2>2, <2>4
       DEF TypeOK, Goto, ClientStep, BeginAcquire, Granted, Denied, CheckDeadline, Retry, GetLock, ReleaseGet,
           ReleaseDelete, ExtendGet, ExtendSet, Crash, Resting
  <2> QED
    BY <1>1, <2>3, <2>4 DEF PunctualNext
<1>2. PunctualInv /\ [PunctualNext]_vars
      => [\A c \in Client : pc[c] = "section" => pc'[c] # "refused"]_vars
  BY <1>1
<1> QED
  BY <1>2, PunctualInvariant, PTL DEF PunctualSpec, OwnerNotRefused

-----------------------------------------------------------------------------
(* Prompt clients implement LeaseLock. *)

(* What a step of c that leaves Redis alone does to the claims. *)
LEMMA ClaimDropped ==
  ASSUME TypeOK, NEW c \in Client, UNCHANGED store,
         \A d \in Client \ {c} : pc'[d] = pc[d] /\ lock'[d] = lock[d],
         pc'[c] = "setting" \/ lock'[c].secret = None
  PROVE  Promise!Forget(c)
<1>1. LeaseBar' = LeaseBar
  BY DEF LeaseBar
<1>2. ClaimBar' = [ClaimBar EXCEPT ![c] = None]
  BY DEF ClaimBar
<1> QED
  BY <1>1, <1>2 DEF Promise!Forget

(* A step that leaves secrets alone, and starts no acquire, claims the same. *)
LEMMA ClaimKept ==
  ASSUME TypeOK, NEW c \in Client, UNCHANGED <<store, lock>>,
         \A d \in Client \ {c} : pc'[d] = pc[d],
         pc[c] # "setting", pc'[c] # "setting"
  PROVE  UNCHANGED <<LeaseBar, ClaimBar>>
<1>1. LeaseBar' = LeaseBar
  BY DEF LeaseBar
<1>2. ClaimBar' = ClaimBar
  BY DEF ClaimBar
<1> QED
  BY <1>1, <1>2

(* The SET of a prompt client is a grant: its key is free, its secret new. *)
LEMMA GrantedIsGrant ==
  ASSUME PromptInv, NEW c \in Client, Granted(c)
  PROVE  Promise!Grant(c, lock[c].id, lock[c].secret, lock[c].left)
<1> DEFINE k == lock[c].id
           s == lock[c].secret
<1>1. k \in Key /\ s # None /\ lock[c].left \in Nat
  <2>1. s # None /\ k = LockId(call[c].req) /\ call[c].req \in Request
    BY DEF PromptInv, UserHasSecret, LockOfCall, Granted, TypeOK, Call
  <2> QED
    BY <2>1, LockIdIsKey DEF PromptInv, TypeOK, Handle
<1>2. LeaseBar[k] = Promise!Free
  BY <1>1 DEF PromptInv, StoreNormal, Granted, KeyIsFree, LeaseBar, Absent, Promise!Free
<1>3. ~Promise!InUse(s)
  <2>1. \A d \in Client : ClaimBar[d] # s
    BY <1>1 DEF ClaimBar, Granted, PromptInv, SecretsDistinct
  <2>2. \A x \in Key : LeaseBar[x].token # s
    BY DEF LeaseBar, Granted, PromptInv, UnsentIsUnknown
  <2> QED
    BY <2>1, <2>2 DEF Promise!InUse
<1>4. LeaseBar' = [LeaseBar EXCEPT ![k] = Promise!For(s, lock[c].left)]
  BY <1>1 DEF LeaseBar, Granted, Stored, Absent, Promise!For, Promise!Free, PromptInv, TypeOK
<1>5. ClaimBar' = [ClaimBar EXCEPT ![c] = s]
  BY DEF ClaimBar, Granted, Goto, PromptInv, TypeOK
<1> QED
  BY <1>2, <1>3, <1>4, <1>5 DEF Promise!Grant

(* The DELETE of a release gives the client's own lease back. *)
LEMMA DeleteIsGiveBack ==
  ASSUME PromptInv, NEW c \in Client, ReleaseDelete(c)
  PROVE  Promise!GiveBack(c, lock[c].id) /\ lock[c].id \in Key
<1> DEFINE k == lock[c].id
<1>1. Owns(c) /\ k \in Key
  BY DEF PromptInv, PendingIsOwned, ReleaseDelete, Owns, HasLock, TypeOK, Handle
<1>2. Promise!Holds(c, k)
  BY <1>1 DEF Promise!Holds, ClaimBar, LeaseBar, ReleaseDelete, Owns
<1>3. LeaseBar' = [LeaseBar EXCEPT ![k] = Promise!Free]
  BY <1>1 DEF LeaseBar, ReleaseDelete, Absent, Promise!Free, PromptInv, TypeOK
<1>4. ClaimBar' = ClaimBar
  BY DEF ClaimBar, ReleaseDelete, Goto, PromptInv, TypeOK
<1> QED
  BY <1>1, <1>2, <1>3, <1>4 DEF Promise!GiveBack

(* The PEXPIREAT of extend_lock prolongs the client's own lease. *)
LEMMA ExtendIsProlong ==
  ASSUME PromptInv, NEW c \in Client, ExtendSet(c)
  PROVE  Promise!Prolong(c, lock[c].id, newExp[c]) /\ lock[c].id \in Key
<1> DEFINE k == lock[c].id
           n == newExp[c]
<1>1. Owns(c) /\ k \in Key /\ store[k] \in Entry /\ n \in Nat
  BY DEF PromptInv, PendingIsOwned, ExtendSet, Owns, HasLock, TypeOK, Handle
<1>2. Promise!Holds(c, k)
  BY <1>1 DEF Promise!Holds, ClaimBar, LeaseBar, ExtendSet, Owns
<1>3. ClaimBar[c] = store[k].secret /\ store[k].ttl # 0
  BY <1>1 DEF ClaimBar, ExtendSet, Owns, PromptInv, StoreNormal, Absent
<1>4. [token |-> Expiring(store[k], n).secret, left |-> Expiring(store[k], n).ttl]
      = Promise!For(ClaimBar[c], n)
  BY <1>1, <1>3 DEF Expiring, Absent, Promise!For, Promise!Free, Entry
<1>5. LeaseBar' = [LeaseBar EXCEPT ![k] = Promise!For(ClaimBar[c], n)]
  <2>1. store' = [store EXCEPT ![k] = Expiring(store[k], n)]
    BY DEF ExtendSet
  <2> QED
    BY <1>1, <1>4, <2>1 DEF LeaseBar, PromptInv, TypeOK
<1>6. ClaimBar' = ClaimBar
  BY DEF ClaimBar, ExtendSet, Goto, PromptInv, TypeOK, Handle
<1> QED
  BY <1>1, <1>2, <1>5, <1>6 DEF Promise!Prolong

(* Redis drops keys exactly when abstract leases end. *)
LEMMA TickIsPass == ASSUME PromptInv, Tick PROVE Promise!Pass
<1>1. ASSUME NEW k \in Key
      PROVE  LeaseBar'[k] = IF LeaseBar[k].left > 1
                            THEN [LeaseBar[k] EXCEPT !.left = LeaseBar[k].left - 1]
                            ELSE Promise!Free
  <2>1. store'[k] = Aged(store[k]) /\ store[k] \in Entry
    BY DEF Tick, PromptInv, TypeOK
  <2>2. CASE store[k].ttl > 1
    BY <2>1, <2>2, AgedFields DEF LeaseBar
  <2>3. CASE store[k].ttl <= 1
    BY <2>1, <2>3, AgedFields DEF LeaseBar, Absent, Promise!Free
  <2> QED
    BY <2>1, <2>2, <2>3 DEF Entry
<1>2. LeaseBar' = [k \in Key |-> IF LeaseBar[k].left > 1
                                THEN [LeaseBar[k] EXCEPT !.left = LeaseBar[k].left - 1]
                                ELSE Promise!Free]
  BY <1>1 DEF LeaseBar
<1>3. ClaimBar' = ClaimBar
  BY DEF ClaimBar, Tick, PromptInv, TypeOK, Handle
<1> QED
  BY <1>2, <1>3 DEF Promise!Pass

(* Every step of prompt clients is a step of LeaseLock or changes nothing. *)
LEMMA PromiseStep ==
  ASSUME PromptInv, [PromptNext]_vars
  PROVE  [Promise!Next]_<<LeaseBar, ClaimBar>>
<1> USE DEF PromptInv
<1>1. CASE PromptTick
  BY <1>1, TickIsPass DEF PromptTick, Promise!Next
<1>2. ASSUME NEW c \in Client, ClientStep(c) PROVE [Promise!Next]_<<LeaseBar, ClaimBar>>
  <2>1. ASSUME NEW how \in {"acquire", "wait"}, NEW r \in Request, NEW n \in Lease,
               BeginAcquire(c, how, r, n)
        PROVE  Promise!Forget(c)
    BY <2>1, ClaimDropped DEF BeginAcquire, BuildLock, Goto, TypeOK
  <2>2. CASE Granted(c)
    <3>1. lock[c].id \in Key /\ lock[c].secret \in Secret /\ lock[c].left \in 0..MaxLease
      <4>1. lock[c].secret # None /\ lock[c].id = LockId(call[c].req)
        BY <2>2 DEF UserHasSecret, LockOfCall, Granted
      <4> QED
        BY <4>1, LockIdIsKey DEF TypeOK, Handle, Call
    <3> QED
      BY <2>2, <3>1, GrantedIsGrant DEF Promise!Next
  <2>3. CASE Denied(c)
    <3>1. Promise!Forget(c)
      BY <2>3, ClaimDropped DEF Denied, Goto, NoLock, TypeOK
    <3> QED
      BY <3>1 DEF Promise!Next
  <2>4. CASE CheckDeadline(c)
    BY <2>4, ClaimKept DEF CheckDeadline, Goto, TypeOK
  <2>5. CASE Retry(c)
    <3>1. Promise!Forget(c)
      BY <2>5, ClaimDropped DEF Retry, BuildLock, Goto, TypeOK
    <3> QED
      BY <3>1 DEF Promise!Next
  <2>6. ASSUME NEW r \in Request, GetLock(c, r) PROVE Promise!Forget(c)
    BY <2>6, ClaimDropped DEF GetLock, Goto, NoLock, TypeOK
  <2>7. CASE ReleaseGet(c)
    BY <2>7, ClaimKept DEF ReleaseGet, Goto, Resting, TypeOK
  <2>8. CASE ReleaseDelete(c)
    BY <2>8, DeleteIsGiveBack DEF Promise!Next
  <2>9. ASSUME NEW n \in Lease, ExtendGet(c, n) PROVE UNCHANGED <<LeaseBar, ClaimBar>>
    BY <2>9, ClaimKept DEF ExtendGet, Goto, Resting, TypeOK
  <2>10. CASE ExtendSet(c)
    <3>1. newExp[c] \in 0..MaxLease
      BY DEF TypeOK
    <3> QED
      BY <2>10, <3>1, ExtendIsProlong DEF Promise!Next
  <2>11. CASE Crash(c)
    <3>1. Promise!Forget(c)
      BY <2>11, ClaimDropped DEF Crash, Goto, NoLock, TypeOK
    <3> QED
      BY <3>1 DEF Promise!Next
  <2> QED
    BY <1>2, <2>1, <2>2, <2>3, <2>4, <2>5, <2>6, <2>7, <2>8, <2>9, <2>10, <2>11
       DEF ClientStep, Promise!Next
<1>3. CASE UNCHANGED vars
  BY <1>3 DEF vars, LeaseBar, ClaimBar
<1> QED
  BY <1>1, <1>2, <1>3 DEF PromptNext

(* The lock service of prompt clients is a LeaseLock. *)
THEOREM PromiseKept == PromptSpec => KeepsPromise
<1>1. Init => Promise!Init
  BY DEF Init, Promise!Init, LeaseBar, ClaimBar, Absent, NoLock, Promise!Free
<1>2. PromptInv /\ [PromptNext]_vars => [Promise!Next]_<<LeaseBar, ClaimBar>>
  BY PromiseStep
<1> QED
  BY <1>1, <1>2, PromptInvariant, PTL DEF PromptSpec, KeepsPromise, Promise!Spec, Promise!vars
=============================================================================
