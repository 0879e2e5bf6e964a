----------------------------- MODULE RedisLock -----------------------------
(***************************************************************************)
(* The Redis lock service of unikit (contrib/redis/lock) together with the *)
(* waiting loop of LockService (lock/service.py).  Clients are the threads *)
(* or tasks of any process; every command sent to Redis is one step, so    *)
(* that what happens between the commands of one call can be explored.     *)
(*                                                                         *)
(* Time is kept as countdowns: ttl is what is left before Redis drops the  *)
(* key, left is what is left before a lock object's own ts_expires.        *)
(***************************************************************************)
EXTENDS Naturals

CONSTANTS
  Client,          (* threads or tasks that use the service               *)
  Op,              (* operation names, parameters included                *)
  Target,          (* lock targets                                        *)
  Request,         (* the (op, target) pairs asked for                    *)
  Secret,          (* values _random_secret can return                    *)
  None,            (* Python's None                                       *)
  MaxLease,        (* bound: the longest lease, in ticks                  *)
  WaitingTimeout   (* waiting_timeout in ticks; 0 is falsy, like None     *)

(* The lock a call is about: a target, when given, hides the operation. *)
LockId_OpFirst(r) ==
  IF r.op # None THEN <<"op", r.op>> ELSE <<"target", r.target>>

LockId(r) ==
  IF r.target # None THEN <<"target", r.target>> ELSE <<"op", r.op>>

Key == {LockId(r) : r \in Request}
Lease == 1..MaxLease

ASSUME LeaseAssumption == MaxLease \in Nat \ {0} /\ WaitingTimeout \in Nat

(* _build_new_lock asserts that an operation or a target is given. *)
ASSUME RequestAssumption ==
  Request # {} /\ Request \subseteq {r \in [op : Op \cup {None}, target : Target \cup {None}] :
                       r.op # None \/ r.target # None}

ASSUME NoneAssumption == None \notin Secret /\ None \notin Key

-----------------------------------------------------------------------------
VARIABLES
  store,    (* Redis: key -> secret, time to live, "exp" of the JSON value *)
  lock,     (* the lock object each client holds, NoLock if none           *)
  pc,       (* where each client is in the service's code                  *)
  call,     (* arguments of the client's last acquire                      *)
  waited,   (* datetime.now() - start in the waiting loop                  *)
  newExp    (* new_expiration_ts of an extend_lock that is under way       *)

vars == <<store, lock, pc, call, waited, newExp>>

Absent == [secret |-> None, ttl |-> 0, exp |-> 0]
NoLock == [id |-> None, secret |-> None, left |-> 0]

Entry == [secret : Secret \cup {None}, ttl : 0..MaxLease, exp : 0..MaxLease]
Handle == [id : Key \cup {None}, secret : Secret \cup {None}, left : 0..MaxLease]
Call == [how : {"acquire", "wait"}, req : Request, lease : Lease]

(* Outside the service: no call yet, a call returned, or one raised. *)
Resting == {"idle", "refused", "timedOut"}
(* Waiting for wait_and_acquire: SET under way, just denied, or asleep. *)
Waiting == {"setting", "denied", "sleeping"}
(* The code the lock protects, extend_lock within it included. *)
Inside == {"section", "extending"}
Phase == Resting \cup Waiting \cup Inside \cup {"deleting"}

TypeOK ==
  /\ store \in [Key -> Entry]
  /\ lock \in [Client -> Handle]
  /\ pc \in [Client -> Phase]
  /\ call \in [Client -> Call]
  /\ waited \in [Client -> 0..(WaitingTimeout + 1)]
  /\ newExp \in [Client -> 0..MaxLease]

-----------------------------------------------------------------------------
HasLock(c) == lock[c].id # None

KeyIsFree_Unchecked(k) == TRUE
KeyIsFree(k) == store[k].ttl = 0

(* existing_lock.get_secret() == lock.get_secret(), on what GET returned.  *)
(* A lock that came from get_lock carries no secret and matches nothing.   *)
SecretMatches_Unchecked(c) == store[lock[c].id].ttl > 0
SecretMatches(c) ==
  /\ store[lock[c].id].ttl > 0
  /\ store[lock[c].id].secret = lock[c].secret

(* 22 random characters: never a secret that is still in use. *)
Fresh(s) ==
  /\ \A c \in Client : lock[c].secret # s
  /\ \A k \in Key : store[k].secret # s

DeadlinePassed_Never(c) == FALSE
DeadlinePassed(c) == WaitingTimeout # 0 /\ waited[c] > WaitingTimeout

Init ==
  /\ store = [k \in Key |-> Absent]
  /\ lock = [c \in Client |-> NoLock]
  /\ pc = [c \in Client |-> "idle"]
  /\ call = [c \in Client |-> CHOOSE x \in Call : x.how = "acquire"]
  /\ waited = [c \in Client |-> 0]
  /\ newExp = [c \in Client |-> 0]

-----------------------------------------------------------------------------
Goto(c, phase) == pc' = [pc EXCEPT ![c] = phase]

(* _build_new_lock: fresh secret, ts_expires = now + timeout. *)
BuildLock_TimeoutTwice(c, r, n) ==
  \E s \in Secret :
    /\ Fresh(s)
    /\ lock' = [lock EXCEPT ![c] = [id |-> LockId(r), secret |-> s, left |-> 2 * n]]

BuildLock(c, r, n) ==
  \E s \in Secret :
    /\ Fresh(s)
    /\ lock' = [lock EXCEPT ![c] = [id |-> LockId(r), secret |-> s, left |-> n]]

(* acquire and the first attempt of wait_and_acquire. *)
BeginAcquire(c, how, r, n) ==
  /\ pc[c] \in Resting
  /\ call' = [call EXCEPT ![c] = [how |-> how, req |-> r, lease |-> n]]
  /\ BuildLock(c, r, n)
  /\ Goto(c, "setting")
  /\ UNCHANGED <<store, waited, newExp>>

(* SET NX PXAT.  Redis answers OK to a PXAT in the past and keeps nothing. *)
Stored_SecretDropped(l) ==
  IF l.left > 0 THEN [secret |-> None, ttl |-> l.left, exp |-> l.left] ELSE Absent

Stored(l) ==
  IF l.left > 0 THEN [secret |-> l.secret, ttl |-> l.left, exp |-> l.left]
                ELSE Absent

Granted(c) ==
  /\ pc[c] = "setting"
  /\ KeyIsFree(lock[c].id)
  /\ store' = [store EXCEPT ![lock[c].id] = Stored(lock[c])]
  /\ waited' = [waited EXCEPT ![c] = 0]
  /\ Goto(c, "section")
  /\ UNCHANGED <<lock, call, newExp>>

Denied(c) ==
  /\ pc[c] = "setting"
  /\ store[lock[c].id].ttl > 0
  /\ lock' = [lock EXCEPT ![c] = NoLock]
  /\ Goto(c, IF call[c].how = "wait" THEN "denied" ELSE "idle")
  /\ UNCHANGED <<store, call, waited, newExp>>

(* while not lock: past the deadline raise TimeoutError, else sleep. *)
CheckDeadline(c) ==
  /\ pc[c] = "denied"
  /\ \/ /\ DeadlinePassed(c)
        /\ waited' = [waited EXCEPT ![c] = 0]
        /\ Goto(c, "timedOut")
     \/ /\ ~DeadlinePassed(c)
        /\ UNCHANGED waited
        /\ Goto(c, "sleeping")
  /\ UNCHANGED <<store, lock, call, newExp>>

Retry(c) ==
  /\ pc[c] = "sleeping"
  /\ BuildLock(c, call[c].req, call[c].lease)
  /\ Goto(c, "setting")
  /\ UNCHANGED <<store, call, waited, newExp>>

(* get_lock: a lock object without its secret, with the stored ts_expires. *)
GetLock(c, r) ==
  /\ pc[c] \in Resting
  /\ lock' = [lock EXCEPT ![c] =
                IF store[LockId(r)].ttl > 0
                THEN [id |-> LockId(r), secret |-> None, left |-> store[LockId(r)].exp]
                ELSE NoLock]
  /\ Goto(c, "idle")
  /\ UNCHANGED <<store, call, waited, newExp>>

(* release, first command: GET, and the comparison of the secrets.  It is  *)
(* also called with locks that were released or have lapsed before.        *)
ReleaseGet(c) ==
  /\ pc[c] \in Resting \cup {"section"}
  /\ HasLock(c)
  /\ \/ /\ store[lock[c].id].ttl = 0
        /\ Goto(c, "idle")
     \/ /\ store[lock[c].id].ttl > 0
        /\ ~SecretMatches(c)
        /\ Goto(c, "refused")
     \/ /\ SecretMatches(c)
        /\ Goto(c, "deleting")
  /\ UNCHANGED <<store, lock, call, waited, newExp>>

(* release, second command: DELETE, whatever is stored by now. *)
ReleaseDelete(c) ==
  /\ pc[c] = "deleting"
  /\ store' = [store EXCEPT ![lock[c].id] = Absent]
  /\ Goto(c, "idle")
  /\ UNCHANGED <<lock, call, waited, newExp>>

(* extend_lock, first command: GET; ValueError unless the secrets agree. *)
ExtendGet(c, n) ==
  /\ pc[c] \in Resting \cup {"section"}
  /\ HasLock(c)
  /\ \/ /\ SecretMatches(c)
        /\ newExp' = [newExp EXCEPT ![c] = n]
        /\ Goto(c, "extending")
     \/ /\ ~SecretMatches(c)
        /\ UNCHANGED newExp
        /\ Goto(c, "refused")
  /\ UNCHANGED <<store, lock, call, waited>>

(* extend_lock, second command: PEXPIREAT on whatever is stored, reply     *)
(* ignored.  The JSON value keeps its old "exp"; the clone gets the new    *)
(* one.  A time that is past by now removes the key.                       *)
Expiring_CloneOnly(e, n) == e

Expiring(e, n) ==
  IF e.ttl = 0 \/ n = 0 THEN Absent ELSE [e EXCEPT !.ttl = n]

ExtendSet(c) ==
  /\ pc[c] = "extending"
  /\ store' = [store EXCEPT ![lock[c].id] = Expiring(@, newExp[c])]
  /\ lock' = [lock EXCEPT ![c].left = newExp[c]]
  /\ newExp' = [newExp EXCEPT ![c] = 0]
  /\ Goto(c, "section")
  /\ UNCHANGED <<call, waited>>

(* The client dies, or a command raises ConnectionError, its reply lost:   *)
(* the lock object is gone, what Redis holds stays.                        *)
Crash(c) ==
  /\ pc[c] \notin Resting
  /\ lock' = [lock EXCEPT ![c] = NoLock]
  /\ waited' = [waited EXCEPT ![c] = 0]
  /\ newExp' = [newExp EXCEPT ![c] = 0]
  /\ Goto(c, "idle")
  /\ UNCHANGED <<store, call>>

(* delete(lock_id) and clean_all_locks (flushdb), whoever holds the locks. *)
AdminDelete(k) ==
  /\ store' = [store EXCEPT ![k] = Absent]
  /\ UNCHANGED <<lock, pc, call, waited, newExp>>

CleanAllLocks ==
  /\ store' = [k \in Key |-> Absent]
  /\ UNCHANGED <<lock, pc, call, waited, newExp>>

(* One unit of time.  Redis drops the keys whose time is up. *)
Down(n) == IF n > 0 THEN n - 1 ELSE 0

Aged(e) ==
  IF e.ttl <= 1 THEN Absent ELSE [e EXCEPT !.ttl = e.ttl - 1, !.exp = Down(e.exp)]

Elapsed(c) ==
  IF pc[c] \in Waiting /\ call[c].how = "wait" /\ waited[c] <= WaitingTimeout
  THEN waited[c] + 1 ELSE waited[c]

Tick ==
  /\ store' = [k \in Key |-> Aged(store[k])]
  /\ lock' = [c \in Client |-> [lock[c] EXCEPT !.left = Down(lock[c].left)]]
  /\ newExp' = [c \in Client |-> Down(newExp[c])]
  /\ waited' = [c \in Client |-> Elapsed(c)]
  /\ UNCHANGED <<pc, call>>

-----------------------------------------------------------------------------
ClientStep(c) ==
  \/ \E how \in {"acquire", "wait"}, r \in Request, n \in Lease : BeginAcquire(c, how, r, n)
  \/ Granted(c)
  \/ Denied(c)
  \/ CheckDeadline(c)
  \/ Retry(c)
  \/ \E r \in Request : GetLock(c, r)
  \/ ReleaseGet(c)
  \/ ReleaseDelete(c)
  \/ \E n \in Lease : ExtendGet(c, n)
  \/ ExtendSet(c)
  \/ Crash(c)

AdminStep == CleanAllLocks \/ \E k \in Key : AdminDelete(k)

Next == AdminStep \/ Tick \/ \E c \in Client : ClientStep(c)
Spec == Init /\ [][Next]_vars

(* No operator interferes: only the clients and time. *)
ClientNext == Tick \/ \E c \in Client : ClientStep(c)
ClientSpec == Init /\ [][ClientNext]_vars

(* The two commands of one release or extend_lock are close together: no   *)
(* lease lapses between them.  The body may still outlive its lease.       *)
PromptTick ==
  /\ \A c \in Client : pc[c] \in {"extending", "deleting"} => lock[c].left > 1
  /\ Tick

PromptNext == PromptTick \/ \E c \in Client : ClientStep(c)
PromptSpec == Init /\ [][PromptNext]_vars

(* The caller chose a timeout longer than its use of the lock: no lease    *)
(* lapses from the acquire that asks for it to the end of its release.     *)
PunctualTick ==
  /\ \A c \in Client :
       /\ pc[c] \in Inside \cup {"setting", "deleting"} => lock[c].left > 1
       /\ pc[c] = "extending" => newExp[c] > 1
  /\ Tick

PunctualNext == PunctualTick \/ \E c \in Client : ClientStep(c)
PunctualSpec == Init /\ [][PunctualNext]_vars

(* A thread that waits is scheduled again and Redis answers it; time goes  *)
(* on.  Nothing says that a body ends or that a client calls again.        *)
Fairness ==
  /\ WF_vars(Tick)
  /\ \A c \in Client : WF_vars(Granted(c) \/ Denied(c) \/ CheckDeadline(c) \/ Retry(c))

FairSpec == Spec /\ Fairness
FairClientSpec == ClientSpec /\ Fairness

-----------------------------------------------------------------------------
(* Two requests are about the same resource: the same target or, when      *)
(* neither names one, the same operation.                                  *)
SameResource(r1, r2) ==
  IF r1.target = None /\ r2.target = None THEN r1.op = r2.op ELSE r1.target = r2.target

(* Redis holds the client's own lock. *)
Owns(c) ==
  HasLock(c) /\ lock[c].secret # None /\ store[lock[c].id].secret = lock[c].secret

(* SET NX: a lock that is held is never taken over; between two holders of *)
(* one key there is a moment at which Redis has no such key.               *)
NoTakeover ==
  [][\A k \in Key : store[k].ttl > 0 /\ store'[k].ttl > 0
                      => store'[k].secret = store[k].secret]_vars

(* release: "Only lock owner can release the lock" (sync.py:41), also when *)
(* the owner's lease lapses while it releases and somebody else gets it.   *)
OnlyOwnerReleases ==
  [][\A c \in Client : ReleaseDelete(c) =>
       Owns(c) \/ store[lock[c].id] = Absent]_vars

(* extend_lock raises ValueError if the lock "doesn't exist, already       *)
(* expired or you do not have permissions" (sync.py:82-84): when it        *)
(* returns a lock, that lock was its caller's and still there.             *)
OnlyOwnerExtends ==
  [][\A c \in Client : ExtendSet(c) => Owns(c)]_vars

(* Clients that do not overrun their lease never share a resource: of two  *)
(* clients inside code that locks it, at most one has a lease still        *)
(* running by its own lock object.  It holds for any mix of operations and *)
(* targets, releases of stale locks and crashes.                           *)
LeaseExclusion ==
  \A c, d \in Client :
    /\ c # d
    /\ pc[c] \in Inside /\ lock[c].left > 0
    /\ pc[d] \in Inside /\ lock[d].left > 0
    => ~SameResource(call[c].req, call[d].req)

(* A running lease is really in Redis and lasts as long as the lock object *)
(* says, so nobody else can acquire it and nobody loses it early.          *)
RunningLeaseIsStored ==
  \A c \in Client :
    pc[c] \in Inside /\ lock[c].left > 0
    => Owns(c) /\ store[lock[c].id].ttl = lock[c].left

(* Mutual exclusion of the bodies of wait_and_acquire and with_lock, if    *)
(* every use of a lock is shorter than its lease.                          *)
MutualExclusion ==
  \A c, d \in Client :
    c # d /\ pc[c] \in Inside /\ pc[d] \in Inside
    => ~SameResource(call[c].req, call[d].req)

(* The release in the finally block of wait_and_acquire and with_lock, and *)
(* extend_lock in their body, never raise on a client within its lease.    *)
OwnerNotRefused ==
  [][\A c \in Client : pc[c] = "section" => pc'[c] # "refused"]_vars

(* get_ts_expires is "the timestamp when the lock expires" (dto.py:79-81), *)
(* also for the lock get_lock builds from the stored value.                *)
StoredExpiryIsActual == \A k \in Key : store[k].exp = store[k].ttl

(* The lock of a client that crashed, or lost the reply to its acquire,    *)
(* does not stay locked: it lapses although nobody can release it.         *)
Orphaned(k) ==
  store[k].ttl > 0 /\ \A c \in Client : lock[c].secret # store[k].secret

OrphanLapses == \A k \in Key : Orphaned(k) ~> ~Orphaned(k)

(* waiting_timeout is "the maximum time to wait for acquiring the lock"    *)
(* (service.py:107): a wait ends, with the lock or with a TimeoutError,    *)
(* however long others hold the lock.                                      *)
WaitEnds ==
  \A c \in Client :
    (pc[c] \in Waiting /\ call[c].how = "wait") ~> pc[c] \notin Waiting

-----------------------------------------------------------------------------
(* Why prompt clients exclude one another.  Each part is what another part *)
(* needs to survive a step.                                                *)

(* An absent key is stored as Absent, a present one has a secret. *)
StoreNormal ==
  \A k \in Key : IF store[k].ttl = 0 THEN store[k] = Absent ELSE store[k].secret # None

(* No two lock objects share a secret. *)
SecretsDistinct ==
  \A c, d \in Client : lock[c].secret # None /\ lock[c].secret = lock[d].secret => c = d

(* A lock object with a secret is about the request it was acquired for. *)
LockOfCall ==
  \A c \in Client : lock[c].secret # None => lock[c].id = LockId(call[c].req)

(* Every client that uses or asks for a lock has a secret for it. *)
UserHasSecret ==
  \A c \in Client :
    pc[c] \in Inside \cup {"setting", "deleting"} => lock[c].secret # None

(* The secret of a lock that was not sent yet is nowhere in Redis. *)
UnsentIsUnknown ==
  \A c \in Client, k \in Key : pc[c] = "setting" => store[k].secret # lock[c].secret

(* Between its two commands a client still owns what it compared. *)
PendingIsOwned == \A c \in Client : pc[c] \in {"extending", "deleting"} => Owns(c)

(* A client that uses a lock owns it at least while its lease runs ... *)
RunningIsOwned ==
  \A c \in Client : pc[c] \in Inside \cup {"deleting"} /\ lock[c].left > 0 => Owns(c)

(* ... and what a client owns, it uses, and Redis agrees on the time left. *)
OwnedIsUsed ==
  \A c \in Client : Owns(c) => /\ pc[c] \in Inside \cup {"deleting"}
                               /\ store[lock[c].id].ttl = lock[c].left

PromptInv ==
  /\ TypeOK
  /\ StoreNormal
  /\ SecretsDistinct
  /\ LockOfCall
  /\ UserHasSecret
  /\ UnsentIsUnknown
  /\ PendingIsOwned
  /\ RunningIsOwned
  /\ OwnedIsUsed

(* Punctual clients never reach the end of a lease they asked for or use. *)
LeaseNotOver ==
  \A c \in Client :
    /\ pc[c] \in Inside \cup {"setting", "deleting"} => lock[c].left > 0
    /\ pc[c] = "extending" => newExp[c] > 0

PunctualInv == PromptInv /\ LeaseNotOver

-----------------------------------------------------------------------------
(* The promise: a lock object under way to Redis claims nothing yet, and   *)
(* one that get_lock built never does.                                     *)
LeaseBar == [k \in Key |-> [token |-> store[k].secret, left |-> store[k].ttl]]
ClaimBar == [c \in Client |-> IF pc[c] = "setting" THEN None ELSE lock[c].secret]

Promise == INSTANCE LeaseLock WITH Token <- Secret, lease <- LeaseBar, claim <- ClaimBar

(* Prompt clients keep the promise of LeaseLock step by step: a lease ends *)
(* by its owner's release or by its own time, and by nothing else.         *)
KeepsPromise == Promise!Spec
=============================================================================
