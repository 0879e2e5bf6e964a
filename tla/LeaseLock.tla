----------------------------- MODULE LeaseLock -----------------------------
(***************************************************************************)
(* What the lock service promises its callers, without Redis: a lock is    *)
(* granted for a limited time to whoever holds its token, only when it is  *)
(* free, and only the holder of the token gives it back or prolongs it.    *)
(* It ends by itself when its time is up.                                  *)
(***************************************************************************)
EXTENDS Naturals

CONSTANTS
  Client,     (* callers                                       *)
  Key,        (* locks                                         *)
  Token,      (* proofs of ownership                           *)
  None,       (* no token                                      *)
  MaxLease    (* the longest time a lock is granted for        *)

VARIABLES
  lease,      (* key -> token and remaining time of its lease  *)
  claim       (* client -> the token it can act with           *)

vars == <<lease, claim>>

Free == [token |-> None, left |-> 0]

Init ==
  /\ lease = [k \in Key |-> Free]
  /\ claim = [c \in Client |-> None]

InUse(t) == (\E c \in Client : claim[c] = t) \/ (\E k \in Key : lease[k].token = t)

For(t, n) == IF n > 0 THEN [token |-> t, left |-> n] ELSE Free

(* A grant that comes too late for its own expiry (n = 0) is void. *)
Grant(c, k, t, n) ==
  /\ lease[k] = Free
  /\ ~InUse(t)
  /\ lease' = [lease EXCEPT ![k] = For(t, n)]
  /\ claim' = [claim EXCEPT ![c] = t]

Holds(c, k) == claim[c] # None /\ lease[k].token = claim[c]

Prolong(c, k, n) ==
  /\ Holds(c, k)
  /\ lease' = [lease EXCEPT ![k] = For(claim[c], n)]
  /\ UNCHANGED claim

GiveBack(c, k) ==
  /\ Holds(c, k)
  /\ lease' = [lease EXCEPT ![k] = Free]
  /\ UNCHANGED claim

(* The client crashes, or drops the lock for another one. *)
Forget(c) ==
  /\ claim' = [claim EXCEPT ![c] = None]
  /\ UNCHANGED lease

Pass ==
  /\ lease' = [k \in Key |-> IF lease[k].left > 1
                             THEN [lease[k] EXCEPT !.left = lease[k].left - 1]
                             ELSE Free]
  /\ UNCHANGED claim

Next ==
  \/ Pass
  \/ \E c \in Client : Forget(c)
  \/ \E c \in Client, k \in Key, t \in Token, n \in 0..MaxLease : Grant(c, k, t, n)
  \/ \E c \in Client, k \in Key, n \in 0..MaxLease : Prolong(c, k, n)
  \/ \E c \in Client, k \in Key : GiveBack(c, k)

Spec == Init /\ [][Next]_vars
=============================================================================
