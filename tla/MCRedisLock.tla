---------------------------- MODULE MCRedisLock ----------------------------
(* Instances of RedisLock for TLC. *)
EXTENDS RedisLock, TLC

CONSTANTS c1, c2, o1, o2, t1, s1, s2, s3

MCClients2 == {c1, c2}
MCOps == {o1, o2}
MCTargets == {t1}

(* One secret for each client and one for each key: a fresh one is always  *)
(* left for a client that builds a lock.                                   *)
MCSecrets3 == {s1, s2, s3}

(* Two operations on one target: a single Redis key. *)
MCOneKey == {[op |-> o1, target |-> t1], [op |-> o2, target |-> t1]}

(* A bare operation beside the same operation on a target: two keys. *)
MCTwoKeys == {[op |-> o1, target |-> None], [op |-> o1, target |-> t1]}

(* A single request: as many clients as possible compete for it. *)
MCOneRequest == {[op |-> o1, target |-> None]}

MCSymmetry2 == Permutations(MCClients2) \cup Permutations(MCSecrets3)
=============================================================================
