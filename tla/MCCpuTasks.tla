------------------------------ MODULE MCCpuTasks ------------------------------
(* CpuTasks for TLC: two brokers that share the pool of a worker.            *)
EXTENDS CpuTasks, TLC

CONSTANTS b1, b2, s1, s2, a1, d1

MCBroker == {b1, b2}
MCBrokerOf == [t \in Task |-> IF t = s2 THEN b2 ELSE b1]
MCKind == [t \in Task |-> CASE t = a1 -> "async" [] t = d1 -> "direct" [] OTHER -> "bridge"]

MCTask == {s1, s2, a1, d1}
=============================================================================
