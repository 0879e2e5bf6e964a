---------------------------- MODULE MCDiContainer ----------------------------
(* DiContainer for TLC: two interfaces, one of which a registry keeps, two   *)
(* classes, two threads, and one race for the scope.                         *)
EXTENDS DiContainer, TLC

Symmetry == Permutations(Thread) \cup Permutations(Class)
==============================================================================
