---------------------------- MODULE MCRequestScope ----------------------------
(* RequestScope for TLC: a sync and an async class view, a class view whose  *)
(* pattern two parts of the URL configuration include, and a function.       *)
EXTENDS RequestScope, TLC

CONSTANTS r1, r2, v1, v2, v3, v4

MCRequest == {r1, r2}
MCView == {v1, v2, v3, v4}
MCKind == (v1 :> "class") @@ (v2 :> "async") @@ (v3 :> "class") @@ (v4 :> "function")
MCUrls == <<v1, v3, v2, v3, v4>>
MCMiddlewares == <<"log", "inject", "gate">>
Symmetry == Permutations(MCRequest) \cup Permutations(Thread)
=============================================================================
