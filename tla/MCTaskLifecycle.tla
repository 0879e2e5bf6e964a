--------------------------- MODULE MCTaskLifecycle ---------------------------
(* TaskLifecycle for TLC: two jobs of two principals that two services run,  *)
(* one of which posts a task that no service knows, and one client.          *)
EXTENDS TaskLifecycle, TLC

CONSTANTS j1, j2, j3, w1, w2, ta, tb, tx, p1, p2, c1

MCServices == <<w1, w2>>
MCKnows == (w1 :> {tb}) @@ (w2 :> {ta})
MCJob == {j1, j2, j3}
MCNameOf == (j1 :> ta) @@ (j2 :> tb) @@ (j3 :> tx)
MCPosterOf == (j1 :> None) @@ (j2 :> None) @@ (j3 :> j2)
MCPrincipalOf == (j1 :> p1) @@ (j2 :> p2) @@ (j3 :> p2)
MCClient == {c1}
MCWatches == c1 :> j1
Delta(days, seconds, micros) == [days |-> days, seconds |-> seconds, micros |-> micros]
MCTimeout == {None, Delta(0, 1, 0), Delta(1, 0, 0)}
MCEveryKind == {None, Delta(0, 1, 0), Delta(0, 0, 500000), Delta(1, 0, 0)}
MCOrder == <<"otel", "info", "report", "security">>
=============================================================================
