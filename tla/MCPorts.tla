------------------------------ MODULE MCPorts ------------------------------
(* Ports for TLC: a stack of two containers and one of one. *)
EXTENDS Ports, TLC

CONSTANTS app, cache, web

TwoStacks == {{app, cache}, {web}}
\* Nobody listens on a standard port that is outside the range but web.
StandardPort == [k \in {app, cache, web} |-> IF k = web THEN 3 ELSE 0]
FirstHosts == [k \in {app, cache, web} |-> IF k = app THEN 1 ELSE IF k = cache THEN 2 ELSE 3]
Sym == Permutations(Calls)
=============================================================================
