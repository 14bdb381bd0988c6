------------------------ MODULE MCStronglyConnected ------------------------
(* Every graph on four vertices, self loops on vertex 0 only, searched whole *)
(* or from the two vertices of a subgraph.                                   *)
EXTENDS StronglyConnected

GraphsMC == {g \in [Node -> SUBSET Node] : \A v \in Node \ {0} : v \notin g[v]}

PortionsMC == {Node, {1, 3}}

WholeMC == {Node}
=============================================================================
