-------------------------- MODULE MCProxyLifecycle --------------------------
(* TLC instances of ProxyLifecycle.                                        *)
EXTENDS ProxyLifecycle, TLC
CONSTANTS c1, c2, p1

MCConns == {c1, c2}
MCOneConn == {c1}
MCPorts == {p1}

ConnSymmetry == Permutations(MCConns)
=============================================================================
