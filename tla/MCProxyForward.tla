--------------------------- MODULE MCProxyForward ---------------------------
(* TLC instances of ProxyForward.                                          *)
EXTENDS ProxyForward
CONSTANTS s1, s2, k1, k2, k3

MCTwoSessions == {s1, s2}
MCOneSession == {s1}
MCConns == {k1, k2, k3}
MCTwoConns == {k1, k2}
MCWeight == [i \in 1..NPeers |-> 1]
MCSymmetry == Permutations(MCTwoSessions) \cup Permutations(MCConns)
=============================================================================
