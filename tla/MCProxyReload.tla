---------------------------- MODULE MCProxyReload ----------------------------
(***************************************************************************)
(* TLC instance of ProxyLifecycle with a history of whom a reload found    *)
(* idle, as their clients see it: answered, and told to keep the           *)
(* connection.                                                             *)
(***************************************************************************)
EXTENDS ProxyLifecycle
CONSTANTS c1, p1

MCConns == {c1}
MCPorts == {p1}

VARIABLE answered  \* history: the connections that were answered with
                   \* keep-alive when the last reload began, until they end

Kept == {c \in Conns : pc[c] = "top" /\ keep[c]}

HistoryInit == Init /\ answered = {}

HistoryNext ==
  /\ Next
  /\ answered' = IF mainPc = "wait" /\ mainPc' = "set" THEN Kept
                 ELSE {c \in answered : pc'[c] # "free"}

HistorySpec == HistoryInit /\ [][HistoryNext]_<<vars, answered>>

\* Once a reload is complete, no connection that had been answered with
\* keep-alive when it began waits idle on the configuration that was replaced
\* (test_reload_applies_the_new_config: a client is answered, the configuration
\* is reloaded, and then idle.is_closed()).
NoIdleOnOldConfig ==
  mainPc = "wait" => \A c \in answered \cap idle : shut[c] \/ gen[c] = generation
=============================================================================
