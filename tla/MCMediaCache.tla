---------------------------- MODULE MCMediaCache ----------------------------
(* TLC instances of MediaCache.                                            *)
EXTENDS MediaCache
CONSTANTS p1, p2, r1, r2

MCOnePlayer == {p1}
MCTwoPlayers == {p1, p2}
MCOneReader == {r1}
MCTwoReaders == {r1, r2}

\* The liveness run starts where crashes have left everything evicted and the
\* history, on which no step depends, full.
MCInit ==
  /\ file = "absent" /\ stored = {} /\ index = NoIndex /\ pruning = FALSE
  /\ mode = [p \in Players |-> "closed"]
  /\ src = [p \in Players |-> NewSource]
  /\ reading = [p \in Players |-> [r \in Readers |-> NoRead]]
  /\ torn = {"holes", "lies"} /\ mishap = TRUE
MCFairSpec == MCInit /\ [][Next]_vars /\ Fairness
=============================================================================
