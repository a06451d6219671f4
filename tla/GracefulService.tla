--------------------------- MODULE GracefulService ---------------------------
(***************************************************************************)
(* What stwp_proxy promises its clients across reloads and shutdown,       *)
(* without threads, sockets or locks.  A connection is opened under the    *)
(* configuration in force, or the one it has just replaced.  While its     *)
(* configuration is in force it may take up any number of requests; once   *)
(* it is replaced, or the service drains, it may take up one more.         *)
(***************************************************************************)
EXTENDS Naturals

CONSTANT Conns

VARIABLES
  phase,    \* "serving", "draining", "refusing" new connections, "stopped"
  version,  \* the configuration in force
  conn,     \* [Conns -> {"none", "open", "last"}]
  under     \* [Conns -> Nat], the configuration a connection runs under

svars == <<phase, version, conn, under>>

Begin ==
  /\ phase = "serving"
  /\ version = 1
  /\ conn = [c \in Conns |-> "none"]
  /\ under = [c \in Conns |-> 0]

Reload ==
  /\ phase = "serving"
  /\ version' = version + 1
  /\ UNCHANGED <<phase, conn, under>>

Drain ==
  /\ phase = "serving"
  /\ phase' = "draining"
  /\ UNCHANGED <<version, conn, under>>

\* Every listening socket is closed.
Refuse ==
  /\ phase = "draining"
  /\ phase' = "refusing"
  /\ UNCHANGED <<version, conn, under>>

Stop ==
  /\ phase = "refusing"
  /\ phase' = "stopped"
  /\ UNCHANGED <<version, conn, under>>

Open(c) ==
  /\ phase \in {"serving", "draining"}
  /\ conn[c] = "none"
  /\ conn' = [conn EXCEPT ![c] = "open"]
  /\ \E v \in {version - 1, version} : under' = [under EXCEPT ![c] = v]
  /\ UNCHANGED <<phase, version>>

\* The one request a connection may still take up.
TakeLast(c) ==
  /\ phase # "stopped"
  /\ phase # "serving" \/ under[c] # version
  /\ conn[c] = "open"
  /\ conn' = [conn EXCEPT ![c] = "last"]
  /\ UNCHANGED <<phase, version, under>>

Close(c) ==
  /\ phase # "stopped"
  /\ conn[c] # "none"
  /\ conn' = [conn EXCEPT ![c] = "none"]
  /\ under' = [under EXCEPT ![c] = 0]
  /\ UNCHANGED <<phase, version>>

Step ==
  \/ Reload \/ Drain \/ Refuse \/ Stop
  \/ \E c \in Conns : Open(c) \/ TakeLast(c) \/ Close(c)

Service == Begin /\ [][Step]_svars
=============================================================================
