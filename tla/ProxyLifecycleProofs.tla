------------------------ MODULE ProxyLifecycleProofs ------------------------
(***************************************************************************)
(* Theorems about ProxyLifecycle for any number of connections, ports and  *)
(* reloads.                                                                *)
(***************************************************************************)
EXTENDS ProxyLifecycle, FiniteSetTheorems, TLAPS

ShutdownStates == {"shutClose", "join", "drain", "recheck", "exited", "killed"}

\* The flag is up exactly when the main thread has left the signal loop, and
\* g_runtime lags g_generation only between activate and set_runtime.
MainInv ==
  /\ shuttingDown <=> mainPc \in ShutdownStates
  /\ generation >= 1
  /\ runtime = IF mainPc = "set" THEN generation - 1 ELSE generation
  /\ mainPc \in {"drain", "recheck"} => \A p \in Ports : acceptPc[p] = "closed"

\* What a session knows at each place of handle_one: a head it goes on with
\* is in the buffer, keep_alive_ is down until a body is complete, and a
\* session that has taken up its late request is past every point where it
\* could take up another.
SessionInv(c) ==
  /\ gen[c] <= generation
  /\ pc[c] = "leave" /\ result[c] = "Ok" => HeadComplete(c)
  /\ pc[c] = "parse" => HeadComplete(c)
  /\ pc[c] \in {"head", "leave", "parse", "body"} => ~keep[c]
  /\ late[c] # 0 =>
       /\ late[c] = 1
       /\ PastItsEnd(c)
       /\ pc[c] \in {"body", "route", "write", "linger", "closing"}
       /\ pc[c] \in {"body", "route", "write"} => ~keep[c]

Core ==
  /\ TypeOK
  /\ MainInv
  /\ IdleOwnsSocket
  /\ ShutdownReachesIdle
  /\ \A c \in Conns : SessionInv(c)

IInv == Core /\ ActiveCount

\* Adding a thread to the counted set, or removing one, moves its
\* cardinality by one.
LEMMA CountedFinite == IsFiniteSet(Counted) /\ Cardinality(Counted) \in Nat
<1>1. Counted \subseteq Conns
  BY DEF Counted
<1>2. IsFiniteSet(Counted)
  BY <1>1, ProxyAssumption, FS_Subset
<1> QED
  BY <1>2, FS_CardinalityType

LEMMA CountedGrows ==
  ASSUME NEW c \in Conns, c \notin Counted, Counted' = Counted \cup {c}
  PROVE  Cardinality(Counted)' = Cardinality(Counted) + 1
BY CountedFinite, FS_AddElement

LEMMA CountedShrinks ==
  ASSUME NEW c \in Conns, c \in Counted, Counted' = Counted \ {c}
  PROVE  /\ Cardinality(Counted)' = Cardinality(Counted) - 1
         /\ Cardinality(Counted) > 0
<1>1. Cardinality(Counted \ {c}) = Cardinality(Counted) - 1
  BY CountedFinite, FS_RemoveElement
<1>2. Counted # {}
  OBVIOUS
<1>3. Cardinality(Counted) # 0
  BY <1>2, CountedFinite, FS_EmptySet
<1> QED
  BY <1>1, <1>3, CountedFinite

\* A thread that moves between two places where it is counted, or two where
\* it is not, leaves the counted set alone.
LEMMA CountedStays ==
  ASSUME TypeOK, NEW c \in Conns, NEW from, NEW to, Goto(c, from, to),
         from \in {"free", "spawned"} <=> to \in {"free", "spawned"}
  PROVE  Counted' = Counted
BY DEF Counted, Goto, TypeOK

\* The initial state satisfies the inductive invariant.
LEMMA InitIInv == Init => IInv
<1> SUFFICES ASSUME Init PROVE IInv
  OBVIOUS
<1>1. TypeOK
  BY DEF Init, TypeOK, MainStates, AcceptStates, ConnStates, Results
<1>2. MainInv
  BY DEF Init, MainInv, ShutdownStates
<1>3. IdleOwnsSocket /\ ShutdownReachesIdle
  BY DEF Init, IdleOwnsSocket, ShutdownReachesIdle
<1>4. ActiveCount
  <2>1. Counted = {}
    BY DEF Init, Counted
  <2> QED
    BY <2>1, FS_EmptySet DEF Init, ActiveCount
<1>5. \A c \in Conns : SessionInv(c)
  BY DEF Init, SessionInv
<1> QED
  BY <1>1, <1>2, <1>3, <1>4, <1>5 DEF IInv, Core

\* A step that leaves threads where they are leaves the count right.
LEMMA CountUnmoved ==
  ASSUME IInv, UNCHANGED <<pc, active>> PROVE ActiveCount'
BY DEF IInv, ActiveCount, Counted

\* The main thread's steps preserve the inductive invariant.
LEMMA MainPreserves ==
  ASSUME IInv, Activate \/ RaiseFlag \/ DrainLimit \/ MainStep
  PROVE  IInv'
<1>1. UNCHANGED <<pc, active>>
  BY DEF Activate, RaiseFlag, DrainLimit, MainStep, JoinAcceptThreads,
         SetRuntime, CloseIdle, Drained, Exit
<1>2. ActiveCount'
  BY <1>1, CountUnmoved
<1> USE ProxyAssumption
    DEF IInv, Core, TypeOK, MainInv, IdleOwnsSocket, ShutdownReachesIdle,
        SessionInv, PastItsEnd, HeadComplete, ShutdownStates, MainStates,
        AcceptStates, ConnStates, Results, Alive, mainVars, sockVars, sessVars
<1>3. CASE Activate
  BY <1>2, <1>3 DEF Activate
<1>4. CASE RaiseFlag
  BY <1>2, <1>4 DEF RaiseFlag
<1>5. CASE DrainLimit
  BY <1>2, <1>5 DEF DrainLimit
<1>6. CASE JoinAcceptThreads
  BY <1>2, <1>6 DEF JoinAcceptThreads
<1>7. CASE SetRuntime
  BY <1>2, <1>7 DEF SetRuntime
<1>8. CASE CloseIdle
  BY <1>2, <1>8 DEF CloseIdle
<1>9. CASE Drained
  BY <1>2, <1>9 DEF Drained
<1>10. CASE Exit
  BY <1>2, <1>10 DEF Exit
<1> QED
  BY <1>3, <1>4, <1>5, <1>6, <1>7, <1>8, <1>9, <1>10 DEF MainStep

\* So do the accept threads' steps: a new connection starts uncounted, with
\* nothing read and under a configuration no newer than the one in force.
LEMMA AcceptPreserves ==
  ASSUME IInv, NEW p \in Ports, AcceptStep(p)
  PROVE  IInv'
<1> USE ProxyAssumption
    DEF IInv, Core, TypeOK, MainInv, IdleOwnsSocket, ShutdownReachesIdle,
        SessionInv, PastItsEnd, HeadComplete, ShutdownStates, MainStates,
        AcceptStates, ConnStates, Results, Alive, mainVars, sockVars, sessVars
<1>1. CASE CheckFlag(p)
  <2>1. ActiveCount'
    BY <1>1, CountUnmoved DEF CheckFlag
  <2> QED
    BY <1>1, <2>1 DEF CheckFlag
<1>2. CASE NoClient(p)
  <2>1. ActiveCount'
    BY <1>2, CountUnmoved DEF NoClient
  <2> QED
    BY <1>2, <2>1 DEF NoClient
<1>3. ASSUME NEW c \in Conns, Accept(p, c)
      PROVE  IInv'
  <2>1. Counted' = Counted /\ active' = active
    BY <1>3, CountedStays DEF Accept
  <2>2. ActiveCount'
    BY <2>1 DEF ActiveCount
  <2> QED
    BY <1>3, <2>2 DEF Accept, Goto
<1> QED
  BY <1>1, <1>2, <1>3 DEF AcceptStep

\* The places a thread passes between Start and Finish.
LEMMA CountOfMove ==
  ASSUME IInv, NEW c \in Conns, pc[c] \notin {"free", "spawned"},
         NEW to \in ConnStates \ {"free", "spawned"},
         pc' = [pc EXCEPT ![c] = to], active' = active
  PROVE  ActiveCount'
<1>1. Counted' = Counted
  BY DEF Counted, IInv, Core, TypeOK
<1> QED
  BY <1>1 DEF ActiveCount, IInv

\* A connection thread's steps preserve the inductive invariant.
LEMMA SessionPreserves ==
  ASSUME IInv, NEW c \in Conns, SessionStep(c) \/ IdleTimeout(c)
  PROVE  IInv'
<1> USE ProxyAssumption
    DEF IInv, Core, TypeOK, MainInv, IdleOwnsSocket, ShutdownReachesIdle,
        SessionInv, PastItsEnd, HeadComplete, ShutdownStates, MainStates,
        AcceptStates, ConnStates, Results, Alive, mainVars, sockVars, sessVars
<1> USE DEF Goto
<1>1. CASE Start(c)
  <2>1. c \notin Counted /\ Counted' = Counted \cup {c}
    BY <1>1 DEF Start, Counted
  <2>2. ActiveCount'
    BY <1>1, <2>1, CountedGrows DEF Start, ActiveCount
  <2> QED
    BY <1>1, <2>2 DEF Start
<1>2. CASE Finish(c)
  <2>1. c \in Counted /\ Counted' = Counted \ {c}
    BY <1>2 DEF Finish, Counted
  <2>2. ActiveCount' /\ active > 0
    BY <1>2, <2>1, CountedShrinks DEF Finish, ActiveCount
  <2> QED
    BY <1>2, <2>2 DEF Finish
<1>3. CASE HandshakeDone(c)
  <2>1. ActiveCount'
    BY <1>3, CountOfMove DEF HandshakeDone
  <2> QED
    BY <1>3, <2>1 DEF HandshakeDone
<1>4. CASE HandshakeFailed(c)
  <2>1. ActiveCount'
    BY <1>4, CountOfMove DEF HandshakeFailed
  <2> QED
    BY <1>4, <2>1 DEF HandshakeFailed
<1>5. CASE EnterIdle(c)
  <2>1. ActiveCount'
    BY <1>5, CountOfMove DEF EnterIdle, Refused
  <2> QED
    BY <1>5, <2>1 DEF EnterIdle, Refused
<1>6. CASE Pipelined(c)
  <2>1. ActiveCount'
    BY <1>6, CountOfMove DEF Pipelined
  <2> QED
    BY <1>6, <2>1 DEF Pipelined
<1>7. CASE LeaveIdle(c)
  <2>1. ActiveCount'
    BY <1>7, CountOfMove DEF LeaveIdle, Erased
  <2> QED
    BY <1>7, <2>1 DEF LeaveIdle, Erased
<1>8. CASE BodyAborted(c)
  <2>1. ActiveCount'
    BY <1>8, CountOfMove DEF BodyAborted
  <2> QED
    BY <1>8, <2>1 DEF BodyAborted
<1>9. CASE Write(c)
  <2>1. ActiveCount'
    BY <1>9, CountOfMove DEF Write
  <2> QED
    BY <1>9, <2>1 DEF Write
<1>10. CASE WriteFailed(c)
  <2>1. ActiveCount'
    BY <1>10, CountOfMove DEF WriteFailed
  <2> QED
    BY <1>10, <2>1 DEF WriteFailed
<1>11. CASE Linger(c)
  <2>1. ActiveCount'
    BY <1>11, CountOfMove DEF Linger
  <2> QED
    BY <1>11, <2>1 DEF Linger
<1>12. CASE ReadMore(c)
  <2>1. ActiveCount'
    BY <1>12, CountUnmoved DEF ReadMore
  <2> QED
    BY <1>12, <2>1 DEF ReadMore
<1>13. ASSUME NEW r \in Results \ {"none"}, ReadHead(c, r)
      PROVE  IInv'
  <2>1. ActiveCount'
    BY <1>13, CountOfMove DEF ReadHead, HeadEnds
  <2>2. /\ pc[c] = "head" /\ pc' = [pc EXCEPT ![c] = "leave"]
        /\ result' = [result EXCEPT ![c] = r]
        /\ UNCHANGED <<mainVars, acceptPc, active, idle, sockVars, gen, buf, keep, late>>
        /\ r = "Ok" => HeadComplete(c)
        /\ r = "TooLarge" => buf[c] > 0
    BY <1>13 DEF ReadHead, HeadEnds
  <2> QED
    BY <2>1, <2>2
<1>14. ASSUME NEW wellFormed \in BOOLEAN, Parse(c, wellFormed)
      PROVE  IInv'
  <2>1. ActiveCount'
    BY <1>14, CountOfMove DEF Parse
  <2> QED
    BY <1>14, <2>1 DEF Parse
<1>15. ASSUME NEW wants \in BOOLEAN, BodyComplete(c, wants)
      PROVE  IInv'
  <2>1. ActiveCount'
    BY <1>15, CountOfMove DEF BodyComplete, StillCurrent
  <2> QED
    BY <1>15, <2>1 DEF BodyComplete, StillCurrent
<1>16. ASSUME NEW closing \in BOOLEAN, Route(c, closing)
      PROVE  IInv'
  <2>1. ActiveCount'
    BY <1>16, CountOfMove DEF Route, StillCurrent
  <2> QED
    BY <1>16, <2>1 DEF Route, StillCurrent
<1> QED
  BY <1>1, <1>2, <1>3, <1>4, <1>5, <1>6, <1>7, <1>8, <1>9, <1>10, <1>11, <1>12, <1>13, <1>14, <1>15, <1>16
     DEF SessionStep, IdleTimeout

\* What clients do touches neither threads nor the idle set.
LEMMA ClientPreserves ==
  ASSUME IInv, NEW c \in Conns, ClientSends(c) \/ ClientCloses(c)
  PROVE  IInv'
<1> USE ProxyAssumption
    DEF IInv, Core, TypeOK, MainInv, IdleOwnsSocket, ShutdownReachesIdle,
        SessionInv, PastItsEnd, HeadComplete, ShutdownStates, MainStates,
        AcceptStates, ConnStates, Results, Alive, mainVars, sockVars, sessVars
<1>1. ActiveCount'
  BY CountUnmoved DEF ClientSends, ClientCloses
<1>2. CASE ClientSends(c)
  BY <1>1, <1>2 DEF ClientSends
<1>3. CASE ClientCloses(c)
  BY <1>1, <1>3 DEF ClientCloses
<1> QED
  BY <1>2, <1>3

\* Every step preserves the inductive invariant.
LEMMA NextIInv == IInv /\ [Next]_vars => IInv'
<1> SUFFICES ASSUME IInv, [Next]_vars PROVE IInv'
  OBVIOUS
<1>1. CASE UNCHANGED vars
  <2>1. ActiveCount'
    BY <1>1, CountUnmoved DEF vars
  <2> QED
    BY <1>1, <2>1
    DEF vars, IInv, Core, TypeOK, MainInv, IdleOwnsSocket, ShutdownReachesIdle,
        SessionInv, PastItsEnd, HeadComplete
<1>2. CASE Next
  BY <1>1, <1>2, MainPreserves, AcceptPreserves, SessionPreserves, ClientPreserves
  DEF Next, Terminated
<1> QED
  BY <1>1, <1>2

\* Every reachable state satisfies the inductive invariant.
THEOREM Invariance == Spec => []IInv
  BY InitIInv, NextIInv, PTL DEF Spec

\* Types, for any number of connections and ports: in particular g_active,
\* decremented once per thread, never goes below zero, and no request takes
\* more bytes out of Session::buf_ than are in it.
THEOREM TypeCorrect == Spec => []TypeOK
<1>1. IInv => TypeOK
  BY DEF IInv, Core
<1> QED
  BY <1>1, Invariance, PTL

\* begin_shutdown leaves nobody asleep on keepalive_timeout, however its two
\* halves interleave with enter_idle.
THEOREM ShutdownReachesAll == Spec => []ShutdownReachesIdle
<1>1. IInv => ShutdownReachesIdle
  BY DEF IInv, Core
<1> QED
  BY <1>1, Invariance, PTL

\* g_idle never names a socket its session has closed.
THEOREM IdleSocketsOpen == Spec => []IdleOwnsSocket
<1>1. IInv => IdleOwnsSocket
  BY DEF IInv, Core
<1> QED
  BY <1>1, Invariance, PTL

\* However often the configuration is replaced, a session takes up at most
\* one request after its own was.
THEOREM OneLateRequest == Spec => []AtMostOneLateRequest
<1>1. IInv => AtMostOneLateRequest
  BY DEF IInv, Core, AtMostOneLateRequest, SessionInv, TypeOK
<1> QED
  BY <1>1, Invariance, PTL

\* g_active equals the number of threads inside serve_connection.
THEOREM ActiveCounts == Spec => []ActiveCount
<1>1. IInv => ActiveCount
  BY DEF IInv
<1> QED
  BY <1>1, Invariance, PTL

\* When main returns from a drain that counted zero, no thread that had
\* started is still running.
THEOREM CleanExit == Spec => CleanExitCutsNobody
<1>1. IInv /\ [Next]_vars => (mainPc' = "exited" => mainPc = "exited" \/ Counted = {})
  <2> SUFFICES ASSUME IInv, [Next]_vars, mainPc' = "exited", mainPc # "exited"
               PROVE  Counted = {}
    OBVIOUS
  <2>1. Exit
    BY DEF Next, vars, Terminated, MainStep, Activate, RaiseFlag, DrainLimit,
           JoinAcceptThreads, SetRuntime, CloseIdle, Drained, AcceptStep, CheckFlag,
           NoClient, Accept, SessionStep, IdleTimeout, Start, HandshakeDone,
           HandshakeFailed, EnterIdle, Pipelined, ReadMore, ReadHead, LeaveIdle,
           Parse, BodyComplete, BodyAborted, Route, Write, WriteFailed, Linger,
           Finish, ClientSends, ClientCloses, mainVars
  <2>2. active = 0
    BY <2>1 DEF Exit, IInv, Core, TypeOK
  <2> QED
    BY <2>2, CountedFinite, FS_EmptySet DEF IInv, ActiveCount
<1> QED
  BY <1>1, Invariance, PTL DEF Spec, CleanExitCutsNobody

\* The sweep of a reload or of a shutdown never shuts down a connection whose
\* session has left the idle set and is answering.
THEOREM AnsweringNotShut == Spec => InFlightNotShut
<1>1. IInv /\ [Next]_vars =>
        \A c \in Conns : InFlight(c) /\ shut'[c] => shut[c]
  <2> SUFFICES ASSUME IInv, [Next]_vars, NEW c \in Conns, InFlight(c), shut'[c]
               PROVE  shut[c]
    OBVIOUS
  <2> USE DEF IInv, Core, TypeOK, IdleOwnsSocket, InFlight
  <2>1. CASE CloseIdle
    BY <2>1 DEF CloseIdle
  <2>2. CASE \E d \in Conns : Finish(d)
    BY <2>2 DEF Finish, Goto
  <2>3. CASE shut' = shut
    BY <2>3
  <2> QED
    BY <2>1, <2>2, <2>3
    DEF Next, vars, Terminated, MainStep, Activate, RaiseFlag, DrainLimit,
        JoinAcceptThreads, SetRuntime, Drained, Exit, AcceptStep, CheckFlag,
        NoClient, Accept, SessionStep, IdleTimeout, Start, HandshakeDone,
        HandshakeFailed, EnterIdle, Pipelined, ReadMore, ReadHead, LeaveIdle,
        Parse, BodyComplete, BodyAborted, Route, Write, WriteFailed, Linger,
        ClientSends, ClientCloses, sockVars
<1> QED
  BY <1>1, Invariance, PTL DEF Spec, InFlightNotShut

-----------------------------------------------------------------------------
(* The promise of GracefulService.                                         *)

\* The initial state reads off as the promise's.
LEMMA PromiseBegin == Init => Promise!Begin
BY DEF Init, Promise!Begin, PhaseNow, ConnNow, Alive

\* The main thread's steps: a reload, the phases of shutdown, or nothing.
LEMMA PromiseMain ==
  ASSUME IInv, Activate \/ RaiseFlag \/ DrainLimit \/ MainStep
  PROVE  Promise!Step \/ UNCHANGED Promise!svars
<1> USE DEF IInv, Core, TypeOK, MainInv, ShutdownStates, MainStates, PhaseNow,
            ConnNow, Alive, Promise!svars, sessVars, sockVars
<1>1. CASE Activate
  BY <1>1 DEF Activate, Promise!Step, Promise!Reload
<1>2. CASE RaiseFlag
  BY <1>2 DEF RaiseFlag, Promise!Step, Promise!Drain
<1>3. CASE DrainLimit \/ Drained
  BY <1>3 DEF DrainLimit, Drained
<1>4. CASE SetRuntime
  BY <1>4 DEF SetRuntime
<1>5. CASE CloseIdle
  BY <1>5 DEF CloseIdle
<1>6. CASE JoinAcceptThreads
  BY <1>6 DEF JoinAcceptThreads, Promise!Step, Promise!Refuse
<1>7. CASE Exit
  BY <1>7 DEF Exit, Promise!Step, Promise!Stop
<1> QED
  BY <1>1, <1>2, <1>3, <1>4, <1>5, <1>6, <1>7 DEF MainStep

\* One connection's reading changes, as a change of the whole function.
LEMMA ConnNowAt ==
  ASSUME NEW c \in Conns, NEW v,
         \A d \in Conns : ConnNow(d)' = IF d = c THEN v ELSE ConnNow(d)
  PROVE  [d \in Conns |-> ConnNow(d)]' = [[d \in Conns |-> ConnNow(d)] EXCEPT ![c] = v]
OBVIOUS

\* Accepting a connection opens it under the configuration in force or the
\* one just replaced; the other steps of an accept thread are invisible.
LEMMA PromiseAccept ==
  ASSUME IInv, NEW p \in Ports, AcceptStep(p)
  PROVE  Promise!Step \/ UNCHANGED Promise!svars
<1> USE DEF IInv, Core, TypeOK, MainInv, ShutdownStates, MainStates, Alive,
            sessVars, sockVars, mainVars, SessionInv
<1>1. CASE CheckFlag(p) \/ NoClient(p)
  BY <1>1 DEF CheckFlag, NoClient, PhaseNow, ConnNow, Promise!svars
<1>2. ASSUME NEW c \in Conns, Accept(p, c)
      PROVE  Promise!Open(c)
  <2>1. PhaseNow \in {"serving", "draining"}
    BY <1>2 DEF Accept, Goto, PhaseNow
  <2>2. late[c] = 0
    BY <1>2 DEF Accept, Goto
  <2>3. runtime \in {generation - 1, generation}
    OBVIOUS
  <2>4. \A d \in Conns : ConnNow(d)' = IF d = c THEN "open" ELSE ConnNow(d)
    BY <1>2, <2>2 DEF Accept, Goto, ConnNow
  <2> QED
    <3>1. [d \in Conns |-> ConnNow(d)]' = [[d \in Conns |-> ConnNow(d)] EXCEPT ![c] = "open"]
      BY <2>4, ConnNowAt
    <3>2. ConnNow(c) = "none"
      BY <1>2 DEF Accept, Goto, ConnNow
    <3>3. UNCHANGED PhaseNow
      BY <1>2 DEF Accept, Goto, PhaseNow
    <3> QED
      BY <1>2, <2>1, <2>3, <3>1, <3>2, <3>3 DEF Accept, Goto, Promise!Open
<1> QED
  BY <1>1, <1>2 DEF AcceptStep, Promise!Step

\* A connection's steps: taking up its one late request, closing, or nothing.
LEMMA PromiseSession ==
  ASSUME IInv, NEW c \in Conns, SessionStep(c) \/ IdleTimeout(c)
  PROVE  Promise!Step \/ UNCHANGED Promise!svars
<1> USE DEF IInv, Core, TypeOK, MainInv, ShutdownStates, MainStates,
            ConnStates, Alive, sessVars, sockVars, mainVars, SessionInv, Goto
<1>1. ASSUME NEW wellFormed \in BOOLEAN, Parse(c, wellFormed)
      PROVE  Promise!Step \/ UNCHANGED Promise!svars
  <2>1. CASE PastItsEnd(c)
    <3>1. \A d \in Conns : ConnNow(d)' = IF d = c THEN "last" ELSE ConnNow(d)
      BY <1>1, <2>1 DEF Parse, ConnNow
    <3>2. ConnNow(c) = "open"
      BY <1>1 DEF Parse, ConnNow
    <3>3. PhaseNow # "stopped" /\ (PhaseNow # "serving" \/ gen[c] # generation)
      BY <1>1, <2>1 DEF Parse, PastItsEnd, PhaseNow
    <3>4. UNCHANGED <<PhaseNow, generation, gen>>
      BY <1>1 DEF Parse, PhaseNow
    <3>5. [d \in Conns |-> ConnNow(d)]' = [[d \in Conns |-> ConnNow(d)] EXCEPT ![c] = "last"]
      BY <3>1, ConnNowAt
    <3> QED
      BY <3>2, <3>3, <3>4, <3>5 DEF Promise!Step, Promise!TakeLast
  <2>2. CASE ~PastItsEnd(c)
    BY <1>1, <2>2 DEF Parse, PhaseNow, ConnNow, Promise!svars
  <2> QED
    BY <2>1, <2>2
<1>2. CASE Finish(c)
  <2>1. \A d \in Conns : ConnNow(d)' = IF d = c THEN "none" ELSE ConnNow(d)
    BY <1>2 DEF Finish, ConnNow
  <2>2. ConnNow(c) # "none"
    BY <1>2 DEF Finish, ConnNow
  <2> QED
    <3>1. PhaseNow # "stopped"
      BY <1>2 DEF Finish, PhaseNow
    <3>2. UNCHANGED <<PhaseNow, generation>> /\ gen' = [gen EXCEPT ![c] = 0]
      BY <1>2 DEF Finish, PhaseNow
    <3>3. [d \in Conns |-> ConnNow(d)]' = [[d \in Conns |-> ConnNow(d)] EXCEPT ![c] = "none"]
      BY <2>1, ConnNowAt
    <3> QED
      BY <2>2, <3>1, <3>2, <3>3 DEF Promise!Step, Promise!Close
<1>3. CASE /\ UNCHANGED <<mainVars, gen, late>>
           /\ \A d \in Conns : (pc'[d] = "free") <=> (pc[d] = "free")
  BY <1>3 DEF PhaseNow, ConnNow, Promise!svars
<1> QED
  BY <1>1, <1>2, <1>3
  DEF SessionStep, IdleTimeout, Start, HandshakeDone, HandshakeFailed, EnterIdle,
      Pipelined, ReadMore, ReadHead, LeaveIdle, BodyComplete, BodyAborted, Route,
      Write, WriteFailed, Linger

\* The proxy keeps its promise to clients: GracefulService is implemented for
\* any number of connections, ports and reloads.
THEOREM Refinement == Spec => KeepsPromise
<1>1. IInv /\ [Next]_vars => [Promise!Step]_(Promise!svars)
  <2> SUFFICES ASSUME IInv, [Next]_vars
               PROVE  Promise!Step \/ UNCHANGED Promise!svars
    OBVIOUS
  <2>1. ASSUME UNCHANGED vars PROVE UNCHANGED Promise!svars
    BY <2>1 DEF vars, Promise!svars, PhaseNow, ConnNow, Alive
  <2>2. ASSUME NEW c \in Conns, ClientSends(c) \/ ClientCloses(c)
        PROVE  UNCHANGED Promise!svars
    BY <2>2 DEF ClientSends, ClientCloses, Promise!svars, PhaseNow, ConnNow, Alive,
                mainVars, sessVars
  <2> QED
    BY <2>1, <2>2, PromiseMain, PromiseAccept, PromiseSession DEF Next, Terminated
<1> QED
  BY <1>1, PromiseBegin, Invariance, PTL DEF Spec, KeepsPromise, Promise!Service
=============================================================================
