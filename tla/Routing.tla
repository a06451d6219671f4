------------------------------ MODULE Routing ------------------------------
(***************************************************************************)
(* src/src/proxy/router.cpp: how a request's server block and location are *)
(* found.  Each loop is a machine that looks at one candidate per step and *)
(* keeps what the code keeps; names, hosts and paths are reduced to how    *)
(* they compare with the request's.                                        *)
(***************************************************************************)
EXTENDS Integers, Sequences

CONSTANTS
  Servers,    \* Config::servers: [listens, default, named, suffix], whether one
              \* listens on the request's port, as its default_server; whether one
              \* of its names is the host; and the length of the longest that
              \* follows a star where a longer host ends in it, or 0
  HasHost,    \* the request names a host
  Locations   \* Server::locations: [exact, fits, len], whether Match::Exact,
              \* whether the path is the request's, or a prefix of it, and its length

ServersOK ==
  Servers \in Seq([listens : BOOLEAN, default : BOOLEAN, named : BOOLEAN, suffix : Nat])
LocationsOK == Locations \in Seq([exact : BOOLEAN, fits : BOOLEAN, len : Nat])

VARIABLES
  at,        \* the server or location that is looked at
  exact,     \* returned at once, or 0
  first,     \* the first server on the port, or 0
  fallback,  \* the first default_server on it, or 0
  wildcard,  \* the server with the longest suffix so far, or 0
  longest,   \* wildcard_len
  best       \* the location with the longest prefix so far, or 0

-----------------------------------------------------------------------------
(* pick_server                                                             *)

srvVars == <<at, exact, first, fallback, wildcard, longest>>

SrvInit ==
  /\ at = 1 /\ exact = 0 /\ first = 0 /\ fallback = 0
  /\ wildcard = 0 /\ longest = 0

SkipServer ==
  /\ ~Servers[at].listens
  /\ UNCHANGED <<exact, first, fallback, wildcard, longest>>

\* The server's names, one of which ends the search.
LookAtServer ==
  LET s == Servers[at] IN
  /\ s.listens
  /\ first' = IF first = 0 THEN at ELSE first
  /\ fallback' = IF s.default /\ fallback = 0 THEN at ELSE fallback
  /\ exact' = IF HasHost /\ s.named THEN at ELSE 0
  /\ IF HasHost /\ ~s.named /\ s.suffix > longest
     THEN wildcard' = at /\ longest' = s.suffix
     ELSE UNCHANGED <<wildcard, longest>>

SrvStep ==
  /\ exact = 0 /\ at <= Len(Servers)
  /\ SkipServer \/ LookAtServer
  /\ at' = at + 1

SrvSpec == SrvInit /\ [][SrvStep]_srvVars

SrvDone == exact # 0 \/ at > Len(Servers)

PickedServer ==
  IF exact # 0 THEN exact
  ELSE IF wildcard # 0 THEN wildcard
  ELSE IF fallback # 0 THEN fallback ELSE first

Listening == {i \in DOMAIN Servers : Servers[i].listens}
Named == {i \in Listening : HasHost /\ Servers[i].named}
Matching == {i \in Listening : HasHost /\ ~Servers[i].named /\ Servers[i].suffix > 0}
Default == {i \in Listening : Servers[i].default}

IsFirst(i, S) == i \in S /\ \A j \in S : i <= j

\* The one with the longest, and the first of equal ones.
IsLongest(i, S, len(_)) ==
  i \in S /\ \A j \in S : len(j) < len(i) \/ (len(j) = len(i) /\ i <= j)

\* The server that has the host's name wins wherever it stands, else the longest
\* wildcard, else the port's default server, else its first; and none only where
\* nothing listens on the port.
ServerRight ==
  SrvDone =>
    IF Named # {} THEN IsFirst(PickedServer, Named)
    ELSE IF Matching # {}
    THEN IsLongest(PickedServer, Matching, LAMBDA i : Servers[i].suffix)
    ELSE IF Default # {} THEN IsFirst(PickedServer, Default)
    ELSE IF Listening # {} THEN IsFirst(PickedServer, Listening)
    ELSE PickedServer = 0

-----------------------------------------------------------------------------
(* pick_location                                                           *)

locVars == <<at, exact, best>>

LocInit == at = 1 /\ exact = 0 /\ best = 0

LocStep ==
  /\ exact = 0 /\ at <= Len(Locations)
  /\ LET l == Locations[at] IN
     IF l.exact
     THEN /\ exact' = IF l.fits THEN at ELSE 0
          /\ UNCHANGED best
     ELSE /\ best' = IF l.fits /\ (best = 0 \/ l.len > Locations[best].len)
                     THEN at ELSE best
          /\ UNCHANGED exact
  /\ at' = at + 1

LocSpec == LocInit /\ [][LocStep]_locVars

LocDone == exact # 0 \/ at > Len(Locations)
PickedLocation == IF exact # 0 THEN exact ELSE best

Exacts == {i \in DOMAIN Locations : Locations[i].exact /\ Locations[i].fits}
Prefixes == {i \in DOMAIN Locations : ~Locations[i].exact /\ Locations[i].fits}

\* An exact location wins wherever it stands, the first of them; then the longest
\* prefix, the first of equal ones; a request without either has none.
LocationRight ==
  LocDone =>
    IF Exacts # {} THEN IsFirst(PickedLocation, Exacts)
    ELSE IF Prefixes # {}
    THEN IsLongest(PickedLocation, Prefixes, LAMBDA i : Locations[i].len)
    ELSE PickedLocation = 0
=============================================================================
