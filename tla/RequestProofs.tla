---------------------------- MODULE RequestProofs ----------------------------
(***************************************************************************)
(* Proofs about what is computed for one request, by itself: Routing and   *)
(* StaticFiles.                                                            *)
(***************************************************************************)
EXTENDS Routing, StaticFiles, SequenceTheorems, TLAPS

-----------------------------------------------------------------------------
(* pick_server                                                             *)

\* Of the servers looked at: `i` is the first of S, or there is none.
FirstSeen(i, S) ==
  /\ i = 0 => \A j \in S : j >= at
  /\ i # 0 => i < at /\ IsFirst(i, S)

\* ... and none that has a name was passed over.
SrvInv ==
  /\ at \in 1..(Len(Servers) + 1)
  /\ FirstSeen(exact, Named)
  /\ FirstSeen(first, Listening)
  /\ FirstSeen(fallback, Default)
  /\ longest \in Nat
  /\ wildcard = 0 => longest = 0 /\ \A j \in Matching : j >= at
  /\ wildcard # 0 =>
       /\ wildcard \in Matching /\ wildcard < at /\ longest = Servers[wildcard].suffix
       /\ \A j \in Matching : j < at =>
            \/ Servers[j].suffix < longest
            \/ Servers[j].suffix = longest /\ wildcard <= j

\* pick_server finds the right server, for any list of them.
THEOREM PickServer ==
  ASSUME ServersOK
  PROVE  SrvSpec => []ServerRight
<1>0. /\ Len(Servers) \in Nat /\ DOMAIN Servers = 1..Len(Servers)
      /\ \A i \in DOMAIN Servers : Servers[i].suffix \in Nat
  <2>1. Len(Servers) \in Nat /\ DOMAIN Servers = 1..Len(Servers)
    BY ServersOK DEF ServersOK
  <2>2. ASSUME NEW i \in 1..Len(Servers) PROVE Servers[i].suffix \in Nat
    <3>1. Servers[i] \in [listens : BOOLEAN, default : BOOLEAN, named : BOOLEAN, suffix : Nat]
      BY ServersOK, ElementOfSeq DEF ServersOK
    <3> QED
      BY <3>1
  <2> QED
    BY <2>1, <2>2
<1>a. /\ Named \subseteq Listening /\ Default \subseteq Listening
      /\ Matching \subseteq Listening /\ Named \cap Matching = {}
      /\ Listening \subseteq Nat \ {0} /\ Listening \subseteq DOMAIN Servers
  BY <1>0 DEF Named, Default, Matching, Listening
<1>1. SrvInit => SrvInv
  BY <1>0, <1>a DEF SrvInit, SrvInv, FirstSeen
<1>2. SrvInv /\ [SrvStep]_srvVars => SrvInv'
  <2> SUFFICES ASSUME SrvInv, [SrvStep]_srvVars PROVE SrvInv'
    OBVIOUS
  <2>1. CASE UNCHANGED srvVars
    BY <2>1 DEF srvVars, SrvInv, FirstSeen, Named, Listening, Default, Matching
  <2>2. CASE SrvStep
    <3>1. /\ at \in DOMAIN Servers /\ at \in Nat \ {0} /\ at' = at + 1 /\ exact = 0
          /\ at' \in 1..(Len(Servers) + 1)
      BY <2>2, <1>0 DEF SrvStep, SrvInv
    <3>2. ASSUME NEW i, NEW S \in SUBSET Listening, FirstSeen(i, S), NEW j,
                 j = IF i = 0 /\ at \in S THEN at ELSE i
          PROVE  /\ j = 0 => \A k \in S : k >= at'
                 /\ j # 0 => j < at' /\ IsFirst(j, S)
      <4>1. S \subseteq Nat
        BY <1>a
      <4>2. CASE i # 0
        <5>1. j = i
          BY <3>2, <4>2
        <5>2. i < at /\ IsFirst(i, S)
          BY <3>2, <4>2 DEF FirstSeen
        <5>3. i \in Nat
          BY <4>1, <5>2 DEF IsFirst
        <5> QED
          BY <3>1, <4>2, <5>1, <5>2, <5>3
      <4>3. CASE i = 0 /\ at \in S
        BY <3>1, <3>2, <4>1, <4>3 DEF FirstSeen, IsFirst
      <4>4. CASE i = 0 /\ at \notin S
        <5>1. \A k \in S : k >= at /\ k # at
          BY <3>2, <4>4 DEF FirstSeen
        <5> QED
          BY <3>1, <3>2, <4>1, <4>4, <5>1
      <4> QED
        BY <4>2, <4>3, <4>4
    <3>5. ASSUME /\ first' = IF first = 0 /\ at \in Listening THEN at ELSE first
                 /\ fallback' = IF fallback = 0 /\ at \in Default THEN at ELSE fallback
                 /\ exact' = IF exact = 0 /\ at \in Named THEN at ELSE exact
          PROVE  FirstSeen(exact, Named)' /\ FirstSeen(first, Listening)'
                 /\ FirstSeen(fallback, Default)'
      <4>1. FirstSeen(exact, Named)'
        <5>1. FirstSeen(exact, Named)
          BY DEF SrvInv
        <5>2. /\ exact' = 0 => \A k \in Named : k >= at'
              /\ exact' # 0 => exact' < at' /\ IsFirst(exact', Named)
          BY <3>2, <3>5, <5>1, <1>a
        <5> QED
          BY <5>2 DEF FirstSeen, IsFirst, Named, Listening
      <4>2. FirstSeen(first, Listening)'
        <5>1. FirstSeen(first, Listening)
          BY DEF SrvInv
        <5>2. /\ first' = 0 => \A k \in Listening : k >= at'
              /\ first' # 0 => first' < at' /\ IsFirst(first', Listening)
          BY <3>2, <3>5, <5>1, <1>a
        <5> QED
          BY <5>2 DEF FirstSeen, IsFirst, Listening
      <4>3. FirstSeen(fallback, Default)'
        <5>1. FirstSeen(fallback, Default)
          BY DEF SrvInv
        <5>2. /\ fallback' = 0 => \A k \in Default : k >= at'
              /\ fallback' # 0 => fallback' < at' /\ IsFirst(fallback', Default)
          BY <3>2, <3>5, <5>1, <1>a
        <5> QED
          BY <5>2 DEF FirstSeen, IsFirst, Default, Listening
      <4> QED
        BY <4>1, <4>2, <4>3
    <3>3. CASE SkipServer
      <4>1. at \notin Listening
        BY <3>3 DEF SkipServer, Listening
      <4> QED
        <5>1. at \notin Named /\ at \notin Default /\ at \notin Matching
          BY <4>1, <1>a
        <5>2. /\ exact' = exact /\ first' = first /\ fallback' = fallback
              /\ wildcard' = wildcard /\ longest' = longest
          BY <3>3 DEF SkipServer
        <5>3. /\ first' = IF first = 0 /\ at \in Listening THEN at ELSE first
              /\ fallback' = IF fallback = 0 /\ at \in Default THEN at ELSE fallback
              /\ exact' = IF exact = 0 /\ at \in Named THEN at ELSE exact
          BY <4>1, <5>1, <5>2
        <5> QED
          BY <3>1, <3>5, <5>1, <5>2, <5>3, <1>a DEF SrvInv, Matching, Listening
    <3>4. CASE LookAtServer
      <4>1. /\ at \in Listening
            /\ at \in Named <=> HasHost /\ Servers[at].named
            /\ at \in Default <=> Servers[at].default
            /\ at \in Matching <=> HasHost /\ ~Servers[at].named /\ Servers[at].suffix > 0
        BY <3>1, <3>4 DEF LookAtServer, Listening, Named, Default, Matching
      <4>2. /\ first' = IF first = 0 /\ at \in Listening THEN at ELSE first
            /\ fallback' = IF fallback = 0 /\ at \in Default THEN at ELSE fallback
            /\ exact' = IF exact = 0 /\ at \in Named THEN at ELSE exact
        BY <3>1, <3>4, <4>1 DEF LookAtServer
      <4>3. FirstSeen(exact, Named)' /\ FirstSeen(first, Listening)'
            /\ FirstSeen(fallback, Default)'
        BY <3>5, <4>2
      <4>4. /\ longest \in Nat /\ Servers[at].suffix \in Nat
            /\ \A j \in Matching : j \in Nat \ {0} /\ Servers[j].suffix \in Nat
        BY <1>0, <1>a, <3>1 DEF SrvInv
      <4>5. CASE at \in Matching /\ Servers[at].suffix > longest
        <5>1. wildcard' = at /\ longest' = Servers[at].suffix
          BY <3>4, <4>1, <4>5 DEF LookAtServer
        <5>2. \A j \in Matching : j < at' =>
                \/ Servers[j].suffix < longest'
                \/ Servers[j].suffix = longest' /\ at <= j
          BY <3>1, <4>4, <4>5, <5>1 DEF SrvInv
        <5> QED
          BY <3>1, <4>3, <4>4, <4>5, <5>1, <5>2 DEF SrvInv, Matching, Listening
      <4>6. CASE ~(at \in Matching /\ Servers[at].suffix > longest)
        <5>1. wildcard' = wildcard /\ longest' = longest
          BY <3>4, <4>1, <4>4, <4>6 DEF LookAtServer
        <5>2. at \in Matching => wildcard # 0 /\ Servers[at].suffix <= longest
                                /\ wildcard < at
          BY <4>1, <4>4, <4>6 DEF SrvInv
        <5> QED
          BY <3>1, <4>3, <4>4, <5>1, <5>2 DEF SrvInv, Matching, Listening
      <4> QED
        BY <4>5, <4>6
    <3> QED
      BY <2>2, <3>3, <3>4 DEF SrvStep
  <2> QED
    BY <2>1, <2>2
<1>3. SrvInv => ServerRight
  <2> SUFFICES ASSUME SrvInv, SrvDone PROVE ServerRight
    BY DEF ServerRight
  <2>1. CASE exact # 0
    BY <2>1 DEF SrvInv, FirstSeen, ServerRight, PickedServer, IsFirst
  <2>2. CASE exact = 0 /\ at > Len(Servers)
    <3>1. \A i \in Listening : i < at
      BY <2>2, <1>0, <1>a DEF SrvInv
    <3>2. Named = {}
      BY <2>2, <3>1, <1>0, <1>a DEF SrvInv, FirstSeen
    <3>3. CASE wildcard # 0
      BY <2>2, <3>1, <3>2, <3>3, <1>a
         DEF SrvInv, ServerRight, PickedServer, IsLongest
    <3>4. CASE wildcard = 0
      <4>1. Matching = {}
        BY <3>1, <3>4, <1>0, <1>a DEF SrvInv
      <4>2. fallback # 0 => IsFirst(fallback, Default) /\ Default # {}
        BY DEF SrvInv, FirstSeen, IsFirst
      <4>3. fallback = 0 => Default = {}
        BY <3>1, <1>0, <1>a DEF SrvInv, FirstSeen
      <4>4. first # 0 => IsFirst(first, Listening) /\ Listening # {}
        BY DEF SrvInv, FirstSeen, IsFirst
      <4>5. first = 0 => Listening = {}
        BY <3>1, <1>0, <1>a DEF SrvInv, FirstSeen
      <4> QED
        BY <2>2, <3>2, <3>4, <4>1, <4>2, <4>3, <4>4, <4>5 DEF ServerRight, PickedServer
    <3> QED
      BY <3>3, <3>4
  <2> QED
    BY <2>1, <2>2, <1>0 DEF SrvDone, SrvInv
<1> QED
  BY <1>1, <1>2, <1>3, PTL DEF SrvSpec

-----------------------------------------------------------------------------
(* pick_location                                                           *)

\* Of the locations looked at: the first exact one, the best prefix.
LocInv ==
  /\ at \in 1..(Len(Locations) + 1)
  /\ FirstSeen(exact, Exacts)
  /\ best = 0 => \A j \in Prefixes : j >= at
  /\ best # 0 =>
       /\ best \in Prefixes /\ best < at
       /\ \A j \in Prefixes : j < at =>
            \/ Locations[j].len < Locations[best].len
            \/ Locations[j].len = Locations[best].len /\ best <= j

\* pick_location finds the right location, for any list of them.
THEOREM PickLocation ==
  ASSUME LocationsOK
  PROVE  LocSpec => []LocationRight
<1>0. /\ Len(Locations) \in Nat /\ DOMAIN Locations = 1..Len(Locations)
      /\ \A i \in DOMAIN Locations : Locations[i].len \in Nat
  <2>1. Len(Locations) \in Nat /\ DOMAIN Locations = 1..Len(Locations)
    BY LocationsOK DEF LocationsOK
  <2>2. ASSUME NEW i \in 1..Len(Locations) PROVE Locations[i].len \in Nat
    <3>1. Locations[i] \in [exact : BOOLEAN, fits : BOOLEAN, len : Nat]
      BY LocationsOK, ElementOfSeq DEF LocationsOK
    <3> QED
      BY <3>1
  <2> QED
    BY <2>1, <2>2
<1>a. /\ Exacts \subseteq DOMAIN Locations /\ Prefixes \subseteq DOMAIN Locations
      /\ Exacts \cap Prefixes = {}
      /\ Exacts \subseteq Nat \ {0} /\ Prefixes \subseteq Nat \ {0}
  BY <1>0 DEF Exacts, Prefixes
<1>1. LocInit => LocInv
  BY <1>0, <1>a DEF LocInit, LocInv, FirstSeen
<1>2. LocInv /\ [LocStep]_locVars => LocInv'
  <2> SUFFICES ASSUME LocInv, [LocStep]_locVars PROVE LocInv'
    OBVIOUS
  <2>1. CASE UNCHANGED locVars
    BY <2>1 DEF locVars, LocInv, FirstSeen, Exacts, Prefixes
  <2>2. CASE LocStep
    <3>1. /\ at \in DOMAIN Locations /\ at \in Nat \ {0} /\ at' = at + 1 /\ exact = 0
          /\ at' \in 1..(Len(Locations) + 1)
      BY <2>2, <1>0 DEF LocStep, LocInv
    <3>2. /\ at \in Exacts <=> Locations[at].exact /\ Locations[at].fits
          /\ at \in Prefixes <=> ~Locations[at].exact /\ Locations[at].fits
      BY <3>1 DEF Exacts, Prefixes
    <3>3. FirstSeen(exact, Exacts)'
      <4>1. exact' = IF at \in Exacts THEN at ELSE 0
        BY <2>2, <3>1, <3>2 DEF LocStep
      <4>2. \A j \in Exacts : j >= at
        BY <3>1 DEF LocInv, FirstSeen
      <4> QED
        BY <3>1, <4>1, <4>2, <1>a DEF FirstSeen, IsFirst, Exacts
    <3>4. \A j \in Prefixes : j \in Nat \ {0} /\ Locations[j].len \in Nat
      BY <1>0, <1>a
    <3>5. CASE at \in Prefixes /\ (best = 0 \/ Locations[at].len > Locations[best].len)
      <4>1. best' = at
        BY <2>2, <3>2, <3>5 DEF LocStep
      <4>2. \A j \in Prefixes : j < at' =>
              \/ Locations[j].len < Locations[at].len
              \/ Locations[j].len = Locations[at].len /\ at <= j
        BY <3>1, <3>4, <3>5 DEF LocInv
      <4> QED
        BY <3>1, <3>3, <3>5, <4>1, <4>2 DEF LocInv, Prefixes
    <3>6. CASE ~(at \in Prefixes /\ (best = 0 \/ Locations[at].len > Locations[best].len))
      <4>1. best' = best
        BY <2>2, <3>2, <3>6 DEF LocStep
      <4>2. at \in Prefixes =>
              best # 0 /\ best < at /\ Locations[at].len <= Locations[best].len
        BY <3>1, <3>4, <3>6 DEF LocInv
      <4> QED
        BY <3>1, <3>3, <3>4, <4>1, <4>2 DEF LocInv, Prefixes
    <3> QED
      BY <3>5, <3>6
  <2> QED
    BY <2>1, <2>2
<1>3. LocInv => LocationRight
  <2> SUFFICES ASSUME LocInv, LocDone PROVE LocationRight
    BY DEF LocationRight
  <2>1. CASE exact # 0
    BY <2>1 DEF LocInv, FirstSeen, LocationRight, PickedLocation, IsFirst
  <2>2. CASE exact = 0 /\ at > Len(Locations)
    <3>1. \A i \in Exacts \cup Prefixes : i < at
      BY <2>2, <1>0, <1>a DEF LocInv
    <3>2. Exacts = {}
      BY <2>2, <3>1, <1>0, <1>a DEF LocInv, FirstSeen
    <3> QED
      BY <2>2, <3>1, <3>2, <1>0, <1>a DEF LocInv, LocationRight, PickedLocation, IsLongest
  <2> QED
    BY <2>1, <2>2, <1>0 DEF LocDone, LocInv
<1> QED
  BY <1>1, <1>2, <1>3, PTL DEF LocSpec

-----------------------------------------------------------------------------
(* parse_byte_range                                                        *)

\* parse_byte_range computes the asked part of the file: it refuses exactly when
\* that is empty, and else its first and last position are those sent, whatever
\* the numbers stoull has read, suffixes longer than the file and ends past it
\* included.
THEOREM RangeIsAsked ==
  ASSUME Marks, NEW n \in Nat, NEW r \in Ranges,
         r.first # Bad, r.last # Bad, ~(r.first = Absent /\ r.last = Absent)
  PROVE  /\ Satisfiable(r, n) <=> Asked(r, n) # {}
         /\ Satisfiable(r, n) =>
              Asked(r, n) = Start(r, n)..End(r, n)
<1> DEFINE s == Start(r, n)
           e == End(r, n)
<1>1. r.first \in Nat \cup {Absent} /\ r.last \in Nat \cup {Absent}
  BY DEF Ranges, Numbers
<1>2. CASE r.first = Absent
  <2>1. r.last \in Nat /\ r.last # Absent
    BY <1>1, <1>2 DEF Marks
  <2>2. Satisfiable(r, n) <=> n > 0 /\ r.last > 0
    BY <1>2, <2>1 DEF Satisfiable, Refused, Start, End, Marks
  <2>3. Asked(r, n) = {i \in 0..(n - 1) : i >= n - r.last}
    BY <1>2 DEF Asked
  <2>4. n > 0 /\ r.last > 0 => n - 1 \in Asked(r, n)
    BY <2>1, <2>3
  <2>5. n > 0 => Asked(r, n) = s..e
    BY <1>2, <2>1, <2>3 DEF Start, End
  <2>6. Asked(r, n) # {} => n > 0 /\ r.last > 0
    BY <2>1, <2>3
  <2> QED
    BY <2>2, <2>4, <2>5, <2>6
<1>3. CASE r.first # Absent
  <2>1. r.first \in Nat
    BY <1>1, <1>3
  <2>2. Asked(r, n) =
          {i \in 0..(n - 1) : i >= r.first /\ (r.last = Absent \/ i <= r.last)}
    BY <1>3 DEF Asked
  <2>3. s = r.first
    BY <1>3 DEF Start
  <2>4. n > 0 => e \in 0..(n - 1)
    BY <1>1, <1>3 DEF End, Marks
  <2>5. n > 0 => \A i \in 0..(n - 1) : i <= e <=> r.last = Absent \/ i <= r.last
    BY <1>1, <1>3 DEF End, Marks
  <2>6. Satisfiable(r, n) <=> n > 0 /\ s <= e
    <3>1. Refused(r, n) <=> n = 0
      BY <1>3 DEF Refused
    <3> QED
      BY <2>1, <2>3, <2>4, <3>1 DEF Satisfiable
  <2> HIDE DEF s, e
  <2>7. n > 0 => Asked(r, n) = {i \in 0..(n - 1) : s <= i /\ i <= e}
    BY <2>2, <2>3, <2>5
  <2>8. ASSUME n > 0
        PROVE  Asked(r, n) = s..e /\ (s..e # {} <=> s <= e)
    <3>1. s \in Nat /\ e \in 0..(n - 1)
      BY <2>1, <2>3, <2>4, <2>8
    <3>2. \A i : i \in 0..(n - 1) /\ s <= i /\ i <= e <=> i \in s..e
      BY <3>1
    <3>3. s <= e => s \in s..e
      BY <3>1
    <3>4. {i \in 0..(n - 1) : s <= i /\ i <= e} = s..e
      BY <3>2
    <3>5. s..e # {} => s <= e
      BY <3>1
    <3> QED
      BY <2>7, <2>8, <3>3, <3>4, <3>5
  <2>9. n = 0 => Asked(r, n) = {}
    BY <2>2
  <2>10. CASE n = 0
    BY <2>6, <2>9, <2>10
  <2>11. CASE n > 0
    BY <2>6, <2>8, <2>11 DEF s, e
  <2> QED
    BY <2>10, <2>11
<1> QED
  BY <1>2, <1>3

-----------------------------------------------------------------------------
(* send_file                                                               *)

\* How far the body is, at each stage.
Inv ==
  /\ TypeOK /\ FramingKept
  /\ pc \in {"open", "plan"} => offset = 0 /\ length = 0
  /\ pc \in {"open", "plan", "inline"} => sent = 0
  /\ pc = "stream" => sent + remaining = length

\* What a satisfiable range announces lies within the file.
LEMMA RangeInFile ==
  ASSUME Marks, NEW n \in Nat, NEW r \in Ranges, Satisfiable(r, n)
  PROVE  /\ Start(r, n) \in Nat
         /\ End(r, n) - Start(r, n) + 1 \in Nat
         /\ Start(r, n) + (End(r, n) - Start(r, n) + 1) <= n
<1>1. r.first \in Nat \cup {Absent} /\ r.last \in Nat \cup {Absent} /\ n > 0
  <2>1. r.first # Bad /\ r.last # Bad /\ n # 0
    BY DEF Satisfiable, Refused
  <2>2. r.first \in Nat \cup {Absent} /\ r.last \in Nat \cup {Absent}
    BY <2>1 DEF Ranges, Numbers
  <2> QED
    BY <2>1, <2>2
<1>2. Start(r, n) \in Nat /\ End(r, n) \in Int /\ End(r, n) <= n - 1
  <2>1. CASE r.first = Absent
    <3>1. r.last \in Nat /\ r.last # Absent
      BY <1>1, <2>1 DEF Satisfiable, Refused, Marks
    <3> QED
      BY <1>1, <2>1, <3>1 DEF Start, End
  <2>2. CASE r.first # Absent
    BY <1>1, <2>2 DEF Start, End, Marks
  <2> QED
    BY <2>1, <2>2
<1>3. Start(r, n) <= End(r, n)
  BY DEF Satisfiable
<1> QED
  BY <1>2, <1>3

\* send_file keeps its framing, for any sizes of file and buffers, whatever the
\* range and however the file changes meanwhile.
THEOREM FramingAlwaysKept ==
  ASSUME Marks, InlineBodyMax \in Nat, BufSize \in Nat
  PROVE  Spec => []FramingKept
<1>1. Init => Inv
  <2> SUFFICES ASSUME Init PROVE Inv
    OBVIOUS
  <2>1. TypeOK
    BY DEF Init, TypeOK
  <2>2. FramingKept
    BY DEF Init, FramingKept
  <2> QED
    BY <2>1, <2>2 DEF Init, Inv
<1>2. Inv /\ [Next]_vars => Inv'
  <2> SUFFICES ASSUME Inv, [Next]_vars PROVE Inv'
    OBVIOUS
  <2> USE DEF Inv, TypeOK, FramingKept
  <2>1. ASSUME NEW code \in {403, 404, 416}, NEW from \in {"open", "plan"},
               NEW b \in BOOLEAN, Text(code, from, b)
        PROVE  Inv'
    BY <2>1 DEF Text
  <2>2. ASSUME NEW n \in Nat, Open(n)
        PROVE  Inv'
    BY <2>2 DEF Open
  <2>3. ASSUME NEW code \in {200, 206}, NEW from \in Nat, NEW n \in Nat,
               from + n <= size, Planned(code, from, n)
        PROVE  Inv'
    BY <2>3 DEF Planned
  <2>4. CASE Whole
    BY <2>3, <2>4 DEF Whole
  <2>5. ASSUME NEW r \in Ranges, Part(r)
        PROVE  Inv'
    <3>1. Satisfiable(r, size) /\ size \in Nat
      BY <2>5 DEF Part
    <3> QED
      BY <2>3, <2>5, <3>1, RangeInFile DEF Part
  <2>6. ASSUME NEW got \in 0..length, NEW b \in BOOLEAN, Inline(got, b)
        PROVE  Inv'
    BY <2>6 DEF Inline
  <2>7. CASE StreamFails
    BY <2>7 DEF StreamFails
  <2>8. ASSUME NEW got \in 1..BufSize, Piece(got)
        PROVE  Inv'
    BY <2>8 DEF Piece
  <2>9. CASE StreamEnds
    BY <2>9 DEF StreamEnds
  <2>10. CASE UNCHANGED vars
    BY <2>10 DEF vars
  <2> QED
    BY <2>1, <2>2, <2>4, <2>5, <2>6, <2>7, <2>8, <2>9, <2>10 DEF Next, NotSatisfiable
<1>3. Inv => FramingKept
  BY DEF Inv
<1> QED
  BY <1>1, <1>2, <1>3, PTL DEF Spec
=============================================================================
