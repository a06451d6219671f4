---------------------------- MODULE BrowserStores ----------------------------
(***************************************************************************)
(* What the browser keeps across runs: local storage (storage.cpp), one    *)
(* file per origin, cookies (cookies.cpp) and visits (history.cpp), one    *)
(* file each.  All three are read when first used, changed in memory and   *)
(* written whole, into a temporary file that is then renamed.              *)
(***************************************************************************)
EXTENDS Integers, SequencesExt

CONSTANTS
  Origins,
  Names,           \* keys of local storage, names of cookies
  MaxValue,        \* kMaxValueBytes; a value stands for its size
  MaxOriginBytes,  \* kMaxOriginBytes; keys count for one
  MaxKeys,         \* kMaxKeys
  MaxCookies,      \* kMaxCookiesPerOrigin
  MaxVisits,       \* kMaxVisits
  MaxTime,         \* bound: seconds
  MaxAge,          \* bound: seconds a cookie is given
  MaxWrites,       \* bound: changes of the stores
  Absent           \* not read yet; not given

Cookies == [name : Names, only : BOOLEAN, expires : 0..(MaxTime + MaxAge)]
Items == [key : Names, val : 1..MaxValue]
Entered == [url : Origins, at : 0..MaxTime]

ASSUME StoresAssumption ==
  /\ {MaxValue, MaxOriginBytes, MaxKeys, MaxCookies, MaxVisits, MaxTime, MaxAge,
      MaxWrites} \subseteq Nat
  /\ {"jars", "visits"} \cap Origins = {}
  /\ Absent \notin Seq(Items) \cup Seq(Entered) \cup [Origins -> Seq(Cookies)]

VARIABLES
  area, bytes,     \* [Origins -> ...]: Seq(Items) or Absent; Area::bytes
  areaDirty,       \* Area::dirty
  areaFile,        \* [Origins -> ...]
  jars,            \* [Origins -> Seq(Cookies)], or Absent
  jarsDirty,       \* g_dirty
  jarsFile,        \* [Origins -> Seq(Cookies)]: records of one file
  visits,          \* g_visits, Seq(Entered), or Absent
  visitsDirty, visitsFile,
  now,             \* system_clock
  failed,          \* history: stores whose last load, write or removal failed
  writes           \* bounded

areaVars == <<area, bytes, areaDirty, areaFile>>
jarVars == <<jars, jarsDirty, jarsFile>>
visitVars == <<visits, visitsDirty, visitsFile>>
storeVars == <<areaVars, jarVars, visitVars, now, failed, writes>>

StoresInit ==
  /\ area = [o \in Origins |-> Absent] /\ bytes = [o \in Origins |-> 0]
  /\ areaDirty = [o \in Origins |-> FALSE] /\ areaFile = [o \in Origins |-> << >>]
  /\ jars = Absent /\ jarsDirty = FALSE /\ jarsFile = [o \in Origins |-> << >>]
  /\ visits = Absent /\ visitsDirty = FALSE /\ visitsFile = << >>
  /\ now = 0 /\ failed = {} /\ writes = 0

Write == writes < MaxWrites /\ writes' = writes + 1

-----------------------------------------------------------------------------
(* storage.cpp                                                             *)

\* What the first n items take, added up one by one.
Sizes(items) ==
  LET size[n \in 0..Len(items)] ==
        IF n = 0 THEN 0 ELSE size[n - 1] + 1 + items[n].val
  IN size

Bytes(items) == Sizes(items)[Len(items)]

\* load: records up to the first that does not fit, the quotas being those of
\* setItem.
Fits(file, n) ==
  /\ n <= MaxKeys
  /\ Sizes(file)[n] <= MaxOriginBytes
  /\ \A i \in 1..n : file[i].val <= MaxValue

LoadedArea(file) ==
  SubSeq(file, 1, CHOOSE n \in 0..Len(file) :
    Fits(file, n) /\ \A m \in 0..Len(file) : Fits(file, m) => m <= n)

\* area_by_origin.
Area(o) == IF area[o] = Absent THEN LoadedArea(areaFile[o]) ELSE area[o]
AreaBytes(o) == IF area[o] = Absent THEN Bytes(Area(o)) ELSE bytes[o]

\* load gives up on a file that is there: the area is empty until the next run.
AreaLoadFails(o) ==
  /\ area[o] = Absent
  /\ area' = [area EXCEPT ![o] = << >>]
  /\ bytes' = [bytes EXCEPT ![o] = 0]
  /\ failed' = failed \cup {o}
  /\ UNCHANGED <<areaDirty, areaFile, jarVars, visitVars, now, writes>>

At(o, k) == SelectInSeq(Area(o), LAMBDA kv : kv.key = k)

\* What a key that is replaced or removed took.
Was(o, k) == IF At(o, k) = 0 THEN 0 ELSE 1 + Area(o)[At(o, k)].val

\* Mutant: the bytes of a value that is replaced go on counting.
NothingFreed(o, k) == 0

\* The size setItem sets free.
Freed(o, k) == Was(o, k)

SetArea(o, items, size) ==
  /\ Write
  /\ area' = [area EXCEPT ![o] = items]
  /\ bytes' = [bytes EXCEPT ![o] = size]
  /\ areaDirty' = [areaDirty EXCEPT ![o] = TRUE]
  /\ UNCHANGED <<areaFile, jarVars, visitVars, now, failed>>

\* setItem, within the quotas; a refusal only raises in the page.
SetItem(o, k, v) ==
  LET size == AreaBytes(o) - Freed(o, k) + 1 + v IN
  /\ v <= MaxValue /\ size <= MaxOriginBytes
  /\ At(o, k) = 0 => Len(Area(o)) < MaxKeys
  /\ SetArea(o, IF At(o, k) = 0 THEN Append(Area(o), [key |-> k, val |-> v])
                ELSE ReplaceAt(Area(o), At(o, k), [key |-> k, val |-> v]), size)

\* removeItem, assigning nil, and the developer tools' delete.
RemoveItem(o, k) ==
  /\ At(o, k) # 0
  /\ SetArea(o, RemoveAt(Area(o), At(o, k)), AreaBytes(o) - Was(o, k))

ClearArea(o) == Area(o) # << >> /\ SetArea(o, << >>, 0)

-----------------------------------------------------------------------------
(* cookies.cpp.  Every operation holds g_mutex, whatever its thread.       *)

Expired(c) == c.expires # 0 /\ c.expires <= now

\* What is left of the first n cookies of jar with only those in C, in order, as
\* SelectSeq has it.
Filtered(jar, C) ==
  LET left[n \in 0..Len(jar)] ==
        IF n = 0 THEN << >>
        ELSE IF jar[n] \in C THEN Append(left[n - 1], jar[n]) ELSE left[n - 1]
  IN left

Only(jar, C) == Filtered(jar, C)[Len(jar)]

Unexpired(jar) == Only(jar, {c \in Cookies : ~Expired(c)})

\* load_locked leaves out what has expired, and what is past the limit.
LoadedJars ==
  [o \in Origins |->
     LET jar == Unexpired(jarsFile[o])
     IN SubSeq(jar, 1, IF Len(jar) < MaxCookies THEN Len(jar) ELSE MaxCookies)]

Jars == IF jars = Absent THEN LoadedJars ELSE jars

\* load_locked gives up on a file that is there.
JarsLoadFail ==
  /\ jars = Absent
  /\ jars' = [o \in Origins |-> << >>]
  /\ failed' = failed \cup {"jars"}
  /\ UNCHANGED <<areaVars, jarsDirty, jarsFile, visitVars, now, writes>>

Cookie(o, n) == SelectInSeq(Jars[o], LAMBDA c : c.name = n)

SetJar(o, jar) ==
  /\ Write
  /\ jars' = [Jars EXCEPT ![o] = jar]
  /\ jarsDirty' = TRUE
  /\ UNCHANGED <<areaVars, jarsFile, visitVars, now, failed>>

\* Max-Age as given, 0 for one at or below zero, Absent without; time starts at 0,
\* so that the end of the first second is not a session's 0.
Ages == {Absent} \cup 0..MaxAge
Expiry(age) == IF age = Absent THEN 0 ELSE now + age

\* Mutant: what has expired does not count against the limit.
RoomAmongLive(jar) == Len(Unexpired(jar)) < MaxCookies

\* What has expired is dropped when the jar is next read, and counts until then.
RoomIn(jar) == Len(jar) < MaxCookies

\* store_locked: replace in place, append while there is room, or erase.
Store(o, n, only, age) ==
  LET jar == Jars[o]
      i == Cookie(o, n)
      c == [name |-> n, only |-> only, expires |-> Expiry(age)]
  IN IF age = 0 THEN i # 0 /\ SetJar(o, RemoveAt(jar, i))
     ELSE IF i # 0 THEN SetJar(o, ReplaceAt(jar, i, c))
     ELSE RoomIn(jar) /\ SetJar(o, Append(jar, c))

\* A response's Set-Cookie; apply_set_cookie splits it into these.
ServerSets(o, n, only, age) == Store(o, n, only, age)

\* A script's setItem: not over one that is StwpOnly.
ScriptSets(o, n, age) ==
  /\ Cookie(o, n) # 0 => ~Jars[o][Cookie(o, n)].only
  /\ Store(o, n, FALSE, age)

\* The developer tools' remove, or a script's.
RemoveCookie(o, n, byScript) ==
  /\ Cookie(o, n) # 0
  /\ byScript => ~Jars[o][Cookie(o, n)].only
  /\ SetJar(o, RemoveAt(Jars[o], Cookie(o, n)))

\* The developer tools' clear, or a script's, which leaves what is StwpOnly.
ClearJar(o, byScript) ==
  LET left == IF byScript THEN Only(Jars[o], {c \in Cookies : c.only}) ELSE << >> IN
  /\ left # Jars[o]
  /\ SetJar(o, left)

\* header_for, entries and visible drop what has expired, without marking the
\* jar as changed.
UseJar(o) ==
  /\ jars' = [Jars EXCEPT ![o] = Unexpired(@)]
  /\ UNCHANGED <<areaVars, jarsDirty, jarsFile, visitVars, now, failed, writes>>

-----------------------------------------------------------------------------
(* history.cpp                                                             *)

LoadedVisits(file) ==
  SubSeq(file, IF Len(file) > MaxVisits THEN Len(file) - MaxVisits + 1 ELSE 1, Len(file))
Visits == IF visits = Absent THEN LoadedVisits(visitsFile) ELSE visits

\* load gives up on a file that is there.
VisitsLoadFail ==
  /\ visits = Absent
  /\ visits' = << >>
  /\ failed' = failed \cup {"visits"}
  /\ UNCHANGED <<areaVars, jarVars, visitsDirty, visitsFile, now, writes>>

\* record: the newest entry is refreshed if it is of the same URL.
Record(u) ==
  /\ Write
  /\ visits' = IF Visits # << >> /\ Last(Visits).url = u
       THEN ReplaceAt(Visits, Len(Visits), [url |-> u, at |-> now])
       ELSE LoadedVisits(Append(Visits, [url |-> u, at |-> now]))
  /\ visitsDirty' = TRUE
  /\ UNCHANGED <<areaVars, jarVars, visitsFile, now, failed>>

\* clear: the file goes, unless it cannot be removed; nothing is left to write.
ClearVisits(removed) ==
  /\ Write
  /\ visits' = << >>
  /\ visitsDirty' = FALSE
  /\ visitsFile' = IF removed THEN << >> ELSE visitsFile
  /\ failed' = IF removed THEN failed \ {"visits"} ELSE failed \cup {"visits"}
  /\ UNCHANGED <<areaVars, jarVars, now>>

-----------------------------------------------------------------------------
(* Flushing.  A second at most passes between two of them; they come in    *)
(* this order, and at exit they are forced.                                *)

Saved(s, good) == failed' = IF good THEN failed \ {s} ELSE failed \cup {s}

\* One area that has changed: written and renamed, or given up for good.
FlushArea(o, good) ==
  /\ areaDirty[o]
  /\ areaFile' = IF good THEN [areaFile EXCEPT ![o] = area[o]] ELSE areaFile
  /\ areaDirty' = [areaDirty EXCEPT ![o] = FALSE]
  /\ Saved(o, good)
  /\ UNCHANGED <<area, bytes, jarVars, visitVars, now, writes>>

\* save_locked leaves out session cookies and what has expired.
Lasting(jar) == Only(jar, {c \in Cookies : c.expires # 0 /\ ~Expired(c)})

FlushJars(good) ==
  /\ jarsDirty
  /\ jarsFile' = IF good THEN [o \in Origins |-> Lasting(jars[o])] ELSE jarsFile
  /\ jarsDirty' = FALSE
  /\ Saved("jars", good)
  /\ UNCHANGED <<areaVars, jars, visitVars, now, writes>>

FlushVisits(good) ==
  /\ visitsDirty
  /\ visitsFile' = IF good THEN visits ELSE visitsFile
  /\ visitsDirty' = FALSE
  /\ Saved("visits", good)
  /\ UNCHANGED <<areaVars, jarVars, visits, now, writes>>

\* The browser is started again, after an exit that has flushed everything, or
\* a crash, which loses what was not.  A crash within a save leaves a temporary
\* file, which the next save truncates.
Restart ==
  /\ area' = [o \in Origins |-> Absent] /\ bytes' = [o \in Origins |-> 0]
  /\ areaDirty' = [o \in Origins |-> FALSE]
  /\ jars' = Absent /\ jarsDirty' = FALSE
  /\ visits' = Absent /\ visitsDirty' = FALSE
  /\ failed' = {}
  /\ UNCHANGED <<areaFile, jarsFile, visitsFile, now, writes>>

Tick ==
  /\ now < MaxTime
  /\ now' = now + 1
  /\ UNCHANGED <<areaVars, jarVars, visitVars, failed, writes>>

StoresNext ==
  \/ \E o \in Origins, k \in Names :
       \/ \E v \in 1..(MaxValue + 1) : SetItem(o, k, v)
       \/ RemoveItem(o, k)
       \/ \E age \in Ages : ScriptSets(o, k, age) \/ \E only \in BOOLEAN : ServerSets(o, k, only, age)
       \/ \E b \in BOOLEAN : RemoveCookie(o, k, b)
  \/ \E o \in Origins, b \in BOOLEAN : ClearJar(o, b) \/ FlushArea(o, b)
  \/ \E o \in Origins : ClearArea(o) \/ UseJar(o) \/ Record(o) \/ AreaLoadFails(o)
  \/ \E b \in BOOLEAN : ClearVisits(b) \/ FlushJars(b) \/ FlushVisits(b)
  \/ JarsLoadFail \/ VisitsLoadFail \/ Restart \/ Tick

StoresSpec == StoresInit /\ [][StoresNext]_storeVars

-----------------------------------------------------------------------------
StoresTypeOK ==
  /\ area \in [Origins -> {Absent} \cup Seq(Items)]
  /\ bytes \in [Origins -> 0..MaxOriginBytes] /\ areaDirty \in [Origins -> BOOLEAN]
  /\ areaFile \in [Origins -> Seq(Items)]
  /\ jars \in {Absent} \cup [Origins -> Seq(Cookies)] /\ jarsDirty \in BOOLEAN
  /\ jarsFile \in [Origins -> Seq(Cookies)]
  /\ visits \in {Absent} \cup Seq(Entered) /\ visitsDirty \in BOOLEAN
  /\ visitsFile \in Seq(Entered)
  /\ now \in 0..MaxTime /\ writes \in 0..MaxWrites
  /\ failed \subseteq Origins \cup {"jars", "visits"}
  /\ \A o \in Origins :
       /\ area[o] # Absent => Len(area[o]) <= MaxKeys
       /\ jars # Absent => Len(jars[o]) <= MaxCookies
  /\ visits # Absent => Len(visits) <= MaxVisits

\* Whatever is not waiting to be flushed, and whose load and last save in this run
\* did not fail, comes back as it is in memory after any end of the process: nothing that was
\* saved is beyond the limits of loading, nothing that was cleared or removed
\* returns, an origin's byte count matches what it holds, and of the cookies
\* those come back that have time left.
SurvivesRestart ==
  /\ \A o \in Origins : area[o] # Absent =>
       /\ bytes[o] = Bytes(area[o])
       /\ ~areaDirty[o] /\ o \notin failed => LoadedArea(areaFile[o]) = area[o]
  /\ jars # Absent /\ ~jarsDirty /\ "jars" \notin failed =>
       \A o \in Origins : LoadedJars[o] = Lasting(jars[o])
  /\ visits # Absent /\ ~visitsDirty /\ "visits" \notin failed =>
       LoadedVisits(visitsFile) = visits
=============================================================================
