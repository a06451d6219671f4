CONSTANTS
  None = None
  star = star
  moon = moon
  b1 = b1
  f1 = f1
  f2 = f2
  r1 = r1
  r2 = r2
  r3 = r3
  k1 = k1
  k2 = k2
  k3 = k3
  o1 = o1
  Pages <- MCPages
  Loads <- MCLoads
  Urls <- MCUrls
  Secure <- MCSecure
  Typed <- MCTyped
  Fds <- MCFds
  Linked <- MCLinked
  Past <- MCPast
  MaxIdle = 1
  MaxNavs = 2
  Refs <- MCRefs
  MaxInflight = 2
  MaxTimers = 2
  MaxRaf = 2
  MaxCalls = 3
  NoCall = NoCall
  Origins <- MCOrigins
  Names <- MCNames
  MaxValue = 2
  MaxOriginBytes = 5
  MaxKeys = 2
  MaxCookies = 2
  MaxVisits = 1
  MaxTime = 1
  MaxAge = 1
  MaxWrites = 3
  Absent = Absent
SPECIFICATION BrowserSpec
CHECK_DEADLOCK FALSE
SYMMETRY MCSymmetry
INVARIANTS
  ShownAtAddress
