SPECIFICATION Spec
CONSTANTS
  t1 = t1  t2 = t2  r1 = r1  r2 = r2  r3 = r3  c1 = c1  c2 = c2
  Tokens = {t1, t2}
  Reqs = {r1, r2, r3}
  TokenOf <- MCTokenOf
  Paths = {p1}
  Contents = {c1, c2}
  SizeOf <- MCSizeOf
  Claim = Claim  Absent = Absent  Dir = Dir  Nothing = Nothing  NoReq = NoReq
  FineMtime = TRUE
  ExposedWindows = FALSE
  AmbiguousReplies = TRUE
  MaxRequests = 4
  MaxOutside = 1
  MaxFaults = 1
  MaxCrashes = 0
  MaxClock = 0
SYMMETRY Symmetric
INVARIANTS
  TypeOK
  SessionLockFree
  PathExclusion
  MarkerSound
PROPERTIES
  NoSilentOverwrite
  ImplementsFreshGate
