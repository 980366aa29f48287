SPECIFICATION FairSpec
CONSTANTS
  t1 = t1  t2 = t2  r1 = r1  r2 = r2  r3 = r3  c1 = c1  c2 = c2
  Tokens = {t1, t2}
  Reqs = {r1, r2}
  TokenOf <- MCTokenOf
  Paths = {p1}
  Contents = {c1, c2}
  SizeOf <- MCSizeOf
  Claim = Claim  Absent = Absent  Dir = Dir  Nothing = Nothing  NoReq = NoReq
  FineMtime = FALSE
  ExposedWindows = FALSE
  AmbiguousReplies = FALSE
  MaxRequests = 2
  MaxOutside = 1
  MaxFaults = 2
  MaxCrashes = 1
  MaxClock = 2
INVARIANT
  FailedCallUntouched
PROPERTIES
  EveryCallReturns
