SPECIFICATION FairSpec
CONSTANTS
  Workers = {w1, w2}
  Dirs = {d1}
  Roots = {h1, h2, h3, h4}
  NoWorker = NoWorker
  NoRoot = NoRoot
INVARIANTS
  TypeOK
  NoClosedRootInUse
  NoRootLost
PROPERTIES
  RetryUsesNewRoot
  EveryCallEnds
