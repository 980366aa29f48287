SPECIFICATION FairSpec
CONSTANTS
  c1 = c1  c2 = c2  c3 = c3  t1 = t1  t2 = t2
  Calls = {c1, c2, c3}
  Targets = {t1, t2}
  ListsOf <- MCLists
  MaxBatchItems = 2
  MaxConcurrentPerBatch = 2
  MaxConcurrentBatches = 2
INVARIANTS
  TypeOK
  DownloadsBounded
  EveryRowAnswered
  OneWorkerPerTarget
PROPERTIES
  EveryCallAnswered
