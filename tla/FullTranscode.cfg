SPECIFICATION Spec
CONSTANTS
  Slaves = {s1}
  StorageServer = store
  Nobody = nobody
  Requests = {r1}
  Download = {r1}
  Upload = {r1}
  Source <- OwnFiles
  Output <- OwnFiles
  Confirm = {r1}
  Slow = {}
  Faulty = {}
  EvenKeyframes = TRUE
  Mortal = {}
  Stoppable = {}
  Threads = {t1, t2}
  StorageMortal = FALSE
  MaxCleanups = 2
  MasterRestarts = 0
  Prompt = FALSE
  Standing = {s1}
  nobody = nobody
  r1 = r1
  s1 = s1
  store = store
  t1 = t1
  t2 = t2
SYMMETRY FarmSymmetry
INVARIANTS
  TypeOK
  FinishedMeansComplete
  CleanupComesLast
  CleanupJobDeleted
