SPECIFICATION MasterFairSpec
CONSTANTS
  Slaves = {s1, s2}
  StorageServer = store
  Nobody = nobody
  Requests = {r1}
  Download = {}
  Upload = {}
  Source <- OwnFiles
  Output <- OwnFiles
  Confirm = {}
  Slow = {"transcode"}
  Faulty = {}
  EvenKeyframes = FALSE
  Mortal = {s1}
  Stoppable = {}
  Threads = {t1}
  StorageMortal = FALSE
  MaxCleanups = 1
  MasterRestarts = 0
  Prompt = TRUE
  Standing = {s1, s2}
  nobody = nobody
  r1 = r1
  s1 = s1
  s2 = s2
  store = store
  t1 = t1
INVARIANTS
  DependenciesDone
  NothingLost
  FinishedMeansComplete
  OneRunner
PROPERTIES
  TakenFromEnded
  OrphansReassigned
