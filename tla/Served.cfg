SPECIFICATION FairSpec
CONSTANTS
  Slaves = {s1}
  StorageServer = store
  Nobody = nobody
  Requests = {r1}
  Download = {}
  Upload = {r1}
  Source <- OwnFiles
  Output <- OwnFiles
  Confirm = {r1}
  Slow = {}
  Faulty = {}
  EvenKeyframes = TRUE
  Mortal = {s1}
  Stoppable = {}
  Threads = {t1}
  StorageMortal = FALSE
  MaxCleanups = 1
  MasterRestarts = 0
  Prompt = TRUE
  Standing = {s1}
  nobody = nobody
  r1 = r1
  s1 = s1
  store = store
  t1 = t1
PROPERTIES
  RequestServed
