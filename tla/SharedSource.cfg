SPECIFICATION Spec
CONSTANTS
  Slaves = {s1}
  StorageServer = store
  Nobody = nobody
  Requests = {r1, r2}
  Download = {r1, r2}
  Upload = {}
  Source <- OneSource
  Output <- OwnFiles
  Confirm = {}
  Slow = {}
  Faulty = {}
  EvenKeyframes = TRUE
  Mortal = {}
  Stoppable = {}
  Threads = {t1}
  StorageMortal = FALSE
  MaxCleanups = 2
  MasterRestarts = 0
  Prompt = TRUE
  Standing = {s1}
  nobody = nobody
  r1 = r1
  s1 = s1
  store = store
  t1 = t1
  r2 = r2
CONSTRAINT OneAfterAnother
INVARIANTS
  FarmInv
  
