SPECIFICATION Spec
CONSTANTS
  Slaves = {s1}
  StorageServer = store
  Nobody = nobody
  Requests = {r1}
  Download = {r1}
  Upload = {r1}
  Source <- OwnFiles
  Output <- OwnFiles
  Confirm = {}
  Slow = {}
  Faulty = {"detect_frames", "transcode", "download", "upload"}
  EvenKeyframes = TRUE
  Mortal = {}
  Stoppable = {}
  Threads = {t1}
  StorageMortal = FALSE
  MaxCleanups = 1
  MasterRestarts = 1
  Prompt = TRUE
  Standing = {s1}
  nobody = nobody
  r1 = r1
  s1 = s1
  store = store
  t1 = t1
INVARIANTS
  CleanupComesLast
PROPERTIES
  ImplementsWorkflow
