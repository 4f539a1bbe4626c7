SPECIFICATION Spec
CONSTANTS
  Slaves = {s1}
  StorageServer = store
  Nobody = nobody
  Requests = {r1}
  Download = {}
  Upload = {}
  Source <- OwnFiles
  Output <- OwnFiles
  Confirm = {}
  Slow = {"detect_frames", "write_mergefile", "video_merge"}
  Faulty = {}
  EvenKeyframes = TRUE
  Mortal = {}
  Stoppable = {s1}
  Threads = {t1}
  StorageMortal = FALSE
  MaxCleanups = 1
  MasterRestarts = 0
  Prompt = FALSE
  Standing = {}
  nobody = nobody
  r1 = r1
  s1 = s1
  store = store
  t1 = t1
INVARIANTS
  FinishedByAssignee
  IInv
