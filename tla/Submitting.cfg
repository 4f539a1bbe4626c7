SPECIFICATION FairSpec
CONSTANTS
  f1 = f1
  f2 = f2
  f3 = f3
  Files = {f1, f2, f3}
  Jobs <- MCJobs
  MaxStops = 2
  MaxEvictions = 1
INVARIANTS
  TypeOK
  RemovedMeansSubmitted
  RepeatsForEnds
PROPERTIES
  FilesTakenIn
