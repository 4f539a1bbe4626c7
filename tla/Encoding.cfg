SPECIFICATION FairSpec
CONSTANTS
  Slaves = {s1, s2}
  Nobody = nobody
  Mortal = {s1}
  Laggards = {s2}
  Durations = {0, 250}
  Positions = {160, 190, 240}
  nobody = nobody
INVARIANTS
  TypeOK
  FinishedMeansEnded
  OnlyStrayWriters
PROPERTIES
  WaitEnds
  FinishedOrStuck
