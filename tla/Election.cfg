\* four masters: two may crash, two be stopped, two take long for a pass
CONSTANTS
  m1 = m1
  m2 = m2
  m3 = m3
  m4 = m4
  Masters = {m1, m2, m3, m4}
  Mortal = {m1, m4}
  Stopped = {m2, m4}
  Slow = {m3, m4}
SPECIFICATION FairSpec
INVARIANTS
  TypeOK
  OneRowEach
  SomeoneStays
PROPERTIES
  OneRemains
  SurvivorRegistered
CHECK_DEADLOCK FALSE
