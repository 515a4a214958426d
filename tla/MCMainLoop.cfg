SPECIFICATION LoopFairSpec
CONSTANTS
  a = a
  Ips <- MCIps
  Lists <- MCLists
  Intervals <- MCIntervals
  xml_interval = 1
  guardant_interval = 2
INVARIANTS
  LoopTypeOK
  StatusesOfThisCycle
  ThreadsBounded
PROPERTIES
  NoResultLost
  TurnsGoOn
  ChecksGoOn
