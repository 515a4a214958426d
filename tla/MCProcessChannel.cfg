SPECIFICATION ProcFairSpec
CONSTANTS
  p = p
  q = q
  g1 = g1
  g2 = g2
  g3 = g3
  NodeIds <- MCGroups
  Accepted <- MCGroups
  NoValue = NoValue
  Garbage = Garbage
  Processes <- MCProcesses
  Groups <- MCGroups
  Members <- MCMembers
  AndGroups <- MCAndGroups
  GroupType <- MCGroupType
  Indeterminate <- BOOLEAN
INVARIANTS
  ProcTypeOK
  GroupShown
PROPERTIES
  ProcPublishes
  MissedIsMadeUpFor
