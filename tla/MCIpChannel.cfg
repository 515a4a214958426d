SPECIFICATION IpFairSpec
CONSTANTS
  a = a
  b = b
  g1 = g1
  g2 = g2
  empty = empty
  NodeIds <- MCNodeIds
  Accepted <- MCGroups
  NoValue = NoValue
  Garbage = Garbage
  Ips <- MCIps
  Groups <- MCGroups
  Members <- MCMembers
  AndGroups <- MCAndGroups
  EmptyNode = empty
  GroupFiles <- MCGroupFiles
  AddressFiles <- MCAddressFiles
  Indeterminate <- BOOLEAN
PROPERTIES
  MissedIsMadeUpFor
  IpPublishes
INVARIANTS
  IpTypeOK
  GroupShown
