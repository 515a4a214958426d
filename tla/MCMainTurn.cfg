SPECIFICATION TurnFairSpec
CONSTANTS
  cpu0 = cpu0
  cpu1 = cpu1
  root = root
  rootAmount = rootAmount
  rootOther = rootOther
  rootUnits = rootUnits
  total = total
  used = used
  ramTotal = ramTotal
  ramUsed = ramUsed
  md0 = md0
  md1 = md1
  system = system
  st0 = st0
  st1 = st1
  ok0 = ok0
  ok1 = ok1
  SectionSets <- MCSectionSets
  NodeIds <- MCNodeIds
  Accepted <- MCAccepted
  NoValue = NoValue
  Garbage = Garbage
  Cpus <- MCCpus
  CpuNode <- MCCpuNode
  CpuType = "INT"
  Usages <- MCUsages
  Hotplug = TRUE
  Disks <- MCDisks
  AmountNodes <- MCAmountNodes
  UnitsNodes <- MCUnitsNodes
  Units <- MCUnits
  DiskEditions <- MCDiskEditions
  Bytes <- MCBytes
  Fields <- MCFields
  RamNodesOf <- MCRamNodesOf
  RamEditions <- MCRamEditions
  MB = 2
  Readings <- MCReadings
  Raids <- MCRaids
  StatusNode <- MCStatusNode
  HealthNode <- MCHealthNode
  HealthType = "BOOL"
  System = system
  Statuses <- MCStatuses
CONSTRAINT
  MCPair
INVARIANTS
  TurnTypeOK
  ShownIsCurrent
  AmountFitsUnits
  RamShown
  RaidShown
  HealthFitsStatus
PROPERTIES
  MissedIsMadeUpFor
  RaidPublishes
