SPECIFICATION AvSpec
CONSTANTS
  cpu0 = cpu0
  cpu1 = cpu1
  root = root
  rootAmount = rootAmount
  rootShort = rootShort
  rootUnits = rootUnits
  total = total
  used = used
  ramTotal = ramTotal
  ramUsed = ramUsed
  p = p
  q = q
  pqNode = pqNode
  pNode = pNode
  LSI = LSI
  Adaptec = Adaptec
  md0 = md0
  statusLSI = statusLSI
  okLSI = okLSI
  statusAdaptec = statusAdaptec
  okAdaptec = okAdaptec
  status0 = status0
  ok0 = ok0
  hostA = hostA
  hostB = hostB
  abNode = abNode
  aNode = aNode
  progress = progress
  NodeIds <- MCNodeIds
  Accepted <- MCAccepted
  NoValue = NoValue
  Garbage = Garbage
  Sections <- MCSections
  NoRoot = NoRoot
  NoSection = NoSection
  Indeterminate = {TRUE, FALSE}
  AvCpus <- MCCpus
  AvCpuNode <- MCCpuNode
  Usages <- MCUsages
  AvDiskNames <- MCDiskNames
  AvAmountNodes <- MCAmountNodes
  AvUnitsNodes <- MCUnitsNodes
  AvUnits <- MCUnits
  AvBytes <- MCBytes
  AvFields <- MCFields
  AvRamNodes <- MCRamNodes
  AvWord = 131072
  AvMB = 2
  AvReadings <- MCReadings
  AvProcessNames <- MCProcessNames
  AvGroups <- MCGroups
  AvMembers <- MCMembers
  AvGroupType <- MCGroupType
  AvSkipped = {}
  AvRaidNames <- MCRaidNames
  AvTool <- MCTool
  AvStatusNode <- MCStatusNode
  AvHealthNode <- MCHealthNode
  AvHealthType = "BOOL"
  Drives <- MCDrives
  Optimal = Optimal
  Degraded = Degraded
  Offline = Offline
  NoStatus = NoStatus
  Unknown = Unknown
  Rebuild <- MCRebuild
  AvAddresses <- MCAddresses
  AvIpGroups <- MCIpGroups
  AvIpMembers <- MCIpMembers
  AvOrGroups = {abNode}
INVARIANTS
  AvTypeOK
  AvCpuShown
  AvAmountShown
  AvRamShown
  AvGroupShown
  AvRaidShown
  AvIpShown
PROPERTIES
  AvPublishes
