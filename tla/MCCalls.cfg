SPECIFICATION CallsSpec
CONSTANTS
  md0 = md0
  md1 = md1
  md9 = md9
  none = none
  nodeA = nodeA
  nodeB = nodeB
  before = before
  Names <- MCNames
  Configured <- MCConfigured
  NoRaid = none
  MaxLines = 4
  NodeIds <- MCNodeIds
  Accepted <- MCNodeIds
  NoValue = NoValue
  Garbage = Garbage
  NodeTypes <- MCNodeTypes
  NodeValues = {0, 65535, 65536}
  HighHalves = {0, 1}
  NoDongle = NoDongle
  NotLimited = NotLimited
  Now = 1000
  Seconds = {0, 1, 999}
  Runs = {0, 1}
  DeviceLists <- MCDeviceLists
  Absent = Absent
  SomeAddress = before
SYMMETRY Symmetry
CHECK_DEADLOCK FALSE
INVARIANTS
  CallsTypeOK
  StatesAreWhatIsSaid
  ResultsWereHeld
  NothingLeft
  AnswerFits
  SettingsAreTheLast
  AddressesAreAll
