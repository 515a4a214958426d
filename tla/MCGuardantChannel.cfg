SPECIFICATION GuardantFairSpec
CONSTANTS
  a = a
  b = b
  NodeIds <- MCProducts
  Accepted <- MCProducts
  NoValue = NoValue
  Garbage = Garbage
  Products <- MCProducts
  Files <- MCFiles
  Dongles <- MCDongles
  ProductNode <- MCProductNode
  ProductType <- MCProductType
  Indeterminate <- BOOLEAN
INVARIANTS
  GuardantTypeOK
PROPERTIES
  GuardantPublishes
  LicenceShown
