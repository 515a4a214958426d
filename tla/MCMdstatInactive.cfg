SPECIFICATION MdstatSpec
CONSTANTS
  md0 = md0
  md1 = md1
  md9 = md9
  none = none
  Names <- MCNames
  Configured <- MCConfigured
  NoRaid = none
  MaxLines = 3
SYMMETRY Symmetry
CHECK_DEADLOCK FALSE
INVARIANTS
  HealthyIsActive
