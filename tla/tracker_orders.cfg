CHECK_DEADLOCK FALSE
SPECIFICATION Spec
CONSTANTS
  a = a
  b = b
  Lines = {a, b}
  Volumes <- SmallVolumes
  MaxVolume = 2
  MaxChase = 1
  MaxEnds = 1
  Resident = FALSE
  NoOrder = NoOrder
SYMMETRY Symmetry
INVARIANTS
  NoDoubleExposure
  DoneMeansDone
PROPERTIES
  NeverRevived
