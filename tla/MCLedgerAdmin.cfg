SPECIFICATION Spec
CONSTANTS
  k1 = k1
  k2 = k2
  k3 = k3
  p1 = p1
  p2 = p2
  u1 = u1
  Absent = Absent
  Keys <- MCKeys
  Programs <- MCPrograms
  Users <- MCUsers
  Markets <- MCMarkets
  MAX_RELAYERS = 2
  MaxMargin = 2
  MaxLocked = 3
SYMMETRY Symmetric
INVARIANTS
  TypeOK
  MarginInSomeVault
  VaultCoversUnlessMigrated
PROPERTIES
  HandoverLeavesRelayers
CHECK_DEADLOCK FALSE
