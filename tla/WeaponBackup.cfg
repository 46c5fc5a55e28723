CONSTANTS
  Addresses = {a1, a2}
  Indices = {1, 2}
  Versions = {1, 2}
  Features <- AllFeatures
  MaxWeapons = 3
  MayReusePlace = FALSE
SPECIFICATION Spec
INVARIANTS
  OriginalsKept
  OffPutsBack
  KeptApart
  DamageByAmmo
SYMMETRY Symmetry
