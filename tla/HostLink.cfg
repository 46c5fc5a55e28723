CONSTANTS
  Clients = {c1}
  WorldToggles = {}
  PawnToggles = {godmode, infinite_tactical}
  Lasting = {godmode, infinite_tactical}
  Undone = {godmode}
  HostOnly = {infinite_tactical}
  MaxValue = 1
  MaxPieces = 1
  MaxEvents = 4
  MaySwitchAccept = TRUE
  MayUnload = TRUE
  MayTravel = TRUE
  MayTimeOut = TRUE
SPECIFICATION Spec
INVARIANTS
  EffectsBelong
  OffTakesBack
  RequestsWhole
  HostFollowsUnlessUpset
CHECK_DEADLOCK FALSE
