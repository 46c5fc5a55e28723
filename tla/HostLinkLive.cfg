CONSTANTS
  Clients = {c1}
  WorldToggles = {freeze_ai}
  PawnToggles = {noclip, no_stun}
  Lasting = {noclip}
  Undone = {noclip}
  HostOnly = {freeze_ai, noclip}
  MaxValue = 1
  MaxPieces = 1
  MaxEvents = 4
  MaySwitchAccept = FALSE
  MayUnload = FALSE
  MayTravel = TRUE
  MayTimeOut = FALSE
SPECIFICATION FairSpec
PROPERTIES
  ChangeArrives
  ClientsGetLinked
CHECK_DEADLOCK FALSE
