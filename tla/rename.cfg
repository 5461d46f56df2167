CONSTANTS
  a = a
  b = b
  c1 = c1
  c2 = c2
  p = p
  q = q
  Foreign = Foreign
  Dead = Dead
  NoOne = NoOne
  NoPoint = NoPoint
  None = None
  Names = {a, b}
  Points = {p}
  Sources = {TRUE, FALSE}
  Happens = {"crash", "held", "foreign", "abort", "byhand"}
  Clients = {c1}
  Locks = {l1, l2, l3, l4}
  Configs <- Renamed
  Unreadables <- Readable
  Asks <- Requests
SPECIFICATION Spec
INVARIANTS StartFindsNameFree
PROPERTIES UnforcedStopCutsNobody OnlyARunningUnitVouches MountClearsOnlyLeftovers UnmountOkLeavesNothing
