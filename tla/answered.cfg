CONSTANTS
  a = a
  b = b
  c1 = c1
  c2 = c2
  p = p
  q = q
  Foreign = Foreign
  Dead = Dead
  NoOne = NoOne
  NoPoint = NoPoint
  None = None
  Names = {a, b}
  Points = {p, q}
  Sources = {TRUE}
  Happens = {}
  Clients = {c1, c2}
  Locks = {l1, l2, l3}
  Configs <- Swapped
  Unreadables <- Readable
  Asks <- UnforcedUnmounts
SPECIFICATION SwapSpec
INVARIANTS TypeOK LocksGuard UnitExclusion
PROPERTIES RequestsEnd
