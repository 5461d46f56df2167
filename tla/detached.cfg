CONSTANTS
  a = a
  b = b
  c1 = c1
  c2 = c2
  p = p
  q = q
  Foreign = Foreign
  Dead = Dead
  NoOne = NoOne
  NoPoint = NoPoint
  None = None
  Names = {a, b}
  Points = {p}
  Sources = {TRUE}
  Happens = {"foreign", "held"}
  Clients = {c1}
  Locks = {l1, l2, l3}
  Configs <- Renamed
  Unreadables <- Readable
  Asks <- Requests
SPECIFICATION Spec
PROPERTIES ForeignIsNeverDetached
