CONSTANTS
  Peer = {p, q}
  Creator = p
  Inviter = {p}
  Block = {b1, b2, b3, b4, b5}
  Genesis = b1
  Slot = {s1, s2}
  LocalKind = {"message"}
  Address = {x, y}
  AddressOf <- OneAccount
  Workers <- EverySlot
  MaxCrashes = 0
  MaxFailures = 0
  MaxInvites = 1
  MaxUpdates = 2
  None = None
  p = p
  x = x
  y = y
SPECIFICATION Spec
SYMMETRY SlotSymmetry
PROPERTY FastForwardFromParent
CHECK_DEADLOCK FALSE
