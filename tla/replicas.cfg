CONSTANTS
  Peer = {p, q}
  Creator = p
  Inviter = {p}
  Block = {b1, b2, b3, b4, b5}
  Genesis = b1
  Slot = {s1, s2}
  LocalKind = {"message", "leave", "announce"}
  Address = {x, y}
  AddressOf <- OneAccount
  Workers <- EverySlot
  MaxCrashes = 1
  MaxFailures = 1
  MaxInvites = 2
  MaxUpdates = 2
  None = None
  p = p
  x = x
  y = y
SPECIFICATION Spec
CONSTRAINT RaceOrFaults
SYMMETRY SlotSymmetry
INVARIANTS TypeOK ParentsAccounted TipsCovered HeadAccounted AuthorsListed
CHECK_DEADLOCK FALSE
