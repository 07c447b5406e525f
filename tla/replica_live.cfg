CONSTANTS
  Peer = {p, q, r}
  Creator = p
  Inviter = {p}
  Block = {b1, b2, b3, b4, b5, b6, b7}
  Genesis = b1
  Slot = {s1}
  LocalKind = {"message"}
  Address = {x, y}
  AddressOf <- TwoAccounts
  Workers <- EverySlot
  MaxCrashes = 0
  MaxFailures = 0
  MaxInvites = 2
  MaxUpdates = 1
  None = None
  p = p
  x = x
  y = y
SPECIFICATION FairSpec
PROPERTIES EventuallyShared DebtsPaid HeadAdvances LogSpec
CHECK_DEADLOCK FALSE
