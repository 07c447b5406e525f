CONSTANTS
  Cafe = {c, d}
  Content = {x}
  Thread = {t}
  Registered = {d}
  Friend = {f}
  Inboxes <- AtD
  Adder = {a}
  GroupSize = 2
  None = None
  MaxRequests = 2
  MaxHeads = 1
  MaxFaults = 1
  c = c
  d = d
SPECIFICATION MCSpec
INVARIANT StoredIsPinned
CHECK_DEADLOCK FALSE
