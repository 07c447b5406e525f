CONSTANTS
  Cafe = {c, d}
  Content = {x}
  Thread = {t}
  Registered = {d}
  Friend = {f}
  Inboxes <- AtD
  Adder = {a}
  GroupSize = 2
  None = None
  MaxRequests = 3
  MaxHeads = 2
  MaxFaults = 1
  c = c
  d = d
SPECIFICATION MCFairSpec
INVARIANTS NothingForgotten
PROPERTY RequestsDrain
CHECK_DEADLOCK FALSE
