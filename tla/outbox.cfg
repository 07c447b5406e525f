CONSTANTS
  Peer = {p, q}
  Cafe = {c, d}
  MaxMessages = 4
  To <- OneForQ
  Inboxes <- TwoAndNone
  Session = {c}
  Flusher = {f, g}
  GroupSize = 2
  None = None
  MaxErrors = 1
  MaxCrashes = 1
  p = p
  q = q
  c = c
  d = d
SPECIFICATION FairSpec
INVARIANTS NothingLost NoOvertaking StoredFirst
PROPERTY QueueDrains
CHECK_DEADLOCK FALSE
