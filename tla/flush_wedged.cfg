CONSTANTS
  Peer = {p, q}
  Cafe = {c, d}
  MaxMessages = 2
  To <- OneForQ
  Inboxes <- OneEach
  Session = {c}
  Flusher = {f, g}
  GroupSize = 2
  None = None
  MaxErrors = 1
  MaxCrashes = 0
  p = p
  q = q
  c = c
  d = d
SPECIFICATION FairSpec
PROPERTY FlushEnds
CHECK_DEADLOCK FALSE
