CONSTANTS
  a = a  b = b  k = k  g = g  h = h
  Msg = {a, b}
  Checker = {k}
  Handler = {g, h}
  PerSecond = 1
  PageSize = 2
  GroupSize = 2
  MaxAttempts = 2
  None = None
  MaxRedeliveries = 0
  MaxDownloadFailures = 0
  MaxHandleFailures = 0
  MaxRequestFailures = 0
  MaxCrashes = 0
SPECIFICATION MCSpec
PROPERTY DeletedWereFetched
CHECK_DEADLOCK FALSE
