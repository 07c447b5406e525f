CONSTANTS
  a = a  b = b  k = k  g = g  h = h
  Msg = {a, b, c}
  Checker = {k, l}
  Handler = {g, h}
  PerSecond = 2
  PageSize = 2
  GroupSize = 1
  MaxAttempts = 2
  None = None
  MaxRedeliveries = 1
  MaxDownloadFailures = 2
  MaxHandleFailures = 1
  MaxRequestFailures = 1
  MaxCrashes = 1
SPECIFICATION MCFairSpec
INVARIANTS GivenUpTried FetchedKept
PROPERTIES OnlyRacesLose SavedAreHandled
CHECK_DEADLOCK FALSE
