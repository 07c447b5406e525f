CONSTANTS
  i1 = i1  i2 = i2
  t0 = t0  t1 = t1  account = account
  Thread = {account, t0, t1}
  Invite = {i1, i2}
  ThreadOf <- Invited
  Stored <- LoadedFirst
  Fresh = {}
  Adder = {d1, d2}
  Remover = {}
  UpdatesSize = 1
  MaxErrors = 1
  MaxCalls = 2
  Nothing = Nothing
  Account = account
  MaxClicks = 1
  f1 = f1  f2 = f2  f3 = f3
  k1 = k1  k2 = k2
  p1 = p1  p2 = p2  p3 = p3
  g1 = g1  g2 = g2
  File = {f1, f2, f3}
  ContentOf <- Contents
  FilesOf <- InTargets
  TargetOf <- OfPosts
  Ignored <- OfIgnores
  LocalPost = {p3}
  LocalIgnore = {g2}
  Worker = {w1, w2}
  NoBlock = NoBlock
  MaxMishaps = 0
SPECIFICATION Spec
INVARIANT UsedAreKept
CHECK_DEADLOCK FALSE
