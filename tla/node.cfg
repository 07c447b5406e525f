CONSTANTS
  Call = {a, b, c}
  Request = {a, b}
  None = None
  ReuseTries = 0
  MaxBreaks = 1
  Subscriber = {s1, s2}
  Sender = {u1, u2}
  Nobody = Nobody
  Capacity = 1
  MaxId = 2
  MaxSessions = 2
  MaxFailures = 2
  i1 = i1  i2 = i2
  t0 = t0  t1 = t1  t2 = t2
  Thread = {t0, t1, t2}
  Invite = {i1, i2}
  ThreadOf <- Invited
  Stored <- LoadedFirst
  Fresh = {t2}
  Adder = {d1, d2}
  Remover = {r1, r2}
  UpdatesSize = 1
  MaxErrors = 1
  MaxCalls = 3
  Nothing = Nothing
SPECIFICATION Spec
INVARIANTS OwnAnswers AtMostTwice NoForgottenStream SentUnlessReset ReceivedInOrder NodesAccounted OnlineMeansServed QueuesServed LoadedMatchesRows AcceptedMeansJoined
PROPERTIES CallsEnd SendsEnd RunnersStop
CHECK_DEADLOCK FALSE
