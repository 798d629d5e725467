SPECIFICATION Spec
CONSTANTS
  Callers = {c1, c2}
  Consumers = {x1, x2}
  MaxMessages = 3
  Poison = {1}
  Calls = {s1, s2}
  Messages = {m1, m2, m3}
  PoisonMessages = {m1}
  MaxMishaps = 1
  Nobody = Nobody
  Subjects = {u1, u2}
  Subs = {1, 2, 3}
  Group <- Groups
  Throws = {1}
  MaxSent = 2
  NoQueue = NoQueue
  Instances = {1, 2, 3}
  Config <- Configs
  Docs = {d1, d2, d3}
  Limit = 1
  MaxTime = 2
  MaxDeleted = 1
  NoDoc = NoDoc
  Sessions = {t1, t2}
  Owners = {o1, o2}
  PageRows = 1
  Null = Null
  k1 = k1
  k2 = k2
  Tokens = {k1, k2}
  Ether = Ether
  NoAddress = NoAddress
  Lists <- TokenLists
  Most = 1
  MaxFaults = 1
  None = None
INVARIANTS
  TypeOK
  TransportsAreSafe
  GatewayIsRegistered
  PagesAreComplete
  BalancesAreTrue
PROPERTIES
  HandledInTheEnd
  UpsertsStayHidden
CHECK_DEADLOCK FALSE
