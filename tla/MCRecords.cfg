SPECIFICATION ServicesSpec
CONSTANTS
  f1 = f1
  f2 = f2
  f3 = f3
  a1 = a1
  a2 = a2
  Parts = {"sessions", "projects", "workspace", "protocol", "gateway", "taskview"}
  Outputs <- MCOutputs
  Zips <- MCZips
  Puts = {p1, p2, p3}
  NoPut = none
  MaxLosses = 1
  MaxThrows = 1
  MaxCrashes = 1
  Sockets = {s1, s2}
  Inputs = {i1, i2}
  NoInput = none
  MaxControllers = 2
  Capacity = 1
  MaxTroubles = 1
  Admins <- MCAdmins
  Owner = a1
  Calls = {c1, c2, c3}
  MaxTokens = 4
  MaxChanges = 2
  Files = {g1, g2}
  ProjectIds = {q1, q2}
  Transactions = {c1, c2, c3}
  Keys = {k1}
  Nothing = none
  Forms <- MCForms
  Fillings <- MCFillings
  HardMaxBytes = 3
  DefaultMaxBytes = 2
  MaxFormChanges = 3
  Processes = {x1, x2}
  Builds = {c1, c2, c3}
  Urls = {u1, u2}
  Nobody = none
  NoOne = none
  MaxPushes = 1
  MaxKills = 1
  Clients = {w1}
  Logs = {l1, l2}
  Subscriptions = {n1, n2, n3}
  NoSubscription = none
  MaxSubscriptions = 1
  MaxAuths = 1
  Tasks = {j1, j2}
  NoTask = none
  Pages = {1, 2}
  Seen = {"CREATED", "CANCELING", "SUCCEEDED"}
  MaxCalls = 2
  MaxOpens = 2
  MaxLists = 3
  Texts = {"word", "path", "time", "backslash", "absolute", "markup", "c0", "c1", "empty", "long", "oversize", "surrogate"}
INVARIANTS SessionsAreSound ProjectsAreSound CheckoutIsSound ProtocolIsSound
  ConnectionsAreSound TaskViewIsSound
SYMMETRY MCSymmetry
CHECK_DEADLOCK FALSE
