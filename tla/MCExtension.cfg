SPECIFICATION Spec
CONSTANTS
  User = {u1}
  AgentDevice = {}
  OwnerOf <- MCOwnerOf
  Task = {t1, t2}
  Client = {t1, t2}
  NoClient = NoClient
  NoUser = NoUser
  NoDevice = NoDevice
  Request = {r1}
  MaxEvents = 2
  Event = {1, 2}
  QueueLimit = 2
  MaxBatch = 1
  EndTime = {1}
  MaxSessions = 1
  MaxBrowsers = 1
SYMMETRY Symmetry
INVARIANTS
  TypeOK
PROPERTY NothingElseLost
