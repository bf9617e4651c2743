SPECIFICATION FairSpec
CONSTANTS
  u1 = u1
  User = {u1}
  AgentDevice = {d1}
  OwnerOf <- MCOwnerOf
  SyncLoop = SyncLoop
  Client = {SyncLoop}
  NoClient = NoClient
  NoUser = NoUser
  NoDevice = NoDevice
  Request = {r1}
  MaxEvents = 1
  Event = {1}
  BatchSize = 1
  EndTime = {}
  MaxSessions = 1
  MaxBrowsers = 0
PROPERTY FlushedWhileOpen
