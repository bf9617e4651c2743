SPECIFICATION IngestSpec
CONSTANTS
  u1 = u1
  u2 = u2
  d1 = d1
  d2 = d2
  User = {u1, u2}
  AgentDevice = {d1}
  OwnerOf <- MCOwnerOf
  Client = {k1}
  NoClient = NoClient
  NoUser = NoUser
  NoDevice = NoDevice
  Request = {r1, r2}
  Event = {e1}
  EndTime = {1}
  MaxSessions = 2
  MaxBrowsers = 1
SYMMETRY Symmetry
INVARIANTS
  IngestTypeOK
  StartReplySound
  EndReplySound
  EventsReplySound
  EndedIffClosed
PROPERTY
  TablesMonotone
