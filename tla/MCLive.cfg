SPECIFICATION Spec
CONSTANTS
  home = home
  other = other
  p1 = p1
  p2 = p2
  p3 = p3
  User = {u1}
  Tab = {p1, p2, p3}
  Org = {home, other}
  OrgOf <- MCOrgOf
  NoSet = NoSet
INVARIANTS
  TypeOK
  RegisteredWhileOpen
  ShownIsEarned
PROPERTY BeatsAreShown
