SPECIFICATION DashboardSpec
CONSTANTS
  Tab = {t1, t2}
  MaxPairs = 2
  Panel = {t1, t2}
  Session = {s1, s2, s3}
  Slot = {r1, r2}
  Nobody = Nobody
  NoSession = NoSession
SYMMETRY Symmetry
INVARIANTS
  TypeOK
  ErrorNeedsCause
  PanelAgrees
PROPERTY SignedOutStaysOut
