SPECIFICATION Spec
CONSTANTS
  Call = {c1, c2}
  Seeded = seeded
  Tab = {t1, t2}
  NoTab = NoTab
  Value = {v0, v1, v2}
  Initial = v0
  NoValue = NoValue
SYMMETRY Symmetry
INVARIANTS
  TypeOK
  ListsExplained
  RaceHasOneWinner
  AnsweredAsDone
  RowHasObject
