SPECIFICATION AggregateSpec
CONSTANTS
  u1 = u1
  work = work
  play = play
  User = {u1}
  Sid = {s1}
  Label = {work, play}
  NoLabel = NoLabel
  Rule <- MCRule
  Minute = 2
  DayLength = 2
  Days = 2
  MaxEvents = 2
  JobAttempts = 2
CHECK_DEADLOCK FALSE
INVARIANTS
  AggregateTypeOK
  WorkedIsCovered
  
  DaysAddUp
