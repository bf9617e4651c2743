SPECIFICATION Spec
CONSTANTS
  User = {u1}
  NoUser = NoUser
  Call = {c1, c2}
  EnrollToken = {e1}
  MaxTokens = 3
SYMMETRY Symmetry
INVARIANTS
  TypeOK
  GoodCredentials
  StoredTokenLive
  ConsumedIffEnrolled
PROPERTY NoRevival
