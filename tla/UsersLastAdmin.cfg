CONSTANTS
  UserIds <- TwoUsers
  Tokens = {t1, t2}
  Requests = {r1, r2}
  Changes <- SomeChanges
SPECIFICATION Spec
INVARIANT
  AlwaysAnAdmin
