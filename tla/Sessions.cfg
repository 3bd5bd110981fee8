SPECIFICATION Spec
CONSTANTS
  u = u
  home = home
  r1 = r1
  r2 = r2
  Users = {u}
  User = u
  Orgs = {home}
  Home = home
  NoOrg = NoOrg
  HomeOf <- OneHome
  MaxResets = 2
  Requests = {r1, r2}
  MaxTokens = 3
SYMMETRY Symmetry
CHECK_DEADLOCK FALSE
INVARIANTS
  OldPasswordOut
  OldAccessOut
  ReuseEndsFamily
  OneLiveToken
