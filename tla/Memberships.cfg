SPECIFICATION Spec
CONSTANTS
  u1 = u1
  u2 = u2
  o1 = o1
  o2 = o2
  r1 = r1
  r2 = r2
  Users = {u1, u2}
  Orgs = {o1, o2}
  NoOrg = NoOrg
  HomeOf <- TwoHomes
  MaxResets = 1
  Requests = {r1, r2}
  Grantable = {"owner", "admin", "viewer"}
  Managed = {o1}
SYMMETRY Symmetry
CHECK_DEADLOCK FALSE
INVARIANTS
  LastOwnerStays
  AcceptedIsActive
  LoginNeedsRegistration
PROPERTIES
  ChangedByManager
