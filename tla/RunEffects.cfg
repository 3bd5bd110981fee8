SPECIFICATION Spec
CONSTANTS
  s1 = s1
  s2 = s2
  origin = origin
  other = other
  Sources = {s1, s2}
  Remotes = {origin, other}
  NoRemote = NoRemote
  RemoteOf <- TwoRemotes
  Quota = 2
  MaxTokens = 2
  MaxPeriod = 2
  Concurrency = 1
  MaxCalls = 3
SYMMETRY Symmetry
CHECK_DEADLOCK FALSE
INVARIANTS
  ExactUnlessRaced
  NeverOvercharged
  QuotaRow
  DriftExplained
PROPERTIES
  RefNamesExport
