SPECIFICATION FairSpec
CONSTANTS
  api = api
  scheduler = scheduler
  m1 = m1
  j1 = j1
  j2 = j2
  Procs = {scheduler}
  Tasks = {j1, j2}
  ProcOf <- JobProcOf
  Manual = {}
  Sources = {s1}
  NoSource = NoSource
  Contents = {a, b}
  MaxRuns = 3
INVARIANTS
  LockHeldByRunner
  SessionFresh
PROPERTIES
  LedgerSpec
  RunEnds
