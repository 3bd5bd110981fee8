SPECIFICATION OverlapSpec
CONSTANTS
  api = api
  scheduler = scheduler
  m1 = m1
  j1 = j1
  Procs = {api, scheduler}
  Tasks = {m1, j1}
  ProcOf <- MixedProcOf
  Manual = {m1}
  Sources = {s1}
  NoSource = NoSource
  Contents = {a, b}
  MaxRuns = 3
INVARIANTS
  NoCircularWait
  LossIsOverwrite
  SecondInitialIsOverwrite
