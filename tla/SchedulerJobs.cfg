SPECIFICATION Spec
CONSTANTS
  s1 = s1
  s2 = s2
  c1 = c1
  c2 = c2
  Sources = {s1, s2}
  Callers = {c1, c2}
  MaxInterval = 2
SYMMETRY Symmetry
INVARIANTS
  JobsMatchSources
  RunningAfterRaise
