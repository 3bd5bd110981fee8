SPECIFICATION Spec
CONSTANTS
  Sources = {s1, s2}
  MaxSnaps = 3
  MaxDeletes = 1
SYMMETRY Symmetry
INVARIANTS
  FreshBlobsKept
  GoneIsGone
PROPERTIES
  RowsGoForAReason
  DocsRetained
