SPECIFICATION FairSpec
CONSTANTS
  Sources = {s1}
  MaxSnaps = 2
  MaxDeletes = 1
PROPERTIES
  OrphansSwept
  ExpiredGo
