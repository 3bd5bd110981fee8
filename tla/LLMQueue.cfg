SPECIFICATION FairSpec
CONSTANTS
  Callers = {c1, c2, c3}
  Rate = 2
  Concurrency = 1
  Retries = 1
  Backoff = 1
  Window = 4
INVARIANTS
  TypeOK
  PermitsExact
  RequestsBounded
PROPERTIES
  EveryCallServed
  ServesInOrder
