\* Two requests copy an exception that names two cases, and keep running.
CONSTANTS
  CaseRequests = {}
  ExceptionRequests = {x1, x2}
  SeedCases = {case1, case2}
  SeedExceptions = {exc1}
  References <- AllReferences
  Queued = {}
  NoTarget = NoTarget
  MaxGeneration = 2
SPECIFICATION FairSpec
INVARIANTS
  CopiesComplete
PROPERTIES
  RequestsAnswered
