\* Three actions on one exception: a recorded resolution is not always final.
CONSTANTS
  CaseRequests = {}
  ExceptionRequests = {x1, x2, x3}
  SeedCases = {}
  SeedExceptions = {exc1}
  References <- AllReferences
  Queued = {exc1}
  NoTarget = NoTarget
  MaxGeneration = 1
SPECIFICATION Spec
SYMMETRY Symmetric
PROPERTIES
  ResolutionFinal
