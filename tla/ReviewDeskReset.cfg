\* Two actions and a reset: a retired workspace answers for itself.
CONSTANTS
  CaseRequests = {}
  ExceptionRequests = {x1, x2}
  SeedCases = {}
  SeedExceptions = {exc1}
  References <- AllReferences
  Queued = {exc1}
  NoTarget = NoTarget
  MaxGeneration = 2
SPECIFICATION Spec
SYMMETRY Symmetric
PROPERTIES
  RetiredAnswersReset
