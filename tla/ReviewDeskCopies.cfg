\* Two case reviews race two exception actions over one exception and its case.
CONSTANTS
  CaseRequests = {c1, c2}
  ExceptionRequests = {x1, x2}
  SeedCases = {case1}
  SeedExceptions = {exc1}
  References <- AllReferences
  Queued = {exc1}
  NoTarget = NoTarget
  MaxGeneration = 2
SPECIFICATION Spec
SYMMETRY Symmetric
INVARIANTS
  TypeOK
  RepliesTrue
  OneDecision
PROPERTIES
  ShownResolvedStays
