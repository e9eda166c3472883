\* Four requests on one email that may arrive in two versions.
CONSTANTS
  Requests = {r1, r2, r3, r4}
  Emails = {e1}
  Digests = {d1, d2}
  NoDigest = NoDigest
  NoEmail = NoEmail
  MaxGeneration = 2
SPECIFICATION Spec
SYMMETRY Symmetric
INVARIANTS
  HeldUntilDisposed
  NoDanglingRows
PROPERTIES
  DecisionsFinal
