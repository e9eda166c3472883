\* Three concurrent requests over a batch of two emails, with one reset.
CONSTANTS
  Requests = {r1, r2, r3}
  Emails = {e1, e2}
  Digests = {d1}
  NoDigest = NoDigest
  NoEmail = NoEmail
  MaxGeneration = 2
SPECIFICATION Spec
SYMMETRY Symmetric
INVARIANTS
  TypeOK
  OneClassification
  OneComparison
PROPERTIES
  OtherGenerationsFrozen
