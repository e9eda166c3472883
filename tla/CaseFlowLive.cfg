\* Three requests that keep running: each one ends.
CONSTANTS
  Requests = {r1, r2, r3}
  Emails = {e1}
  Digests = {d1}
  NoDigest = NoDigest
  NoEmail = NoEmail
  MaxGeneration = 2
SPECIFICATION FairSpec
PROPERTIES
  RequestsEnd
