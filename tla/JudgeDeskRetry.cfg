\* One upload and three retries that race for two slots.
CONSTANTS
  Uploads = {u1}
  Retries = {r1, r2, r3}
  Slots = 2
  NoRun = NoRun
  MaxGeneration = 2
  MaxRestarts = 1
SPECIFICATION FairSpec
INVARIANTS
  TypeOK
  LogMatchesRun
  SlotsConserved
  RepliesTrue
PROPERTIES
  LedgerSpec
  RequestsAnswered
