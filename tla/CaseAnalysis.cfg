\* Two runs over emails that share a scan, with zero or two Gemini keys.
CONSTANTS
  TextFields = {"port"}
  PortFields = {"port"}
  NumericFields = {"weight"}
  Placeholders = {"TBA"}
  Numbers = {"100"}
  NoCode = NoCode
  Nothing = Nothing
  NoStatus = NoStatus
  Runs = {"r1", "r2"}
  Emails <- MCEmails
  Subjects <- MCSubjects
  Mailbox <- MCMailbox
  CategoryOf <- MCCategoryOf
  Categories <- MCCategories
  AsksForDraft = {"empty"}
  Attachments <- MCAttachments
  Kind <- MCKind
  RoleOf <- MCRoleOf
  Printed <- MCPrinted
  InText <- MCInText
  Readings <- MCReadings
  KeyCounts = {0, 2}
  CategoryBatch = 1
  RoleBatch = 1
  BadAnswers <- MCBadAnswers
  Envelopes <- MCEnvelopes
  Exceptions <- MCExceptions
  Probabilities = {84, 85}
  MaxFaults = 2
SPECIFICATION Spec
INVARIANTS
  TypeOK
  ReadsAccounted
  CacheAgreement
  ComparesThePair
  TrailComplete
  OutcomeAgrees
  RetryOrReview
