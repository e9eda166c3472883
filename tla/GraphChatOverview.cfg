\* What the overview of one of the ledgers severs at its limit.
CONSTANTS
  Shipments = {"s1", "s2", "s3"}
  Cases = {"c1", "c2", "c3", "c4"}
  Namespaces = {"booking", "container"}
  Absent = Absent
  Ledgers <- MCLedgers
  TextFields = {"shipper", "consignee", "port"}
  PortFields = {"port"}
  NumericFields = {"weight"}
  Placeholders = {"TBA"}
  Numbers = {"90", "100"}
  NoCode = NoCode
  Nothing = Nothing
  Mail <- MCMail
  Recorded <- MCRecorded
  Received <- MCReceived
  Startup = Startup
  Nobody = Nobody
  Chats = {"k1", "k2"}
  Asked <- MCAsked
  Keys <- MCKeys
  Invalid = {"blank"}
  Score <- MCScore
  Answers <- MCAnswers
  Slots = 1
  MaxRetries = 1
  OverviewLimit = 9
  SubsetLimit = 12
  SubgraphLimit = 4
SPECIFICATION Spec
CHECK_DEADLOCK FALSE
INVARIANTS
  NoFlagSevered
