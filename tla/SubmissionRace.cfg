\* Two executions that keep running, which may disagree on the version
\* manifest, over two emails that settle meanwhile.
CONSTANTS
  Executions = {x1, x2}
  Emails = {e1, e2}
  Outputs = {o1, o2}
  Versions = {v1, v2}
  Nothing = Nothing
  MaxGeneration = 2
SPECIFICATION FairSpec
INVARIANTS
  TypeOK
  EvaluationsTrue
  RepliesTrue
  PublishedIsWhole
PROPERTIES
  PublicationSpec
  ExecutionsEnd
