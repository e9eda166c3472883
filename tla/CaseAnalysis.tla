---------------------------- MODULE CaseAnalysis ----------------------------
(***************************************************************************)
(* What happens between the transactions of CaseFlow: the calls of the two *)
(* providers one run over a mailbox makes, and what the run concludes from *)
(* them.  A run classifies its emails (JevCategoryClient), reads the       *)
(* attachments of the email under comparison (DocumentAnalyzer: scans      *)
(* concurrently through Gemini, then the document roles, then the texts    *)
(* the local parser left ambiguous), records the role decisions and the    *)
(* extraction events, and decides the pair (ComparisonPipeline.run_case).  *)
(* Runs of several visitors share the extraction cache, which is keyed by  *)
(* the bytes of an attachment, and nothing else.                           *)
(* Operators named "Mutant..." are plausible bugs; no specification uses   *)
(* them.                                                                   *)
(*                                                                         *)
(* Every key tried, every answer and every transaction is a step of its    *)
(* own, so a timeout, a failed transaction, an unreachable database or     *)
(* Reset All may fall between any two of them.                             *)
(***************************************************************************)
EXTENDS Comparison, JevClient, TLC

CONSTANTS
  Runs,          \* runs, one for each visitor's mailbox
  Emails,        \* emails a run may be about
  Subjects,      \* assignments [Runs -> Emails] to check
  Mailbox,       \* [Emails -> sequence of the emails classified with it]
  CategoryOf,    \* [Emails -> category the classifier finds]
  Categories,    \* the members of Category
  AsksForDraft,  \* the emails that ask for the draft BL to be sent
  Attachments,   \* [Emails -> sequence of contents]
  Kind,          \* [contents -> "text", "scan", "unsupported", "unreadable"]
  RoleOf,        \* [contents -> role the classifier finds when asked about it alone]
  Printed,       \* [contents -> values of the local parse, by settled field]
  InText,        \* [contents -> raw values found in the text]
  Readings,      \* answers of Gemini in its schema: [fields, placed]
  KeyCounts,     \* numbers of Gemini keys a deployment may configure
  CategoryBatch, \* batch_size of JevCategoryClient
  RoleBatch,     \* batch_size of JevDocumentRoleClient
  BadAnswers,    \* answers of the classifier that some check refuses
  Envelopes,     \* responses of the classifier that are not what was asked
  Exceptions,    \* exceptions the classifier's library may end a call with
  Probabilities, \* equivalence probabilities tried
  MaxFaults      \* bound: failures and resets in a behaviour

Contents == UNION {{Attachments[e][i] : i \in 1..Len(Attachments[e])} : e \in Emails}
Roles == {"SI", "DRAFT_BL", "OTHER"}

(* A spent daily quota is reported, and tried again, like any other limit. *)
ExtractionFailureCodes ==
  {"provider_unconfigured", "rate_limited", "timeout", "provider_error", "provider_rejected",
   "invalid_schema", "ungrounded_value"}

JevFailures == [from : {"jev"}, code : JevFailureCodes, retryable : BOOLEAN]
ExtractionFailures == [from : {"gemini"}, code : ExtractionFailureCodes, retryable : BOOLEAN]

ASSUME AnalysisAssumption ==
  /\ KeyCounts \subseteq 0..2 /\ MaxFaults \in Nat
  /\ CategoryBatch \in 1..16 /\ RoleBatch \in 1..16
  /\ Subjects \subseteq [Runs -> Emails]
  /\ \A e \in Emails : /\ Attachments[e] \in Seq(Contents) /\ Mailbox[e] \in Seq(Emails)
                       /\ \E i \in 1..Len(Mailbox[e]) : Mailbox[e][i] = e
  /\ \A c \in Contents : RoleOf[c] \in Roles /\ DOMAIN Printed[c] \subseteq ComparedFields
  /\ \A reading \in Readings : DOMAIN reading.fields \subseteq ComparedFields
  /\ Probabilities \subseteq Int
  /\ \A e \in Exceptions : e.name \in {"timeout", "malformed", "connection", "other"}
  /\ Nothing \notin Roles \cup JevFailures \cup ExtractionFailures

VARIABLES
  faults,    \* failures and resets so far, for the bound
  keys,      \* number of configured Gemini keys
  wired,     \* a classifier key is configured, and with it its client
  subject,   \* the email each run is about
  retired,   \* runs whose workspace Reset All has retired
  cache,     \* extraction_cache by content hash
  trail,     \* audit events and role decisions recorded by the runs
  phase,     \* where each run is
  asked,     \* emails of the mailbox whose category is answered
  read,      \* the Gemini read of each attachment
  role,      \* the accepted answer of the classifier on each attachment
  failure,   \* the classifier's failure that ended a run's request
  result     \* what a run concluded

given == <<keys, wired, subject>>
calm == <<given, faults>>
vars == <<calm, retired, cache, trail, phase, asked, read, role, failure, result>>

Docs(r) == 1..Len(Attachments[subject[r]])
Content(r, i) == Attachments[subject[r]][i]

(* ambiguous_fields: what the local parse of a text did not settle. *)
Ambiguous(c) == ComparedFields \ DOMAIN Printed[c]

-----------------------------------------------------------------------------
(* One Gemini read: generate_traced inside GeminiExtractor._call, between  *)
(* a look-up and a store of the cache.  "attempts" are the key attempts    *)
(* recorded, "calls" the keys called.                                      *)

NoRead == [at |-> "none", attempts |-> <<>>, calls |-> 0, value |-> Nothing, failure |-> Nothing]

GeminiFailure(code, retryable) == [from |-> "gemini", code |-> code, retryable |-> retryable]

Finished(r, i) == read[r][i].at \in {"ok", "failed"}

Scanned(r) == {i \in Docs(r) : Kind[Content(r, i)] = "scan"}

(* The documents with a text: the parsed ones, then the scans that were read. *)
HasText(r, i) ==
  \/ Kind[Content(r, i)] = "text"
  \/ Kind[Content(r, i)] = "scan" /\ read[r][i].at = "ok"

Texts(r) == {i \in Docs(r) : HasText(r, i)}

(* The order of a request: the parsed documents, then the scans. *)
Before(r, i, j) ==
  LET scan(k) == Kind[Content(r, k)] = "scan"
  IN  IF scan(i) = scan(j) THEN i < j ELSE scan(j)

Unanswered(r) == {i \in Texts(r) : role[r][i] = Nothing}

MutantNextBatch(r) ==
  {i \in Unanswered(r) : Cardinality({j \in Unanswered(r) : Before(r, j, i)}) <= RoleBatch}

(* The next documents of the request, asked about in one call. *)
NextBatch(r) ==
  {i \in Unanswered(r) : Cardinality({j \in Unanswered(r) : Before(r, j, i)}) < RoleBatch}

Decided(r, i) == IF role[r][i] = Nothing THEN Nothing ELSE role[r][i].choice

(* Texts are read one after another, in the order of the attachments. *)
ToRead(r) ==
  {i \in Docs(r) : /\ Kind[Content(r, i)] = "text" /\ Ambiguous(Content(r, i)) # {}
                   /\ Decided(r, i) \in {"SI", "DRAFT_BL"}}

Reading(r, i) ==
  \/ phase[r] = "scans" /\ i \in Scanned(r)
  \/ phase[r] = "texts" /\ i \in ToRead(r) /\ \A j \in ToRead(r) : j < i => Finished(r, j)

-----------------------------------------------------------------------------
(* scan_extraction and grounded_extraction: the values of a reading, or    *)
(* the failure a reading that cannot be used is.                           *)

Found(c, reading) ==
  IF Kind[c] = "scan" THEN reading.fields
  ELSE [f \in DOMAIN Printed[c] \cup DOMAIN reading.fields |->
          IF f \in Ambiguous(c) THEN reading.fields[f] ELSE Printed[c][f]]

Unusable(c, reading) ==
  IF Kind[c] = "scan"
  THEN IF reading.placed THEN {} ELSE {GeminiFailure("invalid_schema", TRUE)}
  ELSE IF \A f \in DOMAIN reading.fields \cap Ambiguous(c) : reading.fields[f] \in InText[c]
       THEN {} ELSE {GeminiFailure("ungrounded_value", FALSE)}

(* _call_failure: what a call that no key answered is reported as. *)
CallFailure(status) ==
  IF status = 429 THEN GeminiFailure("rate_limited", TRUE)
  ELSE IF status \in 400..499 THEN GeminiFailure("provider_rejected", FALSE)
  ELSE GeminiFailure("provider_error", TRUE)

Values == {Found(c, reading) : c \in Contents, reading \in Readings}

ASSUME ReadingAssumption == Nothing \notin Values

-----------------------------------------------------------------------------
(* DocumentAnalysis of an attachment, once the run has read and asked. *)

Route(r, i) ==
  CASE Kind[Content(r, i)] \in {"unsupported", "unreadable"} -> "none"
    [] Kind[Content(r, i)] = "scan" -> "gemini_scan"
    [] OTHER -> IF i \in ToRead(r) THEN "gemini_ambiguous" ELSE "local"

Status(c) == CASE Kind[c] = "unreadable" -> "UNREADABLE"
               [] Kind[c] = "unsupported" -> "UNSUPPORTED"
               [] OTHER -> "OK"

Extracted(r, i) ==
  CASE Decided(r, i) \notin {"SI", "DRAFT_BL"} -> Nothing
    [] Route(r, i) = "local" -> Printed[Content(r, i)]
    [] OTHER -> read[r][i].value

MutantAnalysis(r, i) ==
  [doc |-> i, status |-> Status(Content(r, i)), route |-> Route(r, i), role |-> Decided(r, i),
   failure |-> IF failure[r] # Nothing /\ HasText(r, i) THEN failure[r] ELSE read[r][i].failure,
   extraction |-> Extracted(r, i),
   attempts |-> IF failure[r] # Nothing THEN <<>> ELSE read[r][i].attempts]

(* A scan whose read succeeded keeps its attempts when the roles fail. *)
Analysis(r, i) ==
  [doc |-> i, status |-> Status(Content(r, i)), route |-> Route(r, i), role |-> Decided(r, i),
   failure |-> IF failure[r] # Nothing /\ HasText(r, i) THEN failure[r] ELSE read[r][i].failure,
   extraction |-> Extracted(r, i), attempts |-> read[r][i].attempts]

Analyses(r) == {Analysis(r, i) : i \in Docs(r)}

Failing(analyses) == {a \in analyses : a.failure # Nothing}

-----------------------------------------------------------------------------
(* What a run records: its role decisions, then its extraction events. *)

Event(kind, r, i, detail) ==
  [kind |-> kind, run |-> r, doc |-> i, content |-> Content(r, i), detail |-> detail]

RoleEvents(r, analyses) ==
  {Event("DOCUMENT_ROLE_DECIDED", r, a.doc, a.role) : a \in {b \in analyses : b.role # Nothing}}
    \cup
  {Event("DOCUMENT_ROLE_FAILED", r, a.doc, a.failure.code) : a \in {b \in Failing(analyses) : b.failure.from = "jev"}}

UsedSecondKey(attempts) ==
  \E j, k \in 1..Len(attempts) : j < k /\ attempts[j] = "RATE_LIMITED" /\ attempts[k] = "SUCCEEDED"

ExtractionEvents(r, analyses) ==
  {Event("GEMINI_SECOND_KEY_USED", r, a.doc, a.attempts) : a \in {b \in analyses : UsedSecondKey(b.attempts)}}
    \cup
  {Event("EXTRACTION_FAILED", r, a.doc, a.failure.code) : a \in {b \in Failing(analyses) : b.failure.from = "gemini"}}

(* What is still to be recorded: the role decisions come first. *)
Pending(r) ==
  LET analyses == Analyses(r)
      roles    == RoleEvents(r, analyses) \ trail
  IN  IF roles # {} THEN roles ELSE ExtractionEvents(r, analyses) \ trail

NoResult == [state |-> "NONE", output |-> Nothing, diagnostics |-> {}, verdicts |-> <<>>,
             failure |-> Nothing]

-----------------------------------------------------------------------------
Init ==
  /\ faults = 0
  /\ keys \in KeyCounts
  /\ wired \in BOOLEAN
  /\ subject \in Subjects
  /\ retired = {}
  /\ cache = [c \in Contents |-> Nothing]
  /\ trail = {}
  /\ phase = [r \in Runs |-> "classify"]
  /\ asked = [r \in Runs |-> 0]
  /\ read = [r \in Runs |-> [i \in Docs(r) |-> NoRead]]
  /\ role = [r \in Runs |-> [i \in Docs(r) |-> Nothing]]
  /\ failure = [r \in Runs |-> Nothing]
  /\ result = [r \in Runs |-> NoResult]

Fault == faults < MaxFaults /\ faults' = faults + 1

Goto(r, p) == phase' = [phase EXCEPT ![r] = p]

Conclude(r, res) ==
  /\ result' = [result EXCEPT ![r] = res]
  /\ Goto(r, "done")

ProviderFailed(f) == [NoResult EXCEPT !.state = "PROVIDER_FAILED", !.failure = f]

(* Answers a request for the items may get: all of them, or a failure. *)
Answer(choice, choices) ==
  [type |-> "choice", choice |-> choice, confidence |-> 96,
   probabilities |-> [c \in choices |-> IF c = choice THEN 102 - 2 * Cardinality(choices) ELSE 1]]

CategoryAccepted(answer) == ChoiceAccepted(answer, Categories)
RoleAccepted(answer) == ChoiceAccepted(answer, Roles)

ASSUME AnswerAssumption == \A x \in Roles : Answer(x, Roles) # Nothing

(* The failures a request may end with: the exceptions of the call, the    *)
(* envelope of the response, and an answer that is refused.                *)
RequestFailures(refused) ==
  {ProviderError(e) : e \in {x \in Exceptions : Known(x)}}
    \cup {InvalidAnswer : a \in refused}
    \cup (UNION {EnvelopeFaults(x) : x \in Envelopes})

(* The roles and the verdicts are asked for through one client, if any.    *)
CaseFailures(refused) == IF wired THEN RequestFailures(refused) ELSE {Unwired}

-----------------------------------------------------------------------------
(* Gate 1: the emails of the mailbox are classified batch by batch. *)

(* A batch is answered; the subject goes on once the last one is. *)
ClassifyBatch(r) ==
  /\ phase[r] = "classify"
  /\ LET batch == Batch(Mailbox[subject[r]], CategoryBatch, asked[r] + 1)
         n     == asked[r] + Len(batch)
     IN  /\ \A k \in 1..Len(batch) : CategoryAccepted(Answer(CategoryOf[batch[k]], Categories))
         /\ IF n < Len(Mailbox[subject[r]])
            THEN asked' = [asked EXCEPT ![r] = n] /\ UNCHANGED <<phase, result>>
            ELSE /\ asked' = [asked EXCEPT ![r] = 0]
                 /\ IF CategoryOf[subject[r]] = "BL_COMPARISON"
                    THEN Goto(r, "preflight") /\ UNCHANGED result
                    ELSE Conclude(r, [NoResult EXCEPT !.state = "NOT_COMPARED",
                                                      !.output = AwaitingOutput])
  /\ UNCHANGED <<calm, retired, cache, trail, read, role, failure>>

(* One refused answer, or a call that raised, fails every email of the request. *)
ClassifyFails(r) ==
  /\ phase[r] = "classify"
  /\ Fault
  /\ \E f \in RequestFailures({a \in BadAnswers : ~CategoryAccepted(a)}) :
       Conclude(r, ProviderFailed(f))
  /\ UNCHANGED <<given, retired, cache, trail, asked, read, role, failure>>

-----------------------------------------------------------------------------
(* analyze: preflight, and the concurrent scans. *)

Await(r) ==
  /\ phase[r] = "preflight"
  /\ Docs(r) = {} /\ subject[r] \in AsksForDraft
  /\ Conclude(r, [NoResult EXCEPT !.state = "AWAITING_DOCUMENTS", !.output = AwaitingOutput])
  /\ UNCHANGED <<calm, retired, cache, trail, asked, read, role, failure>>

Preflight(r) ==
  /\ phase[r] = "preflight"
  /\ ~(Docs(r) = {} /\ subject[r] \in AsksForDraft)
  /\ Goto(r, "scans")
  /\ UNCHANGED <<calm, retired, cache, trail, asked, read, role, failure, result>>

(* The cache answers; its failure is logged and taken for a miss, and so   *)
(* is the refusal of a retired workspace.                                  *)
CacheHits(r, i) ==
  /\ Reading(r, i) /\ read[r][i].at = "none"
  /\ cache[Content(r, i)] # Nothing /\ r \notin retired
  /\ read' = [read EXCEPT ![r][i] = [@ EXCEPT !.at = "ok", !.value = cache[Content(r, i)]]]
  /\ UNCHANGED <<calm, retired, cache, trail, phase, asked, role, failure, result>>

CacheMisses(r, i) ==
  /\ Reading(r, i) /\ read[r][i].at = "none"
  /\ IF cache[Content(r, i)] = Nothing \/ r \in retired THEN UNCHANGED faults ELSE Fault
  /\ read' = [read EXCEPT ![r][i] = [@ EXCEPT !.at = "call", !.calls = IF keys = 0 THEN 0 ELSE 1]]
  /\ UNCHANGED <<given, retired, cache, trail, phase, asked, role, failure, result>>

Calling(r, i) == Reading(r, i) /\ read[r][i].at = "call" /\ keys > 0

MutantFail(r, i, attempts, f) ==
  read' = [read EXCEPT ![r][i] = [@ EXCEPT !.at = "failed", !.attempts = attempts]]

Fail(r, i, attempts, f) ==
  read' = [read EXCEPT ![r][i] = [@ EXCEPT !.at = "failed", !.attempts = attempts, !.failure = f]]

(* The key answers with a document in the schema: it is usable and is      *)
(* stored next, or the read fails.                                         *)
KeyAnswers(r, i, reading) ==
  LET c == Content(r, i)
      attempts == Append(read[r][i].attempts, "SUCCEEDED")
  IN  /\ Calling(r, i)
      /\ IF Unusable(c, reading) = {}
         THEN read' = [read EXCEPT ![r][i] = [@ EXCEPT !.at = "store", !.attempts = attempts,
                                                       !.value = Found(c, reading)]]
         ELSE \E f \in Unusable(c, reading) : Fail(r, i, attempts, f)
      /\ UNCHANGED <<calm, retired, cache, trail, phase, asked, role, failure, result>>

(* The key answers with text outside the schema. *)
KeyGarbles(r, i) ==
  /\ Calling(r, i)
  /\ Fault
  /\ Fail(r, i, Append(read[r][i].attempts, "SUCCEEDED"), GeminiFailure("invalid_schema", TRUE))
  /\ UNCHANGED <<given, retired, cache, trail, phase, asked, role, failure, result>>

MutantKeyLimited(r, i) ==
  /\ Calling(r, i) /\ Fault
  /\ LET attempts == Append(read[r][i].attempts, "RATE_LIMITED")
     IN  IF Len(attempts) <= keys
         THEN read' = [read EXCEPT ![r][i] = [@ EXCEPT !.attempts = attempts, !.calls = @ + 1]]
         ELSE Fail(r, i, attempts, CallFailure(429))
  /\ UNCHANGED <<given, retired, cache, trail, phase, asked, role, failure, result>>

(* A 429 moves the same call to the next key; the last key's 429 ends it. *)
KeyLimited(r, i) ==
  LET attempts == Append(read[r][i].attempts, "RATE_LIMITED")
  IN  /\ Calling(r, i)
      /\ Fault
      /\ IF Len(attempts) < keys
         THEN read' = [read EXCEPT ![r][i] = [@ EXCEPT !.attempts = attempts,
                                                       !.calls = read[r][i].calls + 1]]
         ELSE Fail(r, i, attempts, CallFailure(429))
      /\ UNCHANGED <<given, retired, cache, trail, phase, asked, role, failure, result>>

KeyFails(r, i, status) ==
  /\ Calling(r, i)
  /\ Fault
  /\ Fail(r, i, Append(read[r][i].attempts, "FAILED"), CallFailure(status))
  /\ UNCHANGED <<given, retired, cache, trail, phase, asked, role, failure, result>>

(* The timeout cuts the call; the attempts already answered stay visible. *)
CallTimesOut(r, i) ==
  /\ Calling(r, i)
  /\ Fault
  /\ Fail(r, i, read[r][i].attempts, GeminiFailure("timeout", TRUE))
  /\ UNCHANGED <<given, retired, cache, trail, phase, asked, role, failure, result>>

NotConfigured(r, i) ==
  /\ Reading(r, i) /\ read[r][i].at = "call" /\ keys = 0
  /\ Fail(r, i, <<>>, GeminiFailure("provider_unconfigured", FALSE))
  /\ UNCHANGED <<calm, retired, cache, trail, phase, asked, role, failure, result>>

MutantStoreResult(r, i) ==
  /\ Reading(r, i) /\ read[r][i].at = "store" /\ r \notin retired
  /\ read' = [read EXCEPT ![r][i].at = "ok"]
  /\ cache' = [cache EXCEPT ![Content(r, i)] = read[r][i].value]
  /\ trail' = trail \cup {Event("EXTRACTION_CACHED", r, i, read[r][i].value)}
  /\ UNCHANGED <<calm, retired, phase, asked, role, failure, result>>

(* cache_extraction: the first result of some bytes stays, and only its    *)
(* writer appends the audit event; a later result changes nothing.         *)
StoreResult(r, i) ==
  LET c == Content(r, i)
  IN  /\ Reading(r, i) /\ read[r][i].at = "store" /\ r \notin retired
      /\ read' = [read EXCEPT ![r][i].at = "ok"]
      /\ IF cache[c] = Nothing
         THEN /\ cache' = [cache EXCEPT ![c] = read[r][i].value]
              /\ trail' = trail \cup {Event("EXTRACTION_CACHED", r, i, read[r][i].value)}
         ELSE UNCHANGED <<cache, trail>>
      /\ UNCHANGED <<calm, retired, phase, asked, role, failure, result>>

(* A failed write is logged: the run goes on with its own result. *)
StoreFails(r, i) ==
  /\ Reading(r, i) /\ read[r][i].at = "store"
  /\ IF r \in retired THEN UNCHANGED faults ELSE Fault
  /\ read' = [read EXCEPT ![r][i].at = "ok"]
  /\ UNCHANGED <<given, retired, cache, trail, phase, asked, role, failure, result>>

(* An error the cache calls do not expect (the database cannot be reached) *)
(* cancels the other scans and ends the analysis.                          *)
CacheUnreachable(r, i) ==
  /\ Reading(r, i) /\ read[r][i].at \in {"none", "store"}
  /\ Fault
  /\ read' = [read EXCEPT ![r] = [j \in Docs(r) |-> NoRead]]
  /\ Conclude(r, [NoResult EXCEPT !.state = "ERROR"])
  /\ UNCHANGED <<given, retired, cache, trail, asked, role, failure>>

ScansDone(r) ==
  /\ phase[r] = "scans"
  /\ \A i \in Scanned(r) : Finished(r, i)
  /\ Goto(r, IF Texts(r) = {} THEN "record" ELSE "roles")
  /\ UNCHANGED <<calm, retired, cache, trail, asked, read, role, failure, result>>

-----------------------------------------------------------------------------
(* analyze: the roles, and the ambiguous texts one after another. *)

(* A batch of documents is answered.  The classifier answers every         *)
(* document of a batch with the role of its first one (the docstring of    *)
(* JevDocumentRoleClient), which is why a batch is a single document.      *)
RolesAnswered(r) ==
  /\ phase[r] = "roles" /\ wired
  /\ \E first \in NextBatch(r) :
       LET answer == Answer(RoleOf[Content(r, first)], Roles)
       IN  /\ \A i \in NextBatch(r) \ {first} : Before(r, first, i)
           /\ RoleAccepted(answer)
           /\ role' = [role EXCEPT ![r] =
                         [i \in Docs(r) |-> IF i \in NextBatch(r) THEN answer ELSE role[r][i]]]
  /\ IF Unanswered(r) \ NextBatch(r) = {} THEN Goto(r, "texts") ELSE UNCHANGED phase
  /\ UNCHANGED <<calm, retired, cache, trail, asked, read, failure, result>>

(* A failure fails every document of the request, answered ones included;  *)
(* without a client every request fails.                                   *)
RolesFail(r) ==
  /\ phase[r] = "roles"
  /\ IF wired THEN Fault ELSE UNCHANGED faults
  /\ \E f \in CaseFailures({a \in BadAnswers : ~RoleAccepted(a)}) :
       failure' = [failure EXCEPT ![r] = f]
  /\ role' = [role EXCEPT ![r] = [i \in Docs(r) |-> Nothing]]
  /\ Goto(r, "record")
  /\ UNCHANGED <<given, retired, cache, trail, asked, read, result>>

TextsDone(r) ==
  /\ phase[r] = "texts"
  /\ \A i \in ToRead(r) : Finished(r, i)
  /\ Goto(r, "record")
  /\ UNCHANGED <<calm, retired, cache, trail, asked, read, role, failure, result>>

-----------------------------------------------------------------------------
(* run_case: the record of the analysis, and the decision. *)

(* One transaction for each event; a retired workspace refuses it. *)
RecordNext(r) ==
  /\ phase[r] = "record"
  /\ LET pending == Pending(r)
     IN \E e \in pending :
          /\ \A x \in pending : e.doc <= x.doc
          /\ IF r \in retired
             THEN Conclude(r, [NoResult EXCEPT !.state = "REFUSED"]) /\ UNCHANGED trail
             ELSE IF e.kind = "DOCUMENT_ROLE_DECIDED" /\ ~Storable(role[r][e.doc], Roles)
             THEN Conclude(r, [NoResult EXCEPT !.state = "ERROR"]) /\ UNCHANGED trail
             ELSE trail' = trail \cup {e} /\ UNCHANGED <<phase, result>>
  /\ UNCHANGED <<calm, retired, cache, asked, read, role, failure>>

MutantEscalated(analyses) == {a \in Failing(analyses) : ~a.failure.retryable}

(* A document that fails the same way on every retry goes to a reviewer    *)
(* instead of leaving the case waiting for a retry.                        *)
Escalated(analyses) == {a \in Failing(analyses) : a.failure.code = "ungrounded_value"}

Structural(diagnostics, f) ==
  [NoResult EXCEPT !.state = "NEEDS_REVIEW", !.output = StructuralOutput(diagnostics),
                   !.diagnostics = diagnostics, !.failure = f]

Compared(pair, verdicts) ==
  LET holds == ScanHolds(pair)
  IN  [state |-> IF holds = {} THEN "COMPARED" ELSE "NEEDS_REVIEW",
       output |-> IF holds = {} THEN ComparisonOutput(verdicts) ELSE StructuralOutput(holds),
       diagnostics |-> holds, verdicts |-> verdicts, failure |-> Nothing]

Decide(r) ==
  LET analyses == Analyses(r)
      pair == AdmitPair(analyses)
      unreadable == Escalated(analyses)
      drafts == CompareFields(pair)
  IN  /\ phase[r] = "record" /\ Pending(r) = {}
      /\ IF pair.failure # Nothing
         THEN Conclude(r, IF unreadable = {} THEN ProviderFailed(pair.failure)
                          ELSE Structural({UnreadableDocument(a) : a \in unreadable},
                                          First(unreadable).failure))
         ELSE IF pair.diagnostics # {} THEN Conclude(r, Structural(pair.diagnostics, Nothing))
         ELSE IF EquivalenceQuestions(drafts) = {}
         THEN Conclude(r, Compared(pair, ResolveVerdicts(drafts, <<>>)))
         ELSE Goto(r, "equivalence") /\ UNCHANGED result
      /\ UNCHANGED <<calm, retired, cache, trail, asked, read, role, failure>>

(* Every question of the one request is answered, or the request fails. *)
EquivalenceAnswered(r) ==
  LET pair == AdmitPair(Analyses(r))
      drafts == CompareFields(pair)
  IN  /\ phase[r] = "equivalence"
      /\ wired
      /\ \E p \in [EquivalenceQuestions(drafts) -> Probabilities] :
           /\ \A f \in DOMAIN p : NoulAccepted([type |-> "noul", noul |-> p[f]])
           /\ Conclude(r, Compared(pair, ResolveVerdicts(drafts, p)))
      /\ UNCHANGED <<calm, retired, cache, trail, asked, read, role, failure>>

EquivalenceFails(r) ==
  /\ phase[r] = "equivalence"
  /\ IF wired THEN Fault ELSE UNCHANGED faults
  /\ \E f \in CaseFailures({a \in BadAnswers : ~NoulAccepted(a)}) :
       Conclude(r, ProviderFailed(f))
  /\ UNCHANGED <<given, retired, cache, trail, asked, read, role, failure>>

-----------------------------------------------------------------------------
(* An exception of no known kind leaves the client as it is, and ends the  *)
(* run with nothing recorded.                                              *)
CallRaises(r) ==
  /\ phase[r] = "classify" \/ (wired /\ phase[r] \in {"roles", "equivalence"})
  /\ Fault
  /\ \E e \in Exceptions : ~Known(e)
  /\ Conclude(r, [NoResult EXCEPT !.state = "ERROR"])
  /\ UNCHANGED <<given, retired, cache, trail, asked, read, role, failure>>

(* The visitor resets the workspace while the run goes on. *)
ResetAll(r) ==
  /\ r \notin retired /\ phase[r] # "done"
  /\ Fault
  /\ retired' = retired \cup {r}
  /\ UNCHANGED <<given, cache, trail, phase, asked, read, role, failure, result>>

Finish == (\A r \in Runs : phase[r] = "done") /\ UNCHANGED vars

ReadStep(r, i) ==
  \/ CacheHits(r, i) \/ CacheMisses(r, i)
  \/ \E reading \in Readings : KeyAnswers(r, i, reading)
  \/ KeyGarbles(r, i) \/ KeyLimited(r, i)
  \/ \E status \in {403, 503} : KeyFails(r, i, status)
  \/ CallTimesOut(r, i) \/ NotConfigured(r, i)
  \/ StoreResult(r, i) \/ StoreFails(r, i) \/ CacheUnreachable(r, i)

RunStep(r) ==
  \/ ClassifyBatch(r) \/ ClassifyFails(r) \/ Await(r) \/ Preflight(r)
  \/ \E i \in Docs(r) : ReadStep(r, i)
  \/ ScansDone(r) \/ RolesAnswered(r) \/ RolesFail(r) \/ TextsDone(r)
  \/ CallRaises(r) \/ RecordNext(r) \/ Decide(r) \/ EquivalenceAnswered(r) \/ EquivalenceFails(r)

Next == (\E r \in Runs : RunStep(r) \/ ResetAll(r)) \/ Finish

Spec == Init /\ [][Next]_vars

-----------------------------------------------------------------------------
(* Properties *)

Ended(r) == phase[r] = "done"
Cut(r, i) == read[r][i].failure # Nothing /\ read[r][i].failure.code = "timeout"

(* Every variable keeps its type. *)
TypeOK ==
  /\ faults \in 0..MaxFaults /\ keys \in KeyCounts /\ wired \in BOOLEAN /\ subject \in Subjects
  /\ retired \subseteq Runs
  /\ DOMAIN cache = Contents
  /\ \A c \in Contents : cache[c] # Nothing => DOMAIN cache[c] \subseteq ComparedFields
  /\ phase \in [Runs -> {"classify", "preflight", "scans", "roles", "texts", "record",
                         "equivalence", "done"}]
  /\ asked \in [Runs -> Nat]
  /\ \A r \in Runs : \A i \in Docs(r) :
       /\ read[r][i].at \in {"none", "call", "store", "ok", "failed"}
       /\ read[r][i].at \in {"store", "ok"} => read[r][i].value # Nothing
       /\ read[r][i].at = "failed" <=> read[r][i].failure # Nothing
       /\ role[r][i] = Nothing \/ role[r][i].choice \in Roles

(* The attempts of a read account for the calls it made: each call of a    *)
(* key left one attempt, except the call a timeout cut; only a 429 led to  *)
(* another call; a read ends in a 429 only when no key was left; and a     *)
(* value without an attempt came from the cache (generate_traced, _call).  *)
ReadsAccounted ==
  \A r \in Runs : \A i \in Docs(r) :
    LET x == read[r][i]
        n == Len(x.attempts)
    IN  /\ x.calls <= keys
        /\ \A k \in 1..(n - 1) : x.attempts[k] = "RATE_LIMITED"
        /\ Finished(r, i) => x.calls = IF Cut(r, i) THEN n + 1 ELSE n
        /\ x.at = "failed" /\ n > 0 /\ ~Cut(r, i) =>
             (x.attempts[n] = "RATE_LIMITED" => n = keys)
        /\ x.at = "ok" => IF n = 0 THEN cache[Content(r, i)] = x.value
                                   ELSE x.attempts[n] = "SUCCEEDED"

(* Whatever reads race to fill it, a cache entry has one audited writer,   *)
(* and holds for good the values that writer read (cache_extraction).      *)
CacheAgreement ==
  \A c \in Contents :
    LET writes == {e \in trail : e.kind = "EXTRACTION_CACHED" /\ e.content = c}
    IN  /\ cache[c] = Nothing <=> writes = {}
        /\ \A e, x \in writes : e = x
        /\ \A e \in writes : /\ e.detail = cache[c]
                             /\ read[e.run][e.doc].at # "none" => read[e.run][e.doc].value = cache[c]

(* A case is compared, or held as a scan, only over an email that carries  *)
(* exactly one Shipping Instruction and one draft BL when each document is *)
(* judged alone; and an email that carries one pair is never held for a    *)
(* wrong or a missing document (JevDocumentRoleClient.decide, admit_pair). *)
OnePairAttached(r) ==
  \A x \in {"SI", "DRAFT_BL"} :
    Cardinality({i \in Docs(r) : Kind[Content(r, i)] \in {"text", "scan"}
                                   /\ RoleOf[Content(r, i)] = x}) = 1

ComparesThePair ==
  \A r \in Runs :
    /\ DOMAIN result[r].verdicts # {} => OnePairAttached(r)
    /\ result[r].output # Nothing /\ result[r].output.reason \in {"WRONG_DOC_TYPE", "MISSING_ATTACHMENT"}
         => ~OnePairAttached(r)

(* A run that reaches a conclusion has left on record every role it        *)
(* decided, every read that failed and every read the second key saved,    *)
(* even where a later call failed the case (analyze, run_case).            *)
TrailComplete ==
  \A r \in Runs :
    Ended(r) /\ result[r].state \in {"COMPARED", "NEEDS_REVIEW", "PROVIDER_FAILED"} =>
      \A i \in Docs(r) :
        LET Kept(kind) == \E e \in trail : e.kind = kind /\ e.run = r /\ e.doc = i
        IN  /\ role[r][i] # Nothing => Kept("DOCUMENT_ROLE_DECIDED")
            /\ read[r][i].at = "failed" => Kept("EXTRACTION_FAILED")
            /\ UsedSecondKey(read[r][i].attempts) => Kept("GEMINI_SECOND_KEY_USED")
            /\ failure[r] # Nothing /\ HasText(r, i) => Kept("DOCUMENT_ROLE_FAILED")

(* What a run concludes is accepted when it is recorded, satisfies the     *)
(* evaluator's contract, and is the row the batch derives later from the   *)
(* diagnostics and verdicts stored with it: no case is refused after its   *)
(* calls were made, and the published row is the one the reviewer saw.     *)
OutcomeAgrees ==
  \A r \in Runs :
    LET x == result[r]
    IN  x.output # Nothing /\ x.state # "NOT_COMPARED" =>
          /\ Consistent(x.output)
          /\ ValidEvidence(x.output, x.diagnostics, x.verdicts)
          /\ SnapshotAccepts(x.verdicts)
          /\ OutputForSnapshot(x.diagnostics, x.verdicts) = x.output

(* A case whose read failed goes to a reviewer exactly when trying again   *)
(* cannot help: a file nobody can read, or a value that is not in the      *)
(* text.  Any other failure leaves the case to be tried again (run_case).  *)
RetryOrReview ==
  \A r \in Runs :
    Ended(r) /\ (\E i \in Docs(r) : read[r][i].at = "failed")
             /\ result[r].state \notin {"ERROR", "REFUSED"} =>
      LET hopeless == \E i \in Docs(r) :
                        \/ Kind[Content(r, i)] = "unreadable"
                        \/ read[r][i].at = "failed" /\ ~read[r][i].failure.retryable
                             /\ read[r][i].failure.code = "ungrounded_value"
      IN  result[r].state = IF hopeless THEN "NEEDS_REVIEW" ELSE "PROVIDER_FAILED"

=============================================================================
