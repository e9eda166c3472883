# LadingLens in TLA+

LadingLens reads a shipping desk's inbox, classifies each email, compares
shipping instructions with draft bills of lading, holds doubtful cases for a
person, reconciles cases with expected shipments, publishes a submission and
answers questions about all of it. Its API (`src/apps/api/app`) is an asyncio
process over PostgreSQL, an object store and two language-model providers. These
modules model its concurrent core (what several requests of one guest may do to
the same rows, while the guest resets the workspace and processes die), what
happens between two transactions (calls of providers, with their keys, caches
and failures), and the decisions the rows record.

## 1. Inventory

| Component | State it keeps | Operations | What makes it correct |
| --- | --- | --- | --- |
| Gate 1 ingestion (`ingestion.py`) | none; receipts, cases and attempts through persistence | `ingest`: receipt, case shell, one provider call per batch, one result per email | each email is classified once, also when two ingests race or one dies half way |
| Comparison pipeline (`pipeline.py`, `comparison.py`) | none; verdicts and assignments through persistence | `run_pending`, `run_case` | each case is compared once; a held case reaches a reviewer |
| Persistence service (`persistence.py`, `models.py`, migrations) | every table; the current generation of a guest session | one transaction per method, Reset All | retired workspaces are frozen; rows agree with each other and with the object store |
| Review (`review.py`, `api/actions.py`) | actions and assignments | case review, exception action | a case is decided once; an answer says what happened |
| Seed materializer (`materialize.py`) | the guest's copies of seed records | `ensure_case`, `ensure_exception` | copies are complete whenever they exist; a lost race is not an error |
| Judge service (`judge.py`) | `_check_slots`, judge runs | `upload`, `retry`, `get` | slots are conserved; attempts are counted once; a success stands |
| Submission (`submission.py`, `execute_submission_run`) | runs, records, evaluations, private artifacts | create, collect, stage, block, publish, score, evaluate | what is published is whole, is what was staged, and can be resumed from any crash |
| Guest sessions (`guest.py`, `api/session.py`, `api/deps.py`) | session, current workspace | create, authenticate, Reset All | one active workspace per session |
| Object store (`storage.py`) | bytes by hash | put if absent, read | a named object exists |
| Classifier client (`jev.py`) | none | batches of questions about emails, documents and fields | an answer is believed only if every check passes, and is about the item that was asked |
| Extraction, Gemini client (`extraction.py`, `gemini.py`) | extraction cache, key attempts | preflight, concurrent reads of scans, roles, ambiguous texts, key rotation, budget | calls are bounded and accounted for; a cached result is not replaced; what failed is on record |
| Comparison decisions (`comparison.py`, `contracts.py`) | none | admission of a pair, comparison by field, bands, output | the pair compared is the pair attached; what is stored reads back as what was decided |
| Reconciliation (`reconciliation.py`) | none | matching of cases to shipments | one result for each group that hangs together, whatever the order of the search |
| Seed catalog (`seed_catalog.py`) | the catalog, once per process; a lock and a cool-down | build at start-up or by a request | one build at a time; a failed one leaves nothing |
| Graph chat (`graph_chat.py`, `api/graph_routes.py`) | the graph of the catalog, chat slots | corpus, overview, retrieval, grounded answer | the graph tells all that went wrong and only that; an answer cites what it was sent; slots are conserved |
| Views (`api/inbox.py`, `api/views.py`, `api/*_routes.py`) | none | reads | no property of the state |
| Web client (`src/apps/web/src`) | session, batch of checks, views | upload batches, reset handling | a result is shown for the file it belongs to |

**How they meet.** Routes authenticate a session and carry its workspace (its
*generation*) through the request. Every writing transaction begins with
`_require_active_guest_workspace` (`persistence.py:3555`): it locks the guest's
session row and raises `InactiveWorkspace` if the workspace is no longer the
current one. So the transactions of one guest are serialised, and Reset All is
one more of them. Everything between two transactions of a request is not:
provider calls, object-store writes, waiting for a slot, and the steps of every
other request. The object store is written outside transactions, always before
the row that names the object. `ingest`, `run_pending` and
`execute_submission_run` are called by tests and tools, not by a route; the
judge, review and materializer paths are wired to routes.

Three things are shared by all guests: the `source_objects` rows, the extraction
cache, keyed by the bytes of an attachment, and the catalog of the prepared demo
with its graph, which the process builds when it starts, or the first request
that finds it missing.

**Hard behaviours.** State read in one transaction and used in a later one
(ingest, run_pending, retry, the action routes); batches recorded item by item;
a reset or a crash between any two steps; two processes' worth of requests on
one row; two slot pools with many ways out; rows ordered by the time their
transaction began rather than by the lock; concurrent reads of scans that fill
one cache, each of which may fail in its own way after it was paid for; a
classifier whose batches come back under names; a search over sets in any order;
a build many requests wait for, which may just have failed. `PROJECT.json` lists
them as hazards, each at its line, with the properties that would catch it going
wrong, or the reason why none does.

## 2. Modules

| Module | What it is |
| --- | --- |
| `CaseFlow` | ingest, comparison and review of the cases of one guest |
| `RunLedger` | abstract: what a judge run promises its uploader |
| `JudgeDesk` | the judge service; implements `RunLedger` |
| `ReviewDesk` | review routes over copies of seed records |
| `Publication` | abstract: what a submission run promises; the triggers of migration 0004 |
| `SubmissionRun` | `execute_submission_run`; implements `Publication` |
| `Comparison` | operators: admission of a pair, comparison, bands, outputs |
| `JevClient` | operators: which answers of the classifier are accepted, and what each other one is |
| `CaseAnalysis` | a run between its transactions: providers, cache, record, decision |
| `GateTwo` | reconciliation of shipments and cases, as a search in any order |
| `SeedCatalog` | operators: what Gate 1 makes of the committed emails |
| `ControlGraph` | operators: the graph, its overview and its slices |
| `GraphChat` | the build of the catalog with `GateTwo`, and chats about its graph |
| `CaseFlowProofs`, `JudgeDeskProofs`, `ReviewDeskProofs`, `SubmissionRunProofs`, `ComparisonProofs`, `CaseAnalysisProofs`, `ControlGraphProofs` (with `GateTwo`), `GraphChatProofs` | theorems about these modules and their proofs |
| `MCCaseFlow`, `MCReviewDesk`, `MCCaseAnalysis`, `MCGraphChat` | symmetry sets and constant values for model checking |

`CaseAnalysis` composes `Comparison` and `JevClient`; `GraphChat` composes
`ControlGraph`, `SeedCatalog`, `GateTwo` and `Comparison`. `CaseFlow` and
`CaseAnalysis` are two views of the same run: the first has its transactions and
leaves open what an analysis finds, the second has the analysis and leaves the
rows of the case out.

Conventions common to the four modules over the tables:

- **A transaction is one action.** This is justified by the session-row lock
  above. `ReviewDesk` splits the one transaction in which the difference shows
  (see below).
- **A request is a process used once**: `pc[r]` is where it is, `ws[r]` the
  generation it was authenticated for, further variables hold what it read
  earlier. Its name stands for the identity of the rows it writes, so "recorded
  twice" is visible as two names in one set.
- **A workspace is its generation** (`1..MaxGeneration`). `Reset` increments
  `generation`; the tables are indexed by generation, and a new one is empty.
- **`Active(r)`** is `_require_active_guest_workspace`. An action without it is
  a step that makes no transaction (a provider call, an object write), or one
  that reads without the check, as the code does.
- **Crashes** end a request between two transactions; a transaction that fails
  is the same as one that was not made.
- Operators named `Mutant...` are plausible bugs. No specification uses them;
  they show that each property can fail (`PROJECT.json`, "mutants").

### CaseFlow

`cases` is `CaseRecord` with its verdict rows reduced to what a reviewer is
asked (`NONE`, `CLEAR`, `REVIEW`); `attempts` are the `classification_attempts`
rows, `compared` the `CASE_COMPARED` audit rows, `assignments` and `actions` the
review tables. Ingest is `Authorize`, `StoreBytes`, `PersistReceipt` (or
`ReplayReceipt`, `RefuseReceipt`), `EnsureCase`, `ReadState` per email, then
`Classify` and `RecordSuccess` or `RecordFailure` per item, as in
`ingestion.py:140-270`. `RefuseResult` is the `ValueError` of
`_lock_classification_case`, which ends the ingest with the rest of its batch
unrecorded. The pipeline is `ListReady`, then for each case `LoadCase`,
`RecordDecisions` and one of `ProviderGivesUp`, `RecordComparison`,
`RefuseComparison`; `ComparisonOutcomes` are the pairs of evaluator status and
verdicts that `comparison.py` can return. Review is `Dispose` or `RefuseReview`.
The order of the emails of a batch is left open. One `Digests` value stands for
all bytes of an email.

### JudgeDesk and RunLedger

An upload owns one email, one case and at most one run. `AcquireSlot` and
`SlotTimeout` are the two outcomes of `wait_for`; `EndInSlot` is the `finally`
that gives the slot back. `Receive` is the three transactions of `_receive`.
`CompareCase` and `AlreadyCompared` are the success of `record_comparison_result`
and its `ValueError`, which `retry` takes for a result that is already there
(`judge.py:214-224`). `RecordRetry` is the `UPDATE ... WHERE state = 'FAILED'`
and `LoseRetry` its empty result. `UnexpectedError` may strike at any step in
the slot; `broken` is a history variable that remembers whom it struck, so that
`RepliesTrue` can tell the error it answers from a check that fails on its own. `Restart` ends all requests and makes a new semaphore. `RunLedger`
says: recorded once, retried only while FAILED, each try counted, a success
never changes.

### ReviewDesk

`todo` holds the seed cases still to be copied for a request; `HasCase`,
`CopyReceipt`, `CopyCase` and `HasCaseAgain` are `ensure_case`, whose insert may
lose to a concurrent one. `FindException`, `ImportShipments`,
`PersistException`, `FindExceptionAgain` are `ensure_exception`. Cases are
copied in a fixed order, as the list comprehension of `materialize.py:164` does.
`rows` are the `review_assignments` of a copy. `created_at` is `now()`, the time
at which a transaction *began*, while the lock is taken by a later statement, so
`BeginTransaction` takes a time from `clock` and `Act` appends the row when it
has the lock. `ExplainRefusal` is the `except ValueError` of
`api/actions.py:207`, which `InactiveWorkspace` also reaches.

### SubmissionRun and Publication

One run per workspace stands for one (manifest hash, rule version) key. The
`pc` steps are the calls of `execute_submission_run` (`persistence.py:2723`):
`Create`/`Replay`, `ReadState`, `Collect`, `Stage`/`StagedAlready`/`StageFails`,
`Block`, `FindStaged`, `PutArtifact`, `Publish`/`PublishedAlready`,
`LoadArtifact`, `Score`, `Evaluate`. An artifact is its content, as its key is
its hash. `Settle` stands for the handlers that classify a case while the
submission runs; that it never changes a settled case is `DecisionsFinal` of
`CaseFlow`. `Publication` says: staged all at once and for good, published once,
what was staged; its transitions are those `guard_submission_run_mutation`
(migration 0004) lets through and the code makes.

### Comparison and JevClient

`Comparison` is Gate 1's decisions on what was read: `AdmitPair` (which two
documents are the pair, and what is wrong if there is none), `CompareFields`
(each settled field by its kind: text, port, number), `Band` (probabilities to
verdicts), `ResolveVerdicts`, and the recorded output with `Consistent`,
`ValidEvidence` and the submission's own reading of it. Values are names with a
port code, or numerals. `JevClient` is the client of the hosted classifier:
the batches (`NextBatch`: what the parser gave text for, then the scans), the faults of an envelope, the acceptance of each kind of answer
(percentages that must add up within a tolerance), the failure each exception
becomes, and `Storable`, what persistence accepts of a role decision.

### CaseAnalysis

A run is about one email of one visitor. `ClassifyBatch` and `ClassifyFails` are
the batches of Gate 1; `Await` and `Preflight` the first decisions of
`run_case`. The scans are read concurrently: `read[r][i]` is one read, and its
steps are `CacheHits`, `CacheMisses`, a call per key (`KeyAnswers`,
`KeyGarbles`, `KeyLimited`, `KeyFails`, `CallTimesOut`), `NotConfigured`,
`StoreResult`, `StoreFails` and `CacheUnreachable`, which cancels the other
reads. `keys` is how many Gemini keys a deployment has, and `wired` whether it has
one of the classifier: without it every request of the roles and of the verdicts
fails closed (`_JevNotWired`). Then come the roles (`RolesAnswered`, `RolesFail`), the texts the parser
left ambiguous, which go through the same reads, the record of the analysis, one
event at a time (`RecordNext`), and the decision (`Decide`,
`EquivalenceAnswered`, `EquivalenceFails`). `ResetAll` may retire the workspace
anywhere. `trail` is the audit rows, `cache` the shared extraction cache. What a
key answers is `Readings`: fields, and whether each is found in the text
(`Unusable` is the grounding check).

### GateTwo

`Visit`, `StartGroup` and `CloseGroup` are the loop of `reconcile_shipments` with
`_candidate_component`: from a shipment, the group of shipments and cases that
hang together through equal identifiers. The code pops from a list that it
extends with sets; the model pops anything. `Rest` is what nothing matched. `Component`
defines the groups without a search, and `Reconciled` compares the two.

### SeedCatalog, ControlGraph and GraphChat

`SeedCatalog` is `SeedCatalog.build`: the same decisions as Gate 1, with recorded
answers. `ControlGraph` is `build_corpus`, `corpus_overview`, `retrieve` and
`_cited_subgraph`. All are operators: the graph is derived once and never
changed. `GraphChat` is the state: `lock`, `failed`, `cooling` and `graph` are
`load_seed_catalog`, whose build runs the steps of `GateTwo` and then makes the
graph; `BuildFails` leaves nothing behind but the cool-down. A chat is `Ask`,
`TakeLock` (with both checks made again under the lock), `TakeSlot` or `Busy`,
then calls per key and retries with pauses (`KeyAnswers`, `KeyLimited`,
`KeyFails`, `Retry`, `TimesOut`), and `Response`, which believes an answer only
if `Fault` finds nothing.

## 3. Runs

| Run | Instance | States | Question |
| --- | --- | --- | --- |
| `CaseFlowBatch` | 3 requests, 2 emails, 1 reset | 1.3 M | batches that race, die half way or meet a reset: is each case classified and compared once, and a retired workspace frozen? |
| `CaseFlowRace` | 4 requests, 1 email, 2 versions of its bytes, 1 reset | 607 k | two reviewers of a held case; a key reused with other bytes |
| `CaseFlowLive` | 3 requests, 1 email, 1 reset | 102 k | every request ends |
| `JudgeDeskRetry` | 1 upload, 3 retries, 2 slots, 1 reset, 1 restart | 257 k | retries that race, the slot pool at its limit, refinement of `RunLedger`; every request answered, and a check that stopped half way repaired by a retry |
| `ReviewDeskCopies` | 2 reviews, 2 actions, 1 exception naming 1 case, 1 reset | 1.3 M | copies that race each other, a reset and crashes: one decision, true answers |
| `ReviewDeskBundle` | 2 actions, 1 exception naming 2 cases, 1 reset | 15 k | copies of several cases are complete; every request answered |
| `ReviewDeskResolution` | 3 actions | violated | is a recorded resolution final? |
| `ReviewDeskReset` | 2 actions, 1 reset | violated | does a reset always answer `session_reset`? |
| `SubmissionRace` | 2 executions, 2 emails, 2 version manifests, 1 reset | 832 k | executions that race, die and resume each other: publication of the whole set of decisions, refinement of `Publication`, every execution ends |
| `CaseAnalysis` | 2 runs of 2 visitors over emails that share a scan, 0 or 2 keys, a classifier or none, 2 faults | 217 k | calls, cache, record and decision agree, whatever fails between two steps |
| `GraphChat` | 6 emails, 4 cases, 3 shipments, 972 ledgers; 2 chats for 1 slot | 23 k | Gate 2 finds exactly the groups; the graph, its slice and the chats tell the truth; every chat is answered |
| `GraphChatOverview` | the same | violated | is a flag always drawn with all it flags? |

What the properties of `CaseAnalysis` and `GraphChat` say:

- `ReadsAccounted`: the attempts of a read account for its calls: only a 429 led
  to the next key, a read ends in a 429 only when no key is left, and a value
  without an attempt came from the cache.
- `CacheAgreement`: an entry of the cache has one audited writer and keeps what
  that writer read; the writer goes on with the same values.
- `ComparesThePair`: a case is compared only if its email carries exactly one
  document of each side, and one that does is never held for a wrong or missing
  document, through batches and failures.
- `TrailComplete`: a run that reaches a conclusion has left on record each role,
  each failed read and each use of the second key.
- `OutcomeAgrees`: what is stored is consistent, and the submission reads from it
  what the reviewer was shown, on both sides of the bands.
- `RetryOrReview`: a case is left for a retry only if a retry may help; one that
  would fail again the same way is held for a person.
- `Reconciled`, `GraphWhole`: the groups of Gate 2; names, ends and flags of the
  graph.
- `OverviewFair`: a wrong shipment is left out of the slice only when it is full
  and shows no right one; a flag is drawn with all it marks, or beside a drawn
  shipment it marks.
- `AnswersGrounded`: an answer cites what its question asks about, no more than
  the `SubsetLimit` nodes it asks most about, marks only what it cites and draws
  all of it.
- `ChatsAccounted`, `ChatsEnd`: one build at a time, slots conserved on every way
  out, keys in order, an answer exactly if the last call succeeded; and every
  chat that asks is answered.

**Bounds.** `MaxGeneration` bounds resets: with 2, a request may be retired at
any step and newer ones work in the next workspace; a third generation adds no
new relation, since a request sees only "mine is current" or not. Requests are
used once, so the number of requests bounds every counter. Two requests are
needed for each race, a third to come after it (a retry after a lost retry, an
action after a misplaced resolution); two executions race each other, or one
resumes what the other left in any of its states, and the theorems are about any
number; `CaseFlowRace` has a fourth, since two reviewers can only race on a
case that one request has received and another compared. Two emails make a batch that can be half
recorded; two cases make a bundle that can be half copied. `MaxRestarts = 1`
lets a restart fall between any two steps. Four requests for two slots fill the
pool and leave two waiting. In `CaseAnalysis` two runs share one scan, so their
reads race for its cache entry; `MaxFaults = 2` is a limited first key with a
failing second one, a failed read with a failed role decision, or a reset with
either; batches hold one item, so that an answered batch is followed by one that
fails; the probabilities 84 and 85 are the two sides of a band. In `GraphChat`
three shipments over two namespaces make chains, pairs, duplicates and strangers
in one ledger; one slot for two chats makes one wait; one retry with two keys
makes four calls; `OverviewLimit = 9` cuts through the flags of the larger
graphs, and the other limits through retrieved and drawn nodes: one of the answers
cites an email that tells of its question but comes after the `SubsetLimit`. Chats ask about
one of the ledgers, since a chat does not depend on which it is. Symmetry is used
only without liveness properties. `GraphChat` may stop (nobody has to ask), so
its run does not look for deadlock; `ChatsEnd` says what must go on.

**Fairness.** The liveness runs over the tables assume weak fairness of
`Progress(r)` for each request that began: the event loop schedules a request,
and each call it awaits answers, times out or raises (provider calls have
timeouts, the slot wait is bounded, a lock is released by a transaction that
ends). Nothing forces a request to begin, a reset, a crash or an unexpected error
to happen, or a provider to succeed. `GraphChat` assumes weak fairness of the
build, which awaits nothing, and of `Advance(k)`: a free lock or slot is taken,
and the wait for a slot and the budget of a chat have timeouts. The provider need
not answer, a pause need not end, the cool-down need not end.

**Three claims the code does not keep.**

- `ResolutionFinal`. `persistence.py:2002` says "resolved reconciliation review
  cannot be changed". `ReviewDeskResolution` shows: a RESOLVE begins, an
  ACKNOWLEDGE begins, the ACKNOWLEDGE gets the lock first and commits, the
  RESOLVE is appended with the older `created_at`. The latest row by
  `created_at` is the ACKNOWLEDGE: the exception is shown as acknowledged, and a
  third action is accepted. What does hold is `ShownResolvedStays`: once the
  exception is *shown* resolved it stays.
- `RetiredAnswersReset`. `docs/references/api.md:44` says a reset mid-request
  answers `409 session_reset` on every route that touches persistence.
  `ReviewDeskReset` shows an action refused for its retired workspace answering
  `already_resolved`, because the handler of `ValueError` reads the retired
  copy. `RepliesTrue` holds: what is answered is true of that copy.

- `NoFlagSevered`. The docstring of `corpus_overview` (`graph_chat.py:701-703`)
  says an anchor whose neighbourhood does not fit is skipped, "so no flag is drawn
  severed from what it flags". `GraphChatOverview` shows a wrong shipment of an
  ambiguous group drawing the group's flag as its neighbour, while the emails the
  flag marks, which are not the shipment's neighbours, no longer fit when the flag
  comes to be an anchor. What does hold is `OverviewFair`: such a flag stands
  beside a drawn shipment it marks.

Two more sentences of the repository, met while modelling, say more than the code
does, and no run is spent on them. `README.md:173` says that every expected
shipment resolves to exactly one of six outcomes, and `docs/TRD.md:655` that a
stale source becomes a `SOURCE_STALE` review: a shipment nothing matched gets no
result at all when its ledger row is stale or it is merely booked (`MissingCases`;
`Reconciled` states which get one). For booked shipments `docs/TRD.md:144` and
`src/apps/api/tests/test_reconciliation.py:445` agree with the code.

## 4. Proofs

All theorems hold for every value of the constants under the named assumptions of
the modules (`...Assumption`: counts are naturals, null values are not members of
the sets they extend, fields, emails and shipments are finitely many, the files of
an email are a sequence, recorded probabilities are probabilities, no field is
called as a reason or an outcome is, citations carry numbers), which TLC evaluates
in the runs. One theorem has a hypothesis of its own: `AlwaysComparesThePair` is about
`RoleBatch = 1`, the value the code runs with (`jev.py:890`, `deps.py:103`). Asked
about several documents in one call the classifier answers all of them with the
role of the first (`jev.py:871-877`).

| Module | Theorem | Property |
| --- | --- | --- |
| `CaseFlowProofs` | `TypeCorrect` | `TypeOK` |
| | `RowsAgree` | `EvidenceShape` (the constraints between the columns of a case) |
| | `ClassifiedExactlyOnce` | `OneClassification` |
| | `ComparedExactlyOnce` | `OneComparison` |
| | `HeldCasesAnswered` | `HeldUntilDisposed` |
| | `BytesBehindRows` | `NoDanglingRows` |
| | `RetiredStayFrozen` | `OtherGenerationsFrozen` |
| | `DecisionsStand` | `DecisionsFinal` |
| `JudgeDeskProofs` | `DeskTypeCorrect` | `TypeOK` |
| | `SlotsNeverLost` | `SlotsConserved` |
| | `TrailMatchesRun` | `LogMatchesRun` |
| | `AnswersTrue` | `RepliesTrue` |
| | `ImplementsLedger` | `LedgerSpec` (refinement of `RunLedger`) |
| `ReviewDeskProofs` | `ReviewTypeCorrect` | `TypeOK` |
| | `CopiesAlwaysComplete` | `CopiesComplete` |
| | `DecidedExactlyOnce` | `OneDecision` |
| | `ReviewAnswersTrue` | `RepliesTrue` |
| | `ResolvedShownStays` | `ShownResolvedStays` |
| `SubmissionRunProofs` | `SubmissionTypeCorrect` | `TypeOK` |
| | `PublishedAlwaysWhole` | `PublishedIsWhole` |
| | `EvaluationsAlwaysTrue` | `EvaluationsTrue` |
| | `SubmissionAnswersTrue` | `RepliesTrue` |
| | `ImplementsPublication` | `PublicationSpec` (refinement of `Publication`) |
| `CaseAnalysisProofs` | `ReadsAlwaysAccounted` | `ReadsAccounted` |
| | `CacheAlwaysAgrees` | `CacheAgreement` |
| | `TrailAlwaysComplete` | `TrailComplete` |
| | `TypesAlwaysKept` | `TypeOK` |
| | `OutcomesAlwaysAgree` | `OutcomeAgrees` |
| | `AlwaysRetryOrReview` | `RetryOrReview` |
| | `AlwaysComparesThePair` | `ComparesThePair`, for `RoleBatch = 1` |
| `ComparisonProofs` | `StructuralAgrees` | a case held without a comparison: what is stored is consistent, and the submission derives the same |
| | `ComparedAgrees` | the same of a comparison, for any documents and probabilities |
| | `PairAdmitted` | when two documents are a pair, and what is said if they are none |
| `ControlGraphProofs` | `GateTypeCorrect` | `GateTypeOK` |
| | `ClaimedOnce` | `OneResultEach` |
| | `GateReconciles` | `Reconciled`, of `GateTwo` alone |
| `GraphChatProofs` | `ChatTypeCorrect` | `TypeOK` |
| | `BuildReconciles` | `Reconciled`, under builds that fail and start again |
| | `ChatsAlwaysAccounted` | `ChatsAccounted` |
| | `AnswersAlwaysGrounded` | `AnswersGrounded` |
| | `OverviewAlwaysFair` | `OverviewFair` |
| | `GraphAlwaysWhole` | `GraphWhole` |

The arguments. No safety property above is inductive alone; each module proves
one invariant that is, and derives the properties from it.

- **CaseFlow** (`IInv`). A request that is about to insert a receipt must already
  have stored its bytes, and one that is about to create a case must have a
  receipt behind it: `RequestsKnow` says so, step by step of `pc`. To keep the
  cases few, the proof first shows that a step changes the tables of at most one
  case of the current generation, in one of six ways (`WritesOneCase`,
  `CaseSteps`); each per-case invariant is then shown for that one case. The
  action properties use the same lemma under `IInv`.
- **JudgeDesk** (`DeskInv`). What a request has established at each step
  (`Knows`, `Found`), what an upload's rows look like at each of its steps
  (`Owned`), who signed the rows of the trail (`Signed`, `Recorded`). Slots are
  counted with `FiniteSetTheorems`: a step adds one request to those that hold a
  slot, removes one, or does neither. Under `DeskInv` each step is a step of
  `RunLedger` or a stutter.
- **ReviewDesk** (`ReviewInv`). Times are bounded by `clock` (`Clocked`), a
  request that is about to copy or to act has the copies its step needs
  (`Placed`, `Prepared`, `Acted`), and each generation keeps its copies whole
  (`Complete`) and its cases decided once (`DecidedOnce`). `ShownResolvedStays` is an action property:
  an action is refused while the latest row, by time, is a resolution.
- **SubmissionRun** (`RunInv`). What each execution knows of the run it resumes
  (`Knows`, `Truth`, `Created`), and for each generation that what is staged is
  whole and what is published is stored (`Whole`, `Filed`). The refinement maps
  the tables to `Publication`'s variables.
- **CaseAnalysis** (`AInv`). An account for each read (`Account`, `Served`), one
  writer for each cache entry (`Written`), and for each run where its reads and
  roles may be at each phase (`Order`) and what it has recorded (`Recorded`). A
  second invariant, relative to the first, leads to what is concluded: where a
  run has come to says which reads and answers are behind it (`Progress`), and a
  result is one that those call for (`Due`).
- **Comparison**. Its theorems are about operators, for any analyses and any
  probabilities: the pair that is admitted is unique, and the three readers of an
  outcome (what is stored, what the reviewer is shown, what the submission
  derives) agree by cases on the bands. The properties of `CaseAnalysis` are
  derived from them.
- **GateTwo** (`GateInv`). What is visited is whole groups; what is being
  searched lies in one group, and nothing that hangs together with it is
  forgotten (`Searching`). When the search ends, the group is the least closed
  set that contains its start.
- **ControlGraph**. The graph is made of sequences, with folds that are defined
  recursively. `Lists(seq, set)` says which set a sequence lists; a recursive
  definition is unfolded one number at a time (`SetRecursion` shows that there is
  such a function, `Unfolded` that it is what is carried along from 1 to n), and
  `Flattened`, `ListsEach` and `ListsDistinct` say what `FlattenSeq`, `EachOf` and
  `Distinct` return. So `CorpusListed`: a build lists exactly the nodes and edges
  of the emails, the results and the shipments; and `CorpusSound`: every edge
  joins two nodes that are there, no flag is marked by a flag, and a shipment has
  one state. `Counts(seq, set)` adds that nothing is listed twice and `Told` that no
  two members share a name; both pass through the same folds. Names are told apart
  by their kind, then by what they were made of, so `NodesListed` and `CorpusTold`:
  the nodes and the edges are as many as their names. `LinkedIs` reads from the
  edges what a flag is about, and `CaseTold` how a case was concluded from what
  was found in it.
- **GraphChat** (`GraphInv`). `GateInv` is kept by a build, and starts anew when
  one fails. For each chat: what it has tried, and that a second key follows a
  limited first one (`Tried`); its calls are bounded through the retries and the
  key it has come to (`Counted`). Who waits for a slot has a catalog (`Placed`).
  `AnswerInv` adds that a catalog that is there is sound, and that every reply is
  grounded in it: what is retrieved is what the question asks about
  (`RetrievedRelevant`), an answer without a fault cites no more than that, and
  what it cites is drawn whatever the limit (`CitedDrawn`). The overview has an
  invariant along its anchors (`Overview`): while the wrong shipments come, those
  behind it are drawn or there is no room left, and no right one is drawn.
  `BuiltInv` says that a catalog that is there is the one that a finished Gate 2
  left to build; `GraphWhole` follows from it and the lemmas of `ControlGraph`,
  one conjunct at a time.

Only model-checked: liveness (fairness and `ENABLED` are out of the prover's
reach). The prover cannot instantiate theorems over an operator, so induction is
used in the form of a set of numbers that is all of them (`Induction`, from
`Least`), and what a fold returns is shown for the folds of `ControlGraph` one by
one. No module declares a `RECURSIVE` operator.

## 5. Not modelled, and why

- Two guests: `source_objects` rows are shared between guests outside the
  session lock, so two guests' inserts of the same rows may wait for each other.
  The models over the tables have one guest; in `CaseAnalysis`, where two
  visitors matter, they share the cache only.
- Loss of the in-memory object store at a restart: the store is durable, as it
  is when a bucket is configured.
- Parsing and normalisation of documents (`formats.py`), the ledger's CSV, its
  owners and cutoffs: data, no control. What a file turns out to hold is a
  constant of the models.
- The words of prompts and questions, the score of a node against a question and
  the counts sent along with a chat.
- The audit chain, except the rows that properties count; tokens, cookies and
  expiry of sessions; the HTTP exchange with the evaluator.
- Views, contracts, process set-up, scripts. The web client: one loop of one page
  checks a batch, and keeps a second start and a new batch away while it runs.

## 6. Plan

Done, in this order: `CaseFlow` with its proofs, `JudgeDesk` with `RunLedger`,
`ReviewDesk`, `SubmissionRun` with `Publication`, `Comparison`, `JevClient` and
`CaseAnalysis`, `GateTwo`, `SeedCatalog`, `ControlGraph` and `GraphChat`, and the
proofs of each. What could follow:

1. Two guests over shared `source_objects` rows, with the row locks of
   PostgreSQL in place of one action per transaction.
2. `CaseBoard`, an abstract life of a case (received, decided once, held,
   answered) that `CaseFlow` and `CaseAnalysis` both implement, and a module that
   composes `CaseFlow` with `SubmissionRun` in place of `Settle`.
3. `GuestDesk`: session creation, authentication and expiry, and the client's
   reaction to `session_reset`.

## 7. Running

```
tlc -config CaseFlowBatch.cfg MCCaseFlow.tla
tlc -config GraphChat.cfg MCGraphChat.tla
tlapm JudgeDeskProofs.tla
```

`PROJECT.json` maps each definition to the source lines it models and lists the
runs, the mutants, the findings, the hazards and the theorems.
