------------------------------ MODULE CaseFlow ------------------------------
(***************************************************************************)
(* The life of a case in one guest's workspaces: Gate 1 ingestion          *)
(* (ingestion.py), the comparison pipeline (pipeline.py), the case half of *)
(* the review action and Reset All (persistence.py), under concurrent      *)
(* requests.                                                               *)
(*                                                                         *)
(* Every transaction of persistence.py first locks the guest's session row *)
(* and refuses a workspace whose generation is not the session's current   *)
(* one, so the transactions of one guest are serialised: each is one       *)
(* action here.  What is not serialised is everything between two          *)
(* transactions of a request: provider calls, object-store writes, and     *)
(* the steps of every other request.                                       *)
(*                                                                         *)
(* A request is used once: it begins as an ingest, a comparison run or a   *)
(* review, and ends "returned" or "raised" (an exception, or nothing at    *)
(* all, reached its caller).  Rows a request appends carry its name.       *)
(***************************************************************************)
EXTENDS Naturals

CONSTANTS
  Requests,       \* the requests of one guest, each used once
  Emails,         \* the idempotency keys of the emails in the inbox
  Digests,        \* the versions of source bytes an email may arrive with
  NoDigest,       \* no receipt yet
  NoEmail,        \* the request is not working on an email
  MaxGeneration   \* bound: Reset All may run MaxGeneration - 1 times

ASSUME CaseFlowAssumption ==
  /\ MaxGeneration \in Nat \ {0}
  /\ NoDigest \notin Digests
  /\ NoEmail \notin Emails

VARIABLES
  generation,   \* guest_sessions.current_generation
  receipts,     \* ingestion_requests / email_receipts: digest by key
  sourceRows,   \* source_objects rows (shared by all workspaces)
  objects,      \* bytes held by the object store
  cases,        \* cases and their field_verdicts
  attempts,     \* classification_attempts rows
  compared,     \* CASE_COMPARED audit rows
  assignments,  \* state of the latest review_assignments row of a case
  actions,      \* review_actions rows of a case
  pc, ws, digest, todo, pending, cur   \* the requests' own state

caseVars == <<cases, attempts, compared, assignments, actions>>
bytesVars == <<receipts, sourceRows, objects>>
store == <<generation, caseVars, bytesVars>>
local == <<pc, ws, digest, todo, pending, cur>>
vars == <<store, local>>

-----------------------------------------------------------------------------
(* Values *)

Generations == 1..MaxGeneration

(* status OK with no verdicts is a draft-BL request with nothing attached; *)
(* NEEDS_REVIEW with verdicts is a compared scan held for a person.        *)
Statuses == {"NULL", "OK", "MISMATCH", "NEEDS_REVIEW"}
Verdicts == {"NONE", "CLEAR", "REVIEW"}

Cases == [state: {"ABSENT", "PENDING", "PROVIDER_FAILED", "BL_READY", "CLASSIFIED"},
          category: {"NULL", "BL_COMPARISON", "OTHER"},
          status: Statuses, verdicts: Verdicts, owner: BOOLEAN]

NoCase == [state |-> "ABSENT", category |-> "NULL", status |-> "NULL",
           verdicts |-> "NONE", owner |-> FALSE]

PendingCase == [NoCase EXCEPT !.state = "PENDING"]

AttemptOutcomes == {"SUCCEEDED", "PROVIDER_FAILED"}

IngestSteps == {"authorize", "store", "receipt", "ensure", "read", "classify",
                "record", "fail"}
CompareSteps == {"list", "load", "close", "decide", "judge"}
EndSteps == {"returned", "raised"}
Steps == {"new", "review"} \cup IngestSteps \cup CompareSteps \cup EndSteps

TypeOK ==
  /\ generation \in Generations
  /\ receipts \in [Generations -> [Emails -> Digests \cup {NoDigest}]]
  /\ sourceRows \subseteq Digests
  /\ objects \subseteq Digests
  /\ cases \in [Generations -> [Emails -> Cases]]
  /\ attempts \in [Generations -> [Emails -> SUBSET (Requests \X AttemptOutcomes)]]
  /\ compared \in [Generations -> [Emails -> SUBSET Requests]]
  /\ assignments \in [Generations -> [Emails -> {"NONE", "ASSIGNED", "RESOLVED"}]]
  /\ actions \in [Generations -> [Emails -> SUBSET Requests]]
  /\ pc \in [Requests -> Steps]
  /\ ws \in [Requests -> Generations]
  /\ digest \in [Requests -> Digests \cup {NoDigest}]
  /\ todo \in [Requests -> SUBSET Emails]
  /\ pending \in [Requests -> SUBSET Emails]
  /\ cur \in [Requests -> Emails \cup {NoEmail}]

Init ==
  /\ generation = 1
  /\ receipts = [g \in Generations |-> [e \in Emails |-> NoDigest]]
  /\ sourceRows = {}
  /\ objects = {}
  /\ cases = [g \in Generations |-> [e \in Emails |-> NoCase]]
  /\ attempts = [g \in Generations |-> [e \in Emails |-> {}]]
  /\ compared = [g \in Generations |-> [e \in Emails |-> {}]]
  /\ assignments = [g \in Generations |-> [e \in Emails |-> "NONE"]]
  /\ actions = [g \in Generations |-> [e \in Emails |-> {}]]
  /\ pc = [r \in Requests |-> "new"]
  /\ ws = [r \in Requests |-> 1]
  /\ digest = [r \in Requests |-> NoDigest]
  /\ todo = [r \in Requests |-> {}]
  /\ pending = [r \in Requests |-> {}]
  /\ cur = [r \in Requests |-> NoEmail]

-----------------------------------------------------------------------------
(* Guards shared by the transactions *)

(* Operators named "Mutant..." are plausible bugs; no specification uses    *)
(* them.  PROJECT.json says which definition each one stands in for.       *)
MutantActive(r) == ws[r] <= generation

(* _require_active_guest_workspace: the row lock and the generation match. *)
Active(r) == ws[r] = generation

MutantAwaitsProvider(c) == c.state \notin {"ABSENT", "CLASSIFIED"}

(* _lock_classification_case: the states that wait for a provider result.  *)
AwaitsProvider(c) == c.state \in {"PENDING", "PROVIDER_FAILED"}

MutantAwaitsComparison(c) == c.category = "BL_COMPARISON"

(* record_comparison_result: the cases that wait for a comparison.         *)
AwaitsComparison(c) == c.state = "BL_READY" /\ c.category = "BL_COMPARISON"

(* append_review_action: a case a person may dispose of.                   *)
OpenForReview(c) ==
  /\ c.state = "CLASSIFIED"
  /\ c.status = "NEEDS_REVIEW" \/ c.verdicts = "REVIEW"

Goto(r, step) == pc' = [pc EXCEPT ![r] = step]

(* Moving to the next email of the bundle, or to the provider call.        *)
NextEmail(left, waiting) ==
  IF left # {} THEN "authorize"
  ELSE IF waiting # {} THEN "classify" ELSE "returned"

(* The loop of run_pending: the next listed case, or the end of the batch. *)
NextCase(left) == IF left # {} THEN "load" ELSE "returned"

-----------------------------------------------------------------------------
(* Gate 1: InboxIngestionService.ingest *)

BeginIngest(r) ==
  /\ pc[r] = "new"
  /\ \E source \in (SUBSET Emails) \ {{}}, d \in Digests :
       /\ todo' = [todo EXCEPT ![r] = source]
       /\ digest' = [digest EXCEPT ![r] = d]
  /\ ws' = [ws EXCEPT ![r] = generation]
  /\ Goto(r, "authorize")
  /\ UNCHANGED <<store, pending, cur>>

(* persist_receipt checks the workspace before it writes any bytes ...     *)
(* (The order of the emails in the inbox is left open.)                    *)
Authorize(r) ==
  /\ pc[r] = "authorize"
  /\ Active(r)
  /\ \E e \in todo[r] : cur' = [cur EXCEPT ![r] = e]
  /\ Goto(r, "store")
  /\ UNCHANGED <<store, ws, digest, todo, pending>>

MutantStoreBytes(r) ==
  /\ pc[r] = "store"
  /\ Goto(r, "receipt")
  /\ UNCHANGED <<store, ws, digest, todo, pending, cur>>

(* ... puts the attachments in the object store outside any transaction .. *)
StoreBytes(r) ==
  /\ pc[r] = "store"
  /\ objects' = objects \cup {digest[r]}
  /\ Goto(r, "receipt")
  /\ UNCHANGED <<generation, receipts, sourceRows, caseVars,
                 ws, digest, todo, pending, cur>>

MutantPersistReceipt(r) ==
  /\ pc[r] = "receipt"
  /\ Active(r)
  /\ receipts' = [receipts EXCEPT ![ws[r]][cur[r]] = digest[r]]
  /\ sourceRows' = sourceRows \cup {digest[r]}
  /\ Goto(r, "ensure")
  /\ UNCHANGED <<generation, objects, caseVars, ws, digest, todo, pending, cur>>

(* ... and then reserves the idempotency key and inserts the email.        *)
PersistReceipt(r) ==
  /\ pc[r] = "receipt"
  /\ Active(r)
  /\ receipts[ws[r]][cur[r]] = NoDigest
  /\ receipts' = [receipts EXCEPT ![ws[r]][cur[r]] = digest[r]]
  /\ sourceRows' = sourceRows \cup {digest[r]}
  /\ Goto(r, "ensure")
  /\ UNCHANGED <<generation, objects, caseVars, ws, digest, todo, pending, cur>>

(* The key is taken: the same bytes replay, different bytes are refused.   *)
ReplayReceipt(r) ==
  /\ pc[r] = "receipt"
  /\ Active(r)
  /\ receipts[ws[r]][cur[r]] = digest[r]
  /\ Goto(r, "ensure")
  /\ UNCHANGED <<store, ws, digest, todo, pending, cur>>

RefuseReceipt(r) ==
  /\ pc[r] = "receipt"
  /\ Active(r)
  /\ receipts[ws[r]][cur[r]] \notin {NoDigest, digest[r]}
  /\ Goto(r, "raised")
  /\ UNCHANGED <<store, ws, digest, todo, pending, cur>>

(* ensure_classification_case: one pending shell per email.                *)
EnsureCase(r) ==
  /\ pc[r] = "ensure"
  /\ Active(r)
  /\ cases' = IF cases[ws[r]][cur[r]].state = "ABSENT"
              THEN [cases EXCEPT ![ws[r]][cur[r]] = PendingCase]
              ELSE cases
  /\ Goto(r, "read")
  /\ UNCHANGED <<generation, bytesVars, attempts, compared, assignments, actions,
                 ws, digest, todo, pending, cur>>

(* get_classification_state, in a transaction of its own: what is read     *)
(* here may be stale by the time the result is recorded.                   *)
ReadState(r) ==
  LET waiting == IF AwaitsProvider(cases[ws[r]][cur[r]])
                 THEN pending[r] \cup {cur[r]} ELSE pending[r]
      left == todo[r] \ {cur[r]}
  IN  /\ pc[r] = "read"
      /\ Active(r)
      /\ pending' = [pending EXCEPT ![r] = waiting]
      /\ todo' = [todo EXCEPT ![r] = left]
      /\ Goto(r, NextEmail(left, waiting))
      /\ UNCHANGED <<store, ws, digest, cur>>

(* One provider call for the whole batch: complete results, or a failure   *)
(* (an incomplete or mismatched answer counts as one).                     *)
Classify(r) ==
  /\ pc[r] = "classify"
  /\ \E answer \in {"record", "fail"} : Goto(r, answer)
  /\ todo' = [todo EXCEPT ![r] = pending[r]]
  /\ UNCHANGED <<store, ws, digest, pending, cur>>

(* record_classification_success, the case's row.                          *)
Classified(category) ==
  [state |-> IF category = "BL_COMPARISON" THEN "BL_READY" ELSE "CLASSIFIED",
   category |-> category,
   status |-> IF category = "BL_COMPARISON" THEN "NULL" ELSE "OK",
   verdicts |-> "NONE",
   owner |-> category = "BL_COMPARISON"]

(* record_classification_success, one transaction per item of the batch.   *)
RecordSuccess(r) ==
  /\ pc[r] = "record"
  /\ Active(r)
  /\ \E e \in todo[r], category \in {"BL_COMPARISON", "OTHER"} :
       /\ AwaitsProvider(cases[ws[r]][e])
       /\ cases' = [cases EXCEPT ![ws[r]][e] = Classified(category)]
       /\ attempts' = [attempts EXCEPT ![ws[r]][e] = @ \cup {<<r, "SUCCEEDED">>}]
       /\ todo' = [todo EXCEPT ![r] = @ \ {e}]
       /\ Goto(r, IF todo[r] = {e} THEN "returned" ELSE "record")
  /\ UNCHANGED <<generation, bytesVars, compared, assignments, actions,
                 ws, digest, pending, cur>>

MutantFailedCase(c) == [c EXCEPT !.state = "FAILED"]

FailedCase(c) == [c EXCEPT !.state = "PROVIDER_FAILED", !.category = "NULL",
                           !.status = "NULL"]

(* record_classification_failure, one transaction per item of the batch.   *)
RecordFailure(r) ==
  /\ pc[r] = "fail"
  /\ Active(r)
  /\ \E e \in todo[r] :
       /\ AwaitsProvider(cases[ws[r]][e])
       /\ cases' = [cases EXCEPT ![ws[r]][e] = FailedCase(@)]
       /\ attempts' = [attempts EXCEPT ![ws[r]][e] = @ \cup {<<r, "PROVIDER_FAILED">>}]
       /\ todo' = [todo EXCEPT ![r] = @ \ {e}]
       /\ Goto(r, IF todo[r] = {e} THEN "returned" ELSE "fail")
  /\ UNCHANGED <<generation, bytesVars, compared, assignments, actions,
                 ws, digest, pending, cur>>

(* Another ingest decided the case first: the rest of the batch is dropped.*)
RefuseResult(r) ==
  /\ pc[r] \in {"record", "fail"}
  /\ Active(r)
  /\ \E e \in todo[r] : ~AwaitsProvider(cases[ws[r]][e])
  /\ Goto(r, "raised")
  /\ UNCHANGED <<store, ws, digest, todo, pending, cur>>

-----------------------------------------------------------------------------
(* The comparison pipeline: ComparisonPipeline.run_pending and run_case *)

BeginCompare(r) ==
  /\ pc[r] = "new"
  /\ ws' = [ws EXCEPT ![r] = generation]
  /\ Goto(r, "list")
  /\ UNCHANGED <<store, digest, todo, pending, cur>>

ListReady(r) ==
  LET ready == {e \in Emails : cases[ws[r]][e].state = "BL_READY"}
  IN  /\ pc[r] = "list"
      /\ Active(r)
      /\ todo' = [todo EXCEPT ![r] = ready]
      /\ Goto(r, NextCase(ready))
      /\ UNCHANGED <<store, ws, digest, pending, cur>>

(* load_case_documents and the state check of run_case: a case settled     *)
(* since the listing, or a retired workspace, ends this case only.         *)
LoadCase(r) ==
  /\ pc[r] = "load"
  /\ \E e \in todo[r] :
       LET c == cases[ws[r]][e]
           left == todo[r] \ {e}
       IN  /\ todo' = [todo EXCEPT ![r] = left]
           /\ cur' = [cur EXCEPT ![r] = e]
           /\ \/ /\ Active(r) /\ c.state = "BL_READY" /\ c.owner
                 /\ \E step \in {"close", "decide"} : Goto(r, step)
              \/ /\ ~(Active(r) /\ c.state = "BL_READY" /\ c.owner)
                 /\ Goto(r, NextCase(left))
  /\ UNCHANGED <<store, ws, digest, pending>>

(* The analysis has ended; its role decisions and extraction events are    *)
(* appended in transactions of their own, whatever it found.               *)
RecordDecisions(r) ==
  /\ pc[r] = "decide"
  /\ Goto(r, IF Active(r) THEN "judge" ELSE NextCase(todo[r]))
  /\ UNCHANGED <<store, ws, digest, todo, pending, cur>>

MutantProviderGivesUp(r) ==
  /\ pc[r] = "judge"
  /\ todo' = [todo EXCEPT ![r] = @ \cup {cur[r]}]
  /\ Goto(r, "load")
  /\ UNCHANGED <<store, ws, digest, pending, cur>>

(* A provider failure leaves the case BL_READY for a later run.            *)
ProviderGivesUp(r) ==
  /\ pc[r] = "judge"
  /\ Goto(r, NextCase(todo[r]))
  /\ UNCHANGED <<store, ws, digest, todo, pending, cur>>

AwaitingDocuments == [status |-> "OK", verdicts |-> "NONE"]

(* structural_output, scan holds and comparison_output: a field in the     *)
(* review band is a MISMATCH of the batch view.                            *)
ComparisonOutcomes ==
  [status: {"OK"}, verdicts: {"CLEAR"}]
    \cup [status: {"MISMATCH"}, verdicts: {"CLEAR", "REVIEW"}]
    \cup [status: {"NEEDS_REVIEW"}, verdicts: {"NONE", "CLEAR", "REVIEW"}]

(* When run_case passes review_owner_id.                                   *)
AsksForReviewer(o) == o.status = "NEEDS_REVIEW" \/ o.verdicts = "REVIEW"

ComparedCase(c, o) ==
  [c EXCEPT !.state = "CLASSIFIED", !.status = o.status, !.verdicts = o.verdicts]

(* record_comparison_result.                                               *)
RecordComparison(r) ==
  LET e == cur[r]
      c == cases[ws[r]][e]
      outcomes == IF pc[r] = "close" THEN {AwaitingDocuments} ELSE ComparisonOutcomes
  IN  /\ pc[r] \in {"close", "judge"}
      /\ Active(r)
      /\ AwaitsComparison(c)
      /\ \E o \in outcomes :
           /\ cases' = [cases EXCEPT ![ws[r]][e] = ComparedCase(c, o)]
           /\ assignments' = IF AsksForReviewer(o)
                             THEN [assignments EXCEPT ![ws[r]][e] = "ASSIGNED"]
                             ELSE assignments
      /\ compared' = [compared EXCEPT ![ws[r]][e] = @ \cup {r}]
      /\ Goto(r, NextCase(todo[r]))
      /\ UNCHANGED <<generation, bytesVars, attempts, actions,
                     ws, digest, todo, pending, cur>>

(* The case was compared by another run, or the workspace was retired:     *)
(* run_pending skips the case or reports an ERROR run, and goes on.        *)
RefuseComparison(r) ==
  LET c == cases[ws[r]][cur[r]]
  IN  /\ pc[r] \in {"close", "judge"}
      /\ ~(Active(r) /\ AwaitsComparison(c))
      /\ Goto(r, NextCase(todo[r]))
      /\ UNCHANGED <<store, ws, digest, todo, pending, cur>>

-----------------------------------------------------------------------------
(* Review of a case: append_review_action with target_type CASE *)

BeginReview(r) ==
  /\ pc[r] = "new"
  /\ \E e \in Emails : cur' = [cur EXCEPT ![r] = e]
  /\ ws' = [ws EXCEPT ![r] = generation]
  /\ Goto(r, "review")
  /\ UNCHANGED <<store, digest, todo, pending>>

MutantMayDispose(g, e) == OpenForReview(cases[g][e])

(* append_review_action: an open case without an action.                   *)
MayDispose(g, e) == OpenForReview(cases[g][e]) /\ actions[g][e] = {}

(* A disposition closes the open assignment of the case.                   *)
Dispose(r) ==
  /\ pc[r] = "review"
  /\ Active(r)
  /\ MayDispose(ws[r], cur[r])
  /\ actions' = [actions EXCEPT ![ws[r]][cur[r]] = @ \cup {r}]
  /\ assignments' = IF assignments[ws[r]][cur[r]] = "ASSIGNED"
                    THEN [assignments EXCEPT ![ws[r]][cur[r]] = "RESOLVED"]
                    ELSE assignments
  /\ Goto(r, "returned")
  /\ UNCHANGED <<generation, bytesVars, cases, attempts, compared,
                 ws, digest, todo, pending, cur>>

RefuseReview(r) ==
  /\ pc[r] = "review"
  /\ Active(r)
  /\ ~MayDispose(ws[r], cur[r])
  /\ Goto(r, "raised")
  /\ UNCHANGED <<store, ws, digest, todo, pending, cur>>

-----------------------------------------------------------------------------
(* Reset, retired workspaces and crashes *)

(* reset_guest_namespace: the next generation, with an empty workspace.    *)
Reset ==
  /\ generation < MaxGeneration
  /\ generation' = generation + 1
  /\ UNCHANGED <<caseVars, bytesVars, local>>

(* A transaction of a retired workspace raises InactiveWorkspace.          *)
Retired(r) ==
  /\ pc[r] \in {"authorize", "receipt", "ensure", "read", "record", "fail",
                "list", "review"}
  /\ ~Active(r)
  /\ Goto(r, "raised")
  /\ UNCHANGED <<store, ws, digest, todo, pending, cur>>

(* The process dies, or the transaction it waits for is rolled back.       *)
Crash(r) ==
  /\ pc[r] \notin EndSteps \cup {"new"}
  /\ Goto(r, "raised")
  /\ UNCHANGED <<store, ws, digest, todo, pending, cur>>

-----------------------------------------------------------------------------
(* Specification *)

Ingest(r) ==
  \/ Authorize(r) \/ StoreBytes(r)
  \/ PersistReceipt(r) \/ ReplayReceipt(r) \/ RefuseReceipt(r)
  \/ EnsureCase(r) \/ ReadState(r) \/ Classify(r)
  \/ RecordSuccess(r) \/ RecordFailure(r) \/ RefuseResult(r)

Compare(r) ==
  \/ ListReady(r) \/ LoadCase(r) \/ RecordDecisions(r) \/ ProviderGivesUp(r)
  \/ RecordComparison(r) \/ RefuseComparison(r)

Review(r) == Dispose(r) \/ RefuseReview(r)

Progress(r) == Ingest(r) \/ Compare(r) \/ Review(r) \/ Retired(r)

Begin(r) == BeginIngest(r) \/ BeginCompare(r) \/ BeginReview(r)

(* Every request has ended: the guest has closed the page.                 *)
Finished ==
  /\ \A r \in Requests : pc[r] \in EndSteps
  /\ UNCHANGED vars

Next ==
  \/ \E r \in Requests : Begin(r) \/ Progress(r) \/ Crash(r)
  \/ Reset
  \/ Finished

Spec == Init /\ [][Next]_vars

(* A started request keeps running: the event loop schedules it, and every *)
(* call it awaits answers, times out or raises.                            *)
FairSpec == Spec /\ \A r \in Requests : WF_vars(Progress(r))

-----------------------------------------------------------------------------
(* Properties *)

(* The rows of a case agree with each other in the way the table's CHECK   *)
(* constraints demand (ck_cases_classification_evidence): no handler       *)
(* leaves a category, a status or verdicts behind that the state denies,   *)
(* so no transaction of a legal request is refused by the database.        *)
CaseShape(c) ==
  /\ c.state \in {"ABSENT", "PENDING", "PROVIDER_FAILED"} =>
       c.category = "NULL" /\ c.status = "NULL" /\ c.verdicts = "NONE"
  /\ c.state = "BL_READY" =>
       /\ c.category = "BL_COMPARISON" /\ c.owner
       /\ c.status = "NULL" /\ c.verdicts = "NONE"
  /\ c.state = "CLASSIFIED" =>
       /\ c.category # "NULL" /\ c.status # "NULL"
       /\ c.category = "BL_COMPARISON" => c.owner
  /\ c.category = "OTHER" => c.status = "OK" /\ c.verdicts = "NONE"

EvidenceShape == \A g \in Generations, e \in Emails : CaseShape(cases[g][e])

(* However many ingests race on an email, one and only one of them records *)
(* its category: there is a SUCCEEDED attempt exactly when the case has    *)
(* left the waiting states, and no second one ever.                        *)
Wins(g, e) == {r \in Requests : <<r, "SUCCEEDED">> \in attempts[g][e]}

ClassifiedOnce(g, e) ==
  /\ (Wins(g, e) # {}) <=> (cases[g][e].state \in {"BL_READY", "CLASSIFIED"})
  /\ \A r, s \in Wins(g, e) : r = s

OneClassification == \A g \in Generations, e \in Emails : ClassifiedOnce(g, e)

(* However many runs compare a case, one and only one result is recorded,  *)
(* and only a BL_COMPARISON case that left BL_READY has one.               *)
ComparedOnce(g, e) ==
  /\ (compared[g][e] # {}) <=>
       /\ cases[g][e].state = "CLASSIFIED"
       /\ cases[g][e].category = "BL_COMPARISON"
  /\ \A r, s \in compared[g][e] : r = s

OneComparison == \A g \in Generations, e \in Emails : ComparedOnce(g, e)

(* A case held for review has an owner and an open assignment until one    *)
(* reviewer disposes of it, and a closed one afterwards; a case that is    *)
(* not held never has either.                                              *)
AnsweredOnce(g, e) ==
  LET held == OpenForReview(cases[g][e])
  IN  /\ held => cases[g][e].owner
      /\ assignments[g][e] = IF ~held THEN "NONE"
                             ELSE IF actions[g][e] = {} THEN "ASSIGNED" ELSE "RESOLVED"
      /\ actions[g][e] # {} => held
      /\ \A r, s \in actions[g][e] : r = s

HeldUntilDisposed == \A g \in Generations, e \in Emails : AnsweredOnce(g, e)

(* The database never names bytes the object store does not hold.          *)
RowsHaveBytes ==
  /\ sourceRows \subseteq objects
  /\ \A g \in Generations, e \in Emails :
       receipts[g][e] # NoDigest => receipts[g][e] \in sourceRows

(* A case exists only for an email that was received.                      *)
CasesHaveReceipts ==
  \A g \in Generations, e \in Emails :
    cases[g][e].state # "ABSENT" => receipts[g][e] # NoDigest

(* A case can always be traced to its source: its email was received, and  *)
(* the bytes its receipt and source row name are in the object store,      *)
(* although these are written in separate steps with crashes in between    *)
(* and a source row is shared by every workspace.                          *)
NoDanglingRows == RowsHaveBytes /\ CasesHaveReceipts

(* What Reset All leaves behind is frozen: no request that was in flight   *)
(* writes into a retired workspace, and none writes ahead into a           *)
(* generation that does not exist yet.                                     *)
Row(g) == <<receipts[g], cases[g], attempts[g], compared[g], assignments[g], actions[g]>>

OtherGenerationsFrozen ==
  [][\A g \in Generations : g # generation => Row(g)' = Row(g)]_vars

(* Decisions are final: a receipt keeps its bytes, a case its category and *)
(* owner, and a CLASSIFIED case its status and verdicts.                   *)
DecisionsFinal ==
  [][\A g \in Generations, e \in Emails :
       LET c == cases[g][e]
           d == cases[g][e]'
       IN  /\ receipts[g][e] # NoDigest => receipts[g][e]' = receipts[g][e]
           /\ c.category # "NULL" => d.category = c.category /\ d.owner = c.owner
           /\ c.state = "CLASSIFIED" => d = c]_vars

(* Every request that began ends: no loop of ingest or run_pending waits   *)
(* for something that another request or a reset has made impossible.      *)
RequestsEnd ==
  \A r \in Requests : pc[r] # "new" ~> pc[r] \in EndSteps

=============================================================================
