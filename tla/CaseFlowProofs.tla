--------------------------- MODULE CaseFlowProofs ---------------------------
(***************************************************************************)
(* Proofs about CaseFlow, for any numbers of requests, emails, digests and *)
(* generations.  The invariants of CaseFlow are inductive together, once   *)
(* it is known what a request has established when it reaches a step       *)
(* (RequestsKnow).                                                         *)
(***************************************************************************)
EXTENDS CaseFlow, TLAPS

(* What a request's program counter promises about the store: it works on  *)
(* an email, the bytes it is about to name are in the object store, and    *)
(* the email whose case it is about to create has been received.           *)
RequestsKnow ==
  \A r \in Requests :
    /\ pc[r] \in {"store", "receipt", "ensure", "read", "close", "decide", "judge",
                  "review"} => cur[r] \in Emails
    /\ pc[r] \in {"authorize", "store", "receipt", "ensure", "read"} => digest[r] \in Digests
    /\ pc[r] = "receipt" => digest[r] \in objects
    /\ pc[r] = "ensure" => receipts[ws[r]][cur[r]] # NoDigest

(* The inductive invariant.                                                *)
IInv ==
  /\ TypeOK /\ RequestsKnow
  /\ EvidenceShape /\ OneClassification /\ OneComparison /\ HeldUntilDisposed
  /\ RowsHaveBytes /\ CasesHaveReceipts

-----------------------------------------------------------------------------
(* Types *)

(* The initial state is well typed.                                        *)
LEMMA InitTypeOK == Init => TypeOK
  BY CaseFlowAssumption DEF Init, TypeOK, Generations, NoCase, Cases, Statuses, Verdicts, Steps

(* Every action keeps the types, given what the requests know.             *)
LEMMA StepTypeOK == TypeOK /\ RequestsKnow /\ [Next]_vars => TypeOK'
<1> SUFFICES ASSUME TypeOK, RequestsKnow, [Next]_vars PROVE TypeOK'
    OBVIOUS
<1>1. CASE UNCHANGED vars
    BY <1>1 DEF TypeOK, vars, store, local, caseVars, bytesVars
<1>2. ASSUME NEW r \in Requests, Begin(r) \/ Progress(r) \/ Crash(r) PROVE TypeOK'
    <2>1. CASE BeginIngest(r)
      BY <2>1
      DEF TypeOK, BeginIngest, Goto, Steps, IngestSteps, CompareSteps, EndSteps, store, caseVars, bytesVars
    <2>2. CASE BeginCompare(r)
      BY <2>2
      DEF TypeOK, BeginCompare, Goto, Steps, IngestSteps, CompareSteps, EndSteps, store, caseVars, bytesVars
    <2>3. CASE BeginReview(r)
      BY <2>3
      DEF TypeOK, BeginReview, Goto, Steps, IngestSteps, CompareSteps, EndSteps, store, caseVars, bytesVars
    <2>4. CASE Authorize(r)
      BY <2>4
      DEF TypeOK, Authorize, Goto, Steps, IngestSteps, CompareSteps, EndSteps, store, caseVars, bytesVars
    <2>5. CASE StoreBytes(r)
      BY <2>5
      DEF TypeOK, RequestsKnow, StoreBytes, Goto, Steps, IngestSteps, CompareSteps, EndSteps, caseVars
    <2>6. CASE PersistReceipt(r)
      BY <2>6
      DEF TypeOK, RequestsKnow, PersistReceipt, Goto, Steps, IngestSteps, CompareSteps, EndSteps, caseVars
    <2>7. CASE ReplayReceipt(r)
      BY <2>7
      DEF TypeOK, ReplayReceipt, Goto, Steps, IngestSteps, CompareSteps, EndSteps, store, caseVars, bytesVars
    <2>8. CASE RefuseReceipt(r)
      BY <2>8
      DEF TypeOK, RefuseReceipt, Goto, Steps, IngestSteps, CompareSteps, EndSteps, store, caseVars, bytesVars
    <2>9. CASE EnsureCase(r)
      BY <2>9
      DEF TypeOK, RequestsKnow, EnsureCase, Goto, Steps, IngestSteps, CompareSteps, EndSteps, bytesVars,
          PendingCase, NoCase, Cases, Statuses, Verdicts
    <2>10. CASE ReadState(r)
      BY <2>10
      DEF TypeOK, RequestsKnow, ReadState, Goto, Steps, IngestSteps, CompareSteps, EndSteps, store, caseVars, bytesVars,
          NextEmail
    <2>11. CASE Classify(r)
      BY <2>11
      DEF TypeOK, Classify, Goto, Steps, IngestSteps, CompareSteps, EndSteps, store, caseVars, bytesVars
    <2>12. CASE RecordSuccess(r)
      BY <2>12
      DEF TypeOK, RecordSuccess, Goto, Steps, IngestSteps, CompareSteps, EndSteps, bytesVars,
          Classified, Cases, Statuses, Verdicts, AttemptOutcomes
    <2>13. CASE RecordFailure(r)
      <3>1. PICK e \in todo[r] :
              /\ cases' = [cases EXCEPT ![ws[r]][e] = FailedCase(cases[ws[r]][e])]
              /\ attempts' = [attempts EXCEPT ![ws[r]][e] =
                               attempts[ws[r]][e] \cup {<<r, "PROVIDER_FAILED">>}]
              /\ todo' = [todo EXCEPT ![r] = todo[r] \ {e}]
              /\ Goto(r, IF todo[r] = {e} THEN "returned" ELSE "fail")
        BY <2>13 DEF RecordFailure
      <3>2. ws[r] \in Generations /\ e \in Emails /\ cases[ws[r]][e] \in Cases
        BY DEF TypeOK
      <3>3. FailedCase(cases[ws[r]][e]) \in Cases
        BY <3>2 DEF FailedCase, Cases, Statuses
      <3> QED
        BY <2>13, <3>1, <3>2, <3>3
        DEF TypeOK, RecordFailure, Goto, Steps, IngestSteps, EndSteps, bytesVars, AttemptOutcomes
    <2>14. CASE RefuseResult(r)
      BY <2>14
      DEF TypeOK, RefuseResult, Goto, Steps, IngestSteps, CompareSteps, EndSteps, store, caseVars, bytesVars
    <2>15. CASE ListReady(r)
      BY <2>15
      DEF TypeOK, ListReady, Goto, Steps, IngestSteps, CompareSteps, EndSteps, store, caseVars, bytesVars,
          NextCase
    <2>16. CASE LoadCase(r)
      <3>1. PICK e \in todo[r] :
              /\ todo' = [todo EXCEPT ![r] = todo[r] \ {e}]
              /\ cur' = [cur EXCEPT ![r] = e]
              /\ \E step \in {"close", "decide", NextCase(todo[r] \ {e})} : Goto(r, step)
        BY <2>16 DEF LoadCase
      <3> QED
        BY <2>16, <3>1
        DEF TypeOK, LoadCase, Goto, NextCase, Steps, CompareSteps, EndSteps,
            store, caseVars, bytesVars
    <2>17. CASE RecordDecisions(r)
      BY <2>17
      DEF TypeOK, RecordDecisions, Goto, Steps, IngestSteps, CompareSteps, EndSteps, store, caseVars, bytesVars,
          NextCase
    <2>18. CASE ProviderGivesUp(r)
      BY <2>18
      DEF TypeOK, ProviderGivesUp, Goto, Steps, IngestSteps, CompareSteps, EndSteps, store, caseVars, bytesVars,
          NextCase
    <2>19. CASE RecordComparison(r)
      <3>1. ws[r] \in Generations /\ cur[r] \in Emails
        BY <2>19 DEF TypeOK, RequestsKnow, RecordComparison
      <3>2. PICK o \in ComparisonOutcomes \cup {AwaitingDocuments} :
              /\ cases' = [cases EXCEPT ![ws[r]][cur[r]] = ComparedCase(cases[ws[r]][cur[r]], o)]
              /\ \/ assignments' = [assignments EXCEPT ![ws[r]][cur[r]] = "ASSIGNED"]
                 \/ assignments' = assignments
        BY <2>19 DEF RecordComparison
      <3>3. ComparedCase(cases[ws[r]][cur[r]], o) \in Cases
        <4>1. o.status \in Statuses /\ o.verdicts \in Verdicts
          BY DEF ComparisonOutcomes, AwaitingDocuments, Statuses, Verdicts
        <4>2. cases[ws[r]][cur[r]] \in Cases
          BY <3>1 DEF TypeOK
        <4> QED
          BY <4>1, <4>2 DEF ComparedCase, Cases
      <3> QED
        BY <2>19, <3>1, <3>2, <3>3
        DEF TypeOK, RecordComparison, Goto, NextCase, Steps, CompareSteps, EndSteps, bytesVars
    <2>20. CASE RefuseComparison(r)
      BY <2>20
      DEF TypeOK, RefuseComparison, Goto, Steps, IngestSteps, CompareSteps, EndSteps, store, caseVars, bytesVars,
          NextCase
    <2>21. CASE Dispose(r)
      BY <2>21
      DEF TypeOK, RequestsKnow, Dispose, Goto, Steps, IngestSteps, CompareSteps, EndSteps, bytesVars
    <2>22. CASE RefuseReview(r)
      BY <2>22
      DEF TypeOK, RefuseReview, Goto, Steps, IngestSteps, CompareSteps, EndSteps, store, caseVars, bytesVars
    <2>23. CASE Retired(r)
      BY <2>23
      DEF TypeOK, Retired, Goto, Steps, IngestSteps, CompareSteps, EndSteps, store, caseVars, bytesVars
    <2>24. CASE Crash(r)
      BY <2>24
      DEF TypeOK, Crash, Goto, Steps, IngestSteps, CompareSteps, EndSteps, store, caseVars, bytesVars
    <2> QED
      BY <1>2, <2>1, <2>2, <2>3, <2>4, <2>5, <2>6, <2>7, <2>8, <2>9, <2>10, <2>11,
         <2>12, <2>13, <2>14, <2>15, <2>16, <2>17, <2>18, <2>19, <2>20,
         <2>21, <2>22, <2>23, <2>24
      DEF Begin, Progress, Ingest, Compare, Review
<1>3. CASE Reset
    BY <1>3, CaseFlowAssumption DEF TypeOK, Reset, Generations, caseVars, bytesVars, local
<1>4. CASE Finished
    BY <1>4, <1>1 DEF Finished
<1> QED
    BY <1>1, <1>2, <1>3, <1>4 DEF Next

-----------------------------------------------------------------------------
(* What the requests know *)

(* No step of any request takes from another what it has established:      *)
(* bytes and receipts only ever grow.                                      *)
LEMMA StepRequestsKnow == TypeOK /\ RequestsKnow /\ [Next]_vars => RequestsKnow'
<1> SUFFICES ASSUME TypeOK, RequestsKnow, [Next]_vars PROVE RequestsKnow'
    OBVIOUS
<1>1. CASE UNCHANGED vars
    BY <1>1 DEF RequestsKnow, vars, store, local, caseVars, bytesVars
<1>2. ASSUME NEW r \in Requests, Begin(r) \/ Progress(r) \/ Crash(r) PROVE RequestsKnow'
    <2>1. CASE BeginIngest(r)
      BY <2>1
      DEF TypeOK, RequestsKnow, BeginIngest, Goto, EndSteps, store, caseVars, bytesVars
    <2>2. CASE BeginCompare(r)
      BY <2>2
      DEF TypeOK, RequestsKnow, BeginCompare, Goto, EndSteps, store, caseVars, bytesVars
    <2>3. CASE BeginReview(r)
      BY <2>3
      DEF TypeOK, RequestsKnow, BeginReview, Goto, EndSteps, store, caseVars, bytesVars
    <2>4. CASE Authorize(r)
      BY <2>4
      DEF TypeOK, RequestsKnow, Authorize, Goto, EndSteps, store, caseVars, bytesVars
    <2>5. CASE StoreBytes(r)
      BY <2>5
      DEF TypeOK, RequestsKnow, StoreBytes, Goto, EndSteps, caseVars
    <2>6. CASE PersistReceipt(r)
      BY <2>6, CaseFlowAssumption
      DEF TypeOK, RequestsKnow, PersistReceipt, Goto, EndSteps, caseVars
    <2>7. CASE ReplayReceipt(r)
      BY <2>7, CaseFlowAssumption
      DEF TypeOK, RequestsKnow, ReplayReceipt, Goto, EndSteps, store, caseVars, bytesVars
    <2>8. CASE RefuseReceipt(r)
      BY <2>8
      DEF TypeOK, RequestsKnow, RefuseReceipt, Goto, EndSteps, store, caseVars, bytesVars
    <2>9. CASE EnsureCase(r)
      BY <2>9
      DEF TypeOK, RequestsKnow, EnsureCase, Goto, EndSteps, bytesVars
    <2>10. CASE ReadState(r)
      BY <2>10
      DEF TypeOK, RequestsKnow, ReadState, Goto, EndSteps, store, caseVars, bytesVars, NextEmail
    <2>11. CASE Classify(r)
      BY <2>11
      DEF TypeOK, RequestsKnow, Classify, Goto, EndSteps, store, caseVars, bytesVars
    <2>12. CASE RecordSuccess(r)
      BY <2>12
      DEF TypeOK, RequestsKnow, RecordSuccess, Goto, EndSteps, bytesVars
    <2>13. CASE RecordFailure(r)
      BY <2>13
      DEF TypeOK, RequestsKnow, RecordFailure, Goto, EndSteps, bytesVars
    <2>14. CASE RefuseResult(r)
      BY <2>14
      DEF TypeOK, RequestsKnow, RefuseResult, Goto, EndSteps, store, caseVars, bytesVars
    <2>15. CASE ListReady(r)
      BY <2>15
      DEF TypeOK, RequestsKnow, ListReady, Goto, EndSteps, store, caseVars, bytesVars, NextCase
    <2>16. CASE LoadCase(r)
      BY <2>16
      DEF TypeOK, RequestsKnow, LoadCase, Goto, EndSteps, store, caseVars, bytesVars, NextCase
    <2>17. CASE RecordDecisions(r)
      BY <2>17
      DEF TypeOK, RequestsKnow, RecordDecisions, Goto, EndSteps, store, caseVars, bytesVars, NextCase
    <2>18. CASE ProviderGivesUp(r)
      BY <2>18
      DEF TypeOK, RequestsKnow, ProviderGivesUp, Goto, EndSteps, store, caseVars, bytesVars, NextCase
    <2>19. CASE RecordComparison(r)
      BY <2>19
      DEF TypeOK, RequestsKnow, RecordComparison, Goto, EndSteps, bytesVars, NextCase
    <2>20. CASE RefuseComparison(r)
      BY <2>20
      DEF TypeOK, RequestsKnow, RefuseComparison, Goto, EndSteps, store, caseVars, bytesVars, NextCase
    <2>21. CASE Dispose(r)
      BY <2>21
      DEF TypeOK, RequestsKnow, Dispose, Goto, EndSteps, bytesVars
    <2>22. CASE RefuseReview(r)
      BY <2>22
      DEF TypeOK, RequestsKnow, RefuseReview, Goto, EndSteps, store, caseVars, bytesVars
    <2>23. CASE Retired(r)
      BY <2>23
      DEF TypeOK, RequestsKnow, Retired, Goto, EndSteps, store, caseVars, bytesVars
    <2>24. CASE Crash(r)
      BY <2>24
      DEF TypeOK, RequestsKnow, Crash, Goto, EndSteps, store, caseVars, bytesVars
    <2> QED
      BY <1>2, <2>1, <2>2, <2>3, <2>4, <2>5, <2>6, <2>7, <2>8, <2>9, <2>10, <2>11,
         <2>12, <2>13, <2>14, <2>15, <2>16, <2>17, <2>18, <2>19, <2>20,
         <2>21, <2>22, <2>23, <2>24
      DEF Begin, Progress, Ingest, Compare, Review
<1>3. CASE Reset
    BY <1>3 DEF RequestsKnow, Reset, caseVars, bytesVars, local
<1>4. CASE Finished
    BY <1>4, <1>1 DEF Finished
<1> QED
    BY <1>1, <1>2, <1>3, <1>4 DEF Next

-----------------------------------------------------------------------------
(* The steps that write *)

(* Five transactions write the cases and what hangs on them ...            *)
LEMMA CaseWriters ==
  [Next]_vars =>
    \/ \E r \in Requests : \/ EnsureCase(r) \/ RecordSuccess(r) \/ RecordFailure(r)
                           \/ RecordComparison(r) \/ Dispose(r)
    \/ UNCHANGED caseVars
<1> SUFFICES ASSUME [Next]_vars,
                    \A r \in Requests : ~(\/ EnsureCase(r) \/ RecordSuccess(r) \/ RecordFailure(r)
                                         \/ RecordComparison(r) \/ Dispose(r))
             PROVE  UNCHANGED caseVars
    OBVIOUS
<1>1. CASE UNCHANGED vars
    BY <1>1 DEF vars, store
<1>2. CASE Reset
    BY <1>2 DEF Reset
<1>3. ASSUME NEW r \in Requests, Begin(r) \/ Progress(r) \/ Crash(r) PROVE UNCHANGED caseVars
    BY <1>3 DEF Begin, Progress, Ingest, Compare, Review, store, bytesVars, BeginIngest,
       BeginCompare, BeginReview, Authorize, StoreBytes, PersistReceipt, ReplayReceipt,
       RefuseReceipt, ReadState, Classify, RefuseResult, ListReady, LoadCase,
       RecordDecisions, ProviderGivesUp, RefuseComparison, RefuseReview, Retired, Crash
<1> QED
    BY <1>1, <1>2, <1>3 DEF Next, Finished

(* ... and two write the bytes and the receipts.                           *)
LEMMA BytesWriters ==
  [Next]_vars =>
    \/ \E r \in Requests : StoreBytes(r) \/ PersistReceipt(r)
    \/ UNCHANGED bytesVars
<1> SUFFICES ASSUME [Next]_vars, \A r \in Requests : ~(StoreBytes(r) \/ PersistReceipt(r))
             PROVE  UNCHANGED bytesVars
    OBVIOUS
<1>1. CASE UNCHANGED vars
    BY <1>1 DEF vars, store
<1>2. CASE Reset
    BY <1>2 DEF Reset
<1>3. ASSUME NEW r \in Requests, Begin(r) \/ Progress(r) \/ Crash(r) PROVE UNCHANGED bytesVars
    BY <1>3 DEF Begin, Progress, Ingest, Compare, Review, store, BeginIngest,
       BeginCompare, BeginReview, Authorize, ReplayReceipt, RefuseReceipt, EnsureCase,
       ReadState, Classify, RecordSuccess, RecordFailure, RefuseResult, ListReady, LoadCase,
       RecordDecisions, ProviderGivesUp, RecordComparison, RefuseComparison, Dispose,
       RefuseReview, Retired, Crash
<1> QED
    BY <1>1, <1>2, <1>3 DEF Next, Finished

-----------------------------------------------------------------------------
(* The invariants of the cases *)

(* What a writer leaves alone: everything but the case it writes.          *)
OthersKept(r, e) ==
  \A g \in Generations, f \in Emails : g # ws[r] \/ f # e =>
    /\ cases'[g][f] = cases[g][f] /\ attempts'[g][f] = attempts[g][f]
    /\ compared'[g][f] = compared[g][f]
    /\ assignments'[g][f] = assignments[g][f] /\ actions'[g][f] = actions[g][f]

(* What each writer does to its case.                                      *)
Shelled(r, e) ==
  /\ EnsureCase(r) /\ e = cur[r]
  /\ cases'[ws[r]][e] = IF cases[ws[r]][e].state = "ABSENT"
                        THEN PendingCase ELSE cases[ws[r]][e]
  /\ UNCHANGED <<attempts, compared, assignments, actions>>

Succeeded(r, e) ==
  /\ AwaitsProvider(cases[ws[r]][e])
  /\ \E c \in {"BL_COMPARISON", "OTHER"} : cases'[ws[r]][e] = Classified(c)
  /\ attempts'[ws[r]][e] = attempts[ws[r]][e] \cup {<<r, "SUCCEEDED">>}
  /\ UNCHANGED <<compared, assignments, actions>>

Failed(r, e) ==
  /\ AwaitsProvider(cases[ws[r]][e])
  /\ cases'[ws[r]][e] = FailedCase(cases[ws[r]][e])
  /\ attempts'[ws[r]][e] = attempts[ws[r]][e] \cup {<<r, "PROVIDER_FAILED">>}
  /\ UNCHANGED <<compared, assignments, actions>>

Compared(r, e) ==
  /\ AwaitsComparison(cases[ws[r]][e])
  /\ \E o \in ComparisonOutcomes \cup {AwaitingDocuments} :
       /\ cases'[ws[r]][e] = ComparedCase(cases[ws[r]][e], o)
       /\ assignments'[ws[r]][e] = IF AsksForReviewer(o) THEN "ASSIGNED"
                                   ELSE assignments[ws[r]][e]
  /\ compared'[ws[r]][e] = compared[ws[r]][e] \cup {r}
  /\ UNCHANGED <<attempts, actions>>

Disposed(r, e) ==
  /\ MayDispose(ws[r], e)
  /\ actions'[ws[r]][e] = actions[ws[r]][e] \cup {r}
  /\ assignments'[ws[r]][e] = IF assignments[ws[r]][e] = "ASSIGNED"
                              THEN "RESOLVED" ELSE assignments[ws[r]][e]
  /\ UNCHANGED <<cases, attempts, compared>>

CaseWrite(r, e) ==
  \/ Shelled(r, e) \/ Succeeded(r, e) \/ Failed(r, e)
  \/ Compared(r, e) \/ Disposed(r, e)

(* Every writer writes one case, and writes it in the current generation.  *)
LEMMA WritesOneCase ==
  ASSUME TypeOK, RequestsKnow, NEW r \in Requests,
         \/ EnsureCase(r) \/ RecordSuccess(r) \/ RecordFailure(r)
         \/ RecordComparison(r) \/ Dispose(r)
  PROVE  \E e \in Emails : ws[r] = generation /\ OthersKept(r, e) /\ CaseWrite(r, e)
<1>1. CASE EnsureCase(r)
  <2>1. cur[r] \in Emails /\ ws[r] = generation
    BY <1>1 DEF EnsureCase, RequestsKnow, Active
  <2>2. OthersKept(r, cur[r])
    BY <1>1, <2>1 DEF EnsureCase, OthersKept, TypeOK
  <2>3. Shelled(r, cur[r])
    BY <1>1, <2>1 DEF EnsureCase, Shelled, TypeOK
  <2> QED
    BY <2>1, <2>2, <2>3 DEF CaseWrite
<1>2. CASE RecordSuccess(r)
  <2>1. PICK e \in todo[r], category \in {"BL_COMPARISON", "OTHER"} :
          /\ AwaitsProvider(cases[ws[r]][e])
          /\ cases' = [cases EXCEPT ![ws[r]][e] = Classified(category)]
          /\ attempts' = [attempts EXCEPT ![ws[r]][e] =
                           attempts[ws[r]][e] \cup {<<r, "SUCCEEDED">>}]
    BY <1>2 DEF RecordSuccess
  <2>2. e \in Emails /\ ws[r] \in Generations /\ ws[r] = generation
    BY <1>2 DEF RecordSuccess, TypeOK, Active
  <2>3. UNCHANGED <<compared, assignments, actions>>
    BY <1>2 DEF RecordSuccess
  <2>4. OthersKept(r, e)
    BY <2>1, <2>2, <2>3 DEF OthersKept, TypeOK
  <2>5. Succeeded(r, e)
    BY <2>1, <2>2, <2>3 DEF Succeeded, TypeOK
  <2> QED
    BY <2>2, <2>4, <2>5 DEF CaseWrite
<1>3. CASE RecordFailure(r)
  <2>1. PICK e \in todo[r] :
          /\ AwaitsProvider(cases[ws[r]][e])
          /\ cases' = [cases EXCEPT ![ws[r]][e] = FailedCase(cases[ws[r]][e])]
          /\ attempts' = [attempts EXCEPT ![ws[r]][e] =
                           attempts[ws[r]][e] \cup {<<r, "PROVIDER_FAILED">>}]
    BY <1>3 DEF RecordFailure
  <2>2. e \in Emails /\ ws[r] \in Generations /\ ws[r] = generation
    BY <1>3 DEF RecordFailure, TypeOK, Active
  <2>3. UNCHANGED <<compared, assignments, actions>>
    BY <1>3 DEF RecordFailure
  <2>4. OthersKept(r, e)
    BY <2>1, <2>2, <2>3 DEF OthersKept, TypeOK
  <2>5. Failed(r, e)
    BY <2>1, <2>2, <2>3 DEF Failed, TypeOK
  <2> QED
    BY <2>2, <2>4, <2>5 DEF CaseWrite
<1>4. CASE RecordComparison(r)
  <2>1. cur[r] \in Emails /\ ws[r] \in Generations /\ ws[r] = generation
    BY <1>4 DEF RecordComparison, RequestsKnow, Active, TypeOK
  <2>2. PICK o \in ComparisonOutcomes \cup {AwaitingDocuments} :
          /\ cases' = [cases EXCEPT ![ws[r]][cur[r]] =
                         ComparedCase(cases[ws[r]][cur[r]], o)]
          /\ assignments' = IF AsksForReviewer(o)
                            THEN [assignments EXCEPT ![ws[r]][cur[r]] = "ASSIGNED"]
                            ELSE assignments
    BY <1>4 DEF RecordComparison
  <2>3. /\ AwaitsComparison(cases[ws[r]][cur[r]])
        /\ compared' = [compared EXCEPT ![ws[r]][cur[r]] =
                          compared[ws[r]][cur[r]] \cup {r}]
        /\ UNCHANGED <<attempts, actions>>
    BY <1>4 DEF RecordComparison
  <2>4. OthersKept(r, cur[r])
    BY <2>1, <2>2, <2>3 DEF OthersKept, TypeOK
  <2>5. Compared(r, cur[r])
    <3>1. cases'[ws[r]][cur[r]] = ComparedCase(cases[ws[r]][cur[r]], o)
      BY <2>1, <2>2 DEF TypeOK
    <3>2. assignments'[ws[r]][cur[r]] = IF AsksForReviewer(o) THEN "ASSIGNED"
                                        ELSE assignments[ws[r]][cur[r]]
      BY <2>1, <2>2 DEF TypeOK
    <3>3. compared'[ws[r]][cur[r]] = compared[ws[r]][cur[r]] \cup {r}
      BY <2>1, <2>3 DEF TypeOK
    <3> QED
      BY <2>3, <3>1, <3>2, <3>3 DEF Compared
  <2> QED
    BY <2>1, <2>4, <2>5 DEF CaseWrite
<1>5. CASE Dispose(r)
  <2>1. cur[r] \in Emails /\ ws[r] \in Generations /\ ws[r] = generation
    BY <1>5 DEF Dispose, RequestsKnow, Active, TypeOK
  <2>2. OthersKept(r, cur[r])
    BY <1>5, <2>1 DEF Dispose, OthersKept, TypeOK
  <2>3. Disposed(r, cur[r])
    BY <1>5, <2>1 DEF Dispose, Disposed, TypeOK
  <2> QED
    BY <2>1, <2>2, <2>3 DEF CaseWrite
<1> QED
    BY <1>1, <1>2, <1>3, <1>4, <1>5

(* A step that writes no case keeps every invariant of the cases.          *)
LEMMA CaseSteps ==
  ASSUME TypeOK, RequestsKnow, [Next]_vars
  PROVE  \/ UNCHANGED caseVars
         \/ \E r \in Requests, e \in Emails :
              ws[r] = generation /\ OthersKept(r, e) /\ CaseWrite(r, e)
  BY CaseWriters, WritesOneCase

(* Writing a case keeps its rows in agreement.                             *)
LEMMA StepEvidenceShape ==
  TypeOK /\ RequestsKnow /\ EvidenceShape /\ [Next]_vars => EvidenceShape'
<1> SUFFICES ASSUME TypeOK, RequestsKnow, EvidenceShape, [Next]_vars,
                    NEW g \in Generations, NEW f \in Emails
             PROVE  CaseShape(cases'[g][f])
    BY DEF EvidenceShape
<1>1. CaseShape(cases[g][f]) /\ cases[g][f] \in Cases
    BY DEF EvidenceShape, TypeOK
<1>2. CASE UNCHANGED caseVars
    BY <1>1, <1>2 DEF caseVars
<1>3. ASSUME NEW r \in Requests, NEW e \in Emails, OthersKept(r, e), CaseWrite(r, e)
      PROVE  CaseShape(cases'[g][f])
  <2>1. CASE g # ws[r] \/ f # e
    BY <1>1, <1>3, <2>1 DEF OthersKept
  <2>2. CASE g = ws[r] /\ f = e
    <3>1. CASE Shelled(r, e)
      <4>1. CaseShape(PendingCase)
        BY DEF CaseShape, PendingCase, NoCase
      <4> QED
        BY <1>1, <2>2, <3>1, <4>1 DEF Shelled
    <3>2. CASE Succeeded(r, e)
      <4>1. CaseShape(Classified("BL_COMPARISON")) /\ CaseShape(Classified("OTHER"))
        BY DEF CaseShape, Classified
      <4> QED
        BY <2>2, <3>2, <4>1 DEF Succeeded
    <3>3. CASE Failed(r, e)
      BY <1>1, <2>2, <3>3 DEF Failed, AwaitsProvider, CaseShape, FailedCase, Cases
    <3>4. CASE Compared(r, e)
      <4>1. PICK o \in ComparisonOutcomes \cup {AwaitingDocuments} :
              cases'[g][f] = ComparedCase(cases[g][f], o)
        BY <2>2, <3>4 DEF Compared
      <4>2. o.status # "NULL"
        BY DEF ComparisonOutcomes, AwaitingDocuments
      <4> QED
        BY <1>1, <2>2, <3>4, <4>1, <4>2
        DEF Compared, AwaitsComparison, CaseShape, ComparedCase, Cases
    <3>5. CASE Disposed(r, e)
      BY <1>1, <2>2, <3>5 DEF Disposed
    <3> QED
      BY <1>3, <3>1, <3>2, <3>3, <3>4, <3>5 DEF CaseWrite
  <2> QED
    BY <2>1, <2>2
<1> QED
    BY <1>2, <1>3, CaseSteps

(* Only a result recorded on a waiting case adds a SUCCEEDED attempt, and  *)
(* it takes the case out of the waiting states.                            *)
LEMMA StepOneClassification ==
  TypeOK /\ RequestsKnow /\ OneClassification /\ [Next]_vars => OneClassification'
<1> SUFFICES ASSUME TypeOK, RequestsKnow, OneClassification, [Next]_vars,
                    NEW g \in Generations, NEW f \in Emails
             PROVE  ClassifiedOnce(g, f)'
    BY DEF OneClassification
<1>1. ClassifiedOnce(g, f) /\ cases[g][f] \in Cases
    BY DEF OneClassification, TypeOK
<1>2. CASE cases'[g][f] = cases[g][f] /\ attempts'[g][f] = attempts[g][f]
    BY <1>1, <1>2 DEF ClassifiedOnce, Wins
<1>3. CASE UNCHANGED caseVars
    BY <1>2, <1>3 DEF caseVars
<1>4. ASSUME NEW r \in Requests, NEW e \in Emails, OthersKept(r, e), CaseWrite(r, e)
      PROVE  ClassifiedOnce(g, f)'
  <2>1. CASE g # ws[r] \/ f # e
    BY <1>2, <1>4, <2>1 DEF OthersKept
  <2>2. CASE g = ws[r] /\ f = e
    <3>1. CASE Shelled(r, e)
      BY <1>1, <2>2, <3>1 DEF Shelled, ClassifiedOnce, Wins, PendingCase, NoCase
    <3>2. CASE Succeeded(r, e)
      <4>1. Wins(g, f) = {}
        BY <1>1, <2>2, <3>2 DEF Succeeded, AwaitsProvider, ClassifiedOnce
      <4>2. Wins(g, f)' = {r}
        BY <2>2, <3>2, <4>1 DEF Succeeded, Wins
      <4>3. cases'[g][f].state \in {"BL_READY", "CLASSIFIED"}
        BY <2>2, <3>2 DEF Succeeded, Classified
      <4> QED
        BY <4>2, <4>3 DEF ClassifiedOnce
    <3>3. CASE Failed(r, e)
      <4>1. Wins(g, f)' = Wins(g, f)
        BY <2>2, <3>3 DEF Failed, Wins
      <4>2. cases'[g][f].state = "PROVIDER_FAILED"
        BY <1>1, <2>2, <3>3 DEF Failed, FailedCase, Cases
      <4> QED
        BY <1>1, <2>2, <3>3, <4>1, <4>2 DEF Failed, AwaitsProvider, ClassifiedOnce
    <3>4. CASE Compared(r, e)
      <4>1. cases'[g][f].state = "CLASSIFIED" /\ cases[g][f].state = "BL_READY"
        BY <1>1, <2>2, <3>4 DEF Compared, AwaitsComparison, ComparedCase, Cases
      <4> QED
        BY <1>1, <2>2, <3>4, <4>1 DEF Compared, ClassifiedOnce, Wins
    <3>5. CASE Disposed(r, e)
      BY <1>2, <2>2, <3>5 DEF Disposed
    <3> QED
      BY <1>4, <3>1, <3>2, <3>3, <3>4, <3>5 DEF CaseWrite
  <2> QED
    BY <2>1, <2>2
<1> QED
    BY <1>3, <1>4, CaseSteps

(* Only a result recorded on a BL_READY case adds a comparison, and it     *)
(* takes the case out of BL_READY for good.                                *)
LEMMA StepOneComparison ==
  TypeOK /\ RequestsKnow /\ EvidenceShape /\ OneComparison /\ [Next]_vars => OneComparison'
<1> SUFFICES ASSUME TypeOK, RequestsKnow, EvidenceShape, OneComparison, [Next]_vars,
                    NEW g \in Generations, NEW f \in Emails
             PROVE  ComparedOnce(g, f)'
    BY DEF OneComparison
<1>1. ComparedOnce(g, f) /\ CaseShape(cases[g][f]) /\ cases[g][f] \in Cases
    BY DEF OneComparison, EvidenceShape, TypeOK
<1>2. CASE cases'[g][f] = cases[g][f] /\ compared'[g][f] = compared[g][f]
    BY <1>1, <1>2 DEF ComparedOnce
<1>3. CASE UNCHANGED caseVars
    BY <1>2, <1>3 DEF caseVars
<1>4. ASSUME NEW r \in Requests, NEW e \in Emails, OthersKept(r, e), CaseWrite(r, e)
      PROVE  ComparedOnce(g, f)'
  <2>1. CASE g # ws[r] \/ f # e
    BY <1>2, <1>4, <2>1 DEF OthersKept
  <2>2. CASE g = ws[r] /\ f = e
    <3>1. CASE Shelled(r, e)
      BY <1>1, <2>2, <3>1 DEF Shelled, ComparedOnce, PendingCase, NoCase
    <3>2. CASE Succeeded(r, e)
      BY <1>1, <2>2, <3>2 DEF Succeeded, AwaitsProvider, ComparedOnce, Classified
    <3>3. CASE Failed(r, e)
      <4>1. cases'[g][f].state = "PROVIDER_FAILED"
        BY <1>1, <2>2, <3>3 DEF Failed, FailedCase, Cases
      <4> QED
        BY <1>1, <2>2, <3>3, <4>1 DEF Failed, AwaitsProvider, ComparedOnce
    <3>4. CASE Compared(r, e)
      <4>1. compared[g][f] = {}
        BY <1>1, <2>2, <3>4 DEF Compared, AwaitsComparison, ComparedOnce
      <4>2. compared'[g][f] = {r}
        BY <2>2, <3>4, <4>1 DEF Compared
      <4>3. /\ cases'[g][f].state = "CLASSIFIED"
            /\ cases'[g][f].category = "BL_COMPARISON"
        BY <1>1, <2>2, <3>4 DEF Compared, AwaitsComparison, ComparedCase, Cases
      <4> QED
        BY <4>2, <4>3 DEF ComparedOnce
    <3>5. CASE Disposed(r, e)
      BY <1>2, <2>2, <3>5 DEF Disposed
    <3> QED
      BY <1>4, <3>1, <3>2, <3>3, <3>4, <3>5 DEF CaseWrite
  <2> QED
    BY <2>1, <2>2
<1> QED
    BY <1>3, <1>4, CaseSteps

(* A case is held by the comparison that assigns it, and let go by the     *)
(* first disposition only.                                                 *)
LEMMA StepHeldUntilDisposed ==
  TypeOK /\ RequestsKnow /\ EvidenceShape /\ HeldUntilDisposed /\ [Next]_vars
    => HeldUntilDisposed'
<1> SUFFICES ASSUME TypeOK, RequestsKnow, EvidenceShape, HeldUntilDisposed, [Next]_vars,
                    NEW g \in Generations, NEW f \in Emails
             PROVE  AnsweredOnce(g, f)'
    BY DEF HeldUntilDisposed
<1>1. AnsweredOnce(g, f) /\ CaseShape(cases[g][f]) /\ cases[g][f] \in Cases
    BY DEF HeldUntilDisposed, EvidenceShape, TypeOK
<1>2. CASE /\ cases'[g][f] = cases[g][f] /\ assignments'[g][f] = assignments[g][f]
           /\ actions'[g][f] = actions[g][f]
    BY <1>1, <1>2 DEF AnsweredOnce
<1>3. CASE UNCHANGED caseVars
    BY <1>2, <1>3 DEF caseVars
<1>4. ASSUME ~OpenForReview(cases[g][f]), ~OpenForReview(cases'[g][f]),
             UNCHANGED <<assignments, actions>>
      PROVE  AnsweredOnce(g, f)'
    BY <1>1, <1>4 DEF AnsweredOnce
<1>5. ASSUME NEW r \in Requests, NEW e \in Emails, OthersKept(r, e), CaseWrite(r, e)
      PROVE  AnsweredOnce(g, f)'
  <2>1. CASE g # ws[r] \/ f # e
    BY <1>2, <1>5, <2>1 DEF OthersKept
  <2>2. CASE g = ws[r] /\ f = e
    <3>1. CASE Shelled(r, e)
      <4>1. CASE cases[g][f].state = "ABSENT"
        BY <1>4, <2>2, <3>1, <4>1 DEF Shelled, OpenForReview, PendingCase, NoCase
      <4> QED
        BY <1>2, <2>2, <3>1, <4>1 DEF Shelled
    <3>2. CASE Succeeded(r, e)
      <4>1. ~OpenForReview(cases[g][f])
        BY <2>2, <3>2 DEF Succeeded, AwaitsProvider, OpenForReview
      <4>2. ~OpenForReview(Classified("BL_COMPARISON")) /\ ~OpenForReview(Classified("OTHER"))
        BY DEF OpenForReview, Classified
      <4> QED
        BY <1>4, <2>2, <3>2, <4>1, <4>2 DEF Succeeded
    <3>3. CASE Failed(r, e)
      <4>1. ~OpenForReview(cases[g][f])
        BY <2>2, <3>3 DEF Failed, AwaitsProvider, OpenForReview
      <4>2. ~OpenForReview(cases'[g][f])
        BY <1>1, <2>2, <3>3 DEF Failed, FailedCase, OpenForReview, Cases
      <4> QED
        BY <1>4, <2>2, <3>3, <4>1, <4>2 DEF Failed
    <3>4. CASE Compared(r, e)
      <4>1. PICK o \in ComparisonOutcomes \cup {AwaitingDocuments} :
              /\ cases'[g][f] = ComparedCase(cases[g][f], o)
              /\ assignments'[g][f] = IF AsksForReviewer(o) THEN "ASSIGNED"
                                      ELSE assignments[g][f]
        BY <2>2, <3>4 DEF Compared
      <4>2. cases[g][f].state = "BL_READY" /\ cases[g][f].owner /\ actions'[g][f] = actions[g][f]
        BY <1>1, <2>2, <3>4 DEF Compared, AwaitsComparison, CaseShape
      <4>3. assignments[g][f] = "NONE" /\ actions[g][f] = {}
        BY <1>1, <4>2 DEF AnsweredOnce, OpenForReview
      <4>4. cases'[g][f].owner
        BY <1>1, <4>1, <4>2 DEF ComparedCase, Cases
      <4>5. OpenForReview(cases'[g][f]) <=> AsksForReviewer(o)
        <5>1. /\ cases'[g][f].state = "CLASSIFIED" /\ cases'[g][f].status = o.status
              /\ cases'[g][f].verdicts = o.verdicts
          BY <1>1, <4>1 DEF ComparedCase, Cases
        <5> QED
          BY <5>1 DEF OpenForReview, AsksForReviewer
      <4> QED
        BY <4>1, <4>2, <4>3, <4>4, <4>5 DEF AnsweredOnce
    <3>5. CASE Disposed(r, e)
      <4>1. OpenForReview(cases[g][f]) /\ actions[g][f] = {} /\ cases' = cases
        BY <2>2, <3>5 DEF Disposed, MayDispose
      <4>2. assignments[g][f] = "ASSIGNED" /\ cases[g][f].owner
        BY <1>1, <4>1 DEF AnsweredOnce
      <4>3. assignments'[g][f] = "RESOLVED" /\ actions'[g][f] = {r}
        BY <2>2, <3>5, <4>1, <4>2 DEF Disposed
      <4> QED
        BY <4>1, <4>2, <4>3 DEF AnsweredOnce
    <3> QED
      BY <1>5, <3>1, <3>2, <3>3, <3>4, <3>5 DEF CaseWrite
  <2> QED
    BY <2>1, <2>2
<1> QED
    BY <1>3, <1>5, CaseSteps

-----------------------------------------------------------------------------
(* The invariants of the bytes *)

(* Bytes are stored before a row names them, and nothing removes bytes.    *)
LEMMA StepRowsHaveBytes ==
  TypeOK /\ RequestsKnow /\ RowsHaveBytes /\ [Next]_vars => RowsHaveBytes'
<1> SUFFICES ASSUME TypeOK, RequestsKnow, RowsHaveBytes, [Next]_vars PROVE RowsHaveBytes'
    OBVIOUS
<1>1. CASE UNCHANGED bytesVars
    BY <1>1 DEF RowsHaveBytes, bytesVars
<1>2. ASSUME NEW r \in Requests, StoreBytes(r) PROVE RowsHaveBytes'
    BY <1>2 DEF StoreBytes, RowsHaveBytes
<1>3. ASSUME NEW r \in Requests, PersistReceipt(r) PROVE RowsHaveBytes'
    BY <1>3 DEF PersistReceipt, RowsHaveBytes, RequestsKnow, TypeOK
<1> QED
    BY <1>1, <1>2, <1>3, BytesWriters

(* A receipt, once written, keeps its digest.                              *)
LEMMA ReceiptsKept ==
  ASSUME TypeOK, RequestsKnow, [Next]_vars, NEW g \in Generations, NEW f \in Emails,
         receipts[g][f] # NoDigest
  PROVE  receipts'[g][f] = receipts[g][f]
<1>1. CASE UNCHANGED bytesVars
    BY <1>1 DEF bytesVars
<1>2. ASSUME NEW r \in Requests, StoreBytes(r) PROVE receipts'[g][f] = receipts[g][f]
    BY <1>2 DEF StoreBytes
<1>3. ASSUME NEW r \in Requests, PersistReceipt(r) PROVE receipts'[g][f] = receipts[g][f]
    BY <1>3 DEF PersistReceipt, RequestsKnow, TypeOK
<1> QED
    BY <1>1, <1>2, <1>3, BytesWriters

(* The shell of a case is created after the email's receipt is committed.  *)
LEMMA StepCasesHaveReceipts ==
  TypeOK /\ RequestsKnow /\ CasesHaveReceipts /\ [Next]_vars => CasesHaveReceipts'
<1> SUFFICES ASSUME TypeOK, RequestsKnow, CasesHaveReceipts, [Next]_vars,
                    NEW g \in Generations, NEW f \in Emails,
                    cases'[g][f].state # "ABSENT"
             PROVE  receipts'[g][f] # NoDigest
    BY DEF CasesHaveReceipts
<1>1. CASE receipts[g][f] # NoDigest
    BY <1>1, ReceiptsKept
<1>2. CASE receipts[g][f] = NoDigest
  <2>1. cases[g][f].state = "ABSENT"
    BY <1>2 DEF CasesHaveReceipts
  <2>2. PICK r \in Requests, e \in Emails : OthersKept(r, e) /\ CaseWrite(r, e)
    BY <2>1, CaseSteps DEF caseVars
  <2>3. g = ws[r] /\ f = e
    BY <2>1, <2>2 DEF OthersKept
  <2>4. Shelled(r, e)
    BY <2>1, <2>2, <2>3
    DEF CaseWrite, Succeeded, Failed, Compared, Disposed, AwaitsProvider, AwaitsComparison
  <2> QED
    BY <1>2, <2>3, <2>4 DEF Shelled, EnsureCase, RequestsKnow
<1> QED
    BY <1>1, <1>2

-----------------------------------------------------------------------------
(* The theorems *)

(* Init establishes the inductive invariant.                               *)
LEMMA InitIInv == Init => IInv
<1> SUFFICES ASSUME Init PROVE IInv
    OBVIOUS
<1>1. TypeOK
    BY InitTypeOK
<1>2. RequestsKnow
    BY DEF Init, RequestsKnow
<1>3. EvidenceShape
    BY DEF Init, EvidenceShape, CaseShape, NoCase
<1>4. OneClassification
    BY DEF Init, OneClassification, ClassifiedOnce, Wins, NoCase
<1>5. OneComparison
    BY DEF Init, OneComparison, ComparedOnce, NoCase
<1>6. HeldUntilDisposed
    BY DEF Init, HeldUntilDisposed, AnsweredOnce, OpenForReview, NoCase
<1>7. RowsHaveBytes /\ CasesHaveReceipts
    BY DEF Init, RowsHaveBytes, CasesHaveReceipts, NoCase
<1> QED
    BY <1>1, <1>2, <1>3, <1>4, <1>5, <1>6, <1>7 DEF IInv

(* Every step keeps it.                                                    *)
LEMMA StepIInv == IInv /\ [Next]_vars => IInv'
  BY StepTypeOK, StepRequestsKnow, StepEvidenceShape, StepOneClassification,
     StepOneComparison, StepHeldUntilDisposed, StepRowsHaveBytes, StepCasesHaveReceipts
  DEF IInv

(* The inductive invariant holds in every reachable state.                 *)
THEOREM Invariance == Spec => []IInv
  BY InitIInv, StepIInv, PTL DEF Spec

(* Every variable keeps its type, whatever the number of requests.         *)
THEOREM TypeCorrect == Spec => []TypeOK
<1>1. IInv => TypeOK
    BY DEF IInv
<1> QED
    BY <1>1, Invariance, PTL

(* No handler leaves a case row the table's CHECK constraints would refuse.*)
THEOREM RowsAgree == Spec => []EvidenceShape
<1>1. IInv => EvidenceShape
    BY DEF IInv
<1> QED
    BY <1>1, Invariance, PTL

(* However many ingests race, a case is classified exactly once.           *)
THEOREM ClassifiedExactlyOnce == Spec => []OneClassification
<1>1. IInv => OneClassification
    BY DEF IInv
<1> QED
    BY <1>1, Invariance, PTL

(* However many runs race, a case is compared exactly once.                *)
THEOREM ComparedExactlyOnce == Spec => []OneComparison
<1>1. IInv => OneComparison
    BY DEF IInv
<1> QED
    BY <1>1, Invariance, PTL

(* A held case has an owner and an open assignment until the one           *)
(* disposition that closes it.                                             *)
THEOREM HeldCasesAnswered == Spec => []HeldUntilDisposed
<1>1. IInv => HeldUntilDisposed
    BY DEF IInv
<1> QED
    BY <1>1, Invariance, PTL

(* The database never names bytes the object store lacks, and no case      *)
(* exists without the receipt of its email.                                *)
THEOREM BytesBehindRows == Spec => []NoDanglingRows
<1>1. IInv => NoDanglingRows
    BY DEF IInv, NoDanglingRows
<1> QED
    BY <1>1, Invariance, PTL

(* No step writes a workspace that is not the current one: what Reset All  *)
(* leaves behind stays as it was.                                          *)
THEOREM RetiredStayFrozen == Spec => OtherGenerationsFrozen
<1>1. IInv /\ [Next]_vars
        => [\A g \in Generations : g # generation => Row(g)' = Row(g)]_vars
  <2> SUFFICES ASSUME IInv, [Next]_vars, NEW g \in Generations, g # generation
               PROVE  Row(g)' = Row(g)
      OBVIOUS
  <2>1. TypeOK /\ RequestsKnow
    BY DEF IInv
  <2>2. receipts'[g] = receipts[g]
    <3>1. ASSUME NEW r \in Requests, PersistReceipt(r) PROVE receipts'[g] = receipts[g]
      BY <2>1, <3>1 DEF PersistReceipt, Active, TypeOK
    <3> QED
      BY <3>1, BytesWriters DEF bytesVars, StoreBytes
  <2> DEFINE CasesKept ==
        /\ cases'[g] = cases[g] /\ attempts'[g] = attempts[g] /\ compared'[g] = compared[g]
        /\ assignments'[g] = assignments[g] /\ actions'[g] = actions[g]
  <2>3. CasesKept
    <3>1. ASSUME NEW r \in Requests, EnsureCase(r) PROVE CasesKept
      BY <2>1, <3>1 DEF EnsureCase, Active, TypeOK
    <3>2. ASSUME NEW r \in Requests, RecordSuccess(r) PROVE CasesKept
      BY <2>1, <3>2 DEF RecordSuccess, Active, TypeOK
    <3>3. ASSUME NEW r \in Requests, RecordFailure(r) PROVE CasesKept
      BY <2>1, <3>3 DEF RecordFailure, Active, TypeOK
    <3>4. ASSUME NEW r \in Requests, RecordComparison(r) PROVE CasesKept
      BY <2>1, <3>4 DEF RecordComparison, Active, TypeOK
    <3>5. ASSUME NEW r \in Requests, Dispose(r) PROVE CasesKept
      BY <2>1, <3>5 DEF Dispose, Active, TypeOK
    <3> QED
      BY <3>1, <3>2, <3>3, <3>4, <3>5, CaseWriters DEF caseVars
  <2> QED
    BY <2>2, <2>3 DEF Row
<1> QED
    BY <1>1, Invariance, PTL DEF Spec, OtherGenerationsFrozen

(* A receipt keeps its bytes, a case its category, and a CLASSIFIED case   *)
(* everything.                                                             *)
THEOREM DecisionsStand == Spec => DecisionsFinal
<1> DEFINE Stand(g, e) ==
      /\ receipts[g][e] # NoDigest => receipts'[g][e] = receipts[g][e]
      /\ cases[g][e].category # "NULL" =>
           /\ cases'[g][e].category = cases[g][e].category
           /\ cases'[g][e].owner = cases[g][e].owner
      /\ cases[g][e].state = "CLASSIFIED" => cases'[g][e] = cases[g][e]
<1>1. ASSUME IInv, [Next]_vars, NEW g \in Generations, NEW f \in Emails
      PROVE  Stand(g, f)
  <2>1. /\ TypeOK /\ RequestsKnow /\ CaseShape(cases[g][f]) /\ cases[g][f] \in Cases
    BY <1>1 DEF IInv, EvidenceShape, TypeOK
  <2>2. receipts[g][f] # NoDigest => receipts'[g][f] = receipts[g][f]
    BY <1>1, <2>1, ReceiptsKept
  <2>3. CASE cases'[g][f] = cases[g][f]
    BY <2>2, <2>3
  <2>4. ASSUME NEW r \in Requests, NEW e \in Emails, OthersKept(r, e), CaseWrite(r, e),
               cases'[g][f] # cases[g][f]
        PROVE  Stand(g, f)
    <3>1. g = ws[r] /\ f = e
      BY <2>4 DEF OthersKept
    <3>2. CASE cases[g][f].state \in {"ABSENT", "PENDING", "PROVIDER_FAILED"}
      BY <2>1, <2>2, <3>2 DEF CaseShape
    <3>3. CASE Compared(r, e)
      BY <2>1, <2>2, <3>1, <3>3 DEF Compared, AwaitsComparison, ComparedCase, Cases
    <3> QED
      BY <2>4, <3>1, <3>2, <3>3
      DEF CaseWrite, Shelled, Succeeded, Failed, Disposed, AwaitsProvider
  <2> QED
    BY <1>1, <2>1, <2>3, <2>4, CaseSteps DEF caseVars
<1>2. IInv /\ [Next]_vars => [\A g \in Generations, e \in Emails : Stand(g, e)]_vars
    BY <1>1
<1>3. (\A g \in Generations, e \in Emails : Stand(g, e)) =>
        \A g \in Generations, e \in Emails :
          LET c == cases[g][e]
              d == cases[g][e]'
          IN  /\ receipts[g][e] # NoDigest => receipts[g][e]' = receipts[g][e]
              /\ c.category # "NULL" => d.category = c.category /\ d.owner = c.owner
              /\ c.state = "CLASSIFIED" => d = c
    OBVIOUS
<1> QED
    BY <1>2, <1>3, Invariance, PTL DEF Spec, DecisionsFinal

=============================================================================
