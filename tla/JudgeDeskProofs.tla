-------------------------- MODULE JudgeDeskProofs --------------------------
(***************************************************************************)
(* Proofs about JudgeDesk, for any numbers of uploads, retries, slots,     *)
(* generations and restarts: slots are conserved, the audit trail matches  *)
(* the runs, answers are true, and the tables implement RunLedger.  The    *)
(* inductive invariant adds what a request has established when it reaches *)
(* a step (Knows, Found), what an upload's tables look like at each of its *)
(* steps (Owned), and who signed the rows of the trail (Signed).           *)
(***************************************************************************)
EXTENDS JudgeDesk, FiniteSetTheorems, TLAPS

(* Past its first step a request has a target, an upload itself; it is     *)
(* answered when it is done, and a success it reports is a compared case.  *)
Knows(r) ==
  /\ ws[r] <= generation
  /\ pc[r] # "done" => reply[r] = "none"
  /\ pc[r] # "new" => target[r] \in Uploads /\ (r \in Uploads => target[r] = r)
  /\ r \in Uploads => pc[r] # "find"
  /\ r \in Retries => pc[r] \notin {"accept"} \cup ReceiveSteps
  /\ pc[r] = "record" => outcome[r] \in Attempted
  /\ outcome[r] # "none" => pc[r] \in {"record", "get", "done"}
  /\ outcome[r] = "SUCCEEDED" => case[target[r]] = "CLASSIFIED"

(* Past its search, a retry has a recorded run in its own workspace. *)
Found(r) ==
  pc[r] \in {"slot", "record", "get"} \cup CheckSteps =>
    run[target[r]] # "NONE" /\ home[target[r]] = ws[r]

(* How far an upload has come shows in its case and its run. *)
Owned(u) ==
  /\ pc[u] \in {"new", "slot", "accept", "receipt"} => case[u] = "ABSENT"
  /\ pc[u] = "ensure" => case[u] = "RECEIVED"
  /\ pc[u] = "declare" => case[u] = "PENDING"
  /\ pc[u] \in CheckSteps => case[u] = "BL_READY"
  /\ pc[u] = "record" => case[u] \in {"BL_READY", "CLASSIFIED"}
  /\ pc[u] \notin {"get", "done"} => run[u] = "NONE"
  /\ case[u] # "ABSENT" => home[u] = ws[u]
  /\ run[u] # "NONE" => case[u] \in {"BL_READY", "CLASSIFIED"}
  /\ IF run[u] = "NONE" THEN attempt[u] = 0 /\ log[u] = {} ELSE attempt[u] # 0

(* A row of the trail is signed by a request that is past recording. *)
Signed(u) ==
  \A row \in log[u] : pc[row.by] \in {"get", "done"}

Mine(r) == {row \in UNION {log[u] : u \in Uploads} : row.by = r}

(* A request that reads its run back has recorded its attempt. *)
Recorded(r) == pc[r] = "get" => Mine(r) # {}

Holding == {r \in Requests : pc[r] \in InSlot}

SlotsCounted == IsFiniteSet(Holding) /\ SlotsConserved

(* The inductive invariant. *)
DeskInv ==
  /\ TypeOK /\ SlotsCounted
  /\ \A r \in Requests : Knows(r) /\ Recorded(r)
  /\ \A r \in Retries : Found(r)
  /\ \A u \in Uploads : Owned(u) /\ Signed(u)
  /\ LogMatchesRun /\ RepliesTrue

-----------------------------------------------------------------------------
(* Steps *)

RequestStep(r) ==
  \/ r \in Uploads /\ (BeginUpload(r) \/ UploadStep(r))
  \/ r \in Retries /\ (BeginRetry(r) \/ RetryStep(r))
  \/ CheckStep(r) \/ UnexpectedError(r)

(* A step is one of a request, a reset or a restart. *)
LEMMA WhoSteps ==
  ASSUME [Next]_vars
  PROVE  (\E r \in Requests : RequestStep(r)) \/ Reset \/ Restart \/ UNCHANGED vars
  BY DEF Next, Progress, RequestStep, Requests, Finished

(* A request moves alone. *)
OthersWait(r) ==
  /\ generation' = generation
  /\ \A q \in Requests \ {r} :
       /\ pc'[q] = pc[q] /\ ws'[q] = ws[q] /\ target'[q] = target[q]
       /\ outcome'[q] = outcome[q] /\ reply'[q] = reply[q]

(* A step writes at most one of the tables' rows, in one of four ways. *)
Writes(r) ==
  \/ UNCHANGED rows
  \/ r \in Uploads /\ Receive(r)
  \/ CompareCase(r)
  \/ RecordRun(r)
  \/ RecordRetry(r)

(* It does, and writes the rows of its own target only. *)
LEMMA OneMoves ==
  ASSUME TypeOK, NEW r \in Requests, RequestStep(r)
  PROVE  OthersWait(r) /\ Writes(r) /\ UNCHANGED restarts
<1> USE DEF TypeOK, OthersWait, Writes, rows, process, local
<1>1. CASE r \in Uploads /\ BeginUpload(r) BY <1>1 DEF BeginUpload
<1>2. CASE r \in Uploads /\ Accept(r) BY <1>2 DEF Accept, Goto, EndInSlot, End
<1>3. CASE r \in Uploads /\ Receive(r) BY <1>3 DEF Receive, Goto
<1>4. CASE r \in Uploads /\ RecordRun(r) BY <1>4 DEF RecordRun, Goto
<1>5. CASE r \in Retries /\ BeginRetry(r) BY <1>5 DEF BeginRetry
<1>6. CASE r \in Retries /\ FindRun(r) BY <1>6 DEF FindRun, Goto, End
<1>7. CASE r \in Retries /\ RetiredBeforeSlot(r) BY <1>7 DEF RetiredBeforeSlot, End
<1>8. CASE r \in Retries /\ RecordRetry(r) BY <1>8 DEF RecordRetry, Goto
<1>9. CASE r \in Retries /\ LoseRetry(r) BY <1>9 DEF LoseRetry, EndInSlot, End
<1>10. CASE AcquireSlot(r) BY <1>10 DEF AcquireSlot, Goto
<1>11. CASE SlotTimeout(r) BY <1>11 DEF SlotTimeout, End
<1>12. CASE LoadCase(r) \/ RecordDecisions(r) BY <1>12 DEF LoadCase, RecordDecisions, Goto
<1>13. CASE ProviderGivesUp(r) BY <1>13 DEF ProviderGivesUp, Conclude
<1>14. CASE CompareCase(r) BY <1>14 DEF CompareCase, Conclude
<1>15. CASE AlreadyCompared(r) BY <1>15 DEF AlreadyCompared, Conclude, EndInSlot, End
<1>16. CASE Answer(r) BY <1>16 DEF Answer, EndInSlot, End
<1>17. CASE RetiredInSlot(r) BY <1>17 DEF RetiredInSlot, EndInSlot, End
<1>18. CASE UnexpectedError(r) BY <1>18 DEF UnexpectedError, EndInSlot, End
<1> QED
  BY <1>1, <1>2, <1>3, <1>4, <1>5, <1>6, <1>7, <1>8, <1>9, <1>10, <1>11, <1>12, <1>13, <1>14,
     <1>15, <1>16, <1>17, <1>18
  DEF RequestStep, UploadStep, RetryStep, CheckStep

-----------------------------------------------------------------------------
(* Slots *)

(* A step takes a slot, gives one back, or does neither. *)
LEMMA SlotMoves ==
  ASSUME DeskInv, NEW r \in Requests, RequestStep(r)
  PROVE  \/ pc[r] \notin InSlot /\ pc'[r] \in InSlot /\ free > 0 /\ free' = free - 1
         \/ pc[r] \in InSlot /\ pc'[r] \notin InSlot /\ free' = free + 1
         \/ (pc[r] \in InSlot <=> pc'[r] \in InSlot) /\ free' = free
<1>1. pc \in [Requests -> Steps] /\ r \in Requests BY DEF DeskInv, TypeOK
<1> USE <1>1 DEF InSlot, ReceiveSteps, CheckSteps, process
<1>2. CASE r \in Uploads /\ BeginUpload(r) BY <1>2 DEF BeginUpload
<1>3. CASE r \in Uploads /\ Accept(r) BY <1>3 DEF Accept, Goto, EndInSlot, End
<1>4. CASE r \in Uploads /\ Receive(r) BY <1>4 DEF Receive, AfterReceive, Goto
<1>5. CASE r \in Uploads /\ RecordRun(r) BY <1>5 DEF RecordRun, Goto
<1>6. CASE r \in Retries /\ BeginRetry(r) BY <1>6 DEF BeginRetry
<1>7. CASE r \in Retries /\ FindRun(r) BY <1>7 DEF FindRun, Goto, End
<1>8. CASE r \in Retries /\ RetiredBeforeSlot(r) BY <1>8 DEF RetiredBeforeSlot, End
<1>9. CASE r \in Retries /\ RecordRetry(r) BY <1>9 DEF RecordRetry, Goto
<1>10. CASE r \in Retries /\ LoseRetry(r) BY <1>10 DEF LoseRetry, EndInSlot, End
<1>11. CASE AcquireSlot(r) BY <1>11 DEF AcquireSlot, Goto
<1>12. CASE SlotTimeout(r) BY <1>12 DEF SlotTimeout, End
<1>13. CASE LoadCase(r) \/ RecordDecisions(r) BY <1>13 DEF LoadCase, RecordDecisions, Goto
<1>14. CASE ProviderGivesUp(r) \/ CompareCase(r) BY <1>14 DEF ProviderGivesUp, CompareCase, Conclude
<1>15. CASE AlreadyCompared(r) BY <1>15 DEF AlreadyCompared, Conclude, EndInSlot, End
<1>16. CASE Answer(r) BY <1>16 DEF Answer, EndInSlot, End
<1>17. CASE RetiredInSlot(r) BY <1>17 DEF RetiredInSlot, EndInSlot, End
<1>18. CASE UnexpectedError(r) BY <1>18 DEF UnexpectedError, EndInSlot, End
<1> QED
  BY <1>2, <1>3, <1>4, <1>5, <1>6, <1>7, <1>8, <1>9, <1>10, <1>11, <1>12, <1>13, <1>14, <1>15,
     <1>16, <1>17, <1>18
  DEF RequestStep, UploadStep, RetryStep, CheckStep

(* Whatever ends a check gives back exactly its slot. *)
LEMMA SlotsStayCounted ==
  ASSUME DeskInv, [Next]_vars
  PROVE  SlotsCounted' /\ free' \in 0..Slots
<1>1. /\ IsFiniteSet(Holding) /\ free + Cardinality(Holding) = Slots
      /\ free \in Nat /\ Slots \in Nat /\ Cardinality(Holding) \in Nat
  BY FS_CardinalityType, JudgeAssumption DEF DeskInv, TypeOK, SlotsCounted, SlotsConserved, Holding
<1>2. SUFFICES /\ IsFiniteSet(Holding') /\ Cardinality(Holding') \in Nat
               /\ free' \in Nat /\ free' + Cardinality(Holding') = Slots
  BY <1>1 DEF SlotsCounted, SlotsConserved, Holding
<1>3. ASSUME NEW r \in Requests, RequestStep(r)
      PROVE  /\ IsFiniteSet(Holding') /\ Cardinality(Holding') \in Nat
             /\ free' \in Nat /\ free' + Cardinality(Holding') = Slots
  <2>1. \A q \in Requests \ {r} : pc'[q] = pc[q] BY <1>3, OneMoves DEF DeskInv, OthersWait
  <2>2. CASE pc[r] \notin InSlot /\ pc'[r] \in InSlot /\ free > 0 /\ free' = free - 1
    <3>1. Holding' = Holding \cup {r} /\ r \notin Holding BY <2>1, <2>2 DEF Holding
    <3>2. IsFiniteSet(Holding') /\ Cardinality(Holding') = Cardinality(Holding) + 1
      BY <1>1, <3>1, FS_AddElement
    <3> QED BY <1>1, <2>2, <3>2
  <2>3. CASE pc[r] \in InSlot /\ pc'[r] \notin InSlot /\ free' = free + 1
    <3>1. Holding' = Holding \ {r} /\ r \in Holding BY <2>1, <2>3 DEF Holding
    <3>2. IsFiniteSet(Holding') /\ Cardinality(Holding') = Cardinality(Holding) - 1
      BY <1>1, <3>1, FS_RemoveElement
    <3>3. Cardinality(Holding') \in Nat BY <3>2, FS_CardinalityType
    <3> QED BY <1>1, <2>3, <3>2, <3>3
  <2>4. CASE (pc[r] \in InSlot <=> pc'[r] \in InSlot) /\ free' = free
    <3>1. Holding' = Holding BY <2>1, <2>4 DEF Holding
    <3> QED BY <1>1, <2>4, <3>1
  <2> QED BY <1>3, <2>2, <2>3, <2>4, SlotMoves
<1>4. CASE Reset BY <1>1, <1>4 DEF Reset, Holding, process, local
<1>5. CASE Restart
  <2>1. Holding' = {}
    BY <1>5 DEF Restart, Running, Holding, InSlot, ReceiveSteps, CheckSteps, DeskInv, TypeOK
  <2> QED BY <1>1, <1>5, <2>1, FS_EmptySet DEF Restart
<1>6. CASE UNCHANGED vars BY <1>1, <1>6 DEF vars, Holding, process, local
<1> QED BY <1>3, <1>4, <1>5, <1>6, WhoSteps

-----------------------------------------------------------------------------
(* Types *)

(* A step keeps the types, *)
LEMMA StepTypes ==
  ASSUME DeskInv, [Next]_vars
  PROVE  TypeOK'
<1>1. free' \in 0..Slots BY SlotsStayCounted
<1>2. TypeOK /\ (\A r \in Requests : Knows(r)) BY DEF DeskInv
<1>3. ASSUME NEW r \in Requests, RequestStep(r) PROVE TypeOK'
  <2>1. UNCHANGED restarts /\ generation' = generation /\ Knows(r)
    BY <1>2, <1>3, OneMoves DEF OthersWait
  <2> USE <1>1, <1>2, <2>1
      DEF TypeOK, Steps, InSlot, ReceiveSteps, CheckSteps, Replies, Attempted, rows, process
  <2>2. CASE r \in Uploads /\ BeginUpload(r) BY <2>2 DEF BeginUpload
  <2>3. CASE r \in Uploads /\ Accept(r) BY <2>3 DEF Accept, Goto, EndInSlot, End
  <2>4. CASE r \in Uploads /\ Receive(r)
    BY <2>4 DEF Receive, Received, AfterReceive, Goto, CaseStates
  <2>5. CASE r \in Uploads /\ RecordRun(r)
    BY <2>5 DEF RecordRun, Goto, LogRow, LogRows, RunStates, Knows
  <2>6. CASE r \in Retries /\ BeginRetry(r) BY <2>6 DEF BeginRetry
  <2>7. CASE r \in Retries /\ FindRun(r) BY <2>7 DEF FindRun, Goto, End
  <2>8. CASE r \in Retries /\ RetiredBeforeSlot(r) BY <2>8 DEF RetiredBeforeSlot, End
  <2>9. CASE r \in Retries /\ RecordRetry(r)
    BY <2>9 DEF RecordRetry, Goto, LogRow, LogRows, RunStates, Knows
  <2>10. CASE r \in Retries /\ LoseRetry(r) BY <2>10 DEF LoseRetry, EndInSlot, End
  <2>11. CASE AcquireSlot(r) BY <2>11 DEF AcquireSlot, Goto
  <2>12. CASE SlotTimeout(r) BY <2>12 DEF SlotTimeout, End
  <2>13. CASE LoadCase(r) \/ RecordDecisions(r) BY <2>13 DEF LoadCase, RecordDecisions, Goto
  <2>14. CASE ProviderGivesUp(r) BY <2>14 DEF ProviderGivesUp, Conclude
  <2>15. CASE CompareCase(r) BY <2>15 DEF CompareCase, Conclude, Knows, CaseStates
  <2>16. CASE AlreadyCompared(r) BY <2>16 DEF AlreadyCompared, Conclude, EndInSlot, End
  <2>17. CASE Answer(r) BY <2>17 DEF Answer, EndInSlot, End
  <2>18. CASE RetiredInSlot(r) BY <2>18 DEF RetiredInSlot, EndInSlot, End
  <2>19. CASE UnexpectedError(r) BY <2>19 DEF UnexpectedError, EndInSlot, End
  <2> QED
    BY <1>3, <2>2, <2>3, <2>4, <2>5, <2>6, <2>7, <2>8, <2>9, <2>10, <2>11, <2>12, <2>13, <2>14,
       <2>15, <2>16, <2>17, <2>18, <2>19
    DEF RequestStep, UploadStep, RetryStep, CheckStep
<1>4. CASE Reset BY <1>1, <1>2, <1>4, JudgeAssumption DEF TypeOK, Reset, Generations, process, local
<1>5. CASE Restart
  BY <1>1, <1>2, <1>5, JudgeAssumption DEF TypeOK, Restart, Steps, Replies, rows
<1>6. CASE UNCHANGED vars BY <1>1, <1>2, <1>6 DEF TypeOK, vars, rows, process, local
<1> QED BY <1>3, <1>4, <1>5, <1>6, WhoSteps

-----------------------------------------------------------------------------
(* What the requests know *)

(* What is recorded is not taken back: a compared case stays compared, a   *)
(* recorded run keeps its workspace, and a success stands.                 *)
LEMMA RowsStand ==
  ASSUME DeskInv, [Next]_vars, NEW u \in Uploads
  PROVE  /\ case[u] = "CLASSIFIED" => case'[u] = "CLASSIFIED"
         /\ run[u] # "NONE" => run'[u] # "NONE" /\ home'[u] = home[u]
         /\ run[u] = "SUCCEEDED" => run'[u] = "SUCCEEDED"
         /\ case[u] = "ABSENT" /\ pc[u] = "done" => case'[u] = "ABSENT"
<1> USE DEF DeskInv, TypeOK
<1>1. ASSUME NEW r \in Requests, RequestStep(r)
      PROVE  /\ case[u] = "CLASSIFIED" => case'[u] = "CLASSIFIED"
             /\ run[u] # "NONE" => run'[u] # "NONE" /\ home'[u] = home[u]
             /\ run[u] = "SUCCEEDED" => run'[u] = "SUCCEEDED"
             /\ case[u] = "ABSENT" /\ pc[u] = "done" => case'[u] = "ABSENT"
  <2>1. Knows(r) /\ (r \in Uploads => Owned(r)) OBVIOUS
  <2>2. CASE UNCHANGED rows BY <2>2 DEF rows
  <2>3. CASE r \in Uploads /\ Receive(r) BY <2>1, <2>3 DEF Receive, ReceiveSteps, Owned
  <2>4. CASE CompareCase(r) BY <2>1, <2>4 DEF CompareCase
  <2>5. CASE RecordRun(r) BY <2>1, <2>5 DEF RecordRun, Knows, Owned, Attempted
  <2>6. CASE RecordRetry(r) BY <2>1, <2>6 DEF RecordRetry, Knows, Attempted
  <2> QED BY <1>1, <2>2, <2>3, <2>4, <2>5, <2>6, OneMoves DEF Writes
<1>2. CASE Reset BY <1>2 DEF Reset
<1>3. CASE Restart BY <1>3 DEF Restart, rows
<1>4. CASE UNCHANGED vars BY <1>4 DEF vars, rows
<1> QED BY <1>1, <1>2, <1>3, <1>4, WhoSteps

(* The request that moves knows what its next step needs. *)
LEMMA MoverKnows ==
  ASSUME DeskInv, TypeOK', NEW r \in Requests, RequestStep(r)
  PROVE  Knows(r)'
<1>1. /\ TypeOK /\ Knows(r) /\ (r \in Retries => Found(r)) /\ (r \in Uploads => Owned(r))
      /\ generation' = generation
      /\ \A u \in Uploads : Owned(u)
      /\ \A u \in Uploads : case[u] = "CLASSIFIED" => case'[u] = "CLASSIFIED"
  <2>1. r \in Requests BY DEF Requests
  <2>2. [Next]_vars BY DEF Next, Progress, RequestStep, Requests
  <2> QED BY <2>1, <2>2, OneMoves, RowsStand DEF DeskInv, OthersWait
<1>2. Uploads \cap Retries = {} BY JudgeAssumption
<1> USE <1>1, <1>2 DEF TypeOK, Knows, ReceiveSteps, CheckSteps, Attempted, Requests
<1>3. CASE r \in Uploads /\ BeginUpload(r) BY <1>3 DEF BeginUpload, Generations
<1>4. CASE r \in Uploads /\ Accept(r) BY <1>4 DEF Accept, Goto, EndInSlot, End
<1>5. CASE r \in Uploads /\ Receive(r) BY <1>5 DEF Receive, AfterReceive, Goto
<1>6. CASE r \in Uploads /\ RecordRun(r) BY <1>6 DEF RecordRun, Goto
<1>7. CASE r \in Retries /\ BeginRetry(r) BY <1>7 DEF BeginRetry, Generations
<1>8. CASE r \in Retries /\ FindRun(r) BY <1>8 DEF FindRun, Goto, End
<1>9. CASE r \in Retries /\ RetiredBeforeSlot(r) BY <1>9 DEF RetiredBeforeSlot, End
<1>10. CASE r \in Retries /\ RecordRetry(r) BY <1>10 DEF RecordRetry, Goto
<1>11. CASE r \in Retries /\ LoseRetry(r) BY <1>11 DEF LoseRetry, EndInSlot, End
<1>12. CASE AcquireSlot(r) BY <1>12 DEF AcquireSlot, Goto
<1>13. CASE SlotTimeout(r) BY <1>13 DEF SlotTimeout, End
<1>14. CASE LoadCase(r) \/ RecordDecisions(r) BY <1>14 DEF LoadCase, RecordDecisions, Goto
<1>15. CASE ProviderGivesUp(r) BY <1>15 DEF ProviderGivesUp, Conclude
<1>16. CASE CompareCase(r) BY <1>16 DEF CompareCase, Conclude
<1>17. CASE AlreadyCompared(r)
  <2>1. case[target[r]] # "BL_READY" /\ target[r] \in Uploads BY <1>17 DEF AlreadyCompared
  <2>2. r \in Retries => case[target[r]] = "CLASSIFIED" BY <1>17, <2>1 DEF AlreadyCompared, Found, Owned
  <2>3. case' = case BY <1>17 DEF AlreadyCompared, rows
  <2> QED BY <1>17, <2>1, <2>2, <2>3 DEF AlreadyCompared, Conclude, EndInSlot, End
<1>18. CASE Answer(r) BY <1>18 DEF Answer, EndInSlot, End
<1>19. CASE RetiredInSlot(r) BY <1>19 DEF RetiredInSlot, EndInSlot, End, InSlot
<1>20. CASE UnexpectedError(r) BY <1>20 DEF UnexpectedError, EndInSlot, End, InSlot
<1> QED
  BY <1>3, <1>4, <1>5, <1>6, <1>7, <1>8, <1>9, <1>10, <1>11, <1>12, <1>13, <1>14, <1>15, <1>16,
     <1>17, <1>18, <1>19, <1>20
  DEF RequestStep, UploadStep, RetryStep, CheckStep

(* what a request knows, *)
LEMMA StepKnows ==
  ASSUME DeskInv, TypeOK', [Next]_vars, NEW q \in Requests
  PROVE  Knows(q)'
<1>1. Knows(q) /\ TypeOK BY DEF DeskInv
<1>2. \A u \in Uploads : case[u] = "CLASSIFIED" => case'[u] = "CLASSIFIED" BY RowsStand
<1>3. ASSUME NEW r \in Requests, RequestStep(r) PROVE Knows(q)'
  <2>1. CASE q = r BY <1>3, <2>1, MoverKnows
  <2>2. CASE q # r BY <1>1, <1>2, <1>3, <2>2, OneMoves DEF OthersWait, Knows
  <2> QED BY <2>1, <2>2
<1>4. CASE Reset BY <1>1, <1>4 DEF Reset, Knows, local, TypeOK, Generations
<1>5. CASE Restart BY <1>1, <1>5 DEF Restart, Knows, Running, rows, TypeOK, ReceiveSteps
<1>6. CASE UNCHANGED vars BY <1>1, <1>6 DEF vars, rows, local, Knows
<1> QED BY <1>3, <1>4, <1>5, <1>6, WhoSteps

(* what a retry found, *)
LEMMA StepFound ==
  ASSUME DeskInv, TypeOK', [Next]_vars, NEW q \in Retries
  PROVE  Found(q)'
<1>1. /\ q \in Requests /\ Knows(q) /\ Found(q) /\ TypeOK /\ q \notin Uploads
      /\ Knows(q)'
  BY JudgeAssumption, StepKnows DEF DeskInv, Requests
<1>2. \A u \in Uploads : run[u] # "NONE" => run'[u] # "NONE" /\ home'[u] = home[u] BY RowsStand
<1> USE <1>1, <1>2 DEF TypeOK, Found, Knows, CheckSteps, ReceiveSteps
<1>3. ASSUME NEW r \in Requests, RequestStep(r), r # q PROVE Found(q)'
  BY <1>3, OneMoves DEF OthersWait
<1>4. CASE RequestStep(q)
  <2>1. CASE BeginRetry(q) BY <2>1 DEF BeginRetry
  <2>2. CASE FindRun(q) BY <2>2 DEF FindRun, Visible, Goto, End, rows
  <2>3. CASE RetiredBeforeSlot(q) BY <2>3 DEF RetiredBeforeSlot, End
  <2>4. CASE RecordRetry(q) BY <2>4 DEF RecordRetry, Goto
  <2>5. CASE LoseRetry(q) BY <2>5 DEF LoseRetry, EndInSlot, End
  <2>6. CASE AcquireSlot(q) BY <2>6 DEF AcquireSlot, Goto
  <2>7. CASE SlotTimeout(q) BY <2>7 DEF SlotTimeout, End
  <2>8. CASE LoadCase(q) \/ RecordDecisions(q) BY <2>8 DEF LoadCase, RecordDecisions, Goto
  <2>9. CASE ProviderGivesUp(q) BY <2>9 DEF ProviderGivesUp, Conclude
  <2>10. CASE CompareCase(q) BY <2>10 DEF CompareCase, Conclude
  <2>11. CASE AlreadyCompared(q) BY <2>11 DEF AlreadyCompared, Conclude, EndInSlot, End
  <2>12. CASE Answer(q) \/ RetiredInSlot(q) \/ UnexpectedError(q)
    BY <2>12 DEF Answer, RetiredInSlot, UnexpectedError, EndInSlot, End
  <2> QED
    BY <1>4, <2>1, <2>2, <2>3, <2>4, <2>5, <2>6, <2>7, <2>8, <2>9, <2>10, <2>11, <2>12
    DEF RequestStep, RetryStep, CheckStep
<1>5. CASE Reset BY <1>5 DEF Reset, local
<1>6. CASE Restart BY <1>6 DEF Restart, Running, rows
<1>7. CASE UNCHANGED vars BY <1>7 DEF vars, rows, local
<1> QED BY <1>3, <1>4, <1>5, <1>6, <1>7, WhoSteps

-----------------------------------------------------------------------------
(* An upload and its tables *)

(* and what an upload owns. *)
LEMMA StepOwned ==
  ASSUME DeskInv, TypeOK', [Next]_vars, NEW u \in Uploads
  PROVE  Owned(u)'
<1>1. u \in Requests /\ Knows(u) /\ Owned(u) /\ TypeOK BY DEF DeskInv, Requests
<1>2. u \notin Retries BY JudgeAssumption
<1> USE <1>1, <1>2 DEF TypeOK, Owned, CheckSteps, ReceiveSteps
<1>3. ASSUME NEW r \in Requests, RequestStep(r), r # u PROVE Owned(u)'
  <2>1. pc'[u] = pc[u] /\ ws'[u] = ws[u] BY <1>3, OneMoves DEF OthersWait
  <2>2. Knows(r) /\ (r \in Retries => Found(r)) BY DEF DeskInv
  <2>3. CASE UNCHANGED rows BY <2>1, <2>3 DEF rows
  <2>4. CASE Receive(r) BY <1>3, <2>1, <2>4 DEF Receive
  <2>5. CASE CompareCase(r)
    <3>1. target[r] \in Uploads /\ (target[r] = u => run[u] # "NONE")
      BY <1>3, <2>2, <2>5 DEF CompareCase, Found, Knows, Requests
    <3> QED BY <2>1, <2>5, <3>1 DEF CompareCase
  <2>6. CASE RecordRun(r) BY <1>3, <2>1, <2>6 DEF RecordRun
  <2>7. CASE RecordRetry(r)
    <3>1. target[r] \in Uploads /\ outcome[r] \in Attempted BY <2>2, <2>7 DEF RecordRetry, Knows
    <3>2. CASE target[r] = u
      <4>1. /\ run[u] = "FAILED" /\ run'[u] = outcome[r] /\ attempt'[u] = attempt[u] + 1
            /\ UNCHANGED <<case, home>>
        BY <2>7, <3>2 DEF RecordRetry
      <4> QED BY <2>1, <3>1, <4>1 DEF Attempted
    <3>3. CASE target[r] # u BY <2>1, <2>7, <3>1, <3>3 DEF RecordRetry
    <3> QED BY <3>2, <3>3
  <2> QED BY <1>3, <2>3, <2>4, <2>5, <2>6, <2>7, OneMoves DEF Writes
<1>4. CASE RequestStep(u)
  <2> USE DEF rows
  <2>1. CASE BeginUpload(u) BY <2>1 DEF BeginUpload
  <2>2. CASE Accept(u) BY <2>2 DEF Accept, Goto, EndInSlot, End
  <2>3. CASE Receive(u) BY <2>3 DEF Receive, Received, AfterReceive, Goto
  <2>4. CASE RecordRun(u)
    <3>1. outcome[u] \in Attempted BY <2>4 DEF RecordRun, Knows
    <3> QED BY <2>4, <3>1 DEF RecordRun, Goto, Attempted
  <2>5. CASE AcquireSlot(u) BY <2>5 DEF AcquireSlot, Goto
  <2>6. CASE SlotTimeout(u) BY <2>6 DEF SlotTimeout, End
  <2>7. CASE LoadCase(u) \/ RecordDecisions(u) BY <2>7 DEF LoadCase, RecordDecisions, Goto
  <2>8. CASE ProviderGivesUp(u) BY <2>8 DEF ProviderGivesUp, Conclude
  <2>9. CASE CompareCase(u) BY <2>9 DEF CompareCase, Conclude, Knows
  <2>10. CASE AlreadyCompared(u) BY <2>10 DEF AlreadyCompared, EndInSlot, End, Knows
  <2>11. CASE Answer(u) \/ RetiredInSlot(u) BY <2>11 DEF Answer, RetiredInSlot, EndInSlot, End
  <2>12. CASE UnexpectedError(u) BY <2>12 DEF UnexpectedError, EndInSlot, End
  <2> QED
    BY <1>4, <2>1, <2>2, <2>3, <2>4, <2>5, <2>6, <2>7, <2>8, <2>9, <2>10, <2>11, <2>12
    DEF RequestStep, UploadStep, CheckStep
<1>5. CASE Reset BY <1>5 DEF Reset, local
<1>6. CASE Restart BY <1>6 DEF Restart, Running, rows
<1>7. CASE UNCHANGED vars BY <1>7 DEF vars, rows, local
<1> QED BY <1>3, <1>4, <1>5, <1>6, <1>7, WhoSteps

(* The two ways a step adds a row: it is the row of a request that has     *)
(* none, under the next number, and every earlier row says FAILED.         *)
Adds(r, u) ==
  /\ pc[r] = "record" /\ pc'[r] = "get" /\ outcome[r] \in Attempted
  /\ run[u] # "SUCCEEDED"
  /\ run' = [run EXCEPT ![u] = outcome[r]]
  /\ attempt' = [attempt EXCEPT ![u] = attempt[u] + 1]
  /\ log' = [log EXCEPT ![u] = log[u] \cup {LogRow(attempt[u] + 1, outcome[r], r)}]
  /\ UNCHANGED <<case, home>>

(* A step adds to one run or to none. *)
LEMMA OneAdds ==
  ASSUME DeskInv, NEW r \in Requests, RequestStep(r)
  PROVE  \/ UNCHANGED <<run, attempt, log>>
         \/ target[r] \in Uploads /\ Adds(r, target[r])
<1>1. TypeOK /\ Knows(r) /\ (r \in Uploads => Owned(r)) BY DEF DeskInv
<1>2. CASE RecordRun(r)
  BY <1>1, <1>2 DEF RecordRun, Goto, Adds, Knows, Owned, TypeOK
<1>3. CASE RecordRetry(r)
  BY <1>1, <1>3 DEF RecordRetry, Goto, Adds, Knows, TypeOK
<1> QED BY <1>1, <1>2, <1>3, OneMoves DEF Writes, Receive, CompareCase, rows

(* So it keeps who signed a row, *)
LEMMA StepSigned ==
  ASSUME DeskInv, TypeOK', [Next]_vars, NEW u \in Uploads
  PROVE  Signed(u)'
<1>1. Signed(u) /\ TypeOK BY DEF DeskInv
<1>2. \A row \in log[u] : row.by \in Requests BY <1>1 DEF TypeOK, LogRows
<1>3. ASSUME NEW r \in Requests, RequestStep(r) PROVE Signed(u)'
  <2>1. \A q \in Requests \ {r} : pc'[q] = pc[q] BY <1>1, <1>3, OneMoves DEF OthersWait
  <2>2. pc[r] \in {"get", "done"} => pc'[r] \in {"get", "done"}
    <3> USE <1>1 DEF TypeOK
    <3>1. pc[r] \in {"get", "done"} => Answer(r) \/ RetiredInSlot(r) \/ UnexpectedError(r)
      BY <1>3 DEF RequestStep, UploadStep, RetryStep, CheckStep, BeginUpload, Accept, Receive, RecordRun,
         BeginRetry, FindRun, RetiredBeforeSlot, RecordRetry, LoseRetry, AcquireSlot, SlotTimeout, LoadCase,
         RecordDecisions, ProviderGivesUp, CompareCase, AlreadyCompared, ReceiveSteps
    <3> QED BY <3>1 DEF Answer, RetiredInSlot, UnexpectedError, EndInSlot, End
  <2>3. CASE UNCHANGED <<run, attempt, log>> BY <1>1, <1>2, <2>1, <2>2, <2>3 DEF Signed
  <2>4. CASE target[r] \in Uploads /\ Adds(r, target[r])
    <3>1. \A row \in log'[u] : row \in log[u] \/ row.by = r
      BY <1>1, <2>4 DEF Adds, LogRow, TypeOK
    <3> QED BY <1>1, <1>2, <2>1, <2>2, <2>4, <3>1 DEF Adds, Signed
  <2> QED BY <1>3, <2>3, <2>4, OneAdds
<1>4. CASE Reset BY <1>1, <1>4 DEF Reset, local, Signed
<1>5. CASE Restart BY <1>1, <1>2, <1>5 DEF Restart, Running, rows, Signed
<1>6. CASE UNCHANGED vars BY <1>1, <1>6 DEF vars, rows, local, Signed
<1> QED BY <1>3, <1>4, <1>5, <1>6, WhoSteps

-----------------------------------------------------------------------------
(* The audit trail *)

(* what a request recorded, *)
LEMMA StepRecorded ==
  ASSUME DeskInv, TypeOK', [Next]_vars, NEW q \in Requests
  PROVE  Recorded(q)' /\ (Mine(q) # {} => Mine(q)' # {})
<1>1. Recorded(q) /\ TypeOK BY DEF DeskInv
<1>2. ASSUME NEW r \in Requests, RequestStep(r)
      PROVE  Recorded(q)' /\ (Mine(q) # {} => Mine(q)' # {})
  <2>1. CASE UNCHANGED <<run, attempt, log>>
    <3>1. Mine(q)' = Mine(q) BY <2>1 DEF Mine
    <3>2. pc'[q] = "get" => pc[q] = "get"
      <4>1. CASE q # r BY <1>2, <4>1, <1>1, OneMoves DEF OthersWait
      <4>2. CASE q = r
        <5>1. ~RecordRun(r) /\ ~RecordRetry(r)
          <6>1. \A u \in Uploads : attempt'[u] = attempt[u] /\ attempt[u] \in Nat BY <1>1, <2>1 DEF TypeOK
          <6>2. Knows(r) /\ (r \in Uploads => Owned(r)) BY DEF DeskInv
          <6> QED BY <6>1, <6>2, <1>1 DEF RecordRun, RecordRetry, Knows, Owned, TypeOK
        <5> QED
          BY <1>1, <1>2, <4>2, <5>1
          DEF TypeOK, RequestStep, UploadStep, RetryStep, CheckStep, BeginUpload, Accept, Receive, BeginRetry,
              FindRun, RetiredBeforeSlot, LoseRetry, AcquireSlot, SlotTimeout, LoadCase, RecordDecisions,
              ProviderGivesUp, CompareCase, AlreadyCompared, Answer, RetiredInSlot, UnexpectedError,
              ReceiveSteps, AfterReceive, Goto, End, EndInSlot, Conclude
      <4> QED BY <4>1, <4>2
    <3> QED BY <1>1, <3>1, <3>2 DEF Recorded
  <2>2. CASE target[r] \in Uploads /\ Adds(r, target[r])
    <3>1. /\ \A u \in Uploads : log[u] \subseteq log'[u]
          /\ LogRow(attempt[target[r]] + 1, outcome[r], r) \in log'[target[r]]
      BY <1>1, <2>2 DEF Adds, TypeOK
    <3>2. Mine(q) # {} => Mine(q)' # {} BY <3>1 DEF Mine
    <3>3. Mine(r)' # {} BY <2>2, <3>1 DEF Mine, LogRow
    <3>4. q # r => pc'[q] = pc[q] BY <1>1, <1>2, OneMoves DEF OthersWait
    <3> QED BY <1>1, <3>2, <3>3, <3>4 DEF Recorded
  <2> QED BY <1>2, <2>1, <2>2, OneAdds
<1>3. CASE Reset BY <1>1, <1>3 DEF Reset, local, Mine, Recorded
<1>4. CASE Restart BY <1>1, <1>4 DEF Restart, Running, rows, Mine, Recorded, TypeOK
<1>5. CASE UNCHANGED vars BY <1>1, <1>5 DEF vars, rows, local, Mine, Recorded
<1> QED BY <1>2, <1>3, <1>4, <1>5, WhoSteps

(* What LogMatchesRun says of one upload. *)
Story(u) ==
  /\ run[u] = "SUCCEEDED" => case[u] = "CLASSIFIED"
  /\ {row.number : row \in log[u]} = 1..attempt[u]
  /\ \A a, b \in log[u] : a.number = b.number \/ a.by = b.by => a = b
  /\ \A a \in log[u] : a.state = IF a.number = attempt[u] THEN run[u] ELSE "FAILED"

(* and the story the rows tell. *)
LEMMA StepStory ==
  ASSUME DeskInv, TypeOK', [Next]_vars, NEW u \in Uploads
  PROVE  Story(u)'
<1>1. Story(u) /\ TypeOK /\ Owned(u) /\ Signed(u) BY DEF DeskInv, LogMatchesRun, Story
<1>2. case[u] = "CLASSIFIED" => case'[u] = "CLASSIFIED" BY RowsStand
<1>3. /\ attempt[u] \in Nat /\ \A row \in log[u] : row.number \in 1..attempt[u]
      /\ \A row \in log[u] : row \in LogRows
  BY <1>1 DEF TypeOK, Story
<1>4. ASSUME NEW r \in Requests, RequestStep(r) PROVE Story(u)'
  <2>1. CASE UNCHANGED <<run[u], attempt[u], log[u]>> BY <1>1, <1>2, <2>1 DEF Story
  <2>2. CASE target[r] = u /\ Adds(r, u)
    <3> DEFINE new == LogRow(attempt[u] + 1, outcome[r], r)
    <3>1. /\ run'[u] = outcome[r] /\ attempt'[u] = attempt[u] + 1 /\ log'[u] = log[u] \cup {new}
          /\ case'[u] = case[u]
      BY <1>1, <2>2 DEF Adds, TypeOK
    <3>2. new.number = attempt[u] + 1 /\ new.state = outcome[r] /\ new.by = r BY DEF LogRow
    <3> HIDE DEF new
    <3>3. run'[u] = "SUCCEEDED" => case'[u] = "CLASSIFIED"
      BY <2>2, <3>1 DEF DeskInv, Knows
    <3>4. {row.number : row \in log'[u]} = 1..attempt'[u]
      <4>1. {row.number : row \in log'[u]} = {row.number : row \in log[u]} \cup {attempt[u] + 1}
        BY <3>1, <3>2
      <4>2. 1..(attempt[u] + 1) = (1..attempt[u]) \cup {attempt[u] + 1} BY <1>3
      <4> QED BY <1>1, <3>1, <4>1, <4>2 DEF Story
    <3>5. \A a \in log[u] : a.number # new.number /\ a.by # new.by
      BY <1>1, <1>3, <2>2, <3>2 DEF Signed, Adds
    <3>6. \A a, b \in log'[u] : a.number = b.number \/ a.by = b.by => a = b
      BY <1>1, <3>1, <3>5 DEF Story
    <3>7. \A a \in log[u] : a.state = "FAILED"
      <4>1. run[u] \in {"NONE", "FAILED"} BY <1>1, <2>2 DEF Adds, TypeOK, RunStates
      <4> QED BY <1>1, <4>1 DEF Story, Owned
    <3>8. \A a \in log'[u] : a.state = IF a.number = attempt'[u] THEN run'[u] ELSE "FAILED"
      BY <1>3, <3>1, <3>2, <3>5, <3>7
    <3> QED BY <3>3, <3>4, <3>6, <3>8 DEF Story
  <2>3. CASE target[r] # u /\ target[r] \in Uploads /\ Adds(r, target[r])
    BY <1>1, <2>1, <2>3 DEF Adds, TypeOK
  <2> QED BY <1>4, <2>1, <2>2, <2>3, OneAdds
<1>5. CASE Reset BY <1>1, <1>5 DEF Reset, Story
<1>6. CASE Restart BY <1>1, <1>6 DEF Restart, rows, Story
<1>7. CASE UNCHANGED vars BY <1>1, <1>7 DEF vars, rows, Story
<1> QED BY <1>4, <1>5, <1>6, <1>7, WhoSteps

-----------------------------------------------------------------------------
(* Answers *)

(* What RepliesTrue says of one request. *)
Truth(r) ==
  /\ reply[r] = "ok" => Mine(r) # {}
  /\ reply[r] = "already_succeeded" => run[target[r]] = "SUCCEEDED" /\ Mine(r) = {}
  /\ reply[r] = "session_reset" => ws[r] # generation
  /\ reply[r] = "check_error" => r \in broken
  /\ reply[r] \in {"busy", "rejected"} /\ r \in Uploads => case[r] = "ABSENT" /\ Mine(r) = {}
  /\ r \in Uploads /\ pc[r] \in {"load", "decide", "judge"} => case[r] = "BL_READY"

(* Who met an unexpected error is remembered. *)
LEMMA BrokenStays ==
  ASSUME [Next]_vars
  PROVE  broken \subseteq broken'
<1>1. ASSUME NEW r \in Requests, RequestStep(r) PROVE broken \subseteq broken'
  <2> USE DEF process, EndInSlot, Conclude
  <2>1. CASE r \in Uploads /\ (BeginUpload(r) \/ Accept(r) \/ Receive(r) \/ RecordRun(r))
    BY <2>1 DEF BeginUpload, Accept, Receive, RecordRun
  <2>2. CASE r \in Retries /\ (BeginRetry(r) \/ FindRun(r) \/ RetiredBeforeSlot(r))
    BY <2>2 DEF BeginRetry, FindRun, RetiredBeforeSlot
  <2>3. CASE r \in Retries /\ (RecordRetry(r) \/ LoseRetry(r))
    BY <2>3 DEF RecordRetry, LoseRetry
  <2>4. CASE AcquireSlot(r) \/ SlotTimeout(r) \/ LoadCase(r) \/ RecordDecisions(r)
    BY <2>4 DEF AcquireSlot, SlotTimeout, LoadCase, RecordDecisions
  <2>5. CASE ProviderGivesUp(r) \/ CompareCase(r) \/ AlreadyCompared(r)
    BY <2>5 DEF ProviderGivesUp, CompareCase, AlreadyCompared
  <2>6. CASE Answer(r) \/ RetiredInSlot(r) \/ UnexpectedError(r)
    BY <2>6 DEF Answer, RetiredInSlot, UnexpectedError
  <2> QED
    BY <1>1, <2>1, <2>2, <2>3, <2>4, <2>5, <2>6 DEF RequestStep, UploadStep, RetryStep, CheckStep
<1> QED BY <1>1, WhoSteps DEF Reset, Restart, vars, process

(* Nobody has a row before recording, and nobody else adds one. *)
LEMMA MineKept ==
  ASSUME DeskInv, NEW q \in Requests
  PROVE  /\ pc[q] \notin {"get", "done"} => Mine(q) = {}
         /\ [Next]_vars /\ pc[q] # "record" => Mine(q)' = Mine(q)
<1>1. pc[q] \notin {"get", "done"} => Mine(q) = {} BY DEF DeskInv, Mine, Signed
<1>2. ASSUME [Next]_vars, pc[q] # "record" PROVE Mine(q)' = Mine(q)
  <2>1. CASE UNCHANGED log BY <2>1 DEF Mine
  <2>2. ASSUME NEW r \in Requests, target[r] \in Uploads /\ Adds(r, target[r]) PROVE Mine(q)' = Mine(q)
    <3>1. \A u \in Uploads :
            log'[u] = log[u] \/ log'[u] = log[u] \cup {LogRow(attempt[u] + 1, outcome[r], r)}
      BY <2>2 DEF DeskInv, TypeOK, Adds
    <3>2. r # q BY <1>2, <2>2 DEF Adds
    <3> QED BY <3>1, <3>2 DEF Mine, LogRow
  <2> QED BY <1>2, <2>1, <2>2, WhoSteps, OneAdds DEF Reset, Restart, vars, rows
<1> QED BY <1>1, <1>2

(* It keeps every reply true. *)
LEMMA StepTruth ==
  ASSUME DeskInv, TypeOK', [Next]_vars, NEW q \in Requests
  PROVE  Truth(q)'
<1>1. /\ Truth(q) /\ TypeOK /\ Knows(q) /\ Recorded(q) /\ (q \in Uploads => Owned(q))
      /\ (q \in Retries => Found(q))
  BY DEF DeskInv, RepliesTrue, Truth, Mine
<1>2. /\ \A u \in Uploads : run[u] = "SUCCEEDED" => run'[u] = "SUCCEEDED"
      /\ q \in Uploads /\ case[q] = "ABSENT" /\ pc[q] = "done" => case'[q] = "ABSENT"
  BY RowsStand
<1>3. /\ Mine(q) # {} => Mine(q)' # {}
      /\ pc[q] \notin {"get", "done"} => Mine(q) = {}
      /\ pc[q] # "record" => Mine(q)' = Mine(q)
  BY StepRecorded, MineKept
<1>4. q \in Uploads => Owned(q)' BY StepOwned
<1>5. q \in Uploads /\ pc'[q] \in {"load", "decide", "judge"} => case'[q] = "BL_READY"
  BY <1>4 DEF Owned, CheckSteps
<1> USE BrokenStays
<1>6. ASSUME reply'[q] = reply[q], target'[q] = target[q], reply[q] # "none",
             ws'[q] = ws[q], ws[q] = generation \/ generation' = generation \/ generation' = generation + 1
      PROVE  Truth(q)'
  <2>1. pc[q] = "done" /\ target[q] \in Uploads BY <1>1, <1>6 DEF Knows
  <2>2. ws[q] # generation => ws'[q] # generation' BY <1>1, <1>6 DEF Knows, TypeOK, Generations
  <2> QED BY <1>1, <1>2, <1>3, <1>5, <1>6, <2>1, <2>2 DEF Truth
<1>7. CASE reply'[q] = "none" \/ reply'[q] = "lost" BY <1>5, <1>7 DEF Truth
<1>8. ASSUME NEW r \in Requests, RequestStep(r) PROVE Truth(q)'
  <2>1. CASE q # r
    <3>1. /\ reply'[q] = reply[q] /\ target'[q] = target[q] /\ ws'[q] = ws[q]
          /\ generation' = generation
      BY <1>1, <1>8, <2>1, OneMoves DEF OthersWait
    <3> QED BY <1>6, <1>7, <3>1
  <2>2. CASE q = r
    <3> USE <1>1, <1>2, <1>3, <1>5, <1>7, <2>2 DEF TypeOK, Truth
    <3>1. CASE q \in Uploads /\ BeginUpload(q) BY <3>1 DEF BeginUpload, Knows
    <3>2. CASE q \in Uploads /\ Accept(q)
      BY <3>2 DEF Accept, Goto, EndInSlot, End, Knows, Owned, rows
    <3>3. CASE q \in Uploads /\ Receive(q) BY <3>3 DEF Receive, Goto, Knows, ReceiveSteps
    <3>4. CASE q \in Uploads /\ RecordRun(q) BY <3>4 DEF RecordRun, Goto, Knows
    <3>5. CASE q \in Retries /\ BeginRetry(q) BY <3>5 DEF BeginRetry, Knows
    <3>6. CASE q \in Retries /\ FindRun(q)
      <4>1. pc[q] = "find" /\ target[q] \in Uploads /\ reply[q] = "none" BY <3>6 DEF FindRun, Knows
      <4> QED BY <3>6, <4>1, JudgeAssumption DEF FindRun, Goto, End, rows
    <3>7. CASE q \in Retries /\ RetiredBeforeSlot(q)
      BY <3>7 DEF RetiredBeforeSlot, End, Active, rows
    <3>8. CASE q \in Retries /\ RecordRetry(q) BY <3>8 DEF RecordRetry, Goto, Knows
    <3>9. CASE q \in Retries /\ LoseRetry(q)
      <4>1. run[target[q]] = "SUCCEEDED" /\ target[q] \in Uploads
        BY <3>9 DEF LoseRetry, Found, Knows, RunStates
      <4>2. Mine(q)' = Mine(q) BY <3>9 DEF LoseRetry, rows, Mine
      <4> QED BY <3>9, <4>1, <4>2 DEF LoseRetry, EndInSlot, End
    <3>10. CASE AcquireSlot(q) BY <3>10 DEF AcquireSlot, Goto, Knows
    <3>11. CASE SlotTimeout(q) BY <3>11 DEF SlotTimeout, End, Owned, rows
    <3>12. CASE LoadCase(q) \/ RecordDecisions(q) BY <3>12 DEF LoadCase, RecordDecisions, Goto, Knows
    <3>13. CASE ProviderGivesUp(q) \/ CompareCase(q)
      BY <3>13 DEF ProviderGivesUp, CompareCase, Conclude, Knows
    <3>14. CASE AlreadyCompared(q)
      <4>1. q \in Retries BY <3>14 DEF AlreadyCompared, Owned, Knows, CheckSteps, Requests
      <4> QED BY <3>14, <4>1 DEF AlreadyCompared, Conclude, Knows
    <3>15. CASE Answer(q) BY <3>15 DEF Answer, EndInSlot, End, Recorded
    <3>16. CASE RetiredInSlot(q)
      BY <3>16 DEF RetiredInSlot, EndInSlot, End, Active, rows
    <3>17. CASE UnexpectedError(q) BY <3>17 DEF UnexpectedError, EndInSlot, End
    <3> QED
      BY <1>8, <3>1, <3>2, <3>3, <3>4, <3>5, <3>6, <3>7, <3>8, <3>9, <3>10, <3>11, <3>12, <3>13,
         <3>14, <3>15, <3>16, <3>17
      DEF RequestStep, UploadStep, RetryStep, CheckStep
  <2> QED BY <2>1, <2>2
<1>9. CASE Reset BY <1>6, <1>7, <1>9 DEF Reset, local
<1>10. CASE Restart
  <2>1. reply'[q] = "lost" \/ reply'[q] = reply[q] BY <1>1, <1>10 DEF Restart, TypeOK
  <2> QED BY <1>6, <1>7, <1>10, <2>1 DEF Restart, rows
<1>11. CASE UNCHANGED vars BY <1>6, <1>7, <1>11 DEF vars, rows, local
<1> QED BY <1>8, <1>9, <1>10, <1>11, WhoSteps

-----------------------------------------------------------------------------
(* The invariant *)

(* The invariant holds at the start, *)
LEMMA DeskInvHolds == Init => DeskInv
<1> SUFFICES ASSUME Init PROVE DeskInv OBVIOUS
<1>1. TypeOK
  BY JudgeAssumption
  DEF Init, TypeOK, Generations, CaseStates, RunStates, Steps, Replies
<1>2. SlotsCounted
  <2>1. Holding = {} BY DEF Init, Holding, InSlot, ReceiveSteps, CheckSteps
  <2>2. free = Slots BY DEF Init
  <2>3. IsFiniteSet(Holding) /\ Cardinality(Holding) = 0 BY <2>1, FS_EmptySet
  <2> QED BY <2>2, <2>3, JudgeAssumption DEF SlotsCounted, SlotsConserved, Holding
<1>3. \A r \in Requests : Knows(r) /\ Recorded(r)
  BY DEF Init, Knows, Recorded, ReceiveSteps, CheckSteps
<1>4. \A r \in Retries : Found(r) BY DEF Init, Found, CheckSteps, Requests
<1>5. \A u \in Uploads : Owned(u) /\ Signed(u)
  BY DEF Init, Owned, Signed, CheckSteps, Requests
<1>6. LogMatchesRun
  <2>1. 1..0 = {} OBVIOUS
  <2> QED BY <2>1 DEF Init, LogMatchesRun
<1>7. RepliesTrue BY DEF Init, RepliesTrue
<1> QED BY <1>1, <1>2, <1>3, <1>4, <1>5, <1>6, <1>7 DEF DeskInv

(* is kept by every step, *)
LEMMA DeskInvKept == DeskInv /\ [Next]_vars => DeskInv'
<1> SUFFICES ASSUME DeskInv, [Next]_vars PROVE DeskInv' OBVIOUS
<1>1. TypeOK' BY StepTypes
<1>2. SlotsCounted' BY SlotsStayCounted
<1>3. \A r \in Requests : Knows(r)' /\ Recorded(r)' BY <1>1, StepKnows, StepRecorded
<1>4. \A r \in Retries : Found(r)' BY <1>1, StepFound
<1>5. \A u \in Uploads : Owned(u)' /\ Signed(u)' BY <1>1, StepOwned, StepSigned
<1>6. LogMatchesRun' BY <1>1, StepStory DEF LogMatchesRun, Story
<1>7. RepliesTrue' BY <1>1, StepTruth DEF RepliesTrue, Truth, Mine
<1> QED BY <1>1, <1>2, <1>3, <1>4, <1>5, <1>6, <1>7 DEF DeskInv

(* and so always holds. *)
LEMMA DeskInvAlways == Spec => []DeskInv
<1> QED BY DeskInvHolds, DeskInvKept, PTL DEF Spec

-----------------------------------------------------------------------------
(* The refinement *)

Sealed == {u \in Uploads : case[u] # "ABSENT" /\ home[u] # generation}

(* A workspace that was retired stays retired, and takes no upload. *)
LEMMA SealedGrows ==
  ASSUME DeskInv, [Next]_vars
  PROVE  \/ Sealed' = Sealed
         \/ Sealed \subseteq Sealed' /\ UNCHANGED <<run, attempt>>
<1>1. TypeOK /\ (\A u \in Uploads : Owned(u)) /\ (\A r \in Requests : Knows(r)) BY DEF DeskInv
<1> USE <1>1 DEF TypeOK, Sealed
<1>2. ASSUME NEW r \in Requests, RequestStep(r) PROVE Sealed' = Sealed
  <2>1. generation' = generation BY <1>2, OneMoves DEF OthersWait
  <2>2. CASE UNCHANGED rows BY <2>2 DEF rows
  <2>3. CASE r \in Uploads /\ Receive(r)
    <3>1. ws[r] = generation /\ (case[r] # "ABSENT" => home[r] = ws[r])
      BY <2>3 DEF Receive, Active, Owned
    <3>2. \A u \in Uploads \ {r} : case'[u] = case[u] /\ home'[u] = home[u] BY <2>3 DEF Receive
    <3>3. home'[r] = generation BY <2>3, <3>1 DEF Receive
    <3> QED BY <2>1, <3>1, <3>2, <3>3
  <2>4. CASE CompareCase(r)
    <3>1. target[r] \in Uploads BY <2>4 DEF CompareCase, Knows
    <3>2. \A u \in Uploads : case'[u] # "ABSENT" <=> case[u] # "ABSENT" BY <2>4, <3>1 DEF CompareCase
    <3> QED BY <2>1, <2>4, <3>2 DEF CompareCase
  <2>5. CASE RecordRun(r) \/ RecordRetry(r) BY <2>1, <2>5 DEF RecordRun, RecordRetry
  <2> QED BY <1>2, <2>2, <2>3, <2>4, <2>5, OneMoves DEF Writes
<1>3. CASE Reset
  <2>1. \A u \in Uploads : case[u] # "ABSENT" => home[u] <= generation
    BY DEF Owned, Knows, Requests
  <2>2. generation \in Nat /\ \A u \in Uploads : home[u] \in Nat BY DEF Generations
  <2> QED BY <1>3, <2>1, <2>2 DEF Reset
<1>4. CASE Restart BY <1>4 DEF Restart, rows
<1>5. CASE UNCHANGED vars BY <1>5 DEF vars, rows
<1> QED BY <1>2, <1>3, <1>4, <1>5, WhoSteps

(* The first state is one of RunLedger, *)
LEMMA RefinedInit == Init => Ledger!Init
  BY DEF Init, Ledger!Init

(* and every step one of its steps, or none. *)
LEMMA RefinedStep == DeskInv /\ [Next]_vars => [Ledger!Next]_Ledger!vars
<1> SUFFICES ASSUME DeskInv, [Next]_vars PROVE [Ledger!Next]_Ledger!vars OBVIOUS
<1>1. TypeOK BY DEF DeskInv
<1>2. \/ Sealed' = Sealed
      \/ Sealed \subseteq Sealed' /\ Sealed' \subseteq Uploads /\ UNCHANGED <<run, attempt>>
  BY SealedGrows DEF Sealed
<1>3. CASE UNCHANGED <<run, attempt>>
  <2>1. Sealed' = Sealed => UNCHANGED Ledger!vars BY <1>3 DEF Ledger!vars, Sealed
  <2>2. ASSUME Sealed \subseteq Sealed', Sealed' \subseteq Uploads PROVE Ledger!Seal
    <3>1. Sealed' = Sealed \cup Sealed' BY <2>2
    <3> QED BY <1>3, <2>2, <3>1 DEF Ledger!Seal, Sealed
  <2> QED BY <1>2, <1>3, <2>1, <2>2 DEF Ledger!Next
<1>4. ASSUME NEW r \in Requests, RequestStep(r), ~UNCHANGED <<run, attempt>> PROVE Ledger!Next
  <2>1. Knows(r) /\ (r \in Uploads => Owned(r)) /\ (r \in Retries => Found(r)) BY DEF DeskInv
  <2>2. Sealed' = Sealed BY <1>2, <1>4
  <2>3. CASE RecordRun(r)
    <3>1. /\ r \in Uploads /\ outcome[r] \in Attempted /\ run[r] = "NONE"
          /\ case[r] # "ABSENT" /\ home[r] = generation
      BY <1>1, <2>1, <2>3 DEF RecordRun, Active, Knows, Owned
    <3>2. r \notin Sealed BY <3>1 DEF Sealed
    <3>3. Ledger!Record(r)
      BY <2>2, <2>3, <3>1, <3>2 DEF Ledger!Record, Ledger!Outcomes, Attempted, RecordRun, Sealed
    <3> QED BY <3>1, <3>3 DEF Ledger!Next
  <2>4. CASE RecordRetry(r)
    <3>1. /\ target[r] \in Uploads /\ outcome[r] \in Attempted /\ run[target[r]] = "FAILED"
          /\ home[target[r]] = generation
      BY <1>1, <2>1, <2>4 DEF RecordRetry, Active, Knows, Found
    <3>2. target[r] \notin Sealed BY <3>1 DEF Sealed
    <3>3. Ledger!Retry(target[r])
      BY <2>2, <2>4, <3>1, <3>2 DEF Ledger!Retry, Ledger!Outcomes, Attempted, RecordRetry, Sealed
    <3> QED BY <3>1, <3>3 DEF Ledger!Next
  <2> QED BY <1>1, <1>4, <2>3, <2>4, OneMoves DEF Writes, Receive, CompareCase, rows
<1>5. Reset \/ Restart \/ UNCHANGED vars => UNCHANGED <<run, attempt>>
  BY DEF Reset, Restart, vars, rows
<1> QED BY <1>3, <1>4, <1>5, WhoSteps

-----------------------------------------------------------------------------
(* Theorems *)

(* Every variable keeps its type, for any requests, slots and generations. *)
THEOREM DeskTypeCorrect == Spec => []TypeOK
<1>1. DeskInv => TypeOK BY DEF DeskInv
<1> QED BY <1>1, DeskInvAlways, PTL

(* No slot is lost or made up, however a check ends (the finally of        *)
(* JudgeService._slot), and however many requests there are.               *)
THEOREM SlotsNeverLost == Spec => []SlotsConserved
<1>1. DeskInv => SlotsConserved BY DEF DeskInv, SlotsCounted
<1> QED BY <1>1, DeskInvAlways, PTL

(* However many retries race, the audit trail tells each attempt once and  *)
(* ends with the run as it is (record_judge_run, record_judge_retry).      *)
THEOREM TrailMatchesRun == Spec => []LogMatchesRun
<1>1. DeskInv => LogMatchesRun BY DEF DeskInv
<1> QED BY <1>1, DeskInvAlways, PTL

(* No answer of the judge routes claims what is not so. *)
THEOREM AnswersTrue == Spec => []RepliesTrue
<1>1. DeskInv => RepliesTrue BY DEF DeskInv
<1> QED BY <1>1, DeskInvAlways, PTL

(* The judge-run tables implement the ledger of runs: no attempt is        *)
(* recorded after a success, twice, or into a retired workspace.           *)
THEOREM ImplementsLedger == Spec => LedgerSpec
<1>1. Init => Ledger!Init BY RefinedInit
<1>2. DeskInv /\ [Next]_vars => [Ledger!Next]_Ledger!vars BY RefinedStep
<1> QED BY <1>1, <1>2, DeskInvAlways, PTL DEF Spec, LedgerSpec, Ledger!Spec

=============================================================================
