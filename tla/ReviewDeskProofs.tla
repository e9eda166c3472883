-------------------------- MODULE ReviewDeskProofs --------------------------
(***************************************************************************)
(* Proofs about ReviewDesk, for any requests, seed records and resets:     *)
(* copies are complete, a case is decided once, an exception shown         *)
(* resolved stays, and answers are true.  The inductive invariant adds     *)
(* what a request may rely on between two of its transactions (Knows), and *)
(* that the times of the transactions differ (Clocked).                    *)
(***************************************************************************)
EXTENDS ReviewDesk, FiniteSetTheorems, TLAPS

(* The copies a request needs before it may act. *)
Wanted(r) == IF r \in CaseRequests THEN {target[r]} ELSE References[target[r]]

(* The steps at which the exception a request acts on is copied. *)
HasSteps == {"find again", "begin", "act", "retired", "refused", "view"}

(* Where a request may be, and for what. *)
Placed(r) ==
  /\ r \in CaseRequests => pc[r] \in {"new", "done"} \cup CopySteps \cup CaseSteps
  /\ r \in ExceptionRequests => pc[r] \in {"new", "done"} \cup CopySteps \cup ExceptionSteps
  /\ r \in CaseRequests /\ pc[r] # "new" => target[r] \in SeedCases
  /\ r \in ExceptionRequests /\ pc[r] # "new" => target[r] \in SeedExceptions

(* What a request knows of the copies it made or found. *)
Prepared(r) ==
  /\ pc[r] \in CopySteps => todo[r] # {}
  /\ pc[r] \in {"decide", "persist"} => todo[r] = {}
  /\ pc[r] \in CopySteps \cup {"decide", "find", "import", "persist"} =>
       Wanted(r) \subseteq todo[r] \cup copies[ws[r]]
  /\ pc[r] = "copy" => Copying(r) \in receipts[ws[r]]
  /\ pc[r] = "again" => Copying(r) \in copies[ws[r]]
  /\ r \in ExceptionRequests /\ pc[r] \in CopySteps \cup {"persist"} => ws[r] \in shipments
  /\ pc[r] \in HasSteps => HasException(r)

(* What a request knows of its action, and of what refused it. *)
Acted(r) ==
  /\ pc[r] \notin {"status", "view", "done"} => ~Mine(r)
  /\ pc[r] \in {"status", "view"} => Mine(r)
  /\ pc[r] = "reread" => ws[r] # generation \/ decided[ws[r]][target[r]] # {}
  /\ pc[r] = "refused" => IsResolved(ws[r], target[r])
  /\ pc[r] = "retired" => ws[r] # generation
  /\ pc[r] \notin {"act", "retired", "refused", "view", "done"} => stamp[r] = 0
  /\ pc[r] = "act" => stamp[r] # 0

Knows(r) ==
  /\ ws[r] <= generation
  /\ pc[r] # "done" => reply[r] = "none"
  /\ Placed(r) /\ Prepared(r) /\ Acted(r)

(* What CopiesComplete and OneDecision say of one workspace. *)
Complete(g) ==
  /\ copies[g] \subseteq receipts[g]
  /\ results[g] # {} => g \in shipments
  /\ \A x \in results[g] : References[x] \subseteq copies[g]
  /\ \A x \in results[g] \cap Queued : rows[g][x] # {}
  /\ \A x \in SeedExceptions \ results[g] : rows[g][x] = {}
  /\ \A c \in SeedCases \ copies[g] : decided[g][c] = {}

DecidedOnce(g) == \A c \in SeedCases : \A r, s \in decided[g][c] : r = s

(* The requests whose transaction has begun, and its time. *)
Stamped == {r \in ExceptionRequests : stamp[r] # 0}

Clocked ==
  /\ clock = Cardinality(Stamped)
  /\ \A r \in Requests : stamp[r] <= clock
  /\ \A r, s \in Requests : r # s /\ stamp[r] # 0 => stamp[r] # stamp[s]
  /\ \A g \in Generations, x \in SeedExceptions : \A row \in rows[g][x] : row.at <= clock

(* What RepliesTrue says of one request. *)
Truth(r) ==
  /\ reply[r] # "error"
  /\ reply[r] = "ok" => Mine(r)
  /\ reply[r] = "already_settled" => decided[ws[r]][target[r]] # {} /\ ~Mine(r)
  /\ reply[r] = "already_resolved" => IsResolved(ws[r], target[r]) /\ ~Mine(r)
  /\ reply[r] = "session_reset" => ws[r] # generation

(* Who may be told what. *)
Addressed(r) ==
  /\ reply[r] = "already_settled" => r \in CaseRequests
  /\ reply[r] = "already_resolved" => r \in ExceptionRequests

(* The inductive invariant. *)
ReviewInv ==
  /\ TypeOK /\ Clocked
  /\ \A r \in Requests : Knows(r) /\ Truth(r) /\ Addressed(r)
  /\ \A g \in Generations : Complete(g) /\ DecidedOnce(g)

-----------------------------------------------------------------------------
(* Steps *)

RequestStep(r) ==
  \/ r \in CaseRequests /\ BeginCase(r)
  \/ r \in ExceptionRequests /\ BeginException(r)
  \/ Progress(r) \/ Crash(r)

(* A step is one of a request, or a reset. *)
LEMMA WhoSteps ==
  ASSUME [Next]_vars
  PROVE  (\E r \in Requests : RequestStep(r)) \/ Reset \/ UNCHANGED vars
  BY DEF Next, RequestStep, Finished, Requests

(* A request moves alone. *)
OthersWait(r) ==
  /\ generation' = generation
  /\ \A q \in Requests \ {r} :
       /\ pc'[q] = pc[q] /\ ws'[q] = ws[q] /\ target'[q] = target[q] /\ todo'[q] = todo[q]
       /\ stamp'[q] = stamp[q] /\ verb'[q] = verb[q] /\ reply'[q] = reply[q]

(* A step writes one of the tables of its workspace, or none. *)
Writes(r) ==
  \/ UNCHANGED tables
  \/ CopyReceipt(r) \/ CopyCase(r) \/ Decide(r) \/ ImportShipments(r) \/ PersistException(r) \/ Act(r)

(* Only BeginTransaction takes a time, and a verb is chosen once. *)
Ticks(r) ==
  \/ UNCHANGED <<clock, stamp>> /\ (verb' = verb \/ pc[r] = "new")
  \/ BeginTransaction(r)

(* It does, writes its own rows, and takes a time at most once. *)
LEMMA OneMoves ==
  ASSUME TypeOK, NEW r \in Requests, RequestStep(r)
  PROVE  OthersWait(r) /\ Writes(r) /\ Ticks(r)
<1> USE DEF TypeOK, OthersWait, Writes, Ticks, Goto, End, CaseEnsured, local
<1>1. CASE BeginCase(r) BY <1>1 DEF BeginCase, tables
<1>2. CASE BeginException(r) BY <1>2 DEF BeginException, tables
<1>3. CASE HasCase(r) BY <1>3 DEF HasCase, tables
<1>4. CASE CopyReceipt(r) BY <1>4 DEF CopyReceipt
<1>5. CASE CopyCase(r) BY <1>5 DEF CopyCase
<1>6. CASE HasCaseAgain(r) BY <1>6 DEF HasCaseAgain, tables
<1>7. CASE Decide(r) BY <1>7 DEF Decide
<1>8. CASE ReadStatus(r) BY <1>8 DEF ReadStatus, tables
<1>9. CASE RereadStatus(r) BY <1>9 DEF RereadStatus, tables
<1>10. CASE FindException(r) BY <1>10 DEF FindException, tables
<1>11. CASE ImportShipments(r) BY <1>11 DEF ImportShipments
<1>12. CASE PersistException(r) BY <1>12 DEF PersistException
<1>13. CASE FindExceptionAgain(r) BY <1>13 DEF FindExceptionAgain, tables
<1>14. CASE BeginTransaction(r) BY <1>14 DEF BeginTransaction, tables
<1>15. CASE Act(r) BY <1>15 DEF Act
<1>16. CASE RefuseAct(r) BY <1>16 DEF RefuseAct, tables
<1>17. CASE ExplainRefusal(r) BY <1>17 DEF ExplainRefusal, tables
<1>18. CASE ViewException(r) BY <1>18 DEF ViewException, tables
<1>19. CASE Retired(r) BY <1>19 DEF Retired, tables
<1>20. CASE Crash(r) BY <1>20 DEF Crash, tables
<1> QED
  BY <1>1, <1>2, <1>3, <1>4, <1>5, <1>6, <1>7, <1>8, <1>9, <1>10, <1>11, <1>12, <1>13, <1>14,
     <1>15, <1>16, <1>17, <1>18, <1>19, <1>20
  DEF RequestStep, Progress, EnsureCase, CaseAction, ExceptionAction

(* The case being copied is one of those to be copied. *)
LEMMA CopyingOne ==
  ASSUME TypeOK, NEW r \in Requests, todo[r] # {}
  PROVE  Copying(r) \in todo[r] /\ Copying(r) \in SeedCases
  BY DEF TypeOK, Copying

-----------------------------------------------------------------------------
(* What stands *)

(* What each transaction writes into a workspace, at most. *)
LEMMA WrittenRows ==
  ASSUME ReviewInv, NEW r \in Requests, RequestStep(r)
  PROVE  \A g \in Generations, x \in SeedExceptions :
           \/ rows'[g][x] = rows[g][x]
           \/ /\ pc[r] = "act" /\ r \in ExceptionRequests /\ ~IsResolved(g, x)
              /\ g = generation
              /\ rows'[g][x] = rows[g][x] \cup {[at |-> stamp[r], state |-> verb[r]]}
           \/ /\ rows[g][x] = {} /\ rows'[g][x] = {[at |-> 0, state |-> "OPEN"]}
              /\ g = generation
<1>1. TypeOK /\ Knows(r) /\ ws[r] \in Generations BY DEF ReviewInv, TypeOK
<1> USE <1>1 DEF TypeOK
<1>2. CASE UNCHANGED tables BY <1>2 DEF tables
<1>3. CASE Act(r)
  <2>1. /\ pc[r] = "act" /\ ws[r] = generation /\ ~IsResolved(ws[r], target[r])
        /\ rows' = [rows EXCEPT ![ws[r]][target[r]] =
                      rows[ws[r]][target[r]] \cup {[at |-> stamp[r], state |-> verb[r]]}]
    BY <1>3 DEF Act, Active, MayAct
  <2>2. r \in ExceptionRequests
    BY <2>1 DEF Knows, Placed, Requests, CopySteps, CaseSteps
  <2> QED BY <2>1, <2>2
<1>4. CASE PersistException(r)
  <2>1. ws[r] = generation BY <1>4 DEF PersistException, Active
  <2>2. CASE rows' = rows BY <2>2
  <2>3. CASE rows' # rows
    <3>1. /\ rows' = [rows EXCEPT ![ws[r]][target[r]] = {[at |-> 0, state |-> "OPEN"]}]
          /\ target[r] \notin results[ws[r]]
      BY <1>4, <2>3 DEF PersistException, HasException
    <3>2. pc[r] = "persist" BY <1>4 DEF PersistException
    <3>3. target[r] \in SeedExceptions
      BY <3>2 DEF Knows, Placed, Requests, CopySteps, CaseSteps
    <3>4. rows[ws[r]][target[r]] = {} BY <3>1, <3>3 DEF ReviewInv, Complete
    <3> QED BY <2>1, <3>1, <3>4
  <2> QED BY <2>2, <2>3
<1>5. CASE CopyReceipt(r) BY <1>5 DEF CopyReceipt
<1>6. CASE CopyCase(r) BY <1>6 DEF CopyCase
<1>7. CASE Decide(r) BY <1>7 DEF Decide
<1>8. CASE ImportShipments(r) BY <1>8 DEF ImportShipments
<1> QED BY <1>1, <1>2, <1>3, <1>4, <1>5, <1>6, <1>7, <1>8, OneMoves DEF Writes

(* A step decides one case that is copied and undecided, or none. *)
LEMMA WrittenDecisions ==
  ASSUME ReviewInv, NEW r \in Requests, RequestStep(r)
  PROVE  \A g \in Generations, c \in SeedCases :
           \/ decided'[g][c] = decided[g][c]
           \/ /\ decided[g][c] = {} /\ decided'[g][c] = {r} /\ c \in copies[g]
              /\ r \in CaseRequests /\ pc[r] = "decide" /\ g = ws[r] /\ c = target[r]
<1>1. TypeOK /\ Knows(r) /\ ws[r] \in Generations BY DEF ReviewInv, TypeOK
<1> USE <1>1 DEF TypeOK
<1>2. CASE Decide(r)
  <2>1. CASE decided' = decided BY <2>1
  <2>2. CASE decided' # decided
    <3>1. /\ decided' = [decided EXCEPT ![ws[r]][target[r]] = decided[ws[r]][target[r]] \cup {r}]
          /\ MayDecide(r) /\ pc[r] = "decide"
      BY <1>2, <2>2 DEF Decide
    <3>2. r \in CaseRequests BY <3>1 DEF Knows, Placed, Requests, CopySteps, ExceptionSteps
    <3> QED BY <3>1, <3>2 DEF MayDecide
  <2> QED BY <2>1, <2>2
<1>3. decided' = decided \/ Decide(r)
  <2>1. CASE UNCHANGED tables BY <2>1 DEF tables
  <2> QED BY <1>1, <2>1, OneMoves
    DEF Writes, CopyReceipt, CopyCase, ImportShipments, PersistException, Act
<1> QED BY <1>2, <1>3

(* A table that a row is added to keeps its type, *)
LEMMA AddsTyped ==
  ASSUME NEW S, NEW T, NEW f \in [S -> SUBSET T], NEW k \in S, NEW v \in T
  PROVE  [f EXCEPT ![k] = f[k] \cup {v}] \in [S -> SUBSET T]
  OBVIOUS

(* and so does one with a set replaced. *)
LEMMA SetsTyped ==
  ASSUME NEW S, NEW U, NEW T, NEW f \in [S -> [U -> SUBSET T]], NEW k \in S, NEW u \in U,
         NEW w \in SUBSET T
  PROVE  [f EXCEPT ![k][u] = w] \in [S -> [U -> SUBSET T]]
  OBVIOUS

(* It grows. *)
LEMMA Grown ==
  ASSUME NEW S, NEW T, NEW f \in [S -> T], NEW k, NEW v, NEW g \in S
  PROVE  f[g] \subseteq [f EXCEPT ![k] = f[k] \cup v][g]
  OBVIOUS

(* No step takes back a copy, a decision, or a row. *)
LEMMA TablesStand ==
  ASSUME ReviewInv, [Next]_vars, NEW g \in Generations
  PROVE  /\ receipts[g] \subseteq receipts'[g] /\ copies[g] \subseteq copies'[g]
         /\ results[g] \subseteq results'[g] /\ shipments \subseteq shipments'
         /\ \A c \in SeedCases : decided[g][c] \subseteq decided'[g][c]
         /\ \A x \in SeedExceptions : rows[g][x] \subseteq rows'[g][x]
         /\ \A x \in SeedExceptions : IsResolved(g, x) => rows'[g][x] = rows[g][x]
<1>1. TypeOK BY DEF ReviewInv
<1>2. ASSUME NEW r \in Requests, RequestStep(r)
      PROVE  /\ receipts[g] \subseteq receipts'[g] /\ copies[g] \subseteq copies'[g]
             /\ results[g] \subseteq results'[g] /\ shipments \subseteq shipments'
  <2>1. ws[r] \in Generations BY <1>1 DEF TypeOK
  <2> USE <1>1, <2>1 DEF TypeOK
  <2>2. CASE UNCHANGED tables BY <2>2 DEF tables
  <2>3. CASE CopyReceipt(r) BY <2>3 DEF CopyReceipt
  <2>4. CASE CopyCase(r)
    <3>1. copies' = copies \/ copies' = [copies EXCEPT ![ws[r]] = copies[ws[r]] \cup {Copying(r)}]
      BY <2>4 DEF CopyCase
    <3>2. copies \in [Generations -> SUBSET SeedCases] OBVIOUS
    <3>3. copies[g] \subseteq [copies EXCEPT ![ws[r]] = copies[ws[r]] \cup {Copying(r)}][g] BY <3>2, Grown
    <3>4. copies[g] \subseteq copies'[g] BY <3>1, <3>3
    <3> QED BY <2>4, <3>4 DEF CopyCase
  <2>5. CASE Decide(r) BY <2>5 DEF Decide
  <2>6. CASE ImportShipments(r) BY <2>6 DEF ImportShipments
  <2>7. CASE PersistException(r)
    <3>1. results' = results \/ results' = [results EXCEPT ![ws[r]] = results[ws[r]] \cup {target[r]}]
      BY <2>7 DEF PersistException
    <3>2. results \in [Generations -> SUBSET SeedExceptions] OBVIOUS
    <3>3. results[g] \subseteq [results EXCEPT ![ws[r]] = results[ws[r]] \cup {target[r]}][g] BY <3>2, Grown
    <3>4. results[g] \subseteq results'[g] BY <3>1, <3>3
    <3> QED BY <2>7, <3>4 DEF PersistException
  <2>8. CASE Act(r) BY <2>8 DEF Act
  <2> QED BY <1>2, <2>2, <2>3, <2>4, <2>5, <2>6, <2>7, <2>8, OneMoves DEF Writes
<1>3. ASSUME NEW r \in Requests, RequestStep(r)
      PROVE  /\ \A c \in SeedCases : decided[g][c] \subseteq decided'[g][c]
             /\ \A x \in SeedExceptions : rows[g][x] \subseteq rows'[g][x]
             /\ \A x \in SeedExceptions : IsResolved(g, x) => rows'[g][x] = rows[g][x]
  <2>1. \A c \in SeedCases : decided[g][c] \subseteq decided'[g][c] BY <1>3, WrittenDecisions
  <2>2. \A x \in SeedExceptions : rows[g][x] \subseteq rows'[g][x] BY <1>3, WrittenRows
  <2>3. \A x \in SeedExceptions : IsResolved(g, x) => rows[g][x] # {} BY DEF IsResolved
  <2> QED BY <1>3, <2>1, <2>2, <2>3, WrittenRows
<1>4. CASE Reset BY <1>4 DEF Reset
<1>5. CASE UNCHANGED vars BY <1>5 DEF vars, tables
<1> QED BY <1>2, <1>3, <1>4, <1>5, WhoSteps

-----------------------------------------------------------------------------
(* Types and times *)

(* A request keeps the types of what is its own, *)
LEMMA LocalTypes ==
  ASSUME TypeOK, NEW r \in Requests, RequestStep(r)
  PROVE  /\ pc' \in [Requests -> Steps] /\ reply' \in [Requests -> Replies]
         /\ todo' \in [Requests -> SUBSET SeedCases]
<1> DEFINE Moved == pc' \in [Requests -> Steps] /\ reply' \in [Requests -> Replies]
<1>1. ASSUME NEW step \in Steps, Goto(r, step) PROVE Moved BY <1>1 DEF TypeOK, Goto
<1>2. ASSUME NEW answer \in Replies, End(r, answer) PROVE Moved BY <1>2 DEF TypeOK, End, Steps
<1>3. /\ "has" \in Steps /\ "receipt" \in Steps /\ "copy" \in Steps /\ "again" \in Steps
      /\ "decide" \in Steps /\ "reread" \in Steps /\ "status" \in Steps /\ "find" \in Steps
      /\ "import" \in Steps /\ "persist" \in Steps /\ "find again" \in Steps /\ "begin" \in Steps
      /\ "act" \in Steps /\ "retired" \in Steps /\ "refused" \in Steps /\ "view" \in Steps
  BY DEF Steps, CopySteps, CaseSteps, ExceptionSteps
<1>4. /\ "ok" \in Replies /\ "already_settled" \in Replies /\ "already_resolved" \in Replies
      /\ "session_reset" \in Replies /\ "error" \in Replies /\ "lost" \in Replies
  BY DEF Replies
<1>5. \A left : AfterCopies(r, left) \in Steps BY <1>3 DEF AfterCopies
<1>6. ASSUME NEW c, CaseEnsured(r, c) PROVE Moved /\ todo' \in [Requests -> SUBSET SeedCases]
  <2>1. Moved BY <1>1, <1>5, <1>6 DEF CaseEnsured
  <2>2. todo' = [todo EXCEPT ![r] = todo[r] \ {c}] BY <1>6 DEF CaseEnsured
  <2>3. todo' \in [Requests -> SUBSET SeedCases] BY <2>2 DEF TypeOK
  <2> QED BY <2>1, <2>3
<1>7. ASSUME todo' = todo PROVE todo' \in [Requests -> SUBSET SeedCases] BY <1>7 DEF TypeOK
<1> HIDE DEF Moved
<1> USE <1>1, <1>2, <1>3, <1>4, <1>5, <1>6, <1>7
<1>8. CASE BeginCase(r)
  <2>1. Moved BY <1>8 DEF BeginCase
  <2>2. PICK c \in SeedCases : todo' = [todo EXCEPT ![r] = {c}] BY <1>8 DEF BeginCase
  <2>3. todo' \in [Requests -> SUBSET SeedCases] BY <2>2 DEF TypeOK
  <2> QED BY <2>1, <2>3 DEF Moved
<1>9. CASE BeginException(r)
  <2>1. Moved BY <1>9 DEF BeginException
  <2>2. PICK x \in SeedExceptions : todo' = [todo EXCEPT ![r] = References[x]]
    BY <1>9 DEF BeginException
  <2>3. todo' \in [Requests -> SUBSET SeedCases] BY <2>2, ReviewAssumption DEF TypeOK
  <2> QED BY <2>1, <2>3 DEF Moved
<1>10. CASE HasCase(r) BY <1>10 DEF HasCase, Moved
<1>11. CASE CopyReceipt(r) BY <1>11 DEF CopyReceipt, Moved
<1>12. CASE CopyCase(r) BY <1>12 DEF CopyCase, Moved
<1>13. CASE HasCaseAgain(r) BY <1>13 DEF HasCaseAgain, Moved
<1>14. CASE Decide(r) BY <1>14 DEF Decide, Moved
<1>15. CASE ReadStatus(r) BY <1>15 DEF ReadStatus, Moved
<1>16. CASE RereadStatus(r) BY <1>16 DEF RereadStatus, Moved
<1>17. CASE FindException(r) BY <1>17 DEF FindException, Moved
<1>18. CASE ImportShipments(r) BY <1>18 DEF ImportShipments, Moved
<1>19. CASE PersistException(r) BY <1>19 DEF PersistException, Moved
<1>20. CASE FindExceptionAgain(r) BY <1>20 DEF FindExceptionAgain, Moved
<1>21. CASE BeginTransaction(r) BY <1>21 DEF BeginTransaction, Moved
<1>22. CASE Act(r) BY <1>22 DEF Act, Moved
<1>23. CASE RefuseAct(r) BY <1>23 DEF RefuseAct, Moved
<1>24. CASE ExplainRefusal(r) BY <1>24 DEF ExplainRefusal, Moved
<1>25. CASE ViewException(r) BY <1>25 DEF ViewException, Moved
<1>26. CASE Retired(r) BY <1>26 DEF Retired, Moved
<1>27. CASE Crash(r) BY <1>27 DEF Crash, Moved
<1> QED
  BY <1>8, <1>9, <1>10, <1>11, <1>12, <1>13, <1>14, <1>15, <1>16, <1>17, <1>18, <1>19, <1>20,
     <1>21, <1>22, <1>23, <1>24, <1>25, <1>26, <1>27
  DEF RequestStep, Progress, EnsureCase, CaseAction, ExceptionAction

(* and a step keeps all. *)
LEMMA StepTypes ==
  ASSUME ReviewInv, [Next]_vars
  PROVE  TypeOK'
<1>1. TypeOK BY DEF ReviewInv
<1>2. ASSUME NEW r \in Requests, RequestStep(r) PROVE TypeOK'
  <2>1. ws[r] \in Generations /\ Knows(r) BY <1>1 DEF ReviewInv, TypeOK
  <2>2. todo[r] # {} => Copying(r) \in todo[r] /\ Copying(r) \in SeedCases BY <1>1, CopyingOne
  <2>3. pc[r] \in CopySteps => todo[r] # {} BY <2>1 DEF Knows, Prepared
  <2>4. pc[r] \in CopySteps => Copying(r) \in SeedCases BY <2>2, <2>3
  <2>25. /\ pc' \in [Requests -> Steps] /\ reply' \in [Requests -> Replies]
         /\ todo' \in [Requests -> SUBSET SeedCases]
    BY <1>1, <1>2, LocalTypes
  <2>31. ASSUME UNCHANGED <<tables, clock, local>> PROVE TypeOK'
    BY <1>1, <2>25, <2>31 DEF TypeOK, tables, local
  <2> USE <1>1, <2>1
  <2>5. CASE r \in CaseRequests /\ BeginCase(r)
    <3>1. PICK c \in SeedCases : /\ target' = [target EXCEPT ![r] = c]
                                 /\ todo' = [todo EXCEPT ![r] = {c}]
      BY <2>5 DEF BeginCase
    <3>2. ws' = [ws EXCEPT ![r] = generation] /\ UNCHANGED <<tables, clock, stamp, verb>>
      BY <2>5 DEF BeginCase
    <3> QED BY <2>25, <3>1, <3>2 DEF TypeOK, tables
  <2>6. CASE r \in ExceptionRequests /\ BeginException(r)
    <3>1. PICK x \in SeedExceptions, v \in States :
            /\ target' = [target EXCEPT ![r] = x]
            /\ verb' = [verb EXCEPT ![r] = v]
            /\ todo' = [todo EXCEPT ![r] = References[x]]
      BY <2>6 DEF BeginException
    <3>2. References[x] \in SUBSET SeedCases BY ReviewAssumption
    <3>3. ws' = [ws EXCEPT ![r] = generation] /\ UNCHANGED <<tables, clock, stamp>>
      BY <2>6 DEF BeginException
    <3> QED BY <2>25, <3>1, <3>2, <3>3 DEF TypeOK, tables
  <2>7. CASE HasCase(r)
    <3> QED BY <2>7, <2>25 DEF HasCase, TypeOK, tables, local
  <2>8. CASE CopyReceipt(r)
    <3>1. receipts' = [receipts EXCEPT ![ws[r]] = receipts[ws[r]] \cup {Copying(r)}] /\ Copying(r) \in SeedCases
      BY <2>4, <2>8 DEF CopyReceipt, CopySteps
    <3>2. receipts' \in [Generations -> SUBSET SeedCases] BY <3>1 DEF TypeOK
    <3> QED BY <2>8, <2>25, <3>2 DEF CopyReceipt, TypeOK, local
  <2>9. CASE CopyCase(r)
    <3>1. \/ copies' = copies
          \/ copies' = [copies EXCEPT ![ws[r]] = copies[ws[r]] \cup {Copying(r)}] /\ Copying(r) \in SeedCases
      BY <2>4, <2>9 DEF CopyCase, CopySteps
    <3>2. copies' \in [Generations -> SUBSET SeedCases]
      <4>1. copies \in [Generations -> SUBSET SeedCases] BY DEF TypeOK
      <4>2. CASE copies' = copies BY <4>1, <4>2
      <4>3. CASE copies' # copies
        <5>1. copies' = [copies EXCEPT ![ws[r]] = copies[ws[r]] \cup {Copying(r)}] /\ Copying(r) \in SeedCases
          BY <3>1, <4>3
        <5> QED BY <4>1, <5>1, AddsTyped
      <4> QED BY <4>2, <4>3
    <3> QED BY <2>9, <2>25, <3>2 DEF CopyCase, TypeOK, local
  <2>10. CASE HasCaseAgain(r)
    <3> QED BY <2>10, <2>25 DEF HasCaseAgain, TypeOK, tables, local
  <2>11. CASE Decide(r)
    <3>1. r \in CaseRequests /\ target[r] \in SeedCases
      BY <2>11 DEF Decide, Knows, Placed, Requests, CopySteps, ExceptionSteps
    <3>2. \/ decided' = decided
          \/ decided' = [decided EXCEPT ![ws[r]][target[r]] = decided[ws[r]][target[r]] \cup {r}]
      BY <2>11 DEF Decide
    <3>3. decided' \in [Generations -> [SeedCases -> SUBSET CaseRequests]]
      <4>1. decided \in [Generations -> [SeedCases -> SUBSET CaseRequests]] BY DEF TypeOK
      <4>2. decided[ws[r]][target[r]] \cup {r} \in SUBSET CaseRequests BY <3>1, <4>1
      <4>3. [decided EXCEPT ![ws[r]][target[r]] = decided[ws[r]][target[r]] \cup {r}]
              \in [Generations -> [SeedCases -> SUBSET CaseRequests]]
        BY <3>1, <4>1, <4>2, SetsTyped
      <4> QED BY <3>2, <4>1, <4>3
    <3> QED BY <2>11, <2>25, <3>3 DEF Decide, TypeOK, local
  <2>12. CASE ReadStatus(r) BY <2>12, <2>31 DEF ReadStatus
  <2>13. CASE RereadStatus(r) BY <2>13, <2>31 DEF RereadStatus
  <2>14. CASE FindException(r) BY <2>14, <2>31 DEF FindException
  <2>15. CASE ImportShipments(r)
    <3>2. shipments' \subseteq Generations BY <2>15 DEF ImportShipments, TypeOK
    <3> QED BY <2>15, <2>25, <3>2 DEF ImportShipments, TypeOK, local
  <2>16. CASE PersistException(r)
    <3>1. target[r] \in SeedExceptions
      BY <2>16 DEF PersistException, Knows, Placed, Requests, CopySteps, CaseSteps
    <3>2. results' = results \/ results' = [results EXCEPT ![ws[r]] = results[ws[r]] \cup {target[r]}]
      BY <2>16 DEF PersistException
    <3>3. rows' = rows \/ rows' = [rows EXCEPT ![ws[r]][target[r]] = {[at |-> 0, state |-> "OPEN"]}]
      BY <2>16 DEF PersistException
    <3>4. [at |-> 0, state |-> "OPEN"] \in Rows
      <4>1. Cardinality(ExceptionRequests) \in Nat BY ReviewAssumption, FS_CardinalityType
      <4>2. 0 \in Stamps BY <4>1 DEF Stamps
      <4> QED BY <4>2 DEF Rows, States
    <3>5. results' \in [Generations -> SUBSET SeedExceptions]
      <4>1. results \in [Generations -> SUBSET SeedExceptions] BY DEF TypeOK
      <4> QED BY <3>1, <3>2, <4>1, AddsTyped
    <3>6. rows' \in [Generations -> [SeedExceptions -> SUBSET Rows]]
      <4>1. rows \in [Generations -> [SeedExceptions -> SUBSET Rows]] BY DEF TypeOK
      <4>2. {[at |-> 0, state |-> "OPEN"]} \in SUBSET Rows BY <3>4
      <4>3. [rows EXCEPT ![ws[r]][target[r]] = {[at |-> 0, state |-> "OPEN"]}]
              \in [Generations -> [SeedExceptions -> SUBSET Rows]]
        BY <3>1, <4>1, <4>2, SetsTyped
      <4> QED BY <3>3, <4>1, <4>3
    <3> QED BY <2>16, <2>25, <3>5, <3>6 DEF PersistException, TypeOK, local
  <2>17. CASE FindExceptionAgain(r) BY <2>17, <2>31 DEF FindExceptionAgain
  <2>18. CASE BeginTransaction(r)
    <3>1. clock + 1 \in Stamps
      <4>1. r \in ExceptionRequests /\ r \notin Stamped
        BY <2>18 DEF BeginTransaction, Knows, Placed, Acted, Requests, Stamped, CopySteps, CaseSteps
      <4>2. IsFiniteSet(ExceptionRequests) /\ Stamped \subseteq ExceptionRequests
        BY ReviewAssumption DEF Stamped
      <4>3. IsFiniteSet(Stamped) BY <4>2, FS_Subset
      <4>4. Cardinality(Stamped \cup {r}) = Cardinality(Stamped) + 1 BY <4>1, <4>3, FS_AddElement
      <4>5. Cardinality(Stamped \cup {r}) <= Cardinality(ExceptionRequests)
        <5>1. Stamped \cup {r} \subseteq ExceptionRequests BY <4>1, <4>2
        <5> QED BY <4>2, <5>1, FS_Subset
      <4>6. Cardinality(Stamped) \in Nat /\ Cardinality(ExceptionRequests) \in Nat
        BY <4>2, <4>3, FS_CardinalityType
      <4>7. clock = Cardinality(Stamped) BY DEF ReviewInv, Clocked
      <4>8. clock + 1 <= Cardinality(ExceptionRequests) /\ clock + 1 \in Nat
        BY <4>4, <4>5, <4>6, <4>7
      <4> QED BY <4>6, <4>8 DEF Stamps
    <3>3. clock' \in Stamps /\ stamp' \in [Requests -> Stamps] BY <2>18, <3>1 DEF BeginTransaction, TypeOK
    <3> QED BY <2>18, <2>25, <3>3 DEF BeginTransaction, TypeOK, tables
  <2>19. CASE Act(r)
    <3>1. target[r] \in SeedExceptions BY <2>19 DEF Act, Knows, Placed, Requests, CopySteps, CaseSteps
    <3>2. [at |-> stamp[r], state |-> verb[r]] \in Rows BY DEF Rows, TypeOK
    <3>3. rows' = [rows EXCEPT ![ws[r]][target[r]] =
                     rows[ws[r]][target[r]] \cup {[at |-> stamp[r], state |-> verb[r]]}]
      BY <2>19 DEF Act
    <3>4. rows' \in [Generations -> [SeedExceptions -> SUBSET Rows]]
      <4>1. rows \in [Generations -> [SeedExceptions -> SUBSET Rows]] BY DEF TypeOK
      <4>2. rows[ws[r]][target[r]] \cup {[at |-> stamp[r], state |-> verb[r]]} \in SUBSET Rows
        BY <3>1, <3>2, <4>1
      <4> QED BY <3>1, <3>3, <4>1, <4>2, SetsTyped
    <3> QED BY <2>19, <2>25, <3>4 DEF Act, TypeOK, local
  <2>20. CASE RefuseAct(r) BY <2>20, <2>31 DEF RefuseAct
  <2>21. CASE ExplainRefusal(r) BY <2>21, <2>31 DEF ExplainRefusal
  <2>22. CASE ViewException(r) BY <2>22, <2>31 DEF ViewException
  <2>23. CASE Retired(r) BY <2>23, <2>31 DEF Retired
  <2>24. CASE Crash(r) BY <2>24, <2>31 DEF Crash
  <2> QED
    BY <1>2, <2>5, <2>6, <2>7, <2>8, <2>9, <2>10, <2>11, <2>12, <2>13, <2>14, <2>15, <2>16, <2>17,
       <2>18, <2>19, <2>20, <2>21, <2>22, <2>23, <2>24
    DEF RequestStep, Progress, EnsureCase, CaseAction, ExceptionAction
<1>3. CASE Reset BY <1>1, <1>3, ReviewAssumption DEF TypeOK, Reset, Generations, local
<1>4. CASE UNCHANGED vars BY <1>1, <1>4 DEF TypeOK, vars, tables, local
<1> QED BY <1>2, <1>3, <1>4, WhoSteps

(* created_at differs between transactions, and is never in the future. *)
LEMMA StepClocked ==
  ASSUME ReviewInv, TypeOK', [Next]_vars
  PROVE  Clocked'
<1>1. TypeOK /\ Clocked BY DEF ReviewInv
<1>2. IsFiniteSet(Stamped)
  <2>1. Stamped \subseteq ExceptionRequests BY DEF Stamped
  <2> QED BY <2>1, FS_Subset, ReviewAssumption
<1>3. Cardinality(ExceptionRequests) \in Nat BY FS_CardinalityType, ReviewAssumption
<1>4. clock \in Nat /\ clock' \in Nat BY <1>1, <1>3 DEF TypeOK, Stamps
<1>5. \A r \in Requests : stamp[r] \in Nat BY <1>1, <1>3 DEF TypeOK, Stamps
<1>6. \A g \in Generations, x \in SeedExceptions : \A row \in rows[g][x] : row.at \in Nat
  BY <1>1, <1>3 DEF TypeOK, Stamps, Rows
<1>7. ASSUME UNCHANGED <<clock, stamp, rows>> PROVE Clocked' BY <1>1, <1>7 DEF Clocked, Stamped
<1>8. ASSUME NEW r \in Requests, RequestStep(r) PROVE Clocked'
  <2>1. CASE UNCHANGED <<clock, stamp>>
    <3>1. ASSUME NEW g \in Generations, NEW x \in SeedExceptions, NEW row \in rows'[g][x]
          PROVE  row.at <= clock
      <4>1. row \in rows[g][x] \/ row.at = stamp[r] \/ row.at = 0 BY <1>8, <3>1, WrittenRows
      <4> QED BY <1>1, <1>4, <4>1 DEF Clocked
    <3> QED BY <1>1, <2>1, <3>1 DEF Clocked, Stamped
  <2>2. CASE BeginTransaction(r)
    <3>1. clock' = clock + 1 /\ stamp' = [stamp EXCEPT ![r] = clock + 1] /\ pc[r] = "begin" /\ rows' = rows
      BY <2>2 DEF BeginTransaction, tables
    <3>2. Knows(r) BY DEF ReviewInv
    <3>3. r \in ExceptionRequests /\ stamp[r] = 0
      BY <3>1, <3>2 DEF Knows, Placed, Acted, Requests, CopySteps, CaseSteps
    <3>4. stamp'[r] = clock + 1 /\ \A q \in Requests \ {r} : stamp'[q] = stamp[q]
      BY <1>1, <3>1 DEF TypeOK
    <3>5. Stamped' = Stamped \cup {r} /\ r \notin Stamped
      BY <1>4, <3>3, <3>4 DEF Stamped, Requests
    <3>6. clock' = Cardinality(Stamped')
      <4>1. Cardinality(Stamped \cup {r}) = Cardinality(Stamped) + 1 BY <1>2, <3>5, FS_AddElement
      <4> QED BY <1>1, <3>1, <3>5, <4>1 DEF Clocked
    <3>7. \A q \in Requests : stamp'[q] <= clock' BY <1>1, <1>4, <1>5, <3>1, <3>4 DEF Clocked
    <3>8. \A p, q \in Requests : p # q /\ stamp'[p] # 0 => stamp'[p] # stamp'[q]
      <4>1. \A q \in Requests \ {r} : stamp'[q] # clock + 1 BY <1>1, <1>4, <1>5, <3>4 DEF Clocked
      <4> QED BY <1>1, <3>4, <4>1 DEF Clocked
    <3>9. \A g \in Generations, x \in SeedExceptions : \A row \in rows'[g][x] : row.at <= clock'
      BY <1>1, <1>4, <1>6, <3>1 DEF Clocked
    <3> QED BY <3>6, <3>7, <3>8, <3>9 DEF Clocked
  <2> QED BY <1>1, <1>8, <2>1, <2>2, OneMoves DEF Ticks
<1>9. CASE Reset BY <1>7, <1>9 DEF Reset, local
<1>10. CASE UNCHANGED vars BY <1>7, <1>10 DEF vars, tables, local
<1> QED BY <1>8, <1>9, <1>10, WhoSteps

-----------------------------------------------------------------------------
(* Whose rows *)

(* Nobody records an action for another request. *)
LEMMA NotMineStays ==
  ASSUME ReviewInv, NEW r \in Requests, RequestStep(r), NEW q \in Requests, q # r, ~Mine(q)
  PROVE  ~Mine(q)'
<1>1. TypeOK /\ Clocked /\ Knows(r) BY DEF ReviewInv
<1>2. stamp'[q] = stamp[q] /\ verb'[q] = verb[q] BY <1>1, OneMoves DEF OthersWait
<1>3. CASE q \in CaseRequests
  <2>1. \A g \in Generations, c \in SeedCases : q \notin decided'[g][c]
    BY <1>3, WrittenDecisions DEF Mine
  <2> QED BY <1>3, <2>1 DEF Mine
<1>4. CASE q \notin CaseRequests
  <2>1. SUFFICES ASSUME NEW g \in Generations, NEW x \in SeedExceptions, stamp[q] # 0,
                        [at |-> stamp[q], state |-> verb[q]] \in rows'[g][x]
                 PROVE  FALSE
    BY <1>2, <1>4 DEF Mine
  <2>2. [at |-> stamp[q], state |-> verb[q]] \notin rows[g][x] BY <1>4, <2>1 DEF Mine
  <2>3. pc[r] = "act" /\ [at |-> stamp[q], state |-> verb[q]] = [at |-> stamp[r], state |-> verb[r]]
    <3>1. [at |-> stamp[q], state |-> verb[q]].at # [at |-> 0, state |-> "OPEN"].at BY <2>1
    <3> QED BY <2>1, <2>2, <3>1, WrittenRows
  <2>4. stamp[q] = stamp[r] BY <2>3
  <2> QED BY <1>1, <2>1, <2>4 DEF Clocked
<1> QED BY <1>3, <1>4

(* A request records its action in Decide or Act, and nowhere else. *)
LEMMA NotMineYet ==
  ASSUME ReviewInv, NEW r \in Requests, RequestStep(r), ~Mine(r), pc[r] \notin {"decide", "act"}
  PROVE  ~Mine(r)'
<1>1. TypeOK /\ Clocked /\ Knows(r) BY DEF ReviewInv
<1>2. CASE r \in CaseRequests
  <2>1. \A g \in Generations, c \in SeedCases : r \notin decided'[g][c]
    BY <1>2, WrittenDecisions DEF Mine
  <2> QED BY <1>2, <2>1 DEF Mine
<1>3. CASE r \notin CaseRequests
  <2>1. SUFFICES ASSUME NEW g \in Generations, NEW x \in SeedExceptions, stamp'[r] # 0,
                        [at |-> stamp'[r], state |-> verb'[r]] \in rows'[g][x]
                 PROVE  FALSE
    BY <1>3 DEF Mine
  <2>2. [at |-> stamp'[r], state |-> verb'[r]] \in rows[g][x]
    <3>1. [at |-> stamp'[r], state |-> verb'[r]].at # [at |-> 0, state |-> "OPEN"].at BY <2>1
    <3> QED BY <2>1, <3>1, WrittenRows
  <2>3. CASE UNCHANGED <<clock, stamp>> /\ (verb' = verb \/ pc[r] = "new")
    <3>1. pc[r] = "new" => stamp[r] = 0 BY <1>1 DEF Knows, Acted
    <3> QED BY <1>3, <2>1, <2>2, <2>3, <3>1 DEF Mine
  <2>4. CASE BeginTransaction(r)
    <3>1. stamp'[r] = clock + 1 BY <1>1, <2>4 DEF BeginTransaction, TypeOK
    <3>2. [at |-> stamp'[r], state |-> verb'[r]].at <= clock BY <1>1, <2>2 DEF Clocked
    <3>3. clock \in Nat
      <4>1. Cardinality(ExceptionRequests) \in Nat BY ReviewAssumption, FS_CardinalityType
      <4> QED BY <1>1, <4>1 DEF TypeOK, Stamps
    <3> QED BY <3>1, <3>2, <3>3
  <2> QED BY <1>1, <2>3, <2>4, OneMoves DEF Ticks
<1> QED BY <1>2, <1>3

(* A row of a request stays its own. *)
LEMMA MineStays ==
  ASSUME ReviewInv, [Next]_vars, NEW q \in Requests, Mine(q),
         stamp'[q] = stamp[q], verb'[q] = verb[q]
  PROVE  Mine(q)'
<1>1. CASE q \in CaseRequests
  <2>1. PICK g \in Generations, c \in SeedCases : q \in decided[g][c] BY <1>1 DEF Mine
  <2>2. q \in decided'[g][c] BY <2>1, TablesStand
  <2> QED BY <1>1, <2>2 DEF Mine
<1>2. CASE q \notin CaseRequests
  <2>1. PICK g \in Generations, x \in SeedExceptions :
          stamp[q] # 0 /\ [at |-> stamp[q], state |-> verb[q]] \in rows[g][x]
    BY <1>2 DEF Mine
  <2>2. [at |-> stamp[q], state |-> verb[q]] \in rows'[g][x] BY <2>1, TablesStand
  <2> QED BY <1>2, <2>1, <2>2 DEF Mine
<1> QED BY <1>1, <1>2

(* An exception that is shown resolved stays so. *)
LEMMA ResolvedStays ==
  ASSUME ReviewInv, [Next]_vars, NEW g \in Generations, NEW x \in SeedExceptions, IsResolved(g, x)
  PROVE  IsResolved(g, x)'
<1>1. rows'[g][x] = rows[g][x] BY TablesStand
<1> QED BY <1>1 DEF IsResolved, Latest

-----------------------------------------------------------------------------
(* What a request knows: of itself *)

(* Where a step leads. *)
LEMMA Arrives ==
  ASSUME TypeOK, NEW r \in Requests
  PROVE  /\ \A step : Goto(r, step) => pc'[r] = step /\ reply'[r] = reply[r]
         /\ \A answer : End(r, answer) => pc'[r] = "done" /\ reply'[r] = answer
         /\ \A c : CaseEnsured(r, c) =>
              /\ todo'[r] = todo[r] \ {c} /\ reply'[r] = reply[r]
              /\ pc'[r] = AfterCopies(r, todo[r] \ {c})
  BY DEF TypeOK, Goto, End, CaseEnsured

(* The steps of case requests and of exception requests. *)
LEMMA Whose ==
  ASSUME NEW r \in Requests, Placed(r)
  PROVE  /\ pc[r] \in CaseSteps => r \in CaseRequests /\ r \notin ExceptionRequests
         /\ pc[r] \in ExceptionSteps => r \in ExceptionRequests /\ r \notin CaseRequests
         /\ r \in CaseRequests <=> r \notin ExceptionRequests
  BY ReviewAssumption DEF Placed, CopySteps, CaseSteps, ExceptionSteps, Requests

(* A request that moves is where it should be, *)
LEMMA MoverPlaced ==
  ASSUME ReviewInv, NEW r \in Requests, RequestStep(r)
  PROVE  /\ ws'[r] <= generation'
         /\ pc'[r] # "done" => reply'[r] = "none"
         /\ Placed(r)'
<1> DEFINE Goal == ws'[r] <= generation' /\ (pc'[r] # "done" => reply'[r] = "none") /\ Placed(r)'
<1> SUFFICES Goal OBVIOUS
<1>1. TypeOK /\ Knows(r) /\ Placed(r) BY DEF ReviewInv, Knows
<1>2. generation' = generation /\ generation \in Nat
  BY <1>1, ReviewAssumption, OneMoves DEF OthersWait, TypeOK, Generations
<1>3. /\ r \in CaseRequests <=> r \notin ExceptionRequests
      /\ pc[r] \in CaseSteps => r \in CaseRequests
      /\ pc[r] \in ExceptionSteps => r \in ExceptionRequests
  BY <1>1, Whose
<1>4. ASSUME UNCHANGED <<ws, target>>, pc[r] \notin {"new", "done"},
             \/ pc'[r] = "done"
             \/ pc'[r] \in CopySteps /\ reply'[r] = reply[r]
             \/ pc'[r] \in CaseSteps /\ reply'[r] = reply[r] /\ r \in CaseRequests
             \/ pc'[r] \in ExceptionSteps /\ reply'[r] = reply[r] /\ r \in ExceptionRequests
      PROVE  Goal
  BY <1>1, <1>2, <1>3, <1>4 DEF Knows, Placed, CopySteps, CaseSteps, ExceptionSteps
<1>5. \A left : \/ AfterCopies(r, left) \in CopySteps
                \/ AfterCopies(r, left) \in CaseSteps /\ r \in CaseRequests
                \/ AfterCopies(r, left) \in ExceptionSteps /\ r \in ExceptionRequests
  BY <1>3 DEF AfterCopies, CopySteps, CaseSteps, ExceptionSteps
<1>6. CASE r \in CaseRequests /\ BeginCase(r)
  <2>1. PICK c \in SeedCases : target' = [target EXCEPT ![r] = c] BY <1>6 DEF BeginCase
  <2>2. ws' = [ws EXCEPT ![r] = generation] /\ pc[r] = "new" BY <1>6 DEF BeginCase
  <2>3. pc'[r] = "has" /\ reply'[r] = reply[r] BY <1>1, <1>6, Arrives DEF BeginCase
  <2>4. target'[r] = c /\ ws'[r] = generation BY <1>1, <2>1, <2>2 DEF TypeOK
  <2> QED BY <1>1, <1>2, <1>3, <1>6, <2>2, <2>3, <2>4 DEF Knows, Placed, CopySteps
<1>7. CASE r \in ExceptionRequests /\ BeginException(r)
  <2>1. PICK x \in SeedExceptions : target' = [target EXCEPT ![r] = x] BY <1>7 DEF BeginException
  <2>2. ws' = [ws EXCEPT ![r] = generation] /\ pc[r] = "new" BY <1>7 DEF BeginException
  <2>3. pc'[r] = "find" /\ reply'[r] = reply[r] BY <1>1, <1>7, Arrives DEF BeginException
  <2>4. target'[r] = x /\ ws'[r] = generation BY <1>1, <2>1, <2>2 DEF TypeOK
  <2> QED BY <1>1, <1>2, <1>3, <1>7, <2>2, <2>3, <2>4 DEF Knows, Placed, ExceptionSteps
<1> HIDE DEF Goal
<1> USE <1>1, <1>3, <1>4, <1>5, Arrives DEF CopySteps, CaseSteps, ExceptionSteps, local
<1>8. CASE HasCase(r) BY <1>8 DEF HasCase
<1>9. CASE CopyReceipt(r) BY <1>9 DEF CopyReceipt
<1>10. CASE CopyCase(r) BY <1>10 DEF CopyCase
<1>11. CASE HasCaseAgain(r) BY <1>11 DEF HasCaseAgain
<1>12. CASE Decide(r) BY <1>12 DEF Decide
<1>13. CASE ReadStatus(r) BY <1>13 DEF ReadStatus
<1>14. CASE RereadStatus(r) BY <1>14 DEF RereadStatus
<1>15. CASE FindException(r) BY <1>15 DEF FindException
<1>16. CASE ImportShipments(r) BY <1>16 DEF ImportShipments
<1>17. CASE PersistException(r) BY <1>17 DEF PersistException
<1>18. CASE FindExceptionAgain(r) BY <1>18 DEF FindExceptionAgain
<1>19. CASE BeginTransaction(r) BY <1>19 DEF BeginTransaction
<1>20. CASE Act(r) BY <1>20 DEF Act
<1>21. CASE RefuseAct(r) BY <1>21 DEF RefuseAct
<1>22. CASE ExplainRefusal(r) BY <1>22 DEF ExplainRefusal
<1>23. CASE ViewException(r) BY <1>23 DEF ViewException
<1>24. CASE Retired(r) BY <1>24 DEF Retired
<1>25. CASE Crash(r) BY <1>25 DEF Crash
<1> QED
  BY <1>6, <1>7, <1>8, <1>9, <1>10, <1>11, <1>12, <1>13, <1>14, <1>15, <1>16, <1>17, <1>18,
     <1>19, <1>20, <1>21, <1>22, <1>23, <1>24, <1>25
  DEF RequestStep, Progress, EnsureCase, CaseAction, ExceptionAction

(* has the copies it needs, *)
LEMMA MoverPrepared ==
  ASSUME ReviewInv, NEW r \in Requests, RequestStep(r)
  PROVE  Prepared(r)'
<1>1. TypeOK /\ Knows(r) /\ Placed(r) /\ Prepared(r) /\ ws[r] \in Generations
  BY DEF ReviewInv, Knows, TypeOK
<1>2. /\ r \in CaseRequests <=> r \notin ExceptionRequests
      /\ pc[r] \in CaseSteps => r \in CaseRequests
      /\ pc[r] \in ExceptionSteps => r \in ExceptionRequests
  BY <1>1, Whose
<1>3. /\ copies[ws[r]] \subseteq copies'[ws[r]] /\ receipts[ws[r]] \subseteq receipts'[ws[r]]
      /\ results[ws[r]] \subseteq results'[ws[r]] /\ shipments \subseteq shipments'
  <2>1. [Next]_vars BY DEF Next, RequestStep
  <2> QED BY <1>1, <2>1, TablesStand
<1>4. ASSUME pc'[r] \in {"done", "status", "reread"} PROVE Prepared(r)'
  BY <1>4 DEF Prepared, CopySteps, HasSteps
(* The exception is there. *)
<1>5. ASSUME UNCHANGED <<ws, target>>, pc'[r] \in HasSteps, target[r] \in results'[ws[r]]
      PROVE  Prepared(r)'
  BY <1>5 DEF Prepared, CopySteps, HasSteps, HasException
(* More is to be copied, and nothing of it has been so far. *)
<1>6. ASSUME UNCHANGED <<ws, target, todo>>, pc'[r] \in {"has", "receipt", "copy", "again"},
             pc[r] \in CopySteps,
             pc'[r] = "copy" => Copying(r) \in receipts'[ws[r]],
             pc'[r] = "again" => Copying(r) \in copies'[ws[r]]
      PROVE  Prepared(r)'
  <2>1. Wanted(r)' = Wanted(r) /\ Copying(r)' = Copying(r) BY <1>6 DEF Wanted, Copying
  <2> QED BY <1>1, <1>3, <1>6, <2>1 DEF Prepared, CopySteps, HasSteps
(* One more is copied. *)
<1>7. ASSUME UNCHANGED <<ws, target>>, NEW left, todo'[r] = left,
             Wanted(r) \subseteq left \cup copies'[ws[r]],
             pc'[r] = AfterCopies(r, left), r \in ExceptionRequests => ws[r] \in shipments'
      PROVE  Prepared(r)'
  <2>1. Wanted(r)' = Wanted(r) BY <1>7 DEF Wanted
  <2>2. \/ left # {} /\ pc'[r] = "has"
        \/ left = {} /\ pc'[r] \in {"decide", "persist"}
    BY <1>7 DEF AfterCopies
  <2> QED BY <1>7, <2>1, <2>2 DEF Prepared, CopySteps, HasSteps
<1>8. ASSUME UNCHANGED <<ws, target>>, pc[r] \in CopySteps, CaseEnsured(r, Copying(r)),
             Copying(r) \in copies'[ws[r]]
      PROVE  Prepared(r)'
  <2>1. todo'[r] = todo[r] \ {Copying(r)} /\ pc'[r] = AfterCopies(r, todo[r] \ {Copying(r)})
    BY <1>1, <1>8, Arrives
  <2>2. Wanted(r) \subseteq todo[r] \cup copies[ws[r]] BY <1>1, <1>8 DEF Prepared
  <2>3. Wanted(r) \subseteq (todo[r] \ {Copying(r)}) \cup copies'[ws[r]] BY <1>3, <1>8, <2>2
  <2>4. r \in ExceptionRequests => ws[r] \in shipments' BY <1>1, <1>3, <1>8 DEF Prepared
  <2> QED BY <1>7, <1>8, <2>1, <2>3, <2>4
<1>9. CASE r \in CaseRequests /\ BeginCase(r)
  <2>1. PICK c \in SeedCases : target' = [target EXCEPT ![r] = c] /\ todo' = [todo EXCEPT ![r] = {c}]
    BY <1>9 DEF BeginCase
  <2>2. pc'[r] = "has" BY <1>1, <1>9, Arrives DEF BeginCase
  <2>3. target'[r] = c /\ todo'[r] = {c} BY <1>1, <2>1 DEF TypeOK
  <2> QED BY <1>2, <1>9, <2>2, <2>3 DEF Prepared, Wanted, CopySteps, HasSteps
<1>10. CASE r \in ExceptionRequests /\ BeginException(r)
  <2>1. PICK x \in SeedExceptions :
          target' = [target EXCEPT ![r] = x] /\ todo' = [todo EXCEPT ![r] = References[x]]
    BY <1>10 DEF BeginException
  <2>2. pc'[r] = "find" BY <1>1, <1>10, Arrives DEF BeginException
  <2>3. target'[r] = x /\ todo'[r] = References[x] BY <1>1, <2>1 DEF TypeOK
  <2> QED BY <1>2, <1>10, <2>2, <2>3 DEF Prepared, Wanted, CopySteps, HasSteps
<1>11. CASE HasCase(r)
  <2>1. UNCHANGED <<ws, target, copies>> /\ pc[r] \in CopySteps BY <1>11 DEF HasCase, tables, local, CopySteps
  <2>2. CASE Copying(r) \in copies[ws[r]]
    <3>1. CaseEnsured(r, Copying(r)) BY <1>11, <2>2 DEF HasCase
    <3> QED BY <1>8, <2>1, <2>2, <3>1
  <2>3. CASE Copying(r) \notin copies[ws[r]]
    <3>1. pc'[r] = "receipt" /\ todo' = todo BY <1>1, <1>11, <2>3, Arrives DEF HasCase
    <3> QED BY <1>6, <2>1, <3>1
  <2> QED BY <2>2, <2>3
<1>12. CASE CopyReceipt(r)
  <2>1. /\ UNCHANGED <<ws, target, todo>> /\ pc[r] \in CopySteps
        /\ receipts' = [receipts EXCEPT ![ws[r]] = receipts[ws[r]] \cup {Copying(r)}]
    BY <1>12 DEF CopyReceipt, local, CopySteps
  <2>2. pc'[r] = "copy" BY <1>1, <1>12, Arrives DEF CopyReceipt
  <2>3. Copying(r) \in receipts'[ws[r]] BY <1>1, <2>1 DEF TypeOK
  <2> QED BY <1>6, <2>1, <2>2, <2>3
<1>13. CASE CopyCase(r)
  <2>1. UNCHANGED <<ws, target>> /\ pc[r] \in CopySteps BY <1>13 DEF CopyCase, local, CopySteps
  <2>2. CASE Copying(r) \in copies[ws[r]]
    <3>1. pc'[r] = "again" /\ todo' = todo BY <1>1, <1>13, <2>2, Arrives DEF CopyCase
    <3> QED BY <1>3, <1>6, <2>1, <2>2, <3>1
  <2>3. CASE Copying(r) \notin copies[ws[r]]
    <3>1. CaseEnsured(r, Copying(r)) /\ copies' = [copies EXCEPT ![ws[r]] = copies[ws[r]] \cup {Copying(r)}]
      BY <1>13, <2>3 DEF CopyCase
    <3>2. Copying(r) \in copies'[ws[r]] BY <1>1, <3>1 DEF TypeOK
    <3> QED BY <1>8, <2>1, <3>1, <3>2
  <2> QED BY <2>2, <2>3
<1>14. CASE HasCaseAgain(r)
  <2>1. UNCHANGED <<ws, target, copies>> /\ pc[r] = "again" BY <1>14 DEF HasCaseAgain, tables, local
  <2>2. Copying(r) \in copies[ws[r]] BY <1>1, <2>1 DEF Prepared
  <2>3. CaseEnsured(r, Copying(r)) BY <1>14, <2>2 DEF HasCaseAgain
  <2> QED BY <1>8, <2>1, <2>2, <2>3 DEF CopySteps
<1>15. CASE Decide(r) BY <1>1, <1>4, <1>15, Arrives DEF Decide
<1>16. CASE ReadStatus(r) BY <1>1, <1>4, <1>16, Arrives DEF ReadStatus
<1>17. CASE RereadStatus(r) BY <1>1, <1>4, <1>17, Arrives DEF RereadStatus
<1>18. CASE FindException(r)
  <2>1. UNCHANGED <<ws, target, todo, copies, results>> /\ pc[r] = "find"
    BY <1>18 DEF FindException, tables, local
  <2>2. pc'[r] = IF HasException(r) THEN "begin" ELSE "import"
    BY <1>1, <1>18, Arrives DEF FindException
  <2>3. CASE HasException(r) BY <1>5, <2>1, <2>2, <2>3 DEF HasException, HasSteps
  <2>4. CASE ~HasException(r)
    <3>1. Wanted(r)' = Wanted(r) BY <2>1 DEF Wanted
    <3>2. Wanted(r) \subseteq todo[r] \cup copies[ws[r]] BY <1>1, <2>1 DEF Prepared
    <3> QED BY <2>1, <2>2, <2>4, <3>1, <3>2 DEF Prepared, CopySteps, HasSteps
  <2> QED BY <2>3, <2>4
<1>19. CASE ImportShipments(r)
  <2>1. UNCHANGED <<ws, target, todo, copies>> /\ pc[r] = "import" /\ shipments' = shipments \cup {ws[r]}
    BY <1>19 DEF ImportShipments, local
  <2>2. pc'[r] = AfterCopies(r, todo[r]) BY <1>1, <1>19, Arrives DEF ImportShipments
  <2>3. Wanted(r) \subseteq todo[r] \cup copies'[ws[r]] BY <1>1, <2>1 DEF Prepared
  <2> QED BY <1>7, <2>1, <2>2, <2>3
<1>20. CASE PersistException(r)
  <2>1. UNCHANGED <<ws, target>> BY <1>20 DEF PersistException, local
  <2>2. CASE pc'[r] = "done" BY <1>4, <2>2
  <2>3. CASE HasException(r) /\ pc'[r] = "find again"
    BY <1>3, <1>5, <2>1, <2>3 DEF HasException, HasSteps
  <2>4. CASE pc'[r] = "begin" /\ results' = [results EXCEPT ![ws[r]] = results[ws[r]] \cup {target[r]}]
    <3>1. target[r] \in results'[ws[r]] BY <1>1, <2>4 DEF TypeOK
    <3> QED BY <1>5, <2>1, <2>4, <3>1 DEF HasSteps
  <2> QED BY <1>1, <1>20, <2>2, <2>3, <2>4, Arrives DEF PersistException
<1>21. CASE FindExceptionAgain(r)
  <2>1. UNCHANGED <<ws, target>> BY <1>21 DEF FindExceptionAgain, local
  <2>2. (HasException(r) /\ pc'[r] = "begin") \/ pc'[r] = "done"
    BY <1>1, <1>21, Arrives DEF FindExceptionAgain
  <2> QED BY <1>3, <1>4, <1>5, <2>1, <2>2 DEF HasException, HasSteps
<1>22. ASSUME UNCHANGED <<ws, target>>, pc[r] \in HasSteps, pc'[r] \in HasSteps PROVE Prepared(r)'
  BY <1>1, <1>3, <1>5, <1>22 DEF Prepared, HasException
<1>23. CASE BeginTransaction(r) BY <1>1, <1>22, <1>23, Arrives DEF BeginTransaction, HasSteps
<1>24. CASE Act(r) BY <1>1, <1>22, <1>24, Arrives DEF Act, HasSteps, local
<1>25. CASE RefuseAct(r) BY <1>1, <1>22, <1>25, Arrives DEF RefuseAct, HasSteps, local
<1>26. CASE ExplainRefusal(r) BY <1>1, <1>4, <1>26, Arrives DEF ExplainRefusal
<1>27. CASE ViewException(r) BY <1>1, <1>4, <1>27, Arrives DEF ViewException
<1>28. CASE Retired(r) BY <1>1, <1>4, <1>28, Arrives DEF Retired
<1>29. CASE Crash(r) BY <1>1, <1>4, <1>29, Arrives DEF Crash
<1> QED
  BY <1>9, <1>10, <1>11, <1>12, <1>13, <1>14, <1>15, <1>16, <1>17, <1>18, <1>19, <1>20, <1>21,
     <1>23, <1>24, <1>25, <1>26, <1>27, <1>28, <1>29
  DEF RequestStep, Progress, EnsureCase, CaseAction, ExceptionAction

(* and has acted as its reply says. *)
LEMMA MoverActed ==
  ASSUME ReviewInv, TypeOK', NEW r \in Requests, RequestStep(r)
  PROVE  Acted(r)'
<1>1. TypeOK /\ Knows(r) /\ Placed(r) /\ Prepared(r) /\ Acted(r) /\ ws[r] \in Generations
  BY DEF ReviewInv, Knows, TypeOK
<1>2. /\ r \in CaseRequests <=> r \notin ExceptionRequests
      /\ pc[r] \in CaseSteps => r \in CaseRequests
      /\ pc[r] \in ExceptionSteps => r \in ExceptionRequests
  BY <1>1, Whose
<1>3. ASSUME pc'[r] = "done" PROVE Acted(r)' BY <1>3 DEF Acted
(* A request that has not yet come to its action. *)
<1>4. ASSUME pc[r] \in {"new", "find", "import", "persist", "find again"} \cup CopySteps,
             pc'[r] \in {"decide", "find", "import", "persist", "find again", "begin"} \cup CopySteps,
             stamp' = stamp
      PROVE  Acted(r)'
  <2>1. ~Mine(r) BY <1>1, <1>4 DEF Acted, CopySteps
  <2>2. ~Mine(r)' BY <1>4, <2>1, NotMineYet DEF CopySteps
  <2>3. stamp[r] = 0 BY <1>1, <1>4 DEF Acted, CopySteps
  <2> QED BY <1>4, <2>2, <2>3 DEF Acted, CopySteps
<1>5. \A left : AfterCopies(r, left) \in {"has", "decide", "persist"} BY DEF AfterCopies
<1>6. CASE BeginCase(r) BY <1>1, <1>4, <1>6, Arrives DEF BeginCase, CopySteps
<1>7. CASE BeginException(r) BY <1>1, <1>4, <1>7, Arrives DEF BeginException
<1>8. CASE HasCase(r) BY <1>1, <1>4, <1>5, <1>8, Arrives DEF HasCase, CopySteps, local
<1>9. CASE CopyReceipt(r) BY <1>1, <1>4, <1>9, Arrives DEF CopyReceipt, CopySteps, local
<1>10. CASE CopyCase(r) BY <1>1, <1>4, <1>5, <1>10, Arrives DEF CopyCase, CopySteps, local
<1>11. CASE HasCaseAgain(r) BY <1>1, <1>3, <1>4, <1>5, <1>11, Arrives DEF HasCaseAgain, CopySteps, local
<1>12. CASE FindException(r) BY <1>1, <1>4, <1>12, Arrives DEF FindException, local
<1>13. CASE ImportShipments(r) BY <1>1, <1>4, <1>5, <1>13, Arrives DEF ImportShipments, CopySteps, local
<1>14. CASE PersistException(r) BY <1>1, <1>3, <1>4, <1>14, Arrives DEF PersistException, local
<1>15. CASE FindExceptionAgain(r) BY <1>1, <1>3, <1>4, <1>15, Arrives DEF FindExceptionAgain, local
<1>16. CASE Decide(r)
  <2>1. pc[r] = "decide" /\ UNCHANGED <<generation, ws, target, stamp, rows, verb>> BY <1>16 DEF Decide, local
  <2>2. r \in CaseRequests /\ target[r] \in SeedCases BY <1>1, <1>2, <2>1 DEF Placed, CaseSteps
  <2>3. stamp[r] = 0 /\ ~Mine(r) BY <1>1, <2>1 DEF Acted
  <2>4. CASE MayDecide(r) /\ pc'[r] = "status"
             /\ decided' = [decided EXCEPT ![ws[r]][target[r]] = decided[ws[r]][target[r]] \cup {r}]
    <3>1. r \in decided'[ws[r]][target[r]] BY <1>1, <2>2, <2>4 DEF TypeOK
    <3>2. Mine(r)' BY <1>1, <2>2, <3>1 DEF Mine
    <3> QED BY <2>1, <2>3, <2>4, <3>2 DEF Acted
  <2>5. CASE ~MayDecide(r) /\ pc'[r] = "reread" /\ decided' = decided
    <3>1. ~Mine(r)' BY <2>1, <2>3, <2>5 DEF Mine
    <3>2. target[r] \in copies[ws[r]] BY <1>1, <2>1, <2>2 DEF Prepared, Wanted
    <3>3. ws[r] # generation \/ decided[ws[r]][target[r]] # {} BY <2>5, <3>2 DEF MayDecide, Active
    <3> QED BY <2>1, <2>3, <2>5, <3>1, <3>3 DEF Acted
  <2> QED BY <1>1, <1>16, <2>4, <2>5, Arrives DEF Decide
<1>17. CASE ReadStatus(r) BY <1>1, <1>3, <1>17, Arrives DEF ReadStatus
<1>18. CASE RereadStatus(r) BY <1>1, <1>3, <1>18, Arrives DEF RereadStatus
<1>19. CASE BeginTransaction(r)
  <2>1. pc[r] = "begin" /\ stamp' = [stamp EXCEPT ![r] = clock + 1] BY <1>19 DEF BeginTransaction
  <2>2. pc'[r] = "act" BY <1>1, <1>19, Arrives DEF BeginTransaction
  <2>3. ~Mine(r)' BY <1>1, <2>1, NotMineYet DEF Acted
  <2>4. stamp'[r] # 0
    <3>1. Cardinality(ExceptionRequests) \in Nat BY ReviewAssumption, FS_CardinalityType
    <3>2. clock \in Nat BY <1>1, <3>1 DEF TypeOK, Stamps
    <3>3. stamp'[r] = clock + 1 BY <1>1, <2>1 DEF TypeOK
    <3> QED BY <3>2, <3>3
  <2> QED BY <2>2, <2>3, <2>4 DEF Acted
<1>20. CASE Act(r)
  <2>1. /\ pc[r] = "act" /\ UNCHANGED <<stamp, verb>>
        /\ rows' = [rows EXCEPT ![ws[r]][target[r]] =
                      rows[ws[r]][target[r]] \cup {[at |-> stamp[r], state |-> verb[r]]}]
    BY <1>20 DEF Act, local
  <2>2. pc'[r] = "view" BY <1>1, <1>20, Arrives DEF Act
  <2>3. r \in ExceptionRequests /\ r \notin CaseRequests /\ target[r] \in SeedExceptions /\ stamp[r] # 0
    BY <1>1, <1>2, <2>1 DEF Placed, Acted, ExceptionSteps
  <2>4. [at |-> stamp[r], state |-> verb[r]] \in rows'[ws[r]][target[r]] BY <1>1, <2>1, <2>3 DEF TypeOK
  <2>5. Mine(r)' BY <1>1, <2>1, <2>3, <2>4 DEF Mine
  <2> QED BY <2>2, <2>5 DEF Acted
<1>21. CASE RefuseAct(r)
  <2>1. pc[r] = "act" /\ UNCHANGED <<generation, ws, target, stamp, verb, rows, decided>>
    BY <1>21 DEF RefuseAct, tables, local
  <2>2. ~Mine(r)' BY <1>1, <2>1 DEF Acted, Mine
  <2>3. \/ pc'[r] = "retired" /\ ws[r] # generation
        \/ pc'[r] = "refused" /\ IsResolved(ws[r], target[r])
    BY <1>1, <1>21, Arrives DEF RefuseAct, Active, MayAct
  <2>4. IsResolved(ws[r], target[r]) => IsResolved(ws[r], target[r])' BY <2>1 DEF IsResolved
  <2> QED BY <2>1, <2>2, <2>3, <2>4 DEF Acted, IsResolved
<1>22. CASE ExplainRefusal(r) BY <1>1, <1>3, <1>22, Arrives DEF ExplainRefusal
<1>23. CASE ViewException(r) BY <1>1, <1>3, <1>23, Arrives DEF ViewException
<1>24. CASE Retired(r) BY <1>1, <1>3, <1>24, Arrives DEF Retired
<1>25. CASE Crash(r) BY <1>1, <1>3, <1>25, Arrives DEF Crash
<1> QED
  BY <1>6, <1>7, <1>8, <1>9, <1>10, <1>11, <1>12, <1>13, <1>14, <1>15, <1>16, <1>17, <1>18,
     <1>19, <1>20, <1>21, <1>22, <1>23, <1>24, <1>25
  DEF RequestStep, Progress, EnsureCase, CaseAction, ExceptionAction

-----------------------------------------------------------------------------
(* What a request knows: while others move *)

(* A request that waits keeps what is said of it. *)
LEMMA WaiterKnows ==
  ASSUME ReviewInv, [Next]_vars, NEW q \in Requests,
         generation \in Nat, generation' \in Nat, generation <= generation',
         pc'[q] = pc[q], ws'[q] = ws[q], target'[q] = target[q], todo'[q] = todo[q],
         stamp'[q] = stamp[q], verb'[q] = verb[q], reply'[q] = reply[q],
         ~Mine(q) => ~Mine(q)'
  PROVE  Knows(q)' /\ Truth(q)' /\ Addressed(q)'
<1>1. /\ TypeOK /\ Knows(q) /\ Truth(q) /\ Addressed(q) /\ Placed(q) /\ Prepared(q) /\ Acted(q)
      /\ ws[q] \in Generations
  BY DEF ReviewInv, Knows, TypeOK
<1>2. /\ copies[ws[q]] \subseteq copies'[ws[q]] /\ receipts[ws[q]] \subseteq receipts'[ws[q]]
      /\ results[ws[q]] \subseteq results'[ws[q]] /\ shipments \subseteq shipments'
      /\ \A c \in SeedCases : decided[ws[q]][c] \subseteq decided'[ws[q]][c]
  BY <1>1, TablesStand
<1>3. ws'[q] <= generation' /\ (ws[q] # generation => ws'[q] # generation')
  BY <1>1 DEF Knows, Generations
<1>4. Placed(q)' BY <1>1 DEF Placed
<1>5. Prepared(q)'
  <2>1. Wanted(q)' = Wanted(q) /\ Copying(q)' = Copying(q) BY DEF Wanted, Copying
  <2>2. HasException(q) => HasException(q)' BY <1>2 DEF HasException
  <2> QED BY <1>1, <1>2, <2>1, <2>2 DEF Prepared
<1>6. Mine(q) => Mine(q)' BY MineStays
<1>7. target[q] \in SeedExceptions /\ IsResolved(ws[q], target[q]) => IsResolved(ws[q], target[q])'
  BY <1>1, ResolvedStays
<1>8. target[q] \in SeedCases /\ decided[ws[q]][target[q]] # {} => decided'[ws[q]][target[q]] # {}
  BY <1>2
<1>9. Acted(q)'
  <2>1. pc[q] = "reread" => target[q] \in SeedCases
    BY <1>1, Whose DEF Placed, CaseSteps
  <2>2. pc[q] = "refused" => target[q] \in SeedExceptions
    BY <1>1, Whose DEF Placed, ExceptionSteps
  <2>3. pc[q] = "refused" => IsResolved(ws[q], target[q])'
    BY <1>1, <1>7, <2>2 DEF Acted
  <2>4. pc[q] = "reread" => ws'[q] # generation' \/ decided'[ws[q]][target[q]] # {}
    BY <1>1, <1>3, <1>8, <2>1 DEF Acted
  <2> QED BY <1>1, <1>3, <1>6, <2>3, <2>4 DEF Acted, IsResolved
<1>10. Truth(q)'
  <2>1. reply[q] = "already_settled" => decided'[ws[q]][target[q]] # {}
    BY <1>1, <1>8 DEF Truth, Addressed, Knows, Placed
  <2>2. reply[q] = "already_resolved" => IsResolved(ws[q], target[q])'
    BY <1>1, <1>7 DEF Truth, Addressed, Knows, Placed
  <2> QED BY <1>1, <1>3, <1>6, <2>1, <2>2 DEF Truth, IsResolved
<1> QED BY <1>1, <1>3, <1>4, <1>5, <1>9, <1>10 DEF Knows, Addressed

-----------------------------------------------------------------------------
(* Answers *)

(* No race ends in an error, and every refusal has its reason. *)
LEMMA MoverTrue ==
  ASSUME ReviewInv, NEW r \in Requests, RequestStep(r)
  PROVE  Truth(r)' /\ Addressed(r)'
<1> DEFINE Goal == Truth(r)' /\ Addressed(r)'
<1> SUFFICES Goal OBVIOUS
<1>1. TypeOK /\ Knows(r) /\ Placed(r) /\ Prepared(r) /\ Acted(r) /\ ws[r] \in Generations
  BY DEF ReviewInv, Knows, TypeOK
<1>2. /\ r \in CaseRequests <=> r \notin ExceptionRequests
      /\ pc[r] \in CaseSteps => r \in CaseRequests
      /\ pc[r] \in ExceptionSteps => r \in ExceptionRequests
  BY <1>1, Whose
<1>3. ASSUME reply'[r] = reply[r], pc[r] # "done" PROVE Goal
  <2>1. reply'[r] = "none" BY <1>1, <1>3 DEF Knows
  <2> QED BY <2>1 DEF Truth, Addressed
<1>4. ASSUME reply'[r] = "lost" PROVE Goal BY <1>4 DEF Truth, Addressed
<1>5. ASSUME UNCHANGED <<tables, clock, local>> PROVE Mine(r)' <=> Mine(r)
  BY <1>5 DEF Mine, tables, local
<1> USE <1>1, <1>3, Arrives
<1> HIDE DEF Goal
<1>6. CASE BeginCase(r) BY <1>6 DEF BeginCase
<1>7. CASE BeginException(r) BY <1>7 DEF BeginException
<1>8. CASE HasCase(r) BY <1>8 DEF HasCase
<1>9. CASE CopyReceipt(r) BY <1>9 DEF CopyReceipt
<1>10. CASE CopyCase(r) BY <1>10 DEF CopyCase
<1>11. CASE HasCaseAgain(r)
  <2>1. Copying(r) \in copies[ws[r]] BY <1>11 DEF HasCaseAgain, Prepared
  <2> QED BY <1>11, <2>1 DEF HasCaseAgain
<1>12. CASE Decide(r) BY <1>12 DEF Decide
<1>13. CASE ReadStatus(r)
  <2>1. reply'[r] = "ok" /\ pc[r] = "status" BY <1>13 DEF ReadStatus
  <2>2. Mine(r)' BY <1>5, <1>13, <2>1 DEF ReadStatus, Acted
  <2> QED BY <2>1, <2>2 DEF Goal, Truth, Addressed
<1>14. CASE RereadStatus(r)
  <2>1. pc[r] = "reread" /\ ws[r] = generation /\ UNCHANGED <<tables, clock, local>>
    BY <1>14 DEF RereadStatus, Active
  <2>2. decided[ws[r]][target[r]] # {} /\ ~Mine(r) BY <2>1 DEF Acted
  <2>3. reply'[r] = "already_settled" BY <1>14, <2>2 DEF RereadStatus
  <2>4. r \in CaseRequests BY <1>2, <2>1 DEF CaseSteps
  <2> QED BY <1>5, <2>1, <2>2, <2>3, <2>4 DEF Goal, Truth, Addressed, tables, local
<1>15. CASE FindException(r) BY <1>15 DEF FindException
<1>16. CASE ImportShipments(r) BY <1>16 DEF ImportShipments
<1>17. CASE PersistException(r)
  <2>1. pc[r] = "persist" BY <1>17 DEF PersistException
  <2>2. r \in ExceptionRequests /\ r \notin CaseRequests BY <1>2, <2>1 DEF ExceptionSteps
  <2>3. ws[r] \in shipments /\ References[target[r]] \subseteq copies[ws[r]]
    BY <2>1, <2>2 DEF Prepared, Wanted
  <2> QED BY <1>17, <2>1, <2>3 DEF PersistException
<1>18. CASE FindExceptionAgain(r)
  <2>1. HasException(r) BY <1>18 DEF FindExceptionAgain, Prepared, HasSteps
  <2> QED BY <1>18, <2>1 DEF FindExceptionAgain
<1>19. CASE BeginTransaction(r) BY <1>19 DEF BeginTransaction
<1>20. CASE Act(r) BY <1>20 DEF Act
<1>21. CASE RefuseAct(r) BY <1>21 DEF RefuseAct
<1>22. CASE ExplainRefusal(r)
  <2>1. pc[r] \in {"retired", "refused"} /\ UNCHANGED <<tables, clock, local>>
    BY <1>22 DEF ExplainRefusal
  <2>2. ~Mine(r)' /\ r \in ExceptionRequests BY <1>2, <1>5, <2>1 DEF Acted, ExceptionSteps
  <2>3. IsResolved(ws[r], target[r]) <=> IsResolved(ws[r], target[r])'
    BY <2>1 DEF IsResolved, tables, local
  <2>4. CASE IsResolved(ws[r], target[r])
    <3>1. reply'[r] = "already_resolved" BY <1>22, <2>4 DEF ExplainRefusal
    <3> QED BY <2>1, <2>2, <2>3, <2>4, <3>1 DEF Goal, Truth, Addressed, IsResolved, local
  <2>5. CASE ~IsResolved(ws[r], target[r])
    <3>1. pc[r] = "retired" /\ ws[r] # generation BY <2>1, <2>5 DEF Acted
    <3>2. reply'[r] = "session_reset" BY <1>22, <2>5, <3>1 DEF ExplainRefusal
    <3> QED BY <2>1, <3>1, <3>2 DEF Goal, Truth, Addressed, tables, local
  <2> QED BY <2>4, <2>5
<1>23. CASE ViewException(r)
  <2>1. reply'[r] = "ok" /\ pc[r] = "view" BY <1>23 DEF ViewException
  <2>2. Mine(r)' BY <1>5, <1>23, <2>1 DEF ViewException, Acted
  <2> QED BY <2>1, <2>2 DEF Goal, Truth, Addressed
<1>24. CASE Retired(r)
  <2>1. ws[r] # generation /\ UNCHANGED <<tables, clock, local>> BY <1>24 DEF Retired, Active
  <2>2. reply'[r] = "session_reset" BY <1>24 DEF Retired
  <2> QED BY <2>1, <2>2 DEF Goal, Truth, Addressed, tables, local
<1>25. CASE Crash(r) BY <1>4, <1>25 DEF Crash
<1> QED
  BY <1>6, <1>7, <1>8, <1>9, <1>10, <1>11, <1>12, <1>13, <1>14, <1>15, <1>16, <1>17, <1>18,
     <1>19, <1>20, <1>21, <1>22, <1>23, <1>24, <1>25
  DEF RequestStep, Progress, EnsureCase, CaseAction, ExceptionAction

(* So every step keeps what is said of every request, *)
LEMMA StepRequests ==
  ASSUME ReviewInv, TypeOK', [Next]_vars, NEW q \in Requests
  PROVE  Knows(q)' /\ Truth(q)' /\ Addressed(q)'
<1>1. generation \in Nat /\ generation' \in Nat BY ReviewAssumption DEF ReviewInv, TypeOK, Generations
<1>2. ASSUME NEW r \in Requests, RequestStep(r) PROVE Knows(q)' /\ Truth(q)' /\ Addressed(q)'
  <2>1. CASE q = r
    <3>1. Knows(q)' BY <1>2, <2>1, MoverPlaced, MoverPrepared, MoverActed DEF Knows
    <3> QED BY <1>2, <2>1, <3>1, MoverTrue
  <2>2. CASE q # r
    <3>1. OthersWait(r) BY <1>2, OneMoves DEF ReviewInv
    <3>2. ~Mine(q) => ~Mine(q)' BY <1>2, <2>2, NotMineStays
    <3> QED BY <1>1, <2>2, <3>1, <3>2, WaiterKnows DEF OthersWait
  <2> QED BY <2>1, <2>2
<1>3. CASE Reset
  <2>1. UNCHANGED <<decided, rows, stamp, verb>> BY <1>3 DEF Reset, local
  <2>2. ~Mine(q) => ~Mine(q)' BY <2>1 DEF Mine
  <2> QED BY <1>1, <1>3, <2>2, WaiterKnows DEF Reset, local
<1>4. CASE UNCHANGED vars
  <2>1. ~Mine(q) => ~Mine(q)' BY <1>4 DEF Mine, vars, tables, local
  <2> QED BY <1>1, <1>4, <2>1, WaiterKnows DEF vars, tables, local
<1> QED BY <1>2, <1>3, <1>4, WhoSteps

-----------------------------------------------------------------------------
(* The copies *)

(* and of every generation. *)
LEMMA StepCopies ==
  ASSUME ReviewInv, TypeOK', [Next]_vars, NEW g \in Generations
  PROVE  Complete(g)' /\ DecidedOnce(g)'
<1>1. TypeOK /\ Complete(g) /\ DecidedOnce(g) BY DEF ReviewInv
<1>2. ASSUME UNCHANGED tables PROVE Complete(g)' /\ DecidedOnce(g)'
  BY <1>1, <1>2 DEF Complete, DecidedOnce, tables
<1>3. ASSUME NEW r \in Requests, RequestStep(r) PROVE DecidedOnce(g)'
  BY <1>1, <1>3, WrittenDecisions DEF DecidedOnce
<1>4. ASSUME NEW r \in Requests, RequestStep(r) PROVE Complete(g)'
  <2>1. /\ Knows(r) /\ Placed(r) /\ Prepared(r) /\ ws[r] \in Generations
    BY <1>1 DEF ReviewInv, Knows, TypeOK
  <2>2. CASE CopyReceipt(r)
    <3>1. receipts' = [receipts EXCEPT ![ws[r]] = receipts[ws[r]] \cup {Copying(r)}]
          /\ UNCHANGED <<copies, decided, shipments, results, rows>>
      BY <2>2 DEF CopyReceipt
    <3>2. receipts[g] \subseteq receipts'[g] BY <1>1, <2>1, <3>1 DEF TypeOK
    <3> QED BY <1>1, <3>1, <3>2 DEF Complete
  <2>3. CASE CopyCase(r)
    <3>1. /\ UNCHANGED <<receipts, decided, shipments, results, rows>> /\ pc[r] = "copy"
          /\ \/ copies' = copies
             \/ copies' = [copies EXCEPT ![ws[r]] = copies[ws[r]] \cup {Copying(r)}]
      BY <2>3 DEF CopyCase
    <3>2. Copying(r) \in receipts[ws[r]] BY <2>1, <3>1 DEF Prepared
    <3>3. copies \in [Generations -> SUBSET SeedCases] BY <1>1 DEF TypeOK
    <3>4. copies'[g] = copies[g] \/ (g = ws[r] /\ copies'[g] = copies[g] \cup {Copying(r)})
      BY <3>1, <3>3
    <3>5. copies[g] \subseteq copies'[g] /\ copies'[g] \subseteq receipts'[g]
      BY <1>1, <3>1, <3>2, <3>4 DEF Complete
    <3> QED BY <1>1, <3>1, <3>5 DEF Complete
  <2>4. CASE Decide(r)
    <3>1. UNCHANGED <<receipts, copies, shipments, results, rows>> BY <2>4 DEF Decide
    <3>2. \A c \in SeedCases \ copies[g] : decided'[g][c] = decided[g][c]
      BY <1>4, WrittenDecisions
    <3> QED BY <1>1, <3>1, <3>2 DEF Complete
  <2>5. CASE ImportShipments(r)
    <3>1. UNCHANGED <<receipts, copies, decided, results, rows>> /\ shipments \subseteq shipments'
      BY <2>5 DEF ImportShipments
    <3> QED BY <1>1, <3>1 DEF Complete
  <2>6. CASE PersistException(r)
    <3>1. UNCHANGED <<receipts, copies, decided, shipments>> /\ pc[r] = "persist"
      BY <2>6 DEF PersistException
    <3>2. CASE UNCHANGED <<results, rows>> BY <1>1, <3>1, <3>2 DEF Complete
    <3>3. CASE ~UNCHANGED <<results, rows>>
      <4>1. /\ ws[r] \in shipments /\ References[target[r]] \subseteq copies[ws[r]]
            /\ results' = [results EXCEPT ![ws[r]] = results[ws[r]] \cup {target[r]}]
            /\ rows' = IF target[r] \in Queued
                       THEN [rows EXCEPT ![ws[r]][target[r]] = {[at |-> 0, state |-> "OPEN"]}]
                       ELSE rows
        BY <2>6, <3>3 DEF PersistException
      <4>2. target[r] \in SeedExceptions
        <5>1. r \in ExceptionRequests BY <2>1, <3>1, Whose DEF ExceptionSteps
        <5> QED BY <2>1, <3>1, <5>1 DEF Placed
      <4>3. CASE g # ws[r]
        <5>1. results'[g] = results[g] /\ rows'[g] = rows[g] BY <1>1, <4>1, <4>3 DEF TypeOK
        <5> QED BY <1>1, <3>1, <5>1 DEF Complete
      <4>4. CASE g = ws[r]
        <5>1. results'[g] = results[g] \cup {target[r]} BY <1>1, <4>1, <4>4 DEF TypeOK
        <5>2. \A x \in SeedExceptions \ {target[r]} : rows'[g][x] = rows[g][x]
          BY <1>1, <4>1, <4>2, <4>4 DEF TypeOK
        <5>3. target[r] \in Queued => rows'[g][target[r]] # {}
          BY <1>1, <4>1, <4>2, <4>4 DEF TypeOK
        <5>4. results[g] \subseteq SeedExceptions BY <1>1 DEF TypeOK
        <5> QED BY <1>1, <3>1, <4>1, <4>2, <4>4, <5>1, <5>2, <5>3, <5>4 DEF Complete
      <4> QED BY <4>3, <4>4
    <3> QED BY <3>2, <3>3
  <2>7. CASE Act(r)
    <3>1. /\ UNCHANGED <<receipts, copies, decided, shipments, results>> /\ pc[r] = "act"
          /\ rows' = [rows EXCEPT ![ws[r]][target[r]] =
                        rows[ws[r]][target[r]] \cup {[at |-> stamp[r], state |-> verb[r]]}]
      BY <2>7 DEF Act
    <3>2. target[r] \in results[ws[r]] /\ target[r] \in SeedExceptions
      <4>1. target[r] \in results[ws[r]] BY <2>1, <3>1 DEF Prepared, HasSteps, HasException
      <4> QED BY <1>1, <2>1, <4>1 DEF TypeOK
    <3>3. \A x \in SeedExceptions :
            \/ rows'[g][x] = rows[g][x]
            \/ x \in results[g] /\ rows'[g][x] # {}
      BY <1>1, <2>1, <3>1, <3>2 DEF TypeOK
    <3>4. results[g] \subseteq SeedExceptions BY <1>1 DEF TypeOK
    <3> QED BY <1>1, <3>1, <3>3, <3>4 DEF Complete
  <2> QED BY <1>1, <1>2, <1>4, <2>2, <2>3, <2>4, <2>5, <2>6, <2>7, OneMoves DEF Writes
<1>5. CASE Reset
  <2>1. UNCHANGED <<receipts, copies, decided, shipments, results, rows>> BY <1>5 DEF Reset
  <2> QED BY <1>1, <2>1 DEF Complete, DecidedOnce
<1>6. CASE UNCHANGED vars BY <1>2, <1>6 DEF vars
<1> QED BY <1>3, <1>4, <1>5, <1>6, WhoSteps

-----------------------------------------------------------------------------
(* The invariant *)

(* The invariant holds at the start, *)
LEMMA ReviewInvHolds == Init => ReviewInv
<1> SUFFICES ASSUME Init PROVE ReviewInv OBVIOUS
<1> USE ReviewAssumption DEF Init
<1>1. 1 \in Generations BY DEF Generations
<1>2. 0 \in Stamps
  <2>1. Cardinality(ExceptionRequests) \in Nat BY FS_CardinalityType
  <2> QED BY <2>1 DEF Stamps
<1>3. TypeOK BY <1>1, <1>2 DEF TypeOK, Steps, Replies, States
<1>4. Clocked
  <2>1. Stamped = {} BY DEF Stamped, Requests
  <2>2. Cardinality(Stamped) = 0 BY <2>1, FS_EmptySet
  <2> QED BY <2>2 DEF Clocked
<1>5. ASSUME NEW r \in Requests PROVE Knows(r) /\ Truth(r) /\ Addressed(r)
  <2>1. ~Mine(r) BY <1>5 DEF Mine
  <2>2. Placed(r) BY <1>5 DEF Placed
  <2>3. Prepared(r) BY <1>5 DEF Prepared, CopySteps, HasSteps
  <2>4. Acted(r) BY <1>5, <2>1 DEF Acted
  <2> QED BY <1>5, <2>2, <2>3, <2>4 DEF Knows, Truth, Addressed
<1>6. ASSUME NEW g \in Generations PROVE Complete(g) /\ DecidedOnce(g)
  BY <1>6 DEF Complete, DecidedOnce
<1> QED BY <1>3, <1>4, <1>5, <1>6 DEF ReviewInv

(* is kept by every step, *)
LEMMA ReviewInvKept == ReviewInv /\ [Next]_vars => ReviewInv'
<1> SUFFICES ASSUME ReviewInv, [Next]_vars PROVE ReviewInv' OBVIOUS
<1>1. TypeOK' BY StepTypes
<1>2. Clocked' BY <1>1, StepClocked
<1>3. \A r \in Requests : Knows(r)' /\ Truth(r)' /\ Addressed(r)' BY <1>1, StepRequests
<1>4. \A g \in Generations : Complete(g)' /\ DecidedOnce(g)' BY <1>1, StepCopies
<1> QED BY <1>1, <1>2, <1>3, <1>4 DEF ReviewInv

(* and so always holds. *)
LEMMA ReviewInvAlways == Spec => []ReviewInv
  BY ReviewInvHolds, ReviewInvKept, PTL DEF Spec

(* Copies, rows, times and the requests' own state keep their types: as    *)
(* many times are taken as actions began.                                  *)
THEOREM ReviewTypeCorrect == Spec => []TypeOK
<1>1. ReviewInv => TypeOK BY DEF ReviewInv
<1> QED BY <1>1, ReviewInvAlways, PTL

(* ensure_case and ensure_exception: whoever copies what first, and        *)
(* wherever they stop, what exists is complete.                            *)
THEOREM CopiesAlwaysComplete == Spec => []CopiesComplete
<1>1. ReviewInv => CopiesComplete BY DEF ReviewInv, CopiesComplete, Complete
<1> QED BY <1>1, ReviewInvAlways, PTL

(* append_review_action decides a copied case once.                        *)
THEOREM DecidedExactlyOnce == Spec => []OneDecision
<1>1. ReviewInv => OneDecision BY DEF ReviewInv, OneDecision, DecidedOnce
<1> QED BY <1>1, ReviewInvAlways, PTL

(* submit_case_action and submit_exception_action: no race between copies, *)
(* actions and resets ends in an error, and each answer is true.           *)
THEOREM ReviewAnswersTrue == Spec => []RepliesTrue
<1>1. ReviewInv => RepliesTrue BY DEF ReviewInv, RepliesTrue, Truth
<1> QED BY <1>1, ReviewInvAlways, PTL

(* append_review_action never adds to an exception that the overlay shows  *)
(* as resolved, although the rows' order may differ from the lock's.       *)
THEOREM ResolvedShownStays == Spec => ShownResolvedStays
<1>1. ReviewInv /\ [Next]_vars =>
        [\A g \in Generations, x \in SeedExceptions :
           IsResolved(g, x) => rows'[g][x] = rows[g][x]]_vars
  BY TablesStand
<1> QED BY <1>1, ReviewInvAlways, PTL DEF Spec, ShownResolvedStays

=============================================================================
