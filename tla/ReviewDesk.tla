----------------------------- MODULE ReviewDesk -----------------------------
(***************************************************************************)
(* The review routes (api/actions.py) over the guest's copies of the seed  *)
(* records (materialize.py, review.py and their part of persistence.py).   *)
(* A first action on a seed case or reconciliation exception copies it     *)
(* into the guest's workspace, step by step, and then acts on the copy,    *)
(* while other requests of the same guest do the same and Reset All may    *)
(* retire the workspace.                                                   *)
(*                                                                         *)
(* A transaction is one action, as in CaseFlow, except the one that acts   *)
(* on an exception: created_at is PostgreSQL's now(), the time at which a  *)
(* transaction BEGAN, and the lock that orders transactions is taken by a  *)
(* later statement, so "begin" and "act" are separate steps.  The catalog's*)
(* own refusals (404, 422, not_in_review, not_an_exception) come before    *)
(* any write and are left out.                                             *)
(***************************************************************************)
EXTENDS Naturals, FiniteSets

CONSTANTS
  CaseRequests,       \* POST /api/cases/{case_id}/actions, each used once
  ExceptionRequests,  \* POST /api/reconciliation/{id}/actions, used once
  SeedCases,          \* the seed cases held for review
  SeedExceptions,     \* the seed reconciliation exceptions
  References,         \* the seed cases an exception names, by exception
  Queued,             \* the SOURCE_STALE or DUPLICATE_OR_AMBIGUOUS ones
  NoTarget,           \* a request that has not begun
  MaxGeneration       \* bound: Reset All may run MaxGeneration - 1 times

ASSUME ReviewAssumption ==
  /\ MaxGeneration \in Nat \ {0}
  /\ References \in [SeedExceptions -> SUBSET SeedCases]
  /\ Queued \subseteq SeedExceptions
  /\ NoTarget \notin SeedCases \cup SeedExceptions
  /\ SeedCases \cap SeedExceptions = {}
  /\ CaseRequests \cap ExceptionRequests = {}
  /\ IsFiniteSet(ExceptionRequests)

Requests == CaseRequests \cup ExceptionRequests

VARIABLES
  generation,   \* guest_sessions.current_generation
  receipts,     \* email_receipts of the guest's copies
  copies,       \* cases of the guest's copies
  decided,      \* review_actions rows of a copied case
  shipments,    \* the workspaces that hold the seed's expected shipments
  results,      \* reconciliation_results of the guest's copies
  rows,         \* review_assignments rows of a copied exception
  clock,        \* the database's time, in transactions begun
  pc, ws, target, todo, stamp, verb, reply   \* the requests' own state

tables == <<generation, receipts, copies, decided, shipments, results, rows>>
local == <<ws, target, stamp, verb>>
vars == <<tables, clock, pc, todo, reply, local>>

-----------------------------------------------------------------------------
(* Values *)

Generations == 1..MaxGeneration

(* ASSIGNED, ACKNOWLEDGED and ESCALATED do not differ in what they allow.  *)
States == {"OPEN", "RESOLVED"}
Stamps == 0..Cardinality(ExceptionRequests)
Rows == [at: Stamps, state: States]

CopySteps == {"has", "receipt", "copy", "again"}
CaseSteps == {"decide", "reread", "status"}
ExceptionSteps == {"find", "import", "persist", "find again",
                   "begin", "act", "retired", "refused", "view"}
Steps == {"new", "done"} \cup CopySteps \cup CaseSteps \cup ExceptionSteps

Replies == {"none", "ok", "already_settled", "already_resolved", "session_reset",
            "error", "lost"}

TypeOK ==
  /\ generation \in Generations
  /\ receipts \in [Generations -> SUBSET SeedCases]
  /\ copies \in [Generations -> SUBSET SeedCases]
  /\ decided \in [Generations -> [SeedCases -> SUBSET CaseRequests]]
  /\ shipments \subseteq Generations
  /\ results \in [Generations -> SUBSET SeedExceptions]
  /\ rows \in [Generations -> [SeedExceptions -> SUBSET Rows]]
  /\ clock \in Stamps
  /\ pc \in [Requests -> Steps]
  /\ ws \in [Requests -> Generations]
  /\ target \in [Requests -> SeedCases \cup SeedExceptions \cup {NoTarget}]
  /\ todo \in [Requests -> SUBSET SeedCases]
  /\ stamp \in [Requests -> Stamps]
  /\ verb \in [Requests -> States]
  /\ reply \in [Requests -> Replies]

Init ==
  /\ generation = 1
  /\ receipts = [g \in Generations |-> {}]
  /\ copies = [g \in Generations |-> {}]
  /\ decided = [g \in Generations |-> [c \in SeedCases |-> {}]]
  /\ shipments = {}
  /\ results = [g \in Generations |-> {}]
  /\ rows = [g \in Generations |-> [x \in SeedExceptions |-> {}]]
  /\ clock = 0
  /\ pc = [r \in Requests |-> "new"]
  /\ ws = [r \in Requests |-> 1]
  /\ target = [r \in Requests |-> NoTarget]
  /\ todo = [r \in Requests |-> {}]
  /\ stamp = [r \in Requests |-> 0]
  /\ verb = [r \in Requests |-> "OPEN"]
  /\ reply = [r \in Requests |-> "none"]

-----------------------------------------------------------------------------
(* Steps shared by the handlers *)

(* Operators named "Mutant..." are plausible bugs; no specification uses    *)
(* them.  PROJECT.json says which definition each one stands in for.       *)

(* _require_active_guest_workspace.                                        *)
Active(r) == ws[r] = generation

Goto(r, step) ==
  /\ pc' = [pc EXCEPT ![r] = step]
  /\ UNCHANGED reply

End(r, answer) ==
  /\ pc' = [pc EXCEPT ![r] = "done"]
  /\ reply' = [reply EXCEPT ![r] = answer]

(* The latest assignment: the row with the greatest created_at.            *)
Latest(assigned) == CHOOSE row \in assigned : \A other \in assigned : other.at <= row.at

IsResolved(g, x) == rows[g][x] # {} /\ Latest(rows[g][x]).state = "RESOLVED"

(* get_reconciliation_exception_states, which reads any workspace, retired *)
(* ones included: is there a copy of the exception?                        *)
HasException(r) == target[r] \in results[ws[r]]

-----------------------------------------------------------------------------
(* SeedMaterializer.ensure_case, for every case in todo *)

(* Every case is there: review it, or persist the run that names it.       *)
AfterCopies(r, left) ==
  IF left # {} THEN "has" ELSE IF r \in CaseRequests THEN "decide" ELSE "persist"

CaseEnsured(r, c) ==
  /\ todo' = [todo EXCEPT ![r] = @ \ {c}]
  /\ Goto(r, AfterCopies(r, todo[r] \ {c}))

(* The cases are copied one at a time, in the order of the list.           *)
Copying(r) == CHOOSE c \in todo[r] : TRUE

MutantHasCase(r) ==
  /\ pc[r] = "has"
  /\ Active(r)
  /\ IF Copying(r) \in copies[ws[r]]
     THEN CaseEnsured(r, Copying(r))
     ELSE Goto(r, "copy") /\ UNCHANGED todo
  /\ UNCHANGED <<tables, clock, local>>

(* _has_case, before and after the copy.                                   *)
HasCase(r) ==
  /\ pc[r] = "has"
  /\ Active(r)
  /\ IF Copying(r) \in copies[ws[r]]
     THEN CaseEnsured(r, Copying(r))
     ELSE Goto(r, "receipt") /\ UNCHANGED todo
  /\ UNCHANGED <<tables, clock, local>>

(* persist_receipt: one receipt per email, a replay returns it.            *)
CopyReceipt(r) ==
  /\ pc[r] = "receipt"
  /\ Active(r)
  /\ receipts' = [receipts EXCEPT ![ws[r]] = @ \cup {Copying(r)}]
  /\ Goto(r, "copy")
  /\ UNCHANGED <<generation, copies, decided, shipments, results, rows,
                 clock, todo, local>>

(* persist_case inserts the case under an ID derived from the workspace;   *)
(* a concurrent copy makes the insert an IntegrityError.                   *)
CopyCase(r) ==
  LET c == Copying(r)
  IN  /\ pc[r] = "copy"
      /\ Active(r)
      /\ \/ /\ c \in copies[ws[r]]
            /\ Goto(r, "again") /\ UNCHANGED <<copies, todo>>
         \/ /\ c \notin copies[ws[r]]
            /\ copies' = [copies EXCEPT ![ws[r]] = @ \cup {c}]
            /\ CaseEnsured(r, c)
      /\ UNCHANGED <<generation, receipts, decided, shipments, results, rows,
                     clock, local>>

MutantHasCaseAgain(r) ==
  /\ pc[r] = "again"
  /\ Active(r)
  /\ Goto(r, "copy")
  /\ UNCHANGED <<tables, clock, todo, local>>

HasCaseAgain(r) ==
  LET c == Copying(r)
  IN  /\ pc[r] = "again"
      /\ Active(r)
      /\ IF c \in copies[ws[r]]
         THEN CaseEnsured(r, c)
         ELSE End(r, "error") /\ UNCHANGED todo
      /\ UNCHANGED <<tables, clock, local>>

-----------------------------------------------------------------------------
(* submit_case_action and CaseReviewService.submit *)

BeginCase(r) ==
  /\ pc[r] = "new"
  /\ \E c \in SeedCases :
       /\ target' = [target EXCEPT ![r] = c]
       /\ todo' = [todo EXCEPT ![r] = {c}]
  /\ ws' = [ws EXCEPT ![r] = generation]
  /\ Goto(r, "has")
  /\ UNCHANGED <<tables, clock, stamp, verb>>

MutantMayDecide(r) == Active(r) /\ target[r] \in copies[ws[r]]

(* append_review_action: a copy nobody has decided.                        *)
MayDecide(r) ==
  Active(r) /\ target[r] \in copies[ws[r]] /\ decided[ws[r]][target[r]] = {}

(* append_review_action on the copy, and every ValueError of it, a retired *)
(* workspace included, turned into ReviewRejected.                         *)
Decide(r) ==
  /\ pc[r] = "decide"
  /\ \/ /\ MayDecide(r)
        /\ decided' = [decided EXCEPT ![ws[r]][target[r]] = @ \cup {r}]
        /\ Goto(r, "status")
     \/ /\ ~MayDecide(r)
        /\ Goto(r, "reread") /\ UNCHANGED decided
  /\ UNCHANGED <<generation, receipts, copies, shipments, results, rows,
                 clock, todo, local>>

(* get_case_review_status: the answer, or the reason of the rejection.     *)
ReadStatus(r) ==
  /\ pc[r] = "status"
  /\ Active(r)
  /\ End(r, "ok")
  /\ UNCHANGED <<tables, clock, todo, local>>

RereadStatus(r) ==
  /\ pc[r] = "reread"
  /\ Active(r)
  /\ End(r, IF decided[ws[r]][target[r]] # {} THEN "already_settled" ELSE "error")
  /\ UNCHANGED <<tables, clock, todo, local>>

-----------------------------------------------------------------------------
(* submit_exception_action and SeedMaterializer.ensure_exception *)

BeginException(r) ==
  /\ pc[r] = "new"
  /\ \E x \in SeedExceptions, v \in States :
       /\ target' = [target EXCEPT ![r] = x]
       /\ verb' = [verb EXCEPT ![r] = v]
       /\ todo' = [todo EXCEPT ![r] = References[x]]
  /\ ws' = [ws EXCEPT ![r] = generation]
  /\ Goto(r, "find")
  /\ UNCHANGED <<tables, clock, stamp>>

FindException(r) ==
  /\ pc[r] = "find"
  /\ Goto(r, IF HasException(r) THEN "begin" ELSE "import")
  /\ UNCHANGED <<tables, clock, todo, local>>

(* import_expected_shipments: all the seed shipments, in one transaction.  *)
ImportShipments(r) ==
  /\ pc[r] = "import"
  /\ Active(r)
  /\ shipments' = shipments \cup {ws[r]}
  /\ Goto(r, AfterCopies(r, todo[r]))
  /\ UNCHANGED <<generation, receipts, copies, decided, results, rows,
                 clock, todo, local>>

(* persist_reconciliation_run: what the result names must be there; a      *)
(* SOURCE_STALE or DUPLICATE_OR_AMBIGUOUS outcome starts with an assignment.*)
PersistException(r) ==
  LET x == target[r]
      complete == ws[r] \in shipments /\ References[x] \subseteq copies[ws[r]]
  IN  /\ pc[r] = "persist"
      /\ Active(r)
      /\ IF ~complete THEN End(r, "error") /\ UNCHANGED <<results, rows>>
         ELSE IF HasException(r) THEN Goto(r, "find again") /\ UNCHANGED <<results, rows>>
         ELSE /\ results' = [results EXCEPT ![ws[r]] = @ \cup {x}]
              /\ rows' = IF x \in Queued
                         THEN [rows EXCEPT ![ws[r]][x] = {[at |-> 0, state |-> "OPEN"]}]
                         ELSE rows
              /\ Goto(r, "begin")
      /\ UNCHANGED <<generation, receipts, copies, decided, shipments,
                     clock, todo, local>>

FindExceptionAgain(r) ==
  /\ pc[r] = "find again"
  /\ IF HasException(r) THEN Goto(r, "begin") ELSE End(r, "error")
  /\ UNCHANGED <<tables, clock, todo, local>>

MutantBeginTransaction(r) ==
  /\ pc[r] = "begin"
  /\ clock' = clock + 2
  /\ stamp' = [stamp EXCEPT ![r] = clock + 2]
  /\ Goto(r, "act")
  /\ UNCHANGED <<tables, todo, ws, target, verb>>

(* BEGIN of append_review_action: from here its rows have their time.      *)
BeginTransaction(r) ==
  /\ pc[r] = "begin"
  /\ clock' = clock + 1
  /\ stamp' = [stamp EXCEPT ![r] = clock + 1]
  /\ Goto(r, "act")
  /\ UNCHANGED <<tables, todo, ws, target, verb>>

MutantMayAct(r) == HasException(r)

(* append_review_action: the latest assignment is not RESOLVED.            *)
MayAct(r) == ~IsResolved(ws[r], target[r])

(* append_review_action, once it has the lock.                             *)
Act(r) ==
  LET x == target[r]
  IN  /\ pc[r] = "act"
      /\ Active(r)
      /\ MayAct(r)
      /\ rows' = [rows EXCEPT ![ws[r]][x] = @ \cup {[at |-> stamp[r], state |-> verb[r]]}]
      /\ Goto(r, "view")
      /\ UNCHANGED <<generation, receipts, copies, decided, shipments, results,
                     clock, todo, local>>

RefuseAct(r) ==
  /\ pc[r] = "act"
  /\ \/ ~Active(r) /\ Goto(r, "retired")
     \/ Active(r) /\ ~MayAct(r) /\ Goto(r, "refused")
  /\ UNCHANGED <<tables, clock, todo, local>>

MutantExplainRefusal(r) ==
  /\ pc[r] \in {"retired", "refused"}
  /\ End(r, "already_resolved")
  /\ UNCHANGED <<tables, clock, todo, local>>

(* exception_overlays after a ValueError: already_resolved if the copy is  *)
(* shown resolved, the error itself if not.                                *)
ExplainRefusal(r) ==
  /\ pc[r] \in {"retired", "refused"}
  /\ End(r, IF IsResolved(ws[r], target[r]) THEN "already_resolved"
            ELSE IF pc[r] = "retired" THEN "session_reset" ELSE "error")
  /\ UNCHANGED <<tables, clock, todo, local>>

(* exception_overlays after the action, for the answer.                    *)
ViewException(r) ==
  /\ pc[r] = "view"
  /\ End(r, "ok")
  /\ UNCHANGED <<tables, clock, todo, local>>

-----------------------------------------------------------------------------
(* Resets and crashes *)

(* InactiveWorkspace from a transaction nothing in the route intercepts.   *)
Retired(r) ==
  /\ pc[r] \in CopySteps \cup {"reread", "status", "import", "persist"}
  /\ ~Active(r)
  /\ End(r, "session_reset")
  /\ UNCHANGED <<tables, clock, todo, local>>

Crash(r) ==
  /\ pc[r] \notin {"new", "done"}
  /\ End(r, "lost")
  /\ UNCHANGED <<tables, clock, todo, local>>

Reset ==
  /\ generation < MaxGeneration
  /\ generation' = generation + 1
  /\ UNCHANGED <<receipts, copies, decided, shipments, results, rows,
                 clock, pc, todo, reply, local>>

-----------------------------------------------------------------------------
(* Specification *)

EnsureCase(r) == HasCase(r) \/ CopyReceipt(r) \/ CopyCase(r) \/ HasCaseAgain(r)

CaseAction(r) == Decide(r) \/ ReadStatus(r) \/ RereadStatus(r)

ExceptionAction(r) ==
  \/ FindException(r) \/ ImportShipments(r) \/ PersistException(r)
  \/ FindExceptionAgain(r) \/ BeginTransaction(r) \/ Act(r) \/ RefuseAct(r)
  \/ ExplainRefusal(r) \/ ViewException(r)

Progress(r) == EnsureCase(r) \/ CaseAction(r) \/ ExceptionAction(r) \/ Retired(r)

Finished == (\A r \in Requests : pc[r] = "done") /\ UNCHANGED vars

Next ==
  \/ \E r \in CaseRequests : BeginCase(r)
  \/ \E r \in ExceptionRequests : BeginException(r)
  \/ \E r \in Requests : Progress(r) \/ Crash(r)
  \/ Reset
  \/ Finished

Spec == Init /\ [][Next]_vars

(* A request that began keeps running.                                     *)
FairSpec == Spec /\ \A r \in Requests : WF_vars(Progress(r))

-----------------------------------------------------------------------------
(* Properties *)

(* Copies are made in several transactions and any of them may be the last *)
(* one a request reaches, yet what exists is always complete: a copied     *)
(* exception has its shipments and the cases it names, and a copied case   *)
(* its email; decisions and assignments hang only on copies.               *)
CopiesComplete ==
  \A g \in Generations :
    /\ copies[g] \subseteq receipts[g]
    /\ results[g] # {} => g \in shipments
    /\ \A x \in results[g] : References[x] \subseteq copies[g]
    /\ \A x \in results[g] \cap Queued : rows[g][x] # {}
    /\ \A x \in SeedExceptions \ results[g] : rows[g][x] = {}
    /\ \A c \in SeedCases \ copies[g] : decided[g][c] = {}

(* What an answer claims is true: ok means that this request's action is   *)
(* recorded, already_settled that another's is and this one's is not,      *)
(* already_resolved that the exception is shown resolved by another        *)
(* action, session_reset that there was a reset.  And no race escapes as a *)
(* 500: a lost insert always finds the winner's row, and a refusal always  *)
(* finds its reason, as the comment in submit_case_action claims.          *)
Mine(r) ==
  IF r \in CaseRequests THEN \E g \in Generations, c \in SeedCases : r \in decided[g][c]
  ELSE \E g \in Generations, x \in SeedExceptions :
         stamp[r] # 0 /\ [at |-> stamp[r], state |-> verb[r]] \in rows[g][x]

RepliesTrue ==
  \A r \in Requests :
    /\ reply[r] # "error"
    /\ reply[r] = "ok" => Mine(r)
    /\ reply[r] = "already_settled" => decided[ws[r]][target[r]] # {} /\ ~Mine(r)
    /\ reply[r] = "already_resolved" => IsResolved(ws[r], target[r]) /\ ~Mine(r)
    /\ reply[r] = "session_reset" => ws[r] # generation

(* A copied case is decided once, whoever races to decide it.              *)
OneDecision ==
  \A g \in Generations, c \in SeedCases : \A r, s \in decided[g][c] : r = s

(* An exception that is shown resolved stays as it is: the refusal reads   *)
(* the state the overlay shows.                                            *)
ShownResolvedStays ==
  [][\A g \in Generations, x \in SeedExceptions :
       IsResolved(g, x) => rows'[g][x] = rows[g][x]]_vars

(* Every request that began is answered, or lost with its process.         *)
RequestsAnswered == \A r \in Requests : pc[r] # "new" ~> pc[r] = "done"

-----------------------------------------------------------------------------
(* What the code and its documents claim, and a run refutes *)

(* "resolved reconciliation review cannot be changed": once a RESOLVE is   *)
(* recorded, no action on the exception is recorded after it.              *)
ResolutionFinal ==
  [][\A g \in Generations, x \in SeedExceptions :
       (\E row \in rows[g][x] : row.state = "RESOLVED") => rows'[g][x] = rows[g][x]]_vars

(* "A workspace reset mid-request answers 409 session_reset": an action    *)
(* that is refused because its workspace was retired says so.              *)
RetiredAnswersReset ==
  [][\A r \in Requests :
       pc[r] = "retired" /\ pc'[r] = "done" => reply'[r] \in {"session_reset", "lost"}]_vars

=============================================================================
