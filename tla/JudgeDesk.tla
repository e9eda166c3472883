----------------------------- MODULE JudgeDesk -----------------------------
(***************************************************************************)
(* JudgeService (judge.py) with the judge-run tables of persistence.py: a  *)
(* visitor uploads a pair, the pair is received as an email of its own,    *)
(* checked by the comparison pipeline and recorded as a run; a FAILED run  *)
(* may be retried, by several requests at once.  A bounded number of       *)
(* checks run at a time in the process; Reset All, an unexpected error and *)
(* a restart of the process may fall between any two steps.                *)
(*                                                                         *)
(* Each upload creates one email, one case and at most one run, so all     *)
(* three are named by the upload.  One transaction is one action, as in    *)
(* CaseFlow.                                                               *)
(***************************************************************************)
EXTENDS Naturals, FiniteSets

CONSTANTS
  Uploads,        \* POST /api/judge/runs requests, each used once
  Retries,        \* POST /api/judge/runs/{run_id}/retry requests, used once
  Slots,          \* settings.max_concurrent_judge_checks
  NoRun,          \* a retry that has not begun
  MaxGeneration,  \* bound: Reset All may run MaxGeneration - 1 times
  MaxRestarts     \* bound: how often the process may restart

ASSUME JudgeAssumption ==
  /\ Slots \in Nat \ {0}
  /\ MaxGeneration \in Nat \ {0}
  /\ MaxRestarts \in Nat
  /\ NoRun \notin Uploads
  /\ Uploads \cap Retries = {}

Requests == Uploads \cup Retries

VARIABLES
  generation,   \* guest_sessions.current_generation
  case,         \* the received email and its case
  home,         \* the generation of the workspace the upload wrote into
  run,          \* judge_runs.state
  attempt,      \* judge_runs.attempt
  log,          \* JUDGE_RUN_RECORDED / JUDGE_RUN_RETRIED audit rows
  free,         \* value of the semaphore _check_slots
  restarts,
  broken,       \* history: the requests that met an unexpected error
  pc, ws, target, outcome, reply   \* the requests' own state

rows == <<generation, case, home, run, attempt, log>>
process == <<free, restarts, broken>>
local == <<pc, ws, target, outcome, reply>>
vars == <<rows, process, local>>

-----------------------------------------------------------------------------
(* Values *)

Generations == 1..MaxGeneration

CaseStates == {"ABSENT", "RECEIVED", "PENDING", "BL_READY", "CLASSIFIED"}
RunStates == {"NONE", "FAILED", "SUCCEEDED"}
Attempted == {"FAILED", "SUCCEEDED"}

ReceiveSteps == {"receipt", "ensure", "declare"}
CheckSteps == {"load", "decide", "judge"}
InSlot == {"accept", "record", "get"} \cup ReceiveSteps \cup CheckSteps
Steps == {"new", "find", "slot", "done"} \cup InSlot

Replies == {"none", "ok", "rejected", "busy", "not_found", "already_succeeded",
            "session_reset", "check_error", "lost"}

LogRows == [number: Nat, state: Attempted, by: Requests]

TypeOK ==
  /\ generation \in Generations
  /\ case \in [Uploads -> CaseStates]
  /\ home \in [Uploads -> Generations]
  /\ run \in [Uploads -> RunStates]
  /\ attempt \in [Uploads -> Nat]
  /\ log \in [Uploads -> SUBSET LogRows]
  /\ free \in 0..Slots
  /\ restarts \in 0..MaxRestarts
  /\ broken \subseteq Requests
  /\ pc \in [Requests -> Steps]
  /\ ws \in [Requests -> Generations]
  /\ target \in [Requests -> Uploads \cup {NoRun}]
  /\ outcome \in [Requests -> Attempted \cup {"none"}]
  /\ reply \in [Requests -> Replies]

Init ==
  /\ generation = 1
  /\ case = [u \in Uploads |-> "ABSENT"]
  /\ home = [u \in Uploads |-> 1]
  /\ run = [u \in Uploads |-> "NONE"]
  /\ attempt = [u \in Uploads |-> 0]
  /\ log = [u \in Uploads |-> {}]
  /\ free = Slots
  /\ restarts = 0
  /\ broken = {}
  /\ pc = [r \in Requests |-> "new"]
  /\ ws = [r \in Requests |-> 1]
  /\ target = [r \in Requests |-> NoRun]
  /\ outcome = [r \in Requests |-> "none"]
  /\ reply = [r \in Requests |-> "none"]

-----------------------------------------------------------------------------
(* Steps shared by the handlers *)

(* Operators named "Mutant..." are plausible bugs; no specification uses    *)
(* them.  PROJECT.json says which definition each one stands in for.       *)
MutantActive(r) == ws[r] <= generation

(* _require_active_guest_workspace.                                        *)
Active(r) == ws[r] = generation

Goto(r, step) ==
  /\ pc' = [pc EXCEPT ![r] = step]
  /\ UNCHANGED <<ws, target, outcome, reply>>

End(r, answer) ==
  /\ pc' = [pc EXCEPT ![r] = "done"]
  /\ reply' = [reply EXCEPT ![r] = answer]
  /\ UNCHANGED <<ws, target, outcome>>

MutantEndInSlot(r, answer) ==
  /\ End(r, answer)
  /\ free' = free + 2
  /\ UNCHANGED <<restarts, broken>>

(* The finally clause of _slot: leaving the block gives the slot back.     *)
EndInSlot(r, answer) ==
  /\ End(r, answer)
  /\ free' = free + 1
  /\ UNCHANGED <<restarts, broken>>

-----------------------------------------------------------------------------
(* Upload *)

BeginUpload(u) ==
  /\ pc[u] = "new"
  /\ pc' = [pc EXCEPT ![u] = "slot"]
  /\ ws' = [ws EXCEPT ![u] = generation]
  /\ target' = [target EXCEPT ![u] = u]
  /\ UNCHANGED <<rows, process, outcome, reply>>

AcquireSlot(r) ==
  /\ pc[r] = "slot"
  /\ free > 0
  /\ free' = free - 1
  /\ Goto(r, IF r \in Uploads THEN "accept" ELSE "load")
  /\ UNCHANGED <<rows, restarts, broken>>

(* wait_for gives up after _SLOT_WAIT_SECONDS.                             *)
SlotTimeout(r) ==
  /\ pc[r] = "slot"
  /\ free = 0
  /\ End(r, "busy")
  /\ UNCHANGED <<rows, process>>

MutantAccept(u) ==
  /\ pc[u] = "accept"
  /\ Goto(u, "receipt") \/ End(u, "rejected")
  /\ UNCHANGED <<rows, process>>

(* _accepted: both files are usable, or 422 before anything is written.    *)
Accept(u) ==
  /\ pc[u] = "accept"
  /\ \/ Goto(u, "receipt") /\ UNCHANGED process
     \/ EndInSlot(u, "rejected")
  /\ UNCHANGED rows

(* _receive: the receipt, the pending case, then the declared category,    *)
(* each in a transaction of its own.                                       *)
Received == [receipt |-> "RECEIVED", ensure |-> "PENDING", declare |-> "BL_READY"]
AfterReceive == [receipt |-> "ensure", ensure |-> "declare", declare |-> "load"]

Receive(u) ==
  /\ pc[u] \in ReceiveSteps
  /\ Active(u)
  /\ case' = [case EXCEPT ![u] = Received[pc[u]]]
  /\ home' = [home EXCEPT ![u] = ws[u]]
  /\ Goto(u, AfterReceive[pc[u]])
  /\ UNCHANGED <<generation, run, attempt, log, process>>

-----------------------------------------------------------------------------
(* Retry *)

BeginRetry(r) ==
  /\ pc[r] = "new"
  /\ \E u \in Uploads : target' = [target EXCEPT ![r] = u]
  /\ pc' = [pc EXCEPT ![r] = "find"]
  /\ ws' = [ws EXCEPT ![r] = generation]
  /\ UNCHANGED <<rows, process, outcome, reply>>

(* get_judge_runs finds only the runs of the caller's own workspace.       *)
Visible(r) == run[target[r]] # "NONE" /\ home[target[r]] = ws[r]

(* _run and the early returns of retry, read before the slot is waited for.*)
FindRun(r) ==
  /\ pc[r] = "find"
  /\ Active(r)
  /\ \/ ~Visible(r) /\ End(r, "not_found")
     \/ Visible(r) /\ run[target[r]] = "SUCCEEDED" /\ End(r, "already_succeeded")
     \/ Visible(r) /\ run[target[r]] = "FAILED" /\ Goto(r, "slot")
  /\ UNCHANGED <<rows, process>>

(* A reset met outside the slot.                                           *)
RetiredBeforeSlot(r) ==
  /\ pc[r] = "find"
  /\ ~Active(r)
  /\ End(r, "session_reset")
  /\ UNCHANGED <<rows, process>>

-----------------------------------------------------------------------------
(* The check: ComparisonPipeline.run_case on the uploaded case *)

LoadCase(r) ==
  /\ pc[r] = "load"
  /\ Active(r)
  /\ case[target[r]] = "BL_READY"
  /\ Goto(r, "decide")
  /\ UNCHANGED <<rows, process>>

RecordDecisions(r) ==
  /\ pc[r] = "decide"
  /\ Active(r)
  /\ Goto(r, "judge")
  /\ UNCHANGED <<rows, process>>

Conclude(r, result) ==
  /\ outcome' = [outcome EXCEPT ![r] = result]
  /\ pc' = [pc EXCEPT ![r] = "record"]
  /\ UNCHANGED <<ws, target, reply, process>>

(* PROVIDER_FAILED: the case stays BL_READY and the attempt is FAILED.     *)
ProviderGivesUp(r) ==
  /\ pc[r] = "judge"
  /\ Conclude(r, "FAILED")
  /\ UNCHANGED rows

(* record_comparison_result.                                               *)
CompareCase(r) ==
  /\ pc[r] = "judge"
  /\ Active(r)
  /\ case[target[r]] = "BL_READY"
  /\ case' = [case EXCEPT ![target[r]] = "CLASSIFIED"]
  /\ Conclude(r, "SUCCEEDED")
  /\ UNCHANGED <<generation, home, run, attempt, log>>

MutantAlreadyCompared(r) ==
  /\ pc[r] \in {"load", "judge"}
  /\ Active(r)
  /\ case[target[r]] # "BL_READY"
  /\ EndInSlot(r, "check_error")
  /\ UNCHANGED rows

(* "case is not awaiting comparison": a retry takes it as a result that is *)
(* there already; an upload would report it as an unexpected error.        *)
AlreadyCompared(r) ==
  /\ pc[r] \in {"load", "judge"}
  /\ Active(r)
  /\ case[target[r]] # "BL_READY"
  /\ IF r \in Retries THEN Conclude(r, "SUCCEEDED") ELSE EndInSlot(r, "check_error")
  /\ UNCHANGED rows

-----------------------------------------------------------------------------
(* Recording and answering *)

LogRow(number, state, r) == [number |-> number, state |-> state, by |-> r]

(* record_judge_run.                                                       *)
RecordRun(u) ==
  /\ pc[u] = "record"
  /\ u \in Uploads
  /\ Active(u)
  /\ run' = [run EXCEPT ![u] = outcome[u]]
  /\ attempt' = [attempt EXCEPT ![u] = 1]
  /\ log' = [log EXCEPT ![u] = @ \cup {LogRow(1, outcome[u], u)}]
  /\ Goto(u, "get")
  /\ UNCHANGED <<generation, case, home, process>>

MutantRecordRetry(r) ==
  LET u == target[r]
  IN  /\ pc[r] = "record"
      /\ r \in Retries
      /\ Active(r)
      /\ run' = [run EXCEPT ![u] = outcome[r]]
      /\ attempt' = [attempt EXCEPT ![u] = @ + 1]
      /\ log' = [log EXCEPT ![u] = @ \cup {LogRow(attempt[u] + 1, outcome[r], r)}]
      /\ Goto(r, "get")
      /\ UNCHANGED <<generation, case, home, process>>

(* record_judge_retry: UPDATE ... WHERE state = 'FAILED'.                  *)
RecordRetry(r) ==
  LET u == target[r]
  IN  /\ pc[r] = "record"
      /\ r \in Retries
      /\ Active(r)
      /\ run[u] = "FAILED"
      /\ run' = [run EXCEPT ![u] = outcome[r]]
      /\ attempt' = [attempt EXCEPT ![u] = @ + 1]
      /\ log' = [log EXCEPT ![u] = @ \cup {LogRow(attempt[u] + 1, outcome[r], r)}]
      /\ Goto(r, "get")
      /\ UNCHANGED <<generation, case, home, process>>

MutantTryAgain(r) ==
  /\ pc[r] = "record"
  /\ r \in Retries
  /\ Active(r)
  /\ run[target[r]] # "FAILED"
  /\ Goto(r, "record")
  /\ UNCHANGED <<rows, process>>

(* ... and no row to update: a concurrent retry won.                       *)
LoseRetry(r) ==
  /\ pc[r] = "record"
  /\ r \in Retries
  /\ Active(r)
  /\ run[target[r]] # "FAILED"
  /\ EndInSlot(r, "already_succeeded")
  /\ UNCHANGED rows

(* The view of the run that answers the request.                           *)
Answer(r) ==
  /\ pc[r] = "get"
  /\ Active(r)
  /\ EndInSlot(r, "ok")
  /\ UNCHANGED rows

-----------------------------------------------------------------------------
(* Resets, errors and restarts *)

(* InactiveWorkspace inside the slot, from any transaction of the check.   *)
RetiredInSlot(r) ==
  /\ pc[r] \in InSlot \ {"accept"}
  /\ ~Active(r)
  /\ EndInSlot(r, "session_reset")
  /\ UNCHANGED rows

(* Any other exception inside the slot: _check_errors answers 500.         *)
UnexpectedError(r) ==
  /\ pc[r] \in InSlot \ {"accept"}
  /\ End(r, "check_error")
  /\ free' = free + 1
  /\ broken' = broken \cup {r}
  /\ UNCHANGED <<rows, restarts>>

Reset ==
  /\ generation < MaxGeneration
  /\ generation' = generation + 1
  /\ UNCHANGED <<case, home, run, attempt, log, process, local>>

Running == {r \in Requests : pc[r] \notin {"new", "done"}}

(* The process restarts: its requests are gone and its semaphore is new.   *)
Restart ==
  /\ restarts < MaxRestarts
  /\ Running # {}
  /\ restarts' = restarts + 1
  /\ free' = Slots
  /\ pc' = [r \in Requests |-> IF r \in Running THEN "done" ELSE pc[r]]
  /\ reply' = [r \in Requests |-> IF r \in Running THEN "lost" ELSE reply[r]]
  /\ UNCHANGED <<rows, broken, ws, target, outcome>>

-----------------------------------------------------------------------------
(* Specification *)

UploadStep(u) == Accept(u) \/ Receive(u) \/ RecordRun(u)

RetryStep(r) ==
  FindRun(r) \/ RetiredBeforeSlot(r) \/ RecordRetry(r) \/ LoseRetry(r)

CheckStep(r) ==
  \/ AcquireSlot(r) \/ SlotTimeout(r)
  \/ LoadCase(r) \/ RecordDecisions(r) \/ ProviderGivesUp(r) \/ CompareCase(r)
  \/ AlreadyCompared(r) \/ Answer(r) \/ RetiredInSlot(r)

Progress(r) ==
  \/ r \in Uploads /\ UploadStep(r)
  \/ r \in Retries /\ RetryStep(r)
  \/ CheckStep(r)

Finished == (\A r \in Requests : pc[r] = "done") /\ UNCHANGED vars

Next ==
  \/ \E u \in Uploads : BeginUpload(u)
  \/ \E r \in Retries : BeginRetry(r)
  \/ \E r \in Requests : Progress(r) \/ UnexpectedError(r)
  \/ Reset
  \/ Restart
  \/ Finished

Spec == Init /\ [][Next]_vars

(* A request that began keeps running, and a wait for a slot is timed.     *)
FairSpec == Spec /\ \A r \in Requests : WF_vars(Progress(r))

-----------------------------------------------------------------------------
(* Properties *)

(* The audit trail tells the whole story of a run, however its retries     *)
(* raced: one row per attempt number, every attempt but the last FAILED,   *)
(* the last one the run's own state, no request counted twice.  A run that *)
(* says SUCCEEDED has a result to show: its case was compared.  (The       *)
(* converse may fail for a while: a check may stop between comparing and   *)
(* recording, and only a retry repairs that.)                              *)
LogMatchesRun ==
  \A u \in Uploads :
    /\ run[u] = "SUCCEEDED" => case[u] = "CLASSIFIED"
    /\ {row.number : row \in log[u]} = 1..attempt[u]
    /\ \A a, b \in log[u] : a.number = b.number \/ a.by = b.by => a = b
    /\ \A a \in log[u] : a.state = IF a.number = attempt[u] THEN run[u] ELSE "FAILED"

(* The bound on concurrent checks holds through timeouts, rejections,      *)
(* errors, resets and restarts, and no slot is ever lost.                  *)
SlotsConserved ==
  free + Cardinality({r \in Requests : pc[r] \in InSlot}) = Slots

(* What an answer claims is true: ok means this request's attempt is in    *)
(* the trail, already_succeeded that the run succeeded, session_reset that *)
(* there was a reset, busy or rejected that nothing was written, and an    *)
(* error that there was an unexpected one: that the case was compared      *)
(* already is none to a retry, and an upload has its case to itself until  *)
(* its run is recorded.                                                    *)
RepliesTrue ==
  \A r \in Requests :
    LET mine == {row \in UNION {log[u] : u \in Uploads} : row.by = r} IN
    /\ reply[r] = "ok" => mine # {}
    /\ reply[r] = "already_succeeded" => run[target[r]] = "SUCCEEDED" /\ mine = {}
    /\ reply[r] = "session_reset" => ws[r] # generation
    /\ reply[r] = "check_error" => r \in broken
    /\ reply[r] \in {"busy", "rejected"} /\ r \in Uploads =>
         case[r] = "ABSENT" /\ mine = {}
    /\ r \in Uploads /\ pc[r] \in {"load", "decide", "judge"} => case[r] = "BL_READY"

(* The judge-run tables implement the ledger of runs (record_judge_run,    *)
(* record_judge_retry): no attempt is recorded twice, after a success, or  *)
(* into a workspace a Reset All has retired.                               *)
Ledger ==
  INSTANCE RunLedger WITH Runs <- Uploads, state <- run,
                          sealed <- {u \in Uploads : case[u] # "ABSENT" /\ home[u] # generation}

LedgerSpec == Ledger!Spec

(* Every request that began is answered or lost with its process.  And the *)
(* retry repairs what a check left that stopped between comparing its case *)
(* and recording its run: the case does not have to wait for its result,   *)
(* so the run succeeds unless the retry meets a reset, an unexpected error *)
(* or a restart itself.                                                    *)
RequestsAnswered ==
  /\ \A r \in Requests : pc[r] # "new" ~> pc[r] = "done"
  /\ \A r \in Retries, u \in Uploads :
       target[r] = u /\ pc[r] = "load" /\ case[u] = "CLASSIFIED" ~>
         run[u] = "SUCCEEDED" \/ ws[r] # generation \/ r \in broken \/ reply[r] = "lost"

=============================================================================
