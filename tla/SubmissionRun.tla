--------------------------- MODULE SubmissionRun ---------------------------
(***************************************************************************)
(* Publication of a workspace's submission: execute_submission_run of      *)
(* persistence.py with the tables and triggers it relies on.  Executions   *)
(* of one (manifest hash, rule version) key run concurrently with each     *)
(* other, with the handlers that settle the cases, and with Reset All; any *)
(* of them may die between two transactions, and the next execution has to *)
(* resume what it left.                                                    *)
(*                                                                         *)
(* One transaction is one action, as in CaseFlow.  An artifact is named by *)
(* its content (its key is its SHA-256), so it is the function from emails *)
(* to outputs that the canonical JSON serialises.  A workspace has one run *)
(* of the key, named by the workspace's generation.                        *)
(***************************************************************************)
EXTENDS Naturals

CONSTANTS
  Executions,     \* calls of execute_submission_run, each used once
  Emails,         \* EXPECTED_EMAIL_IDS
  Outputs,        \* evaluator outputs
  Versions,       \* version manifests a caller may pass
  Nothing,        \* no output, artifact, version or blocker
  MaxGeneration   \* bound: Reset All may run MaxGeneration - 1 times

ASSUME SubmissionAssumption ==
  /\ MaxGeneration \in Nat \ {0}
  /\ Nothing \notin Outputs \cup Versions \cup [Emails -> Outputs]
  /\ Nothing \notin [unsettled: SUBSET Emails, schema: BOOLEAN]
  /\ Emails # {}

VARIABLES
  generation,   \* guest_sessions.current_generation
  cases,        \* evaluator_output of the CLASSIFIED cases
  state,        \* submission_runs.publication_state
  version,      \* submission_runs.version_manifest
  blockers,     \* submission_runs.blockers
  records,      \* submission_run_records, all of them or none
  artifact,     \* submission_runs.artifact_hash and private_artifact_key
  objects,      \* artifacts held by the object store
  evaluations,  \* submission_evaluations rows
  pc, ws, manifest, found, built, located, scored, reply   \* the executions' own state

run == <<state, version, blockers, records, artifact, evaluations>>
tables == <<generation, cases, run>>
local == <<ws, manifest, found, built, located, scored>>
vars == <<tables, objects, pc, reply, local>>

-----------------------------------------------------------------------------
(* Values *)

Generations == 1..MaxGeneration
Artifacts == [Emails -> Outputs]
States == {"NONE", "PENDING", "BLOCKED", "STAGED", "PUBLISHED"}

(* Why a run is blocked: emails without a completed decision, or a failure *)
(* to validate or store the records.                                       *)
Blockers == [unsettled: SUBSET Emails, schema: BOOLEAN]
(* Operators named "Mutant..." are plausible bugs; no specification uses    *)
(* them.  PROJECT.json says which definition each one stands in for.       *)
MutantSchemaFailure == [unsettled |-> {}]

(* SubmissionBlockerCode.SCHEMA_FAILURE.                                   *)
SchemaFailure == [unsettled |-> {}, schema |-> TRUE]

Steps == {"new", "create", "read", "collect", "stage", "block", "find", "put",
          "publish", "load", "score", "evaluate", "done"}
Replies == {"none", "BLOCKED", "PUBLISHED", "session_reset", "raised", "lost"}

TypeOK ==
  /\ generation \in Generations
  /\ cases \in [Generations -> [Emails -> Outputs \cup {Nothing}]]
  /\ state \in [Generations -> States]
  /\ version \in [Generations -> Versions \cup {Nothing}]
  /\ blockers \in [Generations -> Blockers \cup {Nothing}]
  /\ records \in [Generations -> Artifacts \cup {Nothing}]
  /\ artifact \in [Generations -> Artifacts \cup {Nothing}]
  /\ objects \subseteq Artifacts
  /\ evaluations \in [Generations -> SUBSET [artifact: Artifacts, by: Executions]]
  /\ pc \in [Executions -> Steps]
  /\ ws \in [Executions -> Generations]
  /\ manifest \in [Executions -> Versions \cup {Nothing}]
  /\ found \in [Executions -> Blockers \cup {Nothing}]
  /\ built \in [Executions -> Artifacts \cup {Nothing}]
  /\ located \in [Executions -> Artifacts \cup {Nothing}]
  /\ scored \in [Executions -> Artifacts \cup {Nothing}]
  /\ reply \in [Executions -> Replies]

Init ==
  /\ generation = 1
  /\ cases = [g \in Generations |-> [e \in Emails |-> Nothing]]
  /\ state = [g \in Generations |-> "NONE"]
  /\ version = [g \in Generations |-> Nothing]
  /\ blockers = [g \in Generations |-> Nothing]
  /\ records = [g \in Generations |-> Nothing]
  /\ artifact = [g \in Generations |-> Nothing]
  /\ objects = {}
  /\ evaluations = [g \in Generations |-> {}]
  /\ pc = [x \in Executions |-> "new"]
  /\ ws = [x \in Executions |-> 1]
  /\ manifest = [x \in Executions |-> Nothing]
  /\ found = [x \in Executions |-> Nothing]
  /\ built = [x \in Executions |-> Nothing]
  /\ located = [x \in Executions |-> Nothing]
  /\ scored = [x \in Executions |-> Nothing]
  /\ reply = [x \in Executions |-> "none"]

-----------------------------------------------------------------------------
(* Steps shared by the transactions *)

(* _require_active_guest_workspace.                                        *)
Active(x) == ws[x] = generation

Goto(x, step) ==
  /\ pc' = [pc EXCEPT ![x] = step]
  /\ UNCHANGED reply

End(x, answer) ==
  /\ pc' = [pc EXCEPT ![x] = "done"]
  /\ reply' = [reply EXCEPT ![x] = answer]

(* The expected emails that block a submission.                            *)
Unsettled(g) == {e \in Emails : cases[g][e] = Nothing}
MutantOnlyStaged(x) == state[ws[x]] = "STAGED"
MutantOnlyPublished(x) == state[ws[x]] = "PUBLISHED"

(* The states in which a run's records are final.                          *)
Complete(x) == state[ws[x]] \in {"STAGED", "PUBLISHED"}

(* The case handlers: a case is classified once and keeps its output (this *)
(* is DecisionsFinal of CaseFlow).                                         *)
Settle ==
  /\ \E e \in Unsettled(generation), o \in Outputs :
       cases' = [cases EXCEPT ![generation][e] = o]
  /\ UNCHANGED <<generation, run, objects, pc, reply, local>>

-----------------------------------------------------------------------------
(* create_submission_run and the state the execution continues from *)

Begin(x) ==
  /\ pc[x] = "new"
  /\ ws' = [ws EXCEPT ![x] = generation]
  /\ \E v \in Versions : manifest' = [manifest EXCEPT ![x] = v]
  /\ Goto(x, "create")
  /\ UNCHANGED <<tables, objects, found, built, located, scored>>

Create(x) ==
  /\ pc[x] = "create"
  /\ Active(x)
  /\ state[ws[x]] = "NONE"
  /\ state' = [state EXCEPT ![ws[x]] = "PENDING"]
  /\ version' = [version EXCEPT ![ws[x]] = manifest[x]]
  /\ Goto(x, "read")
  /\ UNCHANGED <<generation, cases, blockers, records, artifact, evaluations,
                 objects, local>>

(* A replay of the key must bring the same version manifest.               *)
Replay(x) ==
  /\ pc[x] = "create"
  /\ Active(x)
  /\ state[ws[x]] # "NONE"
  /\ IF version[ws[x]] = manifest[x] THEN Goto(x, "read") ELSE End(x, "raised")
  /\ UNCHANGED <<tables, objects, local>>

ReadState(x) ==
  /\ pc[x] = "read"
  /\ Goto(x, IF Complete(x) THEN "find" ELSE "collect")
  /\ UNCHANGED <<tables, objects, local>>

-----------------------------------------------------------------------------
(* Collecting, staging and blocking *)

Fail(x, why) ==
  /\ found' = [found EXCEPT ![x] = why]
  /\ Goto(x, "block")

(* collect_submission_case_snapshots and build_submission_artifact; an     *)
(* InactiveWorkspace is a ValueError and is handled as one.                *)
Collect(x) ==
  /\ pc[x] = "collect"
  /\ \/ ~Active(x) /\ Fail(x, SchemaFailure) /\ UNCHANGED built
     \/ /\ Active(x) /\ Unsettled(ws[x]) # {}
        /\ Fail(x, [unsettled |-> Unsettled(ws[x]), schema |-> FALSE])
        /\ UNCHANGED built
     \/ /\ Active(x) /\ Unsettled(ws[x]) = {}
        /\ built' = [built EXCEPT ![x] = cases[ws[x]]]
        /\ Goto(x, "stage") /\ UNCHANGED found
  /\ UNCHANGED <<tables, objects, ws, manifest, located, scored>>

(* stage_submission_run: the records are inserted and the run becomes      *)
(* STAGED in one transaction, if the cases still are what was collected.   *)
Stage(x) ==
  /\ pc[x] = "stage"
  /\ Active(x)
  /\ ~Complete(x)
  /\ built[x] = cases[ws[x]]
  /\ records' = [records EXCEPT ![ws[x]] = built[x]]
  /\ state' = [state EXCEPT ![ws[x]] = "STAGED"]
  /\ blockers' = [blockers EXCEPT ![ws[x]] = Nothing]
  /\ Goto(x, "find")
  /\ UNCHANGED <<generation, cases, version, artifact, evaluations, objects, local>>

(* Another execution staged first: the same artifact, or a conflict.       *)
StagedAlready(x) ==
  /\ pc[x] = "stage"
  /\ Active(x)
  /\ Complete(x)
  /\ IF records[ws[x]] = built[x]
     THEN Goto(x, "find") /\ UNCHANGED found
     ELSE Fail(x, SchemaFailure)
  /\ UNCHANGED <<tables, objects, ws, manifest, built, located, scored>>

(* Cases that changed, a retired workspace, or any RuntimeError or         *)
(* SQLAlchemyError: nothing is staged.                                     *)
StageFails(x) ==
  /\ pc[x] = "stage"
  /\ Fail(x, SchemaFailure)
  /\ UNCHANGED <<tables, objects, ws, manifest, built, located, scored>>

(* mark_submission_run_blocked, which leaves a run alone that another      *)
(* execution has staged meanwhile; its records are then published instead. *)
Block(x) ==
  /\ pc[x] = "block"
  /\ Active(x)
  /\ IF Complete(x)
     THEN /\ built' = [built EXCEPT ![x] = Nothing]
          /\ Goto(x, "find") /\ UNCHANGED <<state, blockers>>
     ELSE /\ state' = [state EXCEPT ![ws[x]] = "BLOCKED"]
          /\ blockers' = [blockers EXCEPT ![ws[x]] = found[x]]
          /\ End(x, "BLOCKED") /\ UNCHANGED built
  /\ UNCHANGED <<generation, cases, version, records, artifact, evaluations,
                 objects, ws, manifest, found, located, scored>>

-----------------------------------------------------------------------------
(* publish_submission_run, scoring and append_submission_evaluation *)

(* The first transaction: the published artifact, or what is to be         *)
(* published, rebuilt from the records.                                    *)
FindStaged(x) ==
  /\ pc[x] = "find"
  /\ Active(x)
  /\ IF Complete(x)
     THEN /\ located' = [located EXCEPT ![x] = records[ws[x]]]
          /\ Goto(x, IF state[ws[x]] = "PUBLISHED" THEN "load" ELSE "put")
     ELSE End(x, "raised") /\ UNCHANGED located
  /\ UNCHANGED <<tables, objects, ws, manifest, found, built, scored>>

MutantPutArtifact(x) ==
  /\ pc[x] = "put"
  /\ Goto(x, "publish")
  /\ UNCHANGED <<tables, objects, local>>

(* put_artifact_if_absent, outside any transaction.                        *)
PutArtifact(x) ==
  /\ pc[x] = "put"
  /\ objects' = objects \cup {located[x]}
  /\ Goto(x, "publish")
  /\ UNCHANGED <<tables, local>>

(* The second transaction, after the object store has the bytes.           *)
Publish(x) ==
  /\ pc[x] = "publish"
  /\ Active(x)
  /\ state[ws[x]] = "STAGED"
  /\ records[ws[x]] = located[x]
  /\ state' = [state EXCEPT ![ws[x]] = "PUBLISHED"]
  /\ artifact' = [artifact EXCEPT ![ws[x]] = located[x]]
  /\ Goto(x, "load")
  /\ UNCHANGED <<generation, cases, version, blockers, records, evaluations,
                 objects, local>>

MutantPublishedAlready(x) ==
  /\ pc[x] = "publish"
  /\ Active(x)
  /\ state[ws[x]] # "STAGED"
  /\ Goto(x, "publish")
  /\ UNCHANGED <<tables, objects, local>>

(* Another execution published first: the same artifact, or a conflict.    *)
PublishedAlready(x) ==
  /\ pc[x] = "publish"
  /\ Active(x)
  /\ ~(state[ws[x]] = "STAGED" /\ records[ws[x]] = located[x])
  /\ IF state[ws[x]] = "PUBLISHED" /\ artifact[ws[x]] = located[x]
     THEN Goto(x, "load") ELSE End(x, "raised")
  /\ UNCHANGED <<tables, objects, local>>

MutantLoadArtifact(x) ==
  /\ pc[x] = "load"
  /\ Goto(x, "score")
  /\ UNCHANGED <<tables, objects, local>>

(* An execution that built no artifact reads the published one back.       *)
LoadArtifact(x) ==
  /\ pc[x] = "load"
  /\ IF built[x] # Nothing
     THEN Goto(x, "score") /\ UNCHANGED built
     ELSE IF located[x] \in objects
     THEN /\ built' = [built EXCEPT ![x] = located[x]]
          /\ Goto(x, "score")
     ELSE End(x, "raised") /\ UNCHANGED built
  /\ UNCHANGED <<tables, objects, ws, manifest, found, located, scored>>

(* score_submission_artifact: the endpoint gets the bytes, or fails safely.*)
Score(x) ==
  /\ pc[x] = "score"
  /\ scored' = [scored EXCEPT ![x] = built[x]]
  /\ Goto(x, "evaluate")
  /\ UNCHANGED <<tables, objects, ws, manifest, found, built, located>>

Evaluate(x) ==
  /\ pc[x] = "evaluate"
  /\ Active(x)
  /\ IF state[ws[x]] = "PUBLISHED"
     THEN /\ evaluations' = [evaluations EXCEPT ![ws[x]] =
                               @ \cup {[artifact |-> artifact[ws[x]], by |-> x]}]
          /\ End(x, "PUBLISHED")
     ELSE End(x, "raised") /\ UNCHANGED evaluations
  /\ UNCHANGED <<generation, cases, state, version, blockers, records, artifact,
                 objects, local>>

-----------------------------------------------------------------------------
(* Resets and crashes *)

Retired(x) ==
  /\ pc[x] \in {"create", "block", "find", "publish", "evaluate"}
  /\ ~Active(x)
  /\ End(x, "session_reset")
  /\ UNCHANGED <<tables, objects, local>>

Crash(x) ==
  /\ pc[x] \notin {"new", "done"}
  /\ End(x, "lost")
  /\ UNCHANGED <<tables, objects, local>>

Reset ==
  /\ generation < MaxGeneration
  /\ generation' = generation + 1
  /\ UNCHANGED <<cases, run, objects, pc, reply, local>>

-----------------------------------------------------------------------------
(* Specification *)

Progress(x) ==
  \/ Create(x) \/ Replay(x) \/ ReadState(x)
  \/ Collect(x) \/ Stage(x) \/ StagedAlready(x) \/ StageFails(x) \/ Block(x)
  \/ FindStaged(x) \/ PutArtifact(x) \/ Publish(x)
  \/ PublishedAlready(x) \/ LoadArtifact(x) \/ Score(x) \/ Evaluate(x)
  \/ Retired(x)

Finished == (\A x \in Executions : pc[x] = "done") /\ UNCHANGED vars

Next ==
  \/ \E x \in Executions : Begin(x) \/ Progress(x) \/ Crash(x)
  \/ Settle
  \/ Reset
  \/ Finished

Spec == Init /\ [][Next]_vars

(* An execution that began keeps running.                                  *)
FairSpec == Spec /\ \A x \in Executions : WF_vars(Progress(x))

-----------------------------------------------------------------------------
(* Properties *)

(* What is staged is the whole set of persisted decisions, and what is     *)
(* published is what was staged, with its bytes in the object store: no    *)
(* crash, replay or concurrent execution leaves a partial or a mixed one.  *)
(* A blocker list is there exactly while the run is BLOCKED, and none is   *)
(* left behind by a late failure (ck_submission_runs_state_shape).         *)
PublishedIsWhole ==
  \A g \in Generations :
    /\ blockers[g] # Nothing <=> state[g] = "BLOCKED"
    /\ blockers[g] # Nothing => blockers[g].unsettled # {} \/ blockers[g].schema
    /\ state[g] \in {"STAGED", "PUBLISHED"} <=> records[g] # Nothing
    /\ records[g] # Nothing => records[g] = cases[g]
    /\ state[g] = "PUBLISHED" <=> artifact[g] # Nothing
    /\ artifact[g] # Nothing => artifact[g] = records[g] /\ artifact[g] \in objects

(* Every evaluation is of the artifact that was scored and published: no   *)
(* execution scores bytes it built itself and files them under another's.  *)
EvaluationsTrue ==
  \A g \in Generations : \A row \in evaluations[g] :
    /\ row.artifact = artifact[g]
    /\ row.artifact = scored[row.by]

(* An answer is true, and an execution only ever raises over a version     *)
(* manifest that is not the run's: whatever the others did, and wherever   *)
(* earlier executions died, the rest of the pipeline can be resumed.       *)
RepliesTrue ==
  \A x \in Executions :
    /\ reply[x] = "PUBLISHED" =>
         state[ws[x]] = "PUBLISHED" /\ \E row \in evaluations[ws[x]] : row.by = x
    /\ reply[x] = "BLOCKED" => found[x] # Nothing /\ scored[x] = Nothing
    /\ reply[x] = "session_reset" => ws[x] # generation
    /\ reply[x] = "raised" => version[ws[x]] # manifest[x]

(* The tables implement the abstract publication.                          *)
Run == INSTANCE Publication WITH
  Runs <- Generations, Contents <- Artifacts,
  staged <- records, published <- artifact

PublicationSpec == Run!Spec

(* Every execution that began ends.                                        *)
ExecutionsEnd == \A x \in Executions : pc[x] # "new" ~> pc[x] = "done"

=============================================================================
