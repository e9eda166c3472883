------------------------ MODULE SubmissionRunProofs ------------------------
(***************************************************************************)
(* Proofs about SubmissionRun, for any numbers of executions, emails,      *)
(* outputs, version manifests and generations: what is published is whole, *)
(* evaluations are of what was scored, answers are true, and the tables    *)
(* implement Publication.  The inductive invariant adds what an execution  *)
(* may rely on at each of its steps (Knows), whoever else has moved in the *)
(* meantime.                                                               *)
(***************************************************************************)
EXTENDS SubmissionRun, TLAPS

(* Past its creation an execution works on a run of its own manifest; past *)
(* staging on a run that is staged, whose records it located and stored    *)
(* before it publishes, and scored only after that.  Whatever it built is  *)
(* the whole of its workspace's decisions.                                 *)
Knows(x) ==
  /\ ws[x] <= generation
  /\ pc[x] # "done" => reply[x] = "none"
  /\ pc[x] \notin {"new", "create", "done"} => state[ws[x]] # "NONE" /\ version[ws[x]] = manifest[x]
  /\ built[x] # Nothing => built[x] = cases[ws[x]]
  /\ pc[x] = "new" => built[x] = Nothing
  /\ pc[x] = "stage" => built[x] # Nothing
  /\ pc[x] = "block" => found[x] # Nothing /\ (found[x].unsettled # {} \/ found[x].schema)
  /\ pc[x] \in {"find", "put", "publish"} => Complete(x)
  /\ pc[x] \in {"put", "publish", "load"} => located[x] # Nothing /\ located[x] = records[ws[x]]
  /\ pc[x] \in {"publish", "load"} => located[x] \in objects
  /\ pc[x] \in {"load", "score", "evaluate"} => state[ws[x]] = "PUBLISHED"
  /\ pc[x] \in {"score", "evaluate"} => built[x] # Nothing
  /\ pc[x] = "evaluate" => scored[x] = built[x]
  /\ scored[x] # Nothing => pc[x] \in {"evaluate", "done"}

(* What PublishedIsWhole says of one run. *)
Whole(g) ==
  /\ blockers[g] # Nothing <=> state[g] = "BLOCKED"
  /\ blockers[g] # Nothing => blockers[g].unsettled # {} \/ blockers[g].schema
  /\ state[g] \in {"STAGED", "PUBLISHED"} <=> records[g] # Nothing
  /\ records[g] # Nothing => records[g] = cases[g]
  /\ state[g] = "PUBLISHED" <=> artifact[g] # Nothing
  /\ artifact[g] # Nothing => artifact[g] = records[g] /\ artifact[g] \in objects

(* An evaluation is filed by an execution that is done, of what it scored. *)
Filed(g) ==
  \A row \in evaluations[g] :
    row.artifact = artifact[g] /\ row.artifact = scored[row.by] /\ pc[row.by] = "done"

(* What RepliesTrue says of one execution. *)
Truth(x) ==
  /\ reply[x] = "PUBLISHED" =>
       state[ws[x]] = "PUBLISHED" /\ \E row \in evaluations[ws[x]] : row.by = x
  /\ reply[x] = "BLOCKED" => found[x] # Nothing /\ scored[x] = Nothing
  /\ reply[x] = "session_reset" => ws[x] # generation
  /\ reply[x] = "raised" => version[ws[x]] # manifest[x]

(* The manifest of an execution that was refused stays another one's. *)
Created(x) == reply[x] = "raised" => state[ws[x]] # "NONE"

(* The inductive invariant. *)
RunInv ==
  /\ TypeOK
  /\ \A x \in Executions : Knows(x) /\ Truth(x) /\ Created(x)
  /\ \A g \in Generations : Whole(g) /\ Filed(g)

-----------------------------------------------------------------------------
(* Steps *)

ExecutionStep(x) == Begin(x) \/ Progress(x) \/ Crash(x)

(* A step is one of an execution, a decision of a case, or a reset. *)
LEMMA WhoSteps ==
  ASSUME [Next]_vars
  PROVE  (\E x \in Executions : ExecutionStep(x)) \/ Settle \/ Reset \/ UNCHANGED vars
  BY DEF Next, ExecutionStep, Finished

(* An execution moves alone. *)
OthersWait(x) ==
  /\ generation' = generation /\ cases' = cases
  /\ \A y \in Executions \ {x} :
       /\ pc'[y] = pc[y] /\ ws'[y] = ws[y] /\ manifest'[y] = manifest[y] /\ found'[y] = found[y]
       /\ built'[y] = built[y] /\ located'[y] = located[y] /\ scored'[y] = scored[y]
       /\ reply'[y] = reply[y]

(* A step writes the run of its workspace, the object store, or neither.   *)
Writes(x) ==
  \/ UNCHANGED <<run, objects>>
  \/ Create(x) \/ Stage(x) \/ Block(x) \/ PutArtifact(x) \/ Publish(x) \/ Evaluate(x)

(* It does, and writes its own generation only. *)
LEMMA OneMoves ==
  ASSUME TypeOK, NEW x \in Executions, ExecutionStep(x)
  PROVE  OthersWait(x) /\ Writes(x)
<1> USE DEF TypeOK, OthersWait, Writes, Goto, End, Fail, tables, run, local
<1>1. CASE Begin(x) BY <1>1 DEF Begin
<1>2. CASE Create(x) BY <1>2 DEF Create
<1>3. CASE Replay(x) BY <1>3 DEF Replay
<1>4. CASE ReadState(x) BY <1>4 DEF ReadState
<1>5. CASE Collect(x) BY <1>5 DEF Collect
<1>6. CASE Stage(x) BY <1>6 DEF Stage
<1>7. CASE StagedAlready(x) BY <1>7 DEF StagedAlready
<1>8. CASE StageFails(x) BY <1>8 DEF StageFails
<1>9. CASE Block(x) BY <1>9 DEF Block
<1>10. CASE FindStaged(x) BY <1>10 DEF FindStaged
<1>11. CASE PutArtifact(x) BY <1>11 DEF PutArtifact
<1>12. CASE Publish(x) BY <1>12 DEF Publish
<1>13. CASE PublishedAlready(x) BY <1>13 DEF PublishedAlready
<1>14. CASE LoadArtifact(x) BY <1>14 DEF LoadArtifact
<1>15. CASE Score(x) BY <1>15 DEF Score
<1>16. CASE Evaluate(x) BY <1>16 DEF Evaluate
<1>17. CASE Retired(x) BY <1>17 DEF Retired
<1>18. CASE Crash(x) BY <1>18 DEF Crash
<1> QED
  BY <1>1, <1>2, <1>3, <1>4, <1>5, <1>6, <1>7, <1>8, <1>9, <1>10, <1>11, <1>12, <1>13, <1>14,
     <1>15, <1>16, <1>17, <1>18
  DEF ExecutionStep, Progress

-----------------------------------------------------------------------------
(* Types *)

(* Nothing is unsettled exactly if the cases make an artifact. *)
LEMMA Settled ==
  ASSUME TypeOK, NEW g \in Generations
  PROVE  Unsettled(g) = {} <=> cases[g] \in Artifacts
  BY SubmissionAssumption DEF TypeOK, Unsettled, Artifacts

(* A step keeps the types. *)
LEMMA StepTypes ==
  ASSUME RunInv, [Next]_vars
  PROVE  TypeOK'
<1>1. TypeOK /\ (\A x \in Executions : Knows(x)) BY DEF RunInv
<1>2. ASSUME NEW x \in Executions, ExecutionStep(x) PROVE TypeOK'
  <2>1. ws[x] \in Generations /\ Knows(x) BY <1>1 DEF TypeOK
  <2> USE <1>1, <2>1 DEF TypeOK, Goto, End, Fail, tables, run, local, Steps, Replies
  <2>2. CASE Begin(x) BY <2>2 DEF Begin
  <2>3. CASE Create(x) BY <2>3 DEF Create, States
  <2>4. CASE Replay(x) BY <2>4 DEF Replay
  <2>5. CASE ReadState(x) BY <2>5 DEF ReadState
  <2>6. CASE Collect(x)
    <3>1. SchemaFailure \in Blockers /\ [unsettled |-> Unsettled(ws[x]), schema |-> FALSE] \in Blockers
      BY DEF SchemaFailure, Blockers, Unsettled
    <3>2. found' \in [Executions -> Blockers \cup {Nothing}] BY <2>6, <3>1 DEF Collect
    <3>3. built' \in [Executions -> Artifacts \cup {Nothing}] BY <2>6, Settled DEF Collect
    <3>4. pc' \in [Executions -> Steps] /\ reply' = reply BY <2>6 DEF Collect
    <3> QED BY <2>6, <3>2, <3>3, <3>4 DEF Collect
  <2>7. CASE Stage(x)
    <3>1. built[x] \in Artifacts BY <2>7 DEF Stage, Knows
    <3>2. records' \in [Generations -> Artifacts \cup {Nothing}] BY <2>7, <3>1 DEF Stage
    <3>3. /\ state' \in [Generations -> States] /\ blockers' \in [Generations -> Blockers \cup {Nothing}]
          /\ pc' \in [Executions -> Steps] /\ reply' = reply
      BY <2>7 DEF Stage, States
    <3> QED BY <2>7, <3>2, <3>3 DEF Stage
  <2>8. CASE StagedAlready(x)
    <3>1. SchemaFailure \in Blockers BY DEF SchemaFailure, Blockers
    <3>2. found' \in [Executions -> Blockers \cup {Nothing}] BY <2>8, <3>1 DEF StagedAlready
    <3> QED BY <2>8, <3>2 DEF StagedAlready
  <2>9. CASE StageFails(x) BY <2>9 DEF StageFails, SchemaFailure, Blockers
  <2>10. CASE Block(x)
    <3>1. /\ state' \in [Generations -> States] /\ blockers' \in [Generations -> Blockers \cup {Nothing}]
          /\ built' \in [Executions -> Artifacts \cup {Nothing}]
      BY <2>10 DEF Block, States
    <3>2. pc' \in [Executions -> Steps] /\ reply' \in [Executions -> Replies] BY <2>10 DEF Block
    <3> QED BY <2>10, <3>1, <3>2 DEF Block
  <2>11. CASE FindStaged(x)
    <3>1. located' \in [Executions -> Artifacts \cup {Nothing}]
      <4>1. records[ws[x]] \in Artifacts \cup {Nothing} OBVIOUS
      <4>2. located' = [located EXCEPT ![x] = records[ws[x]]] \/ located' = located BY <2>11 DEF FindStaged
      <4> QED BY <4>1, <4>2
    <3>2. \/ \E step \in {"load", "put"} : pc' = [pc EXCEPT ![x] = step] /\ reply' = reply
          \/ pc' = [pc EXCEPT ![x] = "done"] /\ reply' = [reply EXCEPT ![x] = "raised"]
      BY <2>11 DEF FindStaged
    <3> QED BY <2>11, <3>1, <3>2 DEF FindStaged
  <2>12. CASE PutArtifact(x) BY <2>12 DEF PutArtifact, Knows
  <2>13. CASE Publish(x) BY <2>13 DEF Publish, States
  <2>14. CASE PublishedAlready(x) BY <2>14 DEF PublishedAlready
  <2>15. CASE LoadArtifact(x) BY <2>15 DEF LoadArtifact
  <2>16. CASE Score(x) BY <2>16 DEF Score
  <2>17. CASE Evaluate(x)
    <3>1. state[ws[x]] = "PUBLISHED" => artifact[ws[x]] \in Artifacts BY DEF RunInv, Whole
    <3>2. evaluations' \in [Generations -> SUBSET [artifact: Artifacts, by: Executions]]
      <4>1. CASE state[ws[x]] = "PUBLISHED"
        <5>1. [artifact |-> artifact[ws[x]], by |-> x] \in [artifact: Artifacts, by: Executions] BY <3>1, <4>1
        <5>2. evaluations' = [evaluations EXCEPT ![ws[x]] =
                                evaluations[ws[x]] \cup {[artifact |-> artifact[ws[x]], by |-> x]}]
          BY <2>17, <4>1 DEF Evaluate
        <5> QED BY <5>1, <5>2
      <4>2. CASE state[ws[x]] # "PUBLISHED" BY <2>17, <4>2 DEF Evaluate
      <4> QED BY <4>1, <4>2
    <3>3. pc' \in [Executions -> Steps] /\ reply' \in [Executions -> Replies] BY <2>17 DEF Evaluate
    <3> QED BY <2>17, <3>2, <3>3 DEF Evaluate
  <2>18. CASE Retired(x) BY <2>18 DEF Retired
  <2>19. CASE Crash(x) BY <2>19 DEF Crash
  <2> QED
    BY <1>2, <2>2, <2>3, <2>4, <2>5, <2>6, <2>7, <2>8, <2>9, <2>10, <2>11, <2>12, <2>13, <2>14,
       <2>15, <2>16, <2>17, <2>18, <2>19
    DEF ExecutionStep, Progress
<1>3. CASE Settle BY <1>1, <1>3 DEF TypeOK, Settle, Unsettled, run, local
<1>4. CASE Reset BY <1>1, <1>4, SubmissionAssumption DEF TypeOK, Reset, Generations, run, local
<1>5. CASE UNCHANGED vars BY <1>1, <1>5 DEF TypeOK, vars, tables, run, local
<1> QED BY <1>2, <1>3, <1>4, <1>5, WhoSteps

-----------------------------------------------------------------------------
(* What stands *)

(* No step, of an execution, a handler or a reset, takes back what a run   *)
(* has reached, nor a whole set of decisions.                              *)
LEMMA TablesStand ==
  ASSUME RunInv, [Next]_vars, NEW g \in Generations
  PROVE  /\ state[g] # "NONE" => state'[g] # "NONE" /\ version'[g] = version[g]
         /\ state[g] \in {"STAGED", "PUBLISHED"} =>
              state'[g] \in {"STAGED", "PUBLISHED"} /\ records'[g] = records[g]
         /\ state[g] = "PUBLISHED" => state'[g] = "PUBLISHED" /\ artifact'[g] = artifact[g]
         /\ cases[g] \in Artifacts => cases'[g] = cases[g]
         /\ evaluations[g] \subseteq evaluations'[g]
         /\ objects \subseteq objects'
<1> DEFINE Stands ==
      /\ state[g] # "NONE" => state'[g] # "NONE" /\ version'[g] = version[g]
      /\ state[g] \in {"STAGED", "PUBLISHED"} =>
           state'[g] \in {"STAGED", "PUBLISHED"} /\ records'[g] = records[g]
      /\ state[g] = "PUBLISHED" => state'[g] = "PUBLISHED" /\ artifact'[g] = artifact[g]
      /\ cases[g] \in Artifacts => cases'[g] = cases[g]
      /\ evaluations[g] \subseteq evaluations'[g]
      /\ objects \subseteq objects'
<1>1. TypeOK BY DEF RunInv
<1> USE <1>1 DEF TypeOK
<1>2. ASSUME NEW x \in Executions, ExecutionStep(x) PROVE Stands
  <2>1. cases' = cases /\ ws[x] \in Generations BY <1>2, OneMoves DEF OthersWait
  <2>2. CASE UNCHANGED <<run, objects>> BY <2>1, <2>2 DEF run
  <2>3. CASE Create(x) BY <2>1, <2>3 DEF Create
  <2>4. CASE Stage(x) BY <2>1, <2>4 DEF Stage, Complete
  <2>5. CASE Block(x) BY <2>1, <2>5 DEF Block, Complete
  <2>6. CASE PutArtifact(x) BY <2>1, <2>6 DEF PutArtifact, tables, run
  <2>7. CASE Publish(x) BY <2>1, <2>7 DEF Publish
  <2>8. CASE Evaluate(x)
    <3>1. UNCHANGED <<state, version, records, artifact, objects>> BY <2>8 DEF Evaluate
    <3>2. evaluations' = evaluations
          \/ evaluations' = [evaluations EXCEPT ![ws[x]] =
                               evaluations[ws[x]] \cup {[artifact |-> artifact[ws[x]], by |-> x]}]
      BY <2>8 DEF Evaluate
    <3>3. evaluations[g] \subseteq evaluations'[g]
      <4>1. DOMAIN evaluations = Generations OBVIOUS
      <4> HIDE DEF TypeOK
      <4> DEFINE row == [artifact |-> artifact[ws[x]], by |-> x]
      <4> HIDE DEF row
      <4>2. evaluations' = evaluations
            \/ evaluations' = [evaluations EXCEPT ![ws[x]] = evaluations[ws[x]] \cup {row}]
        BY <3>2 DEF row
      <4>3. CASE evaluations' = evaluations BY <4>3
      <4>4. CASE evaluations' = [evaluations EXCEPT ![ws[x]] = evaluations[ws[x]] \cup {row}]
        <5>1. CASE ws[x] = g
          <6>1. evaluations'[g] = evaluations[g] \cup {row} BY <4>1, <4>4, <5>1
          <6> QED BY <6>1
        <5>2. CASE ws[x] # g BY <4>1, <4>4, <5>2
        <5> QED BY <5>1, <5>2
      <4> QED BY <4>2, <4>3, <4>4
    <3> QED BY <2>1, <3>1, <3>3
  <2> QED BY <1>2, <2>2, <2>3, <2>4, <2>5, <2>6, <2>7, <2>8, OneMoves DEF Writes
<1>3. CASE Settle
  <2>1. PICK e \in Unsettled(generation), o \in Outputs :
          cases' = [cases EXCEPT ![generation][e] = o]
    BY <1>3 DEF Settle
  <2>2. generation = g => cases[g] \notin Artifacts BY <2>1, Settled
  <2>3. generation # g => cases'[g] = cases[g] BY <2>1
  <2> QED BY <1>3, <2>2, <2>3 DEF Settle, run
<1>4. CASE Reset BY <1>4 DEF Reset, run
<1>5. CASE UNCHANGED vars BY <1>5 DEF vars, tables, run
<1> QED BY <1>2, <1>3, <1>4, <1>5, WhoSteps

(* Whatever an execution built is a whole set of decisions. *)
LEMMA BuiltWhole ==
  ASSUME RunInv
  PROVE  /\ Nothing \notin Artifacts /\ Nothing \notin Blockers
         /\ \A x \in Executions : built[x] # Nothing => cases[ws[x]] \in Artifacts
         /\ \A g \in Generations : records[g] # Nothing => cases[g] \in Artifacts
<1>1. TypeOK /\ (\A x \in Executions : Knows(x)) /\ (\A g \in Generations : Whole(g)) BY DEF RunInv
<1>2. Nothing \notin Artifacts /\ Nothing \notin Blockers
  BY SubmissionAssumption DEF Artifacts, Blockers
<1>3. \A x \in Executions : built[x] # Nothing => cases[ws[x]] \in Artifacts BY <1>1 DEF TypeOK, Knows
<1>4. \A g \in Generations : records[g] # Nothing => cases[g] \in Artifacts BY <1>1 DEF TypeOK, Whole
<1> QED BY <1>2, <1>3, <1>4

-----------------------------------------------------------------------------
(* What an execution knows *)

(* An execution that moves knows what it should, *)
LEMMA MoverKnows ==
  ASSUME RunInv, TypeOK', NEW x \in Executions, ExecutionStep(x)
  PROVE  Knows(x)'
<1>1. /\ TypeOK /\ Knows(x) /\ Whole(ws[x]) /\ ws[x] \in Generations BY DEF RunInv, TypeOK
<1>2. generation' = generation /\ cases' = cases BY <1>1, OneMoves DEF OthersWait
<1>3. Nothing \notin Artifacts /\ Nothing \notin Blockers BY BuiltWhole
<1> USE <1>1, <1>2, <1>3
    DEF TypeOK, Goto, End, Fail, tables, run, local, Knows, Complete
<1>4. CASE Begin(x)
  <2>1. ws'[x] = generation /\ pc'[x] = "create" /\ reply'[x] = reply[x] /\ pc[x] = "new" BY <1>4 DEF Begin
  <2>2. built[x] = Nothing /\ built' = built /\ scored' = scored BY <1>4 DEF Begin
  <2>3. ws'[x] <= generation' BY <2>1 DEF Generations
  <2> QED BY <2>1, <2>2, <2>3
<1>5. CASE Create(x) BY <1>5 DEF Create
<1>6. CASE Replay(x) BY <1>6 DEF Replay
<1>7. CASE ReadState(x) BY <1>7 DEF ReadState
<1>8. CASE Collect(x)
  <2>1. SchemaFailure \in Blockers /\ [unsettled |-> Unsettled(ws[x]), schema |-> FALSE] \in Blockers
    BY DEF SchemaFailure, Blockers, Unsettled
  <2>2. SchemaFailure.schema = TRUE BY DEF SchemaFailure
  <2>3. /\ pc[x] = "collect" /\ ws' = ws /\ manifest' = manifest /\ reply' = reply /\ scored' = scored
        /\ state' = state /\ version' = version
    BY <1>8 DEF Collect
  <2>4. CASE pc' = [pc EXCEPT ![x] = "stage"] /\ built' = [built EXCEPT ![x] = cases[ws[x]]] /\ Unsettled(ws[x]) = {}
    <3>1. cases[ws[x]] # Nothing BY <2>4, Settled
    <3> QED BY <2>3, <2>4, <3>1
  <2>5. ASSUME NEW why \in Blockers, why.unsettled # {} \/ why.schema,
               found' = [found EXCEPT ![x] = why], pc' = [pc EXCEPT ![x] = "block"], built' = built
        PROVE  Knows(x)'
    <3>1. found'[x] = why /\ pc'[x] = "block" BY <2>5
    <3>2. why # Nothing BY <2>5
    <3> QED BY <2>3, <2>5, <3>1, <3>2
  <2>6. CASE ~Active(x) /\ found' = [found EXCEPT ![x] = SchemaFailure] /\ pc' = [pc EXCEPT ![x] = "block"] /\ built' = built
    BY <2>1, <2>2, <2>5, <2>6
  <2>7. CASE /\ Unsettled(ws[x]) # {} /\ built' = built /\ pc' = [pc EXCEPT ![x] = "block"]
             /\ found' = [found EXCEPT ![x] = [unsettled |-> Unsettled(ws[x]), schema |-> FALSE]]
    <3>1. [unsettled |-> Unsettled(ws[x]), schema |-> FALSE].unsettled # {} BY <2>7
    <3> HIDE DEF Knows
    <3> QED BY <2>1, <2>5, <2>7, <3>1
  <2> HIDE DEF Knows
  <2> QED BY <1>8, <2>4, <2>6, <2>7 DEF Collect
<1>9. CASE Stage(x) BY <1>9 DEF Stage
<1>30. ASSUME pc[x] = "stage", found' = [found EXCEPT ![x] = SchemaFailure], pc' = [pc EXCEPT ![x] = "block"],
              UNCHANGED <<run, ws, manifest, built, scored, reply>>
       PROVE  Knows(x)'
  <2>1. SchemaFailure \in Blockers /\ SchemaFailure.schema = TRUE BY DEF SchemaFailure, Blockers
  <2>2. found'[x] = SchemaFailure /\ pc'[x] = "block" BY <1>30
  <2>3. found'[x] # Nothing /\ found'[x].schema = TRUE BY <2>1, <2>2
  <2> QED BY <1>30, <2>2, <2>3
<1>10. CASE StagedAlready(x)
  <2>1. CASE records[ws[x]] = built[x] BY <1>10, <2>1 DEF StagedAlready
  <2>2. CASE records[ws[x]] # built[x]
    <3> HIDE DEF Knows
    <3> QED BY <1>10, <1>30, <2>2 DEF StagedAlready
  <2> QED BY <2>1, <2>2
<1>11. CASE StageFails(x)
  <2> HIDE DEF Knows
  <2> QED BY <1>11, <1>30 DEF StageFails
<1>12. CASE Block(x) BY <1>12 DEF Block
<1>13. CASE FindStaged(x) BY <1>13 DEF FindStaged, Whole
<1>14. CASE PutArtifact(x) BY <1>14 DEF PutArtifact
<1>15. CASE Publish(x) BY <1>15 DEF Publish
<1>16. CASE PublishedAlready(x) BY <1>16 DEF PublishedAlready, Whole
<1>17. CASE LoadArtifact(x) BY <1>17 DEF LoadArtifact, Whole
<1>18. CASE Score(x) BY <1>18 DEF Score
<1>19. CASE Evaluate(x) BY <1>19 DEF Evaluate
<1>20. CASE Retired(x) BY <1>20 DEF Retired
<1>21. CASE Crash(x) BY <1>21 DEF Crash
<1> QED
  BY <1>4, <1>5, <1>6, <1>7, <1>8, <1>9, <1>10, <1>11, <1>12, <1>13, <1>14, <1>15, <1>16, <1>17,
     <1>18, <1>19, <1>20, <1>21
  DEF ExecutionStep, Progress

(* An execution that waits keeps what it knows: others only add to the run *)
(* it works on.                                                            *)
LEMMA WaiterKnows ==
  ASSUME RunInv, TypeOK', [Next]_vars, NEW x \in Executions,
         generation \in Nat, generation' \in Nat, generation <= generation',
         pc'[x] = pc[x], ws'[x] = ws[x], manifest'[x] = manifest[x], found'[x] = found[x],
         built'[x] = built[x], located'[x] = located[x], scored'[x] = scored[x],
         reply'[x] = reply[x]
  PROVE  Knows(x)'
<1>1. Knows(x) /\ Whole(ws[x]) /\ ws[x] \in Generations BY DEF RunInv, TypeOK
<1>2. /\ state[ws[x]] # "NONE" => state'[ws[x]] # "NONE" /\ version'[ws[x]] = version[ws[x]]
      /\ Complete(x) => state'[ws[x]] \in {"STAGED", "PUBLISHED"} /\ records'[ws[x]] = records[ws[x]]
      /\ state[ws[x]] = "PUBLISHED" => state'[ws[x]] = "PUBLISHED"
      /\ objects \subseteq objects'
  BY <1>1, TablesStand DEF Complete
<1>3. built[x] # Nothing => cases'[ws[x]] = cases[ws[x]] BY <1>1, TablesStand, BuiltWhole
<1>4. Complete(x)' <=> state'[ws[x]] \in {"STAGED", "PUBLISHED"} BY DEF Complete
<1>5. pc[x] = "load" => Complete(x) BY <1>1 DEF Knows, Complete
<1>6. ws'[x] <= generation' BY <1>1 DEF Knows, Generations
<1> QED BY <1>1, <1>2, <1>3, <1>4, <1>5, <1>6 DEF Knows

(* and so does every other. *)
LEMMA StepKnows ==
  ASSUME RunInv, TypeOK', [Next]_vars, NEW x \in Executions
  PROVE  Knows(x)'
<1>1. generation \in Nat /\ generation' \in Nat BY SubmissionAssumption DEF RunInv, TypeOK, Generations
<1>2. ASSUME NEW y \in Executions, ExecutionStep(y) PROVE Knows(x)'
  <2>1. CASE x = y BY <1>2, <2>1, MoverKnows
  <2>2. CASE x # y
    <3>1. OthersWait(y) BY <1>2, OneMoves DEF RunInv
    <3> QED BY <1>1, <2>2, <3>1, WaiterKnows DEF OthersWait
  <2> QED BY <2>1, <2>2
<1>3. CASE Settle BY <1>1, <1>3, WaiterKnows DEF Settle, local
<1>4. CASE Reset BY <1>1, <1>4, WaiterKnows DEF Reset, local
<1>5. CASE UNCHANGED vars BY <1>1, <1>5, WaiterKnows DEF vars, tables, local
<1> QED BY <1>2, <1>3, <1>4, <1>5, WhoSteps

-----------------------------------------------------------------------------
(* The run *)

(* What is staged stays whole, *)
LEMMA StepWhole ==
  ASSUME RunInv, TypeOK', [Next]_vars, NEW g \in Generations
  PROVE  Whole(g)'
<1>1. TypeOK /\ Whole(g) BY DEF RunInv
<1>2. /\ records[g] # Nothing => cases'[g] = cases[g]
      /\ objects \subseteq objects'
  BY TablesStand, BuiltWhole
<1>3. ASSUME UNCHANGED <<run, objects>> PROVE Whole(g)'
  BY <1>1, <1>2, <1>3 DEF Whole, run
<1>4. ASSUME NEW x \in Executions, ExecutionStep(x) PROVE Whole(g)'
  <2>1. Knows(x) /\ ws[x] \in Generations BY DEF RunInv, TypeOK
  <2>2. Nothing \notin Artifacts /\ Nothing \notin Blockers BY BuiltWhole
  <2>3. cases' = cases BY <1>1, <1>4, OneMoves DEF OthersWait
  <2>4. CASE Create(x)
    <3>1. state' = [state EXCEPT ![ws[x]] = "PENDING"] /\ state[ws[x]] = "NONE"
          /\ UNCHANGED <<blockers, records, artifact, objects>>
      BY <2>4 DEF Create
    <3> QED BY <1>1, <2>1, <2>3, <3>1 DEF Whole, TypeOK
  <2>5. CASE Stage(x)
    <3>1. /\ records' = [records EXCEPT ![ws[x]] = built[x]]
          /\ state' = [state EXCEPT ![ws[x]] = "STAGED"]
          /\ blockers' = [blockers EXCEPT ![ws[x]] = Nothing]
          /\ ~Complete(x) /\ built[x] = cases[ws[x]]
          /\ UNCHANGED <<artifact, objects>>
      BY <2>5 DEF Stage
    <3>2. built[x] # Nothing BY <2>1, <2>5 DEF Stage, Knows
    <3> QED BY <1>1, <2>1, <2>3, <3>1, <3>2 DEF Whole, TypeOK, Complete
  <2>6. CASE Block(x)
    <3>1. CASE Complete(x) BY <1>3, <2>6, <3>1 DEF Block, run
    <3>2. CASE ~Complete(x)
      <4>1. /\ state' = [state EXCEPT ![ws[x]] = "BLOCKED"]
            /\ blockers' = [blockers EXCEPT ![ws[x]] = found[x]]
            /\ UNCHANGED <<records, artifact, objects>>
        BY <2>6, <3>2 DEF Block
      <4>2. found[x] # Nothing /\ (found[x].unsettled # {} \/ found[x].schema)
        BY <2>1, <2>6 DEF Block, Knows
      <4> QED BY <1>1, <2>1, <2>3, <3>2, <4>1, <4>2 DEF Whole, TypeOK, Complete
    <3> QED BY <3>1, <3>2
  <2>7. CASE PutArtifact(x)
    <3>1. UNCHANGED run BY <2>7 DEF PutArtifact, tables
    <3> QED BY <1>1, <1>2, <2>3, <3>1 DEF Whole, run
  <2>8. CASE Publish(x)
    <3>1. /\ state' = [state EXCEPT ![ws[x]] = "PUBLISHED"] /\ state[ws[x]] = "STAGED"
          /\ artifact' = [artifact EXCEPT ![ws[x]] = located[x]] /\ records[ws[x]] = located[x]
          /\ UNCHANGED <<blockers, records, objects>>
      BY <2>8 DEF Publish
    <3>2. located[x] # Nothing /\ located[x] \in objects BY <2>1, <2>8 DEF Publish, Knows
    <3> QED BY <1>1, <2>1, <2>3, <3>1, <3>2 DEF Whole, TypeOK
  <2>9. CASE Evaluate(x)
    <3>1. UNCHANGED <<state, blockers, records, artifact, objects>> BY <2>9 DEF Evaluate
    <3> QED BY <1>1, <2>3, <3>1 DEF Whole
  <2> QED BY <1>1, <1>3, <1>4, <2>4, <2>5, <2>6, <2>7, <2>8, <2>9, OneMoves DEF Writes
<1>5. CASE Settle BY <1>3, <1>5 DEF Settle
<1>6. CASE Reset BY <1>3, <1>6 DEF Reset
<1>7. CASE UNCHANGED vars BY <1>3, <1>7 DEF vars, tables
<1> QED BY <1>4, <1>5, <1>6, <1>7, WhoSteps

(* and what is published stays stored. *)
LEMMA StepFiled ==
  ASSUME RunInv, TypeOK', [Next]_vars, NEW g \in Generations
  PROVE  Filed(g)'
<1>1. TypeOK /\ Whole(g) /\ Filed(g) BY DEF RunInv
<1>2. \A row \in evaluations[g] : row.by \in Executions /\ row.artifact \in Artifacts
  <2>1. evaluations[g] \subseteq [artifact: Artifacts, by: Executions] BY <1>1 DEF TypeOK
  <2> QED BY <2>1
<1>3. \A row \in evaluations[g] : artifact'[g] = artifact[g]
  <2>1. \A row \in evaluations[g] : artifact[g] # Nothing BY <1>1, <1>2, BuiltWhole DEF Filed
  <2> QED BY <1>1, <2>1, TablesStand DEF Whole
<1>4. ASSUME evaluations'[g] = evaluations[g],
             \A y \in Executions : pc[y] = "done" => pc'[y] = "done" /\ scored'[y] = scored[y]
      PROVE  Filed(g)'
  BY <1>1, <1>2, <1>3, <1>4 DEF Filed
<1>5. ASSUME NEW x \in Executions, ExecutionStep(x) PROVE Filed(g)'
  <2>1. /\ OthersWait(x) /\ Writes(x) BY <1>1, <1>5, OneMoves
  <2>2. pc[x] # "done" BY <1>5 DEF ExecutionStep, Progress, Begin, Create, Replay, ReadState, Collect,
          Stage, StagedAlready, StageFails, Block, FindStaged, PutArtifact, Publish, PublishedAlready,
          LoadArtifact, Score, Evaluate, Retired, Crash
  <2>3. \A y \in Executions : pc[y] = "done" => pc'[y] = "done" /\ scored'[y] = scored[y]
    BY <2>1, <2>2 DEF OthersWait
  <2>4. CASE evaluations'[g] = evaluations[g] BY <1>4, <2>3, <2>4
  <2>5. CASE Evaluate(x) /\ evaluations' # evaluations /\ ws[x] = g
    <3>1. Knows(x) BY DEF RunInv
    <3>2. /\ evaluations' = [evaluations EXCEPT ![g] = evaluations[g] \cup {[artifact |-> artifact[g], by |-> x]}]
          /\ pc' = [pc EXCEPT ![x] = "done"] /\ UNCHANGED <<artifact, scored>> /\ state[g] = "PUBLISHED"
          /\ pc[x] = "evaluate"
      BY <2>5 DEF Evaluate, End, local
    <3>3. scored[x] = artifact[g]
      <4>1. scored[x] = cases[g] BY <2>5, <3>1, <3>2 DEF Knows
      <4>2. artifact[g] = records[g] /\ records[g] = cases[g] BY <1>1, <3>2 DEF Whole
      <4> QED BY <4>1, <4>2
    <3>4. evaluations'[g] = evaluations[g] \cup {[artifact |-> artifact[g], by |-> x]}
      BY <1>1, <3>2 DEF TypeOK
    <3>5. pc'[x] = "done" BY <1>1, <3>2 DEF TypeOK
    <3>6. ASSUME NEW row \in evaluations'[g]
          PROVE  row.artifact = artifact'[g] /\ row.artifact = scored'[row.by] /\ pc'[row.by] = "done"
      <4>1. CASE row \in evaluations[g]
        BY <1>1, <1>2, <1>3, <2>3, <4>1 DEF Filed
      <4>2. CASE row = [artifact |-> artifact[g], by |-> x]
        <5>1. row.artifact = artifact[g] /\ row.by = x BY <4>2
        <5> QED BY <3>2, <3>3, <3>5, <5>1
      <4> QED BY <3>4, <3>6, <4>1, <4>2
    <3> QED BY <3>6 DEF Filed
  <2>6. evaluations'[g] = evaluations[g] \/ (Evaluate(x) /\ evaluations' # evaluations /\ ws[x] = g)
    <3>1. CASE Evaluate(x) BY <1>1, <3>1 DEF Evaluate, TypeOK
    <3>2. CASE ~Evaluate(x)
      BY <2>1, <3>2 DEF Writes, run, Create, Stage, Block, PutArtifact, Publish, tables
    <3> QED BY <3>1, <3>2
  <2> QED BY <2>4, <2>5, <2>6
<1>6. CASE Settle BY <1>4, <1>6 DEF Settle, run, local
<1>7. CASE Reset BY <1>4, <1>7 DEF Reset, run, local
<1>8. CASE UNCHANGED vars BY <1>4, <1>8 DEF vars, tables, run, local
<1> QED BY <1>5, <1>6, <1>7, <1>8, WhoSteps

-----------------------------------------------------------------------------
(* Answers *)

(* An answer that was true stays true. *)
LEMMA WaiterTrue ==
  ASSUME RunInv, [Next]_vars, NEW x \in Executions,
         generation \in Nat, generation' \in Nat, generation <= generation',
         ws'[x] = ws[x], manifest'[x] = manifest[x], found'[x] = found[x],
         scored'[x] = scored[x], reply'[x] = reply[x]
  PROVE  Truth(x)' /\ Created(x)'
<1>1. Truth(x) /\ Created(x) /\ Knows(x) /\ ws[x] \in Generations BY DEF RunInv, TypeOK
<1>2. /\ state[ws[x]] # "NONE" => state'[ws[x]] # "NONE" /\ version'[ws[x]] = version[ws[x]]
      /\ state[ws[x]] = "PUBLISHED" => state'[ws[x]] = "PUBLISHED"
      /\ evaluations[ws[x]] \subseteq evaluations'[ws[x]]
  BY <1>1, TablesStand
<1>3. ws[x] # generation => ws'[x] # generation' BY <1>1 DEF Knows, Generations
<1>4. (\E row \in evaluations[ws[x]] : row.by = x) => \E row \in evaluations'[ws[x]] : row.by = x
  BY <1>2
<1> QED BY <1>1, <1>2, <1>3, <1>4 DEF Truth, Created

(* Only a refused manifest is raised over: an execution that passed        *)
(* create_submission_run can always resume.                                *)
LEMMA MoverTrue ==
  ASSUME RunInv, [Next]_vars, TypeOK', NEW x \in Executions, ExecutionStep(x)
  PROVE  Truth(x)' /\ Created(x)'
<1>1. /\ TypeOK /\ Knows(x) /\ Whole(ws[x]) /\ ws[x] \in Generations BY DEF RunInv, TypeOK
<1>2. ASSUME reply' = reply, pc[x] # "done" PROVE Truth(x)' /\ Created(x)'
  <2>1. reply'[x] = "none" BY <1>1, <1>2 DEF Knows
  <2> QED BY <2>1 DEF Truth, Created
<1>3. ASSUME NEW answer \in Replies, End(x, answer) PROVE reply'[x] = answer
  BY <1>1, <1>3 DEF End, TypeOK
<1>4. CASE Begin(x) BY <1>2, <1>4 DEF Begin, Goto
<1>5. CASE Create(x) BY <1>2, <1>5 DEF Create, Goto
<1>6. CASE Replay(x)
  <2>1. CASE version[ws[x]] = manifest[x] BY <1>2, <1>6, <2>1 DEF Replay, Goto
  <2>2. CASE version[ws[x]] # manifest[x]
    <3>1. reply'[x] = "raised" BY <1>3, <1>6, <2>2 DEF Replay, Replies
    <3>2. UNCHANGED <<state, version, manifest, ws>> /\ state[ws[x]] # "NONE"
      BY <1>6 DEF Replay, tables, run, local
    <3> QED BY <2>2, <3>1, <3>2 DEF Truth, Created
  <2> QED BY <2>1, <2>2
<1>7. CASE ReadState(x) BY <1>2, <1>7 DEF ReadState, Goto
<1>8. CASE Collect(x) BY <1>2, <1>8 DEF Collect, Goto, Fail
<1>9. CASE Stage(x) BY <1>2, <1>9 DEF Stage, Goto
<1>10. CASE StagedAlready(x) BY <1>2, <1>10 DEF StagedAlready, Goto, Fail
<1>11. CASE StageFails(x) BY <1>2, <1>11 DEF StageFails, Goto, Fail
<1>12. CASE Block(x)
  <2>1. CASE Complete(x) BY <1>2, <1>12, <2>1 DEF Block, Goto
  <2>2. CASE ~Complete(x)
    <3>1. reply'[x] = "BLOCKED" BY <1>3, <1>12, <2>2 DEF Block, Replies
    <3>2. found' = found /\ scored' = scored /\ pc[x] = "block" BY <1>12 DEF Block
    <3>3. found[x] # Nothing /\ scored[x] = Nothing BY <1>1, <3>2 DEF Knows
    <3> QED BY <3>1, <3>2, <3>3 DEF Truth, Created
  <2> QED BY <2>1, <2>2
<1>13. CASE FindStaged(x)
  <2>1. Complete(x) BY <1>1, <1>13 DEF FindStaged, Knows
  <2> QED BY <1>2, <1>13, <2>1 DEF FindStaged, Goto
<1>14. CASE PutArtifact(x) BY <1>2, <1>14 DEF PutArtifact, Goto
<1>15. CASE Publish(x) BY <1>2, <1>15 DEF Publish, Goto
<1>16. CASE PublishedAlready(x)
  <2>1. pc[x] = "publish" BY <1>16 DEF PublishedAlready
  <2>2. located[x] = records[ws[x]] /\ state[ws[x]] \in {"STAGED", "PUBLISHED"}
    BY <1>1, <2>1 DEF Knows, Complete
  <2>3. state[ws[x]] = "PUBLISHED" BY <1>16, <2>2 DEF PublishedAlready
  <2>4. artifact[ws[x]] = located[x] BY <1>1, <2>2, <2>3 DEF Whole
  <2> QED BY <1>2, <1>16, <2>1, <2>3, <2>4 DEF PublishedAlready, Goto
<1>17. CASE LoadArtifact(x)
  <2>1. pc[x] = "load" BY <1>17 DEF LoadArtifact
  <2>2. located[x] \in objects BY <1>1, <2>1 DEF Knows
  <2> QED BY <1>2, <1>17, <2>1, <2>2 DEF LoadArtifact, Goto
<1>18. CASE Score(x) BY <1>2, <1>18 DEF Score, Goto
<1>19. CASE Evaluate(x)
  <2>1. state[ws[x]] = "PUBLISHED" BY <1>1, <1>19 DEF Evaluate, Knows
  <2>2. reply'[x] = "PUBLISHED" BY <1>3, <1>19, <2>1 DEF Evaluate, Replies
  <2>3. /\ evaluations' = [evaluations EXCEPT ![ws[x]] =
                             evaluations[ws[x]] \cup {[artifact |-> artifact[ws[x]], by |-> x]}]
        /\ ws' = ws /\ state' = state
    BY <1>19, <2>1 DEF Evaluate, local
  <2>4. [artifact |-> artifact[ws[x]], by |-> x] \in evaluations'[ws[x]] BY <1>1, <2>3 DEF TypeOK
  <2>5. \E row \in evaluations'[ws'[x]] : row.by = x BY <2>3, <2>4
  <2> QED BY <2>1, <2>2, <2>3, <2>5 DEF Truth, Created
<1>20. CASE Retired(x)
  <2>1. reply'[x] = "session_reset" BY <1>3, <1>20 DEF Retired, Replies
  <2>2. ws' = ws /\ generation' = generation /\ ws[x] # generation
    BY <1>20 DEF Retired, tables, local, Active
  <2> QED BY <2>1, <2>2 DEF Truth, Created
<1>21. CASE Crash(x)
  <2>1. reply'[x] = "lost" BY <1>3, <1>21 DEF Crash, Replies
  <2> QED BY <2>1 DEF Truth, Created
<1> QED
  BY <1>4, <1>5, <1>6, <1>7, <1>8, <1>9, <1>10, <1>11, <1>12, <1>13, <1>14, <1>15, <1>16, <1>17,
     <1>18, <1>19, <1>20, <1>21
  DEF ExecutionStep, Progress

(* Replies stay true. *)
LEMMA StepTrue ==
  ASSUME RunInv, TypeOK', [Next]_vars, NEW x \in Executions
  PROVE  Truth(x)' /\ Created(x)'
<1>1. generation \in Nat /\ generation' \in Nat BY SubmissionAssumption DEF RunInv, TypeOK, Generations
<1>2. ASSUME NEW y \in Executions, ExecutionStep(y) PROVE Truth(x)' /\ Created(x)'
  <2>1. CASE x = y BY <1>2, <2>1, MoverTrue
  <2>2. CASE x # y
    <3>1. OthersWait(y) BY <1>2, OneMoves DEF RunInv
    <3> QED BY <1>1, <2>2, <3>1, WaiterTrue DEF OthersWait
  <2> QED BY <2>1, <2>2
<1>3. CASE Settle BY <1>1, <1>3, WaiterTrue DEF Settle, local
<1>4. CASE Reset BY <1>1, <1>4, WaiterTrue DEF Reset, local
<1>5. CASE UNCHANGED vars BY <1>1, <1>5, WaiterTrue DEF vars, tables, local
<1> QED BY <1>2, <1>3, <1>4, <1>5, WhoSteps

-----------------------------------------------------------------------------
(* The invariant *)

(* The invariant holds at the start, *)
LEMMA RunInvHolds == Init => RunInv
<1> SUFFICES ASSUME Init PROVE RunInv OBVIOUS
<1> USE SubmissionAssumption DEF Init
<1>1. 1 \in Generations BY DEF Generations
<1>2. TypeOK BY <1>1 DEF TypeOK, Steps, Replies, States
<1>3. ASSUME NEW x \in Executions PROVE Knows(x) /\ Truth(x) /\ Created(x)
  BY <1>1, <1>3 DEF Knows, Truth, Created
<1>4. ASSUME NEW g \in Generations PROVE Whole(g) /\ Filed(g)
  BY <1>4 DEF Whole, Filed
<1> QED BY <1>2, <1>3, <1>4 DEF RunInv

(* is kept by every step, *)
LEMMA RunInvKept == RunInv /\ [Next]_vars => RunInv'
<1> SUFFICES ASSUME RunInv, [Next]_vars PROVE RunInv' OBVIOUS
<1>1. TypeOK' BY StepTypes
<1>2. \A x \in Executions : Knows(x)' /\ Truth(x)' /\ Created(x)' BY <1>1, StepKnows, StepTrue
<1>3. \A g \in Generations : Whole(g)' /\ Filed(g)' BY <1>1, StepWhole, StepFiled
<1> QED BY <1>1, <1>2, <1>3 DEF RunInv

(* and so always holds. *)
LEMMA RunInvAlways == Spec => []RunInv
  BY RunInvHolds, RunInvKept, PTL DEF Spec

(* Rows, artifacts and the executions' own state keep their types: an      *)
(* execution never stages or stores what it has not built.                 *)
THEOREM SubmissionTypeCorrect == Spec => []TypeOK
<1>1. RunInv => TypeOK BY DEF RunInv
<1> QED BY <1>1, RunInvAlways, PTL

(* stage_submission_run and publish_submission_run: whatever crashes,      *)
(* replays and resets come between, what is staged is the whole set of     *)
(* decisions, and what is published is what was staged and is stored.      *)
THEOREM PublishedAlwaysWhole == Spec => []PublishedIsWhole
<1>1. RunInv => PublishedIsWhole BY DEF RunInv, PublishedIsWhole, Whole
<1> QED BY <1>1, RunInvAlways, PTL

(* append_submission_evaluation files an evaluation under the artifact     *)
(* that its execution scored.                                              *)
THEOREM EvaluationsAlwaysTrue == Spec => []EvaluationsTrue
<1>1. RunInv => EvaluationsTrue BY DEF RunInv, EvaluationsTrue, Filed
<1> QED BY <1>1, RunInvAlways, PTL

(* execute_submission_run raises over a version manifest that is not the   *)
(* run's and over nothing else; its other answers are true when given and  *)
(* stay true.                                                              *)
THEOREM SubmissionAnswersTrue == Spec => []RepliesTrue
<1>1. RunInv => RepliesTrue BY DEF RunInv, RepliesTrue, Truth
<1> QED BY <1>1, RunInvAlways, PTL

-----------------------------------------------------------------------------
(* The tables implement the abstract publication *)

(* The first state is one of Publication, *)
LEMMA RunStarts == Init => Run!Init
  BY DEF Init, Run!Init

(* and every step one of its steps, or none. *)
LEMMA RunSteps ==
  ASSUME RunInv, [Next]_vars
  PROVE  [Run!Next]_<<state, records, artifact>>
<1>1. TypeOK BY DEF RunInv
<1>2. ASSUME UNCHANGED run PROVE [Run!Next]_<<state, records, artifact>> BY <1>2 DEF run
<1>3. ASSUME NEW x \in Executions, ExecutionStep(x) PROVE [Run!Next]_<<state, records, artifact>>
  <2>1. ws[x] \in Generations /\ Knows(x) BY DEF RunInv, TypeOK
  <2>2. CASE Create(x)
    <3>1. Run!Create(ws[x]) BY <2>2 DEF Create, Run!Create, Run!Become
    <3> QED BY <2>1, <3>1 DEF Run!Next
  <2>3. CASE Stage(x)
    <3>1. state[ws[x]] \in {"PENDING", "BLOCKED"}
      <4>1. state[ws[x]] # "NONE" BY <2>1, <2>3 DEF Knows, Stage
      <4> QED BY <1>1, <2>1, <2>3, <4>1 DEF Stage, Complete, TypeOK, States
    <3>2. built[x] \in Artifacts BY <1>1, <2>1, <2>3 DEF Stage, Knows, TypeOK
    <3>3. Run!Stage(ws[x]) BY <2>3, <3>1, <3>2 DEF Stage, Run!Stage, Run!Become
    <3> QED BY <2>1, <3>3 DEF Run!Next
  <2>4. CASE Block(x)
    <3>1. CASE Complete(x) BY <2>4, <3>1 DEF Block
    <3>2. CASE ~Complete(x)
      <4>1. state[ws[x]] # "NONE" BY <2>1, <2>4 DEF Knows, Block
      <4>2. state[ws[x]] \in {"PENDING", "BLOCKED"}
        BY <1>1, <2>1, <3>2, <4>1 DEF Complete, TypeOK, States
      <4>3. Run!Block(ws[x]) BY <2>4, <3>2, <4>2 DEF Block, Run!Block, Run!Become
      <4> QED BY <2>1, <4>3 DEF Run!Next
    <3> QED BY <3>1, <3>2
  <2>5. CASE Publish(x)
    <3>1. Run!Publish(ws[x]) BY <2>5 DEF Publish, Run!Publish, Run!Become
    <3> QED BY <2>1, <3>1 DEF Run!Next
  <2>6. CASE PutArtifact(x) BY <1>2, <2>6 DEF PutArtifact, tables
  <2>7. CASE Evaluate(x) BY <2>7 DEF Evaluate
  <2> QED BY <1>1, <1>2, <1>3, <2>2, <2>3, <2>4, <2>5, <2>6, <2>7, OneMoves DEF Writes
<1>4. CASE Settle BY <1>2, <1>4 DEF Settle
<1>5. CASE Reset BY <1>2, <1>5 DEF Reset
<1>6. CASE UNCHANGED vars BY <1>2, <1>6 DEF vars, tables
<1> QED BY <1>3, <1>4, <1>5, <1>6, WhoSteps

(* submission_runs goes NONE, PENDING or BLOCKED, STAGED, PUBLISHED, with  *)
(* its records staged all at once and published once, unchanged: the       *)
(* tables implement Publication whatever the executions do.                *)
THEOREM ImplementsPublication == Spec => PublicationSpec
<1>1. Init => Run!Init BY RunStarts
<1>2. RunInv /\ [Next]_vars => [Run!Next]_<<state, records, artifact>> BY RunSteps
<1> QED BY <1>1, <1>2, RunInvAlways, PTL DEF Spec, PublicationSpec, Run!Spec

=============================================================================
