----------------------------- MODULE PlaneProofs -----------------------------
(***************************************************************************)
(* Proofs about AuthoringPlane for every row the builder may write, every  *)
(* answer, every result and every ladder.                                  *)
(***************************************************************************)
EXTENDS AuthoringPlane, TLAPS

-----------------------------------------------------------------------------
(* The report of a turn                                                    *)

Marks == [moved : BOOLEAN, readOnly : BOOLEAN, defer : BOOLEAN]

\* The marks say what the turn did, and only the end of a turn reports it.
MarksTellTruth ==
  /\ marks \in Marks
  /\ marks.moved <=> "moved" \in did
  /\ marks.readOnly <=> "declared" \in did
  /\ stage # "idle" => ~reported
  /\ reported \in BOOLEAN
  /\ stage = "idle" /\ op # "none" => (reported <=> did \cap {"moved", "declared"} = {})

LEMMA JournalsTells ==
  ASSUME MarksTellTruth, Journals
  PROVE  /\ marks' \in Marks /\ marks'.defer = marks.defer
         /\ marks'.moved <=> "moved" \in did'
         /\ marks'.readOnly <=> "declared" \in did'
  BY DEF MarksTellTruth, Journals, Marks

LEMMA AdvanceTells ==
  ASSUME MarksTellTruth, UNCHANGED marks, did' = did \cup {"advanced"} \/ did' = did
  PROVE  /\ marks' \in Marks
         /\ marks'.moved <=> "moved" \in did'
         /\ marks'.readOnly <=> "declared" \in did'
  BY DEF MarksTellTruth

LEMMA NextTells ==
  ASSUME MarksTellTruth, [Next]_vars
  PROVE  MarksTellTruth'
<1> USE DEF MarksTellTruth
<1>1. CASE BeginTurn
  BY <1>1 DEF BeginTurn, ResetMovement, Unmoved, Marks
<1>2. CASE HealStranded
  BY <1>2, AdvanceTells DEF HealStranded, Advances, LeavesLedger
<1>3. CASE HealFails
  BY <1>3 DEF HealFails, LeavesLedger
<1>4. CASE Decide
  BY <1>4, AdvanceTells, JournalsTells
  DEF Decide, DecidesApart, Advances, LeavesLedger, Begins, Ends
<1>5. CASE BuilderMoves
  BY <1>5 DEF BuilderMoves, turnVars
<1>6. CASE AskQuestion
  BY <1>6 DEF AskQuestion, Marks
<1>7. CASE DeclareReadOnly
  BY <1>7 DEF DeclareReadOnly, Marks
<1>8. CASE SyncSnapshot
  BY <1>8, AdvanceTells, JournalsTells
  DEF SyncSnapshot, Establish, Refresh, Advances, LeavesLedger, Begins
<1>9. CASE Answer
  BY <1>9 DEF Answer, turnVars
<1>10. CASE FinalizeInline
  BY <1>10 DEF FinalizeInline, ShouldDefer
<1>11. CASE SinkResult
  BY <1>11, AdvanceTells, JournalsTells DEF SinkResult, Advances, LeavesLedger, Ends
<1>12. CASE ArmFatLeaf
  BY <1>12, AdvanceTells DEF ArmFatLeaf, Advances, LeavesLedger
<1>13. CASE SkipArm
  BY <1>13 DEF SkipArm, LeavesLedger
<1>14. CASE FinalizeTurn
  BY <1>14 DEF FinalizeTurn, Complete, Marks
<1>15. CASE DecideEarly
  BY <1>15, AdvanceTells, JournalsTells
  DEF DecideEarly, DecidesApart, LeavesLedger, Begins, Ends
<1>16. CASE UNCHANGED vars
  BY <1>16 DEF vars
<1> QED
  BY <1>1, <1>2, <1>3, <1>4, <1>5, <1>6, <1>7, <1>8, <1>9, <1>10, <1>11, <1>12, <1>13,
     <1>14, <1>15, <1>16 DEF Next

\* report_unmoved_turn: a turn is reported exactly when it wrote no row, asked no
\* question and declared nothing, whichever rail it ran on and whatever its worker wrote
\* after the inline rail had answered.
THEOREM ReportsAreTrue == Spec => []ReportIsTrue
<1>1. Init => MarksTellTruth
  <2> SUFFICES ASSUME Init PROVE MarksTellTruth
    OBVIOUS
  <2>1. marks \in Marks /\ ~marks.moved /\ ~marks.readOnly
    BY DEF Init, Marks, Unmoved
  <2> QED
    BY <2>1 DEF Init, MarksTellTruth
<1>2. MarksTellTruth => ReportIsTrue
  BY DEF MarksTellTruth, ReportIsTrue
<1> QED
  BY <1>1, <1>2, NextTells, PTL DEF Spec

-----------------------------------------------------------------------------
(* The sync and the open gate                                              *)

LEMMA FineIsFirst ==
  ASSUME NEW p
  PROVE  \E i \in 1 .. 11 : /\ Fine(p) = Readings(p)[i].phase /\ Readings(p)[i].holds
                            /\ \A j \in 1 .. i - 1 : ~Readings(p)[j].holds
<1> DEFINE R == Readings(p)
           First(i) == R[i].holds /\ \A j \in 1 .. i - 1 : ~R[j].holds
<1>1. DOMAIN R = 1 .. 11 /\ R[11].holds
  BY DEF Readings, Reading
<1> HIDE DEF R
<1>2. \E i \in 1 .. 11 : First(i)
  <2> SUFFICES ASSUME \A i \in 1 .. 11 : ~First(i) PROVE FALSE
    OBVIOUS
  <2>1. ~R[1].holds
    OBVIOUS
  <2>2. ~R[2].holds /\ ~R[3].holds
    BY <2>1
  <2>3. ~R[4].holds /\ ~R[5].holds
    BY <2>1, <2>2
  <2>4. ~R[6].holds /\ ~R[7].holds
    BY <2>1, <2>2, <2>3
  <2>5. ~R[8].holds /\ ~R[9].holds
    BY <2>1, <2>2, <2>3, <2>4
  <2>6. ~R[10].holds /\ ~R[11].holds
    BY <2>1, <2>2, <2>3, <2>4, <2>5
  <2> QED
    BY <1>1, <2>6
<1>3. Fine(p) = R[CHOOSE i \in DOMAIN R : First(i)].phase
  BY DEF Fine, R
<1> HIDE DEF First
<1>4. PICK i \in 1 .. 11 : i = (CHOOSE k \in DOMAIN R : First(k)) /\ First(i)
  BY <1>1, <1>2
<1> QED
  BY <1>3, <1>4 DEF First, R

\* The order of the returns of project_fine_authoring_phase: a gate the row asks at
\* comes before everything that would hide it.
LEMMA OpenGateIsRead ==
  ASSUME NEW p, Askable(p) # {}
  PROVE  Fine(p) \in Askable(p) /\ Fine(p) \in Gates
<1>1. PICK i \in 1 .. 11 : /\ Fine(p) = Readings(p)[i].phase /\ Readings(p)[i].holds
                           /\ \A j \in 1 .. i - 1 : ~Readings(p)[j].holds
  BY FineIsFirst
<1>2. PICK g \in p \cap Gates : /\ "committed" \in p => g \in {"briefs", "ir_review"}
                                /\ g = "commit_plan" => p \in CommitReady
  BY DEF Askable
<1>3. "clarify" \notin p /\ ~OnLadder(p) /\ p # {}
  BY DEF Askable
<1> DEFINE R == Readings(p)
<1>4. /\ R[1].holds <=> FALSE
      /\ R[2].holds <=> FALSE
      /\ R[3].holds <=> "briefs" \in p
      /\ R[4].holds <=> "ir_review" \in p
      /\ R[5].holds <=> FALSE
      /\ R[6].holds <=> "committed" \in p
      /\ R[7].holds <=> "operational_data" \in p
      /\ R[8].holds <=> "role_proposal" \in p
      /\ R[9].holds <=> "domain_picker" \in p
      /\ R[10].holds <=> "commit_plan" \in p /\ p \in CommitReady
  BY <1>3 DEF Readings, Reading
<1>5. /\ R[3].phase = "briefs" /\ R[4].phase = "ir_review" /\ R[7].phase = "operational_data"
      /\ R[8].phase = "role_proposal" /\ R[9].phase = "domain_picker"
      /\ R[10].phase = "commit_plan"
  BY DEF Readings, Reading
<1> HIDE DEF R
<1>6. R[i].holds /\ Fine(p) = R[i].phase /\ \A j \in 1 .. i - 1 : ~R[j].holds
  BY <1>1 DEF R
<1>7. i # 1 /\ i # 2 /\ i # 5
  BY <1>4, <1>6
<1>8. i # 11
  <2> SUFFICES ASSUME i = 11 PROVE FALSE
    OBVIOUS
  <2>1. ~R[3].holds /\ ~R[4].holds /\ ~R[7].holds /\ ~R[8].holds /\ ~R[9].holds /\ ~R[10].holds
    BY <1>6
  <2> QED
    BY <1>2, <1>4, <2>1 DEF Gates
<1>9. i # 6
  <2> SUFFICES ASSUME i = 6 PROVE FALSE
    OBVIOUS
  <2>1. ~R[3].holds /\ ~R[4].holds /\ R[6].holds
    BY <1>6
  <2> QED
    BY <1>2, <1>4, <2>1
<1>10. i >= 7 => "committed" \notin p
  BY <1>4, <1>6
<1>11. /\ i = 3 => Fine(p) = "briefs" /\ "briefs" \in p
       /\ i = 4 => Fine(p) = "ir_review" /\ "ir_review" \in p
       /\ i = 7 => Fine(p) = "operational_data" /\ "operational_data" \in p
       /\ i = 8 => Fine(p) = "role_proposal" /\ "role_proposal" \in p
       /\ i = 9 => Fine(p) = "domain_picker" /\ "domain_picker" \in p
       /\ i = 10 => Fine(p) = "commit_plan" /\ "commit_plan" \in p /\ p \in CommitReady
  BY <1>4, <1>5, <1>6
<1>12. i \in {3, 4, 7, 8, 9, 10}
  BY <1>7, <1>8, <1>9
<1> QED
  BY <1>3, <1>10, <1>11, <1>12 DEF Askable, Gates

\* A record with the fields of a task, whatever they hold.
IsTask(t) ==
  t \in [agent : {t.agent}, kind : {t.kind}, phase : {t.phase}, awaiting : {t.awaiting}]

LEMMA PhaseOfIsTask ==
  ASSUME NEW t, IsTask(t), NEW agent, NEW phase, NEW awaiting
  PROVE  /\ IsTask(PhaseOf(t, agent, phase, awaiting))
         /\ PhaseOf(t, agent, phase, awaiting).awaiting = awaiting
         /\ PhaseOf(t, agent, phase, awaiting).agent = agent
<1> DEFINE other == [agent |-> agent, kind |-> "none", phase |-> phase, awaiting |-> awaiting]
           own == [t EXCEPT !.phase = phase, !.awaiting = awaiting]
<1>1. own \in [agent : {t.agent}, kind : {t.kind}, phase : {phase}, awaiting : {awaiting}]
  BY DEF IsTask
<1>2. IsTask(own) /\ own.awaiting = awaiting /\ own.agent = t.agent
  <2> HIDE DEF own
  <2> QED
    BY <1>1 DEF IsTask
<1>3. IsTask(other) /\ other.awaiting = awaiting /\ other.agent = agent
  BY DEF IsTask
<1>4. PhaseOf(t, agent, phase, awaiting) = IF t.agent = agent THEN own ELSE other
  BY DEF PhaseOf
<1> HIDE DEF own, other
<1> QED
  BY <1>2, <1>3, <1>4

TasksAreTasks == IsTask(task) /\ SyncAsksOpenGate

\* What a step does to the task: nothing, an update_phase or a task of its own.
Written == \E agent, phase, awaiting : task' = PhaseOf(task, agent, phase, awaiting)
Begun == \E a, k, f, w : task' = [agent |-> a, kind |-> k, phase |-> f, awaiting |-> w]
TaskMoves == UNCHANGED task \/ Written \/ Begun

LEMMA MovedIsTask ==
  ASSUME IsTask(task), TaskMoves
  PROVE  IsTask(task')
<1>1. Written => IsTask(task')
  BY PhaseOfIsTask DEF Written
<1>2. Begun => IsTask(task')
  BY DEF IsTask, Begun
<1> QED
  BY <1>1, <1>2 DEF TaskMoves

LEMMA NextMovesTask ==
  ASSUME [Next]_vars
  PROVE  TaskMoves
<1> USE DEF TaskMoves, Written, Begun, LeavesLedger
<1>1. CASE HealStranded \/ HealFails \/ ArmFatLeaf \/ SkipArm
  BY <1>1 DEF HealStranded, HealFails, ArmFatLeaf, SkipArm, Advances
<1>2. CASE Decide \/ DecideEarly
  BY <1>2 DEF Decide, DecideEarly, DecidesApart, Advances, Begins, Ends, NoTask
<1>3. CASE SyncSnapshot
  BY <1>3 DEF SyncSnapshot, Establish, Refresh, Advances, Begins
<1>4. CASE SinkResult
  BY <1>4 DEF SinkResult, Advances, Ends, NoTask
<1> QED
  BY <1>1, <1>2, <1>3, <1>4 DEF Next, vars, BeginTurn, BuilderMoves, AskQuestion,
     DeclareReadOnly, Answer, FinalizeInline, FinalizeTurn

LEMMA NextKeepsTasks ==
  ASSUME TasksAreTasks, [Next]_vars
  PROVE  TasksAreTasks'
<1>1. IsTask(task')
  BY NextMovesTask, MovedIsTask DEF TasksAreTasks
<1>2. CASE SyncSnapshot
  <2>1. /\ pending' = pending /\ op' = "sync_authoring_snapshot_to_ledger"
    BY <1>2 DEF SyncSnapshot
  <2>2. SUFFICES /\ IsTask(task')
                 /\ Askable(pending) # {} /\ "named" \in pending
                    => task'.awaiting \in Askable(pending)
    BY <2>1 DEF TasksAreTasks, SyncAsksOpenGate, IsTask, Askable, OnLadder
  <2> DEFINE gate == Awaited(Fine(pending))
  <2>3. Askable(pending) # {} => gate = Fine(pending) /\ gate \in Askable(pending) /\ gate \in Gates
    BY OpenGateIsRead DEF Awaited
  <2>4. CASE Establish
    <3>1. CASE gate = "none"
      BY <1>1, <2>3, <2>4, <3>1 DEF Establish, LeavesLedger, Gates
    <3>2. CASE gate # "none"
      <4> DEFINE begun == [agent |-> Builder, kind |-> "workflow_build",
                           phase |-> LedgerPhase(gate), awaiting |-> gate]
      <4>1. task' = begun
        BY <2>4, <3>2 DEF Establish, Begins
      <4> QED
        BY <1>1, <2>3, <4>1
    <3> QED
      BY <3>1, <3>2
  <2>5. CASE Refresh
    <3> DEFINE awaited == IF gate = "none" THEN context.awaiting ELSE gate
    <3>1. CASE ~HasSnapshot(pending)
      <4>1. ~(Askable(pending) # {} /\ "named" \in pending)
        BY <2>3, <3>1 DEF HasSnapshot, Gates
      <4> QED
        BY <1>1, <2>5, <3>1, <4>1 DEF Refresh, LeavesLedger
    <3>2. CASE HasSnapshot(pending)
      <4>1. task' = PhaseOf(task, context.agent, LedgerPhase(Fine(pending)), awaited)
        BY <2>5, <3>2 DEF Refresh, Advances
      <4>2. IsTask(task') /\ task'.awaiting = awaited
        BY <4>1, PhaseOfIsTask DEF TasksAreTasks
      <4> QED
        BY <2>3, <4>2 DEF Gates
    <3> QED
      BY <3>1, <3>2
  <2> QED
    BY <1>2, <2>4, <2>5 DEF SyncSnapshot
<1>3. CASE UNCHANGED vars
  BY <1>3 DEF vars, TasksAreTasks, SyncAsksOpenGate, IsTask
<1>4. CASE Next /\ ~SyncSnapshot
  <2>1. op' # "sync_authoring_snapshot_to_ledger"
    BY <1>4 DEF Next, BeginTurn, DecideEarly, HealStranded, HealFails, Decide, BuilderMoves,
       AskQuestion, DeclareReadOnly, Answer, FinalizeInline, SinkResult, ArmFatLeaf, SkipArm,
       FinalizeTurn
  <2> QED
    BY <1>1, <2>1 DEF TasksAreTasks, SyncAsksOpenGate, IsTask
<1> QED
  BY <1>2, <1>3, <1>4

\* sync_authoring_snapshot_to_ledger, "not null while gated": whatever the row says and
\* whichever task was active, the task a sync leaves awaits a gate that the row opens.
THEOREM SyncArmsOpenGate == Spec => []SyncAsksOpenGate
<1>1. Init => TasksAreTasks
  BY DEF Init, NoTask, TasksAreTasks, IsTask, SyncAsksOpenGate
<1>2. TasksAreTasks => SyncAsksOpenGate
  BY DEF TasksAreTasks
<1> QED
  BY <1>1, <1>2, NextKeepsTasks, PTL DEF Spec

-----------------------------------------------------------------------------
(* Who keeps the reply                                                     *)

\* CAQ-10, over every row and every task: the four gates that read two unlevelled sides
\* agree on who takes the reply of a build at a gate.
THEOREM GateKeepsReply == Spec => []GateOwnsReply
<1>1. GateOwnsReply
  <2> SUFFICES ASSUME Authoring(task), Fine(pending) # "committed_graph",
                      task.awaiting # "none" \/ Fine(pending) \in GatePhases,
                      NEW reply \in Replies
               PROVE  /\ SurfaceReadSuppressed(pending, task)
                      /\ InventoryBlocked(pending, task)
                      /\ DiscoverySuppressed(pending, task, reply)
                      /\ ContinueRoute(pending, task, reply, FALSE) \in AuthoringAgents
    BY DEF GateOwnsReply, Replies
  <2>1. Fine(pending) \in GatePhases \/ LedgerGated(task)
    BY DEF LedgerGated, BuildTask
  <2>2. InventoryBlocked(pending, task) /\ DiscoverySuppressed(pending, task, reply)
    BY <2>1 DEF InventoryBlocked, DiscoverySuppressed
  <2>3. ContinueRoute(pending, task, reply, FALSE) \in {Builder, task.agent}
    BY <2>2 DEF ContinueRoute
  <2>4. Builder \in AuthoringAgents /\ task.agent \in AuthoringAgents
    BY PlaneAssumption DEF Authoring
  <2> QED
    BY <2>2, <2>3, <2>4 DEF SurfaceReadSuppressed
<1> QED
  BY <1>1, PTL
=============================================================================
