--------------------------- MODULE AuthoringPlane ---------------------------
(***************************************************************************)
(* One conversation in which a work system is authored, turn after turn:   *)
(* the builder's durable pending row, the phase and awaiting of the active *)
(* task, the cards the user was shown, and the instrument that says        *)
(* whether a turn moved the control plane.                                 *)
(*                                                                         *)
(* Three writers keep the ledger level with the builder: the sync projects *)
(* pending, the arm projects the card just shipped, the heal projects the  *)
(* last card shown.  Who takes a reply is read from both sides by gates    *)
(* that no transaction joins.  A turn runs inline, or in a worker that     *)
(* writes the ledger after the inline rail has answered.                   *)
(*                                                                         *)
(* The builder, the host that orders the calls of a turn, and the          *)
(* contracts outside the package (ladder, coarse phase, readiness of a     *)
(* commit) are external: any choice they can make is taken.  Turns of a    *)
(* conversation run one at a time, which TurnClaim shows.                  *)
(***************************************************************************)
EXTENDS Naturals, Sequences

CONSTANTS
  Agents, Builder, AuthoringAgents,  \* agent ids; workflow_builder; with workflow_editor
  NoAgent,
  Pendings,        \* the pending rows the builder may write: sets of flags
  NextLeaf,        \* next_pre_save_leaf of a row, "fails" when the ladder raises
  Coarse,          \* project_coarse_phase of a row
  CommitReady,     \* the rows of which is_commit_plan_ready
  SoleContinue,    \* the kinds that sole_continue_suppresses_surface_read knows
  Blocks,          \* the block lists answers carry: sequences of block types
  Results,         \* what the results of turns say of their task
  Lookback         \* STRANDED_LOOKBACK_MESSAGES

\* The gates a user can be asked at, named by their phase; each has one awaiting token.
Gates == {"briefs", "ir_review", "operational_data", "role_proposal", "domain_picker",
          "commit_plan"}

GatePhases == Gates \cup {"reviewing"}

Phases == GatePhases \cup {"committed_graph", "building", "editing", "gathering", "active",
                           "none"}

\* What a pending row says: the flag of a gate, that the gate of a post-commit
\* clarification is open, how far the build is, and that it has a name or tasks.
Flags == Gates \cup {"clarify", "staffed", "compiled", "confirmed", "committed", "named"}

Leaves == {"build_fix", "agents", "compile", "commit", "domain", "ops_kpi", "done",
           "structure", "staff", "fails"}

Kinds == {"workflow_build", "other", "none"}

Result == [transition : {"", "begin", "continue", "complete", "abandon", "reorient"},
           idleCard   : BOOLEAN,      \* it shows the session_reorientation card
           ends       : SUBSET {"created", "released", "concept"},
           awaiting   : Gates \cup {"none"}]

ASSUME PlaneAssumption ==
  /\ NoAgent \notin Agents /\ Builder \in AuthoringAgents /\ AuthoringAgents \subseteq Agents
  /\ Pendings \subseteq SUBSET Flags /\ {} \in Pendings /\ CommitReady \subseteq Pendings
  /\ NextLeaf \in [Pendings -> Leaves] /\ Coarse \in [Pendings -> Phases \ Gates]
  /\ SoleContinue \subseteq Kinds
  /\ Results \subseteq Result /\ Lookback \in Nat \ {0}

VARIABLES
  pending,   \* the row of workflow_builder_pending, {} when there is none
  task,      \* active_task as stored
  context,   \* the turn's copy of active_task
  screen,    \* the gate of each message shown, newest first, "none" without a card
  stage,     \* how far the turn is
  result,    \* what the turn's result says of its task
  marks,     \* the turn's context variables of plane_movement
  did,       \* what the turn really did to the plane
  reported,  \* the turn was reported as one that moved no plane
  op         \* the function that ran last

vars == <<pending, task, context, screen, stage, result, marks, did, reported, op>>
turnVars == <<marks, did, reported>>

Task == [agent : Agents \cup {NoAgent}, kind : Kinds, phase : Phases,
         awaiting : Gates \cup {"none"}]

NoTask == [agent |-> NoAgent, kind |-> "none", phase |-> "none", awaiting |-> "none"]

HasTask(t) == t.agent # NoAgent

NoResult == [transition |-> "", idleCard |-> FALSE, ends |-> {}, awaiting |-> "none"]

-----------------------------------------------------------------------------
(* The phase of a pending row, as load_builder_pending_state heals its     *)
(* flags.                                                                  *)

\* A leftover gate flag of a build that is staffed, compiled and confirmed is drift:
\* the ladder says where it is.
OnLadder(p) == {"staffed", "compiled", "confirmed"} \subseteq p

LadderPhase(leaf) ==
  CASE leaf = "build_fix" -> "reviewing"
    [] leaf = "agents"    -> "briefs"
    [] leaf = "commit"    -> "commit_plan"
    [] leaf = "domain"    -> "domain_picker"
    [] leaf = "ops_kpi"   -> "operational_data"
    [] leaf = "done"      -> "committed_graph"
    [] OTHER              -> "building"

Reading(holds, phase) == [holds |-> holds, phase |-> phase]

\* Defect of Readings: a saved build hides the structure gate that was reopened.
ReadingsSavedFirst(p) ==
  << Reading("committed" \in p, "committed_graph"),
     Reading("ir_review" \in p /\ ~OnLadder(p), "ir_review"),
     Reading("role_proposal" \in p, "role_proposal"),
     Reading(TRUE, Coarse[p]) >>

\* project_fine_authoring_phase, in the order of its returns.
Readings(p) ==
  << Reading(p = {}, "none"),
     Reading("clarify" \in p, "editing"),
     Reading("briefs" \in p, "briefs"),
     Reading("ir_review" \in p /\ ~OnLadder(p), "ir_review"),
     Reading(OnLadder(p), LadderPhase(NextLeaf[p])),
     Reading("committed" \in p, "committed_graph"),
     Reading("operational_data" \in p, "operational_data"),
     Reading("role_proposal" \in p, "role_proposal"),
     Reading("domain_picker" \in p, "domain_picker"),
     Reading("commit_plan" \in p /\ p \in CommitReady, "commit_plan"),
     Reading(TRUE, Coarse[p]) >>

Fine(p) == Readings(p)[CHOOSE i \in DOMAIN Readings(p) :
                         /\ Readings(p)[i].holds
                         /\ \A j \in 1 .. i - 1 : ~Readings(p)[j].holds].phase

\* ledger_phase_awaiting_from_pending; the staffing gate's phase is "active".
Awaited(fine) == IF fine \in Gates THEN fine ELSE "none"
LedgerPhase(fine) == IF fine = "role_proposal" THEN "active" ELSE fine

\* authoring_snapshot_ledger_payload returns something.
HasSnapshot(p) ==
  /\ Fine(p) \notin {"none", "committed_graph"}
  /\ "named" \in p \/ "ir_review" \in p

\* ledger_phase_awaiting_from_blocks: the first block whose type has a row.
CardGate ==
  [workflow_role_proposal |-> "role_proposal", role_proposal_review |-> "role_proposal",
   workflow_ir_review |-> "ir_review", formation_card |-> "ir_review",
   workflow_domain_picker |-> "domain_picker", workflow_domain_create |-> "domain_picker",
   workflow_commit_plan |-> "commit_plan", workflow_ops_kpi_intake |-> "operational_data",
   team_briefs |-> "briefs"]

GateOf(blocks) ==
  LET mapped == SelectSeq(blocks, LAMBDA b : b \in DOMAIN CardGate)
  IN IF mapped = <<>> THEN "none" ELSE CardGate[Head(mapped)]

-----------------------------------------------------------------------------
(* Who takes a reply                                                       *)

Authoring(t) == t.agent \in AuthoringAgents

\* The short replies of the finite grammar, and everything else.
Replies == {"confirm", "menu", "prose"}

OwnedGatePhases == GatePhases \ {"briefs"}

\* discovery_orientation_suppressed
OrientationSuppressed(p, t, reply) ==
  /\ Authoring(t) /\ reply # "prose"
  /\ \/ Fine(p) = "role_proposal"
     \/ Fine(p) \in {"ir_review", "reviewing"} /\ reply = "confirm"
     \/ Fine(p) \in {"domain_picker", "operational_data"}

BuildTask(t) == t.kind = "workflow_build" \/ Authoring(t)

LedgerGated(t) == BuildTask(t) /\ (t.awaiting # "none" \/ t.phase \in OwnedGatePhases)

\* Defect of DiscoverySuppressed: only the builder's row is asked.
DiscoverySuppressedByRow(p, t, reply) ==
  OrientationSuppressed(p, t, reply) \/ Fine(p) \in GatePhases

\* discovery_cognition_suppressed
DiscoverySuppressed(p, t, reply) ==
  \/ OrientationSuppressed(p, t, reply)
  \/ Fine(p) \in GatePhases
  \/ LedgerGated(t)
  \/ HasTask(t) /\ t.awaiting # "none" /\ reply = "confirm"

\* surface_read_detour_suppressed
SurfaceReadSuppressed(p, t) ==
  \/ Authoring(t) /\ Fine(p) # "committed_graph"
  \/ t.kind \in SoleContinue

\* authoring_workflow_name_capture_open and operational_data_kpi_gate_open, whose last
\* clauses need a commit flag, with which the name is captured.
NameCaptureOpen(p, t) ==
  /\ p # {} /\ "committed" \notin p
  /\ \/ "commit_plan" \in p \cup {Fine(p)}
     \/ BuildTask(t) /\ "commit_plan" \in {t.awaiting, t.phase}

MetricGateOpen(p, t) ==
  "operational_data" \in p \cup {t.awaiting}

\* authoring_gate_blocks_inventory_resolve
InventoryBlocked(p, t) ==
  \/ Authoring(t) /\ "domain_picker" \in p
  \/ NameCaptureOpen(p, t)
  \/ MetricGateOpen(p, t)
  \/ Fine(p) \in GatePhases
  \/ LedgerGated(t)

\* synthesize_gate_continue_route; a read of another object is let through.
ContinueRoute(p, t, reply, orthogonal) ==
  CASE ~Authoring(t)                             -> NoAgent
    [] "domain_picker" \in p /\ reply = "menu"   -> Builder
    [] OTHER -> IF DiscoverySuppressed(p, t, reply) /\ ~orthogonal THEN t.agent ELSE NoAgent

-----------------------------------------------------------------------------
(* Ledger writes and the plane's marks                                     *)

Unmoved == [moved |-> FALSE, readOnly |-> FALSE, defer |-> FALSE]

Journals == marks' = [marks EXCEPT !.moved = TRUE] /\ did' = did \cup {"moved"}

\* begin_task and complete_task write a row, and the row's writer marks the plane.
Begins(new) == task' = new /\ Journals
Ends == task' = NoTask /\ Journals

\* update_phase keeps the kind of the agent's own task and replaces any other task by
\* one without a kind; it writes no row and marks nothing.
PhaseOf(t, agent, phase, awaiting) ==
  IF t.agent = agent THEN [t EXCEPT !.phase = phase, !.awaiting = awaiting]
  ELSE [agent |-> agent, kind |-> "none", phase |-> phase, awaiting |-> awaiting]

Advances(agent, phase, awaiting) ==
  /\ task' = PhaseOf(task, agent, phase, awaiting)
  /\ did' = did \cup {"advanced"}
  /\ UNCHANGED marks

LeavesLedger == UNCHANGED <<task, marks, did>>

-----------------------------------------------------------------------------
(* The turn                                                                *)

\* reset_plane_movement and, for a turn that is queued, set_defer_plane_report.
ResetMovement == Unmoved

BeginTurn ==
  \E queued \in BOOLEAN :
    /\ stage = "idle"
    /\ stage' = "reading" /\ op' = "reset_plane_movement"
    /\ marks' = [ResetMovement EXCEPT !.defer = queued]
    /\ context' = task /\ did' = {} /\ reported' = FALSE
    /\ UNCHANGED <<pending, task, screen, result>>

\* What a decision may do to the ledger without reading what the task awaits: nothing,
\* a begin of other work, or the end of the task.
DecidesApart ==
  \/ LeavesLedger
  \/ \E agent \in Agents \ AuthoringAgents :
       Begins([agent |-> agent, kind |-> "other", phase |-> "active", awaiting |-> "none"])
  \/ HasTask(task) /\ Ends

\* decide_turn returns before its branch of the active task: the discovery detour and
\* the other reads, the plan, the exact commands, the requests for other work.  Nothing
\* has been healed then, and the gates that suppress the detour read the turn's copy.
DecideEarly ==
  /\ stage = "reading" /\ stage' = "working"
  /\ DecidesApart
  /\ op' = "decide_turn"
  /\ UNCHANGED <<pending, context, screen, result, reported>>

\* heal_stranded_awaiting, at the head of decide_turn's branch of the active task: a
\* task with a phase and nothing awaited gets the gate of the newest of the last
\* messages that has one.  It is stored, and decide_turn's own copy has it; the turn's
\* context keeps what it was.  A failing statement leaves the task as it is.
HealStranded ==
  LET cards == {i \in DOMAIN screen : screen[i] # "none"}
  IN /\ stage = "reading" /\ HasTask(task) /\ stage' = "healed"
     /\ IF task.awaiting = "none" /\ cards # {}
        THEN LET newest == CHOOSE i \in cards : \A j \in cards : i <= j
             IN Advances(task.agent, LedgerPhase(screen[newest]), screen[newest])
        ELSE LeavesLedger
     /\ op' = "heal_stranded_awaiting"
     /\ UNCHANGED <<pending, context, screen, result, reported>>

HealFails ==
  /\ stage = "reading" /\ HasTask(task) /\ stage' = "healed" /\ op' = "none"
  /\ LeavesLedger /\ UNCHANGED <<pending, context, screen, result, reported>>

\* The rest of that branch: a continue clears what the task awaits; a detour writes
\* nothing; a request for other work begins it, and a stop ends the task.
Decide ==
  /\ stage = "healed" /\ stage' = "working"
  /\ Advances(task.agent, task.phase, "none") \/ DecidesApart
  /\ op' = "decide_turn"
  /\ UNCHANGED <<pending, context, screen, result, reported>>

\* The builder's own work on its row.
BuilderMoves ==
  /\ stage = "working"
  /\ pending' \in Pendings /\ op' = "none"
  /\ UNCHANGED <<task, context, screen, stage, result, turnVars>>

\* The handler asks a disambiguation question, or says that it only reads.
AskQuestion ==
  /\ stage = "working"
  /\ marks' = [marks EXCEPT !.moved = TRUE] /\ did' = did \cup {"moved"}
  /\ op' = "set_pending_question"
  /\ UNCHANGED <<pending, task, context, screen, stage, result, reported>>

DeclareReadOnly ==
  /\ stage = "working"
  /\ marks' = [marks EXCEPT !.readOnly = TRUE] /\ did' = did \cup {"declared"}
  /\ op' = "declare_read_only_turn"
  /\ UNCHANGED <<pending, task, context, screen, stage, result, reported>>

\* _establish_authoring_task_from_pending: an open gate begins the builder's task,
\* whichever task is active.
Establish ==
  /\ ~Authoring(context)
  /\ LET gate == Awaited(Fine(pending))
         begun == [agent |-> Builder, kind |-> "workflow_build",
                   phase |-> LedgerPhase(gate), awaiting |-> gate]
     IN IF gate = "none" THEN LeavesLedger /\ UNCHANGED context
        ELSE Begins(begun) /\ context' = begun

\* The other half of the sync: what pending asks, or else what the context says the
\* task awaits, is written for the agent of the context.
Refresh ==
  /\ Authoring(context)
  /\ LET gate == Awaited(Fine(pending))
         awaited == IF gate = "none" THEN context.awaiting ELSE gate
     IN IF ~HasSnapshot(pending) THEN LeavesLedger /\ UNCHANGED context
        ELSE /\ Advances(context.agent, LedgerPhase(Fine(pending)), awaited)
             /\ context' = task'

\* sync_authoring_snapshot_to_ledger, wherever in the turn the host calls it.
SyncSnapshot ==
  /\ stage \in {"reading", "working"}
  /\ Establish \/ Refresh
  /\ op' = "sync_authoring_snapshot_to_ledger"
  /\ UNCHANGED <<pending, screen, stage, result, reported>>

\* The answer is packaged; a message is shown.
Answer ==
  \E blocks \in Blocks, r \in Results :
    /\ stage = "working" /\ stage' = "answered"
    /\ screen' = SubSeq(<<GateOf(blocks)>> \o screen, 1,
                        IF Len(screen) < Lookback THEN Len(screen) + 1 ELSE Lookback)
    /\ result' = r /\ context' = NoTask /\ op' = "none"
    /\ UNCHANGED <<pending, task, turnVars>>

\* terminal_outcome
TerminalOutcome(r) ==
  IF r.idleCard \/ r.transition \in {"reorient", "continue", "begin"} THEN "none"
  ELSE IF r.transition # "" THEN r.transition
  ELSE IF r.ends # {} THEN "complete" ELSE "none"

\* Defect of ShouldDefer: the inline rail of a queued turn reports.
DeferNothing == FALSE

ShouldDefer == marks.defer

\* claimed_turn_is_complete, of a turn that answered
Complete(m) == m.moved \/ m.readOnly

\* The inline rail of a queued turn ends, and the worker takes over.
FinalizeInline ==
  /\ stage = "answered" /\ marks.defer
  /\ stage' = "mirroring"
  /\ reported' = (reported \/ (~ShouldDefer /\ ~Complete(marks)))
  /\ op' = "finalize_claimed_turn"
  /\ UNCHANGED <<pending, task, context, screen, result, marks, did>>

\* The completion sinks: a terminal outcome ends the task.  The worker's mirror writes
\* the phase of any other result (the adapter of the builder in contract.py).
SinkResult ==
  /\ \/ stage = "answered" /\ ~marks.defer
     \/ stage = "mirroring"
  /\ stage' = "sunk"
  /\ IF TerminalOutcome(result) # "none"
     THEN IF HasTask(task) THEN Ends ELSE LeavesLedger
     ELSE IF stage = "mirroring" /\ Authoring(task)
     THEN Advances(task.agent, "building", result.awaiting)
     ELSE LeavesLedger
  /\ op' = "apply_transition"
  /\ UNCHANGED <<pending, context, screen, result, reported>>

\* arm_fat_leaf_awaiting: the card just shipped is what the task awaits.  It fails
\* silently, or is not called on the rail that ships the card.
ArmFatLeaf ==
  LET gate == screen[1]
  IN /\ stage = "sunk" /\ stage' = "armed"
     /\ IF gate # "none" /\ HasTask(task) /\ task.awaiting # gate
        THEN Advances(task.agent, LedgerPhase(gate), gate)
        ELSE LeavesLedger
     /\ op' = "arm_fat_leaf_awaiting"
     /\ UNCHANGED <<pending, context, screen, result, reported>>

SkipArm ==
  /\ stage = "sunk" /\ stage' = "armed" /\ op' = "none"
  /\ LeavesLedger /\ UNCHANGED <<pending, context, screen, result, reported>>

\* report_unmoved_turn; the dispatch itself may be declared read-only.  A worker
\* stops deferring before it reports.
FinalizeTurn ==
  \E readOnlyDispatch \in BOOLEAN :
    LET m == [marks EXCEPT !.defer = FALSE, !.readOnly = @ \/ readOnlyDispatch]
    IN /\ stage = "armed" /\ stage' = "idle"
       /\ marks' = m
       /\ did' = IF readOnlyDispatch THEN did \cup {"declared"} ELSE did
       /\ reported' = (reported \/ ~Complete(m))
       /\ result' = NoResult
       /\ op' = "finalize_claimed_turn"
       /\ UNCHANGED <<pending, task, context, screen>>

Init ==
  /\ pending \in Pendings /\ task = NoTask /\ context = NoTask
  /\ screen = <<>>
  /\ stage = "idle" /\ result = NoResult
  /\ marks = Unmoved /\ did = {} /\ reported = FALSE /\ op = "none"

Next ==
  \/ BeginTurn \/ DecideEarly \/ HealStranded \/ HealFails \/ Decide
  \/ BuilderMoves \/ AskQuestion \/ DeclareReadOnly \/ SyncSnapshot
  \/ Answer \/ FinalizeInline \/ SinkResult \/ ArmFatLeaf \/ SkipArm \/ FinalizeTurn

Spec == Init /\ [][Next]_vars

-----------------------------------------------------------------------------
(* Properties                                                              *)

\* The gates a row asks at and that nothing behind them settles.
Askable(p) ==
  IF "clarify" \in p \/ OnLadder(p) THEN {}
  ELSE {g \in p \cap Gates : /\ "committed" \in p => g \in {"briefs", "ir_review"}
                             /\ g = "commit_plan" => p \in CommitReady}

\* ledger_phase_awaiting_from_pending, "not null while gated": after a sync the active
\* task awaits a gate that is open in the builder's row, if one is, whichever task was
\* active, and however the turn's copy of it differs from the stored one.
SyncAsksOpenGate ==
  /\ op = "sync_authoring_snapshot_to_ledger"
  /\ Askable(pending) # {} /\ "named" \in pending
  => task.awaiting \in Askable(pending)

\* CAQ-10: while the builder's task is at a gate, in the ledger or in its row, no
\* detour takes the reply and the builder is routed to, although the gates read
\* different sides of a pair that no transaction keeps level.
GateOwnsReply ==
  /\ Authoring(task) /\ Fine(pending) # "committed_graph"
  /\ task.awaiting # "none" \/ Fine(pending) \in GatePhases
  => /\ SurfaceReadSuppressed(pending, task)
     /\ InventoryBlocked(pending, task)
     /\ \A reply \in Replies :
          /\ DiscoverySuppressed(pending, task, reply)
          /\ ContinueRoute(pending, task, reply, FALSE) \in AuthoringAgents

\* report_unmoved_turn: a turn is reported exactly when it wrote no row, asked no
\* question and declared nothing, on the inline rail and in the worker.
ReportIsTrue ==
  stage = "idle" /\ op # "none"
    => (reported <=> did \cap {"moved", "declared"} = {})

-----------------------------------------------------------------------------
(* What the documentation says and the code does not keep                  *)

\* plane_movement: "begin a task, advance it, complete it, or explicitly declare":
\* a reported turn advanced no task.
AdvanceMovesPlane == stage = "idle" /\ reported => "advanced" \notin did

\* decide_turn on the heal: "Only reaches rows stranded before arm_fat_leaf_awaiting
\* existed; a healthy task fails the guard and nothing is written".  Every task of this
\* conversation began after the arm existed, so no heal would write.  But a continue
\* clears what was armed, and an answer without a card leaves it so.
ArmStopsStrandings == [][op' = "heal_stranded_awaiting" => task' = task]_vars
=============================================================================
