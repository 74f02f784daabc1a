----------------------------- MODULE DecideTurn -----------------------------
(***************************************************************************)
(* decide_turn: what a message does to the ledger, and the plan that tells *)
(* the host which agent answers it.                                        *)
(*                                                                         *)
(* The function is a ladder of steps; each either returns or leaves the    *)
(* turn to the next one.  It works on a view of the active task that it    *)
(* read once, and its writes go to the ledger in one transaction.  A step  *)
(* is an action that returns from a scene (the ledger as the steps above   *)
(* left it, and the view) on a turn's input.  What the code asks of the    *)
(* text, of other tables or of the host's contracts is input too: a turn   *)
(* comes with the tests it passes, whatever the state.                     *)
(***************************************************************************)
EXTENDS ControlLedger, HandoffGuard

CONSTANTS
  Builder, Advisor,          \* workflow_builder and transformation_advisor
  BuildKind, CostKind,       \* "workflow_build" and "cost_out"
  Specialists,               \* the specialized_agents of the active step
  StickyKinds,               \* outcome_value_setup, realization_intake, cyber_risk_assessment
  ConceptKind,               \* "concept_thread"
  SoleContinueKinds,         \* SOLE_CONTINUE_KINDS
  Admitted,                  \* ADMITTED_AGENTS
  AgentRef,                  \* the ref "<agent>:<conversation>"
  AdmittedRef,               \* the ref "admitted:<agent>:<conversation>"
  DraftRef, ParkedSpecRef,   \* drafting_pending_ref; "pending_workflow:<conversation>"
  Turns,                     \* the inputs of the turns of this instance
  Starts,                    \* the ledgers that earlier operations left
  Histories                  \* the traces of handoffs that earlier turns left

VARIABLES
  plan,       \* the TurnPlan the host is dispatching, or NoPlan
  trace,      \* _handoff_trace
  since,      \* tasks with larger ids were opened by the message being answered
  proposal    \* the agent the default step proposed and no dispatch has settled

turnVars == <<ledger, clock, collided, plan, trace, since, proposal>>

-----------------------------------------------------------------------------
(* What a turn is: the decision's act and how it reads against the task    *)

\* "answer_switch" is a continue that accepts or declines a proposed switch, "cost"
\* an estimate or a continue that amends one, "draft" either draft act, "orient" an
\* act of a front-door kind; "undecided" is a caller without a decision, "other"
\* every act not named.
Continues == {"continue", "answer_switch"}
Acts == Continues \cup {"abandon", "resume", "handoff", "unknown", "cost", "orient",
                        "draft", "other", "undecided"}

\* "none": perception failed.
Intents == {"continue", "abandon", "resume", "handoff", "unclear", "detour",
            "new_task", "none"}

\* _relative_intent_from_decision: an act that is not named moves the open task or
\* is a detour, as the decision's ledger effect says.
RelativeIntents(act) ==
  CASE act \in Continues -> {"continue"}
    [] act \in {"abandon", "resume", "handoff"} -> {act}
    [] act = "unknown" -> {"unclear"}
    [] act = "undecided" -> Intents
    [] OTHER -> {"detour", "new_task"}

\* The tests a turn may pass, in the order of the ladder.
Tests ==
  {"discharged",           \* obligation_discharged: another table shows the task done
   "create_open",          \* an advisor's project-create is open
   "unfinished_plan",      \* the orchestrator's plan has tasks left
   "reset_command",        \* is_exact_reset_command
   "stale_question", "picks", "supersedes_question",
   "confirmed",            \* the router's layer is confirmed_switch
   "new_or_keep",          \* new_vs_previous_gate_owns_turn
   "hollow",               \* should_collapse_hollow_sticky_drafting
   "refines", "interprets", "process_body", "same_domain", "risk_catalog",
   "explicit_steps", "pinned",
   "committed",            \* is_workflow_builder_post_commit
   "simulates",            \* simulate_on_pinned_workflow
   "stranded",             \* heal_stranded_awaiting finds a card
   "asks_switch", "fresh_spec", "own_act", "finite_ack", "fragment", "foreign",
   "silence", "bare_ok", "unresumable"}

\* target is the agent the act names or, for an answer, the one the caller's copy of
\* the switch card names; conf is in percent; awaiting is what the open task waits
\* for, a "gate" being anything other than in_progress; route is the router's agent.
TurnInput ==
  [act : Acts, intent : Intents, target : Agents \cup {NoAgent}, conf : 0 .. 100,
   route : Agents, awaiting : {"nothing", "in_progress", "gate"}, finds : SUBSET Tests]

ASSUME TurnAssumption ==
  /\ Builder \in AuthoringAgents /\ Advisor \in Agents /\ Admitted \subseteq Agents
  /\ Specialists \subseteq Agents \ {Bot0}
  /\ {BuildKind, CostKind, ConceptKind} \subseteq Kinds
  /\ StickyKinds \subseteq SoleContinueKinds /\ SoleContinueKinds \subseteq Kinds
  /\ \A a \in AuthoringAgents : AgentKind[a] = BuildKind
  /\ AgentRef \in [Agents -> Refs] /\ AdmittedRef \in [Agents -> Refs]
  /\ DraftRef \in Refs /\ ParkedSpecRef \in Refs
  /\ \A t \in Turns : /\ t.act \in Acts /\ t.intent \in RelativeIntents(t.act)
                      /\ t.target \in Agents \cup {NoAgent} /\ t.route \in Agents
                      /\ t.conf \in 0 .. 100 /\ t.finds \subseteq Tests
                      /\ t.awaiting \in {"nothing", "in_progress", "gate"}
                      /\ t.intent = "none" => t.conf = 0
  /\ \A l \in Starts :
       /\ l \in Ledger /\ IsFiniteSet(l.suspended)
       /\ HasActive(l) => l.agentType = l.active.agent
       /\ \A e \in l.journal : e.seq \in 1 .. l.rev
       /\ JournalKeysUnique(l.journal)
       /\ HasActive(l) \/ l.active = NoTask
  /\ \A h \in Histories :
       h \in Seq([from : Agents, to : Agents]) /\ Len(h) <= TraceCap /\ NoBounce(h)

LedgerKind(agent) == IF agent \in AuthoringAgents THEN BuildKind ELSE NoKind

Brief(agent, kind) == [NoTask EXCEPT !.agent = agent, !.kind = kind]

Modes == {"none", "active_task", "answer", "command", "continue", "detour", "discovery",
          "drafting", "fresh", "new", "pending_question", "plan", "resume",
          "switch_confirm"}

\* owner and kind are those of the plan's task, if it carries one.
Plan(agent, mode, task) ==
  [agent |-> agent, mode |-> mode, owner |-> task.agent, kind |-> task.kind]
NoPlan == Plan(NoAgent, "none", NoTask)

-----------------------------------------------------------------------------
(* Writes several steps share                                              *)

\* Defect of EndTask: the task is cleared and no row says so.
ClearTask(l, task, caller, type) ==
  IF CompleteRefused(l, caller) THEN l
  ELSE [l EXCEPT !.active = NoTask, !.pending = NoSwitch, !.agentType = Bot0, !.rev = @ + 1]

\* Defect of EndTask: the clear takes no revision of its own.
EndTaskInPlace(l, task, caller, type) ==
  IF CompleteRefused(l, caller) THEN l
  ELSE AppendEvent([l EXCEPT !.active = NoTask, !.pending = NoSwitch, !.agentType = Bot0],
                   Event(type, NoCmd, task.id, caller, task.kind))

\* complete_task on the task in view.  A refusal returns without raising.
EndTask(l, task, caller, type) ==
  IF CompleteRefused(l, caller) THEN l ELSE Complete(l, caller, type, task.id, NoCmd)

Opens(l, agent, kind, ref, payload) ==
  Begin(l, clock, [agent |-> agent, kind |-> kind, ref |-> ref, payload |-> payload], NoCmd)

\* Defect of OpensFor: the task is begun for the agent's family, the builder.
OpensForBuilder(l, agent) ==
  Opens(l, IF agent = Bot0 THEN Bot0 ELSE Builder, LedgerKind(agent), AgentRef[agent],
        "absent")

OpensFor(l, agent) == Opens(l, agent, LedgerKind(agent), AgentRef[agent], "absent")

TaskFor(agent) == Brief(agent, LedgerKind(agent))

ClearsQuestion(l) ==
  IF l.question THEN [l EXCEPT !.question = FALSE, !.rev = @ + 1] ELSE l

\* update_phase: only the phase and awaiting are given.
Phases(l, agent) ==
  Phase(l, [agent |-> agent, kind |-> NoKind, ref |-> NoRef, payload |-> "absent"])

\* handoff as the drafting step calls it, after ending the draft.
BuilderTakes(l, draft) ==
  Begin(EndTask(l, draft, Bot0, "task_superseded"), clock, HandoffArg(Builder, NoRef), NoCmd)

-----------------------------------------------------------------------------
(* Scenes: the ledger and the view as the steps above left them            *)

Scene(l, view) == [ledger |-> l, view |-> view]
InFlow(s) == s.view.agent # NoAgent

\* The view is dropped whether or not the ledger let the task end.
Dropped(s, type) == Scene(EndTask(s.ledger, s.view, s.view.agent, type), NoTask)

\* read_reconciliation: a task whose work got done elsewhere does not steer the turn.
ReadScene(l, t) ==
  LET s == Scene(l, l.active)
  IN IF InFlow(s) /\ "discharged" \in t.finds THEN Dropped(s, "task_completed") ELSE s

\* A stale or superseded question is cleared.
AskedScene(s, t) ==
  IF t.finds \cap {"stale_question", "supersedes_question"} # {}
  THEN Scene(ClearsQuestion(s.ledger), s.view) ELSE s

\* A hollow draft under a pinned workflow collapses.
DraftScene(s, t) ==
  IF s.view.kind = DraftingKind /\ "hollow" \in t.finds
  THEN Dropped(s, "task_superseded") ELSE s

\* release_post_commit_builder: the committed build is completed and leaves the view.
ReleasedScene(s, t) ==
  IF s.view.agent = Builder /\ "committed" \in t.finds
  THEN Dropped(s, "task_completed") ELSE s

\* heal_stranded_awaiting writes the awaiting of the last card shown.
HealedScene(s, t) ==
  IF InFlow(s) /\ "stranded" \in t.finds
  THEN Scene(Phases(s.ledger, s.view.agent), s.view) ELSE s

\* decide_turn returns p, having left l.
Returns(l, p) ==
  /\ Commit("decide_turn", l)
  /\ plan' = p
  /\ proposal' = NoAgent
  /\ UNCHANGED trace

-----------------------------------------------------------------------------
(* Commands                                                                *)

CostOut(s, t) ==
  /\ t.act = "cost"
  /\ IF s.view.kind = CostKind
     THEN Returns(s.ledger, Plan(Bot0, "continue", s.view))
     ELSE Returns(Opens(IF InFlow(s)
                        THEN EndTask(s.ledger, s.view, s.view.agent, "task_superseded")
                        ELSE s.ledger,
                        Bot0, CostKind, NoRef, "absent"),
                  Plan(Bot0, "answer", NoTask))

\* An open project-create owns the text and keeps discovery out.
Discovery(s, t) ==
  /\ t.act = "orient"
  /\ IF "create_open" \in t.finds
     THEN Returns(s.ledger, IF InFlow(s) THEN Plan(s.view.agent, "resume", s.view)
                            ELSE Plan(Advisor, "new", NoTask))
     ELSE Returns(s.ledger, Plan(Bot0, IF InFlow(s) THEN "detour" ELSE "discovery", s.view))

OrchestratorPlan(s, t) ==
  /\ "unfinished_plan" \in t.finds
  /\ Returns(s.ledger, Plan(Bot0, "plan", NoTask))

ResetCommand(s, t) ==
  LET l == ClearsQuestion(s.ledger)
  IN /\ "unfinished_plan" \notin t.finds /\ "reset_command" \in t.finds
     /\ Returns(IF InFlow(s) THEN EndTask(l, s.view, s.view.agent, "task_abandoned") ELSE l,
                Plan(Bot0, "command", NoTask))

\* The switch of the ledger, else that of the card the caller still shows.
SwitchCard(s, t) == IF HasSwitch(s.ledger) THEN s.ledger.pending.to ELSE t.target

Commands == {"unfinished_plan", "reset_command"}

\* Defect of AnswersSwitch: no card need be open.
AnswersAnySwitch(s, t) == t.act = "answer_switch"

AnswersSwitch(s, t) == t.act = "answer_switch" /\ SwitchCard(s, t) # NoAgent

SwitchReply(s, t) ==
  /\ AnswersSwitch(s, t) /\ t.finds \cap Commands = {}
  /\ Returns(s.ledger, Plan(SwitchCard(s, t), "switch_confirm", NoTask))

BelowCommands(s, t) ==
  /\ t.act \notin {"cost", "orient"} /\ t.finds \cap Commands = {}
  /\ ~AnswersSwitch(s, t)

CommandTurn(t) ==
  LET s == ReadScene(ledger, t)
  IN \/ CostOut(s, t) \/ Discovery(s, t)
     \/ /\ t.act \notin {"cost", "orient"}
        /\ OrchestratorPlan(s, t) \/ ResetCommand(s, t) \/ SwitchReply(s, t)

-----------------------------------------------------------------------------
(* Gates that own the turn: a question, a button, a sticky kind            *)

PicksOption(s, t) ==
  s.ledger.question /\ "stale_question" \notin t.finds /\ "picks" \in t.finds

Pick(s, t) ==
  PicksOption(s, t) /\ Returns(s.ledger, Plan(Bot0, "pending_question", NoTask))

\* The router's answer to a surface action: the button beats the active task.
ConfirmedSwitch(s, t) ==
  LET parked == IF InFlow(s) THEN Suspend(s.ledger, clock, "other") ELSE s.ledger
  IN /\ "confirmed" \in t.finds
     /\ IF InFlow(s) /\ s.view.agent = t.route
        THEN Returns(s.ledger, Plan(t.route, "active_task", s.view))
        ELSE Returns(OpensFor(parked, t.route), Plan(t.route, "active_task", TaskFor(t.route)))

\* outcome_value_setup, realization_intake, cyber_risk_assessment: a new task falls
\* through to the steps below.
HeldBySticky(s, t) == s.view.kind \in StickyKinds /\ t.intent # "new_task"

StickyKind(s, t) ==
  /\ "confirmed" \notin t.finds /\ HeldBySticky(s, t)
  /\ IF t.intent = "abandon"
     THEN Returns(EndTask(s.ledger, s.view, Bot0, "task_abandoned"),
                  Plan(Bot0, "command", NoTask))
     ELSE Returns(s.ledger,
                  Plan(Bot0, IF t.intent = "detour" /\ t.conf >= 50 THEN "detour"
                             ELSE "active_task", s.view))

BelowSticky(s, t) == "confirmed" \notin t.finds /\ ~HeldBySticky(s, t)

\* The question "new or keep" about a parked specification is open.
NewVsPrevious(s, t) ==
  LET closed == IF s.view.kind = DraftingKind
                THEN EndTask(s.ledger, s.view, Bot0, "task_superseded") ELSE s.ledger
  IN /\ BelowSticky(s, t) /\ "new_or_keep" \in t.finds
     /\ Returns(IF s.view.kind = BuildKind THEN closed
                ELSE Opens(closed, Builder, BuildKind, ParkedSpecRef, "absent"),
                Plan(Builder, "continue", Brief(Builder, BuildKind)))

GateTurn(t) ==
  LET read == ReadScene(ledger, t)
      s == AskedScene(read, t)
  IN /\ BelowCommands(read, t)
     /\ \/ Pick(read, t)
        \/ /\ ~PicksOption(read, t)
           /\ ConfirmedSwitch(s, t) \/ StickyKind(s, t) \/ NewVsPrevious(s, t)

\* The scene the drafting step finds, and the turns that get there.
OpenScene(t) == DraftScene(AskedScene(ReadScene(ledger, t), t), t)
BelowGates(t) ==
  LET read == ReadScene(ledger, t)
  IN /\ BelowCommands(read, t) /\ ~PicksOption(read, t)
     /\ BelowSticky(read, t) /\ "new_or_keep" \notin t.finds

-----------------------------------------------------------------------------
(* Drafts                                                                  *)

\* How the drafting step reads the turn: a carried draft is interpreted, or the
\* message refines it; otherwise the intent stands.
DraftReading(t) ==
  CASE "interprets" \in t.finds -> "handoff"
    [] "interprets" \notin t.finds /\ "refines" \in t.finds -> "continue"
    [] OTHER -> t.intent

FreshDomain(t) ==
  /\ DraftReading(t) = "new_task" \/ t.act = "draft"
  /\ t.finds \cap {"interprets", "refines", "process_body", "same_domain", "pinned"} = {}

\* A confident handoff to the builder, a draft to interpret or a process body.
BuilderIsDue(t) ==
  \/ "interprets" \in t.finds
  \/ DraftReading(t) = "handoff" /\ t.target = Builder /\ t.conf >= 50
  \/ "process_body" \in t.finds /\ "refines" \notin t.finds

DraftDetour(t) ==
  \/ t.act = "undecided" /\ "risk_catalog" \in t.finds
  \/ DraftReading(t) = "detour" /\ t.conf >= 50

\* The drafting task owns the turn.
Drafting(s, t) ==
  /\ s.view.kind = DraftingKind
  /\ \/ /\ DraftReading(t) = "abandon"
        /\ Returns(EndTask(s.ledger, s.view, Bot0, "task_abandoned"),
                   Plan(Bot0, "command", s.view))
     \/ /\ DraftReading(t) # "abandon" /\ FreshDomain(t)
        /\ Returns(Opens(EndTask(s.ledger, s.view, Bot0, "task_superseded"),
                         Bot0, DraftingKind, DraftRef, "empty"),
                   Plan(Bot0, "drafting", Brief(Bot0, DraftingKind)))
     \/ /\ DraftReading(t) # "abandon" /\ ~FreshDomain(t)
        /\ IF BuilderIsDue(t)
           THEN Returns(BuilderTakes(s.ledger, s.view),
                        Plan(Builder, "active_task", Brief(Builder, BuildKind)))
           ELSE Returns(s.ledger, Plan(Bot0, IF DraftDetour(t) THEN "detour" ELSE "drafting",
                                       s.view))

\* A draft act opens the builder for explicit steps and a draft for anything else,
\* unless a sole-continue kind is open or a pinned workflow forbids a new draft.
MayOpenDraft(s, t) ==
  /\ t.act = "draft"
  /\ s.view.kind \notin {DraftingKind, BuildKind} \cup SoleContinueKinds
  /\ "explicit_steps" \in t.finds \/ "pinned" \notin t.finds

Intake(s, t) ==
  LET parked == IF InFlow(s) THEN Suspend(s.ledger, clock, "detour") ELSE s.ledger
  IN /\ MayOpenDraft(s, t)
     /\ IF "explicit_steps" \in t.finds
        THEN Returns(Opens(s.ledger, Builder, BuildKind, AgentRef[Builder], "absent"),
                     Plan(Builder, "active_task", Brief(Builder, BuildKind)))
        ELSE Returns(Opens(parked, Bot0, DraftingKind, DraftRef, "seed"),
                     Plan(Bot0, "drafting", Brief(Bot0, DraftingKind)))

DraftTurn(t) ==
  BelowGates(t) /\ (Drafting(OpenScene(t), t) \/ Intake(OpenScene(t), t))

\* Below the drafting steps, after the release of a committed build.
FlowScene(t) == ReleasedScene(OpenScene(t), t)
BelowDrafts(t) ==
  /\ BelowGates(t)
  /\ OpenScene(t).view.kind # DraftingKind /\ ~MayOpenDraft(OpenScene(t), t)

Simulate(s, t) ==
  "simulates" \in t.finds /\ Returns(s.ledger, Plan(Bot0, "continue", NoTask))

-----------------------------------------------------------------------------
(* The active task                                                         *)

MidFlight(t) == t.awaiting # "gate"

\* opened_by_this_message
OpenedByThisMessage(task) == task.id > since'

\* Defect of RouteClaims: the router's guess counts at a gate too.
RouteClaimsAnywhere(s, t) ==
  /\ t.route \in Specialists /\ t.route # s.view.agent
  /\ t.intent \in {"continue", "unclear", "none"} /\ t.conf >= 70

\* A confident route to another specialist claims a new task, except at a gate.
RouteClaims(s, t) ==
  /\ t.route \in Specialists /\ t.route # s.view.agent /\ MidFlight(t)
  /\ t.intent \in {"continue", "unclear", "none"} /\ t.conf >= 70

\* A substantial text routed to the builder is a fresh specification.
FreshSpec(s, t) ==
  /\ "fresh_spec" \in t.finds
  /\ t.route = Builder /\ s.view.agent = Builder /\ MidFlight(t)
  /\ t.intent \in {"none", "unclear", "handoff"}

\* adjudicate_sticky_kind_change asks, and departure_target_agent names the
\* destination.
AsksSwitch(s, t) == "asks_switch" \in t.finds /\ s.view.kind \in SoleContinueKinds

StreamChange(s, t) ==
  /\ AsksSwitch(s, t)
  /\ \E to \in Agents \ {s.view.agent} :
       Returns(Propose(s.ledger, clock, s.view.agent, to, NoCmd),
               Plan(s.view.agent, "switch_confirm", s.view))

\* concept_thread_leaves_for_draft
LeavesConcept(s, t) == s.view.kind = ConceptKind /\ t.act = "draft"

ConceptLeave(s, t) ==
  /\ ~AsksSwitch(s, t) /\ LeavesConcept(s, t)
  /\ \E to \in Agents \ {s.view.agent} :
       Returns(OpensFor(EndTask(s.ledger, s.view, Bot0, "task_superseded"), to),
               Plan(to, "active_task", TaskFor(to)))

ClaimsTask(s, t) == t.intent = "new_task" \/ RouteClaims(s, t) \/ FreshSpec(s, t)

\* The task keeps the turn if this message opened it, or if the act named is its own
\* work; so does an open create.
NewTaskWhileActive(s, t) ==
  /\ ClaimsTask(s, t)
  /\ IF OpenedByThisMessage(s.view) \/ "own_act" \in t.finds
     THEN Returns(s.ledger, Plan(s.view.agent, "active_task", s.view))
     ELSE IF "create_open" \in t.finds
     THEN Returns(s.ledger, Plan(s.view.agent, "continue", s.view))
     ELSE Returns(OpensFor(Suspend(s.ledger, clock, "other"), t.route),
                  Plan(t.route, "active_task", TaskFor(t.route)))

\* A task is ended for good only on a confident reading.
AbandonActive(s, t) ==
  /\ t.intent = "abandon"
  /\ IF "create_open" \in t.finds \/ t.conf < 85
     THEN Returns(s.ledger, Plan(s.view.agent, "continue", s.view))
     ELSE Returns(EndTask(s.ledger, s.view, s.view.agent, "task_abandoned"),
                  Plan(Bot0, "command", NoTask))

HandsOff(t) ==
  /\ t.intent = "handoff"
  /\ \/ t.target # NoAgent
     \/ MidFlight(t) /\ t.conf >= 70

HandoffTo(t) == IF t.target # NoAgent THEN t.target ELSE t.route

\* The trace is bookkeeping outside the control keys; a failure to persist it is
\* swallowed.
HandoffActive(s, t) ==
  LET to == HandoffTo(t)
  IN /\ HandsOff(t) /\ ~FreshSpec(s, t)
     /\ \/ /\ WouldPingPong(trace, s.view.agent, to)
           /\ Returns(s.ledger, Plan(Bot0, "detour", s.view))
        \/ /\ ~WouldPingPong(trace, s.view.agent, to)
           /\ Commit("decide_turn", OpensFor(Suspend(s.ledger, clock, "other"), to))
           /\ plan' = Plan(to, "active_task", TaskFor(to))
           /\ proposal' = NoAgent
           /\ trace' \in {trace, PushHandoff(trace, s.view.agent, to)}

\* The router broke to the front door on a turn not decided as a continue.
BrokeToBot0(t) == t.route = Bot0 /\ t.act \notin Continues

FiniteAck(t) == "finite_ack" \in t.finds /\ t.awaiting # "nothing"

\* "foreign": continue_permitted denies it.
MayContinue(t) ==
  /\ "foreign" \notin t.finds
  /\ \/ t.intent = "continue" /\ ~(BrokeToBot0(t) /\ MidFlight(t))
     \/ /\ t.intent \in {"none", "unclear", "handoff"} /\ ~BrokeToBot0(t)
        /\ t.awaiting # "nothing" /\ "fragment" \notin t.finds
     \/ FiniteAck(t) /\ ~MidFlight(t)

\* An open project-create continues as the advisor's, whatever the message says.
CreateContinues(s, t) ==
  ~MayContinue(t) /\ "create_open" \in t.finds /\ s.view.agent \in {Bot0, Advisor}

Continuer(s, t) == IF CreateContinues(s, t) THEN Advisor ELSE s.view.agent

Reorients(s, t) ==
  LET sole == s.view.kind \in SoleContinueKinds \cup {BuildKind}
  IN /\ "silence" \in t.finds /\ (sole \/ ~MidFlight(t))
     /\ MayContinue(t) \/ CreateContinues(s, t) \/ FiniteAck(t)

\* A continue clears what the task waits for, unless a bare "ok" redisplays its card.
\* After a long silence the user is shown around first.  An act of the task's own
\* continues it too, and the rest is a detour.
ContinueActive(s, t) ==
  /\ ~ClaimsTask(s, t) /\ ~HandsOff(t) /\ t.intent # "abandon"
  /\ IF Reorients(s, t)
     THEN Returns(s.ledger, Plan(Bot0, "detour", s.view))
     ELSE IF MayContinue(t) \/ CreateContinues(s, t)
     THEN Returns(IF "bare_ok" \in t.finds THEN s.ledger
                  ELSE Phases(s.ledger, Continuer(s, t)),
                  Plan(Continuer(s, t), "active_task", s.view))
     ELSE IF "own_act" \in t.finds
             \/ (s.view.kind = BuildKind /\ "process_body" \in t.finds)
     THEN Returns(Phases(s.ledger, s.view.agent), Plan(s.view.agent, "active_task", s.view))
     ELSE Returns(s.ledger, Plan(t.route, "detour", s.view))

ActiveTurn(t) ==
  LET s == HealedScene(FlowScene(t), t)
  IN /\ BelowDrafts(t) /\ "simulates" \notin t.finds /\ InFlow(s)
     /\ \/ StreamChange(s, t)
        \/ ConceptLeave(s, t)
        \/ /\ ~AsksSwitch(s, t) /\ ~LeavesConcept(s, t)
           /\ \/ NewTaskWhileActive(s, t) \/ AbandonActive(s, t)
              \/ HandoffActive(s, t) \/ ContinueActive(s, t)

-----------------------------------------------------------------------------
(* No active task                                                          *)

\* An entry may lack an awaiting, so that a later one matches.
Resumable(s, t) ==
  IF /\ t.intent \in {"continue", "resume"} /\ t.conf >= 50
     /\ ~(t.route = Bot0 /\ t.act \notin Continues \cup {"resume"})
     /\ "unresumable" \notin t.finds
  THEN {e \in s.ledger.suspended : t.target \in {NoAgent, e.task.agent}}
  ELSE {}

\* resume_task is given the agent of the entry that matched, not its id.
ResumeSuspended(s, t) ==
  \E entry \in Resumable(s, t) :
    \E found \in First(ResumeMatches(s.ledger, NoTaskId, entry.task.agent)) :
      Returns(Resume(s.ledger, found), Plan(entry.task.agent, "resume", entry.task))

\* The router's agent is a proposal; its task opens when the agent is dispatched.
Default(s, t) ==
  /\ Resumable(s, t) = {}
  /\ Commit("decide_turn", s.ledger)
  /\ plan' = Plan(t.route, IF t.route = Bot0 THEN "fresh" ELSE "active_task", NoTask)
  /\ proposal' = IF t.route \in Admitted THEN t.route ELSE NoAgent
  /\ UNCHANGED trace

IdleTurn(t) ==
  LET s == FlowScene(t)
  IN /\ BelowDrafts(t)
     /\ \/ Simulate(s, t)
        \/ /\ "simulates" \notin t.finds /\ ~InFlow(s)
           /\ ResumeSuspended(s, t) \/ Default(s, t)

-----------------------------------------------------------------------------
(* Turns                                                                   *)

\* The claim runs the turns of a conversation one at a time.  The worker that answers
\* a message decides it again, in a turn of its own.
Decide(t) ==
  /\ plan = NoPlan
  /\ since' \in {since, ledger.minted}
  /\ CommandTurn(t) \/ GateTurn(t) \/ DraftTurn(t) \/ ActiveTurn(t) \/ IdleTurn(t)

DecideTurn == \E t \in Turns : Decide(t)

\* The dispatch entry of a heavy agent.
AdmitAtDispatch ==
  /\ proposal # NoAgent
  /\ \/ HasActive(ledger) /\ WritesNothing
     \/ /\ ~HasActive(ledger)
        /\ Commit("admit_at_dispatch",
                  Opens(ledger, proposal, LedgerKind(proposal), AdmittedRef[proposal], "absent"))
  /\ proposal' = NoAgent /\ plan' = NoPlan
  /\ UNCHANGED <<trace, since>>

\* What the dispatched agent does to the ledger, in transactions of its own.
Work ==
  /\ BeginTask \/ CompleteTask \/ SuspendActive \/ SetPendingQuestion \/ ResolveSwitch
  /\ plan' = NoPlan
  /\ UNCHANGED <<trace, since, proposal>>

\* The turn ends without a write.
Answer ==
  /\ plan # NoPlan
  /\ WritesNothing
  /\ plan' = NoPlan /\ proposal' = NoAgent
  /\ UNCHANGED <<trace, since>>

TurnInit ==
  /\ ledger \in Starts /\ clock = 0 /\ collided = "none"
  /\ plan = NoPlan /\ since = ledger.minted /\ proposal = NoAgent
  /\ trace \in Histories

TurnNext == DecideTurn \/ AdmitAtDispatch \/ Work \/ Answer

TurnSpec == TurnInit /\ [][TurnNext]_turnVars

-----------------------------------------------------------------------------
(* Properties                                                              *)

\* Every variable has its type, and whatever way a decision returns, its plan names an
\* agent.
DecideTypeOK ==
  /\ TypeOK
  /\ \/ plan = NoPlan
     \/ plan \in [agent : Agents, mode : Modes \ {"none"},
                  owner : Agents \cup {NoAgent}, kind : Kinds \cup {NoKind}]
  /\ trace \in Seq([from : Agents, to : Agents]) /\ Len(trace) <= TraceCap
  /\ since \in Nat
  /\ proposal \in Agents \cup {NoAgent}

\* handoff_guard: whatever the turns decide, the transfers a conversation records
\* never reverse the one before and do not repeat within the window, even when one
\* failed to be recorded.
HandoffsDoNotBounce == NoBounce(trace)

\* decide_turn's plan and its writes agree, on every path: when the plan hands an
\* agent a task of its own, that task is the ledger's active one, of that kind.  (A
\* create continued as the advisor's hands it a task of the front door.)
PlanNamesOwner ==
  plan.mode \in {"active_task", "drafting"} /\ plan.owner = plan.agent
    => ledger.active.agent = plan.agent /\ ledger.active.kind = plan.kind

\* The rows of one turn, although several operations write them in one transaction,
\* never run into the journal's keys.
TurnsNeverCollide == collided \notin {"decide_turn", "admit_at_dispatch"}

\* S2 precedence: while a specialist's task waits at a gate, a message read as a
\* continue, as unclear or as a handoff to nobody leaves the task with its owner,
\* wherever the router pointed.
GateAnswers ==
  {t \in Turns : /\ t.awaiting = "gate"
                 /\ \/ t.intent \in {"continue", "unclear", "none"}
                    \/ t.intent = "handoff" /\ t.target = NoAgent}
GateAnswersStay ==
  [][ HasActive(ledger) /\ ledger.active.agent # Bot0
      => \A t \in GateAnswers :
           ActiveTurn(t) => /\ ledger'.active.id = ledger.active.id
                            /\ ledger'.active.agent = ledger.active.agent]_turnVars

\* A decision leaves no task behind: the task that was active is active or parked
\* afterwards, or a row of the same turn ends or displaces it.  Two exceptions: a
\* create continued as the advisor's, and a resume after a completion that the
\* kind's owner rule refused.
WorkIsAccountedFor ==
  [][ /\ ledger.active.id # NoTaskId
      /\ ledger.active.id \notin LiveIds(ledger')
      => \/ \E e \in NewRows : ledger.active.id \in {e.task, e.other}
         \/ ledger'.active.id = NoTaskId /\ ledger'.active.agent = Advisor
         \/ Resumed /\ CompleteRefused(ledger, ledger.active.agent)]_turnVars
=============================================================================
