CONSTANTS
  bot0 = bot0
  builder = builder
  advisor = advisor
  drafting = drafting
  build = build
  cost = cost
  setup = setup
  concept = concept
  handoff = handoff
  buildRef = buildRef
  parkedRef = parkedRef
  advisorRef = advisorRef
  bot0Ref = bot0Ref
  draftRef = draftRef
  admitBuilder = admitBuilder
  admitAdvisor = admitAdvisor
  Agents = {bot0, builder, advisor}
  Bot0 = bot0
  NoAgent = NoAgent
  Kinds = {drafting, build, cost, setup, concept, handoff}
  NoKind = NoKind
  KindOwner <- MCKindOwner
  AgentKind <- MCAgentKind
  DraftingKind = drafting
  SeedKinds = {drafting, build}
  AuthoringAgents = {builder}
  Refs = {buildRef, parkedRef, advisorRef, bot0Ref, draftRef, admitBuilder, admitAdvisor}
  NoRef = NoRef
  RefObject <- MCRefObject
  RefConv <- MCRefConv
  HandoffRef <- MCAgentRef
  Cmds = {}
  NoCmd = NoCmd
  BeginArgs <- MCBegins
  PhaseArgs = {}
  Proposals = {}
  HandoffTargets = {}
  Questions = TRUE
  SuspendReasons = {"other"}
  EndReasons = {"task_completed"}
  Enders = {bot0}
  SummaryAgents = {}
  StaleTaskIds = FALSE
  TaskHorizon = 0
  SwitchTtl = 0
  MaxRevision = 6
  MaxClock = 0
  Builder = builder
  Advisor = advisor
  BuildKind = build
  CostKind = cost
  Specialists = {builder, advisor}
  StickyKinds = {setup}
  ConceptKind = concept
  SoleContinueKinds = {drafting, cost, setup, concept}
  Admitted = {builder, advisor}
  AgentRef <- MCAgentRef
  AdmittedRef <- MCAdmittedRef
  DraftRef = draftRef
  ParkedSpecRef = parkedRef
  Turns <- MCTurns
  Starts <- MCStarts
  Histories <- MCHistories
SPECIFICATION TurnSpec
CHECK_DEADLOCK FALSE
INVARIANTS
  DecideTypeOK HandoffsDoNotBounce PlanNamesOwner TurnsNeverCollide
PROPERTIES
  GateAnswersStay WorkIsAccountedFor
