CONSTANTS
  bot0 = bot0
  builder = builder
  drafting = drafting
  build = build
  buildRef = buildRef
  s1 = s1
  s2 = s2
  NoLedger = NoLedger
  Agents = {bot0, builder}
  Bot0 = bot0
  NoAgent = NoAgent
  Kinds = {drafting, build}
  NoKind = NoKind
  KindOwner <- MCKindOwner
  AgentKind <- MCAgentKind
  DraftingKind = drafting
  SeedKinds = {drafting, build}
  AuthoringAgents = {builder}
  Refs = {buildRef}
  NoRef = NoRef
  RefObject <- MCRefObject
  RefConv <- MCRefObject
  HandoffRef <- MCHandoffRef
  Cmds = {}
  NoCmd = NoCmd
  BeginArgs <- MCBegins
  PhaseArgs <- MCPhases
  Proposals <- MCProposals
  HandoffTargets = {}
  Questions = TRUE
  SuspendReasons = {"other"}
  EndReasons = {"task_completed"}
  Enders = {bot0}
  SummaryAgents = {builder}
  StaleTaskIds = FALSE
  TaskHorizon = 0
  SwitchTtl = 0
  MaxRevision = 4
  MaxClock = 1
  Sessions = {s1, s2}
  Laws <- SweepingLaws
  PlanTasks = {"p", "q"}
SPECIFICATION SessionSpec
CHECK_DEADLOCK FALSE
PROPERTIES
  ExpiredWasStale
