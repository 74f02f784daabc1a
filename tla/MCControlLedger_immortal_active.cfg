CONSTANTS
  bot0 = bot0
  builder = builder
  editor = editor
  drafting = drafting
  build = build
  handoff = handoff
  buildRef = buildRef
  stageRef = stageRef
  otherRef = otherRef
  Agents = {bot0, builder, editor}
  Bot0 = bot0
  NoAgent = NoAgent
  Kinds = {drafting, build, handoff}
  NoKind = NoKind
  KindOwner <- MCKindOwner
  AgentKind <- MCAgentKind
  DraftingKind = drafting
  SeedKinds = {drafting, build}
  AuthoringAgents = {builder, editor}
  Refs = {buildRef, stageRef, otherRef}
  NoRef = NoRef
  RefObject <- MCRefObject
  RefConv <- MCRefObject
  HandoffRef <- MCHandoffRef
  Cmds = {}
  NoCmd = NoCmd
  BeginArgs <- FewBegins
  PhaseArgs = {}
  Proposals = {}
  HandoffTargets = {editor}
  Questions = FALSE
  SuspendReasons = {"other"}
  EndReasons = {"task_completed"}
  Enders = {bot0}
  SummaryAgents = {}
  StaleTaskIds = FALSE
  TaskHorizon = 0
  SwitchTtl = 0
  MaxRevision = 4
  MaxClock = 1
SPECIFICATION Spec
CHECK_DEADLOCK FALSE
INVARIANTS
  PruneExpiresActive
