CONSTANTS
  bot0 = bot0
  builder = builder
  editor = editor
  drafting = drafting
  build = build
  handoff = handoff
  buildRef = buildRef
  stageRef = stageRef
  otherRef = otherRef
  Agents = {bot0, builder, editor}
  Bot0 = bot0
  NoAgent = NoAgent
  Kinds = {drafting, build, handoff}
  NoKind = NoKind
  KindOwner <- MCKindOwner
  AgentKind <- MCAgentKind
  DraftingKind = drafting
  SeedKinds = {drafting, build}
  AuthoringAgents = {builder, editor}
  Refs = {buildRef, stageRef, otherRef}
  NoRef = NoRef
  RefObject <- MCRefObject
  RefConv <- MCRefObject
  HandoffRef <- MCHandoffRef
  Cmds = {}
  NoCmd = NoCmd
  BeginArgs <- SweepBegins
  PhaseArgs <- SweepPhases
  Proposals <- SweepProposals
  HandoffTargets = {builder}
  Questions = FALSE
  SuspendReasons = {"detour", "other"}
  EndReasons = {"task_completed"}
  Enders = {bot0}
  SummaryAgents = {}
  StaleTaskIds = FALSE
  TaskHorizon = 1
  SwitchTtl = 1
  MaxRevision = 6
  MaxClock = 2
SPECIFICATION Spec
CHECK_DEADLOCK FALSE
INVARIANTS
  OneHomePerTask OnePausedPerStream LiveTaskIsOpen PruneSettles OnlyAcceptCollides GaplessReplayAgrees
PROPERTIES
  LossIsJournaled
