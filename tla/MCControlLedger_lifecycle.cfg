CONSTANTS
  bot0 = bot0
  builder = builder
  editor = editor
  drafting = drafting
  build = build
  handoff = handoff
  buildRef = buildRef
  stageRef = stageRef
  otherRef = otherRef
  Agents = {bot0, builder, editor}
  Bot0 = bot0
  NoAgent = NoAgent
  Kinds = {drafting, build, handoff}
  NoKind = NoKind
  KindOwner <- MCKindOwner
  AgentKind <- MCAgentKind
  DraftingKind = drafting
  SeedKinds = {drafting, build}
  AuthoringAgents = {builder, editor}
  Refs = {buildRef, stageRef, otherRef}
  NoRef = NoRef
  RefObject <- MCRefObject
  RefConv <- MCRefObject
  HandoffRef <- MCHandoffRef
  Cmds = {"c1"}
  NoCmd = NoCmd
  BeginArgs <- LifecycleBegins
  PhaseArgs <- LifecyclePhases
  Proposals <- LifecycleProposals
  HandoffTargets = {builder}
  Questions = TRUE
  SuspendReasons = {"other"}
  EndReasons = {"task_completed"}
  Enders = {bot0, builder, editor}
  SummaryAgents = {builder, editor}
  StaleTaskIds = TRUE
  TaskHorizon = 0
  SwitchTtl = 0
  MaxRevision = 4
  MaxClock = 1
SPECIFICATION Spec
CHECK_DEADLOCK FALSE
INVARIANTS
  TypeOK SummaryMatchesOwner AcceptedWasProposed PausedAreJournaled
PROPERTIES
  NoStolenCompletion RevisionCoversControl ParkedSeedIsInherited
