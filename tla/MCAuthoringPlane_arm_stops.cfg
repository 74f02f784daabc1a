CONSTANTS
  builder = builder
  other = other
  Agents = {builder, other}
  Builder = builder
  AuthoringAgents = {builder}
  NoAgent = NoAgent
  Pendings <- MCPendings
  NextLeaf <- MCNextLeaf
  Coarse <- MCCoarse
  CommitReady = {}
  SoleContinue = {}
  Blocks <- MCBlocks
  Results <- MCResults
  Lookback = 2
SPECIFICATION ArmedSpec
PROPERTY
  ArmStopsStrandings
