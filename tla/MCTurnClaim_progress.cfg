CONSTANTS
  t1 = t1
  t2 = t2
  NoTurn = NoTurn
  Turns = {t1, t2}
  Ttl = 2
  OrphanTtl = 2
  Beat = 1
  MaxWait = 1
  RunLimit = 9
  RequestRenew = {t2}
  HandOver = {}
  Stoppable = {}
  Faults = {"renew", "release", "crash"}
SPECIFICATION FairSpec
PROPERTIES
  EveryAskerRuns OnlyHolderWrites
