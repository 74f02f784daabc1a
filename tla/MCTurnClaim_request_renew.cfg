CONSTANTS
  t1 = t1
  t2 = t2
  NoTurn = NoTurn
  Turns = {t1, t2}
  Ttl = 5
  OrphanTtl = 3
  Beat = 1
  MaxWait = 1
  RunLimit = 5
  RequestRenew = {t1, t2}
  HandOver = {}
  Stoppable = {}
  Faults = {}
SPECIFICATION Spec
INVARIANTS
  HolderKeepsClaim
