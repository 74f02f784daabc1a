CONSTANTS
  t1 = t1
  t2 = t2
  t3 = t3
  NoTurn = NoTurn
  Turns = {t1, t2, t3}
  Ttl = 3
  OrphanTtl = 3
  Beat = 1
  MaxWait = 1
  RunLimit = 3
  RequestRenew = {}
  HandOver = {t3}
  Stoppable = {t1, t2}
  Faults = {"claim", "release", "crash"}
SPECIFICATION Spec
INVARIANTS
  NoSelfBlock
