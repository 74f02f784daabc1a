CONSTANTS
  e1 = e1
  e2 = e2
  acme = acme
  zeta = zeta
  Rows = {1, 2, 3}
  Exporters = {e1, e2}
  Tenants = {acme, zeta}
  TenantOf <- MCTenantOf
  ScopeOf <- MCScopeOf
  Limit = 2
  Sinks = {"platform", "bus", "stub"}
  MaxClock = 1
  MaxFaults = 2
SPECIFICATION FairSpec
CHECK_DEADLOCK FALSE
INVARIANTS
  ExportedWasDelivered PlatformDeliversOnce
PROPERTIES
  HealthyRowsLeave
