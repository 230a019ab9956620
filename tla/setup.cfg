SPECIFICATION SetupSpec
CONSTANTS
  r1 = r1
  r2 = r2
  r3 = r3
  c1 = c1
  c2 = c2
  h1 = h1
  h2 = h2
  n1 = n1
  n2 = n2
  Requests = {r1, r2, r3}
  Commands = {c1}
  Hosts = {h1, h2}
  HostOf <- OneServer
  Names = {n1, n2}
  MaxFaults = 1
  Agents = {r1, r2}
  Authors = {1, 2}
  MaxMinted = 1
  MaxWritten = 2
  MaxLapses = 1
  Apps = {r1, r2}
  Redirects = {n1, n2}
  Visits = {r1, r2}
  SweepAbove = 1
  MaxCodes = 2
  MaxAccess = 2
  MaxStarts = 2
INVARIANTS InstalledOnce AnswersHold OnlyGrantedWrites AuditFollowsWrites GrantsHold
PROPERTIES KeepsPromises
SYMMETRY Interchangeable
CHECK_DEADLOCK FALSE
