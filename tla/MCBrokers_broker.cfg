\* The agent proxy or the MCP broker: two connections, two starts.
SPECIFICATION Spec
CONSTANTS
  c1 = c1
  c2 = c2
  Conns <- TwoConns
  Tools <- TwoTools
  MaxRequests = 2
  MaxRuns = 2
  Services <- OneService
  ServiceOf <- Owner
  Cursors <- TwoCursors
  MaxChanges = 1
INVARIANT TypeOK
PROPERTY AuditedFirst
PROPERTY DriftVisible
PROPERTY RequestsEnd
CHECK_DEADLOCK FALSE
