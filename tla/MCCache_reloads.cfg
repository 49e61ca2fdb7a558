SPECIFICATION Spec
CONSTANTS
  ApiKeys = {k, x}
  Values = {"A"}
  Period <- MCPeriod
  QueryTime = 2
  NegativeTtl = 2
  MaxNegative = 1
  MaxClock = 5
  MaxChanges = 2
  MaxReloads = 1
INVARIANTS TypeOK CachedWasSo RefusedWasUnknown
SYMMETRY Symmetric
CHECK_DEADLOCK FALSE
