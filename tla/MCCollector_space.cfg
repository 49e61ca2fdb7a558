SPECIFICATION Spec
CONSTANTS
  Machines = {"a"}
  Feeds <- SameSecond
  Ignored <- MCIgnored
  Faults = {"process", "space"}
  MaxLog = 4
INVARIANT ReplayAddsNothing
