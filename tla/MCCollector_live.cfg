SPECIFICATION FairSpec
CONSTANTS
  Machines = {"a"}
  Feeds <- OneMachine
  Ignored <- MCIgnored
  Faults = {"process", "forget", "full", "fsync"}
  MaxLog = 4
INVARIANTS CountedOnce ReplayAddsNothing
PROPERTY EventuallyLetGo
