SPECIFICATION Spec
CONSTANTS
  Machines = {"a", "b"}
  Feeds <- Shuffled
  Ignored <- MCIgnored
  Faults = {"power", "space", "fsync", "database", "late"}
  MaxLog = 3
INVARIANTS TypeOK LetGoIsKept TimesInOrder
