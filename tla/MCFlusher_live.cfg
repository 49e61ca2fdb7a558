SPECIFICATION FairSpec
CONSTANTS
  r1 = r1
  r2 = r2
  late = late
  m1 = m1
  NoMachine = NoMachine
  Readings = {r1, late}
  Machines = {m1}
  StateOf <- MCStateOf2
  Poison = {late}
  SegmentMaxRecords = 1
  BatchSize = 2
  Capacity = 3
  Faults = {"power"}
  MaxSeq = 2
  MaxGap = 0
PROPERTY EventuallySettled FilesAreFreed
