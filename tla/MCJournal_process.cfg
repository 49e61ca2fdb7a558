SPECIFICATION Spec
SYMMETRY MCSymmetry
CONSTANTS
  r1 = r1
  r2 = r2
  late = late
  m1 = m1
  NoMachine = NoMachine
  Readings = {r1, r2, late}
  Machines = {m1}
  StateOf <- MCStateOf
  SegmentMaxRecords = 2
  BatchSize = 2
  Capacity = 3
  Faults = {"process", "clock", "unlink"}
  MaxSeq = 4
  MaxGap = 1
INVARIANTS NothingSkipped FilesInOrder BaselineKept
