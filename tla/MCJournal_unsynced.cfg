SPECIFICATION Spec
CONSTANTS
  r1 = r1
  r2 = r2
  late = late
  m1 = m1
  NoMachine = NoMachine
  Readings = {r1, r2, late}
  Machines = {m1}
  StateOf <- MCStateOf
  SegmentMaxRecords = 2
  BatchSize = 2
  Capacity = 3
  Faults = {"process", "power"}
  MaxSeq = 4
  MaxGap = 0
INVARIANT AcceptedIsKept
