SPECIFICATION FlusherSpec
SYMMETRY MCSymmetry
CONSTANTS
  r1 = r1
  r2 = r2
  late = late
  m1 = m1
  NoMachine = NoMachine
  Readings = {r1, r2, late}
  Machines = {m1}
  StateOf <- MCStateOf
  Poison = {late}
  SegmentMaxRecords = 1
  BatchSize = 2
  Capacity = 2
  Faults = {"process", "space", "unlink", "fsync"}
  MaxSeq = 3
  MaxGap = 0
INVARIANTS WrittenOnce NothingLost CheckpointCoversSettled
