SPECIFICATION Spec
CONSTANTS
  i = i
  p1 = p1
  p2 = p2
  p3 = p3
  p4 = p4
  s1 = s1
  s2 = s2
  s3 = s3
  NoProc = NoProc
  Init1 = i
  Procs <- MCProcs5
  Snapshots <- MCSnapshots3
  Modes <- MCModes
SYMMETRY MCSymmetry5
INVARIANTS
  OneRunnableReader
  MemoryFaithful
PROPERTY
  CommandsReach
CHECK_DEADLOCK FALSE
