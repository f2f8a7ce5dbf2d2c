SPECIFICATION Spec
CONSTANTS
  None = None
  k1 = k1
  k2 = k2
  k3 = k3
  p1 = p1
  p2 = p2
  streamKey = streamKey
  column = column
  Keys <- MCKeys
  Processes <- MCProcesses
  StreamKeys <- MCStreamKeys
  Directs <- MCDirects
  Rings <- MCRings
  BatchSize = 1
INVARIANTS
  TypeOK
  RehearsalHolds
  TargetWritable
  ReadyReads
  NoDeadlock
PROPERTY
  SealsAreFenced
SYMMETRY Sessions
