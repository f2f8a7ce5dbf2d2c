SPECIFICATION Spec
CONSTANTS
  w1 = w1
  w2 = w2
  v1 = v1
  v2 = v2
  c1 = c1
  NoOne = NoOne
  Writers = {w1}
  Voters = {v1, v2}
  Candidates = {c1}
  Commands <- CursorCommands
  Capacity = 1
  MaxCommits = 2
  MaxFaults = 0
INVARIANTS
  CursorToldOf
CHECK_DEADLOCK FALSE
