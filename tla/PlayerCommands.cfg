SPECIFICATION Spec
CONSTANTS
  commandState = commandState
  thread = thread
  Keys <- MCKeys
  Live <- MCLive
  Asks <- MCAsks
  StateKey = commandState
  MaxCommits = 2
  MaxIds = 2
  MaxTries = 2
INVARIANTS
  TypeOK
  OncePerId
  AckedTookEffect
  SentIsRemembered
  AckedIsShown
PROPERTY
  PendingEnds
CHECK_DEADLOCK FALSE
