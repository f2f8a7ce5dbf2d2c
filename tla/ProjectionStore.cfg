SPECIFICATION StoreSpec
CONSTANTS
  commandState = commandState
  thread = thread
  Keys <- MCKeys
  Live <- MCLive
  Revocable <- MCKeys
  Normalized <- MCNormalized
  Hydrated <- MCLive
  MaxCommits = 1
  MaxAttempts = 3
  MaxEpoch = 2
INVARIANTS
  StoreTypeOK
  ReadyIsFresh
  RevokedStaysPurged
  NoWaitingCircle
PROPERTIES
  ReturnedIsFresh
  NeverOlder
  KeepsViewPromise
CHECK_DEADLOCK FALSE
