SPECIFICATION FairSpec
CONSTANTS
  MaxChunks = 2
  MaxQueue = 1
  MaxEvents = 1
  Texts = {"safe"}
INVARIANTS WholeRecording NothingLeftBehind
PROPERTIES ImplementsSession BrokenSessionsEnd
CHECK_DEADLOCK FALSE
