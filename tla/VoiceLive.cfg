SPECIFICATION FairSpec
CONSTANTS
  f1 = f1
  f2 = f2
  Fields = {f1}
  NoField = NoField
  MaxTickets = 1
  MaxStarts = 1
  MaxSignals = 1
  MaxFaults = 1
  MaxEvents = 1
  NotifyWorks = TRUE
  Moves = {"type", "command"}
  PreviewTexts = {}
  FinalTexts = {"safe"}
PROPERTIES DictationEnds MicCloses
