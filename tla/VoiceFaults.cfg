SPECIFICATION Spec
CONSTANTS
  f1 = f1
  f2 = f2
  Fields = {f1}
  NoField = NoField
  MaxTickets = 2
  MaxStarts = 2
  MaxSignals = 1
  MaxFaults = 2
  MaxEvents = 2
  NotifyWorks = TRUE
  Moves = {"command", "shutdown"}
  PreviewTexts = {"safe"}
  FinalTexts = {"safe"}
INVARIANTS PreviewOwned WayBack EventsInOrder
