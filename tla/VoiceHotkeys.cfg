SPECIFICATION Spec
CONSTANTS
  f1 = f1
  f2 = f2
  Fields = {f1}
  NoField = NoField
  MaxTickets = 2
  MaxStarts = 1
  MaxSignals = 2
  MaxFaults = 0
  MaxEvents = 1
  NotifyWorks = TRUE
  Moves = {"alt", "space"}
  PreviewTexts = {}
  FinalTexts = {"safe"}
INVARIANTS TypeOK HoldEnds WayBack SilentWhenDone ReportAgrees
