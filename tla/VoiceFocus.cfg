SPECIFICATION Spec
CONSTANTS
  f1 = f1
  f2 = f2
  Fields = {f1, f2}
  NoField = NoField
  MaxTickets = 1
  MaxStarts = 1
  MaxSignals = 1
  MaxFaults = 0
  MaxEvents = 1
  NotifyWorks = TRUE
  Moves = {"alt", "focus", "sensitive", "modifier", "config", "type", "expire", "reset"}
  PreviewTexts = {"safe"}
  FinalTexts = {"safe"}
INVARIANTS StartsWhereAsked HoldEnds NoStrayTicket PreviewOwned ReportAgrees
PROPERTIES DeliversUndisturbed
SYMMETRY Symmetry
CONSTRAINT OneByOne
