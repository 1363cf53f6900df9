SPECIFICATION Spec
CONSTANTS
  f1 = f1
  f2 = f2
  Fields = {f1, f2}
  NoField = NoField
  MaxTickets = 2
  MaxStarts = 1
  MaxSignals = 1
  MaxFaults = 2
  MaxEvents = 1
  NotifyWorks = TRUE
  Moves = {"command", "focus"}
  PreviewTexts = {}
  FinalTexts = {"safe"}
INVARIANTS DeliveredOnceWhereBegun
PROPERTIES ImplementsGrant
SYMMETRY Symmetry
CONSTRAINT Elsewhere
