SPECIFICATION Spec
CONSTANTS
  f1 = f1
  f2 = f2
  f3 = f3
  NoField = NoField
  Fields = {f1, f2, f3}
  Secret = {f3}
  MaxKeys = 2
  Backlog = 2
  ListSize = 3
  PageSize = 2
  MaxIndex = 2
  MaxWalk = 2
  MaxDeaths = 1
INVARIANTS KeyboardTypeOK SecretsStay EnteredOnce PreeditOwned ChosenWasShown ChoiceReached
PROPERTIES PageStays
