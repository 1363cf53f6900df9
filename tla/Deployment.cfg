SPECIFICATION Spec
CONSTANTS
  hand = hand
  smart = smart
  unitFile = unitFile
  library = library
  Keys = {hand, smart}
  Values = {0, 1, 2}
  Smart = smart
  Off = 0
  On = 1
  NoConfig = NoConfig
  NoPref = NoPref
  MaxOpens = 1
  MaxChanges = 1
  MaxFaults = 2
  Files = {unitFile, library}
  UnitFile = unitFile
  MaxMeddling = 1
  MaxTrouble = 1
CONSTRAINT Apart
INVARIANTS NothingOrphaned
PROPERTIES WritesAlone OthersKept AppliedMeansEffective StoppedForAReason SucceedsUndisturbed NothingForeignTouched
