\* A dictation with and without the organizer; the session ends, so TLC may stop.
SPECIFICATION FairSpec
CONSTANTS
    MaxBlocks = 4
    Written <- WrittenDef
INVARIANTS TextAccounted CancelWins
PROPERTIES AskedEnds
CHECK_DEADLOCK FALSE
