CONSTANTS
  Children = 2
  Kind <- MCKind
  MaxRestarts = 2
  Window = 2
  Horizon = 3
  File <- MCFile
  Reversible <- MCReversible
  Opener = {main, other}
  Main = main
  MaxLives = 2
SPECIFICATION MCSpec
INVARIANTS OneIncarnation RestartIntensity NobodyLeftRunning NoneForgotten RecordTrue ServesMigrated
PROPERTIES GiveUpEarned CrashAnswered
CHECK_DEADLOCK FALSE
