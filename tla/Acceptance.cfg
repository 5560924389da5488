\* Three requests and one worker.
SPECIFICATION AcceptSpec
CONSTANTS
  Files = {1, 2}
  Parts <- PartsDef
  MaxUploads = 3
  Workers = {w1}
INVARIANTS
  EveryUploadIsTried
  LaterFileWins
CHECK_DEADLOCK FALSE
