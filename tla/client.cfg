CONSTANTS
  Uuids = {id1, id2}
  NoUuid = NoUuid
  NoMessage = NoMessage
  Nothing = Nothing
  SeqSpace = 4
  FirstSeqs = {1, 2}
  MaxClicks = 2
  MaxUpdates = 3
SPECIFICATION Spec
CHECK_DEADLOCK FALSE
INVARIANTS ClientInv TakenInOrder InGameSurvives
PROPERTIES UuidStable CatchesUp Exits
