CONSTANTS
  Records <- MCRecords
  MaxBuffer = 8
  MaxFields = 3
  WireSize = 3
  Blank = Blank
  NoFields = NoFields
  TMAX = 100000
  Keys = {"a", "b", "c"}
  Length <- MCLength
  HitMax = 1
  EndOf <- MCEndOf
  Listed <- MCListed
  Size = 2
  MaxTime = 3
  MaxChecks = 1
SPECIFICATION AnswersSpec
INVARIANT EndsInTime
PROPERTY ImplementsFifo AnswersArrive
