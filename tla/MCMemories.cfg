CONSTANTS
  QueueKeys <- MCQueueKeys
  Texts <- MCTexts
  Times <- MCTimes
  Step = 12
  MaxRecords = 3
  Keys = {"a", "b", "c", "d"}
  Length <- MCLength
  HitMax = 3
  Size = 3
  MaxTime = 2
SPECIFICATION MCSpec
INVARIANT PlaysWhatWasAsked MemoriesFit
PROPERTY WholePlayEnds FoundOutlivesOlder
