CONSTANTS
  Keys = {k1, k2}
  Values = {yes, no}
  FirstValue = yes
  Missing = missing
  Fresh = fresh
  Unreadable = unreadable
  MayFail = TRUE
SPECIFICATION MCSpec
SYMMETRY Symmetry
INVARIANT SavedIsOnDisk StopLosesNothingWritten BackupsReadable FirstCancelRestores
PROPERTY DecisionsSurviveGc
