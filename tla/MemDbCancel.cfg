CONSTANTS
  Keys = {k1, k2}
  Texts = {yes, no}
  Dangling = dangling
  MaxRules = 3
SPECIFICATION Spec
INVARIANT CancelRestores
