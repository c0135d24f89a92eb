CONSTANTS
  Keys = {k1, k2}
  Values = {yes}
  Ids = {i1, i2}
  SyncId = SyncId
  Agent = Agent
  Clear = Clear
  NoCall = NoCall
  None = None
  MaxInFlight = 2
SPECIFICATION Spec
INVARIANT AsyncAnswerIsOwn SyncAnswerIsOwnUnlessCancelled PendingIsAlive CacheIsCurrent
SYMMETRY Symmetry
