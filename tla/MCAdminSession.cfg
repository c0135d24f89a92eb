CONSTANTS
  Magics = {c1, c2, c3}
  NoOne = NoOne
  k1 = k1
  yes = yes
  Keys = {k1}
  Values = {yes}
  None = None
  ChangeIdModulus = 3
  MaxQueue = 2
  Handles = {h}
  NoLink = NoLink
  Plans <- MCPlans
  OtherWrites <- MCOtherWrites
SPECIFICATION SessionSpec
INVARIANT SessionTypeOK LockAgreement QueueIsLockers AllOrNothing
PROPERTY FirstComeFirstServed ChangesAnnounced ReportIsTrue ImplementsAtomicUpdates ScriptsEnd WaitersEnd
