CONSTANTS
  Clients = {c, a}
  AgentClients = {a}
  Host = a
  NoClient = NoClient
  k1 = k1
  Keys = {k1}
  AtKey <- MCAtKey
  AgentNames = {"n"}
  Cells = {s1, s2}
  Free = Free
  MaxDepth = 2
  Watched = {}
  QueryCount = 3
  SubIds = {1, 2, 3}
  Idle = Idle
  RuleChanges = {"no", "n"}
SPECIFICATION LSpec
INVARIANT OneReplyPerAsk AnswersToTheirProgram
PROPERTY ChecksAreAnswered
