CONSTANTS
  Clients = {c, a, b}
  AgentClients = {a, b}
  NoClient = NoClient
  k1 = k1
  k2 = k2
  Keys = {k1, k2}
  AtKey <- MCAtKey
  AgentNames = {"n"}
  Cells = {s1, s2}
  Free = Free
  MaxDepth = 2
  Watched = {c, a, b}
SPECIFICATION Spec
INVARIANT NoDanglingCheck AnsweredOnce CachedDirectIsCurrent NestingIsBounded
SYMMETRY Symmetry
