SPECIFICATION AllSpec
CONSTANTS
  n1 = n1
  n2 = n2
  NoNode = NoNode
  Nodes = {n1, n2}
  Plans <- MCPlans
  Policies = {"DEFAULT", "DOWNGRADING"}
  Keyspaces = {"k1", "k2"}
  Replication = 2
  MaxUnprepared = 1
  MaxRounds = 1
  MaxOthers = 1
  r1 = r1
  r2 = r2
  w1 = w1
  w2 = w2
  h1 = h1
  h2 = h2
  NULL = NULL
INVARIANTS InFlightFinishes AnsweredOnce RanInCurrentKeyspace RetriesSafe
PROPERTIES SessionCompletes RequestAnswered
