CONSTANTS
  pair = pair
  Requests = {r1, r2}
  Pairs = {pair}
  PairOf <- MCPairOf
  Workers = {w1, w2}
  NoRequest = NoRequest
SPECIFICATION FairSpec
INVARIANTS OneOpenPerPair GateKept NoticesTrue AcceptedFirst
PROPERTIES ImplementsLifecycle ResponseEnds
