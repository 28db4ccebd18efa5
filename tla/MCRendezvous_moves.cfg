\* One peer: a move, a further one announced ahead, and its contradiction.
SPECIFICATION FairSpec
CONSTANTS
  q = q
  gi = gi
  f1 = f1
  f2 = f2
  x2 = x2
  None = None
  Peers = {q}
  Transitions = {f1, f2, x2}
  Genesis <- MCGenesis
  PorterOf <- MCPorterOf
  PredecessorOf <- MCPredecessorOf
  GenerationOf <- MCGenerationOf
  ActivatesAt <- MCActivatesAt
  Receivers = {r1, r2}
  Carrier = Carrier
  MaxTime = 1
INVARIANTS
  RendezvousInv
  ForkSuspends
PROPERTY
  MovementIsKnown
