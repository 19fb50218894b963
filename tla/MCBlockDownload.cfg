SPECIFICATION Spec
CONSTANTS
  p1 = p1
  p2 = p2
  h1 = h1
  h2 = h2
  Peers = {p1, p2}
  NoPeer = NoPeer
  Blocks = {h1, h2}
  MaxInTransit = 2
  MaxQueued = 1
  Timeout = 0
  Inactivity = 0
INVARIANTS TypeOK QueuesExact 
SYMMETRY MCSymmetry
