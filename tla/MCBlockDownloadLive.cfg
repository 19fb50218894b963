SPECIFICATION LiveSpec
CONSTANTS
  p1 = p1
  p2 = p2
  h1 = h1
  h2 = h2
  Peers = {p1}
  NoPeer = NoPeer
  Blocks = {h1, h2}
  MaxInTransit = 1
  MaxQueued = 1
  Timeout = 1
  Inactivity = 0
PROPERTY StallEnds
