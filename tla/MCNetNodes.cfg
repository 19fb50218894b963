SPECIFICATION LiveSpec
CONSTANTS
  n1 = n1
  o1 = o1
  o2 = o2
  a1 = a1
  Nodes = {n1}
  NoNode = NoNode
  Openers = {o1, o2}
  Addresses = {a1}
  MaxOutbound = 1
  MaxInbound = 1
  Kinds <- MCKinds
INVARIANTS TypeOK NoUseAfterFree RefsCounted GrantsConserved
PROPERTY InboundDeleted
