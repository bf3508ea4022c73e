SPECIFICATION Spec
CONSTANTS
  Node = {n1}
  Addr = {a1, a2}
  Token = {t1, t2}
  NoAddr = NoAddr
  Group = Group
  Buffers = 5
  StackMax = 1
  MaxRetransmit = 1
SYMMETRY Symmetry
INVARIANTS TypeOK GatewayIsServed UnicastToServed BufferAccounting
PROPERTIES ImplementsDelivery
