SPECIFICATION FairSpec
CONSTANTS
  Node = {n1}
  Addr = {a1}
  Token = {t1}
  NoAddr = NoAddr
  Group = Group
  Buffers = 4
  StackMax = 0
  MaxRetransmit = 1
PROPERTIES PushReturns ExchangeEnds GatewayFound ReportsArrive
