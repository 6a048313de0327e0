CONSTANTS
  p1 = p1
  p2 = p2
  e1 = e1
  e2 = e2
  x1 = x1
  x2 = x2
  Proc = {p1, p2}
  Engine = {e1, e2}
  EngineOf <- MCOwn
  Mixing = FALSE
  Tx = {x1, x2}
  MaxConns = 2
  MaxDepth = 2
  NoTx = NoTx
  NoProc = NoProc
SPECIFICATION FairSpec
INVARIANTS
  WithTxAtomic
  StatementsInside
  HookOutside
PROPERTIES
  CallsReturn
