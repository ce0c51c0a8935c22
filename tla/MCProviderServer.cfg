SPECIFICATION Spec
CONSTANTS
  c1 = c1
  c2 = c2
  k1 = k1
  k2 = k2
  x1 = x1
  x2 = x2
  x3 = x3
  BadRequest = BadRequest
  NoCtx = NoCtx
  NoRequest = NoRequest
  Free = Free
  Sweeper = Sweeper
  Conns <- MCConns
  Keys <- MCKeys
  CtxIds <- MCCtxIds
  IdleTicks = 2
  RequestTicks = 1
  SweepTicks = 1
INVARIANTS
  TypeOK
  OneContextPerKey
  InUseIsCached
PROPERTIES
  IdleIsEvicted
  ImplementsWire
CHECK_DEADLOCK FALSE
