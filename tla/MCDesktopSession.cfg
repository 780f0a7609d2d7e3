SPECIFICATION Spec
CONSTANTS
  ui = ui
  engine = engine
  c1 = c1
  c2 = c2
  c3 = c3
  Callers = {ui, engine}
  Engine = engine
  Clients = {c1, c2, c3}
  MaxLogins = 2
  MaxExpiries = 1
  MaxFaults = 2
  None = None
CHECK_DEADLOCK FALSE
INVARIANT TypeOK
INVARIANT ReuseExplained
INVARIANT RotationsEarned
INVARIANT SecretsKept
INVARIANT WsOwned
INVARIANT WsNewest
