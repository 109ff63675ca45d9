SPECIFICATION FairSpec
CONSTANTS
  c1 = c1
  c2 = c2
  Pnp = Pnp
  Others = Others
  None = None
  Clients <- TwoClients
  MaxPowerUps = 2
  LogTimeout = 2
  FinishesEarly = FALSE
CHECK_DEADLOCK FALSE
INVARIANTS
  ContextLifetime
  OneServer
PROPERTIES
  LoggerSettles
  PowerUpEnds
