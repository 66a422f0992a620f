SPECIFICATION Spec
CONSTANTS
  a = a  b = b  a1 = a1  a2 = a2  b1 = b1  Played = {a, b}  Conns = {a1, a2, b1}  InstanceOf <- Two  Screens <- StuckScreen
  radio = radio  Watched = {radio, clock}  FirstConfigs <- Marked  MaxMoves = 2  MaxDeaths = 1
  Windowed = {w1, w2}  Requests = {1, 2}  Rates = {50, 60}  Normal = 60  MaxBlocks = 3  MaxCrashes = 1
  Parts = {"screen"}
INVARIANT EndedIsAlwaysServed
CHECK_DEADLOCK FALSE
