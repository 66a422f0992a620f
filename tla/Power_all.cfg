SPECIFICATION PowerFairSpec
CONSTANTS
  LoopModes = {"interval", "wake"}  LoopExtends = {TRUE, FALSE}  LoopAsks = {0, 1}
  LoopKinds = {"call", "move", "turn", "save", "restart"}  LoopHappens = 3  LoopFaults = 1
  Modes = {"wake"}  Extends = {TRUE}  Timeout = 2  Asks = {0}
  Cec = TRUE  HasTv = TRUE  Drops = {TRUE, FALSE}  Wakers = {w1, w2}
  Kinds = {"call", "remote", "restart"}  MaxHappens = 3  MaxFaults = 1
  Parts = {"loop", "tv"}
INVARIANTS BelievedIsSo TvIsAsMeant
PROPERTIES OffStands LitWhenMeant
