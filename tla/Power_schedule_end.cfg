SPECIFICATION PowerSpec
CONSTANTS
  LoopModes = {"interval"}  LoopExtends = {TRUE}  LoopAsks = {0, 1}
  LoopKinds = {"call", "move", "turn"}  LoopHappens = 3  LoopFaults = 0
  Modes = {"manual", "wake"}  Extends = {TRUE}  Timeout = 2  Asks = {0}
  Cec = TRUE  HasTv = TRUE  Drops = {TRUE, FALSE}  Wakers = {w1, w2}
  Kinds = {"call", "move", "remote"}  MaxHappens = 5  MaxFaults = 0
  Parts = {"loop"}
PROPERTY OffOutlastsScheduleEnd
