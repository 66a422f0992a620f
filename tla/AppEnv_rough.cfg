CONSTANTS
  MaxVer = 2
  MaxPy = 2
  RequiresPy <- MCRequiresPy
  Kinds = {"update", "rebuild", "modules"}
  Interruptions = {"power", "kill", "restart", "host", "disk", "late", "trial"}
  MaxInterruptions = 2
  Absent = Absent
SPECIFICATION FairSpec
INVARIANTS LaunchFindsVenv PythonsKept
PROPERTIES GoodVersionKept AlwaysUpAgain
CHECK_DEADLOCK FALSE
