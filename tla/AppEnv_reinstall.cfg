CONSTANTS
  MaxVer = 2
  MaxPy = 2
  RequiresPy <- MCRequiresPy
  Kinds = {"update", "rebuild"}
  Interruptions = {"power"}
  MaxInterruptions = 1
  Absent = Absent
SPECIFICATION Spec
INVARIANT SafeModeCanReinstall
