CONSTANTS
  MaxVer = 2
  MaxPy = 2
  RequiresPy <- MCRequiresPy
  Kinds = {"update"}
  Interruptions = {"restart"}
  MaxInterruptions = 1
  Absent = Absent
SPECIFICATION Spec
INVARIANT ModulesFitApp
