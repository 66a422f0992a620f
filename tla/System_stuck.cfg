SPECIFICATION SystemSpec
CONSTANTS
  MaxVer = 3  MaxPy = 2  RequiresPy <- MCRequiresPy
  Kinds = {"update", "rebuild"}  Interruptions = {"trial"}  MaxInterruptions = 1  Absent = Absent
  home = home  guest = guest  Off = Off  Hotspot = Hotspot  None = None
  MaxBuild = 3  Firmware <- MCFirmware  Tries = 2  OsScenes <- Updates
  Networks = {home, guest}  WifiScenes <- Ways
  Files = {"f", "g"}  MaxCuts = 3
  Parts = {"boots"}
INVARIANT PythonNeverStuck
CHECK_DEADLOCK FALSE
