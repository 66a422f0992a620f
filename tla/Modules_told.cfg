SPECIFICATION Spec
CONSTANTS
  a = a  b = b  Instances = {a, b}  CrashLimit = 2  MaxConns = 3  HostBounds <- OneAndTwo
  Modules = {a, b}  Packed = {p1, q1}  ModuleUids = {4, 5}  PackageUids = {2}  Slots = {1, 2}  MaxStarts = 2
  Nobody = Nobody  Published <- Names  ReleaseInfo <- Releases  Owner = "menturan"  Firsts <- Own
  MaxFolders = 4  JobScenes <- Cut
  Parts = {"packages"}
INVARIANT PageToldTrue
CHECK_DEADLOCK FALSE
