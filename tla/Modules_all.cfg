SPECIFICATION FairSpec
CONSTANTS
  a = a  b = b  Instances = {a, b}  CrashLimit = 2  MaxConns = 3  HostBounds <- OneAndTwo
  Modules = {a, b}  Packed = {p1, q1}  ModuleUids = {4, 5}  PackageUids = {2}  Slots = {1, 2}  MaxStarts = 2
  Nobody = Nobody  Published <- Names  ReleaseInfo <- Releases  Owner = "menturan"  Firsts <- Own
  MaxFolders = 4  JobScenes <- Jobs
  Parts = {"host", "forks", "packages"}
INVARIANTS SandboxHolds UsersAreOwn SiteIsSound
PROPERTIES StopsOnlyChanged SettingsApplied
CHECK_DEADLOCK FALSE
