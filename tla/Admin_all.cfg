SPECIFICATION Spec
CONSTANTS
  i1 = i1  i2 = i2  t1 = t1  t2 = t2  Absent = Absent  Broken = Broken  Cold = Cold  SettingsScenes <- AllScenes
  GpioHeader = {p2, p17}  I2CPins = {p2}  Wired = {"button", "fan"}  Users = {i1, i2}  Savers = {s1}
  Nowhere = Nowhere  PinScenes <- Wirings
  Photos = {"p", "q", "r"}  FileNames <- ThreeNames  MaxFiles = 2  FilesScenes <- Uploads
  Askers = {1, 2}  Processes = {1, 2}  Idle = 2  MaxInstalls = 1
  Bounce = 2  PressWindow = 4  Long = 7  Horizon = 25  Sensors = {"pir"}  InputScenes <- Hands
  FormRows <- NoRows  FormBoxes = {"x", "y"}  FormTexts = {"a", "b"}  FormMaximum = 2  MaxRows = 3  MaxEdits = 2
  FetchTasks = {"loop", "on_shown"}  MaxAge = 2  KeepRunning = FALSE  MaxTime = 9
  Guarded = {a, b}  Clocks = {}  CrashWindow = 2  Grace = 1  Cause = a  Soon = 1  AtRest = FALSE
  MaxSaid = 1  MaxChanges = 1  MaxRestarts = 1  MaxFaults = 1  MaxMishaps = 2
  Parts = {"settings", "forms", "pins", "files", "drawer", "inputs", "fetch", "guard"}
INVARIANTS SettingsFit ShownIsSaved WiringIsSaved ThumbIsOwn AnswersAreNew GesturesAsMade LastGoodShown NoFalseCrash
PROPERTY OthersKept
CHECK_DEADLOCK FALSE
