------------------------------- MODULE MCAdmin ------------------------------
(***************************************************************************)
(* What the Dashboard's requests and the owner's hand change: the settings  *)
(* file, the forms, the wiring, the modules' files, the drawer's questions, *)
(* the button, a module's fetches and what the crash guard holds.  Each has *)
(* its own state: a behaviour is of one of them.                            *)
(***************************************************************************)
EXTENDS Naturals, FiniteSets, Sequences

CONSTANTS i1, i2, t1, t2, Absent, Broken, Cold, SettingsScenes,          \* Settings'
          FormBoxes, FormTexts, FormRows, FormMaximum, MaxRows, MaxEdits, \* Forms'
          GpioHeader, I2CPins, Wired, Users, Savers, Nowhere, PinScenes, \* Pins'
          Photos, FileNames, MaxFiles, FilesScenes,                      \* Files'
          Askers, Processes, Idle, MaxInstalls,                          \* Drawer's
          Bounce, PressWindow, Long, Horizon, Sensors, InputScenes,      \* Inputs'
          FetchTasks, MaxAge, KeepRunning, MaxTime,                      \* Fetch's
          Guarded, Clocks, CrashWindow, Grace, Cause, Soon, AtRest, MaxSaid, MaxChanges, MaxRestarts, MaxFaults,
          MaxMishaps                                                     \* CrashGuard's

CONSTANT Parts  \* the components a configuration checks, of "settings", "forms", "pins", "files", "drawer", "inputs", "fetch", "guard"

VARIABLES
  part,  \* which of them the behaviour is one of
  file, bak, settings_cache, settings_boot, phase, settings_task, backup, settings_scene, used, shown, reverted, left, trusted,
  forms_saved, forms_page, forms_asked, edits, forms_stale,
  pins_saved, card, pins_boot, active, change, line, user, slip, pins_may,
  folder, thumbs, half, files_task, todo, files_scene,
  code, reloaded, host, instance, table, timer, proc, ask,
  inputs_now, finger, contact, kernel, button, polls, told, hand, there, opened, presence, seen, inputs_may,
  fetch_now, awake, fetch_cache, fetch_task, called, good,
  instances, enabled, layers, rank, level, paused, crashed, stepped, known, crashguard_stale, crashguard_asked,
  played, reloads, crashguard_page, said, up, blamed, changes, restarts, faults

SettingsVars == <<file, bak, settings_cache, settings_boot, phase, settings_task, backup, settings_scene, used, shown, reverted,
                  left, trusted>>
FormsVars == <<forms_saved, forms_page, forms_asked, edits, forms_stale>>
PinsVars == <<pins_saved, card, pins_boot, active, change, line, user, slip, pins_may>>
FilesVars == <<folder, thumbs, half, files_task, todo, files_scene>>
DrawerVars == <<code, reloaded, host, instance, table, timer, proc, ask>>
InputsVars == <<inputs_now, finger, contact, kernel, button, polls, told, hand, there, opened, presence, seen,
                inputs_may>>
FetchVars == <<fetch_now, awake, fetch_cache, fetch_task, called, good>>
CrashGuardVars == <<instances, enabled, layers, rank, level, paused, crashed, stepped, known, crashguard_stale,
                    crashguard_asked, played, reloads, crashguard_page, said, up, blamed, changes, restarts, faults>>

\* Four places on the header, each for a device of its own.
Header == {[type |-> "button", at |-> 2], [type |-> "light", at |-> 35], [type |-> "fan", at |-> 14],
           [type |-> "pwm_fan", at |-> 15]}

Settings == INSTANCE Settings WITH
  cache <- settings_cache, boot <- settings_boot, task <- settings_task, scene <- settings_scene,
  Instances <- {i1, i2}, Devices <- Header, Slots <- {t1, t2}, Scenes <- SettingsScenes
Forms == INSTANCE Forms WITH
  saved <- forms_saved, page <- forms_page, asked <- forms_asked, stale <- forms_stale, Boxes <- FormBoxes,
  Texts <- FormTexts, Default <- FormRows, Maximum <- FormMaximum
Pins == INSTANCE Pins WITH
  saved <- pins_saved, boot <- pins_boot, may <- pins_may, Header <- GpioHeader
Files == INSTANCE Files WITH
  task <- files_task, scene <- files_scene, Names <- FileNames, Scenes <- FilesScenes
Drawer == INSTANCE Drawer WITH
  Slots <- Processes
Inputs == INSTANCE Inputs WITH
  now <- inputs_now, may <- inputs_may, Window <- PressWindow
Fetch == INSTANCE Fetch WITH
  now <- fetch_now, cache <- fetch_cache, task <- fetch_task, Tasks <- FetchTasks
CrashGuard == INSTANCE CrashGuard WITH
  stale <- crashguard_stale, asked <- crashguard_asked, page <- crashguard_page, Names <- Guarded,
  Window <- CrashWindow

\* What a behaviour is not one of stays 0.
Init ==
  /\ part \in Parts
  /\ IF part = "settings" THEN Settings!Init
     ELSE file = 0 /\ bak = 0 /\ settings_cache = 0 /\ settings_boot = 0 /\ phase = 0 /\ settings_task = 0
          /\ backup = 0 /\ settings_scene = 0 /\ used = 0 /\ shown = 0 /\ reverted = 0 /\ left = 0 /\ trusted = 0
  /\ IF part = "forms" THEN Forms!Init
     ELSE forms_saved = 0 /\ forms_page = 0 /\ forms_asked = 0 /\ edits = 0 /\ forms_stale = 0
  /\ IF part = "pins" THEN Pins!Init
     ELSE pins_saved = 0 /\ card = 0 /\ pins_boot = 0 /\ active = 0 /\ change = 0 /\ line = 0 /\ user = 0 /\ slip = 0
          /\ pins_may = 0
  /\ IF part = "files" THEN Files!Init
     ELSE folder = 0 /\ thumbs = 0 /\ half = 0 /\ files_task = 0 /\ todo = 0 /\ files_scene = 0
  /\ IF part = "drawer" THEN Drawer!Init
     ELSE code = 0 /\ reloaded = 0 /\ host = 0 /\ instance = 0 /\ table = 0 /\ timer = 0 /\ proc = 0 /\ ask = 0
  /\ IF part = "inputs" THEN Inputs!Init
     ELSE inputs_now = 0 /\ finger = 0 /\ contact = 0 /\ kernel = 0 /\ button = 0 /\ polls = 0 /\ told = 0 /\ hand = 0
          /\ there = 0 /\ opened = 0 /\ presence = 0 /\ seen = 0 /\ inputs_may = 0
  /\ IF part = "fetch" THEN Fetch!Init
     ELSE fetch_now = 0 /\ awake = 0 /\ fetch_cache = 0 /\ fetch_task = 0 /\ called = 0 /\ good = 0
  /\ IF part = "guard" THEN CrashGuard!Init
     ELSE instances = 0 /\ enabled = 0 /\ layers = 0 /\ rank = 0 /\ level = 0 /\ paused = 0 /\ crashed = 0
          /\ stepped = 0 /\ known = 0 /\ crashguard_stale = 0 /\ crashguard_asked = 0 /\ played = 0 /\ reloads = 0
          /\ crashguard_page = 0 /\ said = 0 /\ up = 0 /\ blamed = 0 /\ changes = 0 /\ restarts = 0 /\ faults = 0
Next ==
  \/ part = "settings" /\ Settings!Next /\ UNCHANGED <<part, FormsVars, PinsVars, FilesVars, DrawerVars, InputsVars, FetchVars, CrashGuardVars>>
  \/ part = "forms" /\ Forms!Next /\ UNCHANGED <<part, SettingsVars, PinsVars, FilesVars, DrawerVars, InputsVars, FetchVars, CrashGuardVars>>
  \/ part = "pins" /\ Pins!Next /\ UNCHANGED <<part, SettingsVars, FormsVars, FilesVars, DrawerVars, InputsVars, FetchVars, CrashGuardVars>>
  \/ part = "files" /\ Files!Next /\ UNCHANGED <<part, SettingsVars, FormsVars, PinsVars, DrawerVars, InputsVars, FetchVars, CrashGuardVars>>
  \/ part = "drawer" /\ Drawer!Next /\ UNCHANGED <<part, SettingsVars, FormsVars, PinsVars, FilesVars, InputsVars, FetchVars, CrashGuardVars>>
  \/ part = "inputs" /\ Inputs!Next /\ UNCHANGED <<part, SettingsVars, FormsVars, PinsVars, FilesVars, DrawerVars, FetchVars, CrashGuardVars>>
  \/ part = "fetch" /\ Fetch!Next /\ UNCHANGED <<part, SettingsVars, FormsVars, PinsVars, FilesVars, DrawerVars, InputsVars, CrashGuardVars>>
  \/ part = "guard" /\ CrashGuard!Next /\ UNCHANGED <<part, SettingsVars, FormsVars, PinsVars, FilesVars, DrawerVars, InputsVars, FetchVars>>
vars == <<part, SettingsVars, FormsVars, PinsVars, FilesVars, DrawerVars, InputsVars, FetchVars, CrashGuardVars>>

Spec == Init /\ [][Next]_vars

ASSUME AdminAssumption ==
  /\ Settings!SettingsAssumption /\ Forms!FormsAssumption /\ Pins!PinsAssumption /\ Files!FilesAssumption
  /\ Drawer!DrawerAssumption /\ Inputs!InputsAssumption /\ Fetch!FetchAssumption /\ CrashGuard!CrashGuardAssumption

-----------------------------------------------------------------------------
(* Each property of a component, of that component's behaviours.           *)

\* Settings: what is shared has an instance, the helper takes every wiring that is saved, and the newest recovery
\* code shown works, but for one that a wiring's older settings or the last good copy bring back (mqtt shares,
\* validate_devices, setup_auth, recover_auth).
SettingsFit == part = "settings" => Settings!SettingsFit /\ Settings!ShownCodeWorks
\* Forms: a page just drawn or saved shows what the instance runs with (schema_form.html, parse_settings).
ShownIsSaved == part = "forms" => Forms!ShownIsSaved
\* Pins: at rest the card, the firmware and the modules' lines fit the devices saved, and no line is lost
\* (sync_gpio_overlays, free_pins, fd_arrived).
WiringIsSaved == part = "pins" => Pins!WiringIsSaved /\ Pins!NoLineLost
\* Files: a small copy is of the photo of its name, through uploads, deletions and cuts (module files).
ThumbIsOwn == part = "files" => Files!ThumbIsOwn
\* Drawer: a question is answered by code as new as the modules' last reload before it (settings_process.py).
AnswersAreNew == part = "drawer" => Drawer!AnswersAreNew
\* Inputs: each gesture is told once, as it was made, and presence is what the sensors show (inputs.py).
GesturesAsMade == part = "inputs" => Inputs!GesturesAsMade
\* Fetch: an answer has the last good data, and one without an error is younger than the interval (fetch.py).
LastGoodShown == part = "fetch" => Fetch!LastGoodShown
\* CrashGuard: only a load of the page that nobody asked for is a crash, whatever was lost or restarted (page_loaded).
NoFalseCrash == part = "guard" => CrashGuard!TypeOK /\ CrashGuard!NoFalseCrash
\* What others wrote stays: a request that waits for a hash, the helper or an installation saves its own and, if it is a
\* wiring or SSH, what it had loaded before, and no start loads the defaults while a copy that reads is there (config.py);
\* no upload replaces a file, also one the module just put there itself (store); and what the crash guard paused stays so
\* until the owner lets it go (after_crash, release).
OthersKept == [][/\ part = "settings" => Settings!SavesOwn /\ Settings!UsesGoodCopy
                 /\ part = "files" => Files!ReplacesNone
                 /\ part = "guard" => CrashGuard!OwnerLetsGo]_vars
\* What documents and comments say and the code doesn't do.
OthersStay == [][part = "settings" => Settings!OthersStay]_vars
ShownAlwaysWorks == part = "settings" => Settings!ShownAlwaysWorks
SshKeepsBrightness == [][part = "settings" => Settings!KeepsBrightness]_vars
LongIsOnePress == part = "inputs" => Inputs!LongIsOnePress
IdleProcessesStop == part = "drawer" => Drawer!IdleProcessesStop
WiringAlwaysSaved == part = "pins" => Pins!WiringAlwaysSaved
LineAlwaysBack == part = "pins" => Pins!LineAlwaysBack
RestoreFitsCard == [][part = "settings" => Settings!RestoreFitsCard]_vars
NewInstanceIsUnshared == [][part = "settings" => Settings!NewInstanceIsUnshared]_vars
\* (with SettingsScenes <- RepairScenes, and as it is)
DefaultsOnlyWithoutCopy == [][part = "settings" => Settings!DefaultsOnlyWithoutCopy]_vars
KeepsToSchedule == [][part = "fetch" => Fetch!KeepsToSchedule]_vars

-----------------------------------------------------------------------------
(* What a behaviour has of each kind of happening.                         *)

\* Settings: saves, hand edits and power cuts; who can sign in; the rest of the slow requests; modules; recoveries beside
\* wirings, hand edits and cuts.
Quiet == [kinds |-> {}, quick |-> {}, saves |-> 0, tasks |-> 1, cuts |-> 0, breaks |-> 0, set_up |-> TRUE,
          repair_cut |-> FALSE]
Storage == [Quiet EXCEPT !.quick = {"globals", "token"}, !.saves = 4, !.cuts = 2, !.breaks = 2]
SignIn == [Quiet EXCEPT !.kinds = {"setup", "change", "recover", "restore"}, !.quick = {"globals"}, !.saves = 1, !.tasks = 4]
FirstSignIn == [SignIn EXCEPT !.set_up = FALSE]
Slow == [Quiet EXCEPT !.kinds = {"ssh", "wire", "restore"}, !.quick = {"bright"}, !.saves = 1, !.tasks = 4, !.cuts = 1]
Modules == [Quiet EXCEPT !.quick = {"modules"}, !.kinds = {"restore"}, !.saves = 4, !.tasks = 2]
Recovers == [Quiet EXCEPT !.kinds = {"recover", "wire"}, !.tasks = 4, !.cuts = 1, !.breaks = 1]
AllScenes == {Storage, SignIn, FirstSignIn, Slow, Modules, Recovers}
RepairScenes == {[Storage EXCEPT !.repair_cut = TRUE]}
SshScenes == {[Quiet EXCEPT !.kinds = {"ssh"}, !.quick = {"bright"}, !.saves = 1, !.tasks = 2]}

\* Forms: no rows by default, or one.
NoRows == [on |-> TRUE, count |-> 1, tags |-> {"x"}, rows |-> <<>>]
OneRow == [NoRows EXCEPT !.rows = <<"a">>]

\* Pins: wirings with failures, late lines and boots, and with a restore and a cut.
Still == [changes |-> 0, restores |-> 0, emptied |-> 0, failures |-> 0, late |-> 0, boots |-> 0, cuts |-> 0]
Wirings == {[Still EXCEPT !.changes = 2, !.failures = 1, !.late = 1, !.boots = 1],
            [Still EXCEPT !.changes = 1, !.restores = 1, !.cuts = 1, !.boots = 1]}

\* Files: three names for one.
ThreeNames == <<"photo", "photo-2", "photo-3">>

\* Files: uploads with and without a small copy, some that fail, and a power cut.
Uploads == {[thumbs |-> BOOLEAN, fails |-> TRUE, cuts |-> 0], [thumbs |-> {TRUE}, fails |-> FALSE, cuts |-> 1]}

\* Inputs: presses with bounces, and with motion and a restart.
Hand(presses, bounces, motions, starts) ==
  [presses |-> presses, bounces |-> bounces, strays |-> 0, stalls |-> 0, motions |-> motions, restarts |-> starts]
Hands == {Hand(3, 2, 0, 0), Hand(2, 1, 1, 1)}
LongBounce == {[Hand(1, 0, 0, 0) EXCEPT !.strays = 1]}
=============================================================================
