------------------------------ MODULE MCSystem ------------------------------
(***************************************************************************)
(* The mirror as a machine: the app's environments between updates that     *)
(* nothing interrupts, the OS and its trial boots, the way in over Wi-Fi,   *)
(* and what the first boots of a card lay out.  Each has its own state: a   *)
(* behaviour is of one of them, and leaves the app's as it was at first.    *)
(***************************************************************************)
EXTENDS AppEnv

CONSTANTS home, guest, Off, Hotspot, None,
          MaxBuild, Firmware, Tries, OsScenes,  \* OsUpdate's
          Networks, WifiScenes,                 \* Wifi's
          Files, MaxCuts                        \* FirstBoot's

CONSTANT Parts  \* the components a configuration checks, of "app", "os", "wifi", "boots"

VARIABLES
  part,  \* which of them the behaviour is one of
  slot, half, entry, power, running, trial, armed, rauc, osupdate_job, mark, newest, pending, failed, wired,
  osupdate_left, proven, tried, lost, late,
  radio, air, wifi_saved, wrong, wifi_link, up, watch, rounds, stamp, wifi_job, seen, asked, page, net, wifi_left,
  wifi, since,
  image, firstboot_part, firstboot_boot, cuts, firstboot_storage, data, folder, img, on, firstboot_saved, python,
  venv, reset

OsUpdateVars == <<slot, half, entry, power, running, trial, armed, rauc, osupdate_job, mark, newest, pending, failed,
                  wired, osupdate_left, proven, tried, lost, late>>
WifiVars == <<radio, air, wifi_saved, wrong, wifi_link, up, watch, rounds, stamp, wifi_job, seen, asked, page, net,
              wifi_left, wifi, since>>
FirstBootVars == <<image, firstboot_part, firstboot_boot, cuts, firstboot_storage, data, folder, img, on,
                   firstboot_saved, python, venv, reset>>

\* Two Pythons; the newest release needs the newer one.
MCRequiresPy == [v \in 1..MaxVer |-> IF v = MaxVer THEN MaxPy ELSE 1]

\* The newest build brings new firmware.
MCFirmware == <<1, 1, 2>>

\* Three nights with a trial by hand, or with a wiring saved; two power cuts in one.
Nights(trials, wirings) ==
  [starts |-> 3, cuts |-> 1, app |-> 1, reboots |-> 0, hand |-> trials, wires |-> wirings, checks |-> 1]
Updates == {Nights(1, 0), Nights(0, 1), [Nights(0, 0) EXCEPT !.starts = 1, !.cuts = 2, !.reboots = 1, !.checks = 0]}

\* A new mirror's setup; a mirror at home whose router, network or cable changes; a chip that fails.
Nothing == [routers |-> 0, phone |-> 0, traffic |-> 0, hangs |-> 0, cable |-> 0, setup |-> 0, restore |-> 0,
            switch |-> 0, asks |-> 0]
Scene(may, known, pw) == [left |-> may, saved |-> known, password |-> pw, monitor |-> pw]
NewMirror == Scene([Nothing EXCEPT !.routers = 1, !.setup = 2, !.phone = 1], {}, FALSE)
AskedFor == Scene([Nothing EXCEPT !.routers = 1, !.setup = 1, !.phone = 1, !.asks = 1], {}, FALSE)
Restored == Scene([Nothing EXCEPT !.restore = 1, !.setup = 1], {}, FALSE)
AtHome == Scene([Nothing EXCEPT !.routers = 1, !.switch = 1, !.cable = 1], {home}, TRUE)
Switches == Scene([Nothing EXCEPT !.routers = 1, !.switch = 2], {home}, TRUE)
BadChip == Scene([Nothing EXCEPT !.hangs = 2, !.traffic = 1], {home}, TRUE)
ChipAndCable == Scene([Nothing EXCEPT !.hangs = 1, !.setup = 1, !.cable = 1], {home}, FALSE)
Cabled == Scene([Nothing EXCEPT !.hangs = 1, !.cable = 2], {home}, TRUE)
TwoTabs == {Scene([Nothing EXCEPT !.setup = 1, !.switch = 1], {home}, TRUE)}  \* the setup page beside the dashboard
Ways == {NewMirror, AskedFor, Restored, AtHome, Switches, BadChip, ChipAndCable, Cabled}

OsUpdate == INSTANCE OsUpdate WITH
  job <- osupdate_job, left <- osupdate_left
Wifi == INSTANCE Wifi WITH
  saved <- wifi_saved, link <- wifi_link, job <- wifi_job, left <- wifi_left
FirstBoot == INSTANCE FirstBoot WITH
  part <- firstboot_part, boot <- firstboot_boot, storage <- firstboot_storage, saved <- firstboot_saved

\* What a behaviour is not one of stays 0.
SystemInit ==
  /\ part \in Parts
  /\ Init
  /\ IF part = "os" THEN OsUpdate!Init
     ELSE slot = 0 /\ half = 0 /\ entry = 0 /\ power = 0 /\ running = 0 /\ trial = 0 /\ armed = 0 /\ rauc = 0
          /\ osupdate_job = 0 /\ mark = 0 /\ newest = 0 /\ pending = 0 /\ failed = 0 /\ wired = 0 /\ osupdate_left = 0
          /\ proven = 0 /\ tried = 0 /\ lost = 0 /\ late = 0
  /\ IF part = "wifi" THEN Wifi!Init
     ELSE radio = 0 /\ air = 0 /\ wifi_saved = 0 /\ wrong = 0 /\ wifi_link = 0 /\ up = 0 /\ watch = 0 /\ rounds = 0
          /\ stamp = 0 /\ wifi_job = 0 /\ seen = 0 /\ asked = 0 /\ page = 0 /\ net = 0 /\ wifi_left = 0 /\ wifi = 0
          /\ since = 0
  /\ IF part = "boots" THEN FirstBoot!Init
     ELSE image = 0 /\ firstboot_part = 0 /\ firstboot_boot = 0 /\ cuts = 0 /\ firstboot_storage = 0 /\ data = 0
          /\ folder = 0 /\ img = 0 /\ on = 0 /\ firstboot_saved = 0 /\ python = 0 /\ venv = 0 /\ reset = 0
SystemNext ==
  \/ part = "app" /\ Next /\ UNCHANGED <<part, OsUpdateVars, WifiVars, FirstBootVars>>
  \/ part = "os" /\ OsUpdate!Next /\ UNCHANGED <<part, vars, WifiVars, FirstBootVars>>
  \/ part = "wifi" /\ Wifi!Next /\ UNCHANGED <<part, vars, OsUpdateVars, FirstBootVars>>
  \/ part = "boots" /\ FirstBoot!Next /\ UNCHANGED <<part, vars, OsUpdateVars, WifiVars>>
system_vars == <<part, vars, OsUpdateVars, WifiVars, FirstBootVars>>

\* The fairness of OsUpdate and Wifi: systemd and the firmware go on, so do the watch and the
\* app's own joins, and the timers of the setup page, of what is remembered and of the internet monitor go off.
SystemFairness ==
  /\ WF_OsUpdateVars(part = "os" /\ OsUpdate!Boots) /\ WF_OsUpdateVars(part = "os" /\ OsUpdate!MarkGood)
  /\ WF_OsUpdateVars(part = "os" /\ (OsUpdate!MarkProves \/ OsUpdate!MarkFails))
  /\ WF_WifiVars(part = "wifi" /\ Wifi!PowerReturns) /\ WF_WifiVars(part = "wifi" /\ Wifi!BootCheck)
  /\ WF_WifiVars(part = "wifi" /\ Wifi!WatchStep)
  /\ \A j \in Wifi!Jobs : WF_WifiVars(part = "wifi" /\ Wifi!JobStep(j))
  /\ WF_WifiVars(part = "wifi" /\ Wifi!Remembers) /\ WF_WifiVars(part = "wifi" /\ Wifi!Expires)
  /\ WF_WifiVars(part = "wifi" /\ Wifi!InternetCheck) /\ WF_WifiVars(part = "wifi" /\ Wifi!PagePolls)
SystemSpec == SystemInit /\ [][SystemNext]_system_vars
SystemFairSpec == SystemSpec /\ SystemFairness

ASSUME SystemAssumption == OsUpdate!OsAssumption /\ Wifi!WifiAssumption /\ FirstBoot!FirstBootAssumption

-----------------------------------------------------------------------------
(* Each property of a component, of that component's behaviours; AppEnv's   *)
(* ChangesAreAtomic as it stands.                                           *)

\* The modules that run are built for the Python that runs them, and the launcher's fallback is a finished environment
\* the app once ran from, while nothing but an OS trial comes between (venv_swap, packages, launch.sh).
AppFits == TypeOK /\ ModulesFitApp /\ FallbackIsStable /\ UpdateNeverEndsInSafeMode
\* Whenever the power goes the mirror starts again, with the wiring its settings remember (rauc-bootloader, update-p1),
\* and restarts for a hung chip stay an hour apart, though all but a note on the card is lost in one (restart_for_wifi_chip).
StaysUp ==
  /\ part = "os" => OsUpdate!AlwaysBoots /\ OsUpdate!WiringFits
  /\ part = "wifi" => Wifi!RestartsAreRare
\* What boots normally was proven on a trial of its own and is never older than what did before, and a broken build
\* costs the nights at most OS_TRIAL_TRIES trials (is-update-trial, mark-good, updates/service.py).
KeptIsProven == [][part = "os" => OsUpdate!KeepsProven /\ OsUpdate!StopsNightly]_OsUpdateVars
\* An update's trial ends by itself: with the new system kept, or the old one running again.
TrialEnds == (part = "os" /\ power = "on" /\ mark = "wait") ~> (part # "os" \/ (power = "on" /\ running = OsUpdate!primary))
\* A network that was saved and works keeps its profile, whatever is tried with it later (switch_wifi).
NetworkKept == [][part = "wifi" => Wifi!KeepsSaved]_WifiVars
\* A mirror that runs is never left with neither Wi-Fi, hotspot nor cable for good, unless its chip doesn't work, and a
\* network that works keeps its profile (mirrordash-wifi-watch, switch_wifi).
WayIn ==
  /\ (part = "wifi" /\ up = "up" /\ ~Wifi!Online) ~> (part # "wifi" \/ Wifi!Online \/ wifi_link.chip # "ok")
  /\ NetworkKept
\* Once the radio stays as it is the screen says so: the hotspot's page or the mirror, and the offline badge (setup page).
OnlineShown == part = "wifi" /\ net.online
WifiUp == part = "wifi" /\ up = "up"
ScreenFollows ==
  /\ <>[](WifiUp /\ Wifi!OnWifi) => <>[](part = "wifi" /\ page = "mirror")
  /\ <>[](WifiUp /\ radio = Hotspot /\ ~wifi.password) => <>[](part = "wifi" /\ page = "prompt")
  /\ <>[](WifiUp /\ Wifi!Passes) => <>[]OnlineShown
  /\ <>[](WifiUp /\ ~Wifi!Passes /\ wifi.monitor) => <>[]~OnlineShown
\* Wherever the power goes before a reset is asked for, what modules saved is there again, and settings never meet a new
\* file system (repart, mount-modules, hydrate).
CutsLoseNothing == part = "boots" => FirstBoot!CutsLoseNothing
\* What documents and comments say and the code doesn't do.
ResetRestarts == part = "boots" => FirstBoot!ResetRestarts
PythonNeverStuck == part = "boots" => FirstBoot!PythonNeverStuck
StorageIsMade == part = "boots" => FirstBoot!StorageIsMade
PythonIsItsOwn == part = "boots" => FirstBoot!PythonIsItsOwn
CountsTrials == part = "os" => OsUpdate!CountsTrials
WiringAlwaysFits == part = "os" => OsUpdate!WiringAlwaysFits
RestartIsLastResort == [][part = "wifi" => Wifi!RestartIsLastResort]_WifiVars
NewHotspotStays == [][part = "wifi" => Wifi!NewHotspotStays]_WifiVars
PhoneKeepsHotspot == [][part = "wifi" => Wifi!KeepsPhone]_WifiVars
=============================================================================
