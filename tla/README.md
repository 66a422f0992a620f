# MirrorDash: TLA+ models and proofs

MirrorDash is a smart mirror on a Raspberry Pi: a FastAPI core that keeps the settings, serves the admin
pages and the mirror's own page, runs the installed modules as other users' processes, switches the screen
and the TV, and updates itself and the system under it. The models here are of the parts whose correctness
depends on the order of things: tasks of one event loop that share state between their awaits, processes
that end by themselves, a Raspberry Pi whose power is cut, a page that hangs, a broker that remembers.

Every definition is translated from the code (`map` in `PROJECT.json` names the lines); the documents are
only quoted where a property states what they say. Operators marked `(mutant)` are no part of a model: each
is a plausible bug that replaces the definition after it, and that the named property must catch.

## The system

| Part | State it keeps | Operations | What is hard |
| --- | --- | --- | --- |
| App environment: `venv.py`, `updates/service.py`, `admin.py`, `launch.sh`, `mirrordash-hydrate.sh` | venv folders, the `venv` link, module sites, Pythons, the one job, the boot status | update, Python upgrade, Reinstall; launch, rollback, Safe mode | power cuts between any two steps, a restart that cancels a job, a swap of two things that is not one operation |
| OS updates: `rauc-bootloader`, `update-p1`, mark-good, `updates/service.py` | the slots, `autoboot.txt`, two copies of the boot partition, what is pending and what failed | nightly and manual installs, the trial boot, keep or fall back | a cut at any step, a trial nobody counted, wiring saved beside an update |
| First start and reset: `mirrordash-repart.sh`, `mirrordash-hydrate.sh`, `mirrordash-factory-reset` | `/storage`, the modules' file system, the Python | lay out, mount, move in, delete | many steps, each of which must be repeatable after a cut |
| Wi-Fi: `wifi/`, `mirrordash-wifi-check.sh`, `kiosk/internet.py` | NetworkManager's profiles, the watch's rounds, the remembered hotspot state, the page | boot check, watch, recovery of the chip, joins from the pages | two programs that move the same radio, answers older than the radio's state |
| Module host, core's side: `modules/client.py` | control connection, `_instances`, the sync lock, crash counts, `paused`, the rules in force | `_run`, `_sync`, `_serve`, `reload_modules`, `_refresh_lan` | tasks that go on after awaits of up to 90 s with what they read before |
| Module host and fork server: `modules/host.py`, `forkserver.py`, `sandbox_checks.py` | the self-check's result, users, children, the site | checks, starts, refuses, installs | fail closed across restarts and orphans |
| An instance's process: `modules/instance.py`, `loader.py`, `module_fetch.py` | `awake`, `hidden`, what on_shown said last, the fetch's cache, GPIO lines | reads lines, starts, fetches, tells the module | a task overtaken by lines that came after |
| Install and removal of modules: `modules/service.py`, `routes.py`, `site_folders.py` | the site's links and folders, allowed scripts, instances | install, update, uninstall | five steps in two processes, either of which may end |
| The drawer: `settings_process.py`, `choices.py`, `preview.py`; the forms: `forms.py`, `schema_form.html`, `admin.js` | a process per module and its timer; the page's rows | ask, answer, idle end; edit, post, parse, save | answers that come after a reload or a move |
| Files, home network: `files.py`, `lan.py`, `mirrordash-module-network` | the module's folder, small copies; nftables and the unit's filter | upload, delete; apply, refresh | a folder the module writes to as well; rules the core only remembers |
| Kiosk screen: `kiosk/ws.py`, `video/window.py` | page connections, latest and held cards, who plays a video, the window's rule and rate | connect, broadcast, set_video_playing, video_window | every send awaits the page, which may hang |
| Crash guard: `kiosk/guard.py`, with `ws.py` | its step, what it paused, when | page_loaded, page_crashed, release, show_again | telling a crash from every other reason for a load |
| Display power: `power/display_power.py`, `hardware/cec.py`; privacy: `power/privacy.py` | wake timer, explicit off, what it believes of the screen; privacy mode and marks | the loop's pass, wake, turn_off, toggle, set_tv_power, set_privacy | commands during a switch, a retry, a CEC conversation |
| Inputs and wiring: `hardware/inputs.py`, `devices.py`, `gpio.py` | a button's classifier, presence, the overlays, lent lines | press, poll, save a wiring, lend a line | bounces and late polls, a file, a setting and a boot that must agree |
| Settings: `config.py`, `auth/routes.py`, `backup/`, `settings/ssh.py` | the file, its last good copy, the cache | load, save, repair, sign-in, restore | load, await, save by two tasks |
| MQTT: `mqtt/bridge.py`, `routes.py` | what it published, what waits, the one task; the broker's retained topics | connect, discover, publish, clear, forget, restart | passes that go on with what was read, topics that outlive the connection |
| Event bus, API, logs, USB power, clock, the screen's C program, Matter, styles, image build | their own | their own | not modelled, see `components` in `PROJECT.json` |

The parts talk to each other like this. A save in the admin pages calls `reload_modules`, which tells the
page to reload and asks for a sync; the sync sets the home network's rules and makes the host start and stop
processes. Instances send cards, which the kiosk manager keeps and broadcasts; a module that plays a video
gets a window and sets the manager's video mode from its own connection's task. A page that loads without
having been asked to counts as a crash in the guard, which pauses modules and reloads. The display loop
switches the screen, asks the TV, and tells the instances whether their cards are shown. A job of the updates
replaces the environment everything above runs from, and an OS update the system under that.

## Modules

`X.tla` is the model of a component with what directly drives it; the rest comes as it comes. `XProofs.tla`
holds its theorems.

Most components share no variable with one another, so their product would only multiply states. The `MC`
modules put components that belong together side by side: each behaviour is of one component, which the
variable `part` names, and leaves the others' variables as they were (0). A configuration names the `Parts` it
checks, and each property says of which it is; the instance of each component substitutes its constants, and
renames what two of them call the same. Where components do interact (sync, host, page, display, module), one
module models them together: `CardShown`, `KioskScreen`, `ModuleHost`, `CrashGuard`.

| Module | Components | Runs |
| --- | --- | --- |
| `MCAppEnv` | `AppEnv` with interruptions | `env_rough`, `env_reinstall` |
| `MCSystem` | `AppEnv` undisturbed (with `AtomicSwap`), `OsUpdate`, `Wifi`, `FirstBoot` | `system`, `reset_ends` |
| `MCModules` | `ModuleHost`, `Forks`, `Packages` | `modules` |
| `MCScreen` | `KioskScreen`, `CardShown`, `Windows` | `screen`, `screen_stuck` |
| `MCHome` | `Mqtt`, `Lan` | `home`, `mqtt_unshared` |
| `MCAdmin` | `Settings`, `Forms`, `Pins`, `Files`, `Drawer`, `Inputs`, `Fetch`, `CrashGuard` | `admin` |
| `MCDisplayPower` | `DisplayPower` with a TV, and its instance `Loop` without one | `power` |
| `MCCrashGuard` | `CrashGuard` with a module that crashes the page | `guard_loop` |

### AppEnv, AtomicSwap

`dir`, `link`, `site`, `siteLink`, `pythons` are folders and links on `/storage`; `boot` is the line the
hydrate script, `launch.sh` or its rollback is at; `job` is the running job's phase, one phase per step that
a power cut can separate from the next. A job is a chain: `StartUpdate`, `InstallPython`, `PrepareWipe`,
`PrepareCreate`, `PrepareLink`, `InstallCore`, `SiteCommit`, `CommitOld`, `CommitRename`, `CommitPythons`, or
`Revert` and `RevertRemove` from wherever it fails. `RbSite` to `RbLink` are the launcher's rollback, one
action per rename. A boot hydrates first: `MovePython` and `NamePython` are the move of the root's Python to
`/storage` and its short name, which a cut can come between; then each venv is pointed at it (`PointPython`; `own`
says that it was). `stuck` is a boot whose hydrate script fails each time (`MoveFails`), so that the app never
starts. `felled` is a start that was killed, for `launch.sh` the same as one that failed (`crashed`). Interruptions are actions of their own, and a configuration names the kinds it allows
and how many: `power` (a cut), `kill` (the core is killed, as it starts or later), `restart` (the Restart button during a job),
`host` (the host's answer to a commit is lost), `disk` (the kept folder can't be removed; no room for the Python), `late` (a job
started in the seconds before a restart), `trial` (an OS trial boot, good or broken). What a release contains
is abstracted to its number, the Pythons it runs on, and whether it starts.

`ChangesAreAtomic` says that `AppEnv` implements `AtomicSwap`: the refinement mapping reads the pair of
environment and module site the next start gets: the environment as it was until the commit of a swap begins, and
as it will be from the first rename of a rollback, each with the site that `modules/site` names at that moment, and
the fallback with the one `launch.sh` would name if it rolled back then. It holds when nothing interrupts a swap; with interruptions the
implementation keeps the weaker invariants. A swap keeps the old pair as the fallback until the new one has
run (`Settle`). `Kinds` has `modules` for a change of the modules alone, which switches the site and leaves the
link. `Pairs` are the environments with their sites, and `Absent` is none of them.

### OsUpdate

The card is the two slots' contents, the two places the boot partition is built in turn, and the entry of the
partition table. An installation is the app's job, RAUC's process and the bootloader backend's calls, which
outlive the app; mark-good runs after a boot and either proves a trial or lets the watchdog end it, then builds
the other boot partition and switches to it. `power` goes off between any two actions. `proven`, `tried`,
`lost` and `late` are histories: what boots was proven on a trial, how many a build had, whether the app
restarted beside an installation, whether wiring was saved beside one.

### FirstBoot, Wifi

`FirstBoot` has the steps of `repart`, the mounts and `hydrate`, a cut between any two, and the reset from the
running app. Of files only whose they are matters: the owner's settings, and two that modules saved.
`Wifi` has one radio that a boot check, a watch with its rounds, and the app's three kinds of joins move, each
with its awaits; `link` is what else may change (chip, traffic, cable, phone). A behaviour plays one scene: a
new mirror's setup, a mirror at home, a bad chip, a cable.

### ModuleHost, Forks, Packages

`ModuleHost`: `sync` is the task that holds `_sync_lock`: its place between two awaits, and what it read before
them. `conn` is each `Connection` with its `_serve` task and the process at its other end; `reg` is
`_instances`. The ends of the core's and of the instances' sockets are noticed in any order. `Bounds` is a set
of records of bounds, one of which a behaviour keeps. `Forks` is the path of a request from the host to a
running child: user chosen, forked, user and capabilities dropped, tied to its parent, checked; the
forkserver and the host end at any of them. `Packages` has the job with its `prepare`, `pip`, `check`, `commit`
in the host, what it saves, the restart and the page that polls for it; `folders` are numbered per package, and
a release is its package, its origin, the modules in it and whether it loads.

### KioskScreen, CardShown, Windows

`KioskScreen`: a message to the page is an entry of `sending` until the page took it or `SEND_TIMEOUT` dropped
it; its caller waits for it, of a prompt page too. So a stop can cancel a minute's round (`Cancelled`) that has taken
the held cards into a local and sent some, or none, of them. The screen is quick (greeted in one go), slow (card by
card), or one that may hang; a behaviour keeps one of `Screens`, each with bounds of its own (`EachScreen`). `lost` is a
history: the cards a page missed, in a round that was cancelled or as an older one of the greeting came last.
`CardShown`: `config`, `scheduled` and `on` are the world; `posted`, `telling` and `sync` are the three ways on
which word of it travels to the instances; each process has an inbox. `overlapped` and `late` are histories of
the two behaviours after which the code does not keep its promise: a change while a sync runs, and a start that
a process reads together with later lines. `Windows`: a block is a line of `video_window` with the lock, the
rule, the rate and the video mode; it ends by itself, by an error, a cancel or its process's end. The steps of its
`finally` may fail: the first raises and the others are skipped, wlr-randr doesn't switch, the write of the rule fails.
`left` is a history: the rule and the rate that stayed after such a failure or a crash, which the next block finds.

### Mqtt, Lan

`Mqtt`: `run` and `pub` are each connection task's place and its publisher's pass, with the settings the pass
read; `retained` is the broker's side, `published` what the bridge believes of it. One entity per instance.
A request that restarts or stops the bridge waits for the old task's end (`Ends`), then starts another
(`Finishes`) whatever others did meanwhile; the `home` run has one request at a time, `Home_twice` two. A connection
that is lost makes the broker send the last will; one that ends by an error of the bridge's own, or by an answer that
times out, disconnects cleanly and says nothing (`unsaid`), and a publish that times out ends the publisher alone
(`PublisherDies`).
`Lan`: two actors, the sync and the refresh, take one lock around lookup, helper and filter; `lan` is what
the core believes is in force, `nft` and `cgroup` what is. `HelperEnds` says how the helper may end: done,
refused before it did anything, or half-way between the two (`torn`, until another is done or the core restarts).

### Settings, Forms, Pins, Files, Drawer, Inputs, Fetch

`Settings`: file, copy and cache hold a whole `Config`; a task is a request that waits between its load and its
save, with the settings it holds; a wiring saves all it holds, beside another wiring or a restore too. `reverted` keeps
whether a recovery code other than the newest shown came back, by a wiring, the last good copy or the defaults. `Forms`: what is saved, what the page shows, rows asked for and not there
yet. `Pins`: what is saved, what `config.txt` says, what the firmware booted with, who holds each line. `Files`:
a folder with what the module put there, the small copies, the file being written. `Drawer`: the table and its
timer beside the processes and the askers. `Inputs`: a tick stands for no fixed time, only bounce < window < long press is
kept; the finger (what the owner does), the contact (what it bounces), the kernel's queue and the classifier, so
that what is told can be compared with what was done. The runs' scenes have no `stalls`: an app that reads a tick
late takes a press for later than it was, and two gestures for one. `Fetch`: a cache whose age is counted, a loop, the screen.

### CrashGuard, DisplayPower

`CrashGuard`: times are ages in ticks of minutes, up to the first one that no longer matters. `said` is what
pages have said of their loads and the core has not read; `blamed` is a history of why the load was made that
the core counted as a crash. `Cause` is a module whose settings crash the page soon after it is shown.
`DisplayPower`: `pc` is where the loop is in its pass: with the settings read, switching, with the tool's answer and its own
note of it not made yet (`worked`), waiting, or in the 30 s after a failed switch; commands and the world's changes come at
any of them. A tool switches the screen or doesn't and says so, or says it wrongly (`Misled`): it was killed for its time after
it had switched, or took no notice and its exit code is not looked at. `amiss` is a history of what the last switch left
wrong, the screen told wrong or the TV not as asked, until one that works; `crosses`, of whether a call that turns the TV on,
or the remote, comes in between while the screen is switched. `task` is each call of
`set_tv_power` with its place in the CEC conversation. A tick is a minute of the wake timer; a pass happens at
least once a tick. `off_stands` and `viewer` are histories for the properties.

## Runs

| Run | Shows | Bounds, and why they are enough |
| --- | --- | --- |
| `env_rough` | a start always finds an environment (`LaunchFindsVenv`), none loses its Python (`PythonsKept`), no start that fails by itself rolls back a good version (`GoodVersionKept`), the app always comes up again but for a cut between its Python's move and its naming (`AlwaysUpAgain`) | 2 releases, 2 Pythons, any two interruptions of all kinds: the smallest number that interrupts the recovery from one |
| `system` | app: `AppFits` and the refinement `ChangesAreAtomic`. OS: whatever is cut the card boots, with its wiring (`StaysUp`); what boots normally was proven, and a broken build costs few trials (`KeptIsProven`); a trial ends (`TrialEnds`). Wi-Fi: there is a way in (`WayIn`), and the screen follows the radio (`ScreenFollows`). Boots: `CutsLoseNothing` | app: 3 releases (one to come from, one that fails, one to go to), 2 Pythons, no interruption but an OS trial. OS: 3 builds over 3 nights with a cut, an app restart and a trial by hand or a wiring saved; one night with 2 cuts. Wi-Fi: two networks, eight scenes. Boots: 3 cuts, of which the third falls into the recovery from the recovery |
| `modules` | `SandboxHolds`, `StopsOnlyChanged`, `SettingsApplied` of syncs; `UsersAreOwn` of children; `SiteIsSound` of changes | one instance with 2 changes and 2 deaths, or 2 hosts; two instances with a change and 2 hosts; a third connection, so that an old one still ends while another is made; 2 modules, 2 packages, 2 hosts, one user for both packages, so that users run out; 2 jobs with a failure and a restart, or with a host's restart and settings saved; 7 releases: newer, of another origin, one that clashes, one that doesn't load |
| `screen` | `CardsShown`, `HeldGoOut`; `ModuleKnows`, `AllKnowInTheEnd`; `PutBack` | a card each with two pages, a reload and a video, or with 2 videos that overlap and a process started again; pages greeted card by card with 2 cards each, or 2 videos; one that hangs. 2 instances, 2 changes, a death. 3 blocks of 2 instances whose ends may fail at each step, a crash |
| `home` | `ToldTrue`, `RevokedGoes` on the broker; `InForceIsSo`, `TypedIsReached` on the home network | one instance, two tasks of the bridge, 2 saves, 2 values, a loss, a removal, or a change with 2 answers that time out; 2 instances, a name, 2 addresses of which the limit admits 2 pairs; a move, a restart, a helper that fails before or after it set the rules |
| `admin` | `SettingsFit` and `OthersKept` (settings, files, guard), `ShownIsSaved`, `WiringIsSaved`, `ThumbIsOwn`, `AnswersAreNew`, `GesturesAsMade`, `LastGoodShown`, `NoFalseCrash` | two requests that wait at once, six scenes of up to 4 saves, 2 cuts and 2 hand edits; 2 edits of up to 3 rows; 2 changes of the wiring, a late line, a boot, a cut; 3 photos of one name; 2 askers; 3 presses with 2 bounces over 25 ticks; 9 steps of time with an interval of 2; 2 modules that can crash the page with a restart, a fault and an owner's action |
| `power` | `BelievedIsSo`, `OffStands`, `LitWhenMeant`; with a TV `TvIsAsMeant` | the base modes (manual is an interval that always has now in it), both ways to count, 3 happenings of any kind, a switch that fails or is told wrong, a timer of 2 minutes; TVs with and without an address in standby, 3 happenings (calls, the remote, restarts) at any time, a failure, two wakes' calls under way beside an off's |
| `guard_loop` | `StepsHelp`: each step pauses something, and the crash loop ends | a restart or a fault (with a `Window` of 2 one lost connection can keep two crashes apart; it is 3), an owner's action before the first step |
| `env_reinstall`, `screen_stuck`, `mqtt_unshared`, `reset_ends` | disagreements, below | |

A property that is a conjunction says one thing of one component; its conjuncts have names of their own in
the component's module. The mutants beside the one per property are for the other conjuncts.

`CHECK_DEADLOCK FALSE` stands where the system may stop: every bounded happening has been used up, and
nothing is left to do. In `env_rough` that is a mirror that is `stuck`, with no interruption left.

### Fairness

- `AppEnv`: the launcher and the scripts go on (`systemd` starts them again), and so does a job, the restart
  that was scheduled, mark-good and the end of a trial.
- `OsUpdate`: the firmware boots, and mark-good comes to an end (its unit has a timeout). Installations may stop.
- `Wifi`: the boot check, the watch's timer and the requests' timeouts go on; so do the page's poll, the
  expiry of what is remembered, and the internet monitor. Nothing is assumed of routers and phones.
- `ModuleHost`: the event loop runs what is ready, the host starts again and answers. No more.
- `KioskScreen`: the loop runs every task, a message is through after `SEND_TIMEOUT` at the latest, minutes
  pass. The last is strong: a minute passes again and again though other steps come in between.
- `CardShown`: waits for the page are bounded by `SEND_TIMEOUT`, those for the host by 90 s, and a process reads.
- `Mqtt`: the bridge connects again after its delay, and passes go on every second; a request comes to its end.
- `Lan`: sync, refresh and helper go on; the lock is fair (`asyncio.Lock` wakes its waiters in order), which is
  why taking it is strong.
- `CrashGuard`: strong for the page's steps and the clock, which other steps (a reload, a crash) disable again and
  again without ending them; weak for what the core does once it has begun.
- `DisplayPower`: the loop passes each second whatever happened, every `cec-ctl` has its timeout, time goes on.

Nothing is assumed of users, of crashes or of power cuts: they may come or not.

## Where the code and its documents disagree

Four are runs that must find their property violated:

| Run | What happens |
| --- | --- |
| `env_reinstall` (`SafeModeCanReinstall`) | after a Python upgrade, Reinstall in Safe mode makes its venv with the read-only root's Python and asks for a release that Python can't run (`updates/service.py:240`) |
| `screen_stuck` (`EndedIsAlwaysServed`) | a stop waits for a page that hangs while the next video starts and stops: `_minute_task` is None when it is cancelled (`ws.py:146`), `_serve` ends there, and the instance is never started again |
| `mqtt_unshared` (`UnsharedIsRemoved`) | choices are saved with a new connection, which starts with nothing published (`bridge.py:198`) and so never removes the device the old one announced (`bridge.py:377-379`) |
| `reset_ends` (`ResetRestarts`) | the modules' file system is mounted below what the reset deletes: `find` fails, `set -e` ends the script before it restarts (`mirrordash-factory-reset:16`) |

The next are configurations beside the runs; `tlc -config C.cfg M` finds the property violated:

| Configuration | Property | What happens |
| --- | --- | --- |
| `AppEnv_cancelled_upgrade` | `ModulesFitApp` | Restart at the end of a Python upgrade keeps the new site with the old venv (`updates/service.py:136`) |
| `Admin_ssh` | `SshKeepsBrightness` | the brightness saved while SSH is switched is put back (`system_settings.py:192`) |
| `Home_twice` | `OneTask` | two saves of the MQTT card wait for the same connection to end, and each starts another; nothing can stop the first any more (`bridge.py:130-140`); ARCHITECTURE.md:373: "the core keeps one connection to the owner's broker" |
| `Modules_told` | `PageToldTrue` | the page that follows an installation says it is done when the core came back, also when a cut ended it half-way (`admin.js:749`) |
| `System_phone` | `PhoneKeepsHotspot` | joined to a Wi-Fi without traffic, the watch's rounds take down the hotspot somebody opened meanwhile (`mirrordash-wifi-check.sh:102`) |
| `System_stuck` | `PythonNeverStuck` | a cut between moving Python in and naming it leaves a state in which hydrate never starts the app (`mirrordash-hydrate.sh:119-125`) |
| `Power_schedule_end` | `OffOutlastsScheduleEnd` | an explicit off ends with the schedule while someone stays in front of the mirror; USER_GUIDE: "keeps it off until something wakes it again or the schedule starts" |
| `Power_restart` | `OffOutlastsRestart` | an explicit off is forgotten by a restart of the core |

And these properties have a definition that a configuration like those can name:

| Module | Property | What happens |
| --- | --- | --- |
| `DisplayPower` | `WakeAlwaysLights` | a tool is killed after ten seconds that had turned the screen off; a wake comes before the next try, `is_on` still says on, and nothing lights the screen (`display_power.py:176-179`) |
| `DisplayPower` | `TvAlwaysFollows` | an off while the call that turns the TV on goes on, or one that fails after the TV was asked: the TV is on beside a dark screen, or off beside a lit one (`display_power.py:205-209`); cec.py:2: "A TV turned off and on with the screen" |
| `AppEnv` | `LinkNamesFinishedVenv` | the live link names the next environment before anything is installed in it (`venv.py:84`); ARCHITECTURE #16: "Once successful, the symlink is atomically updated" |
| `AppEnv` | `OnlyBrokenRolledBack` | a start that is killed (137, by the kernel say) in its first seconds rolls a good version back (`launch.sh:35-36`); `launch.sh:31`: "A start that fails within this long is a broken install, not a crash later on" |
| `AppEnv` | `UpWhateverIsCut` | a cut between the move of the Python and its naming: hydrate fails at every later boot (`mirrordash-hydrate.sh:124-125`); line 122: "a power cut mid-copy must not leave a half Python that looks done" |
| `AppEnv` | `RollbackRestoresSite` | a rollback that is cut switches the module site a second time, forward (`launch.sh:67`) |
| `MCModules` | `PausedStaysOff` | a sync that read `paused` before the last crash starts the paused instance (`client.py:464`) |
| `MCModules` | `PausedInARow` | a long run that ended with a settings change doesn't end a row of crashes (`client.py:541`) |
| `MCModules` | `HostLossIsNoCrash` | an instance whose end is read before the host's counts as crashed (`client.py:538`) |
| `MCModules` | `YesAlwaysItsOwn` | a cut between an uninstall's switch and its save leaves the yes to the package's scripts (`modules/service.py:310-329`) |
| `MCScreen` | `HeldAllGoOut`, `AllShown` (`Screens <- QuickScreen`) | the last stop cancels a minute's round that took the held cards and hasn't sent them all: they are shown nowhere, and a page goes on with the cards before (`ws.py:146`, `157-162`); `ws.py:136-137`: "the updates held meanwhile go out on each whole minute, and at once when the last stops" |
| `MCScreen` | `NoCardGoesBack` (`Screens <- SlowScreen`) | a page that takes its time while it connects gets the older of two cards after the newer one (`ws.py:75`: "Send the latest state of all active modules") |
| `MCScreen` | `SleepsUnlessLate` | a screen turned off while a sync starts instances: the next one starts as if it were on (`client.py:489`) |
| `MCScreen` | `SleepsUnlessOverlapped` | a start run after the lines behind it undoes what they said (`instance.py:277`) |
| `MCScreen` | `HiddenAsSaved` | a sync tells the modules who is hidden by settings from before its wait for the host (`client.py:491`), and undoes a privacy mode switched meanwhile |
| `MCHome` | `OnlineIsUp` | an error that isn't the connection's (`bridge.py:205`), or an answer that times out, ends it cleanly: the broker sends no last will (`bridge.py:10`: "status   online / offline (the last will)") and says "online" until the next connection |
| `MCHome` | `RevokedAlwaysGoes` | a publish that times out ends the publisher (`bridge.py:252-253`) while the connection goes on (`bridge.py:223`): what is revoked then stays, until a connection is made again |
| `MCHome` | `ForceIsAlwaysSo` | the helper sets nftables and fails before the unit's filter: the core goes on believing the old rules (`lan.py:97-105`) |
| `MCHome` | `TypedIsAlwaysReached` | the same, and then the old rules are wanted again: no helper runs any more (`lan.py:95-96`) |
| `MCHome` | `AllowedWhenDone` | a command to turn a module on or off that waits is carried out after the owner took the permission back (`bridge.py:517`) |
| `MCHome` | `OffIsOff` | `forget` goes through a dictionary the publisher adds to: the request fails half-way, and MQTT stays on (`bridge.py:148`) |
| `MCHome` | `RemovedIsCleared` | the states of an instance that was removed while it was shared stay on the broker (`bridge.py:387`) |
| `MCHome` | `ForgottenIsGone` | turning MQTT off clears only the topics of this connection (`bridge.py:148`) |
| `MCSystem` | `CountsTrials` | an installation that ended early is counted as a failed trial (`updates/service.py:330-356`) |
| `MCSystem` | `WiringAlwaysFits` | wiring saved after the new slot was made ready is lost with the switch to it (`rauc-bootloader:74-79`) |
| `MCSystem` | `RestartIsLastResort` | failed rounds are not in a row: the restart for a hung chip comes before the weaker steps (`mirrordash-wifi-check.sh:126-159`) |
| `MCSystem` | `NewHotspotStays` | after a wrong password at setup the hotspot is pulled down every 3 minutes to try it (`mirrordash-wifi-check.sh:247-262`) |
| `MCSystem` | `NetworkKept` (`WifiScenes <- TwoTabs`) | a switch with a wrong password deletes the profile that the setup page's join, asked for beside it, just made work (`wifi/network.py:189`: "a profile this attempt created ... is deleted again") |
| `MCSystem` | `StorageIsMade` | a cut after the partition was added and before it has a file system: no later boot makes one (ARCHITECTURE.md:96) |
| `MCSystem` | `PythonIsItsOwn` | a cut while the venv is repointed leaves its `pyvenv.cfg` and its links at two Pythons (`mirrordash-hydrate.sh:116`, `128-132`) |
| `MCScreen` | `AllPutBack` | a failed step of a video window's `finally` leaves its rule or refresh rate, and a raise in the first skips the others (`window.py:133-136`, `ws.py:146`; ARCHITECTURE.md:301: "When the block ends, also by an error or a cancel, everything is put back") |
| `MCAdmin` | `ShownIsSaved` (`FormRows <- OneRow`) | a list whose last row is removed posts nothing for it and comes back (`schema_form.html:62`, though its comment on lines 45-46 names the placeholder that boxes have) |
| `MCAdmin` | `LongIsOnePress` (`InputScenes <- LongBounce`) | a bounce at the release of a long press is told as a single press after it (`inputs.py:56`) |
| `MCAdmin` | `IdleProcessesStop` | of two processes opened at once the one that isn't in the table never stops by itself (`settings_process.py:36`) |
| `MCAdmin` | `OthersStay` | a wiring saves all it loaded before it waited for the helper (`features/hardware/routes.py:147`, `134`) and SSH the other system settings: what others saved meanwhile is undone |
| `MCAdmin` | `ShownAlwaysWorks` | such a wiring, or the last good copy in the place of a broken file, brings a used recovery code back (`features/auth/routes.py:145`: "The code is used up: the answer has a new one") |
| `MCAdmin` | `WiringAlwaysSaved` | a cut between the helper and the save: the card has overlays the settings don't know (`devices.py:187-192`) |
| `MCAdmin` | `LineAlwaysBack` | a line that came late is closed, while the instance that asks again is refused it |
| `MCAdmin` | `RestoreFitsCard` | settings that were wired elsewhere are restored as already written for this card |
| `MCAdmin` | `NewInstanceIsUnshared` | an uninstall leaves what was shared of the module: the next instance of that id is shared (`modules/service.py:310-329`) |
| `MCAdmin` | `DefaultsOnlyWithoutCopy` (`SettingsScenes <- RepairScenes`) | a cut between putting a broken file aside and saving the copy: the next start has defaults (`config.py:103-117`) |
| `MCAdmin` | `KeepsToSchedule` (`FetchTasks = {"loop", "on_shown"}`) | the loop and `on_shown` both ask the API on waking |
| `CrashGuard` | `StepTwoPausesLayers` | step 2 also pauses the module changed last but one (`guard.py:83`) |
| `CrashGuard` | `NoneLeftStartsOver` | a removed module stays paused in the guard, which keeps its step (`modules/routes.py:263`) |

Seen in the code while modelling, with no property of its own: a core that ends inside a video window leaves
the screen's refresh rate; a module that opens a second window inside its first waits for itself; a form with a
blank number is refused as a whole, and so is one with an old value of another field; an installation is
refused while RAUC goes on with one whose app is gone, and the refusal removes what was pending; a small copy survives a cut between a photo's deletion
and its own.

## Proofs

Each theorem holds for every value of the constants under the assumptions named in its model
(`AppEnvAssumption`, `SystemAssumption` and so on): bounds are numbers, sets of kinds and scenes are of the known
ones, ids of one kind are not of another, and, in `AppEnv`, release 1 runs on the read-only root's Python. What
some theorems assume beyond that stands in their `ASSUME`; the last table of this section says why. TLC had
found each invariant to hold on the runs' instances, and usually on more scenes than they have, before its proof.

An invariant is a conjunction of parts with a comment each. Its proof has a lemma per action, or per part and
under it a step per action; actions that leave a part's variables alone go through one lemma of what they leave.
The `MC` modules' theorems put `part = "x" => XInv` in the place of the invariant.

`AppEnvProofs`:

- `TypeCorrect`, `LaunchAlwaysFindsVenv`: that a start finds an environment behind the link is not inductive.
  `IInv` adds where a job can be (`JobInv`: only while the app is up, with `active` the other slot from the
  link's once the link has moved), what runs (`RunInv`), that the link resolves at every step of the boot
  and of the rollback at which it is followed (`LinkInv`), and what each of the swap's and of the rollback's
  steps leaves in which folder (`SwapInv`). `NextIInv` goes through the actions one by one.
- `PythonsAlwaysKept`: `IInv` with `PythonsKept` itself; a step either adds no environment, or makes one with
  a Python that was installed before, or points one at a Python that is there, or removes Pythons nobody uses.
- `GoodVersionAlwaysKept`: `StartInv` says that a boot past the launch, on a root that is not a broken trial, runs
  what the link names, so a start that failed by itself and is rolled back is the version's own failure. A start that
  was killed is left out: `launch.sh` can't tell it, and `OnlyBrokenRolledBack` shows what it does.
- `ChangesAlwaysAtomic`, the refinement of `AtomicSwap`: `FitInv` says what the link, the site and the fallback
  are for each other between jobs (`RestsInv`), at each step of a swap (`SwapsInv`) and of a rollback (`RollsInv`).
  With it every action is shown to leave the pair as it was, but for a commit's first step (`Change`), the
  rollback's (`RollBack`), and the first start of a new pair or the loss of the fallback (`Settle`).

`MCSystemProofs`:

- `AppAlwaysFits`: from the same `FitInv`, for the behaviours of `MCSystem` that are AppEnv's.
- `AlwaysStaysUp`, `KeptIsAlwaysProven`: `OsInv` has what each place of mark-good and of RAUC's process has done to
  the two halves of p1 (`OsPlaces`), that what boots is whole and what is written is never what boots (`OsBoots`,
  `OsSpare`), that what a half names was proven and is no older than before (`OsProven`), whom an installation
  belongs to (`OsJobs`), and that trials are counted ahead of a night's decision (`OsCounts`). Of Wi-Fi, `WifiInv`
  has the mark that each restart for the chip leaves for its hour.
- `NetworkAlwaysKept` (a conjunct of `WayIn`): `SwitchInv`: the profile a switch may delete is one that doesn't work.
- `CutsNeverLose`, of a mirror that nobody reset: `BootsInv` has what is behind each step of the boot (`StepInv`), where the modules' files are at
  each (`SavedInv`: the folder is cleared only of what was copied), and whose the Python is (`OwnInv`).

`MCModulesProofs`:

- `SandboxAlwaysHolds`, `AlwaysStopsOnlyChanged`: `HostInv` ties `run` to the control connection (`RunInv`), processes
  to a host that is up and closed (`AliveInv`), `_instances` to the connections (`OpensInv`), and what a sync goes by
  to the settings, or to a reload that will come after it (`WantedInv`).
- `UsersAlwaysOwn`: `ForksInv` says that a user, once given, is one name's for ever, and what each step of a fork has
  behind it (`ChildOK`). That the next user is one nobody has is a lemma about numbers (`NextUser`).
- `SiteAlwaysSound`: `PackagesInv` says that what either site links is a whole module with names of its own, what each
  step of a job has done in the next site (`DoneInv`) and how that may differ from the linked one (`ChangeInv`), that
  what runs is from the site that is linked or was (`RunsInv`), and whose yes stands (`YesInv`).

`MCAdminProofs`:

- `SettingsAlwaysFit`: `SettingsInv` has the shares in every copy of the settings there is: file, last good copy,
  cache, backup and what a request holds (`SharesInv`); which copy may be trusted (`CopyInv`); what a request that
  waits holds (`WaitsInv`); and that the code in the file and that in the cache are the newest shown, or one that came
  back (`ShownInv`).
- `WiringStaysSaved`: `PinsInv`: what was written is what the settings say was written (`OverlaysInv`), the card has
  what is saved or about to be (`CardInv`), a line's holder knows of it (`LinesInv`).
- `ThumbAlwaysOwn`: `FilesInv`: a small copy of another photo is one about to be deleted or replaced.
- `AnswersAlwaysNew`: `DrawerInv`: the timer is the last question's (`TimerInv`), what a process imported is as new as
  the last reload before it was asked (`CodeInv`), a process that opens is one question's (`OpensInv`).
- `LastGoodAlwaysShown`: `FetchInv`: what a fetch holds is what the cache was, or is newer.
- `ShownAlwaysSaved`: `FormsInv`: each row's fields are named for the place it is in, so what is posted for a place
  is its one row (`RowPosted`), and the rows read back are those of the page in its order (`RowsParsed`).
- `GesturesAlwaysAsMade`: `InputsInv`: the kernel's events alternate and end with the contact as it is (`ContactInv`),
  and a gesture is in one of nine places (`Gesture`), in each of which the classifier and what is told follow from what
  the finger did: a press that is coming, heard or lost in a bounce, a long release or a short one that is coming or
  heard, what is told. The timer it waits for is among `polls` in each.
- `NeverFalseCrash`: `GuardInv`; its part `TellInv` says of every word on its way, in the order it will be read, and of
  the page, why a load that is no crash will be known for one (`WordsInv`, `PageInv`).
- `OthersAlwaysKept`: each step of `Settings`, `Files` and `CrashGuard`, from these invariants.
- `StepsAlwaysPause` (a conjunct of `StepsHelp`): the types of `GuardInv`, and that the next step is the least of those that
  pause something new, or the last (`NextStepPauses`).

`MCScreenProofs`:

- `AlwaysPutBack`: `WindowsInv` ties the rule, the rate and the video mode to the place of the one block inside, and to
  what was there before it; only a crash or a failed step of a `finally` changes that.
- `ModuleAlwaysKnows`: `CardInv` speaks of lines that are still unread: the last line of an inbox that says anything of
  being awake, or hidden, says what the core believes (`LastSays`); `LastAdded` and `FirstRead` are the
  lemmas of adding a line and of reading one. `WordInv`: who is hidden follows from the settings and the clock, or
  word of them is on its way.
- `CardsAlwaysShown`: `ScreenInv`. That a stop finds the minute's task is about the order in which calls come through:
  on a page that doesn't hang who began to wait later waits for whom those before wait for, so the first in `sending`
  is through first (`QueueInv`, `FirstThrough`), and calls that start and stop alternate, from the one the task is
  there for or not to the one `players` follows (`OrderInv`). `NewestInv` has, of each page, that no card it shows or
  still gets is newer than the latest, and that a card of a greeted one is the latest, held (`GoesOut`), still to come, or
  missed.
- `HeldOnlyGoOut` (the action property in `HeldGoOut`): the same invariants. Each step goes `Forward`: a page gets no older
  card but one it misses the newer of, and what is let go of is shown, as the latest, or missed.

`MCHomeProofs`:

- `InForceIsAlwaysSo`: `LanInv`: one actor at most is past the lock, and what it set is not yet what the core believes,
  nor, once a helper ended half-way, until another is done.
  That the pairs are never more than the helper takes is a pigeonhole lemma about the sequence they are cut from
  (`FirstAreFew`).
- `WhatIsToldIsTrue`: `MqttInv`: the connection's task is the only one (`TaskInv`), a request that stops it has told
  the broker unless that timed out (`StopInv`), what was published over a connection is on the broker while its publisher
  goes on, unless a request took it away (`PublishedInv`), and
  what a pass has not sent yet is in its `todo` (`PassInv`, `SentInv`).

`DisplayPowerProofs`:

- `TypeCorrect`.
- `BelievedAlways`: `ToldInv` says that what is being switched is not as it is believed, and that a switch which worked and
  was told right left the screen as it was asked to be; the manager's own note of it makes that what is believed.
- `OffAlwaysStands`: `OffInv` says that while a quiet off stands, nothing the loop will still read ends it:
  the base mode is what it was, nobody arrived unseen, and what is being switched is switched off.
- `PresenceAlwaysHolds` (a conjunct of `LitWhenMeant`): `PresentInv`, the same of someone the loop has seen.
- `TvAlwaysAsMeant`: the invariant says which calls can run beside which (`CallInv`), what a TV nobody has handled
  was asked and has done while no switch left it otherwise (`FollowInv`), and that a call which finds another input has asked for nothing yet
  and knows it (`WatchInv`).
- `TvAlwaysOffFirst` (a conjunct of `LitWhenMeant`): the same `CallInv`, and what the call that turns the TV off
  found and has sent when the screen is switched (`AskedInv`).

| Theorem | Assumes | Because |
| --- | --- | --- |
| `ChangesAlwaysAtomic`, `AppAlwaysFits` | of interruptions only `trial` | a swap of an environment and a site is two operations; `AppEnv_cancelled_upgrade` and `RollbackRestoresSite` show what a restart and a cut leave |
| `SiteAlwaysSound` | no job in the seconds before a restart | a job that starts then is ended half-way by the restart; the page disables its buttons, the routes don't |
| `ThumbAlwaysOwn` | a cut at most once, and then no upload without a small copy and none that fails | a cut leaves the small copy of a deleted photo, which a second one would leave beside another photo of its name |
| `WiringStaysSaved` | one request at a time; no backup without devices is restored; nothing fails or comes late where one is restored | `WiringAlwaysSaved` and `RestoreFitsCard`: a restore takes what the card holds from the backup |
| `NetworkAlwaysKept` | a scene has the dashboard's switch or the setup page's joins, not both | nothing in the code keeps them apart: the switch goes by the profiles it read before it joined (`NetworkKept`) |
| `ShownAlwaysSaved` | the default of a list of rows is empty | an emptied list is not saved and its default comes back: `FormRows <- OneRow` |
| `GesturesAlwaysAsMade` | no `strays`: no bounce of a release that counts as no short press; no `stalls`: the app reads within the tick | `LongIsOnePress`: the classifier looks for a bounce after a short press only; it times by the hour it reads, so late reads move presses together |
| `WhatIsToldIsTrue` | one request at a time | two that wait for one task each start another: `Home_twice` |

Only model-checked, because the prover does not reach them: all liveness (`AlwaysUpAgain`, `TrialEnds`, `WayIn`,
`ScreenFollows`, `SettingsApplied`, `HeldGoOut`, `AllKnowInTheEnd`, `RevokedGoes`, `TypedIsReached`, and the ends of
`StepsHelp` and `LitWhenMeant`). No safety invariant and no action property of a passing run is only model-checked.

## What is left out

Of the modelled parts: what a job checks before it starts (versions, feeds, answers on compatibility: a choice
here), the routing of routes and images to an instance, the modules' own loops, how the screen's tool is found,
unlimited buffers (an instance that never reads again would hold up its writers), the compositor's restart,
clocks that jump, two connections of one page at a time, and the order of cards of the same sender. Of the
bridge the screen's, the brightness's and the sensors' topics, of the forms most kinds of field, of backups the
archives, of Wi-Fi the lists and the country, of files the limits in bytes. Components of one `MC` module are
checked side by side, not together: that an OS update comes in the middle of an app's update is in `AppEnv` as
the interruption `trial`, a switch of the network in the middle of either is not.

Not modelled at all: the event bus (calls in order), the API, dashboard and logs (reads), USB power and the
clock (scripts around one tool), the C program around WebKit (a page that crashes or reloads, in `CrashGuard`),
the Matter bridge (a library's server), the app's start, styles, and the image build. `components` in
`PROJECT.json` says so of each.
