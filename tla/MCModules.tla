------------------------------ MODULE MCModules -----------------------------
(***************************************************************************)
(* The third-party modules: the syncs between the core and the module host, *)
(* the forkserver's users and children, and the installation of modules.    *)
(* Each has its own state: a behaviour is of one of them.                   *)
(***************************************************************************)
EXTENDS Naturals, FiniteSets, Sequences

CONSTANTS a, b, Instances, CrashLimit, MaxConns, HostBounds,                  \* ModuleHost's
          Modules, Packed, ModuleUids, PackageUids, Slots, MaxStarts, Nobody, \* Forks'
          Published, ReleaseInfo, Owner, Firsts, MaxFolders, JobScenes        \* Packages'

CONSTANT Parts  \* the components a configuration checks, of "host", "forks", "packages"

VARIABLES
  part,  \* which of them the behaviour is one of
  settings, changes, modulehost_host, modulehost_control, run, sync, waiting, reload, conn, reg, restart, paused,
  crashes, died, bound, lasted,
  uids, forks_host, server, forks_control, child, owner,
  folders, site, link, running, have, scripts, job, page, trusted, torn, left

ModuleHostVars == <<settings, changes, modulehost_host, modulehost_control, run, sync, waiting, reload, conn, reg,
                    restart, paused, crashes, died, bound, lasted>>
ForksVars == <<uids, forks_host, server, forks_control, child, owner>>
PackagesVars == <<folders, site, link, running, have, scripts, job, page, trusted, torn, left>>

\* One instance that crashes and whose settings change, across a restart of the host or more than once, and two, one of
\* whose settings change, across a restart of the host.
OneAndTwo == {[instances |-> {a},    changes |-> 1, hosts |-> 2, crashes |-> 2],
              [instances |-> {a},    changes |-> 2, hosts |-> 1, crashes |-> 2],
              [instances |-> {a},    changes |-> 2, hosts |-> 2, crashes |-> 0],
              [instances |-> {a, b}, changes |-> 1, hosts |-> 2, crashes |-> 0]}

\* A clock of MirrorDash's own with a newer version, one of that name from elsewhere, a news module whose newer
\* version takes the clock's module name, and a broken one.
Release(pkg, from, names, loads) == [pkg |-> pkg, from |-> from, names |-> names, loads |-> loads]
Releases == [clock1 |-> Release("clock", "menturan", {"clock"}, TRUE), clock2 |-> Release("clock", "menturan", {"clock"}, TRUE),
             clock3 |-> Release("clock", "else", {"clock"}, TRUE),
             news1 |-> Release("news", "else", {"news"}, TRUE), news2 |-> Release("news", "else", {"news", "clock"}, TRUE),
             news3 |-> Release("news", "else", {"news"}, FALSE), news4 |-> Release("news", "else", {"news"}, TRUE)]
Names == DOMAIN Releases
Own == {[clock |-> "clock1", news |-> "news1"]}

\* Two jobs with a failure and a restart, or with a restart of the host and settings saved meanwhile.
Quiet == [jobs |-> 2, fails |-> 0, restarts |-> 0, hosts |-> 0, settings |-> 0, hurry |-> 0]
Jobs == {[Quiet EXCEPT !.fails = 1, !.restarts = 1], [Quiet EXCEPT !.hosts = 1, !.settings = 1]}
Cut == {[Quiet EXCEPT !.jobs = 1, !.restarts = 1]}

ModuleHost == INSTANCE ModuleHost WITH
  host <- modulehost_host, control <- modulehost_control, Bounds <- HostBounds
Forks == INSTANCE Forks WITH
  host <- forks_host, control <- forks_control, Packages <- Packed, MaxHosts <- MaxStarts
Packages == INSTANCE Packages WITH
  Releases <- Published, Info <- ReleaseInfo, Official <- Owner

\* What a behaviour is not one of stays 0.
Init ==
  /\ part \in Parts
  /\ IF part = "host" THEN ModuleHost!Init
     ELSE settings = 0 /\ changes = 0 /\ modulehost_host = 0 /\ modulehost_control = 0 /\ run = 0 /\ sync = 0
          /\ waiting = 0 /\ reload = 0 /\ conn = 0 /\ reg = 0 /\ restart = 0 /\ paused = 0 /\ crashes = 0 /\ died = 0
          /\ bound = 0 /\ lasted = 0
  /\ IF part = "forks" THEN Forks!Init
     ELSE uids = 0 /\ forks_host = 0 /\ server = 0 /\ forks_control = 0 /\ child = 0 /\ owner = 0
  /\ IF part = "packages" THEN Packages!Init
     ELSE folders = 0 /\ site = 0 /\ link = 0 /\ running = 0 /\ have = 0 /\ scripts = 0 /\ job = 0 /\ page = 0
          /\ trusted = 0 /\ torn = 0 /\ left = 0
Next ==
  \/ part = "host" /\ ModuleHost!Next /\ UNCHANGED <<part, ForksVars, PackagesVars>>
  \/ part = "forks" /\ Forks!Next /\ UNCHANGED <<part, ModuleHostVars, PackagesVars>>
  \/ part = "packages" /\ Packages!Next /\ UNCHANGED <<part, ModuleHostVars, ForksVars>>
vars == <<part, ModuleHostVars, ForksVars, PackagesVars>>

\* ModuleHost's fairness: the core's tasks and the host's go on.
Spec == Init /\ [][Next]_vars
FairSpec == /\ Spec /\ WF_ModuleHostVars(part = "host" /\ ModuleHost!CoreStep)
            /\ WF_ModuleHostVars(part = "host" /\ ModuleHost!HostStep)

ASSUME ModulesAssumption == ModuleHost!ModuleHostAssumption /\ Forks!ForksAssumption /\ Packages!PackagesAssumption

-----------------------------------------------------------------------------
(* Each property of a component, of that component's behaviours.           *)

\* No module runs on a host whose self-check hasn't found its sandbox closed; an instance has one connection, one that
\* _instances knows; and the loop of syncs never dies (host.start_instance, client._sync, client._run).
SandboxHolds == part = "host" => /\ ModuleHost!TypeOK /\ ModuleHost!SandboxHolds
                                 /\ ModuleHost!OneConnEach /\ ModuleHost!RunLives
\* A running process is stopped only for a change of its own, or another sync is on its way already (_sync).
StopsOnlyChanged == [][part = "host" => ModuleHost!StopsChanged]_vars
\* In the end what runs is what the settings say, whatever was saved, crashed or restarted meanwhile (reload_modules).
SettingsApplied == <>[](part = "host" => ModuleHost!Applied)
\* A module's code runs as a user of its own, for good, without the forkserver's capabilities, and never without a
\* parent to end it (module_uids, fork_child).
UsersAreOwn == part = "forks" => Forks!UsersAreOwn
\* The site that runs has whole modules only, of different names; a change happens as a whole or not at all; and a yes
\* to scripts on a card is its origin's alone (packages.py, _change_packages, uninstall_module).
SiteIsSound == part = "packages" => Packages!SiteIsSound /\ Packages!AllOrNothing /\ Packages!YesIsItsOwn
\* What documents and comments say and the code doesn't do.
PausedStaysOff == [][part = "host" => ModuleHost!PausedStaysOff]_ModuleHostVars
PausedInARow == [][part = "host" => ModuleHost!PausedInARow]_ModuleHostVars
HostLossIsNoCrash == [][part = "host" => ModuleHost!HostLossIsNoCrash]_ModuleHostVars
YesAlwaysItsOwn == part = "packages" => Packages!YesAlwaysItsOwn
PageToldTrue == part = "packages" => Packages!PageToldTrue
=============================================================================
