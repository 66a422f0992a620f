----------------------------- MODULE ModuleHost -----------------------------
(***************************************************************************)
(* The core's side of the module host (features/modules/client.py): one    *)
(* connection to the host's control process, one connection per running    *)
(* module instance, and the tasks that share them between their awaits:    *)
(*   - _run connects, syncs, and reconnects when the host went away;       *)
(*   - _sync makes what runs what the settings say, under a lock, called   *)
(*     by _run, after every settings change and after every crash;         *)
(*   - _serve follows one instance's connection to its end, and starts the *)
(*     instance again or pauses it.                                        *)
(* The host (host.py) is what it is to the core: it checks its sandbox,    *)
(* answers, starts instances or refuses them, and goes away.  A process    *)
(* whose connection the core closed stops by itself and is not followed.   *)
(***************************************************************************)
EXTENDS Integers, FiniteSets

CONSTANTS
  Instances,     \* the module instances there may be
  CrashLimit,    \* CRASH_LIMIT
  MaxConns,      \* bound: connections of instances at a time, the ending ones included
  Bounds         \* bounds, one of which a behaviour keeps: the instances that may be on, how often the settings
                 \* are saved or the Dashboard resumes, the host starts, an instance's process dies by itself

ModuleHostAssumption ==
  /\ CrashLimit \in Nat \ {0, 1} /\ MaxConns \in Nat \ {0}
  /\ Bounds \subseteq [instances : SUBSET Instances, changes : Nat, hosts : Nat \ {0}, crashes : Nat]

None    == 0
Callers == {"run", "other"}
Conns   == 1..MaxConns

VARIABLES
  settings,  \* each instance's settings as saved: their key, or 0: turned off or removed
  changes,   \* bound: how many changes were made (a new key each)
  host,      \* the host's process: its number, what its self-check found, and whether the core came
  control,   \* _control: the host the core is connected to, or None
  run,       \* where the task _run is: "dead" after an exception it doesn't expect
  sync,      \* the _sync that holds _sync_lock: what it read, and where it is
  waiting,   \* who waits for _sync_lock
  reload,    \* a reload_modules that has not come to its _sync yet
  conn,      \* each Connection of an instance, with its _serve task and its process
  reg,       \* _instances: each instance's connection, or None
  restart,   \* the instances whose _serve sleeps before it starts them again
  paused,    \* the instances that crashed too often
  crashes,   \* _crashes
  died,      \* bound: how many processes died by themselves
  bound,     \* the bounds of this behaviour
  lasted     \* history: the instances that ran for CRASH_WINDOW since their last counted crash

owner  == <<settings, changes, reload, bound>>
link   == <<control, run>>
counts == <<paused, crashes, lasted>>
vars   == <<owner, host, link, sync, waiting, conn, reg, restart, counts, died>>

Keys     == 0..(bound.changes + 1)
MaxHosts == bound.hosts

NoConn == [st |-> "free", inst |-> None, key |-> 0, host |-> 0,
           proc |-> "none", old |-> FALSE]
NoSync == [by |-> "other", pc |-> "idle", control |-> 0,
           wanted |-> [i \in Instances |-> 0], todo |-> {}, conn |-> None]

TypeOK ==
  /\ settings \in [Instances -> Keys] /\ bound \in Bounds /\ changes \in 0..bound.changes /\ reload \in BOOLEAN
  /\ host \in [no : 1..MaxHosts, st : {"down", "checking", "closed", "open"}, taken : BOOLEAN]
  /\ control \in 0..MaxHosts /\ run \in {"connect", "sync", "read", "dead"}
  /\ sync \in [by : Callers, pc : {"idle", "uids", "lan", "loop", "open"}, control : 0..MaxHosts,
               wanted : [Instances -> Keys], todo : SUBSET Instances, conn : 0..MaxConns]
  /\ waiting \subseteq Callers
  /\ conn \in [Conns -> [st : {"free", "opening", "served", "closed", "ended"}, inst : Instances \cup {None},
                         key : Keys, host : 0..MaxHosts,
                         proc : {"none", "asked", "alive", "gone"}, old : BOOLEAN]]
  /\ reg \in [Instances -> 0..MaxConns]
  /\ restart \subseteq Instances /\ paused \subseteq Instances /\ lasted \subseteq Instances
  /\ crashes \in [Instances -> Nat] /\ died \in 0..bound.crashes

Init ==
  /\ bound \in Bounds
  /\ settings = [i \in Instances |-> IF i \in bound.instances THEN 1 ELSE 0] /\ changes = 0 /\ reload = FALSE
  /\ host = [no |-> 1, st |-> "checking", taken |-> FALSE]
  /\ control = None /\ run = "connect"
  /\ sync = NoSync /\ waiting = {}
  /\ conn = [c \in Conns |-> NoConn] /\ reg = [i \in Instances |-> None] /\ restart = {}
  /\ paused = {} /\ crashes = [i \in Instances |-> 0] /\ died = 0 /\ lasted = {}

HostUp(h)   == host.no = h /\ host.st # "down"
Syncing(pc) == sync.pc = pc

-----------------------------------------------------------------------------
(* The owner. *)

\* Settings saved, an instance turned off or on again; reload_modules follows.
SaveSettings ==
  /\ changes < bound.changes
  /\ changes' = changes + 1
  /\ \E i \in bound.instances, key \in {0, changes + 2} :
       key # settings[i] /\ settings' = [settings EXCEPT ![i] = key]
  /\ reload' = TRUE
  /\ UNCHANGED <<bound, host, link, sync, waiting, conn, reg, restart, counts, died>>

\* Without a connection the next one's sync will do.
AskForSync_Once ==  \* (mutant) the sync that runs will do
  waiting' = IF control = None \/ sync.pc # "idle" THEN waiting ELSE waiting \cup {"other"}
AskForSync == waiting' = IF control = None THEN waiting ELSE waiting \cup {"other"}

\* reload_modules, after the screen was told.
ReloadModules ==
  /\ reload /\ reload' = FALSE
  /\ AskForSync
  /\ UNCHANGED <<settings, changes, bound, host, link, sync, conn, reg, restart, counts, died>>

\* The Dashboard's button.
Resume ==
  /\ paused # {} /\ changes < bound.changes
  /\ changes' = changes + 1
  /\ paused' = {} /\ crashes' = [i \in Instances |-> 0] /\ lasted' = {}
  /\ AskForSync
  /\ UNCHANGED <<settings, reload, bound, host, link, sync, conn, reg, restart, died>>

-----------------------------------------------------------------------------
(* The host: systemd starts it again whenever it is gone. *)

HostGone ==
  /\ host' = [host EXCEPT !.st = "down"]
  /\ conn' = [c \in Conns |-> IF conn[c].host = host.no /\ conn[c].proc # "none"
                              THEN [conn[c] EXCEPT !.proc = "gone"] ELSE conn[c]]
  /\ UNCHANGED <<owner, link, sync, waiting, reg, restart, counts, died>>

\* It dies, or its unit is restarted.
HostDies == host.st # "down" /\ host.no < bound.hosts /\ HostGone

\* serve returns when the core's connection ends.
HostExits == host.st # "down" /\ host.taken /\ control # host.no /\ HostGone

HostStarts ==
  /\ host.st = "down" /\ host.no < bound.hosts
  /\ host' = [no |-> host.no + 1, st |-> "checking", taken |-> FALSE]
  /\ UNCHANGED <<owner, link, sync, waiting, conn, reg, restart, counts, died>>

\* Control._check: what a module could reach.
HostChecks ==
  /\ host.st = "checking" /\ host.taken
  /\ \E found \in {"closed", "open"} : host' = [host EXCEPT !.st = found]
  /\ UNCHANGED <<owner, link, sync, waiting, conn, reg, restart, counts, died>>

\* Control.start_instance: refused until the self-check ran, and while it found the sandbox open.
Refuses_Unchecked == host.st = "open"  \* (mutant) trusts the core to have waited for the self-check
Refuses == host.st # "closed"

HostStartsInstance(c) ==
  /\ conn[c].proc = "asked" /\ HostUp(conn[c].host)
  /\ conn' = [conn EXCEPT ![c].proc = IF Refuses THEN "gone" ELSE "alive"]
  /\ UNCHANGED <<owner, host, link, sync, waiting, reg, restart, counts, died>>

\* An instance's process dies by itself: out of memory, or a crash.
InstanceDies(c) ==
  /\ conn[c].proc = "alive" /\ died < bound.crashes
  /\ conn' = [conn EXCEPT ![c].proc = "gone"]
  /\ died' = died + 1
  /\ UNCHANGED <<owner, host, link, sync, waiting, reg, restart, counts>>

\* It has run for CRASH_WINDOW.
InstanceLasts(c) ==
  /\ conn[c].proc = "alive" /\ conn[c].st = "served" /\ ~conn[c].old /\ died < bound.crashes
  /\ conn' = [conn EXCEPT ![c].old = TRUE]
  /\ lasted' = lasted \cup {conn[c].inst}
  /\ UNCHANGED <<owner, host, link, sync, waiting, reg, restart, paused, crashes, died>>

-----------------------------------------------------------------------------
(* _run, the connection to the control process. *)

RunConnects ==
  /\ run = "connect" /\ host.st # "down" /\ ~host.taken
  /\ control' = host.no /\ host' = [host EXCEPT !.taken = TRUE]
  /\ run' = "sync" /\ waiting' = waiting \cup {"run"}
  /\ UNCHANGED <<owner, sync, conn, reg, restart, counts, died>>

\* _stop, for each of them.
Closed(c) == [conn[c] EXCEPT !.st = "closed", !.proc = "none"]
Stopped(is) == [c \in Conns |-> IF \E i \in is : reg[i] = c /\ conn[c].st = "served"
                                THEN Closed(c) ELSE conn[c]]

\* _disconnected: every instance is stopped, the control's connection closed.
Disconnected ==
  /\ conn' = Stopped(Instances)
  /\ reg' = [i \in Instances |-> None]
  /\ control' = None

MayLoseHost_Syncing == run # "connect"  \* (mutant) the connection's end stops everything, the sync too
MayLoseHost == run = "read"

RunLosesHost ==
  /\ MayLoseHost /\ control # None /\ ~HostUp(control)
  /\ Disconnected /\ run' = "connect"
  /\ UNCHANGED <<owner, host, sync, waiting, restart, counts, died>>

-----------------------------------------------------------------------------
(* _sync. *)

\* The settings and what is held back, read once, then the host asked for the users.
Wanted == [i \in Instances |-> IF i \in paused THEN 0 ELSE settings[i]]

SyncBegins(caller) ==
  /\ caller \in waiting /\ Syncing("idle")
  /\ waiting' = waiting \ {caller}
  /\ sync' = IF control = None THEN sync
             ELSE [NoSync EXCEPT !.by = caller, !.pc = "uids", !.control = control, !.wanted = Wanted]
  /\ UNCHANGED <<owner, host, link, conn, reg, restart, counts, died>>

\* The host's answer, once its self-check ran; with a hole in it nothing is wanted.
UidsAnswered ==
  /\ Syncing("uids") /\ control = sync.control
  /\ HostUp(control) /\ host.st \in {"closed", "open"}
  /\ sync' = [sync EXCEPT !.pc = "lan", !.control = 0,
                          !.wanted = IF host.st = "open" THEN [i \in Instances |-> 0] ELSE @]
  /\ UNCHANGED <<owner, host, link, waiting, conn, reg, restart, counts, died>>

(* A sync that raised (the connection was closed, the host gave no answer, or its socket is
   gone): _run starts over with a new connection, everybody else leaves it to that. *)
SyncFails ==
  /\ sync' = NoSync
  /\ IF sync.by = "run" THEN Disconnected /\ run' = "connect" ELSE UNCHANGED <<conn, reg, link>>
  /\ UNCHANGED <<owner, host, waiting, restart, counts, died>>

UidsFail == Syncing("uids") /\ (control # sync.control \/ ~HostUp(control)) /\ SyncFails

\* The home network opened; then the instances stopped that aren't wanted as they run.
ToStop_All == {i \in Instances : reg[i] # None}  \* (mutant) every save restarts every instance
ToStop == {i \in Instances : reg[i] # None /\ conn[reg[i]].key # sync.wanted[i]}

LanApplied ==
  /\ Syncing("lan")
  /\ conn' = Stopped(ToStop)
  /\ reg' = [i \in Instances |-> IF i \in ToStop THEN None ELSE reg[i]]
  /\ sync' = [sync EXCEPT !.pc = "loop", !.todo = {i \in Instances : sync.wanted[i] # 0}]
  /\ UNCHANGED <<owner, host, link, waiting, restart, counts, died>>

IsRunning_Never(i) == FALSE  \* (mutant) started without a look at what runs
IsRunning(i) == reg[i] # None

\* One that runs gets its card sent to the reloaded screen.
LeavesRunning(i) ==
  /\ Syncing("loop") /\ i \in sync.todo /\ IsRunning(i)
  /\ sync' = [sync EXCEPT !.todo = @ \ {i}]
  /\ UNCHANGED <<owner, host, link, waiting, conn, reg, restart, counts, died>>

\* _open_instance: the sockets of a new process sent to the host.
OpensInstance(i) ==
  /\ Syncing("loop") /\ i \in sync.todo /\ ~IsRunning(i) /\ HostUp(control)
  /\ \E c \in Conns :
       /\ conn[c].st = "free" /\ \A d \in 1..(c - 1) : conn[d].st # "free"
       /\ conn' = [conn EXCEPT ![c] = [st |-> "opening", inst |-> i, key |-> sync.wanted[i],
                                       host |-> control, proc |-> "asked", old |-> FALSE]]
       /\ sync' = [sync EXCEPT !.pc = "open", !.todo = @ \ {i}, !.conn = c]
  /\ UNCHANGED <<owner, host, link, waiting, reg, restart, counts, died>>

\* The host is gone: an OSError.
OpenFails(i) ==
  /\ Syncing("loop") /\ i \in sync.todo /\ ~IsRunning(i)
  /\ control # None /\ ~HostUp(control)
  /\ SyncFails

\* The connection was closed meanwhile: _control is None, an AttributeError nobody expects.
OpenBreaks(i) ==
  /\ Syncing("loop") /\ i \in sync.todo /\ ~IsRunning(i)
  /\ control = None
  /\ sync' = NoSync
  /\ run' = IF sync.by = "run" THEN "dead" ELSE run
  /\ UNCHANGED <<owner, host, control, waiting, conn, reg, restart, counts, died>>

\* _start: registered and served, then its settings sent.
Registered ==
  /\ reg' = [reg EXCEPT ![conn[sync.conn].inst] = sync.conn]
  /\ conn' = [conn EXCEPT ![sync.conn].st = "served"]

Starts ==
  /\ Syncing("open") /\ Registered
  /\ sync' = [sync EXCEPT !.pc = "loop", !.conn = None]
  /\ UNCHANGED <<owner, host, link, waiting, restart, counts, died>>

\* Its process is gone already: the start can't be sent, and the sync ends there.
StartNotSent ==
  /\ Syncing("open") /\ conn[sync.conn].proc = "gone"
  /\ sync' = NoSync
  /\ IF sync.by = "run"
     THEN /\ conn' = [Stopped(Instances) EXCEPT ![sync.conn] = Closed(sync.conn)]
          /\ reg' = [i \in Instances |-> None] /\ control' = None /\ run' = "connect"
     ELSE Registered /\ UNCHANGED link
  /\ UNCHANGED <<owner, host, waiting, restart, counts, died>>

SyncEnds ==
  /\ Syncing("loop") /\ sync.todo = {}
  /\ sync' = NoSync
  /\ run' = IF sync.by = "run" THEN "read" ELSE run
  /\ UNCHANGED <<owner, host, control, waiting, conn, reg, restart, counts, died>>

-----------------------------------------------------------------------------
(* _serve, the end of an instance's connection. *)

\* Its process ended, or the core closed it; then its video is told to be over.
ServeEnds(c) ==
  /\ \/ conn[c].st = "served" /\ conn[c].proc = "gone"
     \/ conn[c].st = "closed"
  /\ conn' = [conn EXCEPT ![c].st = "ended", ![c].proc = "none"]
  /\ UNCHANGED <<owner, host, link, sync, waiting, reg, restart, counts, died>>

\* Then, unless the core stopped it, a crash: the next one in a row, or the first again.
CrashCount(c) == IF conn[c].old THEN 1 ELSE crashes[conn[c].inst] + 1
IsRegistered(c) == reg[conn[c].inst] = c

ServeCounts(c) ==
  LET i == conn[c].inst IN
  /\ conn[c].st = "ended"
  /\ conn' = [conn EXCEPT ![c] = NoConn]
  /\ IF IsRegistered(c)
     THEN /\ reg' = [reg EXCEPT ![i] = None]
          /\ crashes' = [crashes EXCEPT ![i] = CrashCount(c)]
          /\ lasted' = lasted \ {i}
          /\ IF CrashCount(c) >= CrashLimit
             THEN paused' = paused \cup {i} /\ UNCHANGED restart
             ELSE restart' = restart \cup {i} /\ UNCHANGED paused
     ELSE UNCHANGED <<reg, counts, restart>>
  /\ UNCHANGED <<owner, host, link, sync, waiting, died>>

\* RESTART_DELAY later.
ServeRestarts(i) ==
  /\ i \in restart
  /\ restart' = restart \ {i}
  /\ waiting' = waiting \cup {"other"}
  /\ UNCHANGED <<owner, host, link, sync, conn, reg, counts, died>>

-----------------------------------------------------------------------------
CoreStep ==
  \/ ReloadModules \/ RunConnects \/ RunLosesHost
  \/ \E caller \in Callers : SyncBegins(caller)
  \/ UidsAnswered \/ UidsFail \/ LanApplied
  \/ \E i \in Instances : LeavesRunning(i) \/ OpensInstance(i) \/ OpenFails(i) \/ OpenBreaks(i)
  \/ Starts \/ StartNotSent \/ SyncEnds
  \/ \E c \in Conns : ServeEnds(c) \/ ServeCounts(c)
  \/ \E i \in Instances : ServeRestarts(i)

HostStep == HostExits \/ HostStarts \/ HostChecks \/ \E c \in Conns : HostStartsInstance(c)

Trouble == HostDies \/ \E c \in Conns : InstanceDies(c) \/ InstanceLasts(c)

Next == CoreStep \/ HostStep \/ Trouble \/ SaveSettings \/ Resume

Spec == Init /\ [][Next]_vars

\* The event loop runs what is ready and systemd starts the host again: no more is asked.
FairSpec == Spec /\ WF_vars(CoreStep) /\ WF_vars(HostStep)

-----------------------------------------------------------------------------
(* Properties. *)

\* No module runs on a host whose self-check has not found its sandbox closed, however old the
\* settings and the answer the sync that starts it goes by (host.py start_instance: fail closed).
SandboxHolds == \A c \in Conns : conn[c].proc = "alive" => HostUp(conn[c].host) /\ host.st = "closed"

\* An instance has one open connection, so one process at a time (two would share its files and its card on
\* the screen), and it is one _instances knows: nothing else could ever stop its process (_stop: nothing
\* else may signal it, another user's).
Open == {c \in Conns : conn[c].st \in {"opening", "served"}}
OneConnEach ==
  /\ \A c, d \in Open : conn[c].inst = conn[d].inst => c = d
  /\ \A c \in Open : sync.conn = c \/ reg[conn[c].inst] = c

\* _run never meets an exception it doesn't catch: no module would start until the core does.
RunLives == run # "dead"

\* A running process is stopped only for a change of its settings, its pause, an open sandbox or
\* a lost host (_sync: "the others left running"), or else a further sync is on its way already.
StopsChanged ==
  \A c \in Conns : conn[c].proc = "alive" /\ conn[c].st = "served" /\ conn'[c].st = "closed" =>
       \/ control' = None \/ host.st = "open"
       \/ conn[c].key # settings[conn[c].inst] \/ conn[c].inst \in paused
       \/ reload \/ waiting # {}
StopsOnlyChanged == [][StopsChanged]_vars

\* What runs is what the settings say, unless it is paused or the host's sandbox is open.
AsWanted ==
  \A i \in Instances :
    IF settings[i] = 0 \/ host.st = "open" THEN reg[i] = None
    ELSE i \in paused \/ (reg[i] # None /\ conn[reg[i]].key = settings[i] /\ conn[reg[i]].proc = "alive")

\* Whatever was saved, crashed or restarted meanwhile, in the end what runs is what the settings
\* say: no change is lost between the syncs, the reconnects and the restarts after a crash.
Applied == host.st = "down" \/ AsWanted
SettingsApplied == <>[]Applied

\* A paused instance stays off until it is resumed: what _serve's log message promises ("it stays
\* off until the modules are started again on the Dashboard").
PausedStaysOff == \A i \in paused : reg[i] = None /\ i \in paused' => reg'[i] = None

\* An instance is paused only after quick deaths in a row (CRASH_WINDOW's comment, _serve): one
\* that ran for CRASH_WINDOW since its last crash begins a new row.
PausedInARow == \A i \in paused' \ paused : i \notin lasted

\* An instance that ended because the host went is no crash of its own (_serve: "stopped: its
\* settings changed, or the host went").
HostLossIsNoCrash ==
  \A c \in Conns : conn[c].st = "ended" /\ conn'[c].st = "free" /\ crashes' # crashes => HostUp(conn[c].host)
=============================================================================
