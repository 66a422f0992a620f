------------------------------ MODULE CardShown ------------------------------
(***************************************************************************)
(* What a module hears of its card being on the screen.  The display loop  *)
(* switches the screen and watches the schedules (power/display_power.py), *)
(* privacy mode comes with commands (power/privacy.py), and a sync of the  *)
(* module host's client tells it all again (modules/client.py); each       *)
(* instance hears it as lines on its connection (modules/instance.py) and  *)
(* its module as on_shown (modules/loader.py).  How instances come to run  *)
(* is ModuleHost's; here every instance of the settings runs or is about   *)
(* to be started again.                                                    *)
(***************************************************************************)
EXTENDS Integers, Sequences

CONSTANTS
  Instances,    \* the module instances of the settings
  FirstConfigs, \* bound: the settings a behaviour begins with
  MaxMoves,     \* bound: how often the screen, privacy, a mark or a schedule changes
  MaxDeaths     \* bound: processes that die

Configs == [privacy : BOOLEAN, marked : SUBSET Instances]
CardShownAssumption == MaxMoves \in Nat /\ MaxDeaths \in Nat /\ FirstConfigs \subseteq Configs
Lines   == [t : {"start"}, awake : BOOLEAN, hidden : BOOLEAN] \union [t : {"awake", "hidden"}, on : BOOLEAN]
Told    == [by : {"loop", "command", "save"}, config : Configs]

VARIABLES
  config,         \* the saved privacy mode, and the instances marked for it
  scheduled,      \* the instances their schedules hide now
  scheduled_out,  \* those of the display loop's last pass
  on,             \* display_power_manager.awake: whether the screen is on
  posted,         \* the awake line set_awake has put on the event loop: at most one
  telling,        \* the callers whose message waits for the page, in turn
  hidden,         \* module_host._hidden
  asked,          \* syncs that wait for the lock
  sync,           \* the one that has it: what it read, and whom it has yet to look at
  proc,           \* per instance: its process, when one is registered
  overlapped,     \* history: the screen or the settings changed while a sync ran
  late,           \* history: a process read its start together with a later line
  moves, deaths   \* bounds: how often

world == <<config, scheduled, on>>
vars  == <<world, scheduled_out, posted, telling, hidden, asked, sync, proc, overlapped, late, moves, deaths>>

\* A process just forked: its HostLink and loader before anything is read (instance.py).
Fresh    == [up |-> TRUE, inbox |-> <<>>, awake |-> TRUE, hidden |-> FALSE, shown |-> {}]  \* shown: last_shown
NoProc   == [Fresh EXCEPT !.up = FALSE]
Procs    == [up : BOOLEAN, inbox : Seq(Lines), awake : BOOLEAN, hidden : BOOLEAN, shown : SUBSET BOOLEAN]
SyncIdle == [pc |-> "idle", config |-> [privacy |-> FALSE, marked |-> {}], awake |-> TRUE, todo |-> {}]

TypeOK ==
  /\ config \in Configs /\ scheduled \subseteq Instances /\ scheduled_out \subseteq Instances
  /\ on \in BOOLEAN /\ posted \subseteq BOOLEAN /\ telling \in Seq(Told)
  /\ hidden \subseteq Instances /\ asked \in Nat
  /\ sync \in [pc : {"idle", "asks", "starts"}, config : Configs, awake : BOOLEAN, todo : SUBSET Instances]
  /\ proc \in [Instances -> Procs] /\ overlapped \in BOOLEAN /\ late \in BOOLEAN
  /\ moves \in 0..MaxMoves /\ deaths \in 0..MaxDeaths

\* The core has just started, the host's connection is new and its first sync asked for.
Init ==
  /\ config \in FirstConfigs /\ scheduled = {} /\ scheduled_out = {} /\ on = TRUE /\ posted = {}
  /\ telling = <<>> /\ hidden = {} /\ asked = 1 /\ sync = SyncIdle
  /\ proc = [i \in Instances |-> NoProc] /\ overlapped = FALSE /\ late = FALSE /\ moves = 0 /\ deaths = 0

-----------------------------------------------------------------------------
(* The lines to the instances.                                             *)

Running == {i \in Instances : proc[i].up}

Sent(to, lines) == [i \in Instances |-> IF i \in to \intersect Running
                                          THEN [proc[i] EXCEPT !.inbox = Append(@, lines[i])] ELSE proc[i]]

\* hidden_instances(config): by the schedules as they are now, and the privacy mode of config.
HiddenBy(c) == scheduled \union IF c.privacy THEN Instances \ c.marked ELSE {}

\* set_hidden: the instances whose state changed are told.
SetHidden(now) ==
  /\ hidden' = now
  /\ proc' = Sent((now \ hidden) \union (hidden \ now), [i \in Instances |-> [t |-> "hidden", on |-> i \in now]])

-----------------------------------------------------------------------------
(* The screen, privacy mode, the schedules and the settings.               *)

Moves ==
  /\ moves < MaxMoves /\ moves' = moves + 1
  /\ overlapped' = (overlapped \/ sync.pc # "idle" \/ asked > 0)

LoopWaits == \E n \in DOMAIN telling : telling[n].by = "loop"

\* The loop's set_state has switched the screen; set_awake hands its line to the event loop.
Switches ==
  /\ Moves /\ ~LoopWaits /\ posted = {}
  /\ on' = ~on /\ posted' = {on'}
  /\ UNCHANGED <<config, scheduled, scheduled_out, telling, hidden, asked, sync, proc, late, deaths>>

Posts_Shown ==  \* (mutant) an instance whose card is hidden is left alone
  /\ posted # {}
  /\ proc' = Sent(Running \ hidden, [i \in Instances |-> [t |-> "awake", on |-> TRUE \in posted]]) /\ posted' = {}
  /\ UNCHANGED <<world, scheduled_out, telling, hidden, asked, sync, overlapped, late, moves, deaths>>

\* The event loop's next turn: the line goes to the instances registered by then.
Posts ==
  /\ posted # {}
  /\ proc' = Sent(Running, [i \in Instances |-> [t |-> "awake", on |-> TRUE \in posted]]) /\ posted' = {}
  /\ UNCHANGED <<world, scheduled_out, telling, hidden, asked, sync, overlapped, late, moves, deaths>>

\* set_privacy: saved, and the page told first.
SetPrivacy ==
  /\ Moves /\ config' = [config EXCEPT !.privacy = ~@]
  /\ telling' = Append(telling, [by |-> "command", config |-> config'])
  /\ UNCHANGED <<scheduled, scheduled_out, on, posted, hidden, asked, sync, proc, late, deaths>>

\* An instance's "Shown in Privacy Mode" is saved: the page reloads first (reload_modules).
Marks(i) ==
  /\ Moves
  /\ config' = [config EXCEPT !.marked = IF i \in @ THEN @ \ {i} ELSE @ \union {i}]
  /\ telling' = Append(telling, [by |-> "save", config |-> config'])
  /\ UNCHANGED <<scheduled, scheduled_out, on, posted, hidden, asked, sync, proc, late, deaths>>

\* The clock comes to the start or the end of i's schedule: minutes apart, and the loop passes in between.
Turns(i) ==
  /\ Moves /\ (i \in scheduled <=> i \in scheduled_out)
  /\ scheduled' = IF i \in scheduled THEN scheduled \ {i} ELSE scheduled \union {i}
  /\ UNCHANGED <<config, on, scheduled_out, posted, telling, hidden, asked, sync, proc, late, deaths>>

\* The display loop's pass: other instances are hidden by schedule than at its last one.
SendsSchedules ==
  /\ ~LoopWaits /\ scheduled # scheduled_out
  /\ scheduled_out' = scheduled /\ telling' = Append(telling, [by |-> "loop", config |-> config])
  /\ UNCHANGED <<world, posted, hidden, asked, sync, proc, overlapped, late, moves, deaths>>

\* The page has the message or was dropped.  A command and the loop tell the instances now
\* (broadcast_screen), a save has them synced.
PageHas ==
  /\ telling # <<>> /\ telling' = Tail(telling)
  /\ \/ /\ Head(telling).by # "save" /\ SetHidden(HiddenBy(Head(telling).config)) /\ UNCHANGED asked
     \/ /\ Head(telling).by = "save" /\ asked' = asked + 1 /\ UNCHANGED <<hidden, proc>>
  /\ UNCHANGED <<world, scheduled_out, posted, sync, overlapped, late, moves, deaths>>

-----------------------------------------------------------------------------
(* The sync of the module host's client.                                   *)

\* It has the lock, reads the settings and asks the host, which checks the sandbox before it answers.
SyncBegins ==
  /\ asked > 0 /\ sync.pc = "idle"
  /\ asked' = asked - 1 /\ sync' = [SyncIdle EXCEPT !.pc = "asks", !.config = config]
  /\ UNCHANGED <<world, scheduled_out, posted, telling, hidden, proc, overlapped, late, moves, deaths>>

SyncTells_Marked ==  \* (mutant) without hidden_instances: saved marks are not told
  /\ sync.pc = "asks"
  /\ sync' = [sync EXCEPT !.pc = "starts", !.awake = on, !.todo = Instances]
  /\ UNCHANGED <<world, scheduled_out, posted, telling, hidden, proc, asked, overlapped, late, moves, deaths>>

\* The host has answered: who is hidden is told by the settings read before.
SyncTells ==
  /\ sync.pc = "asks"
  /\ SetHidden(HiddenBy(sync.config))
  /\ sync' = [sync EXCEPT !.pc = "starts", !.awake = on, !.todo = Instances]
  /\ UNCHANGED <<world, scheduled_out, posted, telling, asked, overlapped, late, moves, deaths>>

\* _start: registered and its start written in one turn of the event loop.
Starts(i) ==
  proc' = [proc EXCEPT ![i] = [Fresh EXCEPT !.inbox =
             <<[t |-> "start", awake |-> sync.awake, hidden |-> i \in hidden]>>]]

\* One instance of the loop: a running one's card is sent to the page again, another is started.
SyncVisits(i) ==
  /\ sync.pc = "starts" /\ i \in sync.todo /\ sync' = [sync EXCEPT !.todo = @ \ {i}]
  /\ IF proc[i].up THEN UNCHANGED proc ELSE Starts(i)
  /\ UNCHANGED <<world, scheduled_out, posted, telling, hidden, asked, overlapped, late, moves, deaths>>

SyncEnds ==
  /\ sync.pc = "starts" /\ sync.todo = {} /\ sync' = SyncIdle
  /\ UNCHANGED <<world, scheduled_out, posted, telling, hidden, asked, proc, overlapped, late, moves, deaths>>

\* A process ends by itself; _serve takes it out and asks for a sync some seconds later.
Dies(i) ==
  /\ deaths < MaxDeaths /\ deaths' = deaths + 1
  /\ proc[i].up /\ proc' = [proc EXCEPT ![i] = NoProc] /\ asked' = asked + 1
  /\ UNCHANGED <<world, scheduled_out, posted, telling, hidden, sync, overlapped, late, moves>>

-----------------------------------------------------------------------------
(* An instance's process.                                                  *)

\* _handle of awake and hidden lines, one after the other: what the last of a kind says stands, or what stood before,
\* and each line spawns a shown() of both.
Stands(kind, lines, before) ==
  \/ \E n \in DOMAIN lines : lines[n].t = kind /\ lines[n].on /\ \A m \in n+1..Len(lines) : lines[m].t # kind
  \/ before /\ \A n \in DOMAIN lines : lines[n].t # kind
Heard(p, lines) ==
  LET wakes == Stands("awake", lines, p.awake)  hides == Stands("hidden", lines, p.hidden)
  IN [p EXCEPT !.awake = wakes, !.hidden = hides, !.shown = {wakes /\ ~hides}]

\* The start is a task that runs when the read loop waits: after the n lines that were in the buffer
\* with it, whose awake and hidden it overwrites; their shown() are tasks that run after it.
Boots(i, n) ==
  LET start  == Head(proc[i].inbox)
      behind == Heard(proc[i], SubSeq(proc[i].inbox, 2, n + 1))
  IN /\ start.t = "start" /\ late' = (late \/ n > 0)
     /\ proc' = [proc EXCEPT ![i] =
          [behind EXCEPT !.inbox = SubSeq(proc[i].inbox, n + 2, Len(proc[i].inbox)),
                         !.awake = start.awake, !.hidden = start.hidden,
                         !.shown = IF n = 0 THEN {start.awake /\ ~start.hidden} ELSE behind.shown]]
     /\ UNCHANGED <<world, scheduled_out, posted, telling, hidden, asked, sync, overlapped, moves, deaths>>

Hears(i) ==
  /\ Head(proc[i].inbox).t # "start"
  /\ proc' = [proc EXCEPT ![i] = [Heard(proc[i], <<Head(proc[i].inbox)>>) EXCEPT !.inbox = Tail(proc[i].inbox)]]
  /\ UNCHANGED <<world, scheduled_out, posted, telling, hidden, asked, sync, overlapped, late, moves, deaths>>

Reads(i) ==
  /\ proc[i].inbox # <<>>
  /\ Hears(i) \/ \E n \in 0..(Len(proc[i].inbox) - 1) : Boots(i, n)

-----------------------------------------------------------------------------
Next ==
  \/ Switches \/ Posts \/ SetPrivacy \/ SendsSchedules \/ PageHas
  \/ SyncBegins \/ SyncTells \/ SyncEnds
  \/ \E i \in Instances : Marks(i) \/ Turns(i) \/ SyncVisits(i) \/ Dies(i) \/ Reads(i)

Spec == Init /\ [][Next]_vars

\* Every wait ends: the page's is bounded by SEND_TIMEOUT, the host's by 90 s, the loop passes each second,
\* and a process reads what is in its buffer.
Works == Posts \/ SendsSchedules \/ PageHas \/ SyncBegins \/ SyncTells \/ SyncEnds
           \/ \E i \in Instances : SyncVisits(i) \/ Reads(i)
FairSpec == Spec /\ WF_vars(Works)

-----------------------------------------------------------------------------
(* Properties.                                                             *)

Shown(i) == on /\ i \notin HiddenBy(config)

\* Nothing is on its way to anyone.
Quiet ==
  /\ posted = {} /\ telling = <<>> /\ asked = 0 /\ sync.pc = "idle" /\ scheduled = scheduled_out
  /\ \A i \in Instances : proc[i].inbox = <<>>

\* A module knows whether its card is on the screen: once nothing is on its way, the last on_shown it got is
\* what the screen, its schedule and privacy mode say (loader.shown; ARCHITECTURE #46 "so a radio stops when
\* its card goes"), and its fetches wait exactly while the screen is off (display_power.py's docstring
\* "While the screen is off the modules sleep").  Not so once something changed while a sync ran or a start
\* was read late: HiddenAsSaved, SleepsUnlessLate, SleepsUnlessOverlapped.
ModuleKnows ==
  Quiet /\ ~overlapped /\ ~late => \A i \in Running : proc[i].shown = {Shown(i)} /\ proc[i].awake = on

\* Once nothing is on its way, the instances told that their cards are hidden are those the saved settings
\* and the clock hide (privacy.hidden_instances; ARCHITECTURE #46 "the core tells each instance whose card a
\* schedule or privacy mode hides or shows again").
HiddenAsSaved == Quiet => hidden = HiddenBy(config)

\* Once nothing is on its way the fetches of every module wait exactly while the screen is off, also when a
\* change overlapped a sync, and also when a start was read late: the docstring has neither exception.
SleepsUnlessLate       == Quiet /\ ~late => \A i \in Running : proc[i].awake = on
SleepsUnlessOverlapped == Quiet /\ ~overlapped => \A i \in Running : proc[i].awake = on

\* What an instance has been told last, read or not, is what the core believes it told it: set_hidden tells
\* only the changes, so a difference would never be told (client.set_hidden, _start).  Also when changes overlap a sync.
SaysHidden(line) == IF line.t = "start" THEN line.hidden ELSE line.on
LastHidden(i) ==
  LET lines == proc[i].inbox
  IN \/ \E n \in DOMAIN lines : /\ lines[n].t # "awake" /\ SaysHidden(lines[n])
                               /\ \A m \in n+1..Len(lines) : lines[m].t = "awake"
     \/ proc[i].hidden /\ \A n \in DOMAIN lines : lines[n].t = "awake"
CoreKnowsTold == ~late => \A i \in Running : LastHidden(i) = (i \in hidden)

\* When nothing changes any more every instance comes to run and to know whether its card is shown, with
\* the exceptions of ModuleKnows.
AllKnow == overlapped \/ late \/ \A i \in Instances : proc[i].up /\ proc[i].shown = {Shown(i)}
AllKnowInTheEnd == <>[]AllKnow

=============================================================================
