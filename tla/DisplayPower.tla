---------------------------- MODULE DisplayPower ----------------------------
(***************************************************************************)
(* When the screen is on: the loop and the commands of DisplayPowerManager *)
(* (features/power/display_power.py), the screen it switches and the TV it *)
(* asks over HDMI-CEC (features/hardware/cec.py).  A tick is a minute of   *)
(* the wake timer; every other step takes seconds.                         *)
(***************************************************************************)
EXTENDS Integers, FiniteSets

CONSTANTS
  Modes,      \* the base modes the owner may save
  Extends,    \* the ways to count they may save
  Timeout,    \* timeout_minutes, in ticks
  Asks,       \* a call's own timeout_minutes; 0 is none given
  Cec,        \* whether the cec setting is on
  HasTv,      \* whether the screen answers over HDMI-CEC
  Drops,      \* whether the TV has no address in standby: some may
  Wakers,     \* bound: calls of set_tv_power(True) under way together
  Kinds,      \* what may happen around the loop
  MaxHappens, \* bound: how often
  MaxFaults   \* bound: switches of the screen that fail, or that the tool tells wrong

ASSUME DisplayPowerAssumption ==
  /\ Modes \subseteq {"manual", "interval", "wake"} /\ Modes # {} /\ Extends \subseteq BOOLEAN /\ Extends # {}
  /\ Timeout \in Nat \ {0} /\ Asks \subseteq Nat /\ "off" \notin Wakers
  /\ Cec \in BOOLEAN /\ HasTv \in BOOLEAN /\ Drops \subseteq BOOLEAN /\ Drops # {}
  /\ Kinds \subseteq {"call", "move", "turn", "save", "restart", "remote"} /\ MaxHappens \in Nat /\ MaxFaults \in Nat

Larger(a, b) == IF a < b THEN b ELSE a

Power   == {"on", "off", "unknown"}
Configs == [mode : Modes, extend : Extends, presence : BOOLEAN]
Tasks   == Wakers \union {"off"}   \* set_tv_power(True) in the background, and set_tv_power(False)
Calls   == [stage : {"idle", "ask", "send", "power", "view", "only view", "source"}, others : BOOLEAN]
Idle    == [stage |-> "idle", others |-> FALSE]

VARIABLES
  config,     \* the saved display_control
  inside,     \* whether the schedule's interval has now in it
  motion,     \* gpio_inputs.motion_active
  seen,       \* the loop's config and inside, read at the start of its pass
  pc, target, \* where the loop is, and what it asks set_state for
  is_on, forced_off, last_base, was_present,
  wake_left,  \* the minutes until wake_until
  due,        \* whether the loop has not decided since the last tick
  lit,        \* the screen's output
  amiss,      \* history: what the last switch left wrong: the "screen" is not as it was told, the "tv" not as asked
  crosses,    \* history: whether a call that turns the TV on, or the remote, comes in between while the TV is asked and the screen switched
  tv, source, \* the TV's power, and whose picture it shows
  drops,      \* whether it has no address in standby
  task,       \* per call of set_tv_power: how far it is, and whether others are the source
  off_stands, \* history: the explicit off nothing has ended, and what came in between; "never" was none
  viewer,     \* history: whether someone else handled the TV, and watches another input on it
  happened, faults  \* bounds: how often

loop   == <<seen, pc, target>>
wrongs == <<amiss, crosses>>
timer  == <<forced_off, last_base, was_present, wake_left>>
telly  == <<tv, source, drops, task>>
bounds == <<happened, faults>>
vars   == <<config, inside, motion, loop, is_on, timer, due, lit, wrongs, telly, off_stands, viewer, bounds>>

TypeOK ==
  /\ config \in Configs /\ seen \in [config : Configs, inside : BOOLEAN] 
  /\ inside \in BOOLEAN /\ motion \in BOOLEAN /\ due \in BOOLEAN /\ lit \in BOOLEAN
  /\ amiss \subseteq {"screen", "tv"} /\ crosses \in BOOLEAN
  /\ pc \in {"start", "schedules", "screen", "worked", "retry", "wait"} /\ target \in {"on", "off"}
  /\ is_on \in Power /\ last_base \in Power /\ forced_off \in BOOLEAN /\ was_present \in BOOLEAN
  /\ wake_left \in Nat
  /\ tv \in {"none", "on", "standby"} /\ source \in {"mirror", "other"} /\ drops \in BOOLEAN
  /\ task \in [Tasks -> Calls]
  /\ off_stands \in {"never", "no", "quiet", "ended", "restarted"}
  /\ viewer \in {"nobody", "handled", "watches"} /\ happened \in Nat /\ faults \in Nat

\* What someone who left the TV so does with it
Viewer(power, input) ==
  IF power = "on" /\ input = "other" THEN "watches" ELSE IF input = "other" THEN "handled" ELSE "nobody"

Init ==
  /\ config \in Configs /\ motion = FALSE
  /\ inside \in (IF "interval" \in Modes THEN BOOLEAN ELSE {FALSE})  \* no matter otherwise
  /\ seen = [config |-> config, inside |-> inside] /\ pc = "start" /\ target = "on"
  /\ is_on = "unknown" /\ forced_off = FALSE /\ last_base = "unknown" /\ was_present = FALSE /\ wake_left = 0
  /\ due = TRUE /\ lit = TRUE /\ amiss = {} /\ crosses = FALSE
  /\ tv \in (IF HasTv THEN {"on", "standby"} ELSE {"none"}) /\ source \in {"mirror", "other"} /\ drops \in Drops
  /\ task = [t \in Tasks |-> Idle]
  /\ off_stands = "never" /\ viewer = Viewer(tv, source) /\ happened = 0 /\ faults = 0

-----------------------------------------------------------------------------
(* The decision, and the loop's pass *)

\* What the base mode says of the screen, by the settings and the clock s
Base(s) == IF s.config.mode = "manual" \/ (s.config.mode = "interval" /\ s.inside) THEN "on" ELSE "off"

\* wake_until after a wake for so many minutes
Woken(minutes) ==
  IF config.extend THEN Larger(wake_left, minutes) ELSE IF wake_left = 0 THEN minutes ELSE wake_left

Arrived_Still == seen.config.presence /\ motion  \* (mutant) whoever is there arrives at every pass

\* Someone arrived since the last pass, as the sensors say it
Arrived == seen.config.presence /\ motion /\ ~was_present

\* (mutant) someone still there holds a fixed time too
Counted_Fixed ==
  IF Arrived THEN Woken(Timeout)
  ELSE IF seen.config.presence /\ motion THEN Larger(wake_left, Timeout) ELSE wake_left

\* wake_until after presence is counted: an arrival wakes, someone still there holds the countdown
Counted ==
  IF Arrived THEN Woken(Timeout)
  ELSE IF seen.config.presence /\ motion /\ seen.config.extend THEN Larger(wake_left, Timeout) ELSE wake_left

\* An explicit off still holds: nobody arrived, and the base mode says what it said
StillOff == forced_off /\ ~Arrived /\ Base(seen) = last_base

\* (mutant) decided before presence is counted
Desired_Before(left) == IF ~StillOff /\ (Base(seen) = "on" \/ wake_left > 0) THEN "on" ELSE "off"

Desired(left) == IF ~StillOff /\ (Base(seen) = "on" \/ left > 0) THEN "on" ELSE "off"

\* A pass reads the settings and the clock, and sends the modules' schedules
BeginPass ==
  /\ pc \in {"start", "wait"}
  /\ pc' = "schedules" /\ seen' = [config |-> config, inside |-> inside]
  /\ UNCHANGED <<config, inside, motion, target, is_on, timer, due, lit, wrongs, telly, off_stands, viewer, bounds>>

CallsTv == \E w \in Wakers : task[w] # Idle

\* With the schedules sent it decides, and begins to switch the screen when that is not as it should be;
\* a TV is asked to turn off before
Decide ==
  /\ pc = "schedules"
  /\ wake_left' = Counted /\ forced_off' = StillOff /\ last_base' = Base(seen) /\ was_present' = motion /\ due' = FALSE
  /\ LET desired == Desired(Counted) IN
       IF desired = is_on THEN pc' = "wait" /\ UNCHANGED <<target, task, crosses>>
       ELSE /\ pc' = "screen" /\ target' = desired /\ crosses' = CallsTv
            /\ task' = IF Cec /\ desired = "off" THEN [task EXCEPT !["off"].stage = "ask"] ELSE task
  /\ UNCHANGED <<config, inside, motion, seen, is_on, lit, amiss, tv, source, drops, off_stands, viewer, bounds>>

\* The tool for the screen ends, with the screen so or not, and says that it worked or not
ToolEnds(now, says) ==
  /\ pc = "screen" /\ task["off"] = Idle
  /\ pc' = says /\ lit' = now
  /\ UNCHANGED <<config, inside, motion, seen, target, timer, due, crosses, telly, off_stands, viewer, happened>>

\* (mutant) the signal goes while the TV is asked
Switches_AtOnce ==
  /\ pc = "screen" /\ pc' = "worked" /\ lit' = (target = "on")
  /\ amiss' = (IF crosses THEN {"tv"} ELSE {})
  /\ UNCHANGED <<config, inside, motion, seen, target, is_on, timer, due, crosses, telly, off_stands, viewer, bounds>>

\* The screen is switched
Switches ==
  /\ ToolEnds(target = "on", "worked")
  /\ amiss' = (IF crosses THEN {"tv"} ELSE {}) /\ UNCHANGED <<is_on, faults>>

Fault == faults < MaxFaults /\ faults' = faults + 1

\* (mutant) taken for done
Refuses_Unseen ==
  /\ Fault /\ ToolEnds(lit, "retry") /\ is_on' = target
  /\ amiss' = (IF Cec /\ target = "off" THEN amiss \union {"tv"} ELSE amiss)

\* No tool switched it; a TV that was asked to turn off is off
Refuses ==
  /\ Fault /\ ToolEnds(lit, "retry") /\ UNCHANGED is_on
  /\ amiss' = (IF Cec /\ target = "off" THEN amiss \union {"tv"} ELSE amiss)

\* It is not as was told: the tool was killed for its time after it had switched, or took no notice, and nobody looks at
\* its exit code (xrandr, the firmware)
Misled ==
  /\ Fault
  /\ ToolEnds(target = "on", "retry") \/ ToolEnds(lit, "worked")
  /\ amiss' = amiss \union {"screen"} /\ UNCHANGED is_on

\* The manager takes what worked for done, and wakes a TV in the background
Believes ==
  /\ pc = "worked"
  /\ pc' = "wait" /\ is_on' = target
  /\ IF Cec /\ target = "on" THEN \E w \in Wakers : task[w] = Idle /\ task' = [task EXCEPT ![w].stage = "ask"]
     ELSE UNCHANGED task
  /\ UNCHANGED <<config, inside, motion, seen, target, timer, due, lit, wrongs, tv, source, drops, off_stands, viewer, bounds>>

\* What failed is tried again after RETRY_AFTER_FAILURE
RetryOver ==
  /\ pc = "retry" /\ pc' = "wait"
  /\ UNCHANGED <<config, inside, motion, seen, target, is_on, timer, due, lit, wrongs, telly, off_stands, viewer, bounds>>

-----------------------------------------------------------------------------
(* The TV *)

HasAddress == ~(drops /\ tv = "standby")

\* (mutant) nothing is sent without an address
AsksTv_Never(t) ==
  /\ task[t].stage = "ask"
  /\ task' = [task EXCEPT ![t] =
       IF tv = "none" \/ ~HasAddress THEN Idle
       ELSE [stage |-> IF t = "off" THEN "send" ELSE "power", others |-> source = "other"]]
  /\ UNCHANGED <<config, inside, motion, loop, is_on, timer, due, lit, wrongs, tv, source, drops, off_stands, viewer, bounds>>

\* The adapter, the poll of the TV and the question who is the active source
AsksTv(t) ==
  /\ task[t].stage = "ask"
  /\ task' = [task EXCEPT ![t] =
       IF tv = "none" \/ (~HasAddress /\ t = "off") THEN Idle
       ELSE IF ~HasAddress THEN [stage |-> "only view", others |-> FALSE]
       ELSE [stage |-> IF t = "off" THEN "send" ELSE "power", others |-> source = "other"]]
  /\ UNCHANGED <<config, inside, motion, loop, is_on, timer, due, lit, wrongs, tv, source, drops, off_stands, viewer, bounds>>

\* (mutant) whatever it shows
SendsStandby_Always ==
  /\ task["off"].stage = "send"
  /\ task' = [task EXCEPT !["off"] = Idle] /\ tv' = "standby"
  /\ UNCHANGED <<config, inside, motion, loop, is_on, timer, due, lit, wrongs, source, drops, off_stands, viewer, bounds>>

\* <Standby>, unless the TV shows another input
SendsStandby ==
  /\ task["off"].stage = "send"
  /\ task' = [task EXCEPT !["off"] = Idle]
  /\ tv' = IF task["off"].others THEN tv ELSE "standby"
  /\ UNCHANGED <<config, inside, motion, loop, is_on, timer, due, lit, wrongs, source, drops, off_stands, viewer, bounds>>

\* <Give Device Power Status>: a TV that is on with another input is left alone
ReadsPower(t) ==
  /\ task[t].stage = "power"
  /\ task' = [task EXCEPT ![t] = IF task[t].others /\ tv = "on" THEN Idle ELSE [@ EXCEPT !.stage = "view"]]
  /\ UNCHANGED <<config, inside, motion, loop, is_on, timer, due, lit, wrongs, tv, source, drops, off_stands, viewer, bounds>>

\* <Image View On>
SendsView(t) ==
  /\ task[t].stage \in {"view", "only view"}
  /\ tv' = "on"
  /\ task' = [task EXCEPT ![t] = IF task[t].stage = "only view" THEN Idle ELSE [@ EXCEPT !.stage = "source"]]
  /\ UNCHANGED <<config, inside, motion, loop, is_on, timer, due, lit, wrongs, source, drops, off_stands, viewer, bounds>>

\* <Active Source>
SendsSource(t) ==
  /\ task[t].stage = "source"
  /\ task' = [task EXCEPT ![t] = Idle] /\ source' = "mirror"
  /\ UNCHANGED <<config, inside, motion, loop, is_on, timer, due, lit, wrongs, tv, drops, off_stands, viewer, bounds>>

-----------------------------------------------------------------------------
(* What happens around the loop *)

AllIdle == \A t \in Tasks : task[t] = Idle

\* Whatever explicit off there was is over
NoOff == IF off_stands = "never" THEN "never" ELSE "no"

Happens(kind) ==
  /\ kind \in Kinds /\ happened < MaxHappens /\ happened' = happened + 1

\* A wake by the admin page, the API, the button or Home Assistant
Wake(asked) ==
  /\ Happens("call")
  /\ forced_off' = FALSE /\ wake_left' = Woken(IF asked = 0 THEN Timeout ELSE asked)
  /\ off_stands' = NoOff
  /\ UNCHANGED <<config, inside, motion, loop, is_on, last_base, was_present, due, lit, wrongs, telly, viewer, faults>>

\* The loop is at rest and has seen all there is
SeenAll ==
  pc \in {"wait", "retry"} /\ Base([config |-> config, inside |-> inside]) = last_base /\ (motion => was_present)

\* An explicit off, quiet when the loop has seen all there is
TurnOff ==
  /\ Happens("call")
  /\ forced_off' = TRUE /\ wake_left' = 0
  /\ off_stands' = IF SeenAll THEN "quiet" ELSE "no"
  /\ UNCHANGED <<config, inside, motion, loop, is_on, last_base, was_present, due, lit, wrongs, telly, viewer, faults>>

Toggle == IF is_on = "on" THEN TurnOff ELSE Wake(0)

\* Someone comes in front of the mirror, or leaves
Moves ==
  /\ Happens("move") /\ motion' = ~motion
  /\ off_stands' = IF motion' THEN NoOff ELSE off_stands
  /\ UNCHANGED <<config, inside, loop, is_on, timer, due, lit, wrongs, telly, viewer, faults>>

\* The interval of the schedule begins or ends
ScheduleTurns ==
  /\ Happens("turn") /\ inside' = ~inside
  /\ off_stands' = IF config.mode # "interval" THEN off_stands
                   ELSE IF inside /\ off_stands = "quiet" THEN "ended" ELSE NoOff
  /\ UNCHANGED <<config, motion, loop, is_on, timer, due, lit, wrongs, telly, viewer, faults>>

\* The Power tab is saved
Save ==
  /\ Happens("save") /\ config' \in Configs /\ off_stands' = NoOff
  /\ UNCHANGED <<inside, motion, loop, is_on, timer, due, lit, wrongs, telly, viewer, faults>>

\* The core starts again: what was under way is done or not, the sensors say nothing until they change
Restart ==
  /\ Happens("restart")
  /\ motion' = FALSE /\ pc' = "start" /\ is_on' = "unknown"
  /\ forced_off' = FALSE /\ last_base' = "unknown" /\ was_present' = FALSE /\ wake_left' = 0 /\ due' = TRUE
  /\ lit' \in {lit} \union (IF pc = "screen" /\ task["off"] = Idle THEN {target = "on"} ELSE {})
  /\ tv' \in {tv} \union (IF task["off"].stage = "send" /\ ~task["off"].others THEN {"standby"} ELSE {})
                  \union (IF \E w \in Wakers : task[w].stage \in {"view", "only view"} THEN {"on"} ELSE {})
  /\ source' \in {source} \union (IF \E w \in Wakers : task[w].stage = "source" THEN {"mirror"} ELSE {})
  /\ task' = [t \in Tasks |-> Idle]
  /\ off_stands' = IF off_stands = "quiet" /\ ~motion THEN "restarted" ELSE NoOff
  /\ UNCHANGED <<config, inside, seen, target, wrongs, drops, viewer, faults>>

\* No call has asked yet who is the source
NoneAsked == \A t \in Tasks : task[t].stage \in {"idle", "ask"}

\* Someone takes the TV's remote; a call that asked before does not know
Remote ==
  /\ Happens("remote") /\ tv # "none"
  /\ tv' \in {"on", "standby"} /\ source' \in {"mirror", "other"}
  /\ viewer' = IF Viewer(tv', source') = "watches" /\ NoneAsked THEN "watches" ELSE "handled"
  /\ crosses' = (crosses \/ pc = "screen")
  /\ UNCHANGED <<config, inside, motion, loop, is_on, timer, due, lit, amiss, drops, task, off_stands, faults>>

\* wake_left a minute later
Minute(left) == Larger(left - 1, 0)

Tick ==
  /\ ~due /\ due' = TRUE /\ wake_left' = Minute(wake_left)
  /\ UNCHANGED <<config, inside, motion, loop, is_on, forced_off, last_base, was_present, lit, wrongs, telly, off_stands, viewer, bounds>>

LoopSteps == BeginPass \/ Decide \/ Switches \/ Refuses \/ Misled \/ Believes \/ RetryOver
TvSteps   == SendsStandby \/ \E t \in Tasks : AsksTv(t) \/ ReadsPower(t) \/ SendsView(t) \/ SendsSource(t)
Around    == \/ \E asked \in Asks : Wake(asked)
             \/ TurnOff \/ Toggle \/ Moves \/ ScheduleTurns \/ Save \/ Restart \/ Remote

Next == LoopSteps \/ TvSteps \/ Around \/ Tick

Spec == Init /\ [][Next]_vars

\* The loop goes on for ever, a call of set_tv_power ends (each cec-ctl has its timeout), and so does time
FairSpec == Spec /\ WF_vars(LoopSteps) /\ WF_vars(TvSteps) /\ WF_vars(Tick)

-----------------------------------------------------------------------------
(* The safety properties *)

\* What the manager says of the screen is so, but for the moment between the tool's end and its own note of it: switches that
\* fail, are tried again, cut by a restart or overtaken by commands leave it right, and the first that works and is told
\* right ends what one that was told wrong left (set_state, _run_loop).
BelievedIsSo == is_on # "unknown" /\ pc # "worked" /\ "screen" \notin amiss => lit = (is_on = "on")

\* While only such an off stands, a dark screen stays dark
StaysDark(marks) == (off_stands \in marks /\ off_stands' \in marks /\ ~lit) => ~lit'

\* An explicit off stands until a wake, an arrival or a change of the base mode: someone who stays in front
\* of the mirror and holds its countdown does not undo it, nor does the timer's end or a failed switch.
OffStands == [][StaysDark({"quiet"})]_vars

\* While nobody has turned it off, the screen stays on as long as someone the loop has seen is in front of
\* it, where the loop read that this counts: neither the timer passing its end between two passes, nor the
\* schedule's end, nor a save lets it blink.
PresenceHolds ==
  [][(lit /\ motion /\ motion' /\ was_present /\ seen.config.presence /\ seen.config.extend /\ off_stands = "never")
     => lit']_vars

\* When the screen's signal goes, a TV that shows the mirror was asked to turn off before, whatever comes or fails around
\* it, unless a call that turns it on or the remote came in between: one that switches inputs by itself would otherwise
\* show another one and stay on.
TvOffFirst == [][(lit /\ ~lit' /\ Cec /\ ~crosses) => (tv # "on" \/ source = "other")]_vars

\* With nothing under way and the screen as it should be, a TV nobody else has handled is on when the screen is and off
\* when it is not; what a switch left wrong that failed after the TV was asked, was told wrong, or came beside a call that
\* turns the TV on, lasts only until the next one that works.
AtRest == pc = "wait" /\ AllIdle /\ is_on = (IF ~forced_off /\ (last_base = "on" \/ wake_left > 0) THEN "on" ELSE "off")
TvFollowsScreen == (tv # "none" /\ AtRest /\ viewer = "nobody" /\ Cec /\ amiss = {}) => (tv = "on" <=> lit)

\* Someone who watches another input, and took it when no call had asked before, is neither switched away from it nor
\* turned off.
OtherInputLeftAlone == viewer = "watches" => tv = "on" /\ source = "other"

(* The liveness properties *)

\* A wake is not lost, whatever the loop is at and though a switch fails: the screen lights up unless the
\* wake's time is over first, it is turned off, or a switch was told wrong.
WakeLights == (wake_left > 0 /\ ~forced_off) ~> (lit \/ wake_left = 0 \/ forced_off \/ "screen" \in amiss)

\* The screen can't be left on by mistake: with the base mode off and nobody there, it goes dark for good;
\* with a fixed time it does so though somebody stays. A switch that was told wrong is left out.
GoesDark ==
  <>[](Base([config |-> config, inside |-> inside]) = "off" /\ (~motion \/ ~config.extend)) => <>[](~lit \/ "screen" \in amiss)

-----------------------------------------------------------------------------
(* What the documents say and the code does not do *)

\* Turned off by hand, the screen stays off until something wakes it or the schedule starts; that it ends
\* is neither.
OffOutlastsScheduleEnd == [][StaysDark({"quiet", "ended"})]_vars

\* A failed switch is tried again (RETRY_AFTER_FAILURE). One the tool was killed in after it had switched, and then a wake: nothing
\* is tried, for the manager takes the screen to be on.
WakeAlwaysLights == (wake_left > 0 /\ ~forced_off) ~> (lit \/ wake_left = 0 \/ forced_off)

\* "A TV turned off and on with the screen" (cec.py)
TvAlwaysFollows == (tv # "none" /\ AtRest /\ viewer = "nobody" /\ Cec) => (tv = "on" <=> lit)

\* The screen turned off by hand stays off when the core starts again.
OffOutlastsRestart == [][StaysDark({"quiet", "restarted"})]_vars
=============================================================================
