------------------------- MODULE DisplayPowerProofs -------------------------
(***************************************************************************)
(* Proofs about DisplayPower for every set of settings, timeouts, calls,   *)
(* number of background calls and bounds: the types, that the manager is   *)
(* right about the screen, that an explicit off stands and presence holds, *)
(* that a TV is on when the screen is, and asked before the signal goes.   *)
(***************************************************************************)
EXTENDS MCDisplayPower, TLAPS

\* The numbers the decision is made of are numbers
LEMMA DecisionNumbers ==
  ASSUME wake_left \in Nat
  PROVE  /\ \A minutes \in Nat : Woken(minutes) \in Nat
         /\ Counted \in Nat /\ Minute(wake_left) \in Nat
         /\ \A asked \in Nat : Woken(IF asked = 0 THEN Timeout ELSE asked) \in Nat
<1>1. \A a, b \in Nat : Larger(a, b) \in Nat
  BY DEF Larger
<1>2. Timeout \in Nat /\ Asks \subseteq Nat
  BY DisplayPowerAssumption
<1>3. \A minutes \in Nat : Woken(minutes) \in Nat
  BY <1>1 DEF Woken
<1>4. Counted \in Nat
  BY <1>1, <1>2, <1>3 DEF Counted
<1>5. Minute(wake_left) \in Nat
  BY DEF Minute, Larger
<1>6. ASSUME NEW asked \in Nat PROVE Woken(IF asked = 0 THEN Timeout ELSE asked) \in Nat
  BY <1>2, <1>3
<1> QED BY <1>3, <1>4, <1>5, <1>6

\* The decision is on or off
LEMMA DecisionTypes ==
  ASSUME forced_off \in BOOLEAN
  PROVE  /\ StillOff \in BOOLEAN
         /\ Base(seen) \in {"on", "off"}
         /\ \A left : Desired(left) \in {"on", "off"}
BY DEF StillOff, Base, Desired

\* A call that begins, or goes on by the rules of set_tv_power, is one
LEMMA CallTypes ==
  ASSUME task \in [Tasks -> Calls]
  PROVE  /\ Idle \in Calls /\ "off" \in Tasks
         /\ \A t \in Tasks : task[t] \in Calls /\ [task EXCEPT ![t].stage = "ask"] \in [Tasks -> Calls]
         /\ \A t \in Tasks : \A call \in Calls : [task EXCEPT ![t] = call] \in [Tasks -> Calls]
         /\ \A call \in Calls, stage \in {"view", "source"} : [call EXCEPT !.stage = stage] \in Calls
BY DEF Calls, Idle, Tasks

LEMMA TypeInit == Init => TypeOK
<1> SUFFICES ASSUME Init PROVE TypeOK
  OBVIOUS
<1>1. config \in Configs /\ seen \in [config : Configs, inside : BOOLEAN]
  BY DEF Init
<1>2. tv \in {"none", "on", "standby"} /\ source \in {"mirror", "other"} /\ drops \in BOOLEAN
  BY DisplayPowerAssumption DEF Init
<1>3. task \in [Tasks -> Calls]
  BY DEF Init, Calls, Idle
<1>4. viewer \in {"nobody", "handled", "watches"}
  BY DEF Init, Viewer
<1> QED BY <1>1, <1>2, <1>3, <1>4 DEF Init, TypeOK, Power

LEMMA TypeNext == TypeOK /\ [Next]_vars => TypeOK'
<1> SUFFICES ASSUME TypeOK, [Next]_vars PROVE TypeOK'
  OBVIOUS
<1> USE DEF TypeOK, bounds, wrongs
<1>1. CASE BeginPass
  BY <1>1 DEF BeginPass, telly, timer
<1>2. CASE Decide
  <2>1. wake_left' \in Nat /\ forced_off' \in BOOLEAN /\ last_base' \in Power
    BY <1>2, DecisionNumbers, DecisionTypes DEF Decide, Power
  <2>2. pc' \in {"wait", "screen"} /\ target' \in {"on", "off"} /\ task' \in [Tasks -> Calls]
    BY <1>2, DecisionTypes, CallTypes DEF Decide
  <2>3. crosses' \in BOOLEAN
    BY <1>2 DEF Decide, CallsTv
  <2> QED BY <1>2, <2>1, <2>2, <2>3 DEF Decide
<1>3. ASSUME NEW says \in {"worked", "retry"}, NEW now \in BOOLEAN, ToolEnds(now, says), is_on' \in Power,
             amiss' \subseteq {"screen", "tv"}, faults' \in Nat PROVE TypeOK'
  BY <1>3 DEF ToolEnds, timer, telly
<1>4. CASE Switches \/ Refuses \/ Misled
  <2>1. (target = "on") \in BOOLEAN /\ lit \in BOOLEAN
    OBVIOUS
  <2>2. /\ ToolEnds(target = "on", "worked") \/ ToolEnds(target = "on", "retry") \/ ToolEnds(lit, "worked") \/ ToolEnds(lit, "retry")
        /\ is_on' = is_on /\ faults' \in {faults, faults + 1}
        /\ amiss' \in {{}, {"tv"}, amiss, amiss \union {"tv"}, amiss \union {"screen"}}
    BY <1>4 DEF Switches, Refuses, Misled, Fault
  <2>3. is_on' \in Power /\ faults' \in Nat
    BY <2>2
  <2>5. amiss' \subseteq {"screen", "tv"}
    BY <1>4 DEF Switches, Refuses, Misled
  <2>4. PICK now \in BOOLEAN, says \in {"worked", "retry"} : ToolEnds(now, says)
    BY <2>1, <2>2
  <2> QED BY <1>3, <2>3, <2>4, <2>5
<1>21. CASE Believes
  <2>1. task' \in [Tasks -> Calls]
    BY <1>21, CallTypes DEF Believes, Tasks
  <2> QED BY <1>21, <2>1 DEF Believes, timer, wrongs, Power
<1>5. CASE RetryOver
  BY <1>5 DEF RetryOver, telly, timer
<1>6. CASE SendsStandby
  <2>1. task' \in [Tasks -> Calls]
    BY <1>6, CallTypes DEF SendsStandby
  <2> QED BY <1>6, <2>1 DEF SendsStandby, loop, timer
<1>7. ASSUME NEW t \in Tasks, AsksTv(t) PROVE TypeOK'
  <2>1. task' \in [Tasks -> Calls]
    <3> DEFINE next == IF tv = "none" \/ (~HasAddress /\ t = "off") THEN Idle
                       ELSE IF ~HasAddress THEN [stage |-> "only view", others |-> FALSE]
                       ELSE [stage |-> IF t = "off" THEN "send" ELSE "power", others |-> source = "other"]
    <3>1. next \in Calls
      BY CallTypes DEF Calls
    <3>2. task' = [task EXCEPT ![t] = next]
      BY <1>7 DEF AsksTv
    <3> HIDE DEF next
    <3> QED BY <3>1, <3>2, CallTypes
  <2>2. UNCHANGED <<config, inside, motion, loop, is_on, timer, due, lit, wrongs, tv, source, drops, off_stands, viewer, bounds>>
    BY <1>7 DEF AsksTv
  <2> QED BY <2>1, <2>2 DEF loop, timer
<1>8. ASSUME NEW t \in Tasks, ReadsPower(t) PROVE TypeOK'
  <2>1. task' \in [Tasks -> Calls]
    <3> DEFINE next == IF task[t].others /\ tv = "on" THEN Idle ELSE [task[t] EXCEPT !.stage = "view"]
    <3>1. next \in Calls
      BY CallTypes
    <3>2. task' = [task EXCEPT ![t] = next]
      BY <1>8 DEF ReadsPower
    <3> HIDE DEF next
    <3> QED BY <3>1, <3>2, CallTypes
  <2> QED BY <1>8, <2>1 DEF ReadsPower, loop, timer
<1>9. ASSUME NEW t \in Tasks, SendsView(t) PROVE TypeOK'
  <2>1. task' \in [Tasks -> Calls]
    <3> DEFINE next == IF task[t].stage = "only view" THEN Idle ELSE [task[t] EXCEPT !.stage = "source"]
    <3>1. next \in Calls
      BY CallTypes
    <3>2. task' = [task EXCEPT ![t] = next]
      BY <1>9 DEF SendsView
    <3> HIDE DEF next
    <3> QED BY <3>1, <3>2, CallTypes
  <2>2. tv' = "on" /\ UNCHANGED <<config, inside, motion, loop, is_on, timer, due, lit, wrongs, source, drops, off_stands, viewer, bounds>>
    BY <1>9 DEF SendsView
  <2> QED BY <2>1, <2>2 DEF loop, timer
<1>10. ASSUME NEW t \in Tasks, SendsSource(t) PROVE TypeOK'
  <2>1. task' \in [Tasks -> Calls]
    BY <1>10, CallTypes DEF SendsSource
  <2> QED BY <1>10, <2>1 DEF SendsSource, loop, timer
<1>11. ASSUME NEW asked \in Nat, Wake(asked) PROVE TypeOK'
  <2>1. wake_left' \in Nat
    BY <1>11, DecisionNumbers DEF Wake
  <2>2. happened' \in Nat /\ faults' \in Nat
    BY <1>11 DEF Wake, Happens
  <2>3. forced_off' \in BOOLEAN /\ off_stands' \in {"never", "no"}
    BY <1>11 DEF Wake, NoOff
  <2>4. UNCHANGED <<config, inside, motion, seen, pc, target, is_on, last_base, was_present, due, lit, wrongs, tv, source, drops, task, viewer>>
    BY <1>11 DEF Wake, loop, telly
  <2> QED BY <2>1, <2>2, <2>3, <2>4
<1>12. CASE TurnOff
  BY <1>12 DEF TurnOff, Happens, loop, telly
<1>13. CASE Toggle
  BY <1>11, <1>12, <1>13 DEF Toggle
<1>14. CASE Moves
  BY <1>14 DEF Moves, Happens, NoOff, loop, timer, telly
<1>15. CASE ScheduleTurns
  BY <1>15 DEF ScheduleTurns, Happens, NoOff, loop, timer, telly
<1>16. CASE Save
  BY <1>16 DEF Save, Happens, NoOff, loop, timer, telly
<1>17. CASE Restart
  <2>1. task' \in [Tasks -> Calls]
    BY <1>17, CallTypes DEF Restart
  <2>2. tv' \in {"none", "on", "standby"} /\ source' \in {"mirror", "other"} /\ lit' \in BOOLEAN
    BY <1>17 DEF Restart
  <2>3. happened' \in Nat
    <3>1. Happens("restart")
      BY <1>17 DEF Restart
    <3> QED BY <3>1 DEF Happens
  <2>4. off_stands' \in {"never", "no", "restarted"}
    BY <1>17 DEF Restart, NoOff
  <2>5. /\ motion' = FALSE /\ pc' = "start" /\ is_on' = "unknown" /\ forced_off' = FALSE /\ last_base' = "unknown"
        /\ was_present' = FALSE /\ wake_left' = 0 /\ due' = TRUE
        /\ UNCHANGED <<config, inside, seen, target, wrongs, drops, viewer, faults>>
    BY <1>17 DEF Restart
  <2> QED BY <2>1, <2>2, <2>3, <2>4, <2>5 DEF Power
<1>18. CASE Remote
  <2>1. viewer' \in {"nobody", "handled", "watches"}
    BY <1>18 DEF Remote
  <2> QED BY <1>18, <2>1 DEF Remote, Happens, loop, timer
<1>19. CASE Tick
  BY <1>19, DecisionNumbers DEF Tick, loop, telly
<1>20. CASE UNCHANGED vars
  BY <1>20 DEF vars, loop, timer, telly
<1> QED
  BY <1>1, <1>2, <1>3, <1>4, <1>5, <1>6, <1>7, <1>8, <1>9, <1>10, <1>11, <1>12, <1>13, <1>14, <1>15, <1>16,
     <1>17, <1>18, <1>19, <1>20, <1>21, DisplayPowerAssumption DEF Next, LoopSteps, TvSteps, Around

\* Every variable keeps its type: TypeOK holds in every state.
THEOREM TypeCorrect == Spec => []TypeOK
BY TypeInit, TypeNext, PTL DEF Spec

-----------------------------------------------------------------------------
(* The manager is right about the screen *)

\* What is switched is not as it is believed, and what worked and was told right is as it was asked
ToldInv ==
  /\ pc \in {"screen", "worked"} => target # is_on
  /\ pc = "worked" /\ "screen" \notin amiss => lit = (target = "on")

\* Only the tool's end changes the screen, and only the loop what is believed of it
LEMMA SeenSteps ==
  /\ BeginPass \/ Decide \/ RetryOver \/ Believes => UNCHANGED <<lit, amiss>>
  /\ TvSteps => UNCHANGED <<pc, target, is_on, lit, wrongs>>
  /\ \A asked : Wake(asked) => UNCHANGED <<pc, target, is_on, lit, wrongs>>
  /\ TurnOff \/ Toggle => UNCHANGED <<pc, target, is_on, lit, wrongs>>
  /\ Moves \/ ScheduleTurns \/ Save => UNCHANGED <<pc, target, is_on, lit, wrongs>>
  /\ Remote => UNCHANGED <<pc, target, is_on, lit, amiss>>
  /\ Tick => UNCHANGED <<pc, target, is_on, lit, wrongs>>
<1>1. BeginPass \/ Decide \/ RetryOver \/ Believes => UNCHANGED <<lit, amiss>>
  BY DEF BeginPass, Decide, RetryOver, Believes, wrongs
<1>2. TvSteps => UNCHANGED <<pc, target, is_on, lit, wrongs>>
  BY DEF TvSteps, SendsStandby, AsksTv, ReadsPower, SendsView, SendsSource, loop
<1>3. \A asked : Wake(asked) => UNCHANGED <<pc, target, is_on, lit, wrongs>>
  BY DEF Wake, loop
<1>4. TurnOff \/ Toggle => UNCHANGED <<pc, target, is_on, lit, wrongs>>
  BY DEF Wake, TurnOff, Toggle, loop
<1>5. Moves \/ ScheduleTurns \/ Save => UNCHANGED <<pc, target, is_on, lit, wrongs>>
  BY DEF Moves, ScheduleTurns, Save, loop
<1>6. Remote => UNCHANGED <<pc, target, is_on, lit, amiss>>
  BY DEF Remote, loop
<1>7. Tick => UNCHANGED <<pc, target, is_on, lit, wrongs>>
  BY DEF Tick, loop
<1> QED BY <1>1, <1>2, <1>3, <1>4, <1>5, <1>6, <1>7

\* The tool ends with the screen as it was asked or as it was, and is told wrong only where that is marked
LEMMA ToolSteps ==
  ASSUME TypeOK, Switches \/ Refuses \/ Misled
  PROVE  /\ pc = "screen" /\ task["off"] = Idle /\ pc' \in {"worked", "retry"}
         /\ lit' \in {lit, target = "on"} /\ UNCHANGED <<target, is_on, crosses, tv, source, task, viewer>>
         /\ "screen" \notin amiss' /\ pc' = "worked" => lit' = (target = "on")
         /\ "screen" \notin amiss' /\ pc' = "retry" => lit' = lit /\ "screen" \notin amiss
         /\ amiss' = {} /\ pc' = "worked" => ~crosses
         /\ amiss' = {} /\ pc' = "retry" => amiss = {} /\ ~(Cec /\ target = "off")
<1>1. CASE Switches
  BY <1>1 DEF Switches, ToolEnds, telly, TypeOK
<1>2. CASE Refuses
  BY <1>2 DEF Refuses, ToolEnds, telly, TypeOK
<1>3. CASE Misled
  BY <1>3 DEF Misled, ToolEnds, telly, TypeOK
<1> QED BY <1>1, <1>2, <1>3

LEMMA BelievedNext ==
  TypeOK /\ ToldInv /\ BelievedIsSo /\ [Next]_vars => ToldInv' /\ BelievedIsSo'
<1> SUFFICES ASSUME TypeOK, ToldInv, BelievedIsSo, [Next]_vars PROVE ToldInv' /\ BelievedIsSo'
  OBVIOUS
<1> USE DEF ToldInv, BelievedIsSo
<1>1. CASE Switches \/ Refuses \/ Misled
  BY <1>1, ToolSteps DEF TypeOK
<1>2. CASE Believes
  BY <1>2, SeenSteps DEF Believes, TypeOK
<1>3. CASE Restart
  <2>1. is_on' = "unknown" /\ pc' = "start"
    BY <1>3 DEF Restart
  <2> QED BY <2>1
<1>4. CASE Decide
  <2>1. pc' \in {"wait", "screen"} /\ is_on' = is_on /\ pc = "schedules" /\ (pc' = "screen" => target' # is_on)
    BY <1>4 DEF Decide
  <2> QED BY <1>4, <2>1, SeenSteps
<1>5. CASE BeginPass \/ RetryOver
  <2>1. pc' \in {"schedules", "wait"} /\ pc # "worked" /\ is_on' = is_on
    BY <1>5 DEF BeginPass, RetryOver
  <2> QED BY <1>5, <2>1, SeenSteps
<1>6. CASE UNCHANGED <<pc, target, is_on, lit, amiss>>
  BY <1>6
<1>7. UNCHANGED vars => UNCHANGED <<pc, target, is_on, lit, amiss>>
  BY DEF vars, loop, wrongs
<1> QED BY <1>1, <1>2, <1>3, <1>4, <1>5, <1>6, <1>7, SeenSteps DEF Next, LoopSteps, Around, wrongs

\* What is_on says of the screen is so, whatever fails, is told wrong, comes in between or starts over: but for the moment
\* until a switch that worked is noted, and for what one that was told wrong left, until the next that works (set_state).
THEOREM BelievedAlways == Spec => []BelievedIsSo
<1>1. Init => ToldInv /\ BelievedIsSo
  BY DEF Init, ToldInv, BelievedIsSo
<1> QED BY <1>1, TypeInit, TypeNext, BelievedNext, PTL DEF Spec

-----------------------------------------------------------------------------
(* An explicit off stands *)

\* The settings and the clock as they are
Now == [config |-> config, inside |-> inside]

\* While a quiet off stands, nothing the loop will read ends it: the base mode says what it said, nobody
\* arrived unseen, and what is being switched is switched off.
OffInv ==
  off_stands = "quiet" =>
    /\ forced_off /\ pc # "start"
    /\ Base(Now) = last_base
    /\ motion => was_present
    /\ pc = "schedules" => Base(seen) = last_base
    /\ pc \in {"screen", "worked"} => target = "off"

LEMMA OffInvNext == TypeOK /\ OffInv /\ [Next]_vars => OffInv'
<1> SUFFICES ASSUME TypeOK, OffInv, [Next]_vars, off_stands' = "quiet"
             PROVE  /\ forced_off' /\ pc' # "start"
                    /\ Base(Now)' = last_base'
                    /\ motion' => was_present'
                    /\ pc' = "schedules" => Base(seen)' = last_base'
                    /\ pc' \in {"screen", "worked"} => target' = "off"
  BY DEF OffInv
<1> USE DEF OffInv, Now
<1>1. CASE BeginPass
  BY <1>1 DEF BeginPass, timer, Base
<1>2. CASE Decide
  <2>1. off_stands = "quiet" /\ pc = "schedules" /\ ~Arrived
    BY <1>2 DEF Decide, Arrived
  <2>2. StillOff /\ Desired(Counted) = "off"
    BY <2>1 DEF StillOff, Desired
  <2> QED BY <1>2, <2>1, <2>2 DEF Decide, Base
<1>3. CASE Switches \/ Refuses \/ Misled
  <2>1. /\ pc = "screen" /\ pc' \in {"worked", "retry"}
        /\ UNCHANGED <<config, inside, motion, target, timer, off_stands>>
    BY <1>3 DEF Switches, Refuses, Misled, ToolEnds
  <2> QED BY <2>1 DEF timer, Base
<1>4. CASE Believes
  <2>1. pc' = "wait" /\ UNCHANGED <<config, inside, motion, timer, off_stands>>
    BY <1>4 DEF Believes
  <2> QED BY <2>1 DEF timer, Base
<1>5. CASE RetryOver
  BY <1>5 DEF RetryOver, timer, Base
<1>6. CASE TvSteps \/ Remote \/ UNCHANGED vars
  <2>1. UNCHANGED <<config, inside, motion, loop, timer, off_stands>>
    BY <1>6 DEF TvSteps, SendsStandby, AsksTv, ReadsPower, SendsView, SendsSource, Remote, vars
  <2> QED BY <2>1 DEF loop, timer, Base
<1>7. CASE TurnOff
  <2>1. pc \in {"wait", "retry"} /\ Base(Now) = last_base /\ (motion => was_present)
    <3>1. SeenAll
      BY <1>7 DEF TurnOff
    <3> QED BY <3>1 DEF SeenAll
  <2>2. forced_off' = TRUE /\ UNCHANGED <<config, inside, motion, seen, pc, target, last_base, was_present>>
    BY <1>7 DEF TurnOff, loop
  <2> QED BY <2>1, <2>2 DEF Base
<1>8. (\E asked \in Nat : Wake(asked)) \/ Save => off_stands' # "quiet"
  BY DEF Wake, Save, NoOff
<1>9. CASE Toggle
  BY <1>7, <1>8, <1>9 DEF Toggle
<1>10. CASE Moves
  BY <1>10 DEF Moves, NoOff, loop, timer, Base
<1>11. CASE ScheduleTurns
  <2>1. off_stands = "quiet" /\ config.mode # "interval"
    BY <1>11 DEF ScheduleTurns, NoOff
  <2>2. UNCHANGED <<config, motion, seen, pc, target, forced_off, last_base, was_present>>
    BY <1>11 DEF ScheduleTurns, loop, timer
  <2> QED BY <2>1, <2>2 DEF Base
<1>12. ~Restart
  BY DEF Restart, NoOff
<1>13. CASE Tick
  BY <1>13 DEF Tick, loop, Base
<1> QED
  BY <1>1, <1>2, <1>3, <1>4, <1>5, <1>6, <1>7, <1>8, <1>9, <1>10, <1>11, <1>12, <1>13, DisplayPowerAssumption
  DEF Next, LoopSteps, Around

\* An explicit off given while the loop has seen all there is keeps a dark screen dark until a wake, an
\* arrival, a change of the settings or of the base mode, or a restart, through failed switches too.
THEOREM OffAlwaysStands == Spec => OffStands
<1>1. Init => OffInv
  BY DEF Init, OffInv
<1>2. TypeOK /\ OffInv /\ [Next]_vars => [StaysDark({"quiet"})]_vars
  <2> SUFFICES ASSUME TypeOK, OffInv, Next, off_stands = "quiet", off_stands' = "quiet", ~lit PROVE ~lit'
    BY DEF StaysDark
  <2>1. CASE Switches \/ Refuses \/ Misled
    BY <2>1, ToolSteps DEF OffInv
  <2>2. ~Restart
    BY DEF Restart, NoOff
  <2> QED BY <2>1, <2>2, SeenSteps DEF Next, LoopSteps, Around
<1> QED BY <1>1, <1>2, TypeInit, TypeNext, OffInvNext, PTL DEF Spec, OffStands

-----------------------------------------------------------------------------
(* Someone who is there keeps the screen on *)

\* Without an off what is being switched off was decided over nobody, or over one whose presence doesn't hold it
PresentInv ==
  /\ forced_off => off_stands # "never"
  /\ pc = "screen" /\ target = "off" /\ off_stands = "never" => ~(was_present /\ seen.config.presence /\ seen.config.extend)

LEMMA PresentNext == TypeOK /\ PresentInv /\ [Next]_vars => PresentInv'
<1> SUFFICES ASSUME TypeOK, PresentInv, [Next]_vars PROVE PresentInv'
  OBVIOUS
<1> USE DEF PresentInv
<1>1. CASE Decide
  <2>1. forced_off' = StillOff /\ was_present' = motion /\ UNCHANGED <<seen, off_stands>>
    BY <1>1 DEF Decide
  <2>2. ASSUME pc' = "screen", target' = "off", off_stands = "never" PROVE ~(motion /\ seen.config.presence /\ seen.config.extend)
    <3>1. Desired(Counted) = "off" /\ ~StillOff
      BY <1>1, <2>2 DEF Decide, StillOff
    <3>2. ~(Counted > 0)
      BY <3>1 DEF Desired
    <3>3. Timeout \in Nat \ {0} /\ wake_left \in Nat
      BY DisplayPowerAssumption DEF TypeOK
    <3> QED BY <3>2, <3>3 DEF Counted, Woken, Larger
  <2> QED BY <2>1, <2>2 DEF StillOff
<1>2. CASE BeginPass \/ Switches \/ Refuses \/ Misled \/ Believes \/ RetryOver
  <2>1. pc' # "screen" /\ UNCHANGED <<forced_off, off_stands>>
    BY <1>2 DEF BeginPass, Switches, Refuses, Misled, ToolEnds, Believes, RetryOver, timer
  <2> QED BY <2>1
<1>3. CASE TvSteps \/ Remote \/ Tick \/ UNCHANGED vars
  <2>1. UNCHANGED <<forced_off, was_present, off_stands, pc, target, seen>>
    BY <1>3 DEF TvSteps, SendsStandby, AsksTv, ReadsPower, SendsView, SendsSource, Remote, Tick, vars, loop, timer
  <2> QED BY <2>1
<1>4. ASSUME NEW asked \in Nat, Wake(asked) PROVE PresentInv'
  BY <1>4 DEF Wake, NoOff, loop
<1>5. CASE TurnOff
  BY <1>5 DEF TurnOff, loop
<1>6. CASE Toggle
  BY <1>4, <1>5, <1>6 DEF Toggle
<1>7. CASE Moves \/ ScheduleTurns \/ Save
  BY <1>7 DEF Moves, ScheduleTurns, Save, NoOff, loop, timer
<1>8. CASE Restart
  BY <1>8 DEF Restart
<1> QED BY <1>1, <1>2, <1>3, <1>4, <1>5, <1>6, <1>7, <1>8, DisplayPowerAssumption DEF Next, LoopSteps, Around

\* As long as someone the loop has seen stays, where this counts, and nobody turns it off, the screen stays on: through
\* the timer's end, the schedule's and saves between any two passes.
THEOREM PresenceAlwaysHolds == Spec => PresenceHolds
<1>1. Init => PresentInv
  BY DEF Init, PresentInv
<1>2. TypeOK /\ PresentInv /\ [Next]_vars =>
        [(lit /\ motion /\ motion' /\ was_present /\ seen.config.presence /\ seen.config.extend /\ off_stands = "never")
         => lit']_vars
  <2> SUFFICES ASSUME TypeOK, PresentInv, Next, lit, motion', was_present, seen.config.presence, seen.config.extend,
                      off_stands = "never" PROVE lit'
    OBVIOUS
  <2>1. CASE Switches \/ Refuses \/ Misled
    BY <2>1, ToolSteps DEF PresentInv, TypeOK
  <2>2. ~Restart
    BY DEF Restart
  <2> QED BY <2>1, <2>2, SeenSteps DEF Next, LoopSteps, Around
<1> QED BY <1>1, <1>2, TypeInit, TypeNext, PresentNext, PTL DEF Spec, PresenceHolds

-----------------------------------------------------------------------------
(* A TV is on when the screen is, and who watches another input is left alone *)

\* A call to turn off runs while the screen is to be switched off, and is never taken for one that turns on
CallInv ==
  /\ task["off"] # Idle => pc = "screen" /\ target = "off"
  /\ task["off"].stage \in {"idle", "ask", "send"} /\ \A w \in Wakers : task[w].stage # "send"
  /\ pc = "screen" /\ ~crosses => ~CallsTv
  /\ tv = "none" => NoneAsked

\* A TV nobody has handled shows the mirror, and has done what it was asked, once no other call turns it on meanwhile
FollowInv ==
  viewer = "nobody" /\ Cec /\ tv # "none" =>
    /\ source = "mirror" /\ \A t \in Tasks : ~task[t].others
    /\ pc = "screen" /\ target = "off" /\ ~crosses /\ task["off"] = Idle => tv = "standby"
    /\ pc = "worked" /\ amiss = {} => ~CallsTv /\ (target = "off" => tv = "standby")
    /\ is_on = "on" /\ amiss = {} /\ pc \notin {"screen", "worked"} => (~CallsTv => tv = "on")
    /\ is_on = "on" /\ amiss = {} /\ pc \notin {"screen", "worked"} => \A w \in Wakers : task[w].stage = "source" => tv = "on"
    /\ is_on = "off" /\ amiss = {} /\ pc # "worked" => tv = "standby" /\ ~CallsTv

\* A call that finds another input asked for nothing yet, and knows it
WatchInv ==
  viewer = "watches" =>
    /\ tv = "on" /\ source = "other"
    /\ \A t \in Tasks : task[t].stage \in {"idle", "ask"} \/ (task[t].stage \in {"send", "power"} /\ task[t].others)

\* A call that turns the TV off and finds another input leaves it so until the signal goes
AskedInv ==
  pc = "screen" /\ target = "off" /\ Cec /\ ~crosses =>
    /\ task["off"] = Idle => tv # "on" \/ source = "other"
    /\ task["off"].stage = "send" /\ task["off"].others => source = "other"

TvInv == CallInv /\ FollowInv /\ WatchInv /\ AskedInv

\* A call that is asked, or whose stage is changed, is what it is made
LEMMA CallMade ==
  ASSUME TypeOK, NEW t \in Tasks, NEW call, task' = [task EXCEPT ![t] = call]
  PROVE  task'[t] = call /\ \A u \in Tasks : u # t => task'[u] = task[u]
BY DEF TypeOK

\* The calls, and what none is
LEMMA CallFacts ==
  /\ "off" \in Tasks /\ Wakers \subseteq Tasks /\ "off" \notin Wakers /\ \A t \in Tasks : t = "off" \/ t \in Wakers
  /\ Idle.stage = "idle" /\ Idle.others = FALSE
  /\ [Idle EXCEPT !.stage = "ask"].stage = "ask" /\ [Idle EXCEPT !.stage = "ask"].others = FALSE
BY DisplayPowerAssumption DEF Tasks, Idle

\* A step that leaves what the invariant is about keeps it
LEMMA TvSame ==
  ASSUME TvInv, UNCHANGED <<target, is_on, amiss, crosses, tv, source, task, viewer>>,
         pc' = pc \/ (pc \notin {"screen", "worked"} /\ pc' \notin {"screen", "worked"})
  PROVE  TvInv'
<1>1. CallInv'
  BY DEF TvInv, CallInv, CallsTv, NoneAsked
<1>2. FollowInv'
  BY DEF TvInv, FollowInv, CallsTv
<1>3. WatchInv'
  BY DEF TvInv, WatchInv
<1>4. AskedInv'
  BY DEF TvInv, AskedInv
<1> QED BY <1>1, <1>2, <1>3, <1>4 DEF TvInv

\* The loop's pass: what it decides to switch, and what the tool's end and its own note of it make of that
LEMMA LoopKeeps == ASSUME TypeOK, ToldInv, TvInv, LoopSteps PROVE TvInv'
<1>1. CASE BeginPass \/ RetryOver
  <2>1. /\ pc \notin {"screen", "worked"} /\ pc' \notin {"screen", "worked"}
        /\ UNCHANGED <<target, is_on, amiss, crosses, tv, source, task, viewer>>
    BY <1>1 DEF BeginPass, RetryOver, wrongs, telly
  <2> QED BY <2>1, TvSame
<1>2. CASE Decide
  <2>1. pc = "schedules" /\ UNCHANGED <<is_on, amiss, tv, source, viewer>> /\ task["off"] = Idle
    BY <1>2 DEF Decide, TvInv, CallInv
  <2>2. CASE Desired(Counted) = is_on
    <3>1. pc' = "wait" /\ UNCHANGED <<target, task, crosses>>
      BY <1>2, <2>2 DEF Decide
    <3> QED BY <2>1, <3>1, TvSame
  <2>3. CASE Desired(Counted) # is_on
    <3>1. /\ pc' = "screen" /\ target' = Desired(Counted) /\ crosses' = CallsTv
          /\ IF Cec /\ target' = "off" THEN task' = [task EXCEPT !["off"] = [Idle EXCEPT !.stage = "ask"]]
             ELSE task' = task
      BY <1>2, <2>1, <2>3 DEF Decide
    <3>2. \A t \in Tasks : t # "off" => task'[t] = task[t]
      BY <3>1, CallMade, CallFacts
    <3>3. IF Cec /\ target' = "off" THEN task'["off"].stage = "ask" /\ task'["off"].others = FALSE ELSE task'["off"] = Idle
      BY <2>1, <3>1, CallMade, CallFacts
    <3>4. CallsTv' <=> CallsTv
      BY <3>2, CallFacts DEF CallsTv
    <3>5. CallInv'
      <4>1. task'["off"].stage \in {"idle", "ask"}
        BY <3>3, CallFacts
      <4>2. \A w \in Wakers : task'[w].stage # "send"
        BY <3>2, CallFacts DEF TvInv, CallInv
      <4>3. tv' = "none" => NoneAsked'
        BY <2>1, <3>2, <4>1 DEF TvInv, CallInv, NoneAsked
      <4> QED BY <3>1, <3>3, <3>4, <4>1, <4>2, <4>3 DEF CallInv
    <3>6. FollowInv'
      <4>1. ASSUME viewer = "nobody", Cec, tv # "none" PROVE source = "mirror" /\ \A t \in Tasks : ~task'[t].others
        BY <3>2, <3>3, <4>1, CallFacts DEF TvInv, FollowInv
      <4>2. Cec /\ target' = "off" => task'["off"] # Idle
        BY <3>3, CallFacts
      <4>3. ASSUME viewer = "nobody", Cec, tv # "none", is_on = "off", amiss = {} PROVE tv = "standby" /\ ~CallsTv
        BY <2>1, <4>3 DEF TvInv, FollowInv
      <4> QED BY <2>1, <3>1, <3>4, <4>1, <4>2, <4>3 DEF FollowInv
    <3>7. WatchInv'
      <4>1. task'["off"].stage \in {"idle", "ask"}
        BY <3>3, CallFacts
      <4> QED BY <2>1, <3>2, <4>1 DEF TvInv, WatchInv
    <3>8. AskedInv'
      BY <3>1, <3>3, CallFacts DEF AskedInv
    <3> QED BY <3>5, <3>6, <3>7, <3>8 DEF TvInv
  <2> QED BY <2>2, <2>3
<1>3. CASE Switches \/ Refuses \/ Misled
  <2>1. CallInv'
    BY <1>3, ToolSteps DEF TvInv, CallInv, CallsTv, NoneAsked
  <2>2. FollowInv'
    <3>1. /\ pc = "screen" /\ task["off"] = Idle /\ pc' \in {"worked", "retry"}
          /\ UNCHANGED <<target, is_on, crosses, tv, source, task, viewer>> /\ CallsTv' = CallsTv
      BY <1>3, ToolSteps DEF CallsTv
    <3>2. ASSUME amiss' = {}, pc' = "worked" PROVE ~CallsTv
      BY <1>3, <3>1, <3>2, ToolSteps DEF TvInv, CallInv
    <3>3. amiss' = {} /\ pc' = "worked" => ~crosses
      BY <1>3, ToolSteps
    <3>4. ASSUME amiss' = {}, pc' = "retry" PROVE amiss = {} /\ ~(Cec /\ target = "off")
      BY <1>3, <3>4, ToolSteps
    <3>5. ASSUME amiss' = {}, pc' = "retry", Cec PROVE amiss = {} /\ is_on # "on"
      BY <3>1, <3>4, <3>5 DEF ToldInv, TypeOK
    <3>6. ASSUME FollowInv, viewer = "nobody", Cec, tv # "none"
          PROVE  /\ source = "mirror" /\ \A t \in Tasks : ~task[t].others
                 /\ target = "off" /\ ~crosses => tv = "standby"
                 /\ is_on = "off" /\ amiss = {} => tv = "standby" /\ ~CallsTv
      BY <3>1, <3>6 DEF FollowInv
    <3> QED BY <3>1, <3>2, <3>3, <3>5, <3>6 DEF TvInv, FollowInv
  <2>3. WatchInv'
    BY <1>3, ToolSteps DEF TvInv, WatchInv
  <2>4. AskedInv'
    BY <1>3, ToolSteps DEF AskedInv
  <2> QED BY <2>1, <2>2, <2>3, <2>4 DEF TvInv
<1>4. CASE Believes
  <2>1. /\ pc = "worked" /\ pc' = "wait" /\ is_on' = target /\ UNCHANGED <<target, amiss, crosses, tv, source, viewer>>
        /\ task["off"] = Idle
    BY <1>4 DEF Believes, wrongs, TvInv, CallInv
  <2>2. CASE Cec /\ target = "on"
    <3>1. PICK w \in Wakers : task[w] = Idle /\ task' = [task EXCEPT ![w] = [Idle EXCEPT !.stage = "ask"]]
      BY <1>4, <2>2 DEF Believes
    <3>2. task'[w].stage = "ask" /\ task'[w].others = FALSE /\ task'[w] # Idle /\ \A t \in Tasks : t # w => task'[t] = task[t]
      BY <3>1, CallMade, CallFacts
    <3>3. task'["off"] = Idle /\ CallsTv'
      BY <2>1, <3>2, CallFacts DEF CallsTv
    <3>4. CallInv'
      <4>1. \A v \in Wakers : task'[v].stage # "send"
        BY <3>2, CallFacts DEF TvInv, CallInv
      <4>2. tv' = "none" => NoneAsked'
        BY <2>1, <3>2 DEF TvInv, CallInv, NoneAsked
      <4> QED BY <2>1, <3>3, <4>1, <4>2, CallFacts DEF CallInv
    <3>5. FollowInv'
      <4>1. ASSUME viewer = "nobody", Cec, tv # "none"
            PROVE  /\ source = "mirror" /\ \A t \in Tasks : ~task'[t].others
                   /\ amiss = {} => ~CallsTv
        BY <2>1, <3>2, <4>1 DEF TvInv, FollowInv
      <4>2. ASSUME ~CallsTv PROVE \A v \in Wakers : task'[v].stage # "source"
        BY <3>2, <4>2, CallFacts DEF CallsTv
      <4> QED BY <2>1, <2>2, <3>3, <4>1, <4>2 DEF FollowInv
    <3>6. WatchInv'
      BY <2>1, <3>2 DEF TvInv, WatchInv
    <3> QED BY <2>1, <3>4, <3>5, <3>6 DEF TvInv, AskedInv
  <2>3. CASE ~(Cec /\ target = "on")
    <3>1. task' = task /\ CallsTv' = CallsTv
      BY <1>4, <2>3 DEF Believes, CallsTv
    <3>2. CallInv'
      BY <2>1, <3>1 DEF TvInv, CallInv, NoneAsked
    <3>3. FollowInv'
      BY <2>1, <2>3, <3>1 DEF TvInv, FollowInv, TypeOK
    <3>4. WatchInv'
      BY <2>1, <3>1 DEF TvInv, WatchInv
    <3> QED BY <2>1, <3>2, <3>3, <3>4 DEF TvInv, AskedInv
  <2> QED BY <2>2, <2>3
<1> QED BY <1>1, <1>2, <1>3, <1>4 DEF LoopSteps

\* What a call does for the TV, by who makes it and what it found
LEMMA TvKeeps == ASSUME TypeOK, TvInv, TvSteps PROVE TvInv'
<1>1. UNCHANGED <<pc, target, is_on, amiss, crosses, viewer>>
  BY DEF TvSteps, SendsStandby, AsksTv, ReadsPower, SendsView, SendsSource, loop, wrongs
<1>2. CASE SendsStandby
  <2>1. /\ task' = [task EXCEPT !["off"] = Idle] /\ task["off"].stage = "send" /\ source' = source
        /\ tv' = IF task["off"].others THEN tv ELSE "standby"
    BY <1>2 DEF SendsStandby
  <2>2. task'["off"] = Idle /\ task["off"] # Idle /\ \A t \in Tasks : t # "off" => task'[t] = task[t]
    BY <2>1, CallMade, CallFacts
  <2>3. (CallsTv' <=> CallsTv) /\ pc = "screen" /\ target = "off" /\ tv # "none"
    <3>1. CallsTv' <=> CallsTv
      BY <2>2, CallFacts DEF CallsTv
    <3> QED BY <2>1, <2>2, <3>1, CallFacts DEF TvInv, CallInv, NoneAsked
  <2>4. CallInv'
    <3>1. \A w \in Wakers : task'[w].stage # "send"
      BY <2>2, CallFacts DEF TvInv, CallInv
    <3> QED BY <1>1, <2>1, <2>2, <2>3, <3>1, CallFacts DEF TvInv, CallInv
  <2>5. FollowInv'
    <3>1. ASSUME viewer = "nobody", Cec
          PROVE  /\ source = "mirror" /\ \A t \in Tasks : ~task'[t].others
                 /\ tv' = "standby" /\ (is_on = "off" /\ amiss = {} => ~CallsTv)
      BY <2>1, <2>2, <2>3, <3>1, CallFacts DEF TvInv, FollowInv
    <3> QED BY <1>1, <2>1, <2>3, <3>1 DEF FollowInv
  <2>6. WatchInv'
    <3>1. viewer = "watches" => tv' = "on"
      BY <2>1, CallFacts DEF TvInv, WatchInv
    <3> QED BY <1>1, <2>1, <2>2, <3>1, CallFacts DEF TvInv, WatchInv
  <2>7. AskedInv'
    BY <1>1, <2>1, <2>2, CallFacts DEF TvInv, AskedInv
  <2> QED BY <2>4, <2>5, <2>6, <2>7 DEF TvInv
<1>3. ASSUME NEW t \in Tasks, AsksTv(t) PROVE TvInv'
  <2> DEFINE call == IF tv = "none" \/ (~HasAddress /\ t = "off") THEN Idle
                     ELSE IF ~HasAddress THEN [stage |-> "only view", others |-> FALSE]
                     ELSE [stage |-> IF t = "off" THEN "send" ELSE "power", others |-> source = "other"]
  <2>1. task' = [task EXCEPT ![t] = call] /\ task[t].stage = "ask" /\ UNCHANGED <<tv, source>>
    BY <1>3 DEF AsksTv
  <2>2. /\ tv = "none" => call = Idle
        /\ tv # "none" /\ ~HasAddress => IF t = "off" THEN call = Idle ELSE call.stage = "only view" /\ ~call.others
        /\ tv # "none" /\ HasAddress =>
             /\ call.stage = (IF t = "off" THEN "send" ELSE "power")
             /\ (source = "other" => call.others) /\ (source # "other" => ~call.others)
    OBVIOUS
  <2>3. ~HasAddress => tv = "standby"
    BY DEF HasAddress
  <2> HIDE DEF call, HasAddress
  <2>4. task'[t] = call /\ task[t] # Idle /\ \A u \in Tasks : u # t => task'[u] = task[u]
    BY <2>1, CallMade, CallFacts
  <2>5. CallsTv' => CallsTv
    BY <2>4, CallFacts DEF CallsTv
  <2>6. t # "off" => CallsTv
    BY <2>4, CallFacts DEF CallsTv
  <2>7. CallInv'
    <3>1. task'["off"] # Idle => task["off"] # Idle
      BY <2>4, CallFacts
    <3>2. task'["off"].stage \in {"idle", "ask", "send"}
      BY <2>2, <2>4, CallFacts DEF TvInv, CallInv
    <3>3. \A w \in Wakers : task'[w].stage # "send"
      BY <2>2, <2>4, CallFacts DEF TvInv, CallInv
    <3>4. tv' = "none" => NoneAsked'
      BY <2>1, <2>2, <2>4, CallFacts DEF TvInv, CallInv, NoneAsked
    <3> QED BY <1>1, <2>1, <2>5, <3>1, <3>2, <3>3, <3>4 DEF TvInv, CallInv
  <2>8. FollowInv'
    <3> SUFFICES ASSUME viewer = "nobody", Cec, tv # "none" PROVE FollowInv'
      BY <1>1, <2>1 DEF FollowInv
    <3>1. source = "mirror" /\ \A u \in Tasks : ~task'[u].others
      BY <2>2, <2>4, CallFacts DEF TvInv, FollowInv
    <3>2. ASSUME pc = "screen", target = "off", ~crosses, task'["off"] = Idle PROVE tv = "standby"
      <4>1. CASE t = "off"
        BY <2>2, <2>3, <2>4, <3>2, <4>1, CallFacts
      <4>2. CASE t # "off"
        BY <2>6, <3>2, <4>2 DEF TvInv, CallInv
      <4> QED BY <4>1, <4>2
    <3>3. ASSUME is_on = "on", amiss = {}, pc \notin {"screen", "worked"}
          PROVE  /\ ~CallsTv' => tv = "on"
                 /\ \A w \in Wakers : task'[w].stage = "source" => tv = "on"
      <4>1. t # "off" /\ task'[t] # Idle /\ task'[t].stage # "source"
        BY <2>2, <2>4, <3>3, CallFacts DEF TvInv, CallInv
      <4>2. CallsTv'
        BY <4>1, CallFacts DEF CallsTv
      <4> QED BY <2>4, <3>3, <4>1, <4>2, CallFacts DEF TvInv, FollowInv
    <3>4. is_on = "off" /\ amiss = {} /\ pc # "worked" => tv = "standby" /\ ~CallsTv
      BY DEF TvInv, FollowInv
    <3>5. pc = "worked" /\ amiss = {} => ~CallsTv /\ (target = "off" => tv = "standby")
      BY DEF TvInv, FollowInv
    <3> QED BY <1>1, <2>1, <2>5, <3>1, <3>2, <3>3, <3>4, <3>5 DEF FollowInv
  <2>9. WatchInv'
    BY <1>1, <2>1, <2>2, <2>3, <2>4, CallFacts DEF TvInv, WatchInv
  <2>10. AskedInv'
    <3>1. t = "off" => IF call = Idle THEN tv # "on" ELSE call.stage = "send" /\ (call.others => source = "other")
      BY <2>2, <2>3, CallFacts
    <3> QED BY <1>1, <2>1, <2>4, <3>1, CallFacts DEF TvInv, AskedInv
  <2> QED BY <2>7, <2>8, <2>9, <2>10 DEF TvInv
<1>4. ASSUME NEW t \in Tasks, NEW call, task' = [task EXCEPT ![t] = call],
             \/ /\ task[t].stage = "power" /\ UNCHANGED <<tv, source>>
                /\ IF task[t].others /\ tv = "on" THEN call = Idle ELSE call.stage = "view" /\ call.others = task[t].others
             \/ /\ task[t].stage \in {"view", "only view"} /\ tv' = "on" /\ source' = source
                /\ call = Idle \/ (call.stage = "source" /\ call.others = task[t].others)
             \/ task[t].stage = "source" /\ tv' = tv /\ source' = "mirror" /\ call = Idle
      PROVE  TvInv'
  <2>1. task'[t] = call /\ \A u \in Tasks : u # t => task'[u] = task[u]
    BY <1>4, CallMade
  <2>2. task[t].stage \in {"power", "view", "only view", "source"} /\ task[t] # Idle
    BY <1>4, CallFacts
  <2>3. t \in Wakers /\ t # "off"
    BY <2>2, CallFacts DEF TvInv, CallInv
  <2>4. CallsTv /\ task'["off"] = task["off"] /\ tv # "none"
    BY <2>1, <2>2, <2>3, CallFacts DEF TvInv, CallInv, CallsTv, NoneAsked
  <2>5. CallInv'
    <3>1. \A w \in Wakers : task'[w].stage # "send"
      BY <1>4, <2>1, CallFacts DEF TvInv, CallInv
    <3>2. tv' # "none"
      BY <1>4, <2>4
    <3> QED BY <1>1, <2>4, <3>1, <3>2 DEF TvInv, CallInv
  <2>6. FollowInv'
    <3> SUFFICES ASSUME viewer = "nobody", Cec PROVE FollowInv'
      BY <1>1 DEF FollowInv
    <3>1. source = "mirror" /\ \A u \in Tasks : ~task[u].others
      BY <2>4 DEF TvInv, FollowInv
    <3>2. source' = "mirror" /\ \A u \in Tasks : ~task'[u].others
      BY <1>4, <2>1, <3>1, CallFacts
    <3>3. pc = "screen" => crosses
      BY <2>4 DEF TvInv, CallInv
    <3>4. amiss = {} => pc # "worked" /\ is_on # "off"
      BY <2>4 DEF TvInv, FollowInv
    <3>5. ASSUME is_on = "on", amiss = {}, pc \notin {"screen", "worked"}
          PROVE  /\ ~CallsTv' => tv' = "on"
                 /\ \A w \in Wakers : task'[w].stage = "source" => tv' = "on"
      <4>1. \A w \in Wakers : task[w].stage = "source" => tv = "on"
        BY <2>4, <3>5 DEF TvInv, FollowInv
      <4>2. ~CallsTv' => call = Idle
        BY <2>1, <2>3 DEF CallsTv
      <4> QED BY <1>4, <2>1, <2>3, <3>1, <4>1, <4>2, CallFacts
    <3> QED BY <1>1, <3>2, <3>3, <3>4, <3>5 DEF FollowInv
  <2>7. WatchInv'
    BY <1>1, <1>4, <2>1, <2>2, CallFacts DEF TvInv, WatchInv
  <2>8. AskedInv'
    BY <1>1, <2>4 DEF TvInv, AskedInv, CallInv
  <2> QED BY <2>5, <2>6, <2>7, <2>8 DEF TvInv
<1>5. ASSUME NEW t \in Tasks, ReadsPower(t) PROVE TvInv'
  <2> DEFINE call == IF task[t].others /\ tv = "on" THEN Idle ELSE [task[t] EXCEPT !.stage = "view"]
  <2>1. task' = [task EXCEPT ![t] = call] /\ task[t].stage = "power" /\ UNCHANGED <<tv, source>>
    BY <1>5 DEF ReadsPower
  <2>2. IF task[t].others /\ tv = "on" THEN call = Idle ELSE call.stage = "view" /\ call.others = task[t].others
    BY DEF TypeOK, Calls
  <2> HIDE DEF call
  <2> QED BY <1>4, <2>1, <2>2
<1>6. ASSUME NEW t \in Tasks, SendsView(t) PROVE TvInv'
  <2> DEFINE call == IF task[t].stage = "only view" THEN Idle ELSE [task[t] EXCEPT !.stage = "source"]
  <2>1. task' = [task EXCEPT ![t] = call] /\ task[t].stage \in {"view", "only view"} /\ tv' = "on" /\ source' = source
    BY <1>6 DEF SendsView
  <2>2. call = Idle \/ (call.stage = "source" /\ call.others = task[t].others)
    BY DEF TypeOK, Calls
  <2> HIDE DEF call
  <2> QED BY <1>4, <2>1, <2>2
<1>7. ASSUME NEW t \in Tasks, SendsSource(t) PROVE TvInv'
  BY <1>4, <1>7 DEF SendsSource
<1> QED BY <1>2, <1>3, <1>5, <1>6, <1>7 DEF TvSteps

\* What happens around the loop: only the remote and a restart change what the TV shows
LEMMA AroundKeeps == ASSUME TypeOK, TvInv, Around \/ Tick PROVE TvInv'
<1>1. ASSUME UNCHANGED <<pc, target, is_on, lit, wrongs, tv, source, task, viewer>> PROVE TvInv'
  BY <1>1, TvSame DEF wrongs
<1>2. ASSUME NEW asked \in Asks, Wake(asked) PROVE TvInv'
  BY <1>1, <1>2 DEF Wake, loop, telly
<1>3. CASE TurnOff
  BY <1>1, <1>3 DEF TurnOff, loop, telly
<1>4. CASE Toggle
  BY <1>1, <1>4 DEF Toggle, TurnOff, Wake, loop, telly
<1>5. CASE Moves \/ ScheduleTurns \/ Save
  BY <1>1, <1>5 DEF Moves, ScheduleTurns, Save, loop, telly
<1>6. CASE Tick
  BY <1>1, <1>6 DEF Tick, loop, telly
<1>7. CASE Restart
  <2>1. /\ pc' = "start" /\ is_on' = "unknown" /\ task' = [t \in Tasks |-> Idle]
        /\ tv' \in {tv} \union (IF task["off"].stage = "send" /\ ~task["off"].others THEN {"standby"} ELSE {})
                        \union (IF \E w \in Wakers : task[w].stage \in {"view", "only view"} THEN {"on"} ELSE {})
        /\ source' \in {source} \union (IF \E w \in Wakers : task[w].stage = "source" THEN {"mirror"} ELSE {})
        /\ UNCHANGED <<viewer, amiss, crosses>>
    BY <1>7 DEF Restart, wrongs
  <2>2. \A t \in Tasks : task'[t].stage = "idle" /\ task'[t].others = FALSE /\ task'[t] = Idle
    BY <2>1, CallFacts
  <2>3. ASSUME tv = "none" PROVE tv' = "none"
    <3>1. \A t \in Tasks : task[t].stage \in {"idle", "ask"}
      BY <2>3 DEF TvInv, CallInv, NoneAsked
    <3> QED BY <2>1, <2>3, <3>1, CallFacts
  <2>4. CallInv'
    BY <2>1, <2>2, CallFacts DEF CallInv, NoneAsked
  <2>5. FollowInv'
    <3>1. ASSUME viewer = "nobody", Cec, tv' # "none" PROVE source' = "mirror"
      BY <2>1, <2>3, <3>1 DEF TvInv, FollowInv
    <3> QED BY <2>1, <2>2, <3>1 DEF FollowInv
  <2>6. WatchInv'
    <3>1. ASSUME viewer = "watches" PROVE tv' = "on" /\ source' = "other"
      <4>1. /\ tv = "on" /\ source = "other"
            /\ \A t \in Tasks : task[t].stage \in {"idle", "ask"} \/ (task[t].stage \in {"send", "power"} /\ task[t].others)
        BY <3>1 DEF TvInv, WatchInv
      <4> QED BY <2>1, <4>1, CallFacts
    <3> QED BY <2>1, <2>2, <3>1 DEF WatchInv
  <2> QED BY <2>1, <2>4, <2>5, <2>6 DEF TvInv, AskedInv
<1>8. CASE Remote
  <2>1. /\ tv # "none" /\ tv' \in {"on", "standby"} /\ UNCHANGED <<pc, target, is_on, amiss, task>>
        /\ viewer' = IF Viewer(tv', source') = "watches" /\ NoneAsked THEN "watches" ELSE "handled"
        /\ crosses' = (crosses \/ pc = "screen")
    BY <1>8 DEF Remote, loop
  <2>2. CallInv'
    BY <2>1 DEF TvInv, CallInv, CallsTv
  <2>3. FollowInv'
    BY <2>1 DEF FollowInv
  <2>4. WatchInv'
    BY <2>1 DEF WatchInv, Viewer, NoneAsked
  <2> QED BY <2>1, <2>2, <2>3, <2>4 DEF TvInv, AskedInv
<1> QED BY <1>2, <1>3, <1>4, <1>5, <1>6, <1>7, <1>8 DEF Around

LEMMA TvInit == TypeOK /\ Init => TvInv
<1> SUFFICES ASSUME TypeOK, Init PROVE TvInv
  OBVIOUS
<1>1. \A t \in Tasks : task[t] = Idle
  BY DEF Init
<1>2. CallInv
  BY <1>1, CallFacts DEF Init, CallInv, NoneAsked
<1>3. FollowInv
  <2>1. viewer = "nobody" => source = "mirror"
    BY DEF Init, Viewer, TypeOK
  <2> QED BY <1>1, <2>1, CallFacts DEF Init, FollowInv
<1>4. WatchInv
  BY <1>1, CallFacts DEF Init, WatchInv, Viewer
<1> QED BY <1>2, <1>3, <1>4 DEF TvInv, Init, AskedInv

\* Every step keeps what the TV does
LEMMA TvNext == ASSUME TypeOK, ToldInv, TvInv, [Next]_vars PROVE TvInv'
<1>1. CASE UNCHANGED vars
  BY <1>1, TvSame DEF vars, loop, wrongs, telly
<1> QED BY <1>1, LoopKeeps, TvKeeps, AroundKeeps DEF Next

\* With nothing under way a TV that nobody has handled is on exactly when the screen is, whatever the modes, timeouts,
\* number of calls and restarts, and whenever the owner calls: also while the TV is asked or a switch that failed is tried
\* again, but for what a switch that failed, was told wrong or came beside a call left until the next that works; and one
\* on which somebody watches another input is left alone (set_tv_power, set_state).
THEOREM TvAlwaysAsMeant == PowerSpec => []TvIsAsMeant
<1> DEFINE Inv == part = "tv" => TypeOK /\ ToldInv /\ BelievedIsSo /\ TvInv
<1>1. PowerInit => Inv
  <2> SUFFICES ASSUME Init PROVE TypeOK /\ ToldInv /\ BelievedIsSo /\ TvInv
    BY DEF PowerInit
  <2>1. TypeOK /\ TvInv
    BY TypeInit, TvInit
  <2> QED BY <2>1 DEF Init, BelievedIsSo, ToldInv
<1>2. Inv /\ [PowerNext]_power_vars => Inv'
  <2> SUFFICES ASSUME Inv, [PowerNext]_power_vars, part' = "tv" PROVE (TypeOK /\ ToldInv /\ BelievedIsSo /\ TvInv)'
    OBVIOUS
  <2>1. TypeOK /\ ToldInv /\ BelievedIsSo /\ TvInv /\ [Next]_vars
    BY DEF PowerNext, power_vars
  <2> QED BY <2>1, TypeNext, BelievedNext, TvNext
<1>3. Inv => TvIsAsMeant
  <2> SUFFICES ASSUME TypeOK, BelievedIsSo, TvInv PROVE TvFollowsScreen /\ OtherInputLeftAlone
    BY DEF TvIsAsMeant
  <2>1. TvFollowsScreen
    <3> SUFFICES ASSUME tv # "none", AtRest, viewer = "nobody", Cec, amiss = {} PROVE tv = "on" <=> lit
      BY DEF TvFollowsScreen
    <3>1. pc = "wait" /\ AllIdle /\ is_on \in {"on", "off"} /\ ~CallsTv
      BY CallFacts DEF AtRest, AllIdle, CallsTv
    <3>2. (is_on = "on" => tv = "on") /\ (is_on = "off" => tv = "standby")
      BY <3>1 DEF TvInv, FollowInv
    <3> QED BY <3>1, <3>2 DEF BelievedIsSo, TypeOK
  <2> QED BY <2>1 DEF TvInv, WatchInv, OtherInputLeftAlone
<1> QED BY <1>1, <1>2, <1>3, PTL DEF PowerSpec

\* When the signal goes, a TV that shows the mirror was asked to turn off before, also where a switch failed and is
\* tried again, was told wrong or is cut by a restart, whenever the owner calls: unless a call that turns the TV on or the
\* remote came in between (set_state).
THEOREM TvAlwaysOffFirst == Spec => TvOffFirst
<1> DEFINE Inv == TypeOK /\ ToldInv /\ BelievedIsSo /\ TvInv
<1>1. Init => Inv
  BY TypeInit, TvInit DEF Init, BelievedIsSo, ToldInv
<1>2. Inv /\ [Next]_vars => Inv'
  BY TypeNext, BelievedNext, TvNext
<1>3. Inv /\ [Next]_vars => [(lit /\ ~lit' /\ Cec /\ ~crosses) => (tv # "on" \/ source = "other")]_vars
  <2> SUFFICES ASSUME Inv, Next, lit, ~lit', Cec, ~crosses PROVE tv # "on" \/ source = "other"
    OBVIOUS
  <2>1. CASE Switches \/ Refuses \/ Misled
    <3>1. pc = "screen" /\ target = "off" /\ task["off"] = Idle
      BY <2>1, ToolSteps DEF TypeOK
    <3> QED BY <3>1 DEF TvInv, AskedInv
  <2>2. CASE Restart
    <3>1. pc = "screen" /\ target = "off" /\ task["off"] = Idle
      BY <2>2 DEF Restart, TypeOK
    <3> QED BY <3>1 DEF TvInv, AskedInv
  <2> QED BY <2>1, <2>2, SeenSteps DEF Next, LoopSteps, Around
<1> QED BY <1>1, <1>2, <1>3, PTL DEF Spec, TvOffFirst
=============================================================================
