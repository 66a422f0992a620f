------------------------------- MODULE Windows -------------------------------
(***************************************************************************)
(* Video windows (video/window.py): a module's player gets a place on the   *)
(* screen and a refresh rate for as long as its block runs, held by the     *)
(* core (client.py's _hold_window) for the instance's process               *)
(* (instance.py's HostLink.video_window).                                   *)
(***************************************************************************)
EXTENDS Naturals, FiniteSets

CONSTANTS Instances, Requests,  \* a request is its instance and a number
          Rates, Normal,  \* refresh rates; the one the screen starts at
          MaxBlocks,      \* bound: how many blocks are begun
          MaxCrashes      \* bound: how often the core ends in the middle

WindowsAssumption == Rates \subseteq Nat \ {0} /\ Normal \in Rates /\ MaxBlocks \in Nat /\ MaxCrashes \in Nat

VARIABLES block,    \* each request: [pc, hz, back] in the core: back is the mode its switch goes back to
          module,   \* in the instance's process: "none", "asks", "plays"
          ended,    \* requests whose event is set: the block's end, or its connection's
          players,  \* the screen's video_players
          rule,     \* the request rc.xml's window rule is of
          rate,     \* the screen's
          left,     \* the rule and the rate there are but for a block: what a crash or a failed step of a finally left
          blocks, crashes

vars == <<block, module, ended, players, rule, rate, left, blocks, crashes>>

NoRule == <<>>  \* no rule in rc.xml
NoRate == 0     \* no rate asked for (hz=None), or no switch
NoBlock == [pc |-> "none", hz |-> NoRate, back |-> NoRate]
All == Instances \X Requests
Begun == {"asks", "mode", "places", "switches", "plays", "held", "stops", "restores", "unplaces"}
\* _one_at_a_time is held.
Inside == {r \in All : block[r].pc \in Begun}

Init == /\ block = [r \in All |-> NoBlock] /\ module = [r \in All |-> "none"] /\ ended = {} /\ players = {}
        /\ rule = NoRule /\ rate = Normal /\ left = [rule |-> NoRule, rate |-> Normal] /\ blocks = 0 /\ crashes = 0

Goes(r, pc) == block' = [block EXCEPT ![r].pc = pc]

-----------------------------------------------------------------------------
(* The instance's process.                                                 *)

\* video_window's begin: the core makes its event at once.
Begins(r) == /\ module[r] = "none" /\ block[r] = NoBlock /\ blocks < MaxBlocks /\ blocks' = blocks + 1
             /\ \E hz \in Rates \cup {NoRate} : block' = [block EXCEPT ![r] = [NoBlock EXCEPT !.pc = "waits", !.hz = hz]]
             /\ module' = [module EXCEPT ![r] = "asks"] /\ ended' = ended \ {r} /\ UNCHANGED <<players, rule, rate, left, crashes>>
\* The block's end, its cancel, or no answer in VIDEO_WINDOW_TIMEOUT: video_window_end.
Finishes(r) == /\ module[r] # "none" /\ module' = [module EXCEPT ![r] = "none"]
               /\ ended' = IF block[r].pc # "none" THEN ended \cup {r} ELSE ended
               /\ UNCHANGED <<block, players, rule, rate, left, blocks, crashes>>
\* Its process ends: every event of its connection is set, and the core takes it out of the players (_instance_ended).
Dies(i) == /\ \E r \in Requests : module[i, r] # "none"
           /\ module' = [r \in All |-> IF r[1] = i THEN "none" ELSE module[r]]
           /\ ended' = ended \cup {r \in All : r[1] = i /\ block[r].pc # "none"} /\ players' = players \ {i}
           /\ UNCHANGED <<block, rule, rate, left, blocks, crashes>>

-----------------------------------------------------------------------------
(* The core: _hold_window and video_window, one await after another.       *)

Enters_Unlocked(r) ==  \* (mutant) another may be inside
  /\ block[r].pc = "waits" /\ \E to \in {"asks", "mode"} : Goes(r, to)
  /\ UNCHANGED <<module, ended, players, rule, rate, left, blocks, crashes>>
Enters(r) ==
  /\ block[r].pc = "waits" /\ Inside = {} /\ \E to \in {"asks", "mode"} : Goes(r, to)
  /\ UNCHANGED <<module, ended, players, rule, rate, left, blocks, crashes>>
\* The page says where, or doesn't in ASK_TIMEOUT: then it plays in the middle.
PageAnswers(r) == block[r].pc = "asks" /\ Goes(r, "mode") /\ UNCHANGED <<module, ended, players, rule, rate, left, blocks, crashes>>
\* refresh_switch: none when the screen is at that rate already, or has no such mode, or wlr-randr fails.
Lists(r) == /\ block[r].pc = "mode"
            /\ \E back \in IF block[r].hz \in {NoRate, rate} THEN {NoRate} ELSE {NoRate, rate} :
                 block' = [block EXCEPT ![r] = [@ EXCEPT !.pc = "places", !.back = back]]
            /\ UNCHANGED <<module, ended, players, rule, rate, left, blocks, crashes>>
\* _place: with a rect, or without (which takes out a rule that was left). A write that fails ends the block.
Places(r) == /\ block[r].pc = "places"
             /\ \/ \E to \in {r, NoRule} : rule' = to /\ Goes(r, IF block[r].back = NoRate THEN "plays" ELSE "switches") /\ left' = [left EXCEPT !.rule = NoRule]
                \/ UNCHANGED <<rule, left>> /\ Goes(r, "stops")
             /\ UNCHANGED <<module, ended, players, rate, blocks, crashes>>
Switches(r) == /\ block[r].pc = "switches" /\ \E now \in {block[r].hz, rate} : rate' = now
               /\ Goes(r, "plays") /\ UNCHANGED <<module, ended, players, rule, left, blocks, crashes>>
Plays(r) == /\ block[r].pc = "plays" /\ players' = players \cup {r[1]} /\ Goes(r, "held")
            /\ module' = [module EXCEPT ![r] = IF @ = "asks" THEN "plays" ELSE @]
            /\ UNCHANGED <<ended, rule, rate, left, blocks, crashes>>
\* The event is set, or the answer can't be sent.
Wakes(r) == block[r].pc = "held" /\ r \in ended /\ Goes(r, "stops") /\ UNCHANGED <<module, ended, players, rule, rate, left, blocks, crashes>>

\* The block is over, its lock let go.
Over(r) == block' = [block EXCEPT ![r] = NoBlock] /\ module' = [module EXCEPT ![r] = "none"]

\* finally: the players, the rate, the rule. set_video_playing may raise once it has them (the minute's task cancelled by
\* a stop before it: KioskScreen's Stops): then the rest is skipped, and what the block set stays.
Stops(r) == /\ block[r].pc = "stops" /\ players' = players \ {r[1]}
            /\ \/ Goes(r, IF block[r].back = NoRate THEN "unplaces" ELSE "restores") /\ UNCHANGED <<module, left>>
               \/ Over(r) /\ left' = [rule |-> rule, rate |-> rate]
            /\ UNCHANGED <<ended, rule, rate, blocks, crashes>>
\* Whether wlr-randr switched, nobody asks.
Restores(r) == /\ block[r].pc = "restores" /\ Goes(r, "unplaces")
               /\ \/ rate' = block[r].back /\ UNCHANGED left
                  \/ rate' = rate /\ left' = [left EXCEPT !.rate = rate]
               /\ UNCHANGED <<module, ended, players, rule, blocks, crashes>>
\* The write may fail.
Unplaces(r) == /\ block[r].pc = "unplaces" /\ Over(r) /\ rule' \in {NoRule, rule} /\ left' = [left EXCEPT !.rule = rule']
               /\ UNCHANGED <<ended, players, rate, blocks, crashes>>

\* The core's process ends, every instance with it. What labwc and the screen have stays.
Crashes == /\ crashes < MaxCrashes /\ crashes' = crashes + 1 /\ block' = [r \in All |-> NoBlock] /\ ended' = {} /\ players' = {}
           /\ module' = [r \in All |-> "none"] /\ left' = [rule |-> rule, rate |-> rate]
           /\ UNCHANGED <<rule, rate, blocks>>

Holds(r) == PageAnswers(r) \/ Lists(r) \/ Places(r) \/ Switches(r) \/ Plays(r) \/ Wakes(r) \/ Stops(r) \/ Restores(r) \/ Unplaces(r)
Next == (\E r \in All : Begins(r) \/ Finishes(r) \/ Enters(r) \/ Holds(r)) \/ (\E i \in Instances : Dies(i)) \/ Crashes
Spec == Init /\ [][Next]_vars

-----------------------------------------------------------------------------
(* What must hold.                                                         *)

TypeOK == /\ block \in [All -> [pc : Begun \cup {"none", "waits"}, hz : Rates \cup {NoRate}, back : Rates \cup {NoRate}]]
          /\ module \in [All -> {"none", "asks", "plays"}] /\ ended \subseteq All /\ players \subseteq Instances
          /\ rule \in All \cup {NoRule} /\ rate \in Rates
          /\ left \in [rule : All \cup {NoRule}, rate : Rates]

\* One video window at a time. Only the block that runs counts as playing, and the rule and the rate are its own; when none
\* runs they are what they were before, but for what a crash or a failed step of a finally left.
PutBack == /\ TypeOK /\ Cardinality(Inside) <= 1
           /\ players \subseteq {r[1] : r \in Inside}
           /\ rule \in Inside \cup {left.rule}
           /\ Inside = {} => rule = left.rule /\ rate = left.rate

\* "When the block ends, also by an error or a cancel, everything is put back" (ARCHITECTURE.md #34): not so when a step
\* of the finally fails.
AllPutBack == Inside = {} /\ crashes = 0 => rule = NoRule /\ rate = Normal
=============================================================================
