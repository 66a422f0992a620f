--------------------------- MODULE MCScreenProofs ---------------------------
(***************************************************************************)
(* Proofs about the mirror's screen (MCScreen): the video windows, what    *)
(* each module is told of its card, and what the page shows.               *)
(***************************************************************************)
EXTENDS MCScreen, Integers, TLAPS, FiniteSetTheorems

(* A behaviour stays one of the component it began as, and each step is a step of that
   component, or leaves it alone. *)
LEMMA StepOfPart == ASSUME [Next]_vars
  PROVE  /\ part' = part
         /\ part = "card" => [CardShown!Next]_CardShownVars
         /\ part = "windows" => [Windows!Next]_WindowsVars
         /\ part = "screen" => [KioskScreen!Next]_KioskScreenVars
BY DEF Next, vars

-----------------------------------------------------------------------------
(* Video windows.                                                           *)

WindowPcs == {"none", "waits", "asks", "mode", "places", "switches", "plays", "held", "stops", "restores", "unplaces"}
WindowRate == Rates \cup {Windows!NoRate}
WindowBlock == [pc : WindowPcs, hz : WindowRate, back : WindowRate]

WindowsTypes ==
  /\ block \in [Windows!All -> WindowBlock] /\ module \in [Windows!All -> {"none", "asks", "plays"}]
  /\ ended \subseteq Windows!All /\ windows_players \subseteq Windowed
  /\ rule \in Windows!All \cup {Windows!NoRule} /\ rate \in Rates
  /\ left \in [rule : Windows!All \cup {Windows!NoRule}, rate : Rates]

\* The lock is held by one block at most.
OneInside == \A r, s \in Windows!Inside : r = s

\* Who plays is inside video_is_playing, or about to leave it.
PlayersInv == \A i \in windows_players : \E r \in Windows!All : r[1] = i /\ block[r].pc \in {"held", "stops"}

\* The rule is that of the block inside, or the one that was left.
RuleInv == /\ rule \in Windows!Inside \cup {left.rule}
           /\ Windows!Inside = {} => rule = left.rule

\* Only a block that asked for a rate switches, and only one that switched restores.
SwitchInv == \A r \in Windows!All :
  /\ block[r].pc = "waits" => block[r].back = Windows!NoRate
  /\ block[r].back # Windows!NoRate => block[r].hz # Windows!NoRate
  /\ block[r].pc \in {"switches", "restores"} => block[r].back # Windows!NoRate

\* The rate is the one that was left whenever nobody is inside, and until a block switches it and after it put it back;
\* and that is the one it goes back to.
RateOf(r) ==
  /\ block[r].pc \in {"asks", "mode", "places", "switches", "unplaces"} => rate = left.rate
  /\ block[r].pc \in Windows!Begun \ {"unplaces"} => block[r].back \in {Windows!NoRate, left.rate}
  /\ block[r].pc \in {"plays", "held", "stops"} /\ block[r].back = Windows!NoRate => rate = left.rate
RateInv == (Windows!Inside = {} => rate = left.rate) /\ \A r \in Windows!Inside : RateOf(r)

WindowsInv == WindowsTypes /\ OneInside /\ PlayersInv /\ RuleInv /\ SwitchInv /\ RateInv

(* No block's rate, no rule and no block are what they stand for. *)
LEMMA WindowsConstants ==
  /\ Rates \subseteq Nat /\ 0 \notin Rates /\ Normal \in Rates /\ Windows!NoRate = 0
  /\ Windows!All = Windowed \X Requests
  /\ Windows!NoBlock \in WindowBlock /\ Windows!NoBlock.pc = "none"
BY ScreenAssumption DEF Windows!WindowsAssumption, Windows!NoRate, Windows!All, Windows!NoBlock, WindowBlock,
   WindowRate, WindowPcs

LEMMA WindowsInit == ASSUME Windows!Init PROVE WindowsInv
  <1>1. WindowsTypes
    BY WindowsConstants DEF Windows!Init, WindowsTypes
  <1>2. Windows!Inside = {}
    BY WindowsConstants DEF Windows!Init, Windows!Inside, Windows!Begun
  <1>3. OneInside /\ PlayersInv /\ RuleInv /\ RateInv
    BY <1>2 DEF Windows!Init, OneInside, PlayersInv, RuleInv, RateInv
  <1>4. SwitchInv
    BY WindowsConstants DEF Windows!Init, SwitchInv, Windows!NoBlock
  <1> QED
    BY <1>1, <1>3, <1>4 DEF WindowsInv

(* What a step does to the block of its request, and to no other. *)
LEMMA BlockMoves == ASSUME WindowsTypes, NEW r \in Windows!All, NEW to \in WindowPcs, Windows!Goes(r, to)
  PROVE  /\ block' \in [Windows!All -> WindowBlock]
         /\ \A s \in Windows!All : s # r => block'[s] = block[s]
         /\ block'[r].pc = to /\ block'[r].hz = block[r].hz /\ block'[r].back = block[r].back
  <1>1. block[r] \in WindowBlock /\ [block[r] EXCEPT !.pc = to] \in WindowBlock
    BY DEF WindowsTypes, WindowBlock
  <1>2. block' = [block EXCEPT ![r] = [block[r] EXCEPT !.pc = to]]
    BY DEF Windows!Goes
  <1> QED
    BY <1>1, <1>2 DEF WindowsTypes, WindowBlock

(* A block that begins waits for the lock. *)
LEMMA Begins == ASSUME WindowsInv, NEW r \in Windows!All, Windows!Begins(r) PROVE WindowsInv'
  <1>1. PICK hz \in WindowRate : block' = [block EXCEPT ![r] = [Windows!NoBlock EXCEPT !.pc = "waits", !.hz = hz]]
    BY DEF Windows!Begins, WindowRate
  <1>2. [Windows!NoBlock EXCEPT !.pc = "waits", !.hz = hz] \in WindowBlock
    BY WindowsConstants DEF WindowBlock, WindowPcs
  <1>3. /\ block' \in [Windows!All -> WindowBlock] /\ \A s \in Windows!All : s # r => block'[s] = block[s]
        /\ block'[r].pc = "waits" /\ block[r].pc = "none"
    BY <1>1, <1>2, WindowsConstants DEF WindowsInv, WindowsTypes, WindowBlock, Windows!Begins
  <1>4. UNCHANGED <<windows_players, rule, rate, left>> /\ Windows!Inside' = Windows!Inside
    BY <1>3 DEF Windows!Begins, Windows!Inside, Windows!Begun
  <1>5. WindowsTypes'
    BY <1>3, <1>4 DEF WindowsInv, WindowsTypes, Windows!Begins
  <1>6. OneInside' /\ RuleInv'
    BY <1>4 DEF WindowsInv, OneInside, RuleInv
  <1>7. PlayersInv' /\ SwitchInv'
    <2>1. block'[r].back = Windows!NoRate
      BY <1>1, <1>2 DEF WindowsInv, WindowsTypes, Windows!NoBlock
    <2> QED
      BY <2>1, <1>3, <1>4 DEF WindowsInv, PlayersInv, SwitchInv
  <1>8. RateInv'
    BY <1>3, <1>4 DEF WindowsInv, RateInv, RateOf, Windows!Inside, Windows!Begun
  <1> QED
    BY <1>5, <1>6, <1>7, <1>8 DEF WindowsInv

(* Blocks that stay as they are. *)
LEMMA OutsideStep ==
  ASSUME WindowsInv, UNCHANGED <<block, rule, rate, left>>, WindowsTypes', windows_players' \subseteq windows_players
  PROVE  WindowsInv'
  <1>1. Windows!Inside' = Windows!Inside
    BY DEF Windows!Inside
  <1>2. OneInside' /\ RuleInv' /\ PlayersInv' /\ SwitchInv'
    BY <1>1 DEF WindowsInv, OneInside, RuleInv, PlayersInv, SwitchInv
  <1>3. RateInv'
    BY <1>1 DEF WindowsInv, RateInv, RateOf
  <1> QED
    BY <1>2, <1>3 DEF WindowsInv

(* The core's end closes every block; what the compositor and the screen have is left. *)
LEMMA CoreCrashes == ASSUME WindowsInv, Windows!Crashes PROVE WindowsInv'
  <1>1. /\ block' \in [Windows!All -> WindowBlock]
        /\ \A r \in Windows!All : block'[r].pc = "none" /\ block'[r].back = Windows!NoRate
        /\ windows_players' = {} /\ ended' = {} /\ rule' = rule /\ rate' = rate
    BY WindowsConstants DEF Windows!Crashes, Windows!NoBlock
  <1>2. Windows!Inside' = {}
    BY <1>1 DEF Windows!Inside, Windows!Begun
  <1>3. WindowsTypes'
    BY <1>1 DEF WindowsInv, WindowsTypes, Windows!Crashes
  <1>4. OneInside' /\ PlayersInv' /\ SwitchInv'
    BY <1>1, <1>2 DEF OneInside, PlayersInv, SwitchInv
  <1>5. RuleInv' /\ RateInv'
    <2>1. rule' = left'.rule /\ rate' = left'.rate
      BY DEF Windows!Crashes
    <2> QED
      BY <1>2, <2>1 DEF RuleInv, RateInv
  <1> QED
    BY <1>3, <1>4, <1>5 DEF WindowsInv

(* A block goes in when nobody is inside. *)
LEMMA Enters == ASSUME WindowsInv, NEW r \in Windows!All, Windows!Enters(r) PROVE WindowsInv'
  <1>1. PICK to \in {"asks", "mode"} : Windows!Goes(r, to)
    BY DEF Windows!Enters
  <1>2. /\ block' \in [Windows!All -> WindowBlock] /\ \A s \in Windows!All : s # r => block'[s] = block[s]
        /\ block'[r].pc = to /\ block'[r].back = block[r].back /\ block'[r].hz = block[r].hz
        /\ block[r].pc = "waits" /\ Windows!Inside = {}
        /\ UNCHANGED <<module, ended, windows_players, rule, rate, left>>
    BY <1>1, BlockMoves DEF WindowsInv, WindowPcs, Windows!Enters
  <1>3. Windows!Inside' = {r}
    BY <1>2 DEF Windows!Inside, Windows!Begun
  <1>4. WindowsTypes'
    BY <1>2 DEF WindowsInv, WindowsTypes
  <1>5. OneInside' /\ RuleInv'
    BY <1>2, <1>3 DEF WindowsInv, OneInside, RuleInv
  <1>6. PlayersInv' /\ SwitchInv'
    BY <1>2 DEF WindowsInv, PlayersInv, SwitchInv
  <1>7. RateInv'
    BY <1>2, <1>3 DEF WindowsInv, SwitchInv, RateInv, RateOf
  <1> QED
    BY <1>4, <1>5, <1>6, <1>7 DEF WindowsInv

(* The block inside goes on: nobody else is, and what its step leaves alone. *)
LEMMA InsideStep ==
  ASSUME WindowsInv, NEW r \in Windows!All, block[r].pc \in Windows!Begun, NEW to \in WindowPcs \ {"none", "waits"},
         Windows!Goes(r, to), rule' = rule, left' = left
  PROVE  /\ block' \in [Windows!All -> WindowBlock] /\ \A s \in Windows!All : s # r => block'[s] = block[s]
         /\ block'[r].pc = to /\ block'[r].hz = block[r].hz /\ block'[r].back = block[r].back
         /\ Windows!Inside = {r} /\ Windows!Inside' = {r} /\ OneInside' /\ RuleInv'
  <1>1. /\ block' \in [Windows!All -> WindowBlock] /\ \A s \in Windows!All : s # r => block'[s] = block[s]
        /\ block'[r].pc = to /\ block'[r].hz = block[r].hz /\ block'[r].back = block[r].back
    BY BlockMoves DEF WindowsInv
  <1>2. Windows!Inside = {r}
    BY DEF WindowsInv, OneInside, Windows!Inside
  <1>3. to \in Windows!Begun
    BY DEF WindowPcs, Windows!Begun
  <1>4. Windows!Inside' = {r}
    <2>1. \A s \in Windows!All : s # r => block'[s].pc \notin Windows!Begun
      BY <1>1, <1>2 DEF Windows!Inside
    <2> QED
      BY <2>1, <1>1, <1>3 DEF Windows!Inside
  <1>5. OneInside' /\ RuleInv'
    BY <1>2, <1>4 DEF WindowsInv, OneInside, RuleInv
  <1> QED
    BY <1>1, <1>2, <1>4, <1>5

(* The page answers, the event is set: the next place. *)
LEMMA PageAnswers == ASSUME WindowsInv, NEW r \in Windows!All, Windows!PageAnswers(r) PROVE WindowsInv'
  <1>1. /\ block' \in [Windows!All -> WindowBlock] /\ \A s \in Windows!All : s # r => block'[s] = block[s]
        /\ block[r].pc = "asks" /\ block'[r].pc = "mode" /\ block'[r].back = block[r].back /\ block'[r].hz = block[r].hz
        /\ Windows!Inside = {r} /\ Windows!Inside' = {r} /\ OneInside' /\ RuleInv'
    BY InsideStep DEF Windows!PageAnswers, Windows!Begun, WindowPcs
  <1>2. UNCHANGED <<module, ended, windows_players, rule, rate, left>>
    BY DEF Windows!PageAnswers
  <1>3. WindowsTypes' /\ PlayersInv' /\ SwitchInv'
    BY <1>1, <1>2 DEF WindowsInv, WindowsTypes, PlayersInv, SwitchInv
  <1>4. RateInv'
    BY <1>1, <1>2 DEF WindowsInv, RateInv, RateOf, Windows!Begun
  <1> QED
    BY <1>1, <1>3, <1>4 DEF WindowsInv

(* It wakes when its event is set. *)
LEMMA Wakes == ASSUME WindowsInv, NEW r \in Windows!All, Windows!Wakes(r) PROVE WindowsInv'
  <1>1. /\ block' \in [Windows!All -> WindowBlock] /\ \A s \in Windows!All : s # r => block'[s] = block[s]
        /\ block[r].pc = "held" /\ block'[r].pc = "stops" /\ block'[r].back = block[r].back /\ block'[r].hz = block[r].hz
        /\ Windows!Inside = {r} /\ Windows!Inside' = {r} /\ OneInside' /\ RuleInv'
    BY InsideStep DEF Windows!Wakes, Windows!Begun, WindowPcs
  <1>2. UNCHANGED <<module, ended, windows_players, rule, rate, left>>
    BY DEF Windows!Wakes
  <1>3. WindowsTypes' /\ PlayersInv' /\ SwitchInv'
    BY <1>1, <1>2 DEF WindowsInv, WindowsTypes, PlayersInv, SwitchInv
  <1>4. RateInv'
    BY <1>1, <1>2 DEF WindowsInv, RateInv, RateOf, Windows!Begun
  <1> QED
    BY <1>1, <1>3, <1>4 DEF WindowsInv

(* The switch it has to make, back to the rate there is. *)
LEMMA Lists == ASSUME WindowsInv, NEW r \in Windows!All, Windows!Lists(r) PROVE WindowsInv'
  <1>1. PICK back \in {Windows!NoRate, rate} :
          /\ back # Windows!NoRate => block[r].hz \notin {Windows!NoRate, rate}
          /\ block' = [block EXCEPT ![r] = [block[r] EXCEPT !.pc = "places", !.back = back]]
    BY DEF Windows!Lists
  <1>2. block[r].pc = "mode" /\ UNCHANGED <<module, ended, windows_players, rule, rate, left>>
    BY DEF Windows!Lists
  <1>3. [block[r] EXCEPT !.pc = "places", !.back = back] \in WindowBlock
    BY DEF WindowsInv, WindowsTypes, WindowBlock, WindowPcs, WindowRate
  <1>4. /\ block' \in [Windows!All -> WindowBlock] /\ \A s \in Windows!All : s # r => block'[s] = block[s]
        /\ block'[r].pc = "places" /\ block'[r].back = back /\ block'[r].hz = block[r].hz
    BY <1>1, <1>3 DEF WindowsInv, WindowsTypes, WindowBlock
  <1>5. Windows!Inside = {r} /\ Windows!Inside' = Windows!Inside
    BY <1>2, <1>4 DEF WindowsInv, OneInside, Windows!Inside, Windows!Begun
  <1>6. WindowsTypes' /\ OneInside' /\ RuleInv'
    BY <1>2, <1>4, <1>5 DEF WindowsInv, WindowsTypes, OneInside, RuleInv
  <1>7. PlayersInv' /\ SwitchInv'
    BY <1>1, <1>2, <1>4 DEF WindowsInv, PlayersInv, SwitchInv
  <1>8. RateInv'
    BY <1>2, <1>4, <1>5 DEF WindowsInv, RateInv, RateOf, Windows!Begun
  <1> QED
    BY <1>6, <1>7, <1>8 DEF WindowsInv

(* A rule of the window's, or none, or an error of the write. *)
LEMMA Places == ASSUME WindowsInv, NEW r \in Windows!All, Windows!Places(r) PROVE WindowsInv'
  <1>1. block[r].pc = "places" /\ UNCHANGED <<module, ended, windows_players, rate>>
    BY DEF Windows!Places
  <1>2. PICK pc \in {"plays", "switches", "stops"} :
          /\ Windows!Goes(r, pc)
          /\ pc = "switches" => block[r].back # Windows!NoRate
          /\ pc = "plays" => block[r].back = Windows!NoRate
          /\ \/ rule' = rule /\ left' = left
             \/ rule' \in {r, Windows!NoRule} /\ left' = [left EXCEPT !.rule = Windows!NoRule]
    BY DEF Windows!Places
  <1>3. /\ block' \in [Windows!All -> WindowBlock] /\ \A s \in Windows!All : s # r => block'[s] = block[s]
        /\ block'[r].pc = pc /\ block'[r].hz = block[r].hz /\ block'[r].back = block[r].back
    BY <1>2, BlockMoves DEF WindowsInv, WindowPcs
  <1>4. Windows!Inside = {r} /\ Windows!Inside' = {r}
    <2>1. Windows!Inside = {r}
      BY <1>1 DEF WindowsInv, OneInside, Windows!Inside, Windows!Begun
    <2> QED
      BY <2>1, <1>3 DEF Windows!Inside, Windows!Begun
  <1>5. /\ left' \in [rule : Windows!All \cup {Windows!NoRule}, rate : Rates] /\ left'.rate = left.rate
        /\ (rule' = rule /\ left'.rule = left.rule) \/ rule' \in {r, left'.rule}
    BY <1>2 DEF WindowsInv, WindowsTypes
  <1>6. WindowsTypes'
    BY <1>1, <1>2, <1>3, <1>5 DEF WindowsInv, WindowsTypes
  <1>7. OneInside' /\ RuleInv'
    BY <1>4, <1>5 DEF WindowsInv, OneInside, RuleInv
  <1>8. PlayersInv' /\ SwitchInv'
    BY <1>1, <1>2, <1>3 DEF WindowsInv, PlayersInv, SwitchInv
  <1>9. RateInv'
    BY <1>1, <1>2, <1>3, <1>4, <1>5 DEF WindowsInv, RateInv, RateOf, Windows!Begun
  <1> QED
    BY <1>6, <1>7, <1>8, <1>9 DEF WindowsInv

(* The rate is switched, or wlr-randr failed. *)
LEMMA Switches == ASSUME WindowsInv, NEW r \in Windows!All, Windows!Switches(r) PROVE WindowsInv'
  <1>1. /\ block' \in [Windows!All -> WindowBlock] /\ \A s \in Windows!All : s # r => block'[s] = block[s]
        /\ block[r].pc = "switches" /\ block'[r].pc = "plays" /\ block'[r].back = block[r].back
        /\ block'[r].hz = block[r].hz
        /\ Windows!Inside = {r} /\ Windows!Inside' = {r} /\ OneInside' /\ RuleInv'
    BY InsideStep DEF Windows!Switches, Windows!Begun, WindowPcs
  <1>2. UNCHANGED <<module, ended, windows_players, rule, left>> /\ rate' \in {block[r].hz, rate}
    BY DEF Windows!Switches
  <1>3. block[r].hz \in Rates /\ block[r].back # Windows!NoRate
    BY <1>1 DEF WindowsInv, WindowsTypes, WindowBlock, WindowRate, SwitchInv
  <1>4. WindowsTypes'
    BY <1>1, <1>2, <1>3 DEF WindowsInv, WindowsTypes
  <1>5. PlayersInv' /\ SwitchInv'
    BY <1>1, <1>2 DEF WindowsInv, PlayersInv, SwitchInv
  <1>6. RateInv'
    BY <1>1, <1>2, <1>3 DEF WindowsInv, RateInv, RateOf, Windows!Begun
  <1> QED
    BY <1>1, <1>4, <1>5, <1>6 DEF WindowsInv

(* The module hears that it may play, and is counted as a player. *)
LEMMA Plays == ASSUME WindowsInv, NEW r \in Windows!All, Windows!Plays(r) PROVE WindowsInv'
  <1>1. /\ block' \in [Windows!All -> WindowBlock] /\ \A s \in Windows!All : s # r => block'[s] = block[s]
        /\ block[r].pc = "plays" /\ block'[r].pc = "held" /\ block'[r].back = block[r].back
        /\ block'[r].hz = block[r].hz
        /\ Windows!Inside = {r} /\ Windows!Inside' = {r} /\ OneInside' /\ RuleInv'
    BY InsideStep DEF Windows!Plays, Windows!Begun, WindowPcs
  <1>2. UNCHANGED <<ended, rule, rate, left>> /\ windows_players' = windows_players \cup {r[1]}
    BY DEF Windows!Plays
  <1>3. WindowsTypes'
    <2>1. r[1] \in Windowed
      BY WindowsConstants
    <2>2. module' \in [Windows!All -> {"none", "asks", "plays"}]
      BY DEF WindowsInv, WindowsTypes, Windows!Plays
    <2> QED
      BY <1>1, <1>2, <2>1, <2>2 DEF WindowsInv, WindowsTypes
  <1>4. PlayersInv' /\ SwitchInv'
    BY <1>1, <1>2 DEF WindowsInv, PlayersInv, SwitchInv
  <1>5. RateInv'
    BY <1>1, <1>2 DEF WindowsInv, RateInv, RateOf, Windows!Begun
  <1> QED
    BY <1>1, <1>3, <1>4, <1>5 DEF WindowsInv

(* A block that is over, with what it leaves. *)
LEMMA BlockOver ==
  ASSUME WindowsInv, NEW r \in Windows!All, block[r].pc \in Windows!Begun, Windows!Over(r),
         ended' = ended, windows_players' \subseteq windows_players,
         block[r].pc \in {"held", "stops"} => r[1] \notin windows_players',
         rule' \in {rule, Windows!NoRule}, rate' = rate,
         left' = [rule |-> rule', rate |-> rate]
  PROVE  WindowsInv'
  <1>1. /\ block' \in [Windows!All -> WindowBlock] /\ \A s \in Windows!All : s # r => block'[s] = block[s]
        /\ block'[r] = Windows!NoBlock
        /\ module' \in [Windows!All -> {"none", "asks", "plays"}]
    BY WindowsConstants DEF WindowsInv, WindowsTypes, Windows!Over
  <1>2. Windows!Inside = {r} /\ Windows!Inside' = {}
    <2>1. Windows!Inside = {r}
      BY DEF WindowsInv, OneInside, Windows!Inside
    <2>2. \A s \in Windows!All : s # r => block'[s].pc \notin Windows!Begun
      BY <1>1, <2>1 DEF Windows!Inside
    <2>3. block'[r].pc \notin Windows!Begun
      BY <1>1, WindowsConstants DEF Windows!Begun
    <2> QED
      BY <2>1, <2>2, <2>3 DEF Windows!Inside
  <1>3. WindowsTypes'
    BY <1>1 DEF WindowsInv, WindowsTypes
  <1>4. OneInside' /\ RuleInv' /\ RateInv'
    BY <1>2 DEF OneInside, RuleInv, RateInv
  <1>5. PlayersInv'
    <2> SUFFICES ASSUME NEW i \in windows_players'
                 PROVE  \E s \in Windows!All : s[1] = i /\ block'[s].pc \in {"held", "stops"}
      BY DEF PlayersInv
    <2>1. PICK s \in Windows!All : s[1] = i /\ block[s].pc \in {"held", "stops"}
      BY DEF WindowsInv, PlayersInv
    <2>2. s # r
      BY <2>1
    <2> QED
      BY <2>1, <2>2, <1>1
  <1>6. SwitchInv'
    BY <1>1 DEF WindowsInv, SwitchInv, Windows!NoBlock
  <1> QED
    BY <1>3, <1>4, <1>5, <1>6 DEF WindowsInv

(* It plays no more: the finally goes on, or an error ends it here. *)
LEMMA Stops == ASSUME WindowsInv, NEW r \in Windows!All, Windows!Stops(r) PROVE WindowsInv'
  <1>1. block[r].pc = "stops" /\ block[r].pc \in Windows!Begun /\ UNCHANGED <<ended, rule, rate>>
        /\ windows_players' = windows_players \ {r[1]}
    BY DEF Windows!Stops, Windows!Begun
  <1>2. CASE Windows!Over(r) /\ left' = [rule |-> rule, rate |-> rate]
    BY <1>1, <1>2, BlockOver
  <1>3. CASE \E pc \in {"unplaces", "restores"} :
               Windows!Goes(r, pc) /\ (pc = "restores" <=> block[r].back # Windows!NoRate) /\ UNCHANGED <<module, left>>
    <2>1. PICK pc \in {"unplaces", "restores"} :
            Windows!Goes(r, pc) /\ (pc = "restores" <=> block[r].back # Windows!NoRate) /\ UNCHANGED <<module, left>>
      BY <1>3
    <2>2. pc \in WindowPcs \ {"none", "waits"}
      BY DEF WindowPcs
    <2>3. /\ block' \in [Windows!All -> WindowBlock] /\ \A s \in Windows!All : s # r => block'[s] = block[s]
          /\ block'[r].pc = pc /\ block'[r].back = block[r].back /\ block'[r].hz = block[r].hz
          /\ Windows!Inside = {r} /\ Windows!Inside' = {r} /\ OneInside' /\ RuleInv'
      BY <1>1, <2>1, <2>2, InsideStep
    <2>4. WindowsTypes'
      BY <1>1, <2>1, <2>3 DEF WindowsInv, WindowsTypes
    <2>5. PlayersInv' /\ SwitchInv'
      BY <1>1, <2>1, <2>3 DEF WindowsInv, PlayersInv, SwitchInv
    <2>6. RateInv'
      BY <1>1, <2>1, <2>3 DEF WindowsInv, RateInv, RateOf, Windows!Begun
    <2> QED
      BY <2>3, <2>4, <2>5, <2>6 DEF WindowsInv
  <1> QED
    BY <1>2, <1>3 DEF Windows!Stops

(* The rate is put back, or stays. *)
LEMMA Restores == ASSUME WindowsInv, NEW r \in Windows!All, Windows!Restores(r) PROVE WindowsInv'
  <1>1. /\ block[r].pc = "restores" /\ block[r].pc \in Windows!Begun /\ Windows!Goes(r, "unplaces")
        /\ UNCHANGED <<module, ended, windows_players, rule>>
        /\ \/ rate' = block[r].back /\ left' = left
           \/ rate' = rate /\ left' = [left EXCEPT !.rate = rate]
    BY DEF Windows!Restores, Windows!Begun
  <1>2. /\ block' \in [Windows!All -> WindowBlock] /\ \A s \in Windows!All : s # r => block'[s] = block[s]
        /\ block'[r].pc = "unplaces" /\ block'[r].back = block[r].back /\ block'[r].hz = block[r].hz
    BY <1>1, BlockMoves DEF WindowsInv, WindowPcs
  <1>3. Windows!Inside = {r} /\ Windows!Inside' = {r}
    <2>1. Windows!Inside = {r}
      BY <1>1 DEF WindowsInv, OneInside, Windows!Inside
    <2> QED
      BY <2>1, <1>2 DEF Windows!Inside, Windows!Begun
  <1>4. block[r].back \in Rates /\ block[r].back = left.rate
    BY <1>1, <1>3 DEF WindowsInv, WindowsTypes, WindowBlock, WindowRate, SwitchInv, RateInv, RateOf
  <1>5. /\ left' \in [rule : Windows!All \cup {Windows!NoRule}, rate : Rates]
        /\ left'.rule = left.rule /\ rate' = left'.rate
    BY <1>1, <1>4 DEF WindowsInv, WindowsTypes
  <1>6. WindowsTypes'
    BY <1>1, <1>2, <1>5 DEF WindowsInv, WindowsTypes
  <1>7. OneInside' /\ RuleInv'
    BY <1>1, <1>3, <1>5 DEF WindowsInv, OneInside, RuleInv
  <1>8. PlayersInv' /\ SwitchInv'
    BY <1>1, <1>2 DEF WindowsInv, PlayersInv, SwitchInv
  <1>9. RateInv'
    BY <1>2, <1>3, <1>5 DEF RateInv, RateOf
  <1> QED
    BY <1>6, <1>7, <1>8, <1>9 DEF WindowsInv

(* The rule goes, or stays when its write fails, and the block with it. *)
LEMMA Unplaces == ASSUME WindowsInv, NEW r \in Windows!All, Windows!Unplaces(r) PROVE WindowsInv'
  <1>1. /\ block[r].pc = "unplaces" /\ block[r].pc \in Windows!Begun /\ Windows!Over(r)
        /\ UNCHANGED <<ended, windows_players, rate>> /\ rule' \in {rule, Windows!NoRule}
        /\ left' = [left EXCEPT !.rule = rule']
    BY DEF Windows!Unplaces, Windows!Begun
  <1>2. rate = left.rate
    BY <1>1 DEF WindowsInv, RateInv, RateOf, Windows!Inside
  <1>3. left' = [rule |-> rule', rate |-> rate]
    BY <1>1, <1>2 DEF WindowsInv, WindowsTypes
  <1> QED
    BY <1>1, <1>3, BlockOver

(* Every step of the video windows keeps it. *)
LEMMA WindowsStep == ASSUME WindowsInv, [Windows!Next]_WindowsVars PROVE WindowsInv'
  <1>1. ASSUME UNCHANGED WindowsVars PROVE WindowsInv'
    <2>1. WindowsTypes'
      BY <1>1 DEF WindowsInv, WindowsTypes, WindowsVars
    <2> QED
      BY <1>1, <2>1, OutsideStep DEF WindowsVars
  <1>2. ASSUME NEW r \in Windows!All, Windows!Finishes(r) PROVE WindowsInv'
    <2>1. WindowsTypes'
      BY <1>2 DEF WindowsInv, WindowsTypes, Windows!Finishes
    <2> QED
      BY <1>2, <2>1, OutsideStep DEF Windows!Finishes
  <1>3. ASSUME NEW i \in Windowed, Windows!Dies(i) PROVE WindowsInv'
    <2>1. WindowsTypes'
      BY <1>3 DEF WindowsInv, WindowsTypes, Windows!Dies
    <2> QED
      BY <1>3, <2>1, OutsideStep DEF Windows!Dies
  <1> QED
    BY <1>1, <1>2, <1>3, CoreCrashes, Begins, Enters, PageAnswers, Lists, Places, Switches, Plays, Wakes, Stops, Restores,
       Unplaces DEF Windows!Next, Windows!Holds

(* What is put back, of the invariant. *)
LEMMA WindowsPutBack == WindowsInv => Windows!PutBack
  <1> SUFFICES ASSUME WindowsInv PROVE Windows!PutBack
    OBVIOUS
  <1>1. Windows!TypeOK
    BY DEF WindowsInv, WindowsTypes, WindowBlock, WindowPcs, WindowRate, Windows!TypeOK, Windows!Begun
  <1>2. Windows!Cardinality(Windows!Inside) <= 1
    <2>1. Windows!Cardinality(Windows!Inside) = Cardinality(Windows!Inside)
      BY DEF Windows!Cardinality, Cardinality
    <2>2. CASE Windows!Inside = {}
      BY <2>1, <2>2, FS_EmptySet
    <2>3. CASE Windows!Inside # {}
      <3>1. PICK r : Windows!Inside = {r}
        BY <2>3 DEF WindowsInv, OneInside
      <3>2. Cardinality({r}) = 1
        BY FS_Singleton
      <3> QED
        BY <2>1, <3>1, <3>2
    <2> QED
      BY <2>2, <2>3
  <1>3. windows_players \subseteq {r[1] : r \in Windows!Inside}
    BY DEF WindowsInv, PlayersInv, Windows!Inside, Windows!Begun
  <1>4. Windows!Inside = {} => rate = left.rate
    BY DEF WindowsInv, RateInv
  <1> QED
    BY <1>1, <1>2, <1>3, <1>4 DEF WindowsInv, RuleInv, Windows!PutBack

(* One video window at a time, and after each block the rule and the refresh rate are those before it, whatever ends it,
   but for what the end of the core or a failed step of the block's finally leaves; and no block that is over counts as
   playing: for any instances, requests and rates (video_window, _hold_window). *)
THEOREM AlwaysPutBack == Spec => []PutBack
  <1> DEFINE Inv == part = "windows" => WindowsInv
  <1>1. Init => Inv
    BY WindowsInit DEF Init
  <1>2. Inv /\ [Next]_vars => Inv'
    BY WindowsStep, StepOfPart
  <1>3. Inv => PutBack
    BY WindowsPutBack DEF PutBack
  <1> QED
    BY <1>1, <1>2, <1>3, PTL DEF Spec

-----------------------------------------------------------------------------
(* What a module is told of its card.                                       *)

\* What the last of the lines says of one thing, or was: of the other the lines of kind skip speak.
Says(line, skip) ==
  IF line.t = "start" THEN (IF skip = "awake" THEN line.hidden ELSE line.awake) ELSE line.on
LastSays(lines, skip, was) ==
  \/ \E n \in DOMAIN lines : /\ lines[n].t # skip /\ Says(lines[n], skip)
                             /\ \A m \in n+1..Len(lines) : lines[m].t = skip
  \/ was /\ \A n \in DOMAIN lines : lines[n].t = skip

\* A start is the first line a process reads.
InboxInv == \A i \in Watched : proc[i].up => \A n \in DOMAIN proc[i].inbox : n > 1 => proc[i].inbox[n].t # "start"

\* What on_shown heard last follows from what the process read.
HeardInv ==
  ~late => \A i \in Watched :
    proc[i].up /\ (proc[i].inbox = <<>> \/ proc[i].inbox[1].t # "start")
      => proc[i].shown = {proc[i].awake /\ ~proc[i].hidden}

\* What it will have read says what the core believes it told.
ToldInv ==
  ~late => \A i \in Watched : proc[i].up => LastSays(proc[i].inbox, "awake", proc[i].hidden) = (i \in hidden)
AwakeInv ==
  /\ posted \subseteq {on}
  /\ ~overlapped /\ sync.pc = "starts" => sync.awake = on
  /\ ~overlapped /\ ~late /\ posted = {} =>
       \A i \in Watched : proc[i].up => LastSays(proc[i].inbox, "hidden", proc[i].awake) = on

\* Who is hidden follows from the settings and the clock, or word of them is on its way.
WordInv ==
  /\ telling # <<>> => telling[Len(telling)].config = config
  /\ ~overlapped /\ sync.pc = "asks" => sync.config = config
  /\ ~overlapped /\ telling = <<>> /\ scheduled = scheduled_out /\ asked = 0 /\ sync.pc # "asks"
       => hidden = CardShown!HiddenBy(config)

CardInv == CardShown!TypeOK /\ InboxInv /\ HeardInv /\ ToldInv /\ AwakeInv /\ WordInv

(* A line put behind the others is what stands. *)
LEMMA LastAdded ==
  ASSUME NEW lines \in Seq(CardShown!Lines), NEW line \in CardShown!Lines, NEW skip \in {"awake", "hidden"},
         NEW was \in BOOLEAN
  PROVE  LastSays(Append(lines, line), skip, was)
           = IF line.t = skip THEN LastSays(lines, skip, was) ELSE Says(line, skip)
  <1> DEFINE more == Append(lines, line)
  <1>1. /\ Len(lines) \in Nat /\ Len(more) = Len(lines) + 1 /\ more[Len(lines) + 1] = line
        /\ DOMAIN more = 1..Len(lines) + 1 /\ DOMAIN lines = 1..Len(lines)
        /\ \A n \in 1..Len(lines) : more[n] = lines[n]
    OBVIOUS
  <1> HIDE DEF more
  <1>2. LastSays(more, skip, was) \in BOOLEAN /\ LastSays(lines, skip, was) \in BOOLEAN
    BY DEF LastSays
  <1>3. Says(line, skip) \in BOOLEAN
    BY DEF Says, CardShown!Lines
  <1>4. CASE line.t = skip
    BY <1>1, <1>2, <1>4 DEF LastSays
  <1>5. CASE line.t # skip
    <2>1. Len(lines) + 1 \in DOMAIN more /\ \A m \in Len(lines) + 1 + 1..Len(more) : FALSE
      BY <1>1
    <2>2. Says(line, skip) => LastSays(more, skip, was)
      BY <1>1, <1>5, <2>1 DEF LastSays
    <2>3. ASSUME LastSays(more, skip, was) PROVE Says(line, skip)
      <3>1. ~\A n \in DOMAIN more : more[n].t = skip
        BY <1>1, <1>5
      <3>2. PICK n \in DOMAIN more : Says(more[n], skip) /\ \A m \in n + 1..Len(more) : more[m].t = skip
        BY <2>3, <3>1 DEF LastSays
      <3>3. n = Len(lines) + 1
        <4>1. CASE n < Len(lines) + 1
          <5>1. Len(lines) + 1 \in n + 1..Len(more)
            BY <1>1, <4>1
          <5> QED
            BY <5>1, <3>2, <1>1, <1>5
        <4> QED
          BY <4>1, <1>1
      <3> QED
        BY <3>2, <3>3, <1>1
    <2> QED
      BY <2>2, <2>3, <1>2, <1>3, <1>5 DEF more
  <1> QED
    BY <1>4, <1>5 DEF more

(* What the first line says stands for it once it is read. *)
LEMMA FirstRead ==
  ASSUME NEW lines \in Seq(CardShown!Lines), lines # <<>>, NEW skip \in {"awake", "hidden"}, NEW was \in BOOLEAN
  PROVE  LastSays(Tail(lines), skip, IF Head(lines).t = skip THEN was ELSE Says(Head(lines), skip))
           = LastSays(lines, skip, was)
  <1> DEFINE rest == Tail(lines)
  <1>1. /\ Len(lines) \in Nat \ {0} /\ Len(rest) = Len(lines) - 1 /\ Head(lines) = lines[1]
        /\ DOMAIN rest = 1..Len(lines) - 1 /\ DOMAIN lines = 1..Len(lines)
        /\ \A n \in 1..Len(lines) - 1 : rest[n] = lines[n + 1]
    OBVIOUS
  <1> HIDE DEF rest
  <1>2. \A w : LastSays(rest, skip, w) \in BOOLEAN /\ LastSays(lines, skip, was) \in BOOLEAN
    BY DEF LastSays
  <1>3. lines[1] \in CardShown!Lines /\ Says(lines[1], skip) \in BOOLEAN
    BY <1>1 DEF Says, CardShown!Lines
  <1>4. ASSUME NEW w \in BOOLEAN, LastSays(rest, skip, w)
        PROVE  \/ \E n \in 2..Len(lines) : /\ lines[n].t # skip /\ Says(lines[n], skip)
                                           /\ \A m \in n+1..Len(lines) : lines[m].t = skip
               \/ w /\ \A n \in 2..Len(lines) : lines[n].t = skip
    <2>1. CASE w /\ \A n \in DOMAIN rest : rest[n].t = skip
      <3>1. \A n \in 2..Len(lines) : n - 1 \in DOMAIN rest /\ rest[n - 1] = lines[n]
        BY <1>1
      <3> QED
        BY <2>1, <3>1
    <2>2. CASE ~(w /\ \A n \in DOMAIN rest : rest[n].t = skip)
      <3>1. PICK n \in DOMAIN rest : /\ rest[n].t # skip /\ Says(rest[n], skip)
                                     /\ \A m \in n+1..Len(rest) : rest[m].t = skip
        BY <1>4, <2>2 DEF LastSays
      <3>2. n + 1 \in 2..Len(lines) /\ rest[n] = lines[n + 1]
        BY <1>1
      <3>3. \A m \in n + 1 + 1..Len(lines) : m - 1 \in n+1..Len(rest) /\ rest[m - 1] = lines[m]
        BY <1>1
      <3> QED
        BY <3>1, <3>2, <3>3
    <2> QED
      BY <2>1, <2>2
  <1>5. ASSUME NEW w \in BOOLEAN,
               \/ \E n \in 2..Len(lines) : /\ lines[n].t # skip /\ Says(lines[n], skip)
                                           /\ \A m \in n+1..Len(lines) : lines[m].t = skip
               \/ w /\ \A n \in 2..Len(lines) : lines[n].t = skip
        PROVE  LastSays(rest, skip, w)
    <2>1. CASE w /\ \A n \in 2..Len(lines) : lines[n].t = skip
      BY <1>1, <2>1 DEF LastSays
    <2>2. CASE ~(w /\ \A n \in 2..Len(lines) : lines[n].t = skip)
      <3>1. PICK n \in 2..Len(lines) : /\ lines[n].t # skip /\ Says(lines[n], skip)
                                       /\ \A m \in n+1..Len(lines) : lines[m].t = skip
        BY <1>5, <2>2
      <3>2. n - 1 \in DOMAIN rest /\ rest[n - 1] = lines[n]
        BY <1>1
      <3>3. \A m \in n - 1 + 1..Len(rest) : m + 1 \in n+1..Len(lines) /\ rest[m] = lines[m + 1]
        BY <1>1
      <3>4. \A m \in n - 1 + 1..Len(rest) : rest[m].t = skip
        BY <3>1, <3>3
      <3> QED
        BY <3>1, <3>2, <3>4 DEF LastSays
    <2> QED
      BY <2>1, <2>2
  <1>6. ASSUME NEW w \in BOOLEAN, w = IF lines[1].t = skip THEN was ELSE Says(lines[1], skip)
        PROVE  LastSays(lines, skip, was) <=>
               \/ \E n \in 2..Len(lines) : /\ lines[n].t # skip /\ Says(lines[n], skip)
                                           /\ \A m \in n+1..Len(lines) : lines[m].t = skip
               \/ w /\ \A n \in 2..Len(lines) : lines[n].t = skip
    <2>1. DOMAIN lines = {1} \cup 2..Len(lines) /\ 1 + 1..Len(lines) = 2..Len(lines)
      BY <1>1
    <2> QED
      BY <2>1, <1>6 DEF LastSays
  <1> DEFINE w == IF lines[1].t = skip THEN was ELSE Says(lines[1], skip)
  <1>7. w \in BOOLEAN
    BY <1>3
  <1> QED
    BY <1>1, <1>2, <1>4, <1>5, <1>6, <1>7 DEF rest

(* What the bounds are, and that what stands for a line and for a process is one. *)
LEMMA CardConstants ==
  /\ MaxMoves \in Nat /\ MaxDeaths \in Nat /\ FirstConfigs \subseteq CardShown!Configs
  /\ \A is \in BOOLEAN : /\ [t |-> "hidden", on |-> is] \in CardShown!Lines
                         /\ [t |-> "awake", on |-> is] \in CardShown!Lines
  /\ \A wakes \in BOOLEAN, hides \in BOOLEAN : [t |-> "start", awake |-> wakes, hidden |-> hides] \in CardShown!Lines
  /\ CardShown!Fresh \in CardShown!Procs /\ CardShown!NoProc \in CardShown!Procs
  <1>1. MaxMoves \in Nat /\ MaxDeaths \in Nat /\ FirstConfigs \subseteq CardShown!Configs
    BY ScreenAssumption DEF CardShown!CardShownAssumption
  <1>2. ASSUME NEW is \in BOOLEAN
        PROVE  [t |-> "hidden", on |-> is] \in CardShown!Lines /\ [t |-> "awake", on |-> is] \in CardShown!Lines
    BY DEF CardShown!Lines
  <1>3. ASSUME NEW wakes \in BOOLEAN, NEW hides \in BOOLEAN
        PROVE  [t |-> "start", awake |-> wakes, hidden |-> hides] \in CardShown!Lines
    BY DEF CardShown!Lines
  <1>4. <<>> \in Seq(CardShown!Lines) /\ {} \in SUBSET BOOLEAN
    OBVIOUS
  <1>5. CardShown!Fresh \in CardShown!Procs
    BY <1>4 DEF CardShown!Fresh, CardShown!Procs
  <1>6. CardShown!NoProc \in CardShown!Procs
    BY <1>5 DEF CardShown!NoProc, CardShown!Procs
  <1> QED
    BY <1>1, <1>2, <1>3, <1>5, <1>6

(* One more line to each of some running processes, and nothing else of any. *)
LEMMA LinesSent ==
  ASSUME proc \in [Watched -> CardShown!Procs], NEW to, NEW lines \in [Watched -> CardShown!Lines],
         proc' = CardShown!Sent(to, lines)
  PROVE  /\ proc' \in [Watched -> CardShown!Procs]
         /\ \A i \in Watched :
              /\ proc'[i].up = proc[i].up /\ proc'[i].awake = proc[i].awake /\ proc'[i].hidden = proc[i].hidden
              /\ proc'[i].shown = proc[i].shown
              /\ proc'[i].inbox = IF i \in to /\ proc[i].up THEN Append(proc[i].inbox, lines[i]) ELSE proc[i].inbox
  <1>1. \A i \in Watched : proc[i] \in CardShown!Procs /\ lines[i] \in CardShown!Lines
    OBVIOUS
  <1>2. \A i \in Watched : Append(proc[i].inbox, lines[i]) \in Seq(CardShown!Lines)
    BY <1>1 DEF CardShown!Procs
  <1>3. \A i \in Watched : proc'[i] = IF i \in to /\ proc[i].up
                             THEN [proc[i] EXCEPT !.inbox = Append(proc[i].inbox, lines[i])] ELSE proc[i]
    BY DEF CardShown!Sent, CardShown!Running
  <1>4. \A i \in Watched : [proc[i] EXCEPT !.inbox = Append(proc[i].inbox, lines[i])] \in CardShown!Procs
    BY <1>1, <1>2 DEF CardShown!Procs
  <1>5. proc' \in [Watched -> CardShown!Procs]
    BY <1>3, <1>4 DEF CardShown!Sent
  <1>6. ASSUME NEW i \in Watched
        PROVE  /\ proc'[i].up = proc[i].up /\ proc'[i].awake = proc[i].awake /\ proc'[i].hidden = proc[i].hidden
               /\ proc'[i].shown = proc[i].shown
               /\ proc'[i].inbox = IF i \in to /\ proc[i].up THEN Append(proc[i].inbox, lines[i]) ELSE proc[i].inbox
    BY <1>1, <1>3, <1>6 DEF CardShown!Procs
  <1> QED
    BY <1>5, <1>6

(* The instances whose state changed are told: the core and they agree again, and the screen is another matter. *)
LEMMA HiddenTold ==
  ASSUME CardShown!TypeOK, InboxInv, HeardInv, ToldInv, NEW now \in SUBSET Watched, CardShown!SetHidden(now),
         late' = late
  PROVE  /\ proc' \in [Watched -> CardShown!Procs] /\ hidden' = now /\ InboxInv' /\ HeardInv' /\ ToldInv'
         /\ \A i \in Watched : /\ proc'[i].up = proc[i].up
                               /\ LastSays(proc'[i].inbox, "hidden", proc'[i].awake)
                                    = LastSays(proc[i].inbox, "hidden", proc[i].awake)
  <1> DEFINE lines == [i \in Watched |-> [t |-> "hidden", on |-> i \in now]]
             to == (now \ hidden) \cup (hidden \ now)
  <1>1. proc \in [Watched -> CardShown!Procs]
    BY DEF CardShown!TypeOK
  <1>2. lines \in [Watched -> CardShown!Lines] /\ \A i \in Watched : lines[i] = [t |-> "hidden", on |-> i \in now]
    <2>1. \A i \in Watched : (i \in now) \in BOOLEAN
      OBVIOUS
    <2>2. \A i \in Watched : [t |-> "hidden", on |-> i \in now] \in CardShown!Lines
      BY <2>1, CardConstants
    <2> QED
      BY <2>2
  <1>3. hidden' = now /\ proc' = CardShown!Sent(to, lines)
    BY DEF CardShown!SetHidden
  <1>4. \A i \in Watched : i \in to <=> (i \in now) # (i \in hidden)
    OBVIOUS
  <1> HIDE DEF lines, to
  <1>5. /\ proc' \in [Watched -> CardShown!Procs]
        /\ \A i \in Watched :
             /\ proc'[i].up = proc[i].up /\ proc'[i].awake = proc[i].awake /\ proc'[i].hidden = proc[i].hidden
             /\ proc'[i].shown = proc[i].shown
             /\ proc'[i].inbox = IF i \in to /\ proc[i].up THEN Append(proc[i].inbox, lines[i]) ELSE proc[i].inbox
    BY <1>1, <1>2, <1>3, LinesSent
  <1>6. ASSUME NEW i \in Watched
        PROVE  /\ proc[i].inbox \in Seq(CardShown!Lines) /\ proc[i].awake \in BOOLEAN /\ proc[i].hidden \in BOOLEAN
               /\ lines[i] \in CardShown!Lines /\ lines[i].t = "hidden" /\ Says(lines[i], "awake") = (i \in now)
    BY <1>1, <1>2 DEF CardShown!Procs, Says
  <1>7. InboxInv'
    <2> SUFFICES ASSUME NEW i \in Watched, proc'[i].up, NEW n \in DOMAIN proc'[i].inbox, n > 1
                 PROVE  proc'[i].inbox[n].t # "start"
      BY DEF InboxInv
    <2>1. proc'[i].inbox = proc[i].inbox \/ proc'[i].inbox = Append(proc[i].inbox, lines[i])
      BY <1>5
    <2> QED
      BY <1>5, <1>6, <2>1 DEF InboxInv
  <1>8. HeardInv'
    <2> SUFFICES ASSUME ~late, NEW i \in Watched, proc'[i].up,
                        proc'[i].inbox = <<>> \/ proc'[i].inbox[1].t # "start"
                 PROVE  proc'[i].shown = {proc'[i].awake /\ ~proc'[i].hidden}
      BY DEF HeardInv
    <2>1. proc'[i].inbox = proc[i].inbox \/ proc'[i].inbox = Append(proc[i].inbox, lines[i])
      BY <1>5
    <2>2. proc[i].inbox = <<>> \/ proc[i].inbox[1].t # "start"
      BY <1>6, <2>1
    <2> QED
      BY <1>5, <2>2 DEF HeardInv
  <1>9. ToldInv'
    <2> SUFFICES ASSUME ~late, NEW i \in Watched, proc'[i].up
                 PROVE  LastSays(proc'[i].inbox, "awake", proc'[i].hidden) = (i \in now)
      BY <1>3 DEF ToldInv
    <2>1. LastSays(Append(proc[i].inbox, lines[i]), "awake", proc[i].hidden) = (i \in now)
      BY <1>6, LastAdded
    <2>2. LastSays(proc[i].inbox, "awake", proc[i].hidden) = (i \in hidden)
      BY <1>5 DEF ToldInv
    <2> QED
      BY <1>4, <1>5, <2>1, <2>2
  <1>10. ASSUME NEW i \in Watched
         PROVE  LastSays(proc'[i].inbox, "hidden", proc'[i].awake) = LastSays(proc[i].inbox, "hidden", proc[i].awake)
    <2>1. LastSays(Append(proc[i].inbox, lines[i]), "hidden", proc[i].awake)
            = LastSays(proc[i].inbox, "hidden", proc[i].awake)
      BY <1>6, LastAdded
    <2> QED
      BY <1>5, <2>1
  <1> QED
    BY <1>3, <1>5, <1>7, <1>8, <1>9, <1>10

(* What is told to nobody changes nothing of the processes. *)
LEMMA ProcsSame == ASSUME InboxInv, HeardInv, ToldInv, UNCHANGED <<proc, hidden, late>>
  PROVE InboxInv' /\ HeardInv' /\ ToldInv'
BY DEF InboxInv, HeardInv, ToldInv

(* The screen as it was, and lines that say no more of it. *)
LEMMA ScreenSame ==
  ASSUME AwakeInv, on' = on, posted' = posted, overlapped => overlapped', late => late',
         sync'.pc = "starts" => sync.pc = "starts" /\ sync'.awake = sync.awake,
         \A i \in Watched : proc'[i].up =>
           /\ proc[i].up
           /\ LastSays(proc'[i].inbox, "hidden", proc'[i].awake) = LastSays(proc[i].inbox, "hidden", proc[i].awake)
  PROVE  AwakeInv'
BY DEF AwakeInv

(* A change is counted. *)
LEMMA MovesCounted == ASSUME CardShown!TypeOK, CardShown!Moves PROVE moves' \in 0..MaxMoves /\ overlapped' \in BOOLEAN
BY CardConstants DEF CardShown!TypeOK, CardShown!Moves

(* The screen is switched, and its line put on the event loop. *)
LEMMA CardSwitches == ASSUME CardInv, CardShown!Switches PROVE CardInv'
  <1>1. CardShown!TypeOK'
    BY MovesCounted DEF CardInv, CardShown!TypeOK, CardShown!Switches
  <1>2. InboxInv' /\ HeardInv' /\ ToldInv'
    BY ProcsSame DEF CardInv, CardShown!Switches
  <1>3. AwakeInv'
    <2>1. ~overlapped' => sync.pc = "idle"
      BY DEF CardShown!Switches, CardShown!Moves
    <2> QED
      BY <2>1 DEF AwakeInv, CardShown!Switches
  <1>4. WordInv'
    BY DEF CardInv, WordInv, CardShown!Switches, CardShown!Moves, CardShown!HiddenBy
  <1> QED
    BY <1>1, <1>2, <1>3, <1>4 DEF CardInv

(* A change of the settings puts word of them behind what waits for the page. *)
LEMMA CardSaves ==
  ASSUME CardInv, CardShown!Moves, config' \in CardShown!Configs, NEW by \in {"command", "save"},
         telling' = Append(telling, [by |-> by, config |-> config']),
         UNCHANGED <<scheduled, scheduled_out, on, posted, hidden, asked, sync, proc, late, deaths>>
  PROVE  CardInv'
  <1>1. [by |-> by, config |-> config'] \in CardShown!Told
    BY DEF CardShown!Told
  <1>2. telling' \in Seq(CardShown!Told) /\ telling' # <<>> /\ telling'[Len(telling')].config = config'
    BY <1>1 DEF CardInv, CardShown!TypeOK
  <1>3. CardShown!TypeOK'
    BY <1>2, MovesCounted DEF CardInv, CardShown!TypeOK
  <1>4. InboxInv' /\ HeardInv' /\ ToldInv'
    BY ProcsSame DEF CardInv
  <1>5. AwakeInv'
    BY ScreenSame DEF CardInv, CardShown!Moves
  <1>6. WordInv'
    BY <1>2 DEF CardInv, WordInv, CardShown!Moves
  <1> QED
    BY <1>3, <1>4, <1>5, <1>6 DEF CardInv

(* Privacy mode, or an instance's mark, is such a change. *)
LEMMA CardSetPrivacy == ASSUME CardInv, CardShown!SetPrivacy PROVE CardInv'
  <1>1. config' \in CardShown!Configs
    BY DEF CardInv, CardShown!TypeOK, CardShown!SetPrivacy, CardShown!Configs
  <1> QED
    BY <1>1, CardSaves DEF CardShown!SetPrivacy
LEMMA CardMarks == ASSUME CardInv, NEW i \in Watched, CardShown!Marks(i) PROVE CardInv'
  <1>1. config' = [config EXCEPT !.marked = IF i \in config.marked THEN config.marked \ {i} ELSE config.marked \cup {i}]
    BY DEF CardInv, CardShown!TypeOK, CardShown!Marks, CardShown!Configs
  <1>2. config' \in CardShown!Configs
    BY <1>1 DEF CardInv, CardShown!TypeOK, CardShown!Configs
  <1> QED
    BY <1>2, CardSaves DEF CardShown!Marks

(* The clock comes to a schedule's start or end, of which the loop has yet to send word. *)
LEMMA CardTurns == ASSUME CardInv, NEW i \in Watched, CardShown!Turns(i) PROVE CardInv'
  <1>1. CardShown!TypeOK'
    BY MovesCounted DEF CardInv, CardShown!TypeOK, CardShown!Turns
  <1>2. InboxInv' /\ HeardInv' /\ ToldInv'
    BY ProcsSame DEF CardInv, CardShown!Turns
  <1>3. AwakeInv'
    BY ScreenSame DEF CardInv, CardShown!Turns, CardShown!Moves
  <1>4. scheduled' # scheduled_out'
    BY DEF CardShown!Turns
  <1>5. WordInv'
    BY <1>4 DEF CardInv, WordInv, CardShown!Turns, CardShown!Moves
  <1> QED
    BY <1>1, <1>2, <1>3, <1>5 DEF CardInv

(* The loop's pass sends word of the schedules. *)
LEMMA CardSendsSchedules == ASSUME CardInv, CardShown!SendsSchedules PROVE CardInv'
  <1>1. [by |-> "loop", config |-> config] \in CardShown!Told
    BY DEF CardInv, CardShown!TypeOK, CardShown!Told
  <1>2. telling' \in Seq(CardShown!Told) /\ telling' # <<>> /\ telling'[Len(telling')].config = config
    BY <1>1 DEF CardInv, CardShown!TypeOK, CardShown!SendsSchedules
  <1>3. CardShown!TypeOK'
    BY <1>2 DEF CardInv, CardShown!TypeOK, CardShown!SendsSchedules, CardShown!world
  <1>4. InboxInv' /\ HeardInv' /\ ToldInv'
    BY ProcsSame DEF CardInv, CardShown!SendsSchedules
  <1>5. AwakeInv'
    BY ScreenSame DEF CardInv, CardShown!SendsSchedules, CardShown!world
  <1>6. WordInv'
    BY <1>2 DEF CardInv, WordInv, CardShown!SendsSchedules, CardShown!world
  <1> QED
    BY <1>3, <1>4, <1>5, <1>6 DEF CardInv

(* The event loop's turn: every running instance hears of the screen. *)
LEMMA CardPosts == ASSUME CardInv, CardShown!Posts PROVE CardInv'
  <1> DEFINE lines == [i \in Watched |-> [t |-> "awake", on |-> TRUE \in posted]]
  <1>1. proc \in [Watched -> CardShown!Procs] /\ on \in BOOLEAN
    BY DEF CardInv, CardShown!TypeOK
  <1>2. (TRUE \in posted) = on
    <2>1. posted = {on}
      BY DEF CardInv, AwakeInv, CardShown!Posts
    <2>2. CASE on = TRUE
      BY <2>1, <2>2
    <2>3. CASE on = FALSE
      <3>1. posted = {FALSE} /\ TRUE \notin {FALSE}
        BY <2>1, <2>3
      <3>2. (TRUE \in posted) = FALSE
        BY <3>1
      <3> QED
        BY <2>3, <3>2, Zenon
    <2> QED
      BY <1>1, <2>2, <2>3
  <1>3. lines \in [Watched -> CardShown!Lines] /\ \A i \in Watched : lines[i] = [t |-> "awake", on |-> on]
    BY <1>1, <1>2, CardConstants
  <1>4. /\ proc' = CardShown!Sent({i \in Watched : proc[i].up}, lines) /\ posted' = {}
        /\ UNCHANGED <<config, scheduled, on, scheduled_out, telling, hidden, asked, sync, overlapped, late, moves, deaths>>
    BY DEF CardShown!Posts, CardShown!Running, CardShown!world
  <1> HIDE DEF lines
  <1>5. /\ proc' \in [Watched -> CardShown!Procs]
        /\ \A i \in Watched :
             /\ proc'[i].up = proc[i].up /\ proc'[i].awake = proc[i].awake /\ proc'[i].hidden = proc[i].hidden
             /\ proc'[i].shown = proc[i].shown
             /\ proc'[i].inbox = IF i \in {j \in Watched : proc[j].up} /\ proc[i].up
                                   THEN Append(proc[i].inbox, lines[i]) ELSE proc[i].inbox
    BY <1>1, <1>3, <1>4, LinesSent
  <1>6. ASSUME NEW i \in Watched
        PROVE  /\ proc[i].inbox \in Seq(CardShown!Lines) /\ proc[i].awake \in BOOLEAN /\ proc[i].hidden \in BOOLEAN
               /\ lines[i] \in CardShown!Lines /\ lines[i].t = "awake" /\ Says(lines[i], "hidden") = on
    BY <1>1, <1>3 DEF CardShown!Procs, Says
  <1>7. CardShown!TypeOK'
    BY <1>4, <1>5 DEF CardInv, CardShown!TypeOK
  <1>8. InboxInv'
    <2> SUFFICES ASSUME NEW i \in Watched, proc'[i].up, NEW n \in DOMAIN proc'[i].inbox, n > 1
                 PROVE  proc'[i].inbox[n].t # "start"
      BY DEF InboxInv
    <2>1. proc'[i].inbox = Append(proc[i].inbox, lines[i])
      BY <1>5
    <2> QED
      BY <1>5, <1>6, <2>1 DEF CardInv, InboxInv
  <1>9. HeardInv'
    <2> SUFFICES ASSUME ~late, NEW i \in Watched, proc'[i].up,
                        proc'[i].inbox = <<>> \/ proc'[i].inbox[1].t # "start"
                 PROVE  proc'[i].shown = {proc'[i].awake /\ ~proc'[i].hidden}
      BY <1>4 DEF HeardInv
    <2>1. proc'[i].inbox = Append(proc[i].inbox, lines[i])
      BY <1>5
    <2>2. proc[i].inbox = <<>> \/ proc[i].inbox[1].t # "start"
      BY <1>6, <2>1
    <2> QED
      BY <1>5, <2>2 DEF CardInv, HeardInv
  <1>10. ToldInv'
    <2> SUFFICES ASSUME ~late, NEW i \in Watched, proc'[i].up
                 PROVE  LastSays(proc'[i].inbox, "awake", proc'[i].hidden) = (i \in hidden)
      BY <1>4 DEF ToldInv
    <2>1. LastSays(Append(proc[i].inbox, lines[i]), "awake", proc[i].hidden)
            = LastSays(proc[i].inbox, "awake", proc[i].hidden)
      BY <1>6, LastAdded
    <2>2. LastSays(proc[i].inbox, "awake", proc[i].hidden) = (i \in hidden)
      BY <1>5 DEF CardInv, ToldInv
    <2> QED
      BY <1>5, <2>1, <2>2
  <1>11. AwakeInv'
    <2>1. ASSUME NEW i \in Watched, proc'[i].up
          PROVE  LastSays(proc'[i].inbox, "hidden", proc'[i].awake) = on
      <3>1. LastSays(Append(proc[i].inbox, lines[i]), "hidden", proc[i].awake) = on
        BY <1>6, LastAdded
      <3> QED
        BY <1>5, <2>1, <3>1
    <2> QED
      BY <1>4, <2>1 DEF CardInv, AwakeInv
  <1>12. WordInv'
    BY <1>4 DEF CardInv, WordInv, CardShown!HiddenBy
  <1> QED
    BY <1>7, <1>8, <1>9, <1>10, <1>11, <1>12 DEF CardInv

(* The page has the message: now the instances are told, or a sync is asked for. *)
LEMMA CardPageHas == ASSUME CardInv, CardShown!PageHas PROVE CardInv'
  <1>1. /\ telling \in Seq(CardShown!Told) /\ telling # <<>> /\ telling' = Tail(telling)
        /\ UNCHANGED <<config, scheduled, on, scheduled_out, posted, sync, overlapped, late, moves, deaths>>
    BY DEF CardInv, CardShown!TypeOK, CardShown!PageHas, CardShown!world
  <1>2. /\ telling' \in Seq(CardShown!Told) /\ Head(telling) \in CardShown!Told
        /\ telling' # <<>> => telling'[Len(telling')] = telling[Len(telling)]
        /\ telling' = <<>> => Head(telling) = telling[Len(telling)]
    <2>1. telling' \in Seq(CardShown!Told) /\ Head(telling) \in CardShown!Told
      BY <1>1
    <2>2. Len(telling') = Len(telling) - 1 /\ \A n \in 1..Len(telling) - 1 : telling'[n] = telling[n + 1]
      BY <1>1
    <2>3. Len(telling) \in Nat \ {0} /\ Head(telling) = telling[1]
      BY <1>1
    <2>4. telling' # <<>> => Len(telling') \in 1..Len(telling) - 1
      BY <2>1, <2>2, <2>3
    <2>5. telling' = <<>> => Len(telling) = 1
      BY <2>1, <2>2, <2>3
    <2> QED
      BY <2>1, <2>2, <2>3, <2>4, <2>5
  <1>3. CASE Head(telling).by # "save" /\ CardShown!SetHidden(CardShown!HiddenBy(Head(telling).config)) /\ asked' = asked
    <2>1. CardShown!HiddenBy(Head(telling).config) \in SUBSET Watched
      BY DEF CardInv, CardShown!TypeOK, CardShown!HiddenBy
    <2> DEFINE now == CardShown!HiddenBy(Head(telling).config)
    <2> HIDE DEF now
    <2>2. now \in SUBSET Watched /\ CardShown!SetHidden(now)
      BY <1>3, <2>1 DEF now
    <2>3. /\ proc' \in [Watched -> CardShown!Procs] /\ hidden' = now /\ InboxInv' /\ HeardInv' /\ ToldInv'
          /\ \A i \in Watched : /\ proc'[i].up = proc[i].up
                                /\ LastSays(proc'[i].inbox, "hidden", proc'[i].awake)
                                     = LastSays(proc[i].inbox, "hidden", proc[i].awake)
      BY <1>1, <2>2, HiddenTold DEF CardInv
    <2>4. CardShown!TypeOK'
      BY <1>1, <1>2, <1>3, <2>2, <2>3 DEF CardInv, CardShown!TypeOK
    <2>5. AwakeInv'
      BY <1>1, <2>3, ScreenSame DEF CardInv
    <2>6. telling' = <<>> => hidden' = CardShown!HiddenBy(config)
      BY <1>1, <1>2, <2>3 DEF CardInv, WordInv, now
    <2>7. telling' # <<>> => telling'[Len(telling')].config = config
      BY <1>1, <1>2 DEF CardInv, WordInv
    <2>8. WordInv'
      BY <1>1, <2>6, <2>7 DEF CardInv, WordInv, CardShown!HiddenBy
    <2> QED
      BY <2>3, <2>4, <2>5, <2>8 DEF CardInv
  <1>4. CASE asked' = asked + 1 /\ hidden' = hidden /\ proc' = proc
    <2>1. asked \in Nat /\ asked' # 0
      BY <1>4 DEF CardInv, CardShown!TypeOK
    <2>2. CardShown!TypeOK'
      BY <1>1, <1>2, <1>4, <2>1 DEF CardInv, CardShown!TypeOK
    <2>3. InboxInv' /\ HeardInv' /\ ToldInv'
      BY <1>1, <1>4, ProcsSame DEF CardInv
    <2>4. AwakeInv'
      BY <1>1, <1>4, ScreenSame DEF CardInv
    <2>5. WordInv'
      BY <1>1, <1>2, <2>1 DEF CardInv, WordInv
    <2> QED
      BY <2>2, <2>3, <2>4, <2>5 DEF CardInv
  <1> QED
    BY <1>3, <1>4 DEF CardShown!PageHas

(* A sync reads the settings, and tells by them when the host has answered. *)
LEMMA CardSyncBegins == ASSUME CardInv, CardShown!SyncBegins PROVE CardInv'
  <1>1. /\ sync' \in [pc : {"asks"}, config : CardShown!Configs, awake : BOOLEAN, todo : SUBSET Watched]
        /\ sync'.config = config /\ asked' \in Nat
        /\ UNCHANGED <<config, scheduled, on, scheduled_out, posted, telling, hidden, proc, overlapped, late, moves, deaths>>
    <2>1. sync' = [pc |-> "asks", config |-> config, awake |-> TRUE, todo |-> {}]
      BY DEF CardShown!SyncBegins, CardShown!SyncIdle
    <2>2. config \in CardShown!Configs /\ asked \in Nat /\ asked > 0
      BY DEF CardInv, CardShown!TypeOK, CardShown!SyncBegins
    <2>3. asked' = asked - 1 /\ UNCHANGED <<config, scheduled, on, scheduled_out, posted, telling, hidden, proc,
                                           overlapped, late, moves, deaths>>
      BY DEF CardShown!SyncBegins, CardShown!world
    <2> QED
      BY <2>1, <2>2, <2>3
  <1>2. CardShown!TypeOK'
    BY <1>1 DEF CardInv, CardShown!TypeOK
  <1>3. InboxInv' /\ HeardInv' /\ ToldInv'
    BY <1>1, ProcsSame DEF CardInv
  <1>4. AwakeInv'
    BY <1>1, ScreenSame DEF CardInv
  <1>5. WordInv'
    BY <1>1 DEF CardInv, WordInv
  <1> QED
    BY <1>2, <1>3, <1>4, <1>5 DEF CardInv
LEMMA CardSyncTells == ASSUME CardInv, CardShown!SyncTells PROVE CardInv'
  <1>1. /\ sync.pc = "asks" /\ sync'.pc = "starts" /\ sync'.awake = on /\ sync'.config = sync.config
        /\ sync' \in [pc : {"starts"}, config : CardShown!Configs, awake : BOOLEAN, todo : SUBSET Watched]
        /\ UNCHANGED <<config, scheduled, on, scheduled_out, posted, telling, asked, overlapped, late, moves, deaths>>
    BY DEF CardInv, CardShown!TypeOK, CardShown!SyncTells, CardShown!world
  <1> DEFINE now == CardShown!HiddenBy(sync.config)
  <1>2. now \in SUBSET Watched /\ CardShown!SetHidden(now)
    BY DEF CardInv, CardShown!TypeOK, CardShown!HiddenBy, CardShown!SyncTells
  <1> HIDE DEF now
  <1>3. /\ proc' \in [Watched -> CardShown!Procs] /\ hidden' = now /\ InboxInv' /\ HeardInv' /\ ToldInv'
        /\ \A i \in Watched : /\ proc'[i].up = proc[i].up
                              /\ LastSays(proc'[i].inbox, "hidden", proc'[i].awake)
                                   = LastSays(proc[i].inbox, "hidden", proc[i].awake)
    BY <1>1, <1>2, HiddenTold DEF CardInv
  <1>4. CardShown!TypeOK'
    BY <1>1, <1>2, <1>3 DEF CardInv, CardShown!TypeOK
  <1>5. AwakeInv'
    BY <1>1, <1>3 DEF CardInv, AwakeInv
  <1>6. ~overlapped => hidden' = CardShown!HiddenBy(config)
    BY <1>1, <1>3 DEF CardInv, WordInv, now
  <1>7. WordInv'
    BY <1>1, <1>6 DEF CardInv, WordInv, CardShown!HiddenBy
  <1> QED
    BY <1>3, <1>4, <1>5, <1>7 DEF CardInv
LEMMA CardSyncEnds == ASSUME CardInv, CardShown!SyncEnds PROVE CardInv'
  <1>1. /\ sync.pc = "starts" /\ sync'.pc = "idle"
        /\ sync' \in [pc : {"idle"}, config : CardShown!Configs, awake : BOOLEAN, todo : SUBSET Watched]
        /\ UNCHANGED <<config, scheduled, on, scheduled_out, posted, telling, hidden, asked, proc, overlapped, late, moves, deaths>>
    BY DEF CardInv, CardShown!TypeOK, CardShown!SyncEnds, CardShown!SyncIdle, CardShown!Configs, CardShown!world
  <1>2. CardShown!TypeOK'
    BY <1>1 DEF CardInv, CardShown!TypeOK
  <1>3. InboxInv' /\ HeardInv' /\ ToldInv'
    BY <1>1, ProcsSame DEF CardInv
  <1>4. AwakeInv'
    BY <1>1, ScreenSame DEF CardInv
  <1>5. WordInv'
    BY <1>1 DEF CardInv, WordInv, CardShown!HiddenBy
  <1> QED
    BY <1>2, <1>3, <1>4, <1>5 DEF CardInv

(* Another process of one instance, all else as it was. *)
LEMMA OneProc ==
  ASSUME CardInv, NEW i \in Watched, NEW new \in CardShown!Procs, proc' = [proc EXCEPT ![i] = new],
         UNCHANGED <<hidden, late>>,
         new.up => /\ \A n \in DOMAIN new.inbox : n > 1 => new.inbox[n].t # "start"
                   /\ ~late => /\ LastSays(new.inbox, "awake", new.hidden) = (i \in hidden)
                               /\ new.inbox = <<>> \/ new.inbox[1].t # "start" => new.shown = {new.awake /\ ~new.hidden}
  PROVE  proc' \in [Watched -> CardShown!Procs] /\ InboxInv' /\ HeardInv' /\ ToldInv'
  <1>1. proc' \in [Watched -> CardShown!Procs] /\ proc'[i] = new /\ \A j \in Watched : j # i => proc'[j] = proc[j]
    BY DEF CardInv, CardShown!TypeOK
  <1>2. InboxInv'
    BY <1>1 DEF CardInv, InboxInv
  <1>3. HeardInv'
    BY <1>1 DEF CardInv, HeardInv
  <1>4. ToldInv'
    BY <1>1 DEF CardInv, ToldInv
  <1> QED
    BY <1>1, <1>2, <1>3, <1>4

(* A process is started with what the sync read of the screen and who is hidden now. *)
LEMMA CardStarts ==
  ASSUME CardInv, NEW i \in Watched, CardShown!Starts(i), sync.pc = "starts", sync'.pc = "starts",
         sync'.awake = sync.awake, UNCHANGED <<on, posted, hidden, overlapped, late>>
  PROVE  proc' \in [Watched -> CardShown!Procs] /\ InboxInv' /\ HeardInv' /\ ToldInv' /\ AwakeInv'
  <1> DEFINE line == [t |-> "start", awake |-> sync.awake, hidden |-> i \in hidden]
             new == [CardShown!Fresh EXCEPT !.inbox = <<line>>]
  <1>1. line \in CardShown!Lines
    <2>1. sync.awake \in BOOLEAN /\ (i \in hidden) \in BOOLEAN
      BY DEF CardInv, CardShown!TypeOK
    <2> QED
      BY <2>1, CardConstants
  <1>2. line.t = "start" /\ line.awake = sync.awake /\ line.hidden = (i \in hidden)
    OBVIOUS
  <1> HIDE DEF line
  <1>3. <<line>> \in Seq(CardShown!Lines) /\ DOMAIN <<line>> = {1} /\ <<line>>[1] = line /\ <<line>> # <<>>
        /\ Len(<<line>>) = 1
    BY <1>1
  <1>4. new \in CardShown!Procs /\ new.inbox = <<line>> /\ new.up
    BY <1>3, CardConstants DEF CardShown!Procs, CardShown!Fresh
  <1>5. proc' = [proc EXCEPT ![i] = new]
    BY DEF CardShown!Starts, line
  <1> HIDE DEF new
  <1>6. LastSays(<<line>>, "awake", new.hidden) = (i \in hidden)
    <2>1. LastSays(<<line>>, "awake", new.hidden) <=> line.hidden
      BY <1>2, <1>3 DEF LastSays, Says
    <2>2. LastSays(<<line>>, "awake", new.hidden) <=> i \in hidden
      BY <2>1, <1>2
    <2>3. LastSays(<<line>>, "awake", new.hidden) \in BOOLEAN /\ (i \in hidden) \in BOOLEAN
      BY DEF LastSays
    <2> QED
      BY <2>2, <2>3
  <1>7. LastSays(<<line>>, "hidden", new.awake) = sync.awake
    <2>1. LastSays(<<line>>, "hidden", new.awake) <=> line.awake
      BY <1>2, <1>3 DEF LastSays, Says
    <2>2. sync.awake \in BOOLEAN
      BY DEF CardInv, CardShown!TypeOK
    <2> QED
      BY <2>1, <2>2, <1>2 DEF LastSays
  <1>8. proc' \in [Watched -> CardShown!Procs] /\ InboxInv' /\ HeardInv' /\ ToldInv'
    <2>1. \A n \in DOMAIN new.inbox : n > 1 => new.inbox[n].t # "start"
      BY <1>3, <1>4
    <2>2. new.inbox # <<>> /\ new.inbox[1].t = "start"
      BY <1>2, <1>3, <1>4
    <2>3. LastSays(new.inbox, "awake", new.hidden) = (i \in hidden)
      BY <1>4, <1>6
    <2>4. UNCHANGED <<hidden, late>>
      OBVIOUS
    <2> QED
      BY <1>4, <1>5, <2>1, <2>2, <2>3, <2>4, OneProc
  <1>9. AwakeInv'
    <2>1. proc'[i] = new /\ \A j \in Watched : j # i => proc'[j] = proc[j]
      BY <1>5 DEF CardInv, CardShown!TypeOK
    <2> QED
      BY <1>4, <1>7, <2>1 DEF CardInv, AwakeInv
  <1> QED
    BY <1>8, <1>9

(* The sync's loop comes to an instance. *)
LEMMA CardSyncVisits == ASSUME CardInv, NEW i \in Watched, CardShown!SyncVisits(i) PROVE CardInv'
  <1>1. /\ sync.pc = "starts" /\ sync'.pc = "starts" /\ sync'.awake = sync.awake /\ sync'.config = sync.config
        /\ sync' \in [pc : {"starts"}, config : CardShown!Configs, awake : BOOLEAN, todo : SUBSET Watched]
        /\ UNCHANGED <<config, scheduled, on, scheduled_out, posted, telling, hidden, asked, overlapped, late, moves, deaths>>
    BY DEF CardInv, CardShown!TypeOK, CardShown!SyncVisits, CardShown!world
  <1>2. proc' \in [Watched -> CardShown!Procs] /\ InboxInv' /\ HeardInv' /\ ToldInv' /\ AwakeInv'
    <2>1. CASE proc' = proc
      BY <1>1, <2>1, ProcsSame, ScreenSame DEF CardInv, CardShown!TypeOK
    <2>2. CASE CardShown!Starts(i)
      BY <1>1, <2>2, CardStarts
    <2> QED
      BY <2>1, <2>2 DEF CardShown!SyncVisits
  <1>3. CardShown!TypeOK'
    BY <1>1, <1>2 DEF CardInv, CardShown!TypeOK
  <1>4. WordInv'
    BY <1>1 DEF CardInv, WordInv, CardShown!HiddenBy
  <1> QED
    BY <1>2, <1>3, <1>4 DEF CardInv

(* A process ends by itself. *)
LEMMA CardDies == ASSUME CardInv, NEW i \in Watched, CardShown!Dies(i) PROVE CardInv'
  <1>1. /\ proc' = [proc EXCEPT ![i] = CardShown!NoProc] /\ asked' = asked + 1 /\ asked \in Nat
        /\ deaths' \in 0..MaxDeaths
        /\ UNCHANGED <<config, scheduled, on, scheduled_out, posted, telling, hidden, sync, overlapped, late, moves>>
    BY CardConstants DEF CardInv, CardShown!TypeOK, CardShown!Dies, CardShown!world
  <1>2. CardShown!NoProc \in CardShown!Procs /\ ~CardShown!NoProc.up
    BY CardConstants DEF CardShown!NoProc, CardShown!Fresh
  <1>3. proc' \in [Watched -> CardShown!Procs] /\ InboxInv' /\ HeardInv' /\ ToldInv'
    BY <1>1, <1>2, OneProc
  <1>4. CardShown!TypeOK'
    BY <1>1, <1>3 DEF CardInv, CardShown!TypeOK
  <1>5. AwakeInv'
    <2>1. proc'[i] = CardShown!NoProc /\ \A j \in Watched : j # i => proc'[j] = proc[j]
      BY <1>1 DEF CardInv, CardShown!TypeOK
    <2> QED
      BY <1>1, <1>2, <2>1, ScreenSame DEF CardInv
  <1>6. WordInv'
    BY <1>1 DEF CardInv, WordInv
  <1> QED
    BY <1>3, <1>4, <1>5, <1>6 DEF CardInv

(* What a line says of itself stands at once. *)
LEMMA LineStands ==
  ASSUME NEW line \in CardShown!Lines, line.t # "start", NEW kind \in {"awake", "hidden"}, NEW was \in BOOLEAN
  PROVE  CardShown!Stands(kind, <<line>>, was) = IF line.t = kind THEN line.on ELSE was
  <1>1. DOMAIN <<line>> = {1} /\ <<line>>[1] = line /\ Len(<<line>>) = 1
    OBVIOUS
  <1>2. line.on \in BOOLEAN /\ CardShown!Stands(kind, <<line>>, was) \in BOOLEAN
    BY DEF CardShown!Lines, CardShown!Stands
  <1>3. line.t = kind => (CardShown!Stands(kind, <<line>>, was) <=> line.on)
    BY <1>1 DEF CardShown!Stands
  <1>4. line.t # kind => (CardShown!Stands(kind, <<line>>, was) <=> was)
    BY <1>1 DEF CardShown!Stands
  <1> QED
    BY <1>2, <1>3, <1>4

(* A process reads a line of its screen or its card. *)
LEMMA CardHears == ASSUME CardInv, NEW i \in Watched, proc[i].inbox # <<>>, CardShown!Hears(i) PROVE CardInv'
  <1> DEFINE p == proc[i]
             line == Head(p.inbox)
             wakes == CardShown!Stands("awake", <<line>>, p.awake)
             hides == CardShown!Stands("hidden", <<line>>, p.hidden)
             new == [p EXCEPT !.inbox = Tail(p.inbox), !.awake = wakes, !.hidden = hides, !.shown = {wakes /\ ~hides}]
  <1>1. /\ p \in CardShown!Procs /\ p.inbox \in Seq(CardShown!Lines) /\ p.awake \in BOOLEAN /\ p.hidden \in BOOLEAN
        /\ p.inbox # <<>>
    BY DEF CardInv, CardShown!TypeOK, CardShown!Procs
  <1>2. /\ line \in CardShown!Lines /\ Tail(p.inbox) \in Seq(CardShown!Lines) /\ line = p.inbox[1]
        /\ \A n \in DOMAIN Tail(p.inbox) : Tail(p.inbox)[n] = p.inbox[n + 1] /\ n + 1 \in DOMAIN p.inbox /\ n \in Nat /\ n > 0
    BY <1>1
  <1>3. line.t \in {"awake", "hidden"}
    BY <1>2 DEF CardShown!Hears, CardShown!Lines
  <1>4. /\ wakes = IF line.t = "awake" THEN line.on ELSE p.awake
        /\ hides = IF line.t = "hidden" THEN line.on ELSE p.hidden
    BY <1>1, <1>2, <1>3, LineStands
  <1>5. wakes \in BOOLEAN /\ hides \in BOOLEAN
    BY DEF CardShown!Stands
  <1>6. /\ proc' = [proc EXCEPT ![i] = new]
        /\ UNCHANGED <<config, scheduled, on, scheduled_out, posted, telling, hidden, asked, sync, overlapped, late, moves, deaths>>
    <2>1. CardShown!Heard(p, <<line>>) = [p EXCEPT !.awake = wakes, !.hidden = hides, !.shown = {wakes /\ ~hides}]
      BY DEF CardShown!Heard
    <2>2. [CardShown!Heard(p, <<line>>) EXCEPT !.inbox = Tail(p.inbox)] = new
      BY <1>1, <2>1 DEF CardShown!Procs
    <2>3. proc' = [proc EXCEPT ![i] = [CardShown!Heard(p, <<line>>) EXCEPT !.inbox = Tail(p.inbox)]]
      BY DEF CardShown!Hears
    <2>4. UNCHANGED <<config, scheduled, on, scheduled_out, posted, telling, hidden, asked, sync, overlapped, late,
                      moves, deaths>>
      BY DEF CardShown!Hears, CardShown!world
    <2> QED
      BY <2>2, <2>3, <2>4
  <1>7. LastSays(Tail(p.inbox), "awake", hides) = LastSays(p.inbox, "awake", p.hidden)
    <2>1. (IF line.t = "awake" THEN p.hidden ELSE Says(line, "awake")) = hides
      BY <1>3, <1>4 DEF Says
    <2>2. LastSays(Tail(p.inbox), "awake", IF line.t = "awake" THEN p.hidden ELSE Says(line, "awake"))
            = LastSays(p.inbox, "awake", p.hidden)
      BY <1>1, FirstRead
    <2> QED
      BY <2>1, <2>2
  <1>8. LastSays(Tail(p.inbox), "hidden", wakes) = LastSays(p.inbox, "hidden", p.awake)
    <2>1. (IF line.t = "hidden" THEN p.awake ELSE Says(line, "hidden")) = wakes
      BY <1>3, <1>4 DEF Says
    <2>2. LastSays(Tail(p.inbox), "hidden", IF line.t = "hidden" THEN p.awake ELSE Says(line, "hidden"))
            = LastSays(p.inbox, "hidden", p.awake)
      BY <1>1, FirstRead
    <2> QED
      BY <2>1, <2>2
  <1> HIDE DEF wakes, hides, line
  <1>9. /\ new \in CardShown!Procs /\ new.up = p.up /\ new.inbox = Tail(p.inbox) /\ new.awake = wakes
        /\ new.hidden = hides /\ new.shown = {wakes /\ ~hides}
    BY <1>1, <1>2, <1>5 DEF CardShown!Procs
  <1> HIDE DEF new
  <1>10. proc' \in [Watched -> CardShown!Procs] /\ InboxInv' /\ HeardInv' /\ ToldInv'
    <2>1. new.up => \A n \in DOMAIN new.inbox : n > 1 => new.inbox[n].t # "start"
      <3>1. p.up => \A n \in DOMAIN p.inbox : n > 1 => p.inbox[n].t # "start"
        BY DEF CardInv, InboxInv
      <3>2. \A n \in DOMAIN Tail(p.inbox) : n + 1 > 1
        BY <1>2
      <3> HIDE DEF p
      <3> QED
        BY <1>2, <1>9, <3>1, <3>2
    <2>2. new.shown = {new.awake /\ ~new.hidden}
      BY <1>9
    <2>3. new.up /\ ~late => LastSays(new.inbox, "awake", new.hidden) = (i \in hidden)
      <3>1. LastSays(new.inbox, "awake", new.hidden) = LastSays(p.inbox, "awake", p.hidden)
        BY <1>7, <1>9
      <3> QED
        BY <3>1, <1>9 DEF CardInv, ToldInv
    <2> QED
      BY <1>6, <1>9, <2>1, <2>2, <2>3, OneProc
  <1>11. CardShown!TypeOK'
    BY <1>6, <1>10 DEF CardInv, CardShown!TypeOK
  <1>12. AwakeInv'
    <2>1. proc'[i] = new /\ \A j \in Watched : j # i => proc'[j] = proc[j]
      BY <1>6 DEF CardInv, CardShown!TypeOK
    <2>2. LastSays(new.inbox, "hidden", new.awake) = LastSays(p.inbox, "hidden", p.awake)
      BY <1>8, <1>9
    <2> QED
      BY <1>6, <1>9, <2>1, <2>2, ScreenSame DEF CardInv
  <1>13. WordInv'
    BY <1>6 DEF CardInv, WordInv, CardShown!HiddenBy
  <1> QED
    BY <1>10, <1>11, <1>12, <1>13 DEF CardInv

(* A process reads its start, and with it the lines that were in the buffer behind it. *)
LEMMA CardBoots ==
  ASSUME CardInv, NEW i \in Watched, proc[i].inbox # <<>>, NEW n \in 0..(Len(proc[i].inbox) - 1),
         CardShown!Boots(i, n)
  PROVE  CardInv'
  <1> DEFINE p == proc[i]
             line == Head(p.inbox)
             behind == CardShown!Heard(p, SubSeq(p.inbox, 2, n + 1))
             rest == SubSeq(p.inbox, n + 2, Len(p.inbox))
             shown == IF n = 0 THEN {line.awake /\ ~line.hidden} ELSE behind.shown
             new == [behind EXCEPT !.inbox = rest, !.awake = line.awake, !.hidden = line.hidden, !.shown = shown]
  <1>1. /\ p \in CardShown!Procs /\ p.inbox \in Seq(CardShown!Lines) /\ p.awake \in BOOLEAN /\ p.hidden \in BOOLEAN
        /\ p.inbox # <<>> /\ Len(p.inbox) \in Nat \ {0} /\ DOMAIN p.inbox = 1..Len(p.inbox)
    BY DEF CardInv, CardShown!TypeOK, CardShown!Procs
  <1>2. /\ line \in CardShown!Lines /\ line = p.inbox[1] /\ line.t = "start"
        /\ line.awake \in BOOLEAN /\ line.hidden \in BOOLEAN
    <2>1. line \in CardShown!Lines /\ line = p.inbox[1] /\ line.t = "start"
      BY <1>1 DEF CardShown!Boots
    <2> QED
      BY <2>1 DEF CardShown!Lines
  <1>3. /\ rest \in Seq(CardShown!Lines) /\ DOMAIN rest = 1..Len(p.inbox) - n - 1 /\ Len(rest) = Len(p.inbox) - n - 1
        /\ \A m \in DOMAIN rest : rest[m] = p.inbox[m + n + 1] /\ m + n + 1 \in DOMAIN p.inbox /\ m + n + 1 > 1
    BY <1>1
  <1>4. n = 0 => rest = Tail(p.inbox)
    BY <1>1
  <1>5. behind = [p EXCEPT !.awake = behind.awake, !.hidden = behind.hidden, !.shown = behind.shown]
        /\ behind.shown \in SUBSET BOOLEAN
    <2> DEFINE wakes == CardShown!Stands("awake", SubSeq(p.inbox, 2, n + 1), p.awake)
               hides == CardShown!Stands("hidden", SubSeq(p.inbox, 2, n + 1), p.hidden)
    <2>1. behind = [p EXCEPT !.awake = wakes, !.hidden = hides, !.shown = {wakes /\ ~hides}]
      BY DEF CardShown!Heard
    <2>2. wakes \in BOOLEAN /\ hides \in BOOLEAN
      BY DEF CardShown!Stands
    <2> HIDE DEF wakes, hides, behind
    <2> QED
      BY <1>1, <2>1, <2>2 DEF CardShown!Procs
  <1>6. /\ proc' = [proc EXCEPT ![i] = new] /\ late' = (late \/ n > 0)
        /\ UNCHANGED <<config, scheduled, on, scheduled_out, posted, telling, hidden, asked, sync, overlapped, moves, deaths>>
    BY DEF CardShown!Boots, CardShown!world
  <1> HIDE DEF behind, rest, line
  <1>7. shown \in SUBSET BOOLEAN
    BY <1>2, <1>5
  <1>8. /\ new \in CardShown!Procs /\ new.up = p.up /\ new.inbox = rest /\ new.awake = line.awake
        /\ new.hidden = line.hidden /\ new.shown = shown
    <2> HIDE DEF shown
    <2> QED
      BY <1>1, <1>2, <1>3, <1>5, <1>7 DEF CardShown!Procs
  <1>9. proc' \in [Watched -> CardShown!Procs] /\ proc'[i] = new /\ \A j \in Watched : j # i => proc'[j] = proc[j]
    <2> HIDE DEF new
    <2> QED
      BY <1>6, <1>8 DEF CardInv, CardShown!TypeOK
  <1>10. new.up => \A m \in DOMAIN new.inbox : m > 1 => new.inbox[m].t # "start"
    <2>1. p.up => \A m \in DOMAIN p.inbox : m > 1 => p.inbox[m].t # "start"
      BY DEF CardInv, InboxInv
    <2> HIDE DEF p, new
    <2> QED
      BY <1>3, <1>8, <2>1
  <1>11. CardShown!TypeOK'
    <2>1. late' \in BOOLEAN
      BY <1>6 DEF CardInv, CardShown!TypeOK
    <2> QED
      BY <1>6, <1>9, <2>1 DEF CardInv, CardShown!TypeOK
  <1>12. WordInv'
    BY <1>6 DEF CardInv, WordInv, CardShown!HiddenBy
  <1>13. CASE n > 0
    <2> HIDE DEF new
    <2>1. InboxInv'
      BY <1>9, <1>10 DEF CardInv, InboxInv
    <2>2. HeardInv' /\ ToldInv'
      BY <1>6, <1>13 DEF HeardInv, ToldInv
    <2>3. AwakeInv'
      BY <1>6, <1>13 DEF CardInv, AwakeInv
    <2> QED
      BY <1>11, <1>12, <2>1, <2>2, <2>3 DEF CardInv
  <1>14. CASE n = 0
    <2>1. LastSays(Tail(p.inbox), "awake", line.hidden) = LastSays(p.inbox, "awake", p.hidden)
      <3>1. LastSays(Tail(p.inbox), "awake", IF line.t = "awake" THEN p.hidden ELSE Says(line, "awake"))
              = LastSays(p.inbox, "awake", p.hidden)
        BY <1>1, FirstRead DEF line
      <3>2. (IF line.t = "awake" THEN p.hidden ELSE Says(line, "awake")) = line.hidden
        BY <1>2 DEF Says
      <3> QED
        BY <3>1, <3>2
    <2>2. LastSays(Tail(p.inbox), "hidden", line.awake) = LastSays(p.inbox, "hidden", p.awake)
      <3>1. LastSays(Tail(p.inbox), "hidden", IF line.t = "hidden" THEN p.awake ELSE Says(line, "hidden"))
              = LastSays(p.inbox, "hidden", p.awake)
        BY <1>1, FirstRead DEF line
      <3>2. (IF line.t = "hidden" THEN p.awake ELSE Says(line, "hidden")) = line.awake
        BY <1>2 DEF Says
      <3> QED
        BY <3>1, <3>2
    <2>3. UNCHANGED <<hidden, late>>
      <3>1. late \in BOOLEAN
        BY DEF CardInv, CardShown!TypeOK
      <3> QED
        BY <1>6, <1>14, <3>1
    <2>4. new.shown = {new.awake /\ ~new.hidden}
      BY <1>8, <1>14
    <2> HIDE DEF new
    <2>5. new.up /\ ~late => LastSays(new.inbox, "awake", new.hidden) = (i \in hidden)
      <3>1. LastSays(new.inbox, "awake", new.hidden) = LastSays(p.inbox, "awake", p.hidden)
        BY <1>4, <1>8, <1>14, <2>1
      <3> QED
        BY <3>1, <1>8 DEF CardInv, ToldInv
    <2>6. InboxInv' /\ HeardInv' /\ ToldInv'
      BY <1>6, <1>8, <1>10, <2>3, <2>4, <2>5, OneProc
    <2>7. AwakeInv'
      <3>1. LastSays(new.inbox, "hidden", new.awake) = LastSays(p.inbox, "hidden", p.awake)
        BY <1>4, <1>8, <1>14, <2>2
      <3> QED
        BY <1>6, <1>8, <1>9, <2>3, <3>1, ScreenSame DEF CardInv
    <2> QED
      BY <1>11, <1>12, <2>6, <2>7 DEF CardInv
  <1> QED
    BY <1>13, <1>14

(* Nothing is told to anyone yet, and no process runs. *)
LEMMA CardInit == ASSUME CardShown!Init PROVE CardInv
  <1>1. \A i \in Watched : proc[i] = CardShown!NoProc /\ ~proc[i].up
    BY DEF CardShown!Init, CardShown!NoProc, CardShown!Fresh
  <1>2. CardShown!TypeOK
    <2>1. config \in CardShown!Configs /\ proc \in [Watched -> CardShown!Procs]
      BY CardConstants DEF CardShown!Init
    <2>2. sync \in [pc : {"idle", "asks", "starts"}, config : CardShown!Configs, awake : BOOLEAN, todo : SUBSET Watched]
      BY DEF CardShown!Init, CardShown!SyncIdle, CardShown!Configs
    <2>3. moves \in 0..MaxMoves /\ deaths \in 0..MaxDeaths
      BY CardConstants DEF CardShown!Init
    <2>4. /\ scheduled \subseteq Watched /\ scheduled_out \subseteq Watched /\ on \in BOOLEAN /\ posted \subseteq BOOLEAN
          /\ hidden \subseteq Watched /\ asked \in Nat /\ overlapped \in BOOLEAN /\ late \in BOOLEAN
      BY DEF CardShown!Init
    <2>5. telling \in Seq(CardShown!Told)
      BY DEF CardShown!Init
    <2> QED
      BY <2>1, <2>2, <2>3, <2>4, <2>5 DEF CardShown!TypeOK
  <1>3. InboxInv /\ HeardInv /\ ToldInv
    BY <1>1 DEF InboxInv, HeardInv, ToldInv
  <1>4. AwakeInv
    BY <1>1 DEF AwakeInv, CardShown!Init, CardShown!SyncIdle
  <1>5. WordInv
    BY DEF WordInv, CardShown!Init, CardShown!SyncIdle
  <1> QED
    BY <1>2, <1>3, <1>4, <1>5 DEF CardInv

(* Every step of the cards' state keeps it. *)
LEMMA CardStep == ASSUME CardInv, [CardShown!Next]_CardShownVars PROVE CardInv'
  <1>1. ASSUME UNCHANGED CardShownVars PROVE CardInv'
    <2>1. CardShown!TypeOK'
      BY <1>1 DEF CardInv, CardShown!TypeOK, CardShownVars
    <2>2. InboxInv' /\ HeardInv' /\ ToldInv'
      BY <1>1, ProcsSame DEF CardInv, CardShownVars
    <2>3. AwakeInv'
      BY <1>1, ScreenSame DEF CardInv, CardShownVars
    <2>4. WordInv'
      BY <1>1 DEF CardInv, WordInv, CardShown!HiddenBy, CardShownVars
    <2> QED
      BY <2>1, <2>2, <2>3, <2>4 DEF CardInv
  <1>2. ASSUME NEW i \in Watched, CardShown!Reads(i) PROVE CardInv'
    BY <1>2, CardHears, CardBoots DEF CardShown!Reads
  <1> QED
    BY <1>1, <1>2, CardSwitches, CardPosts, CardSetPrivacy, CardSendsSchedules, CardPageHas, CardSyncBegins, CardSyncTells,
       CardSyncEnds, CardMarks, CardTurns, CardSyncVisits, CardDies DEF CardShown!Next

(* What the modules and the core know, of the invariant. *)
LEMMA CardKnows == ASSUME CardInv PROVE CardShown!TypeOK /\ CardShown!ModuleKnows /\ CardShown!CoreKnowsTold
  <1>1. CardShown!CoreKnowsTold
    <2> SUFFICES ASSUME ~late, NEW i \in CardShown!Running PROVE CardShown!LastHidden(i) = (i \in hidden)
      BY DEF CardShown!CoreKnowsTold
    <2>1. i \in Watched /\ proc[i].up /\ proc[i].inbox \in Seq(CardShown!Lines)
      BY DEF CardInv, CardShown!TypeOK, CardShown!Procs, CardShown!Running
    <2>2. LastSays(proc[i].inbox, "awake", proc[i].hidden) = (i \in hidden)
      BY <2>1 DEF CardInv, ToldInv
    <2>3. CardShown!LastHidden(i) = LastSays(proc[i].inbox, "awake", proc[i].hidden)
      BY DEF CardShown!LastHidden, CardShown!SaysHidden, LastSays, Says
    <2> QED
      BY <2>2, <2>3
  <1>2. CardShown!ModuleKnows
    <2> SUFFICES ASSUME CardShown!Quiet, ~overlapped, ~late, NEW i \in CardShown!Running
                 PROVE  proc[i].shown = {CardShown!Shown(i)} /\ proc[i].awake = on
      BY DEF CardShown!ModuleKnows
    <2>1. /\ i \in Watched /\ proc[i].up /\ proc[i].inbox = <<>> /\ proc[i].awake \in BOOLEAN /\ proc[i].hidden \in BOOLEAN
      BY DEF CardInv, CardShown!TypeOK, CardShown!Procs, CardShown!Running, CardShown!Quiet
    <2>2. ASSUME NEW skip, NEW was \in BOOLEAN PROVE LastSays(<<>>, skip, was) = was
      <3>1. DOMAIN <<>> = {}
        OBVIOUS
      <3>2. LastSays(<<>>, skip, was) <=> was
        BY <3>1 DEF LastSays
      <3>3. LastSays(<<>>, skip, was) \in BOOLEAN
        BY DEF LastSays
      <3> QED
        BY <3>2, <3>3
    <2>3. proc[i].shown = {proc[i].awake /\ ~proc[i].hidden}
      BY <2>1 DEF CardInv, HeardInv
    <2>4. proc[i].hidden = (i \in hidden)
      BY <2>1, <2>2 DEF CardInv, ToldInv
    <2>5. proc[i].awake = on
      BY <2>1, <2>2 DEF CardInv, AwakeInv, CardShown!Quiet
    <2>6. hidden = CardShown!HiddenBy(config)
      BY DEF CardInv, WordInv, CardShown!Quiet
    <2>7. (proc[i].awake /\ ~proc[i].hidden) = CardShown!Shown(i)
      BY <2>4, <2>5, <2>6 DEF CardShown!Shown
    <2> QED
      BY <2>3, <2>5, <2>7
  <1> QED
    BY <1>1, <1>2 DEF CardInv

(* Once nothing is on its way every module's last on_shown says whether its card is on the screen, and its fetches
   wait exactly while the screen is off, unless something changed while a sync ran or a start was read late; and
   what an instance was told last is what the core believes, also then: for any instances and any number of changes
   and deaths (set_hidden, set_awake, _start, loader.shown). *)
THEOREM ModuleAlwaysKnows == Spec => []ModuleKnows
  <1> DEFINE Inv == part = "card" => CardInv
  <1>1. Init => Inv
    BY CardInit DEF Init
  <1>2. Inv /\ [Next]_vars => Inv'
    BY CardStep, StepOfPart
  <1>3. Inv => ModuleKnows
    BY CardKnows DEF ModuleKnows
  <1> QED
    BY <1>1, <1>2, <1>3, PTL DEF Spec

-----------------------------------------------------------------------------
(* Cards and videos.                                                        *)

ScreenMsg  == [by : Conns \cup KioskScreen!Tasks, to : SUBSET KioskScreen!Sockets]
ScreenTask == [st : {"new", "runs", "over"}, rest : SUBSET Played]
ScreenPage == [st : {"new", "hello", "cards", "up", "leaves", "gone"}, stalled : BOOLEAN, video : BOOLEAN,
               shown : [Played -> KioskScreen!Cards], todo : [Played -> KioskScreen!Cards], lost : SUBSET Played]
ScreenConn == [st : {"new", "up", "ended", "serve", "done", "stuck"}, plays : BOOLEAN,
               pc : {"idle", "start", "stop", "pend"}, rest : SUBSET Played]

OneAwait == \A n, m \in DOMAIN sending : sending[n].by = sending[m].by => n = m

ScreenTypes ==
  /\ kioskscreen_players \subseteq Played /\ pending \subseteq Played /\ resend \subseteq Played
  /\ latest \in [Played -> KioskScreen!Cards] /\ card \in [Played -> KioskScreen!Cards]
  /\ minute \in KioskScreen!Tasks \cup {KioskScreen!None}
  /\ task \in [KioskScreen!Tasks -> ScreenTask] /\ socket \in [KioskScreen!Sockets -> ScreenPage]
  /\ conn \in [Conns -> ScreenConn] /\ sending \in Seq(ScreenMsg)
  /\ run \in [screen : Screens, reloads : 0..KioskScreen!Limit.reloads,
              videos : 0..KioskScreen!Limit.videos]

\* Calls that started or stopped a video and aren't through, and which of two is ahead of the other.
Calls == {c \in Conns : conn[c].pc \in {"start", "stop"}}
Queued(c, d) == \E n, m \in DOMAIN sending : n < m /\ sending[n].by = c /\ sending[m].by = d
Ahead(c, d) == (~KioskScreen!Waiting(c) /\ KioskScreen!Waiting(d)) \/ Queued(c, d)

\* Who waits is in a call; one goes on at most.
GoesOn(c) == conn[c].pc # "idle" /\ ~KioskScreen!Waiting(c)
AwaitInv ==
  /\ OneAwait
  /\ \A n \in DOMAIN sending : sending[n].by \in Conns => conn[sending[n].by].pc # "idle"
  /\ \A c, d \in Conns : GoesOn(c) /\ GoesOn(d) => c = d

\* Who plays has a process that plays, or one whose end is not read.
PlayingInv == \A i \in kioskscreen_players : \E c \in Conns : InstanceOf[c] = i /\ conn[c].st \in {"up", "ended"}

\* A page that doesn't hang takes what it was sent in order: who came later waits for whom those before wait for.
QueueInv ==
  ~KioskScreen!Hangs =>
    /\ \A s \in KioskScreen!Sockets : ~socket[s].stalled
    /\ \A n \in DOMAIN sending : sending[n].to \subseteq KioskScreen!Active
    /\ \A n, m \in DOMAIN sending : n < m => sending[n].to \subseteq sending[m].to

\* So starts and stops come through as they were made, each after one of the other kind: the first fits the task
\* there is, the last who plays now.
OrderInv ==
  ~KioskScreen!Hangs =>
    /\ \A c, d \in Calls : Ahead(c, d) /\ conn[c].pc = conn[d].pc =>
         \E e \in Calls : conn[e].pc # conn[c].pc /\ Ahead(c, e) /\ Ahead(e, d)
    /\ \A c \in Calls : (\A d \in Calls : ~Ahead(d, c)) => (conn[c].pc = "start" <=> minute = KioskScreen!None)
    /\ \A c \in Calls : (\A d \in Calls : ~Ahead(c, d)) => (conn[c].pc = "start" <=> kioskscreen_players # {})
    /\ Calls = {} => (minute = KioskScreen!None <=> kioskscreen_players = {})

\* The task that runs is the one that would be cancelled, and no stop finds none.
MinuteInv ==
  ~KioskScreen!Hangs =>
    /\ \A t \in KioskScreen!Tasks : task[t].st = "runs" <=> t = minute
    /\ \A c \in Conns : conn[c].st # "stuck"

\* What is held or taken to be sent has somebody who will send it.
RestInv ==
  /\ \A t \in KioskScreen!Tasks : task[t].rest # {} => task[t].st = "runs"
  /\ \A c \in Conns : conn[c].rest # {} => conn[c].pc = "pend"
  /\ ~KioskScreen!Hangs /\ pending # {} /\ kioskscreen_players = {} => \E c \in Conns : conn[c].pc = "stop"

ScreenInv == ScreenTypes /\ AwaitInv /\ PlayingInv /\ QueueInv /\ OrderInv /\ MinuteInv /\ RestInv

(* A message behind the others, and one taken out of them. *)
LEMMA QueueAppended == ASSUME NEW Msg, NEW q \in Seq(Msg), NEW m \in Msg
  PROVE  /\ Append(q, m) \in Seq(Msg) /\ Len(q) \in Nat /\ DOMAIN q = 1..Len(q)
         /\ DOMAIN Append(q, m) = 1..(Len(q) + 1)
         /\ Append(q, m)[Len(q) + 1] = m /\ \A n \in 1..Len(q) : Append(q, m)[n] = q[n]
OBVIOUS

LEMMA QueueRemoved == ASSUME NEW Msg, NEW q \in Seq(Msg), NEW n \in DOMAIN q
  PROVE  /\ KioskScreen!RemoveAt(q, n) \in Seq(Msg) /\ Len(q) \in Nat \ {0} /\ DOMAIN q = 1..Len(q)
         /\ DOMAIN KioskScreen!RemoveAt(q, n) = 1..(Len(q) - 1)
         /\ \A m \in 1..(Len(q) - 1) : KioskScreen!RemoveAt(q, n)[m] = IF m < n THEN q[m] ELSE q[m + 1]
  <1> DEFINE front == SubSeq(q, 1, n - 1)
             back == SubSeq(q, n + 1, Len(q))
  <1>1. Len(q) \in Nat \ {0} /\ DOMAIN q = 1..Len(q) /\ n \in 1..Len(q)
    OBVIOUS
  <1>2. front \in Seq(Msg) /\ Len(front) = n - 1 /\ \A m \in 1..(n - 1) : front[m] = q[m]
    BY <1>1
  <1>3. back \in Seq(Msg) /\ Len(back) = Len(q) - n /\ \A m \in 1..(Len(q) - n) : back[m] = q[m + n]
    BY <1>1
  <1>4. KioskScreen!RemoveAt(q, n) = front \o back
    BY DEF KioskScreen!RemoveAt
  <1> HIDE DEF front, back
  <1>5. /\ front \o back \in Seq(Msg) /\ DOMAIN (front \o back) = 1..(Len(front) + Len(back))
        /\ \A m \in 1..(Len(front) + Len(back)) :
             (front \o back)[m] = IF m <= Len(front) THEN front[m] ELSE back[m - Len(front)]
    BY <1>2, <1>3
  <1>6. \A m \in 1..(Len(q) - 1) : (front \o back)[m] = IF m < n THEN q[m] ELSE q[m + 1]
    BY <1>1, <1>2, <1>3, <1>5
  <1> QED
    BY <1>1, <1>2, <1>3, <1>4, <1>5, <1>6

(* Connections, tasks and the bounds of a screen. *)
LEMMA ScreenConstants ==
  /\ InstanceOf \in [Conns -> Played]
  /\ run \in [screen : Screens, reloads : 0..KioskScreen!Limit.reloads,
              videos : 0..KioskScreen!Limit.videos] =>
       /\ KioskScreen!Limit \in [kind : KioskScreen!Kinds, cards : Nat, sockets : Nat \ {0}, reloads : Nat, videos : Nat, conns : SUBSET Conns]
       /\ KioskScreen!Tasks \subseteq Nat \ {0} /\ Conns \cap KioskScreen!Tasks = {}
       /\ KioskScreen!None \notin KioskScreen!Tasks
BY ScreenAssumption DEF KioskScreen!KioskScreenAssumption, KioskScreen!Limit, KioskScreen!Tasks, KioskScreen!None

(* A behaviour keeps to one screen. *)
LEMMA LimitStays == ASSUME ScreenTypes, [KioskScreen!Next]_KioskScreenVars
  PROVE  /\ run' \in [screen : Screens, reloads : 0..KioskScreen!Limit.reloads,
                      videos : 0..KioskScreen!Limit.videos]
         /\ run'.screen = run.screen
  <1>1. run \in [screen : Screens, reloads : 0..KioskScreen!Limit.reloads,
                 videos : 0..KioskScreen!Limit.videos]
    BY DEF ScreenTypes
  <1>2. KioskScreen!Limit.reloads \in Nat /\ KioskScreen!Limit.videos \in Nat
    BY <1>1, ScreenConstants
  <1>3. \/ run' = run
        \/ run.reloads < KioskScreen!Limit.reloads /\ run' = [run EXCEPT !.reloads = run.reloads + 1]
        \/ run.videos < KioskScreen!Limit.videos /\ run' = [run EXCEPT !.videos = run.videos + 1]
    BY DEF KioskScreen!Next, KioskScreenVars, KioskScreen!RunStep, KioskScreen!SendStep, KioskScreen!GreetStep,
       KioskScreen!MinuteStep, KioskScreen!VideoStarted, KioskScreen!VideoStopped, KioskScreen!VideoStopFails, KioskScreen!VideoSendsPending,
       KioskScreen!MinuteSends, KioskScreen!Sent, KioskScreen!PageGreeted, KioskScreen!PageGetsCard,
       KioskScreen!ReloadModules, KioskScreen!PageConnects, KioskScreen!PageHangs, KioskScreen!PageCloses,
       KioskScreen!SendsCard, KioskScreen!ResendsCard, KioskScreen!ConnStarts, KioskScreen!ConnEnds,
       KioskScreen!ServeEnds, KioskScreen!ConnPlays, KioskScreen!MinutePasses
  <1> QED
    BY <1>1, <1>2, <1>3
LEMMA SameLimits == ASSUME run'.screen = run.screen
  PROVE  /\ KioskScreen!Limit' = KioskScreen!Limit /\ KioskScreen!Sockets' = KioskScreen!Sockets
         /\ KioskScreen!Tasks' = KioskScreen!Tasks /\ KioskScreen!Cards' = KioskScreen!Cards
         /\ (KioskScreen!Slow' <=> KioskScreen!Slow) /\ (KioskScreen!Hangs' <=> KioskScreen!Hangs)
         /\ ScreenMsg' = ScreenMsg /\ ScreenTask' = ScreenTask /\ ScreenPage' = ScreenPage
BY DEF KioskScreen!Limit, KioskScreen!Sockets, KioskScreen!Tasks, KioskScreen!Cards, KioskScreen!Slow, KioskScreen!Hangs,
   ScreenMsg, ScreenTask, ScreenPage

(* Who begins to wait is behind all others. *)
LEMMA WaitsLast ==
  ASSUME ScreenTypes, OneAwait, NEW x \in Conns \cup KioskScreen!Tasks, ~KioskScreen!Waiting(x), KioskScreen!Waits(x)
  PROVE  /\ sending' \in Seq(ScreenMsg) /\ OneAwait' /\ KioskScreen!Waiting(x)'
         /\ \A y : y # x => (KioskScreen!Waiting(y)' <=> KioskScreen!Waiting(y))
         /\ \A y, z : y # x /\ z # x => (Ahead(y, z)' <=> Ahead(y, z))
         /\ \A y : (y # x => Ahead(y, x)') /\ ~Ahead(x, y)'
  <1> DEFINE m == [by |-> x, to |-> KioskScreen!Active]
             l == Len(sending)
  <1>1. m \in ScreenMsg /\ m.by = x
    BY DEF ScreenMsg, KioskScreen!Active
  <1>2. sending' = Append(sending, m)
    BY DEF KioskScreen!Waits
  <1>3. sending \in Seq(ScreenMsg)
    BY DEF ScreenTypes
  <1> HIDE DEF m
  <1>4. /\ sending' \in Seq(ScreenMsg) /\ l \in Nat /\ DOMAIN sending = 1..l /\ DOMAIN sending' = 1..(l + 1)
        /\ sending'[l + 1].by = x /\ \A n \in 1..l : sending'[n] = sending[n] /\ sending[n].by # x
    BY <1>1, <1>2, <1>3, QueueAppended DEF KioskScreen!Waiting
  <1> HIDE DEF l
  <1>5. 1..(l + 1) = (1..l) \cup {l + 1} /\ l + 1 \notin 1..l
    BY <1>4
  <1>6. OneAwait'
    BY <1>4, <1>5 DEF OneAwait
  <1>7. KioskScreen!Waiting(x)' /\ \A y : y # x => (KioskScreen!Waiting(y)' <=> KioskScreen!Waiting(y))
    BY <1>4, <1>5 DEF KioskScreen!Waiting
  <1>8. \A y, z : y # x /\ z # x => (Queued(y, z)' <=> Queued(y, z))
    BY <1>4, <1>5 DEF Queued
  <1>9. \A y : KioskScreen!Waiting(y) => Queued(y, x)'
    <2> SUFFICES ASSUME NEW y, KioskScreen!Waiting(y) PROVE Queued(y, x)'
      OBVIOUS
    <2>1. PICK n \in 1..l : sending[n].by = y
      BY <1>4 DEF KioskScreen!Waiting
    <2>2. n < l + 1 /\ n \in DOMAIN sending' /\ l + 1 \in DOMAIN sending' /\ sending'[n].by = y
      BY <1>4, <1>5, <2>1
    <2> QED
      BY <1>4, <2>2 DEF Queued
  <1>10. \A y : ~Queued(x, y)'
    BY <1>4, <1>5 DEF Queued
  <1> QED
    BY <1>4, <1>6, <1>7, <1>8, <1>9, <1>10 DEF Ahead

(* A message that is through, or whose sender is cancelled, leaves the others as they were. *)
LEMMA OneLess ==
  ASSUME ScreenTypes, OneAwait, NEW n \in DOMAIN sending, NEW x, x = sending[n].by, sending' = KioskScreen!RemoveAt(sending, n)
  PROVE  /\ sending' \in Seq(ScreenMsg) /\ OneAwait' /\ ~KioskScreen!Waiting(x)'
         /\ \A y : y # x => (KioskScreen!Waiting(y)' <=> KioskScreen!Waiting(y))
         /\ \A y, z : y # x /\ z # x => (Ahead(y, z)' <=> Ahead(y, z))
         /\ n = 1 => \A y : KioskScreen!Waiting(y) /\ y # x => Ahead(x, y) /\ ~Ahead(y, x)
  <1> DEFINE l == Len(sending)
             at(i) == IF i < n THEN i ELSE i + 1
  <1>1. /\ sending' \in Seq(ScreenMsg) /\ l \in Nat \ {0} /\ DOMAIN sending = 1..l /\ DOMAIN sending' = 1..(l - 1)
        /\ \A i \in 1..(l - 1) : sending'[i] = IF i < n THEN sending[i] ELSE sending[i + 1]
    BY QueueRemoved DEF ScreenTypes
  <1>2. n \in 1..l
    BY <1>1
  <1> HIDE DEF l
  <1>3. \A i \in 1..(l - 1) : at(i) \in 1..l /\ at(i) # n /\ sending'[i] = sending[at(i)]
    BY <1>1, <1>2
  <1>4. \A i, j \in 1..(l - 1) : (i < j <=> at(i) < at(j)) /\ (at(i) = at(j) => i = j)
    BY <1>1, <1>2
  <1>5. \A k \in 1..l : k # n => \E i \in 1..(l - 1) : at(i) = k
    <2> SUFFICES ASSUME NEW k \in 1..l, k # n PROVE \E i \in 1..(l - 1) : at(i) = k
      OBVIOUS
    <2>1. CASE k < n
      BY <1>1, <1>2, <2>1
    <2>2. CASE k > n
      <3>1. k - 1 \in 1..(l - 1) /\ at(k - 1) = k
        BY <1>1, <1>2, <2>2
      <3> QED
        BY <3>1
    <2>3. k < n \/ k > n
      <3>1. k \in Int /\ n \in Int
        BY <1>1, <1>2
      <3> QED
        BY <3>1
    <2> QED
      BY <2>1, <2>2, <2>3
  <1> HIDE DEF at
  <1>6. \A i \in 1..l : sending[i].by = x => i = n
    BY <1>1, <1>2 DEF OneAwait
  <1>7. OneAwait'
    <2> SUFFICES ASSUME NEW i \in 1..(l - 1), NEW j \in 1..(l - 1), sending'[i].by = sending'[j].by PROVE i = j
      BY <1>1 DEF OneAwait
    <2>1. at(i) = at(j)
      BY <1>1, <1>3 DEF OneAwait
    <2> QED
      BY <1>4, <2>1
  <1>8. ~KioskScreen!Waiting(x)'
    <2> SUFFICES ASSUME NEW i \in 1..(l - 1), sending'[i].by = x PROVE FALSE
      BY <1>1 DEF KioskScreen!Waiting
    <2>1. at(i) \in 1..l /\ at(i) # n /\ sending[at(i)].by = x
      BY <1>3
    <2> QED
      BY <1>6, <2>1
  <1>9. \A y : y # x => (KioskScreen!Waiting(y)' <=> KioskScreen!Waiting(y))
    <2> SUFFICES ASSUME NEW y, y # x PROVE KioskScreen!Waiting(y)' <=> KioskScreen!Waiting(y)
      OBVIOUS
    <2>1. KioskScreen!Waiting(y)' => KioskScreen!Waiting(y)
      BY <1>1, <1>3 DEF KioskScreen!Waiting
    <2>2. ASSUME KioskScreen!Waiting(y) PROVE KioskScreen!Waiting(y)'
      <3>1. PICK k \in 1..l : sending[k].by = y
        BY <1>1, <2>2 DEF KioskScreen!Waiting
      <3>2. k # n
        BY <3>1
      <3>3. PICK i \in 1..(l - 1) : at(i) = k
        BY <1>5, <3>2
      <3> QED
        BY <1>1, <1>3, <3>1, <3>3 DEF KioskScreen!Waiting
    <2> QED
      BY <2>1, <2>2
  <1>10. \A y, z : y # x /\ z # x => (Queued(y, z)' <=> Queued(y, z))
    <2> SUFFICES ASSUME NEW y, NEW z, y # x, z # x PROVE Queued(y, z)' <=> Queued(y, z)
      OBVIOUS
    <2>1. ASSUME Queued(y, z)' PROVE Queued(y, z)
      <3>1. PICK i \in 1..(l - 1), j \in 1..(l - 1) : i < j /\ sending'[i].by = y /\ sending'[j].by = z
        BY <1>1, <2>1 DEF Queued
      <3>2. at(i) \in 1..l /\ at(j) \in 1..l /\ at(i) < at(j) /\ sending[at(i)].by = y /\ sending[at(j)].by = z
        BY <1>3, <1>4, <3>1
      <3> QED
        BY <1>1, <3>2 DEF Queued
    <2>2. ASSUME Queued(y, z) PROVE Queued(y, z)'
      <3>1. PICK k \in 1..l, m \in 1..l : k < m /\ sending[k].by = y /\ sending[m].by = z
        BY <1>1, <2>2 DEF Queued
      <3>2. k # n /\ m # n
        BY <3>1
      <3>3. PICK i \in 1..(l - 1) : at(i) = k
        BY <1>5, <3>2
      <3>4. PICK j \in 1..(l - 1) : at(j) = m
        BY <1>5, <3>2
      <3>5. i < j /\ sending'[i].by = y /\ sending'[j].by = z
        BY <1>3, <1>4, <3>1, <3>3, <3>4
      <3> QED
        BY <1>1, <3>5 DEF Queued
    <2> QED
      BY <2>1, <2>2
  <1>11. ASSUME n = 1, NEW y, KioskScreen!Waiting(y), y # x PROVE Ahead(x, y) /\ ~Ahead(y, x)
    <2>1. PICK k \in 1..l : sending[k].by = y
      BY <1>1, <1>11 DEF KioskScreen!Waiting
    <2>2. k > 1 /\ sending[1].by = x /\ 1 \in 1..l
      BY <1>1, <1>2, <1>11, <2>1
    <2>3. Queued(x, y)
      BY <1>1, <2>1, <2>2 DEF Queued
    <2>4. KioskScreen!Waiting(x)
      BY <1>1, <2>2 DEF KioskScreen!Waiting
    <2>5. ASSUME Queued(y, x) PROVE FALSE
      <3>1. PICK i \in 1..l, j \in 1..l : i < j /\ sending[j].by = x
        BY <1>1, <2>5 DEF Queued
      <3>2. j = 1
        BY <1>6, <1>11, <3>1
      <3> QED
        BY <1>1, <3>1, <3>2
    <2> QED
      BY <1>11, <2>3, <2>4, <2>5 DEF Ahead
  <1> QED
    BY <1>1, <1>7, <1>8, <1>9, <1>10, <1>11 DEF Ahead

(* Nobody is ahead of who doesn't wait, nor of itself. *)
LEMMA WhoIsAhead == ASSUME ScreenTypes, OneAwait PROVE \A c, d : Ahead(c, d) => KioskScreen!Waiting(d) /\ c # d
  <1> SUFFICES ASSUME NEW c, NEW d, Ahead(c, d) PROVE KioskScreen!Waiting(d) /\ c # d
    OBVIOUS
  <1>1. CASE ~KioskScreen!Waiting(c) /\ KioskScreen!Waiting(d)
    BY <1>1
  <1>2. CASE Queued(c, d)
    <2>1. PICK n \in DOMAIN sending, m \in DOMAIN sending : n < m /\ sending[n].by = c /\ sending[m].by = d
      BY <1>2 DEF Queued
    <2>2. n \in Int /\ m \in Int
      BY DEF ScreenTypes
    <2>3. n # m
      BY <2>1, <2>2
    <2>4. c # d
      BY <2>1, <2>3 DEF OneAwait
    <2> QED
      BY <2>1, <2>4 DEF KioskScreen!Waiting
  <1> QED
    BY <1>1, <1>2 DEF Ahead

(* One goes on at most: who waits for nobody any more. *)
LEMMA OnlyOneGoesOn ==
  ASSUME ScreenTypes, run'.screen = run.screen, OneAwait', NEW w,
         \A c \in Conns : KioskScreen!Waiting(c)' => conn'[c].pc # "idle",
         \A c \in Conns : GoesOn(c)' => c = w
  PROVE  AwaitInv'
  <1>1. Conns \cap KioskScreen!Tasks = {} /\ KioskScreen!Tasks' = KioskScreen!Tasks
    BY ScreenConstants, SameLimits DEF ScreenTypes
  <1>2. \A n \in DOMAIN sending' : sending'[n].by \in Conns => conn'[sending'[n].by].pc # "idle"
    BY DEF KioskScreen!Waiting
  <1> QED
    BY <1>1, <1>2 DEF AwaitInv

(* Calls that stay as they were, in their order. *)
LEMMA OrderKept ==
  ASSUME OrderInv, run'.screen = run.screen, Calls' = Calls, \A c \in Calls : conn'[c].pc = conn[c].pc,
         \A c, d \in Calls : Ahead(c, d)' <=> Ahead(c, d),
         minute' = KioskScreen!None <=> minute = KioskScreen!None, kioskscreen_players' = {} <=> kioskscreen_players = {}
  PROVE  OrderInv'
  <1>1. (KioskScreen!Hangs' <=> KioskScreen!Hangs) /\ KioskScreen!None' = KioskScreen!None
    BY SameLimits DEF KioskScreen!None
  <1> QED
    BY <1>1 DEF OrderInv

(* A call that tells the page of the first video, or of the last one's end, is behind all others, and of another
   kind than the last. *)
LEMMA OrderBegins ==
  ASSUME OrderInv, run'.screen = run.screen, NEW x \in Conns, x \notin Calls, Calls' = Calls \cup {x},
         \A c \in Calls : conn'[c].pc = conn[c].pc, \A c, d \in Calls : Ahead(c, d)' <=> Ahead(c, d),
         \A c \in Calls : Ahead(c, x)', \A c \in Calls' : ~Ahead(x, c)', minute' = minute,
         (kioskscreen_players' = {}) <=> (kioskscreen_players # {}),
         conn'[x].pc = "start" <=> kioskscreen_players' # {}
  PROVE  OrderInv'
  <1> SUFFICES ASSUME ~KioskScreen!Hangs PROVE OrderInv'
    BY SameLimits DEF OrderInv
  <1>1. \A c \in Calls : conn[c].pc \in {"start", "stop"}
    BY DEF Calls
  <1>2. conn'[x].pc \in {"start", "stop"}
    BY DEF Calls
  <1>3. ASSUME NEW c \in Calls', NEW d \in Calls', Ahead(c, d)', conn'[c].pc = conn'[d].pc
        PROVE  \E e \in Calls' : conn'[e].pc # conn'[c].pc /\ Ahead(c, e)' /\ Ahead(e, d)'
    <2>1. c \in Calls
      BY <1>3
    <2>2. CASE d \in Calls
      <3>1. PICK e \in Calls : conn[e].pc # conn[c].pc /\ Ahead(c, e) /\ Ahead(e, d)
        BY <1>3, <2>1, <2>2 DEF OrderInv
      <3> QED
        BY <2>1, <2>2, <3>1
    <2>3. CASE d = x
      <3>1. PICK f \in Calls : Ahead(c, f)
        <4>1. ~(conn[c].pc = "start" <=> kioskscreen_players # {})
          BY <1>1, <1>2, <1>3, <2>1, <2>3
        <4> QED
          BY <2>1, <4>1 DEF OrderInv
      <3>2. \E e \in Calls : conn[e].pc # conn[c].pc /\ Ahead(c, e)
        BY <2>1, <3>1 DEF OrderInv
      <3> QED
        BY <2>1, <2>3, <3>2
    <2> QED
      BY <2>2, <2>3
  <1>4. ASSUME NEW c \in Calls', \A d \in Calls' : ~Ahead(d, c)'
        PROVE  conn'[c].pc = "start" <=> minute' = KioskScreen!None
    <2>1. CASE c \in Calls
      BY <1>4, <2>1 DEF OrderInv
    <2>2. CASE c = x
      <3>1. Calls = {}
        BY <1>4, <2>2
      <3> QED
        BY <2>2, <3>1 DEF OrderInv
    <2> QED
      BY <2>1, <2>2
  <1>5. ASSUME NEW c \in Calls', \A d \in Calls' : ~Ahead(c, d)'
        PROVE  conn'[c].pc = "start" <=> kioskscreen_players' # {}
    BY <1>5
  <1>6. Calls' # {} /\ KioskScreen!None' = KioskScreen!None
    BY DEF KioskScreen!None
  <1> QED
    BY <1>3, <1>4, <1>5, <1>6 DEF OrderInv

(* The first call goes through: the next one is of the other kind. *)
LEMMA OrderGoesOn ==
  ASSUME OrderInv, run'.screen = run.screen, NEW x \in Calls, Calls' = Calls \ {x},
         \A c \in Calls' : conn'[c].pc = conn[c].pc, \A c, d \in Calls' : Ahead(c, d)' <=> Ahead(c, d),
         \A c \in Calls : ~Ahead(c, x), \A c \in Calls' : Ahead(x, c),
         minute = KioskScreen!None <=> minute' # KioskScreen!None, kioskscreen_players' = kioskscreen_players
  PROVE  OrderInv'
  <1> SUFFICES ASSUME ~KioskScreen!Hangs PROVE OrderInv'
    BY SameLimits DEF OrderInv
  <1>1. \A c \in Calls : conn[c].pc \in {"start", "stop"}
    BY DEF Calls
  <1>2. conn[x].pc = "start" <=> minute = KioskScreen!None
    BY DEF OrderInv
  <1>3. ASSUME NEW c \in Calls', NEW d \in Calls', Ahead(c, d)', conn'[c].pc = conn'[d].pc
        PROVE  \E e \in Calls' : conn'[e].pc # conn'[c].pc /\ Ahead(c, e)' /\ Ahead(e, d)'
    <2>1. PICK e \in Calls : conn[e].pc # conn[c].pc /\ Ahead(c, e) /\ Ahead(e, d)
      BY <1>3 DEF OrderInv
    <2>2. e \in Calls'
      BY <2>1
    <2> QED
      BY <2>1, <2>2
  <1>4. ASSUME NEW c \in Calls', \A d \in Calls' : ~Ahead(d, c)'
        PROVE  conn'[c].pc = "start" <=> minute' = KioskScreen!None
    <2>1. conn[c].pc # conn[x].pc
      <3> SUFFICES ASSUME conn[c].pc = conn[x].pc PROVE FALSE
        OBVIOUS
      <3>1. PICK e \in Calls : Ahead(x, e) /\ Ahead(e, c)
        BY DEF OrderInv
      <3> QED
        BY <1>4, <3>1
    <2> QED
      BY <1>1, <1>2, <2>1
  <1>5. ASSUME NEW c \in Calls', \A d \in Calls' : ~Ahead(c, d)'
        PROVE  conn'[c].pc = "start" <=> kioskscreen_players' # {}
    BY <1>5 DEF OrderInv
  <1>6. ASSUME Calls' = {} PROVE minute' = KioskScreen!None <=> kioskscreen_players' = {}
    <2>1. conn[x].pc = "start" <=> kioskscreen_players # {}
      BY <1>6 DEF OrderInv
    <2> QED
      BY <1>2, <2>1
  <1>7. KioskScreen!None' = KioskScreen!None
    BY DEF KioskScreen!None
  <1> QED
    BY <1>3, <1>4, <1>5, <1>6, <1>7 DEF OrderInv

(* What a card, and a video's start or end, changes on the page. *)
LEMMA CardOnPage ==
  ASSUME ScreenTypes, run'.screen = run.screen, NEW i \in Played, NEW v \in KioskScreen!Cards,
         socket' = KioskScreen!ShowCard(i, v)
  PROVE  /\ socket' \in [KioskScreen!Sockets -> ScreenPage] /\ KioskScreen!Active' = KioskScreen!Active
         /\ \A s \in KioskScreen!Sockets :
              /\ socket'[s].st = socket[s].st /\ socket'[s].stalled = socket[s].stalled /\ socket'[s].todo = socket[s].todo
              /\ \A j \in Played \ {i} : /\ socket'[s].shown[j] = socket[s].shown[j]
                                         /\ j \in socket'[s].lost <=> j \in socket[s].lost
              /\ socket'[s].shown[i] = IF s \in KioskScreen!Taking THEN v ELSE socket[s].shown[i]
  <1>1. KioskScreen!Sockets' = KioskScreen!Sockets
    BY SameLimits
  <1> DEFINE now(s) == [socket[s].shown EXCEPT ![i] = v]
             after(s) == [socket[s] EXCEPT !.shown = now(s), !.lost = socket[s].lost \ {i}]
  <1>2. ASSUME NEW s \in KioskScreen!Sockets
        PROVE  /\ socket[s] \in ScreenPage /\ now(s) \in [Played -> KioskScreen!Cards]
               /\ socket[s].shown \in [Played -> KioskScreen!Cards]
    BY DEF ScreenTypes, ScreenPage
  <1>3. ASSUME NEW s \in KioskScreen!Sockets
        PROVE  /\ after(s) \in ScreenPage /\ after(s).st = socket[s].st /\ after(s).stalled = socket[s].stalled
               /\ after(s).todo = socket[s].todo /\ after(s).shown = now(s) /\ after(s).lost = socket[s].lost \ {i}
               /\ socket'[s] = IF s \in KioskScreen!Taking THEN after(s) ELSE socket[s]
    <2>1. socket'[s] = IF s \in KioskScreen!Taking THEN [socket[s] EXCEPT !.shown[i] = v, !.lost = socket[s].lost \ {i}]
                       ELSE socket[s]
      BY DEF KioskScreen!ShowCard
    <2>2. [socket[s] EXCEPT !.shown[i] = v, !.lost = socket[s].lost \ {i}] = after(s)
      BY <1>2 DEF ScreenPage
    <2>3. after(s) \in ScreenPage
      BY <1>2 DEF ScreenPage
    <2> QED
      BY <1>2, <2>1, <2>2, <2>3 DEF ScreenPage
  <1>4. socket' \in [KioskScreen!Sockets -> ScreenPage]
    BY <1>2, <1>3 DEF KioskScreen!ShowCard
  <1>5. ASSUME NEW s \in KioskScreen!Sockets
        PROVE  /\ socket'[s].st = socket[s].st /\ socket'[s].stalled = socket[s].stalled /\ socket'[s].todo = socket[s].todo
               /\ \A j \in Played \ {i} : /\ socket'[s].shown[j] = socket[s].shown[j]
                                          /\ j \in socket'[s].lost <=> j \in socket[s].lost
               /\ socket'[s].shown[i] = IF s \in KioskScreen!Taking THEN v ELSE socket[s].shown[i]
    <2>1. now(s)[i] = v /\ \A j \in Played \ {i} : now(s)[j] = socket[s].shown[j]
      BY <1>2
    <2>2. CASE s \in KioskScreen!Taking
      <3> HIDE DEF now, after
      <3>1. socket'[s].shown = now(s) /\ socket'[s].lost = socket[s].lost \ {i}
        BY <1>3, <2>2
      <3>2. /\ socket'[s].st = socket[s].st /\ socket'[s].stalled = socket[s].stalled
            /\ socket'[s].todo = socket[s].todo
        BY <1>3, <2>2
      <3>3. \A j \in Played \ {i} : j \in socket'[s].lost <=> j \in socket[s].lost
        BY <3>1
      <3> QED
        BY <2>1, <2>2, <3>1, <3>2, <3>3
    <2>3. CASE s \notin KioskScreen!Taking
      BY <1>3, <2>3
    <2> QED
      BY <2>2, <2>3
  <1>6. KioskScreen!Active' = KioskScreen!Active
    BY <1>1, <1>5 DEF KioskScreen!Active
  <1> QED
    BY <1>4, <1>5, <1>6

LEMMA VideoOnPage ==
  ASSUME ScreenTypes, run'.screen = run.screen, NEW plays \in BOOLEAN, socket' = KioskScreen!ShowVideo(plays)
  PROVE  /\ socket' \in [KioskScreen!Sockets -> ScreenPage] /\ KioskScreen!Active' = KioskScreen!Active
         /\ \A s \in KioskScreen!Sockets :
              /\ socket'[s].st = socket[s].st /\ socket'[s].stalled = socket[s].stalled /\ socket'[s].todo = socket[s].todo
              /\ socket'[s].shown = socket[s].shown /\ socket'[s].lost = socket[s].lost
  <1>1. KioskScreen!Sockets' = KioskScreen!Sockets
    BY SameLimits
  <1>2. socket' \in [KioskScreen!Sockets -> ScreenPage]
    <2>1. ASSUME NEW s \in KioskScreen!Sockets PROVE [socket[s] EXCEPT !.video = plays] \in ScreenPage
      <3>1. socket[s] \in ScreenPage
        BY DEF ScreenTypes
      <3> QED
        BY <3>1 DEF ScreenPage
    <2>2. \A s \in KioskScreen!Sockets : socket[s] \in ScreenPage
      BY DEF ScreenTypes
    <2> QED
      BY <2>1, <2>2 DEF KioskScreen!ShowVideo
  <1>3. \A s \in KioskScreen!Sockets :
          /\ socket'[s].st = socket[s].st /\ socket'[s].stalled = socket[s].stalled /\ socket'[s].todo = socket[s].todo
          /\ socket'[s].shown = socket[s].shown /\ socket'[s].lost = socket[s].lost
    BY DEF KioskScreen!ShowVideo, ScreenTypes, ScreenPage
  <1>4. KioskScreen!Active' = KioskScreen!Active
    BY <1>1, <1>3 DEF KioskScreen!Active
  <1> QED
    BY <1>2, <1>3, <1>4

(* Steps of the page or of a card, that leave the calls alone. *)
LEMMA CallsSame ==
  ASSUME ScreenInv, run'.screen = run.screen, UNCHANGED <<kioskscreen_players, minute, task, conn, sending>>
  PROVE  /\ AwaitInv' /\ PlayingInv' /\ OrderInv' /\ MinuteInv'
         /\ \A x : KioskScreen!Waiting(x)' <=> KioskScreen!Waiting(x)
         /\ (~KioskScreen!Hangs /\ pending' # {} /\ kioskscreen_players = {} => pending # {}) => RestInv'
  <1>1. /\ KioskScreen!Tasks' = KioskScreen!Tasks /\ (KioskScreen!Hangs' <=> KioskScreen!Hangs)
        /\ KioskScreen!None' = KioskScreen!None
    BY SameLimits DEF KioskScreen!None
  <1>2. \A x : KioskScreen!Waiting(x)' <=> KioskScreen!Waiting(x)
    BY DEF KioskScreen!Waiting
  <1>3. AwaitInv'
    BY <1>1, <1>2 DEF ScreenInv, AwaitInv, OneAwait, GoesOn
  <1>4. PlayingInv'
    BY DEF ScreenInv, PlayingInv
  <1>5. OrderInv'
    <2>1. Calls' = Calls /\ \A c, d : Ahead(c, d)' <=> Ahead(c, d)
      BY <1>2 DEF Calls, Ahead, Queued
    <2> QED
      BY <1>1, <2>1, OrderKept DEF ScreenInv
  <1>6. MinuteInv'
    BY <1>1 DEF ScreenInv, MinuteInv
  <1>8. (~KioskScreen!Hangs /\ pending' # {} /\ kioskscreen_players = {} => pending # {}) => RestInv'
    BY <1>1 DEF ScreenInv, RestInv
  <1> QED
    BY <1>2, <1>3, <1>4, <1>5, <1>6, <1>8

(* A step that changes one WebSocket of the page only. *)
LEMMA OnePage ==
  ASSUME ScreenInv, UNCHANGED <<kioskscreen_players, pending, latest, minute, task, conn, sending, card, resend, run>>,
         NEW s \in KioskScreen!Sockets, NEW p \in ScreenPage, socket' = [socket EXCEPT ![s] = p],
         ~KioskScreen!Hangs => /\ ~p.stalled
                               /\ \A n \in DOMAIN sending :
                                    s \in sending[n].to => p.st \in {"hello", "cards", "up", "leaves"}
  PROVE  ScreenInv'
  <1>1. /\ KioskScreen!Limit' = KioskScreen!Limit /\ KioskScreen!Sockets' = KioskScreen!Sockets
        /\ KioskScreen!Tasks' = KioskScreen!Tasks /\ KioskScreen!Cards' = KioskScreen!Cards
        /\ (KioskScreen!Slow' <=> KioskScreen!Slow) /\ (KioskScreen!Hangs' <=> KioskScreen!Hangs)
        /\ ScreenMsg' = ScreenMsg /\ ScreenTask' = ScreenTask /\ ScreenPage' = ScreenPage
    BY SameLimits
  <1>2. /\ socket' \in [KioskScreen!Sockets -> ScreenPage] /\ socket'[s] = p
        /\ \A r \in KioskScreen!Sockets : r # s => socket'[r] = socket[r]
    BY DEF ScreenInv, ScreenTypes
  <1>3. ScreenTypes'
    BY <1>1, <1>2 DEF ScreenInv, ScreenTypes, KioskScreen!None
  <1>4. AwaitInv' /\ PlayingInv' /\ OrderInv' /\ MinuteInv' /\ RestInv'
    BY CallsSame
  <1>5. QueueInv'
    <2> SUFFICES ASSUME ~KioskScreen!Hangs PROVE QueueInv'
      BY <1>1 DEF QueueInv
    <2>1. \A r \in KioskScreen!Sockets : ~socket'[r].stalled
      BY <1>2 DEF ScreenInv, QueueInv
    <2>2. ASSUME NEW n \in DOMAIN sending PROVE sending[n].to \subseteq KioskScreen!Active'
      <3>1. sending[n].to \subseteq KioskScreen!Active /\ sending[n].to \subseteq KioskScreen!Sockets
        BY DEF ScreenInv, QueueInv, KioskScreen!Active
      <3> QED
        BY <1>1, <1>2, <3>1 DEF KioskScreen!Active
    <2> QED
      BY <1>1, <2>1, <2>2 DEF ScreenInv, QueueInv
  <1> QED
    BY <1>3, <1>4, <1>5 DEF ScreenInv

LEMMA ScreenGreets == ASSUME ScreenInv, NEW s \in KioskScreen!Sockets, KioskScreen!PageGreeted(s) PROVE ScreenInv'
  <1>1. socket[s] \in ScreenPage /\ latest \in [Played -> KioskScreen!Cards]
    BY DEF ScreenInv, ScreenTypes
  <1>2. PICK p : /\ p = IF KioskScreen!Slow THEN [socket[s] EXCEPT !.st = "cards", !.todo = latest]
                                            ELSE [socket[s] EXCEPT !.st = "up", !.shown = latest, !.lost = {}]
                 /\ socket' = [socket EXCEPT ![s] = p]
    BY DEF KioskScreen!PageGreeted, KioskScreen!Kept
  <1>3. p \in ScreenPage /\ p.st \in {"cards", "up"} /\ ~p.stalled
    BY <1>1, <1>2 DEF ScreenPage, KioskScreen!PageGreeted
  <1>4. UNCHANGED <<kioskscreen_players, pending, latest, minute, task, conn, sending, card, resend, run>>
    BY DEF KioskScreen!PageGreeted
  <1> QED
    BY <1>2, <1>3, <1>4, OnePage

(* What a card of a greeting changes. *)
LEMMA GreetingCard ==
  ASSUME ScreenInv, NEW s \in KioskScreen!Sockets, KioskScreen!PageGetsCard(s), socket[s].todo # KioskScreen!NoCards
  PROVE  /\ \A r \in KioskScreen!Sockets : r # s => socket'[r] = socket[r]
         /\ socket'[s] \in ScreenPage /\ socket' = [socket EXCEPT ![s] = socket'[s]]
         /\ socket'[s].st = "cards" /\ ~socket'[s].stalled
         /\ \E i \in Played :
              /\ socket[s].todo[i] # 0 /\ socket'[s].shown[i] = socket[s].todo[i] /\ socket'[s].todo[i] = 0
              /\ socket[s].todo[i] # latest[i] => i \in socket'[s].lost
              /\ \A j \in Played \ {i} :
                   /\ socket'[s].shown[j] = socket[s].shown[j] /\ socket'[s].todo[j] = socket[s].todo[j]
                   /\ j \in socket'[s].lost <=> j \in socket[s].lost
  <1>1. socket \in [KioskScreen!Sockets -> ScreenPage] /\ socket[s].st = "cards" /\ ~socket[s].stalled
    BY DEF ScreenInv, ScreenTypes, KioskScreen!PageGetsCard
  <1>2. PICK i \in Played :
          /\ socket[s].todo[i] # 0
          /\ socket' = [socket EXCEPT ![s].shown[i] = socket[s].todo[i], ![s].todo[i] = 0,
                                      ![s].lost = (socket[s].lost \ {i}) \cup ({i} \cap KioskScreen!Old(s))]
    BY DEF KioskScreen!PageGetsCard
  <1>3. /\ socket[s].shown \in [Played -> KioskScreen!Cards] /\ socket[s].todo \in [Played -> KioskScreen!Cards]
        /\ socket[s].lost \subseteq Played
    BY <1>1 DEF ScreenPage
  <1>4. 0 \in KioskScreen!Cards
    BY ScreenConstants DEF ScreenInv, ScreenTypes, KioskScreen!Cards
  <1>5. PICK now \in [Played -> KioskScreen!Cards], todo \in [Played -> KioskScreen!Cards], lost \in SUBSET Played :
          /\ now = [socket[s].shown EXCEPT ![i] = socket[s].todo[i]] /\ todo = [socket[s].todo EXCEPT ![i] = 0]
          /\ lost = (socket[s].lost \ {i}) \cup ({i} \cap KioskScreen!Old(s))
    BY <1>3, <1>4
  <1> DEFINE p == [socket[s] EXCEPT !.shown = now, !.todo = todo, !.lost = lost]
  <1>6. socket' = [socket EXCEPT ![s] = p]
    BY <1>1, <1>2, <1>5 DEF ScreenPage
  <1>7. p \in ScreenPage /\ p.st = "cards" /\ ~p.stalled /\ p.shown = now /\ p.todo = todo /\ p.lost = lost
    <2>1. socket[s] \in ScreenPage
      BY <1>1
    <2>2. p \in ScreenPage
      BY <2>1 DEF ScreenPage
    <2> QED
      BY <1>1, <2>1, <2>2 DEF ScreenPage
  <1> HIDE DEF p
  <1>8. socket'[s] = p /\ \A r \in KioskScreen!Sockets : r # s => socket'[r] = socket[r]
    BY <1>1, <1>6
  <1>9. i \in KioskScreen!Old(s) <=> socket[s].todo[i] # latest[i]
    BY DEF KioskScreen!Old
  <1>10. /\ now[i] = socket[s].todo[i] /\ todo[i] = 0 /\ (socket[s].todo[i] # latest[i] => i \in lost)
         /\ \A j \in Played \ {i} : now[j] = socket[s].shown[j] /\ todo[j] = socket[s].todo[j]
                                  /\ (j \in lost <=> j \in socket[s].lost)
    BY <1>3, <1>5, <1>9
  <1> QED
    BY <1>2, <1>6, <1>7, <1>8, <1>10

LEMMA ScreenGetsCard == ASSUME ScreenInv, NEW s \in KioskScreen!Sockets, KioskScreen!PageGetsCard(s) PROVE ScreenInv'
  <1>1. socket[s] \in ScreenPage /\ socket[s].st = "cards" /\ ~socket[s].stalled
    BY DEF ScreenInv, ScreenTypes, KioskScreen!PageGetsCard
  <1>2. \E p \in ScreenPage : p.st \in {"cards", "up"} /\ ~p.stalled /\ socket' = [socket EXCEPT ![s] = p]
    <2>1. CASE socket[s].todo = KioskScreen!NoCards
      <3>1. [socket[s] EXCEPT !.st = "up"] \in ScreenPage
        BY <1>1 DEF ScreenPage
      <3>2. socket' = [socket EXCEPT ![s] = [socket[s] EXCEPT !.st = "up"]]
        BY <2>1 DEF KioskScreen!PageGetsCard
      <3> QED
        BY <1>1, <3>1, <3>2 DEF ScreenPage
    <2>2. CASE socket[s].todo # KioskScreen!NoCards
      BY <2>2, GreetingCard
    <2> QED
      BY <2>1, <2>2
  <1>3. UNCHANGED <<kioskscreen_players, pending, latest, minute, task, conn, sending, card, resend, run>>
    BY DEF KioskScreen!PageGetsCard
  <1> QED
    BY <1>2, <1>3, OnePage

LEMMA ScreenConnects == ASSUME ScreenInv, NEW s \in KioskScreen!Sockets, KioskScreen!PageConnects(s) PROVE ScreenInv'
  <1> DEFINE p == [KioskScreen!NewPage EXCEPT !.st = "hello", !.video = KioskScreen!Hello]
  <1>1. 0 \in KioskScreen!Cards
    BY ScreenConstants DEF ScreenInv, ScreenTypes, KioskScreen!Cards
  <1>2. p \in ScreenPage /\ p.st = "hello" /\ ~p.stalled
    BY <1>1 DEF ScreenPage, KioskScreen!NewPage, KioskScreen!NoCards, KioskScreen!Hello
  <1>4. /\ UNCHANGED <<kioskscreen_players, pending, latest, minute, task, conn, sending, card, resend, run>>
        /\ socket' = [socket EXCEPT ![s] = p]
    BY DEF KioskScreen!PageConnects
  <1> QED
    BY <1>2, <1>4, OnePage

LEMMA ScreenHangs == ASSUME ScreenInv, NEW s \in KioskScreen!Sockets, KioskScreen!PageHangs(s) PROVE ScreenInv'
  <1> DEFINE p == [socket[s] EXCEPT !.stalled = TRUE]
  <1>1. p \in ScreenPage
    BY DEF ScreenInv, ScreenTypes, ScreenPage
  <1>2. KioskScreen!Hangs
    BY DEF KioskScreen!PageHangs
  <1>3. /\ UNCHANGED <<kioskscreen_players, pending, latest, minute, task, conn, sending, card, resend, run>>
        /\ socket' = [socket EXCEPT ![s] = p]
    BY DEF KioskScreen!PageHangs
  <1> QED
    BY <1>1, <1>2, <1>3, OnePage

LEMMA ScreenCloses == ASSUME ScreenInv, NEW s \in KioskScreen!Sockets, KioskScreen!PageCloses(s) PROVE ScreenInv'
  <1> DEFINE p == [socket[s] EXCEPT !.st = "gone"]
  <1>1. p \in ScreenPage /\ p.st = "gone" /\ p.stalled = socket[s].stalled
    BY DEF ScreenInv, ScreenTypes, ScreenPage
  <1>2. ~KioskScreen!Hangs => ~p.stalled /\ \A n \in DOMAIN sending : s \notin sending[n].to
    BY <1>1 DEF ScreenInv, QueueInv, KioskScreen!PageCloses
  <1>4. /\ UNCHANGED <<kioskscreen_players, pending, latest, minute, task, conn, sending, card, resend, run>>
        /\ socket' = [socket EXCEPT ![s] = p]
    BY DEF KioskScreen!PageCloses
  <1> QED
    BY <1>1, <1>2, <1>4, OnePage

(* A card that is broadcast is shown, or held for the next minute. *)
LEMMA CardBroadcast ==
  ASSUME ScreenInv, UNCHANGED <<kioskscreen_players, minute, task, conn, sending, run>>, NEW i \in Played,
         card' \in [Played -> KioskScreen!Cards], resend' \subseteq Played, KioskScreen!Broadcast(i)
  PROVE  ScreenInv'
  <1>1. /\ KioskScreen!Limit' = KioskScreen!Limit /\ KioskScreen!Sockets' = KioskScreen!Sockets
        /\ KioskScreen!Tasks' = KioskScreen!Tasks /\ KioskScreen!Cards' = KioskScreen!Cards
        /\ (KioskScreen!Slow' <=> KioskScreen!Slow) /\ (KioskScreen!Hangs' <=> KioskScreen!Hangs)
        /\ ScreenMsg' = ScreenMsg /\ ScreenTask' = ScreenTask /\ ScreenPage' = ScreenPage
    BY SameLimits
  <1>2. PICK v \in KioskScreen!Cards : v = card'[i]
    OBVIOUS
  <1>3. /\ latest' \in [Played -> KioskScreen!Cards] /\ latest'[i] = v /\ \A j \in Played \ {i} : latest'[j] = latest[j]
        /\ pending' \subseteq Played
    BY <1>2 DEF ScreenInv, ScreenTypes, KioskScreen!Broadcast
  <1>4. \/ KioskScreen!Held(i) /\ pending' = pending \cup {i} /\ UNCHANGED socket
        \/ ~KioskScreen!Held(i) /\ socket' = KioskScreen!ShowCard(i, v) /\ UNCHANGED pending
    BY <1>2 DEF KioskScreen!Broadcast
  <1>5. /\ socket' \in [KioskScreen!Sockets -> ScreenPage] /\ KioskScreen!Active' = KioskScreen!Active
        /\ \A s \in KioskScreen!Sockets : socket'[s].st = socket[s].st /\ socket'[s].stalled = socket[s].stalled
    BY <1>1, <1>4, CardOnPage DEF ScreenInv, ScreenTypes, KioskScreen!Active
  <1>6. ScreenTypes'
    BY <1>1, <1>3, <1>5 DEF ScreenInv, ScreenTypes, KioskScreen!None
  <1>7. AwaitInv' /\ PlayingInv' /\ OrderInv' /\ MinuteInv' /\ RestInv'
    <2>1. ~KioskScreen!Hangs /\ pending' # {} /\ kioskscreen_players = {} => pending # {}
      BY <1>4 DEF KioskScreen!Held
    <2> QED
      BY <2>1, CallsSame
  <1>8. QueueInv'
    BY <1>1, <1>5 DEF ScreenInv, QueueInv
  <1> QED
    BY <1>6, <1>7, <1>8 DEF ScreenInv

LEMMA ScreenSendsCard == ASSUME ScreenInv, NEW i \in Played, KioskScreen!SendsCard(i) PROVE ScreenInv'
  <1>1. card \in [Played -> KioskScreen!Cards] /\ KioskScreen!Limit.cards \in Nat /\ resend \subseteq Played
    BY ScreenConstants DEF ScreenInv, ScreenTypes
  <1>2. card[i] + 1 \in KioskScreen!Cards
    BY <1>1 DEF KioskScreen!SendsCard, KioskScreen!Cards
  <1>3. card' = [card EXCEPT ![i] = card[i] + 1]
    BY DEF KioskScreen!SendsCard
  <1>4. card' \in [Played -> KioskScreen!Cards]
    BY <1>1, <1>2, <1>3
  <1> QED
    BY <1>1, <1>4, CardBroadcast DEF KioskScreen!SendsCard

LEMMA ScreenResendsCard == ASSUME ScreenInv, NEW i \in Played, KioskScreen!ResendsCard(i) PROVE ScreenInv'
  <1>1. /\ UNCHANGED <<kioskscreen_players, minute, task, conn, sending, run, card>> /\ resend' = resend \ {i}
        /\ \/ UNCHANGED <<latest, pending, socket>>
           \/ KioskScreen!Broadcast(i)
    BY DEF KioskScreen!ResendsCard
  <1>2. card' \in [Played -> KioskScreen!Cards] /\ resend' \subseteq Played
    BY <1>1 DEF ScreenInv, ScreenTypes
  <1>3. CASE UNCHANGED <<latest, pending, socket>>
    <2>1. /\ KioskScreen!Limit' = KioskScreen!Limit /\ KioskScreen!Sockets' = KioskScreen!Sockets
          /\ KioskScreen!Tasks' = KioskScreen!Tasks /\ KioskScreen!Cards' = KioskScreen!Cards
          /\ (KioskScreen!Hangs' <=> KioskScreen!Hangs)
          /\ ScreenMsg' = ScreenMsg /\ ScreenTask' = ScreenTask /\ ScreenPage' = ScreenPage
      BY <1>1, SameLimits
    <2>2. ScreenTypes'
      BY <1>1, <1>2, <1>3, <2>1 DEF ScreenInv, ScreenTypes, KioskScreen!None
    <2>3. AwaitInv' /\ PlayingInv' /\ OrderInv' /\ MinuteInv' /\ RestInv'
      BY <1>1, <1>3, CallsSame
    <2>4. QueueInv'
      BY <1>1, <1>3, <2>1 DEF ScreenInv, QueueInv, KioskScreen!Active
    <2> QED
      BY <2>2, <2>3, <2>4 DEF ScreenInv
  <1>4. CASE KioskScreen!Broadcast(i)
    BY <1>1, <1>2, <1>4, CardBroadcast
  <1> QED
    BY <1>1, <1>3, <1>4

LEMMA ScreenReloads == ASSUME ScreenInv, KioskScreen!ReloadModules PROVE ScreenInv'
  <1>1. /\ UNCHANGED <<kioskscreen_players, minute, task, conn, sending, card>> /\ pending' = {}
        /\ run' = [run EXCEPT !.reloads = run.reloads + 1] /\ run.reloads < KioskScreen!Limit.reloads
        /\ latest' = KioskScreen!NoCards /\ resend' = {j \in Played : card[j] # 0}
    BY DEF KioskScreen!ReloadModules
  <1>2. KioskScreen!Limit.reloads \in Nat /\ 0 \in KioskScreen!Cards
    BY ScreenConstants DEF ScreenInv, ScreenTypes, KioskScreen!Cards
  <1>3. /\ run' \in [screen : Screens, reloads : 0..KioskScreen!Limit.reloads,
                     videos : 0..KioskScreen!Limit.videos]
        /\ run'.screen = run.screen
    BY <1>1, <1>2 DEF ScreenInv, ScreenTypes
  <1>4. /\ KioskScreen!Limit' = KioskScreen!Limit /\ KioskScreen!Sockets' = KioskScreen!Sockets
        /\ KioskScreen!Tasks' = KioskScreen!Tasks /\ KioskScreen!Cards' = KioskScreen!Cards
        /\ (KioskScreen!Hangs' <=> KioskScreen!Hangs)
        /\ ScreenMsg' = ScreenMsg /\ ScreenTask' = ScreenTask /\ ScreenPage' = ScreenPage
    BY <1>3, SameLimits
  <1>5. /\ socket' \in [KioskScreen!Sockets -> ScreenPage]
        /\ \A s \in KioskScreen!Sockets : /\ socket'[s].stalled = socket[s].stalled
                                          /\ s \in KioskScreen!Taking => socket'[s].st = "leaves"
                                          /\ s \notin KioskScreen!Taking => socket'[s] = socket[s]
    BY DEF ScreenInv, ScreenTypes, ScreenPage, KioskScreen!ReloadModules
  <1>6. ScreenTypes'
    BY <1>1, <1>2, <1>3, <1>4, <1>5 DEF ScreenInv, ScreenTypes, KioskScreen!None, KioskScreen!NoCards
  <1>7. AwaitInv' /\ PlayingInv' /\ OrderInv' /\ MinuteInv' /\ RestInv'
    BY <1>1, <1>3, CallsSame
  <1>8. KioskScreen!Active' = KioskScreen!Active
    BY <1>4, <1>5 DEF KioskScreen!Active, KioskScreen!Taking
  <1>9. QueueInv'
    BY <1>1, <1>4, <1>5, <1>8 DEF ScreenInv, QueueInv
  <1> QED
    BY <1>6, <1>7, <1>9 DEF ScreenInv

(* A step that changes who plays, and not whether anybody does, or what a connection serves; no call. *)
LEMMA ConnSame ==
  ASSUME ScreenInv, UNCHANGED <<pending, latest, minute, task, socket, sending, card, resend>>, run'.screen = run.screen,
         run' \in [screen : Screens, reloads : 0..KioskScreen!Limit.reloads,
                   videos : 0..KioskScreen!Limit.videos],
         kioskscreen_players' \subseteq Played, kioskscreen_players' = {} <=> kioskscreen_players = {},
         conn' \in [Conns -> ScreenConn],
         \A c \in Conns : conn'[c].pc = conn[c].pc /\ conn'[c].rest = conn[c].rest
                          /\ (conn'[c].st = "stuck" => conn[c].st = "stuck"),
         PlayingInv'
  PROVE  ScreenInv'
  <1>1. /\ KioskScreen!Limit' = KioskScreen!Limit /\ KioskScreen!Sockets' = KioskScreen!Sockets
        /\ KioskScreen!Tasks' = KioskScreen!Tasks /\ KioskScreen!Cards' = KioskScreen!Cards
        /\ (KioskScreen!Slow' <=> KioskScreen!Slow) /\ (KioskScreen!Hangs' <=> KioskScreen!Hangs)
        /\ ScreenMsg' = ScreenMsg /\ ScreenTask' = ScreenTask /\ ScreenPage' = ScreenPage
        /\ KioskScreen!None' = KioskScreen!None
    BY SameLimits DEF KioskScreen!None
  <1>2. ScreenTypes'
    BY <1>1 DEF ScreenInv, ScreenTypes, ScreenConn
  <1>3. \A x : KioskScreen!Waiting(x)' <=> KioskScreen!Waiting(x)
    BY DEF KioskScreen!Waiting
  <1>4. AwaitInv'
    BY <1>1, <1>3 DEF ScreenInv, AwaitInv, OneAwait, GoesOn
  <1>5. OrderInv'
    <2>1. Calls' = Calls /\ \A c \in Calls : conn'[c].pc = conn[c].pc
      BY DEF Calls
    <2>2. \A c, d : Ahead(c, d)' <=> Ahead(c, d)
      BY <1>3 DEF Ahead, Queued
    <2> QED
      BY <2>1, <2>2, OrderKept DEF ScreenInv
  <1>6. MinuteInv'
    BY <1>1 DEF ScreenInv, MinuteInv
  <1>7. RestInv'
    BY <1>1 DEF ScreenInv, RestInv
  <1>8. QueueInv'
    BY <1>1 DEF ScreenInv, QueueInv, KioskScreen!Active
  <1> QED
    BY <1>2, <1>4, <1>5, <1>6, <1>7, <1>8 DEF ScreenInv

LEMMA ScreenConnStarts == ASSUME ScreenInv, NEW c \in Conns, KioskScreen!ConnStarts(c) PROVE ScreenInv'
  <1>1. conn' = [conn EXCEPT ![c].st = "up"] /\ conn[c].st = "new"
    BY DEF KioskScreen!ConnStarts
  <1>2. conn \in [Conns -> ScreenConn] /\ [conn[c] EXCEPT !.st = "up"] \in ScreenConn
    BY DEF ScreenInv, ScreenTypes, ScreenConn
  <1>3. /\ conn' \in [Conns -> ScreenConn]
        /\ \A d \in Conns : conn'[d].pc = conn[d].pc /\ conn'[d].rest = conn[d].rest
        /\ conn'[c].st = "up" /\ \A d \in Conns \ {c} : conn'[d].st = conn[d].st
    BY <1>1, <1>2 DEF ScreenConn
  <1>4. UNCHANGED <<kioskscreen_players, pending, latest, minute, task, socket, sending, card, resend, run>>
    BY DEF KioskScreen!ConnStarts
  <1>5. PlayingInv'
    BY <1>1, <1>3, <1>4 DEF ScreenInv, PlayingInv
  <1> QED
    BY <1>3, <1>4, <1>5, ConnSame DEF ScreenInv, ScreenTypes

LEMMA ScreenConnEnds == ASSUME ScreenInv, NEW c \in Conns, KioskScreen!ConnEnds(c) PROVE ScreenInv'
  <1>1. conn' = [conn EXCEPT ![c].st = "ended"] /\ conn[c].st = "up"
    BY DEF KioskScreen!ConnEnds
  <1>2. conn \in [Conns -> ScreenConn] /\ [conn[c] EXCEPT !.st = "ended"] \in ScreenConn
    BY DEF ScreenInv, ScreenTypes, ScreenConn
  <1>3. /\ conn' \in [Conns -> ScreenConn]
        /\ \A d \in Conns : conn'[d].pc = conn[d].pc /\ conn'[d].rest = conn[d].rest
        /\ conn'[c].st = "ended" /\ \A d \in Conns \ {c} : conn'[d].st = conn[d].st
    BY <1>1, <1>2 DEF ScreenConn
  <1>4. UNCHANGED <<kioskscreen_players, pending, latest, minute, task, socket, sending, card, resend, run>>
    BY DEF KioskScreen!ConnEnds
  <1>5. PlayingInv'
    BY <1>1, <1>3, <1>4 DEF ScreenInv, PlayingInv
  <1> QED
    BY <1>3, <1>4, <1>5, ConnSame DEF ScreenInv, ScreenTypes

(* Where nothing runs, who is in a call waits. *)
LEMMA AllWait == ASSUME ~KioskScreen!Running PROVE \A c \in Conns : ~GoesOn(c)
BY DEF KioskScreen!Running, GoesOn

(* Who plays, after a video of an instance started or stopped. *)
LEMMA WhoPlays ==
  ASSUME ScreenInv, NEW c \in Conns, NEW plays \in BOOLEAN, conn' \in [Conns -> ScreenConn],
         \A d \in Conns \ {c} : conn'[d] = conn[d], plays => conn'[c].st = "up",
         kioskscreen_players' = IF plays THEN kioskscreen_players \cup {InstanceOf[c]}
                                ELSE KioskScreen!Over(InstanceOf[c])
  PROVE  PlayingInv' /\ kioskscreen_players' \subseteq Played
  <1>1. InstanceOf[c] \in Played
    BY ScreenConstants
  <1>2. kioskscreen_players' \subseteq Played
    BY <1>1 DEF ScreenInv, ScreenTypes, KioskScreen!Over
  <1>3. ASSUME NEW i \in kioskscreen_players' PROVE \E d \in Conns : InstanceOf[d] = i /\ conn'[d].st \in {"up", "ended"}
    <2>1. CASE plays /\ i = InstanceOf[c]
      BY <2>1
    <2>2. CASE i # InstanceOf[c]
      <3>1. i \in kioskscreen_players
        BY <1>3, <2>2 DEF KioskScreen!Over
      <3>2. PICK d \in Conns : InstanceOf[d] = i /\ conn[d].st \in {"up", "ended"}
        BY <3>1 DEF ScreenInv, PlayingInv
      <3> QED
        BY <2>2, <3>2
    <2>3. ~plays => i # InstanceOf[c]
      BY <1>3 DEF KioskScreen!Over
    <2> QED
      BY <2>1, <2>2, <2>3
  <1> QED
    BY <1>2, <1>3 DEF PlayingInv

(* Who begins to wait, on a page that doesn't hang, waits for whom those before wait for. *)
LEMMA QueueBehind ==
  ASSUME ScreenTypes, QueueInv, run'.screen = run.screen, NEW x \in Conns \cup KioskScreen!Tasks, KioskScreen!Waits(x),
         KioskScreen!Active' = KioskScreen!Active, \A s \in KioskScreen!Sockets : socket'[s].stalled = socket[s].stalled
  PROVE  QueueInv'
  <1> SUFFICES ASSUME ~KioskScreen!Hangs PROVE QueueInv'
    BY SameLimits DEF QueueInv
  <1> DEFINE m == [by |-> x, to |-> KioskScreen!Active]
  <1>1. m \in ScreenMsg /\ m.to = KioskScreen!Active
    BY DEF ScreenMsg, KioskScreen!Active
  <1>2. sending' = Append(sending, m)
    BY DEF KioskScreen!Waits
  <1> HIDE DEF m
  <1>3. /\ DOMAIN sending = 1..Len(sending) /\ DOMAIN sending' = 1..(Len(sending) + 1) /\ Len(sending) \in Nat
        /\ sending'[Len(sending) + 1] = m /\ \A n \in 1..Len(sending) : sending'[n] = sending[n]
    BY <1>1, <1>2, QueueAppended DEF ScreenTypes
  <1>4. \A s \in KioskScreen!Sockets : ~socket'[s].stalled
    BY DEF QueueInv
  <1>5. \A n \in DOMAIN sending' : sending'[n].to \subseteq KioskScreen!Active
    BY <1>1, <1>3 DEF QueueInv
  <1>6. \A n, k \in DOMAIN sending' : n < k => sending'[n].to \subseteq sending'[k].to
    <2> SUFFICES ASSUME NEW n \in DOMAIN sending', NEW k \in DOMAIN sending', n < k PROVE sending'[n].to \subseteq sending'[k].to
      OBVIOUS
    <2>1. CASE k = Len(sending) + 1
      BY <1>1, <1>3, <1>5, <2>1
    <2>2. CASE k # Len(sending) + 1
      <3>1. n \in 1..Len(sending) /\ k \in 1..Len(sending)
        BY <1>3, <2>2
      <3> QED
        BY <1>3, <3>1 DEF QueueInv
    <2> QED
      BY <2>1, <2>2
  <1> QED
    BY SameLimits, <1>4, <1>5, <1>6 DEF QueueInv

(* A video's start or stop that the page is told. *)
LEMMA ConnTells ==
  ASSUME ScreenInv, ~KioskScreen!Running, ~KioskScreen!Urgent, run'.screen = run.screen,
         run' \in [screen : Screens, reloads : 0..KioskScreen!Limit.reloads,
                   videos : 0..KioskScreen!Limit.videos],
         UNCHANGED <<pending, latest, minute, task, card, resend>>, NEW c \in Conns, conn[c].pc = "idle",
         NEW plays \in BOOLEAN, kioskscreen_players' \subseteq Played, PlayingInv',
         kioskscreen_players' = {} <=> kioskscreen_players # {}, plays <=> kioskscreen_players' # {},
         conn' \in [Conns -> ScreenConn], \A d \in Conns \ {c} : conn'[d] = conn[d],
         conn'[c].pc = (IF plays THEN "start" ELSE "stop"), conn'[c].rest = {}, conn'[c].st # "stuck",
         socket' = KioskScreen!ShowVideo(plays), KioskScreen!Waits(c)
  PROVE  ScreenInv'
  <1>1. /\ KioskScreen!Limit' = KioskScreen!Limit /\ KioskScreen!Sockets' = KioskScreen!Sockets
        /\ KioskScreen!Tasks' = KioskScreen!Tasks /\ KioskScreen!Cards' = KioskScreen!Cards
        /\ (KioskScreen!Slow' <=> KioskScreen!Slow) /\ (KioskScreen!Hangs' <=> KioskScreen!Hangs)
        /\ ScreenMsg' = ScreenMsg /\ ScreenTask' = ScreenTask /\ ScreenPage' = ScreenPage
        /\ KioskScreen!None' = KioskScreen!None
    BY SameLimits DEF KioskScreen!None
  <1>2. ScreenTypes /\ OneAwait
    BY DEF ScreenInv, AwaitInv
  <1>3. /\ socket' \in [KioskScreen!Sockets -> ScreenPage] /\ KioskScreen!Active' = KioskScreen!Active
        /\ \A s \in KioskScreen!Sockets : /\ socket'[s].st = socket[s].st /\ socket'[s].stalled = socket[s].stalled
                                          /\ socket'[s].shown = socket[s].shown
    BY <1>2, VideoOnPage
  <1>4. ~KioskScreen!Waiting(c)
    BY DEF ScreenInv, AwaitInv, KioskScreen!Waiting
  <1>5. /\ sending' \in Seq(ScreenMsg) /\ OneAwait' /\ KioskScreen!Waiting(c)'
        /\ \A y : y # c => (KioskScreen!Waiting(y)' <=> KioskScreen!Waiting(y))
        /\ \A y, z : y # c /\ z # c => (Ahead(y, z)' <=> Ahead(y, z))
        /\ \A y : (y # c => Ahead(y, c)') /\ ~Ahead(c, y)'
    BY <1>2, <1>4, WaitsLast
  <1>6. ScreenTypes'
    BY <1>1, <1>3, <1>5 DEF ScreenInv, ScreenTypes, ScreenConn
  <1>7. Conns \cap KioskScreen!Tasks = {}
    BY ScreenConstants DEF ScreenInv, ScreenTypes
  <1>8. AwaitInv'
    <2>1. ASSUME NEW d \in Conns, KioskScreen!Waiting(d)' PROVE conn'[d].pc # "idle"
      <3>1. KioskScreen!Waiting(d) => conn[d].pc # "idle"
        BY DEF ScreenInv, AwaitInv, KioskScreen!Waiting
      <3> QED
        BY <1>5, <2>1, <3>1
    <2>2. \A d \in Conns : ~GoesOn(d)'
      BY <1>5, AllWait DEF GoesOn
    <2> QED
      BY <1>2, <1>5, <2>1, <2>2, OnlyOneGoesOn
  <1>9. OrderInv'
    <2>1. c \notin Calls /\ Calls' = Calls \cup {c}
      BY DEF Calls
    <2>2. /\ \A d \in Calls : conn'[d].pc = conn[d].pc
          /\ \A d, e \in Calls : Ahead(d, e)' <=> Ahead(d, e)
          /\ \A d \in Calls : Ahead(d, c)'
          /\ \A d \in Calls' : ~Ahead(c, d)'
      BY <1>5, <2>1 DEF Calls
    <2>3. conn'[c].pc = "start" <=> kioskscreen_players' # {}
      OBVIOUS
    <2> QED
      BY <2>1, <2>2, <2>3, OrderBegins DEF ScreenInv
  <1>10. MinuteInv'
    BY <1>1 DEF ScreenInv, MinuteInv
  <1>11. RestInv'
    BY <1>1 DEF ScreenInv, RestInv
  <1>12. QueueInv'
    BY <1>3, QueueBehind DEF ScreenInv
  <1> QED
    BY <1>6, <1>8, <1>9, <1>10, <1>11, <1>12 DEF ScreenInv

(* set_video_playing, of an instance that started or stopped, or of one whose connection was read to its end. *)
LEMMA SetsVideo ==
  ASSUME ScreenInv, ~KioskScreen!Running, ~KioskScreen!Urgent, run'.screen = run.screen,
         run' \in [screen : Screens, reloads : 0..KioskScreen!Limit.reloads,
                   videos : 0..KioskScreen!Limit.videos],
         UNCHANGED <<pending, latest, minute, task, card, resend>>, NEW c \in Conns, conn[c].pc = "idle",
         conn[c].st # "stuck", NEW plays \in BOOLEAN, NEW now \in {"up", "serve"},
         plays => now = "up" /\ conn[c].st = "up", KioskScreen!SetVideoPlaying(c, plays, now)
  PROVE  ScreenInv'
  <1> DEFINE quiet == IF now = "serve" THEN [KioskScreen!NewConn EXCEPT !.st = "done"] ELSE [conn[c] EXCEPT !.plays = plays]
             call == [st |-> now, plays |-> plays, rest |-> {}, pc |-> IF plays THEN "start" ELSE "stop"]
             news == KioskScreen!IsNews(kioskscreen_players, kioskscreen_players')
  <1>1. kioskscreen_players' = IF plays THEN kioskscreen_players \cup {InstanceOf[c]} ELSE KioskScreen!Over(InstanceOf[c])
    BY DEF KioskScreen!SetVideoPlaying
  <1>2. /\ ~news => conn' = [conn EXCEPT ![c] = quiet] /\ UNCHANGED <<socket, sending>>
        /\ news => conn' = [conn EXCEPT ![c] = call] /\ socket' = KioskScreen!ShowVideo(plays) /\ KioskScreen!Waits(c)
    BY DEF KioskScreen!SetVideoPlaying
  <1>3. conn \in [Conns -> ScreenConn] /\ conn[c].rest = {}
    BY DEF ScreenInv, ScreenTypes, RestInv
  <1>4. /\ quiet \in ScreenConn /\ quiet.pc = "idle" /\ quiet.rest = {} /\ (plays => quiet.st = "up")
        /\ quiet.st # "stuck"
    BY <1>3 DEF ScreenConn, KioskScreen!NewConn
  <1>5. /\ call \in ScreenConn /\ call.pc = (IF plays THEN "start" ELSE "stop") /\ call.rest = {}
        /\ call.st # "stuck" /\ (plays => call.st = "up")
    BY DEF ScreenConn
  <1>6. news <=> ((kioskscreen_players # {}) # (kioskscreen_players' # {}))
    BY DEF KioskScreen!IsNews
  <1> HIDE DEF quiet, call, news
  <1>7. CASE ~news
    <2>1. conn' \in [Conns -> ScreenConn] /\ conn'[c] = quiet /\ \A d \in Conns \ {c} : conn'[d] = conn[d]
      BY <1>2, <1>3, <1>4, <1>7
    <2>2. PlayingInv' /\ kioskscreen_players' \subseteq Played
      BY <1>1, <1>4, <2>1, WhoPlays
    <2>3. kioskscreen_players' = {} <=> kioskscreen_players = {}
      BY <1>6, <1>7
    <2>4. \A d \in Conns : conn'[d].pc = conn[d].pc /\ conn'[d].rest = conn[d].rest
                           /\ (conn'[d].st = "stuck" => conn[d].st = "stuck")
      BY <1>3, <1>4, <2>1
    <2> QED
      BY <1>2, <1>7, <2>1, <2>2, <2>3, <2>4, ConnSame
  <1>8. CASE news
    <2>1. conn' \in [Conns -> ScreenConn] /\ conn'[c] = call /\ \A d \in Conns \ {c} : conn'[d] = conn[d]
      BY <1>2, <1>3, <1>5, <1>8
    <2>2. PlayingInv' /\ kioskscreen_players' \subseteq Played
      BY <1>1, <1>5, <2>1, WhoPlays
    <2>3. kioskscreen_players' = {} <=> kioskscreen_players # {}
      BY <1>6, <1>8
    <2>4. plays <=> kioskscreen_players' # {}
      BY <1>1, <2>3 DEF KioskScreen!Over
    <2> QED
      BY <1>2, <1>5, <1>8, <2>1, <2>2, <2>3, <2>4, ConnTells
  <1> QED
    BY <1>7, <1>8

LEMMA ScreenConnPlays ==
  ASSUME ScreenInv, ~KioskScreen!Running, ~KioskScreen!Urgent, NEW c \in Conns, NEW plays \in BOOLEAN,
         KioskScreen!ConnPlays(c, plays)
  PROVE  ScreenInv'
  <1>1. run \in [screen : Screens, reloads : 0..KioskScreen!Limit.reloads,
                 videos : 0..KioskScreen!Limit.videos]
    BY DEF ScreenInv, ScreenTypes
  <1>2. KioskScreen!Limit.videos \in Nat
    BY <1>1, ScreenConstants
  <1>3. \/ run' = run
        \/ run.videos < KioskScreen!Limit.videos /\ run' = [run EXCEPT !.videos = run.videos + 1]
    BY DEF KioskScreen!ConnPlays
  <1>4. run'.screen = run.screen /\ run' \in [screen : Screens, reloads : 0..KioskScreen!Limit.reloads,
                                              videos : 0..KioskScreen!Limit.videos]
    BY <1>1, <1>2, <1>3
  <1>5. /\ UNCHANGED <<pending, latest, minute, task, card, resend>> /\ conn[c].pc = "idle" /\ conn[c].st = "up"
        /\ KioskScreen!SetVideoPlaying(c, plays, "up")
    BY DEF KioskScreen!ConnPlays
  <1> QED
    BY <1>4, <1>5, SetsVideo

LEMMA ScreenServeEnds ==
  ASSUME ScreenInv, ~KioskScreen!Running, ~KioskScreen!Urgent, NEW c \in Conns, KioskScreen!ServeEnds(c)
  PROVE  ScreenInv'
  <1>1. /\ UNCHANGED <<pending, latest, minute, task, card, resend, run>> /\ conn[c].pc = "idle" /\ conn[c].st = "ended"
        /\ KioskScreen!SetVideoPlaying(c, FALSE, "serve")
    BY DEF KioskScreen!ServeEnds
  <1> QED
    BY <1>1, SetsVideo DEF ScreenInv, ScreenTypes

(* A message less, of a page that doesn't hang. *)
LEMMA QueueShorter ==
  ASSUME ScreenTypes, QueueInv, run'.screen = run.screen, NEW n \in DOMAIN sending,
         sending' = KioskScreen!RemoveAt(sending, n),
         ~KioskScreen!Hangs => \A s \in KioskScreen!Sockets : socket'[s].st = socket[s].st /\ socket'[s].stalled = socket[s].stalled
  PROVE  QueueInv'
  <1> SUFFICES ASSUME ~KioskScreen!Hangs PROVE QueueInv'
    BY SameLimits DEF QueueInv
  <1>1. /\ Len(sending) \in Nat \ {0} /\ DOMAIN sending = 1..Len(sending) /\ DOMAIN sending' = 1..(Len(sending) - 1)
        /\ \A m \in 1..(Len(sending) - 1) : sending'[m] = IF m < n THEN sending[m] ELSE sending[m + 1]
    BY QueueRemoved DEF ScreenTypes
  <1>2. ASSUME NEW k \in DOMAIN sending'
        PROVE  \E i \in DOMAIN sending : sending'[k] = sending[i] /\ i = (IF k < n THEN k ELSE k + 1)
    <2>1. (IF k < n THEN k ELSE k + 1) \in 1..Len(sending)
      BY <1>1
    <2> QED
      BY <1>1, <2>1
  <1>3. \A k \in DOMAIN sending' : sending'[k].to \subseteq KioskScreen!Active
    BY <1>2 DEF QueueInv
  <1>4. ASSUME NEW k \in DOMAIN sending', NEW j \in DOMAIN sending', k < j PROVE sending'[k].to \subseteq sending'[j].to
    <2>1. PICK i \in DOMAIN sending : sending'[k] = sending[i] /\ i = (IF k < n THEN k ELSE k + 1)
      BY <1>2
    <2>2. PICK l \in DOMAIN sending : sending'[j] = sending[l] /\ l = (IF j < n THEN j ELSE j + 1)
      BY <1>2
    <2>3. i < l
      BY <1>1, <1>4, <2>1, <2>2
    <2> QED
      BY <2>1, <2>2, <2>3 DEF QueueInv
  <1>5. KioskScreen!Active' = KioskScreen!Active
    BY SameLimits DEF KioskScreen!Active
  <1> QED
    BY <1>3, <1>4, <1>5, SameLimits DEF QueueInv

(* On a page that doesn't hang the message that is through is the first. *)
LEMMA FirstThrough ==
  ASSUME ScreenTypes, QueueInv, ~KioskScreen!Hangs, NEW n \in DOMAIN sending, KioskScreen!Through(n) PROVE n = 1
  <1>1. DOMAIN sending = 1..Len(sending) /\ n \in 1..Len(sending) /\ Len(sending) \in Nat
    BY DEF ScreenTypes
  <1> SUFFICES ASSUME n # 1 PROVE FALSE
    OBVIOUS
  <1>2. 1 \in 1..(n - 1) /\ 1 \in DOMAIN sending /\ 1 < n
    BY <1>1
  <1>3. sending[1].to \cap sending[n].to = {} /\ ~KioskScreen!AtOnce(1)
    BY <1>2 DEF KioskScreen!Through
  <1>4. sending[1].to \subseteq sending[n].to
    BY <1>2 DEF QueueInv
  <1> QED
    BY <1>3, <1>4 DEF KioskScreen!AtOnce

(* A message is through: who sent it goes on. *)
LEMMA ScreenSent ==
  ASSUME ScreenInv, ~KioskScreen!Running, NEW n \in DOMAIN sending, KioskScreen!Sent(n) PROVE ScreenInv'
  <1>0. sending[n] \in ScreenMsg
    BY DEF ScreenInv, ScreenTypes
  <1>1. PICK x \in Conns \cup KioskScreen!Tasks : x = sending[n].by
    BY <1>0 DEF ScreenMsg
  <1>2. /\ UNCHANGED <<kioskscreen_players, pending, latest, minute, task, conn, card, resend, run>>
        /\ sending' = KioskScreen!RemoveAt(sending, n) /\ KioskScreen!Through(n)
    BY DEF KioskScreen!Sent
  <1>3. /\ KioskScreen!Limit' = KioskScreen!Limit /\ KioskScreen!Sockets' = KioskScreen!Sockets
        /\ KioskScreen!Tasks' = KioskScreen!Tasks /\ KioskScreen!Cards' = KioskScreen!Cards
        /\ (KioskScreen!Slow' <=> KioskScreen!Slow) /\ (KioskScreen!Hangs' <=> KioskScreen!Hangs)
        /\ ScreenMsg' = ScreenMsg /\ ScreenTask' = ScreenTask /\ ScreenPage' = ScreenPage
        /\ KioskScreen!None' = KioskScreen!None
    BY <1>2, SameLimits DEF KioskScreen!None
  <1>4. ScreenTypes /\ OneAwait /\ QueueInv
    BY DEF ScreenInv, AwaitInv
  <1>5. /\ sending' \in Seq(ScreenMsg) /\ OneAwait' /\ ~KioskScreen!Waiting(x)'
        /\ \A y : y # x => (KioskScreen!Waiting(y)' <=> KioskScreen!Waiting(y))
        /\ \A y, z : y # x /\ z # x => (Ahead(y, z)' <=> Ahead(y, z))
        /\ n = 1 => \A y : KioskScreen!Waiting(y) /\ y # x => Ahead(x, y) /\ ~Ahead(y, x)
    BY <1>1, <1>2, <1>4, OneLess
  <1>6. socket' \in [KioskScreen!Sockets -> ScreenPage]
    <2>1. ASSUME NEW s \in KioskScreen!Sockets PROVE [socket[s] EXCEPT !.st = "gone"] \in ScreenPage
      <3>1. socket[s] \in ScreenPage
        BY DEF ScreenInv, ScreenTypes
      <3> QED
        BY <3>1 DEF ScreenPage
    <2>2. \A s \in KioskScreen!Sockets : socket[s] \in ScreenPage
      BY DEF ScreenInv, ScreenTypes
    <2> QED
      BY <2>1, <2>2 DEF KioskScreen!Sent
  <1>7. ~KioskScreen!Hangs => UNCHANGED socket
    <2> SUFFICES ASSUME ~KioskScreen!Hangs PROVE socket' = socket
      OBVIOUS
    <2>1. \A s \in KioskScreen!Sockets : ~socket[s].stalled
      BY DEF ScreenInv, QueueInv
    <2>2. socket' = [s \in KioskScreen!Sockets |-> socket[s]]
      BY <2>1 DEF KioskScreen!Sent
    <2> QED
      BY <2>2 DEF ScreenInv, ScreenTypes
  <1>8. ScreenTypes'
    BY <1>2, <1>3, <1>5, <1>6 DEF ScreenInv, ScreenTypes
  <1>9. AwaitInv'
    <2>1. ASSUME NEW d \in Conns, KioskScreen!Waiting(d)' PROVE conn'[d].pc # "idle"
      <3>1. KioskScreen!Waiting(d)
        BY <1>5, <2>1
      <3> QED
        BY <1>2, <3>1 DEF ScreenInv, AwaitInv, KioskScreen!Waiting
    <2>2. \A d \in Conns : GoesOn(d)' => d = x
      BY <1>2, <1>5, AllWait DEF GoesOn
    <2> QED
      BY <1>2, <1>4, <1>5, <2>1, <2>2, OnlyOneGoesOn
  <1>10. PlayingInv' /\ MinuteInv' /\ RestInv'
    BY <1>2, <1>3 DEF ScreenInv, PlayingInv, MinuteInv, RestInv
  <1>11. QueueInv'
    BY <1>2, <1>4, <1>7, QueueShorter
  <1>12. OrderInv'
    <2> SUFFICES ASSUME ~KioskScreen!Hangs PROVE OrderInv'
      BY <1>3 DEF OrderInv
    <2>1. n = 1
      BY <1>2, <1>4, FirstThrough
    <2>2. Calls' = Calls /\ \A c \in Calls : conn'[c].pc = conn[c].pc
      BY <1>2 DEF Calls
    <2>3. ASSUME NEW c \in Calls, NEW d \in Calls PROVE Ahead(c, d)' <=> Ahead(c, d)
      <3>1. KioskScreen!Waiting(c) /\ KioskScreen!Waiting(d)
        BY AllWait DEF Calls, GoesOn
      <3>2. CASE c # x /\ d # x
        BY <1>5, <3>2
      <3>3. CASE c = x /\ d # x
        <4>1. KioskScreen!Waiting(d)'
          BY <1>5, <3>1, <3>3
        <4>2. ~KioskScreen!Waiting(c)'
          BY <1>5, <3>3
        <4>3. Ahead(c, d)'
          BY <4>1, <4>2 DEF Ahead
        <4> QED
          BY <1>5, <2>1, <3>1, <3>3, <4>3
      <3>4. CASE d = x
        <4>1. ~Ahead(c, d)
          BY <1>4, <1>5, <2>1, <3>1, <3>4, WhoIsAhead
        <4>2. ~Ahead(c, d)'
          <5>1. ~KioskScreen!Waiting(d)'
            BY <1>5, <3>4
          <5> QED
            BY <5>1 DEF Ahead, Queued, KioskScreen!Waiting
        <4> QED
          BY <4>1, <4>2
      <3> QED
        BY <3>2, <3>3, <3>4
    <2> QED
      BY <1>2, <1>4, <2>2, <2>3, OrderKept DEF ScreenInv
  <1> QED
    BY <1>8, <1>9, <1>10, <1>11, <1>12 DEF ScreenInv

(* Who goes on is alone. *)
LEMMA RunsAlone ==
  ASSUME ScreenInv
  PROVE  /\ \A c, d \in Conns : conn[c].pc # "idle" /\ ~KioskScreen!Waiting(c) /\ d # c /\ conn[d].pc # "idle"
              => KioskScreen!Waiting(d)
         /\ \A c \in Conns : KioskScreen!Waiting(c) => conn[c].pc # "idle"
BY DEF ScreenInv, AwaitInv, GoesOn, KioskScreen!Waiting

(* The first call is through: nobody is ahead of it, and the next is of the other kind. *)
LEMMA CallThrough ==
  ASSUME ScreenInv, run' = run, NEW c \in Calls, ~KioskScreen!Waiting(c), kioskscreen_players' = kioskscreen_players,
         \A d \in Conns \ {c} : conn'[d] = conn[d], conn'[c].pc \notin {"start", "stop"},
         \A d \in Conns : KioskScreen!Waiting(d)' <=> KioskScreen!Waiting(d),
         \A d, e \in Conns : Ahead(d, e)' <=> Ahead(d, e),
         ~KioskScreen!Hangs => (minute = KioskScreen!None <=> minute' # KioskScreen!None)
  PROVE  OrderInv'
  <1> SUFFICES ASSUME ~KioskScreen!Hangs PROVE OrderInv'
    BY SameLimits DEF OrderInv
  <1>1. Calls' = Calls \ {c} /\ c \in Conns /\ conn[c].pc # "idle"
    BY DEF Calls
  <1>2. \A d \in Calls : ~Ahead(d, c)
    BY WhoIsAhead DEF ScreenInv, AwaitInv
  <1>3. \A d \in Calls' : Ahead(c, d)
    BY <1>1, RunsAlone DEF Ahead, Calls
  <1>4. \A d \in Calls' : conn'[d].pc = conn[d].pc
    BY <1>1 DEF Calls
  <1>5. \A d, e \in Calls' : Ahead(d, e)' <=> Ahead(d, e)
    BY <1>1 DEF Calls
  <1> QED
    BY <1>1, <1>2, <1>3, <1>4, <1>5, OrderGoesOn DEF ScreenInv

(* It is a start just where no task runs. *)
LEMMA CallFits ==
  ASSUME ScreenInv, ~KioskScreen!Hangs, NEW c \in Calls, ~KioskScreen!Waiting(c)
  PROVE  conn[c].pc = "start" <=> minute = KioskScreen!None
  <1>1. \A d \in Calls : ~Ahead(d, c)
    BY WhoIsAhead DEF ScreenInv, AwaitInv
  <1> QED
    BY <1>1 DEF ScreenInv, OrderInv

(* A call that ends, or goes on to send what was held. *)
LEMMA DoneIs == ASSUME ScreenInv, NEW c \in Conns
  PROVE  /\ KioskScreen!Done(c) \in ScreenConn /\ KioskScreen!Done(c).pc = "idle" /\ KioskScreen!Done(c).rest = {}
         /\ KioskScreen!Done(c).st = (IF conn[c].st = "serve" THEN "done" ELSE conn[c].st)
         /\ conn \in [Conns -> ScreenConn]
  <1>1. conn \in [Conns -> ScreenConn]
    BY DEF ScreenInv, ScreenTypes
  <1> QED
    BY <1>1 DEF KioskScreen!Done, ScreenConn

LEMMA ScreenVideoStarted == ASSUME ScreenInv, NEW c \in Conns, KioskScreen!VideoStarted(c) PROVE ScreenInv'
  <1>1. PICK t \in KioskScreen!Tasks : task[t].st = "new" /\ task' = [task EXCEPT ![t].st = "runs"] /\ minute' = t
    BY DEF KioskScreen!VideoStarted
  <1>2. /\ conn[c].pc = "start" /\ ~KioskScreen!Waiting(c) /\ conn' = [conn EXCEPT ![c] = KioskScreen!Done(c)]
        /\ UNCHANGED <<kioskscreen_players, pending, latest, socket, sending, card, resend, run>>
    BY DEF KioskScreen!VideoStarted
  <1>3. /\ KioskScreen!Limit' = KioskScreen!Limit /\ KioskScreen!Sockets' = KioskScreen!Sockets
        /\ KioskScreen!Tasks' = KioskScreen!Tasks /\ KioskScreen!Cards' = KioskScreen!Cards
        /\ (KioskScreen!Slow' <=> KioskScreen!Slow) /\ (KioskScreen!Hangs' <=> KioskScreen!Hangs)
        /\ ScreenMsg' = ScreenMsg /\ ScreenTask' = ScreenTask /\ ScreenPage' = ScreenPage
        /\ KioskScreen!None' = KioskScreen!None
    BY <1>2, SameLimits DEF KioskScreen!None
  <1>4. /\ conn' \in [Conns -> ScreenConn] /\ \A d \in Conns \ {c} : conn'[d] = conn[d]
        /\ conn'[c].pc = "idle" /\ conn'[c].rest = {}
        /\ conn'[c].st = (IF conn[c].st = "serve" THEN "done" ELSE conn[c].st)
    BY <1>2, DoneIs
  <1>5. /\ task' \in [KioskScreen!Tasks -> ScreenTask] /\ task'[t].st = "runs"
        /\ \A u \in KioskScreen!Tasks : task'[u].rest = task[u].rest /\ (u # t => task'[u].st = task[u].st)
    BY <1>1 DEF ScreenInv, ScreenTypes, ScreenTask
  <1>6. \A x : KioskScreen!Waiting(x)' <=> KioskScreen!Waiting(x)
    BY <1>2 DEF KioskScreen!Waiting
  <1>7. ScreenTypes'
    BY <1>1, <1>2, <1>3, <1>4, <1>5 DEF ScreenInv, ScreenTypes
  <1>8. AwaitInv'
    <2>1. OneAwait' /\ \A d \in Conns : KioskScreen!Waiting(d)' => conn'[d].pc # "idle"
      BY <1>2, <1>4, <1>6, RunsAlone DEF ScreenInv, AwaitInv, OneAwait
    <2>2. \A d \in Conns : ~GoesOn(d)'
      BY <1>2, <1>4, <1>6, RunsAlone DEF GoesOn
    <2> QED
      BY <1>2, <2>1, <2>2, OnlyOneGoesOn DEF ScreenInv
  <1>9. PlayingInv'
    BY <1>2, <1>4 DEF ScreenInv, PlayingInv
  <1>10. c \in Calls
    BY <1>2 DEF Calls
  <1>11. ~KioskScreen!Hangs => minute = KioskScreen!None /\ minute' # KioskScreen!None
    BY <1>1, <1>2, <1>10, CallFits, ScreenConstants DEF ScreenInv, ScreenTypes
  <1>12. OrderInv'
    <2>1. \A d, e \in Conns : Ahead(d, e)' <=> Ahead(d, e)
      BY <1>2, <1>6 DEF Ahead, Queued
    <2> QED
      BY <1>2, <1>4, <1>6, <1>10, <1>11, <2>1, CallThrough
  <1>13. MinuteInv'
    <2> SUFFICES ASSUME ~KioskScreen!Hangs PROVE MinuteInv'
      BY <1>3 DEF MinuteInv
    <2>1. \A u \in KioskScreen!Tasks : task'[u].st = "runs" <=> u = minute'
      BY <1>1, <1>5, <1>11, ScreenConstants DEF ScreenInv, ScreenTypes, MinuteInv
    <2>2. \A d \in Conns : conn'[d].st # "stuck"
      BY <1>4 DEF ScreenInv, MinuteInv
    <2> QED
      BY <1>3, <2>1, <2>2 DEF MinuteInv
  <1>14. RestInv'
    BY <1>2, <1>3, <1>4, <1>5 DEF ScreenInv, RestInv
  <1>15. QueueInv'
    BY <1>2, <1>3 DEF ScreenInv, QueueInv, KioskScreen!Active
  <1> QED
    BY <1>7, <1>8, <1>9, <1>12, <1>13, <1>14, <1>15 DEF ScreenInv

LEMMA ScreenVideoStopFails == ASSUME ScreenInv, NEW c \in Conns, KioskScreen!VideoStopFails(c) PROVE ScreenInv'
  <1> DEFINE over == [KioskScreen!Done(c) EXCEPT !.st = IF conn[c].st = "serve" THEN "stuck" ELSE KioskScreen!Done(c).st]
  <1>1. /\ conn[c].pc = "stop" /\ ~KioskScreen!Waiting(c) /\ minute = KioskScreen!None
        /\ conn' = [conn EXCEPT ![c] = over]
        /\ UNCHANGED <<kioskscreen_players, pending, latest, minute, task, socket, sending, card, resend, run>>
    BY DEF KioskScreen!VideoStopFails
  <1>2. KioskScreen!Hangs
    BY <1>1, CallFits DEF Calls
  <1>3. /\ KioskScreen!Limit' = KioskScreen!Limit /\ KioskScreen!Sockets' = KioskScreen!Sockets
        /\ KioskScreen!Tasks' = KioskScreen!Tasks /\ KioskScreen!Cards' = KioskScreen!Cards
        /\ (KioskScreen!Slow' <=> KioskScreen!Slow) /\ (KioskScreen!Hangs' <=> KioskScreen!Hangs)
        /\ ScreenMsg' = ScreenMsg /\ ScreenTask' = ScreenTask /\ ScreenPage' = ScreenPage
        /\ KioskScreen!None' = KioskScreen!None
    BY <1>1, SameLimits DEF KioskScreen!None
  <1>4. /\ over \in ScreenConn /\ over.pc = "idle" /\ over.rest = {}
        /\ over.st = (IF conn[c].st = "serve" THEN "stuck" ELSE conn[c].st)
    BY DoneIs DEF ScreenConn
  <1> HIDE DEF over
  <1>5. /\ conn' \in [Conns -> ScreenConn] /\ \A d \in Conns \ {c} : conn'[d] = conn[d]
        /\ conn'[c].pc = "idle" /\ conn'[c].rest = {}
        /\ conn'[c].st = (IF conn[c].st = "serve" THEN "stuck" ELSE conn[c].st)
    BY <1>1, <1>4 DEF ScreenInv, ScreenTypes
  <1>6. \A x : KioskScreen!Waiting(x)' <=> KioskScreen!Waiting(x)
    BY <1>1 DEF KioskScreen!Waiting
  <1>7. ScreenTypes'
    BY <1>1, <1>3, <1>5 DEF ScreenInv, ScreenTypes
  <1>8. AwaitInv'
    <2>1. OneAwait' /\ \A d \in Conns : KioskScreen!Waiting(d)' => conn'[d].pc # "idle"
      BY <1>1, <1>5, <1>6, RunsAlone DEF ScreenInv, AwaitInv, OneAwait
    <2>2. \A d \in Conns : ~GoesOn(d)'
      BY <1>1, <1>5, <1>6, RunsAlone DEF GoesOn
    <2> QED
      BY <1>1, <2>1, <2>2, OnlyOneGoesOn DEF ScreenInv
  <1>9. PlayingInv'
    BY <1>1, <1>5 DEF ScreenInv, PlayingInv
  <1>10. OrderInv' /\ MinuteInv' /\ QueueInv'
    BY <1>2, <1>3 DEF OrderInv, MinuteInv, QueueInv
  <1>11. RestInv'
    BY <1>1, <1>2, <1>3, <1>5 DEF ScreenInv, RestInv
  <1> QED
    BY <1>7, <1>8, <1>9, <1>10, <1>11 DEF ScreenInv

(* What a page misses with a cancelled round. *)
LEMMA RoundLost == ASSUME ScreenInv, NEW c \in Conns, NEW t \in KioskScreen!Tasks, t = minute, KioskScreen!VideoStopped(c)
  PROVE  /\ socket' \in [KioskScreen!Sockets -> ScreenPage]
         /\ \A s \in KioskScreen!Sockets :
              /\ socket'[s].st = socket[s].st /\ socket'[s].stalled = socket[s].stalled /\ socket'[s].todo = socket[s].todo
              /\ socket'[s].shown = socket[s].shown /\ socket'[s].lost = socket[s].lost \cup task[t].rest
  <1>1. socket \in [KioskScreen!Sockets -> ScreenPage] /\ task[t].rest \subseteq Played
    BY DEF ScreenInv, ScreenTypes, ScreenTask
  <1>2. socket' = [s \in KioskScreen!Sockets |-> [socket[s] EXCEPT !.lost = socket[s].lost \cup task[t].rest]]
    BY DEF KioskScreen!VideoStopped
  <1>3. ASSUME NEW s \in KioskScreen!Sockets
        PROVE  LET p == [socket[s] EXCEPT !.lost = socket[s].lost \cup task[t].rest] IN
               /\ p \in ScreenPage /\ p.st = socket[s].st /\ p.stalled = socket[s].stalled /\ p.todo = socket[s].todo
               /\ p.shown = socket[s].shown /\ p.lost = socket[s].lost \cup task[t].rest
    <2>1. socket[s] \in ScreenPage
      BY <1>1
    <2> QED
      BY <1>1, <2>1 DEF ScreenPage
  <1> QED
    BY <1>2, <1>3

LEMMA ScreenVideoStopped == ASSUME ScreenInv, NEW c \in Conns, KioskScreen!VideoStopped(c) PROVE ScreenInv'
  <1>1. /\ conn[c].pc = "stop" /\ ~KioskScreen!Waiting(c) /\ minute # KioskScreen!None /\ minute' = KioskScreen!None
        /\ task' = [task EXCEPT ![minute] = KioskScreen!Cancelled] /\ pending' = {}
        /\ conn' = [conn EXCEPT ![c].pc = "pend", ![c].rest = pending]
        /\ UNCHANGED <<kioskscreen_players, latest, card, resend, run>>
    BY DEF KioskScreen!VideoStopped, KioskScreen!Released
  <1>2. PICK t \in KioskScreen!Tasks : t = minute
    BY <1>1 DEF ScreenInv, ScreenTypes
  <1>3. /\ KioskScreen!Limit' = KioskScreen!Limit /\ KioskScreen!Sockets' = KioskScreen!Sockets
        /\ KioskScreen!Tasks' = KioskScreen!Tasks /\ KioskScreen!Cards' = KioskScreen!Cards
        /\ (KioskScreen!Slow' <=> KioskScreen!Slow) /\ (KioskScreen!Hangs' <=> KioskScreen!Hangs)
        /\ ScreenMsg' = ScreenMsg /\ ScreenTask' = ScreenTask /\ ScreenPage' = ScreenPage
        /\ KioskScreen!None' = KioskScreen!None
    BY <1>1, SameLimits DEF KioskScreen!None
  <1>4. /\ conn' \in [Conns -> ScreenConn] /\ \A d \in Conns \ {c} : conn'[d] = conn[d]
        /\ conn'[c].pc = "pend" /\ conn'[c].rest = pending /\ conn'[c].st = conn[c].st
    BY <1>1 DEF ScreenInv, ScreenTypes, ScreenConn
  <1>5. /\ task' \in [KioskScreen!Tasks -> ScreenTask] /\ task'[t].st = "over" /\ task'[t].rest = {}
        /\ \A u \in KioskScreen!Tasks \ {t} : task'[u] = task[u]
    BY <1>1, <1>2 DEF ScreenInv, ScreenTypes, ScreenTask, KioskScreen!Cancelled
  <1>15. /\ socket' \in [KioskScreen!Sockets -> ScreenPage]
         /\ \A s \in KioskScreen!Sockets : socket'[s].st = socket[s].st /\ socket'[s].stalled = socket[s].stalled
    BY <1>2, RoundLost
  <1>6. Conns \cap KioskScreen!Tasks = {} /\ t # KioskScreen!None /\ ScreenTypes /\ OneAwait /\ QueueInv
    BY <1>2, ScreenConstants DEF ScreenInv, ScreenTypes, AwaitInv
  <1>7. /\ sending' \in Seq(ScreenMsg) /\ OneAwait' /\ QueueInv'
        /\ \A y : y # t => (KioskScreen!Waiting(y)' <=> KioskScreen!Waiting(y))
        /\ \A y : KioskScreen!Waiting(y)' => KioskScreen!Waiting(y)
        /\ \A y, z : y # t /\ z # t => (Ahead(y, z)' <=> Ahead(y, z))
    <2>1. CASE KioskScreen!Waiting(t)
      <3>1. PICK n \in DOMAIN sending : t = sending[n].by /\ sending' = KioskScreen!RemoveAt(sending, n)
        BY <1>2, <2>1 DEF KioskScreen!VideoStopped
      <3>2. QueueInv'
        BY <1>1, <1>6, <1>15, <3>1, QueueShorter
      <3> QED
        BY <1>6, <2>1, <3>1, <3>2, OneLess
    <2>2. CASE ~KioskScreen!Waiting(t)
      <3>1. sending' = sending
        BY <1>2, <2>2 DEF KioskScreen!VideoStopped
      <3>2. \A y : KioskScreen!Waiting(y)' <=> KioskScreen!Waiting(y)
        BY <3>1 DEF KioskScreen!Waiting
      <3>3. \A y, z : Ahead(y, z)' <=> Ahead(y, z)
        BY <3>1, <3>2 DEF Ahead, Queued
      <3>4. QueueInv' /\ OneAwait'
        BY <1>1, <1>3, <1>6, <1>15, <3>1 DEF QueueInv, OneAwait, KioskScreen!Active
      <3> QED
        BY <1>6, <3>1, <3>2, <3>3, <3>4 DEF ScreenTypes
    <2> QED
      BY <2>1, <2>2
  <1>8. ScreenTypes'
    BY <1>1, <1>3, <1>4, <1>5, <1>7, <1>15 DEF ScreenInv, ScreenTypes
  <1>9. AwaitInv'
    <2>1. \A d \in Conns : KioskScreen!Waiting(d)' => conn'[d].pc # "idle"
      BY <1>4, <1>7, RunsAlone
    <2>2. \A d \in Conns : GoesOn(d)' => d = c
      BY <1>1, <1>4, <1>6, <1>7, RunsAlone DEF GoesOn
    <2> QED
      BY <1>1, <1>6, <1>7, <2>1, <2>2, OnlyOneGoesOn
  <1>10. PlayingInv'
    BY <1>1, <1>4 DEF ScreenInv, PlayingInv
  <1>11. OrderInv'
    <2>1. /\ \A d \in Conns : KioskScreen!Waiting(d)' <=> KioskScreen!Waiting(d)
          /\ \A d, e \in Conns : Ahead(d, e)' <=> Ahead(d, e)
      BY <1>6, <1>7
    <2>2. c \in Calls
      BY <1>1 DEF Calls
    <2> QED
      BY <1>1, <1>4, <2>1, <2>2, CallThrough
  <1>12. MinuteInv'
    <2> SUFFICES ASSUME ~KioskScreen!Hangs PROVE MinuteInv'
      BY <1>3 DEF MinuteInv
    <2>1. \A u \in KioskScreen!Tasks : task'[u].st = "runs" <=> u = minute'
      BY <1>1, <1>2, <1>5, ScreenConstants DEF ScreenInv, ScreenTypes, MinuteInv
    <2>2. \A d \in Conns : conn'[d].st # "stuck"
      BY <1>4 DEF ScreenInv, MinuteInv
    <2> QED
      BY <1>3, <2>1, <2>2 DEF MinuteInv
  <1>13. RestInv'
    BY <1>1, <1>3, <1>4, <1>5 DEF ScreenInv, RestInv
  <1> QED
    BY <1>7, <1>8, <1>9, <1>10, <1>11, <1>12, <1>13 DEF ScreenInv

(* The latest card of one that was held goes out, if it was kept. *)
LEMMA LatestGoesOut ==
  ASSUME ScreenInv, run' = run, NEW x \in Conns \cup KioskScreen!Tasks, ~KioskScreen!Waiting(x), NEW i \in Played,
         KioskScreen!SendsLatest(x, i)
  PROVE  /\ sending' \in Seq(ScreenMsg) /\ OneAwait' /\ QueueInv'
         /\ \A y : y # x => (KioskScreen!Waiting(y)' <=> KioskScreen!Waiting(y))
         /\ \A y, z : y # x /\ z # x => (Ahead(y, z)' <=> Ahead(y, z))
         /\ socket' \in [KioskScreen!Sockets -> ScreenPage]
  <1>1. ScreenTypes /\ OneAwait /\ QueueInv /\ latest[i] \in KioskScreen!Cards
    BY DEF ScreenInv, ScreenTypes, AwaitInv
  <1>2. CASE latest[i] = 0
    <2>1. UNCHANGED <<socket, sending>>
      BY <1>2 DEF KioskScreen!SendsLatest
    <2>2. \A y : KioskScreen!Waiting(y)' <=> KioskScreen!Waiting(y)
      BY <2>1 DEF KioskScreen!Waiting
    <2>3. \A y, z : Ahead(y, z)' <=> Ahead(y, z)
      BY <2>1, <2>2 DEF Ahead, Queued
    <2>4. QueueInv' /\ OneAwait'
      BY <1>1, <2>1, SameLimits DEF QueueInv, OneAwait, KioskScreen!Active
    <2>5. sending' \in Seq(ScreenMsg) /\ socket' \in [KioskScreen!Sockets -> ScreenPage]
      BY <1>1, <2>1 DEF ScreenTypes
    <2> QED
      BY <2>2, <2>3, <2>4, <2>5
  <1>3. CASE latest[i] # 0
    <2>1. socket' = KioskScreen!ShowCard(i, latest[i]) /\ KioskScreen!Waits(x)
      BY <1>3 DEF KioskScreen!SendsLatest
    <2>2. /\ socket' \in [KioskScreen!Sockets -> ScreenPage] /\ KioskScreen!Active' = KioskScreen!Active
          /\ \A s \in KioskScreen!Sockets :
               /\ socket'[s].st = socket[s].st /\ socket'[s].stalled = socket[s].stalled
               /\ \A j \in Played \ {i} : socket'[s].shown[j] = socket[s].shown[j]
               /\ socket'[s].shown[i] = IF s \in KioskScreen!Taking THEN latest[i] ELSE socket[s].shown[i]
      BY <1>1, <2>1, CardOnPage
    <2>3. QueueInv'
      BY <1>1, <2>1, <2>2, QueueBehind
    <2>5. /\ sending' \in Seq(ScreenMsg) /\ OneAwait'
          /\ \A y : y # x => (KioskScreen!Waiting(y)' <=> KioskScreen!Waiting(y))
          /\ \A y, z : y # x /\ z # x => (Ahead(y, z)' <=> Ahead(y, z))
      BY <1>1, <2>1, WaitsLast
    <2> QED
      BY <2>2, <2>3, <2>5
  <1> QED
    BY <1>2, <1>3

LEMMA ScreenSendsPending == ASSUME ScreenInv, NEW c \in Conns, KioskScreen!VideoSendsPending(c) PROVE ScreenInv'
  <1>1. /\ conn[c].pc = "pend" /\ ~KioskScreen!Waiting(c) /\ conn \in [Conns -> ScreenConn]
        /\ UNCHANGED <<kioskscreen_players, pending, latest, minute, task, card, resend, run>>
    BY DEF KioskScreen!VideoSendsPending, ScreenInv, ScreenTypes
  <1>2. /\ KioskScreen!Limit' = KioskScreen!Limit /\ KioskScreen!Sockets' = KioskScreen!Sockets
        /\ KioskScreen!Tasks' = KioskScreen!Tasks /\ KioskScreen!Cards' = KioskScreen!Cards
        /\ (KioskScreen!Slow' <=> KioskScreen!Slow) /\ (KioskScreen!Hangs' <=> KioskScreen!Hangs)
        /\ ScreenMsg' = ScreenMsg /\ ScreenTask' = ScreenTask /\ ScreenPage' = ScreenPage
        /\ KioskScreen!None' = KioskScreen!None
    BY <1>1, SameLimits DEF KioskScreen!None
  <1>3. PICK sent \in SUBSET Played :
          /\ conn' \in [Conns -> ScreenConn] /\ \A d \in Conns \ {c} : conn'[d] = conn[d]
          /\ conn'[c].pc \in {"pend", "idle"} /\ conn'[c].rest = conn[c].rest \ sent
          /\ conn'[c].pc = "idle" => conn'[c].rest = {} /\ UNCHANGED sending
          /\ conn[c].st \in {"up", "ended"} => conn'[c].st = conn[c].st
          /\ conn'[c].st = "stuck" => conn[c].st = "stuck"
          /\ sending' \in Seq(ScreenMsg) /\ OneAwait' /\ QueueInv'
          /\ \A y : y # c => (KioskScreen!Waiting(y)' <=> KioskScreen!Waiting(y))
          /\ \A y, z : y # c /\ z # c => (Ahead(y, z)' <=> Ahead(y, z))
          /\ socket' \in [KioskScreen!Sockets -> ScreenPage]
    <2>1. CASE conn[c].rest = {}
      <3>1. conn' = [conn EXCEPT ![c] = KioskScreen!Done(c)] /\ UNCHANGED <<socket, sending>>
        BY <2>1 DEF KioskScreen!VideoSendsPending
      <3>2. \A y : KioskScreen!Waiting(y)' <=> KioskScreen!Waiting(y)
        BY <3>1 DEF KioskScreen!Waiting
      <3>3. \A y, z : Ahead(y, z)' <=> Ahead(y, z)
        BY <3>1, <3>2 DEF Ahead, Queued
      <3>4. QueueInv' /\ OneAwait'
        BY <1>2, <3>1 DEF ScreenInv, AwaitInv, QueueInv, OneAwait, KioskScreen!Active
      <3>5. /\ conn' \in [Conns -> ScreenConn] /\ \A d \in Conns \ {c} : conn'[d] = conn[d]
            /\ conn'[c].pc = "idle" /\ conn'[c].rest = {}
            /\ conn'[c].st = (IF conn[c].st = "serve" THEN "done" ELSE conn[c].st)
        BY <1>1, <3>1, DoneIs
      <3>6. {} \in SUBSET Played /\ conn'[c].rest = conn[c].rest \ {}
        BY <2>1, <3>5
      <3>7. sending' \in Seq(ScreenMsg) /\ socket' \in [KioskScreen!Sockets -> ScreenPage]
        BY <3>1 DEF ScreenInv, ScreenTypes
      <3> QED
        BY <3>1, <3>2, <3>3, <3>4, <3>5, <3>6, <3>7
    <2>2. CASE conn[c].rest # {}
      <3>1. PICK i \in conn[c].rest : conn' = [conn EXCEPT ![c].rest = conn[c].rest \ {i}] /\ KioskScreen!SendsLatest(c, i)
        BY <2>2 DEF KioskScreen!VideoSendsPending
      <3>2. i \in Played
        BY <1>1 DEF ScreenConn
      <3>3. /\ conn' \in [Conns -> ScreenConn] /\ \A d \in Conns \ {c} : conn'[d] = conn[d]
            /\ conn'[c].pc = "pend" /\ conn'[c].rest = conn[c].rest \ {i} /\ conn'[c].st = conn[c].st
        BY <1>1, <3>1 DEF ScreenConn
      <3>4. /\ sending' \in Seq(ScreenMsg) /\ OneAwait' /\ QueueInv'
            /\ \A y : y # c => (KioskScreen!Waiting(y)' <=> KioskScreen!Waiting(y))
            /\ \A y, z : y # c /\ z # c => (Ahead(y, z)' <=> Ahead(y, z))
            /\ socket' \in [KioskScreen!Sockets -> ScreenPage]
        BY <1>1, <3>1, <3>2, LatestGoesOut
      <3>5. {i} \in SUBSET Played
        BY <3>2
      <3> QED
        BY <3>3, <3>4, <3>5
    <2> QED
      BY <2>1, <2>2
  <1>4. ScreenTypes'
    BY <1>1, <1>2, <1>3 DEF ScreenInv, ScreenTypes
  <1>5. AwaitInv'
    <2>1. ASSUME NEW d \in Conns, KioskScreen!Waiting(d)' PROVE conn'[d].pc # "idle"
      <3>1. CASE d = c
        <4>1. ~UNCHANGED sending
          BY <1>1, <2>1, <3>1 DEF KioskScreen!Waiting
        <4> QED
          BY <1>3, <3>1, <4>1
      <3>2. CASE d # c
        BY <1>3, <2>1, <3>2, RunsAlone
      <3> QED
        BY <3>1, <3>2
    <2>2. \A d \in Conns : GoesOn(d)' => d = c
      BY <1>1, <1>3, RunsAlone DEF GoesOn
    <2>3. Conns \cap KioskScreen!Tasks = {}
      BY ScreenConstants DEF ScreenInv, ScreenTypes
    <2> QED
      BY <1>1, <1>3, <2>1, <2>2, OnlyOneGoesOn DEF ScreenInv
  <1>6. PlayingInv' /\ MinuteInv'
    BY <1>1, <1>2, <1>3 DEF ScreenInv, PlayingInv, MinuteInv
  <1>7. OrderInv'
    <2>1. Calls' = Calls /\ c \notin Calls
      BY <1>1, <1>3 DEF Calls
    <2>2. \A d \in Calls : conn'[d].pc = conn[d].pc
      BY <1>3, <2>1 DEF Calls
    <2>3. \A d, e \in Calls : Ahead(d, e)' <=> Ahead(d, e)
      BY <1>3, <2>1
    <2> QED
      BY <1>1, <2>1, <2>2, <2>3, OrderKept DEF ScreenInv, KioskScreen!None
  <1>8. RestInv'
    BY <1>1, <1>2, <1>3 DEF ScreenInv, RestInv
  <1> QED
    BY <1>3, <1>4, <1>5, <1>6, <1>7, <1>8 DEF ScreenInv

LEMMA ScreenMinuteSends ==
  ASSUME ScreenInv, ~KioskScreen!Running, NEW t \in KioskScreen!Tasks, KioskScreen!MinuteSends(t) PROVE ScreenInv'
  <1>1. /\ task[t].st = "runs" /\ ~KioskScreen!Waiting(t)
        /\ UNCHANGED <<kioskscreen_players, pending, latest, minute, conn, card, resend, run>>
    BY DEF KioskScreen!MinuteSends
  <1>2. /\ KioskScreen!Limit' = KioskScreen!Limit /\ KioskScreen!Sockets' = KioskScreen!Sockets
        /\ KioskScreen!Tasks' = KioskScreen!Tasks /\ KioskScreen!Cards' = KioskScreen!Cards
        /\ (KioskScreen!Slow' <=> KioskScreen!Slow) /\ (KioskScreen!Hangs' <=> KioskScreen!Hangs)
        /\ ScreenMsg' = ScreenMsg /\ ScreenTask' = ScreenTask /\ ScreenPage' = ScreenPage
        /\ KioskScreen!None' = KioskScreen!None
    BY <1>1, SameLimits DEF KioskScreen!None
  <1>3. PICK i \in task[t].rest :
          /\ task' = [task EXCEPT ![t].rest = task[t].rest \ {i},
                                  ![t].st = IF task[t].rest = {i} THEN "runs" ELSE task[t].st]
          /\ KioskScreen!SendsLatest(t, i)
    BY DEF KioskScreen!MinuteSends, KioskScreen!NextMinute
  <1>4. task \in [KioskScreen!Tasks -> ScreenTask] /\ i \in Played
    BY DEF ScreenInv, ScreenTypes, ScreenTask
  <1>5. /\ task' \in [KioskScreen!Tasks -> ScreenTask] /\ task'[t].st = "runs" /\ task'[t].rest = task[t].rest \ {i}
        /\ \A u \in KioskScreen!Tasks \ {t} : task'[u] = task[u]
    <2>1. task' = [task EXCEPT ![t] = [task[t] EXCEPT !.rest = task[t].rest \ {i}, !.st = "runs"]]
      BY <1>1, <1>3, <1>4 DEF ScreenTask
    <2>2. [task[t] EXCEPT !.rest = task[t].rest \ {i}, !.st = "runs"] \in ScreenTask
      BY <1>4 DEF ScreenTask
    <2> QED
      BY <1>4, <2>1, <2>2 DEF ScreenTask
  <1>6. /\ sending' \in Seq(ScreenMsg) /\ OneAwait' /\ QueueInv'
        /\ \A y : y # t => (KioskScreen!Waiting(y)' <=> KioskScreen!Waiting(y))
        /\ \A y, z : y # t /\ z # t => (Ahead(y, z)' <=> Ahead(y, z))
        /\ socket' \in [KioskScreen!Sockets -> ScreenPage]
    BY <1>1, <1>3, <1>4, LatestGoesOut
  <1>7. Conns \cap KioskScreen!Tasks = {} /\ \A c \in Conns : c # t
    BY ScreenConstants DEF ScreenInv, ScreenTypes
  <1>9. ScreenTypes'
    BY <1>1, <1>2, <1>5, <1>6 DEF ScreenInv, ScreenTypes
  <1>10. AwaitInv'
    <2>1. \A d \in Conns : KioskScreen!Waiting(d)' => conn'[d].pc # "idle"
      BY <1>1, <1>6, <1>7, RunsAlone
    <2>2. \A d \in Conns : ~GoesOn(d)'
      BY <1>1, <1>6, <1>7, AllWait DEF GoesOn
    <2> QED
      BY <1>1, <1>6, <2>1, <2>2, OnlyOneGoesOn DEF ScreenInv
  <1>11. PlayingInv'
    BY <1>1 DEF ScreenInv, PlayingInv
  <1>12. MinuteInv' /\ RestInv'
    BY <1>1, <1>2, <1>5 DEF ScreenInv, MinuteInv, RestInv
  <1>13. OrderInv'
    <2>1. Calls' = Calls /\ \A d \in Calls : conn'[d].pc = conn[d].pc
      BY <1>1 DEF Calls
    <2>2. \A d, e \in Calls : Ahead(d, e)' <=> Ahead(d, e)
      BY <1>6, <1>7 DEF Calls
    <2> QED
      BY <1>1, <2>1, <2>2, OrderKept DEF ScreenInv, KioskScreen!None
  <1> QED
    BY <1>6, <1>9, <1>10, <1>11, <1>12, <1>13 DEF ScreenInv

LEMMA ScreenMinutePasses ==
  ASSUME ScreenInv, ~KioskScreen!Running, ~KioskScreen!Urgent, NEW t \in KioskScreen!Tasks, KioskScreen!MinutePasses(t)
  PROVE  ScreenInv'
  <1>1. /\ task[t].st = "runs" /\ ~KioskScreen!Waiting(t) /\ task' = [task EXCEPT ![t].rest = pending] /\ pending' = {}
        /\ UNCHANGED <<kioskscreen_players, latest, minute, socket, conn, sending, card, resend, run>>
    BY DEF KioskScreen!MinutePasses
  <1>2. /\ KioskScreen!Limit' = KioskScreen!Limit /\ KioskScreen!Sockets' = KioskScreen!Sockets
        /\ KioskScreen!Tasks' = KioskScreen!Tasks /\ KioskScreen!Cards' = KioskScreen!Cards
        /\ (KioskScreen!Slow' <=> KioskScreen!Slow) /\ (KioskScreen!Hangs' <=> KioskScreen!Hangs)
        /\ ScreenMsg' = ScreenMsg /\ ScreenTask' = ScreenTask /\ ScreenPage' = ScreenPage
        /\ KioskScreen!None' = KioskScreen!None
    BY <1>1, SameLimits DEF KioskScreen!None
  <1>3. /\ task' \in [KioskScreen!Tasks -> ScreenTask] /\ task'[t].st = "runs" /\ task'[t].rest = pending
        /\ \A u \in KioskScreen!Tasks \ {t} : task'[u] = task[u]
    BY <1>1 DEF ScreenInv, ScreenTypes, ScreenTask
  <1>4. \A x : KioskScreen!Waiting(x)' <=> KioskScreen!Waiting(x)
    BY <1>1 DEF KioskScreen!Waiting
  <1>5. ScreenTypes'
    BY <1>1, <1>2, <1>3 DEF ScreenInv, ScreenTypes
  <1>6. AwaitInv'
    <2>1. OneAwait' /\ \A d \in Conns : KioskScreen!Waiting(d)' => conn'[d].pc # "idle"
      BY <1>1, <1>4, RunsAlone DEF ScreenInv, AwaitInv, OneAwait
    <2>2. \A d \in Conns : ~GoesOn(d)'
      BY <1>1, <1>4, AllWait DEF GoesOn
    <2> QED
      BY <1>1, <2>1, <2>2, OnlyOneGoesOn DEF ScreenInv
  <1>7. PlayingInv' /\ MinuteInv' /\ RestInv'
    BY <1>1, <1>2, <1>3 DEF ScreenInv, PlayingInv, MinuteInv, RestInv
  <1>8. OrderInv'
    <2>1. Calls' = Calls /\ \A d \in Calls : conn'[d].pc = conn[d].pc
      BY <1>1 DEF Calls
    <2>2. \A d, e : Ahead(d, e)' <=> Ahead(d, e)
      BY <1>1, <1>4 DEF Ahead, Queued
    <2> QED
      BY <1>1, <2>1, <2>2, OrderKept DEF ScreenInv, KioskScreen!None
  <1>9. QueueInv'
    BY <1>1, <1>2 DEF ScreenInv, QueueInv, KioskScreen!Active
  <1> QED
    BY <1>5, <1>6, <1>7, <1>8, <1>9 DEF ScreenInv

LEMMA ScreenInit == ASSUME KioskScreen!Init PROVE ScreenInv
  <1>1. run \in [screen : Screens, reloads : {0}, videos : {0}]
    BY DEF KioskScreen!Init
  <1>2. KioskScreen!Limit \in [kind : KioskScreen!Kinds, cards : Nat, sockets : Nat \ {0}, reloads : Nat, videos : Nat, conns : SUBSET Conns]
    BY <1>1, ScreenAssumption DEF KioskScreen!KioskScreenAssumption, KioskScreen!Limit
  <1>3. run \in [screen : Screens, reloads : 0..KioskScreen!Limit.reloads, videos : 0..KioskScreen!Limit.videos]
    <2>1. 0 \in 0..KioskScreen!Limit.reloads /\ 0 \in 0..KioskScreen!Limit.videos
      BY <1>2
    <2> QED
      BY <1>1, <2>1
  <1>4. /\ kioskscreen_players = {} /\ pending = {} /\ resend = {} /\ latest = KioskScreen!NoCards /\ card = KioskScreen!NoCards
        /\ minute = KioskScreen!None /\ task = [t \in KioskScreen!Tasks |-> KioskScreen!NewTask]
        /\ socket = [s \in KioskScreen!Sockets |-> KioskScreen!NewPage]
        /\ conn = [c \in Conns |-> KioskScreen!NewConn] /\ sending = <<>>
    BY DEF KioskScreen!Init
  <1>5. KioskScreen!NewTask \in ScreenTask /\ KioskScreen!NewConn \in ScreenConn
    BY DEF KioskScreen!NewTask, KioskScreen!NewConn, ScreenTask, ScreenConn
  <1>6. 0 \in KioskScreen!Cards
    BY <1>2 DEF KioskScreen!Cards
  <1>7. KioskScreen!NoCards \in [Played -> KioskScreen!Cards]
    BY <1>6 DEF KioskScreen!NoCards
  <1>8. KioskScreen!NewPage \in ScreenPage
    BY <1>7 DEF KioskScreen!NewPage, ScreenPage
  <1>9. ScreenTypes
    BY <1>3, <1>4, <1>5, <1>7, <1>8 DEF ScreenTypes
  <1>10. KioskScreen!None \notin KioskScreen!Tasks
    BY <1>3, ScreenConstants
  <1>11. /\ \A c \in Conns : conn[c].pc = "idle" /\ conn[c].rest = {} /\ conn[c].st = "new"
         /\ \A t \in KioskScreen!Tasks : task[t].rest = {} /\ task[t].st = "new"
         /\ \A s \in KioskScreen!Sockets : socket[s].st = "new" /\ ~socket[s].stalled
         /\ \A n : n \notin DOMAIN sending
    BY <1>4 DEF KioskScreen!NewTask, KioskScreen!NewConn, KioskScreen!NewPage
  <1>12. AwaitInv /\ PlayingInv /\ QueueInv
    BY <1>4, <1>11 DEF AwaitInv, OneAwait, GoesOn, PlayingInv, QueueInv
  <1>13. OrderInv
    BY <1>4, <1>11 DEF OrderInv, Calls
  <1>14. MinuteInv /\ RestInv
    BY <1>4, <1>10, <1>11 DEF MinuteInv, RestInv
  <1> QED
    BY <1>9, <1>12, <1>13, <1>14 DEF ScreenInv

(* Every step of the screen's state keeps it. *)
LEMMA ScreenStep == ASSUME ScreenInv, [KioskScreen!Next]_KioskScreenVars PROVE ScreenInv'
  <1>1. ASSUME UNCHANGED KioskScreenVars PROVE ScreenInv'
    <2>1. /\ KioskScreen!Limit' = KioskScreen!Limit /\ KioskScreen!Sockets' = KioskScreen!Sockets
          /\ KioskScreen!Tasks' = KioskScreen!Tasks /\ KioskScreen!Cards' = KioskScreen!Cards
          /\ (KioskScreen!Slow' <=> KioskScreen!Slow) /\ (KioskScreen!Hangs' <=> KioskScreen!Hangs)
          /\ ScreenMsg' = ScreenMsg /\ ScreenTask' = ScreenTask /\ ScreenPage' = ScreenPage
      BY <1>1, SameLimits DEF KioskScreenVars
    <2>2. kioskscreen_players' = kioskscreen_players /\ conn' = conn /\ run' = run
      BY <1>1 DEF KioskScreenVars
    <2>3. PlayingInv'
      BY <2>2 DEF ScreenInv, PlayingInv
    <2> QED
      BY <1>1, <2>2, <2>3, ConnSame DEF ScreenInv, ScreenTypes, KioskScreenVars
  <1>2. ASSUME KioskScreen!RunStep PROVE ScreenInv'
    BY <1>2, ScreenVideoStarted, ScreenVideoStopped, ScreenVideoStopFails, ScreenSendsPending
       DEF KioskScreen!RunStep
  <1>3. ASSUME ~KioskScreen!Running, KioskScreen!SendStep \/ KioskScreen!MinuteStep PROVE ScreenInv'
    BY <1>3, ScreenSent, ScreenMinuteSends DEF KioskScreen!SendStep, KioskScreen!MinuteStep
  <1>4. ASSUME KioskScreen!GreetStep PROVE ScreenInv'
    BY <1>4, ScreenGreets, ScreenGetsCard DEF KioskScreen!GreetStep
  <1>5. ASSUME KioskScreen!ReloadModules PROVE ScreenInv'
    BY <1>5, ScreenReloads
  <1>6. ASSUME NEW s \in KioskScreen!Sockets,
               KioskScreen!PageConnects(s) \/ KioskScreen!PageHangs(s) \/ KioskScreen!PageCloses(s)
        PROVE  ScreenInv'
    BY <1>6, ScreenConnects, ScreenHangs, ScreenCloses
  <1>7. ASSUME NEW i \in Played, KioskScreen!SendsCard(i) \/ KioskScreen!ResendsCard(i) PROVE ScreenInv'
    BY <1>7, ScreenSendsCard, ScreenResendsCard
  <1>8. ASSUME ~KioskScreen!Running, ~KioskScreen!Urgent, NEW c \in Conns,
               \/ KioskScreen!ConnStarts(c) \/ KioskScreen!ConnEnds(c) \/ KioskScreen!ServeEnds(c)
               \/ \E plays \in BOOLEAN : KioskScreen!ConnPlays(c, plays)
        PROVE  ScreenInv'
    BY <1>8, ScreenConnStarts, ScreenConnEnds, ScreenServeEnds, ScreenConnPlays
  <1>9. ASSUME ~KioskScreen!Running, ~KioskScreen!Urgent, NEW t \in KioskScreen!Tasks, KioskScreen!MinutePasses(t)
        PROVE  ScreenInv'
    BY <1>9, ScreenMinutePasses
  <1> QED
    BY <1>1, <1>2, <1>3, <1>4, <1>5, <1>6, <1>7, <1>8, <1>9 DEF KioskScreen!Next

-----------------------------------------------------------------------------
(* What a page shows, misses, or still gets.                                *)

(* Who is held: it waits for the minute, or somebody who sends took it. *)
GoesOut(i) ==
  \/ i \in pending
  \/ \E t \in KioskScreen!Tasks : i \in task[t].rest
  \/ \E c \in Conns : i \in conn[c].rest

(* A page never has a newer card than the latest, and a greeted one has the latest, will get one, or missed it. *)
Well(s, i) ==
  /\ socket[s].shown[i] <= latest[i] /\ socket[s].todo[i] <= latest[i]
  /\ socket[s].st \in {"hello", "up"} => socket[s].todo[i] = 0
  /\ socket[s].st \in {"cards", "up"} =>
       \/ socket[s].shown[i] = latest[i] \/ socket[s].todo[i] # 0
       \/ GoesOut(i) \/ i \in socket[s].lost
NewestInv ==
  /\ \A i \in Played : latest[i] <= card[i]
  /\ \A s \in KioskScreen!Showing, i \in Played : Well(s, i)

(* And in a step it gets no older card, and each that leaves the held ones, or misses one. *)
Goes(s, i) ==
  /\ Well(s, i)'
  /\ s \in KioskScreen!Showing => socket'[s].shown[i] >= socket[s].shown[i] \/ i \in socket'[s].lost
  /\ GoesOut(i) => GoesOut(i)' \/ socket'[s].shown[i] = latest'[i] \/ i \in socket'[s].lost
Forward ==
  /\ \A i \in Played : latest'[i] <= card'[i]
  /\ \A s \in KioskScreen!Showing', i \in Played : Goes(s, i)

LEMMA CardNumbers == ASSUME ScreenInv
  PROVE  /\ \A i \in Played : latest[i] \in Nat /\ card[i] \in Nat
         /\ \A s \in KioskScreen!Sockets, i \in Played : socket[s].shown[i] \in Nat /\ socket[s].todo[i] \in Nat
  <1>1. KioskScreen!Cards \subseteq Nat
    BY ScreenConstants DEF ScreenInv, ScreenTypes, KioskScreen!Cards
  <1>2. latest \in [Played -> KioskScreen!Cards] /\ card \in [Played -> KioskScreen!Cards]
    BY DEF ScreenInv, ScreenTypes
  <1>3. \A s \in KioskScreen!Sockets : /\ socket[s].shown \in [Played -> KioskScreen!Cards]
                                       /\ socket[s].todo \in [Played -> KioskScreen!Cards]
    BY DEF ScreenInv, ScreenTypes, ScreenPage
  <1> QED
    BY <1>1, <1>2, <1>3

LEMMA ShowingIs == ASSUME run'.screen = run.screen, NEW s
  PROVE  /\ s \in KioskScreen!Showing <=>
              s \in KioskScreen!Sockets /\ socket[s].st \in {"hello", "cards", "up"} /\ ~socket[s].stalled
         /\ s \in KioskScreen!Showing' <=>
              s \in KioskScreen!Sockets /\ socket'[s].st \in {"hello", "cards", "up"} /\ ~socket'[s].stalled
  <1>1. KioskScreen!Sockets' = KioskScreen!Sockets
    BY SameLimits
  <1>2. s \in KioskScreen!Showing <=>
          s \in KioskScreen!Sockets /\ socket[s].st \in {"hello", "cards", "up"} /\ ~socket[s].stalled
    BY DEF KioskScreen!Showing, KioskScreen!Taking, KioskScreen!Active
  <1>3. s \in KioskScreen!Showing' <=>
          s \in KioskScreen!Sockets /\ socket'[s].st \in {"hello", "cards", "up"} /\ ~socket'[s].stalled
    BY <1>1 DEF KioskScreen!Showing, KioskScreen!Taking, KioskScreen!Active
  <1> QED
    BY <1>2, <1>3

(* The cards that are held, or about to go out. *)
LEMMA HeldIs == ASSUME NEW i PROVE i \in KioskScreen!HeldUpdates <=> GoesOut(i)
  <1>1. i \in UNION {task[t].rest : t \in KioskScreen!Tasks} <=> \E t \in KioskScreen!Tasks : i \in task[t].rest
    OBVIOUS
  <1>2. i \in UNION {conn[c].rest : c \in Conns} <=> \E c \in Conns : i \in conn[c].rest
    OBVIOUS
  <1> QED
    BY <1>1, <1>2 DEF KioskScreen!HeldUpdates, GoesOut

LEMMA HeldIsNext == ASSUME NEW i PROVE i \in KioskScreen!HeldUpdates' <=> GoesOut(i)'
  <1>1. i \in UNION {task'[t].rest : t \in KioskScreen!Tasks'} <=> \E t \in KioskScreen!Tasks' : i \in task'[t].rest
    OBVIOUS
  <1>2. i \in UNION {conn'[c].rest : c \in Conns} <=> \E c \in Conns : i \in conn'[c].rest
    OBVIOUS
  <1> QED
    BY <1>1, <1>2 DEF KioskScreen!HeldUpdates, GoesOut

(* Such a step is one the properties speak of. *)
LEMMA ForwardShows == ASSUME ScreenInv, run'.screen = run.screen, Forward
  PROVE  NewestInv' /\ KioskScreen!OnlySentLeaves /\ KioskScreen!OldIsMissed
  <1>1. NewestInv'
    BY DEF NewestInv, Forward, Goes
  <1>2. KioskScreen!OldIsMissed
    BY DEF KioskScreen!OldIsMissed, Forward, Goes
  <1>3. KioskScreen!OnlySentLeaves
    <2> SUFFICES ASSUME NEW i \in Played, NEW s \in KioskScreen!Sockets, KioskScreen!LeftUnsent(i, s)
                 PROVE  i \in socket'[s].lost
      BY DEF KioskScreen!OnlySentLeaves
    <2>1. i \in KioskScreen!HeldUpdates /\ i \notin KioskScreen!HeldUpdates' /\ s \in KioskScreen!Showing'
      BY DEF KioskScreen!LeftUnsent
    <2>2. GoesOut(i) /\ ~GoesOut(i)'
      BY <2>1, HeldIs, HeldIsNext
    <2>3. socket'[s].shown[i] # latest'[i]
      BY DEF KioskScreen!LeftUnsent
    <2> QED
      BY <2>1, <2>2, <2>3 DEF Forward, Goes
  <1> QED
    BY <1>1, <1>2, <1>3

(* A card that stays as it was on a page, and one that is shown. *)
LEMMA CardStays ==
  ASSUME ScreenInv, NewestInv, NEW s \in KioskScreen!Showing, NEW i \in Played, latest'[i] = latest[i],
         socket'[s].shown[i] = socket[s].shown[i], socket'[s].todo[i] = socket[s].todo[i],
         socket'[s].st = socket[s].st \/ (socket[s].st = "cards" /\ socket'[s].st = "up" /\ socket[s].todo[i] = 0),
         i \in socket[s].lost => i \in socket'[s].lost,
         GoesOut(i) => GoesOut(i)' \/ i \in socket'[s].lost
  PROVE  Goes(s, i)
  <1>1. Well(s, i) /\ s \in KioskScreen!Sockets
    BY DEF NewestInv, KioskScreen!Showing, KioskScreen!Taking, KioskScreen!Active
  <1>2. socket[s].shown[i] \in Nat
    BY <1>1, CardNumbers
  <1>3. Well(s, i)'
    BY <1>1 DEF Well
  <1> QED
    BY <1>2, <1>3 DEF Goes

LEMMA CardShows ==
  ASSUME ScreenInv, NewestInv, NEW s \in KioskScreen!Showing, NEW i \in Played, NEW v \in Nat, latest[i] <= v,
         latest'[i] = v, socket'[s].shown[i] = v, socket'[s].todo[i] = socket[s].todo[i],
         socket'[s].st = socket[s].st
  PROVE  Goes(s, i)
  <1>1. Well(s, i) /\ s \in KioskScreen!Sockets
    BY DEF NewestInv, KioskScreen!Showing, KioskScreen!Taking, KioskScreen!Active
  <1>2. socket[s].shown[i] \in Nat /\ socket[s].todo[i] \in Nat /\ latest[i] \in Nat
    BY <1>1, CardNumbers
  <1>3. socket[s].shown[i] <= v /\ socket[s].todo[i] <= v
    BY <1>1, <1>2 DEF Well
  <1>4. Well(s, i)'
    BY <1>1, <1>3 DEF Well
  <1> QED
    BY <1>2, <1>3, <1>4 DEF Goes

(* Steps that change no card and no more of a page than that it goes, or misses what they let go of. *)
LEMMA SameForward ==
  ASSUME ScreenInv, NewestInv, run'.screen = run.screen, UNCHANGED <<latest, card>>,
         \A s \in KioskScreen!Showing' :
           /\ s \in KioskScreen!Showing /\ socket'[s].st = socket[s].st /\ socket'[s].shown = socket[s].shown
           /\ socket'[s].todo = socket[s].todo /\ socket[s].lost \subseteq socket'[s].lost
           /\ \A i \in Played : GoesOut(i) => GoesOut(i)' \/ i \in socket'[s].lost
  PROVE  Forward
  <1>1. \A i \in Played : latest'[i] <= card'[i]
    BY DEF NewestInv
  <1>2. ASSUME NEW s \in KioskScreen!Showing', NEW i \in Played PROVE Goes(s, i)
    BY <1>2, CardStays
  <1> QED
    BY <1>1, <1>2 DEF Forward

(* The held cards of one who waits, or sends, are held or sent. *)
LEMMA HeldSame == ASSUME run'.screen = run.screen, UNCHANGED <<pending, task, conn>>, NEW i
  PROVE  GoesOut(i) <=> GoesOut(i)'
BY SameLimits DEF GoesOut

(* A connection's task that goes on with its call. *)
LEMMA CallForward ==
  ASSUME ScreenInv, NewestInv, NEW c \in Conns, KioskScreen!VideoStarted(c) \/ KioskScreen!VideoStopFails(c)
  PROVE  Forward
  <1>1. /\ UNCHANGED <<run, pending, latest, card, socket>> /\ conn \in [Conns -> ScreenConn]
        /\ task \in [KioskScreen!Tasks -> ScreenTask]
    BY DEF KioskScreen!VideoStarted, KioskScreen!VideoStopFails, ScreenInv, ScreenTypes
  <1>2. KioskScreen!Tasks' = KioskScreen!Tasks
    BY <1>1, SameLimits
  <1>3. conn[c].rest = {}
    BY DEF KioskScreen!VideoStarted, KioskScreen!VideoStopFails, ScreenInv, RestInv
  <1>4. \A d \in Conns : d # c => conn'[d] = conn[d]
    BY <1>1 DEF KioskScreen!VideoStarted, KioskScreen!VideoStopFails
  <1>5. \A t \in KioskScreen!Tasks : task'[t].rest = task[t].rest
    BY <1>1 DEF KioskScreen!VideoStarted, KioskScreen!VideoStopFails, ScreenTask
  <1>6. \A i \in Played : GoesOut(i) => GoesOut(i)'
    BY <1>1, <1>2, <1>3, <1>4, <1>5 DEF GoesOut
  <1>7. \A s : s \in KioskScreen!Showing' <=> s \in KioskScreen!Showing
    BY <1>1, ShowingIs
  <1> QED
    BY <1>1, <1>6, <1>7, SameForward

(* A stop takes what was held, and every page misses what the cancelled round had left. *)
LEMMA StopForward == ASSUME ScreenInv, NewestInv, NEW c \in Conns, KioskScreen!VideoStopped(c) PROVE Forward
  <1>1. /\ UNCHANGED <<run, latest, card>> /\ conn \in [Conns -> ScreenConn] /\ task \in [KioskScreen!Tasks -> ScreenTask]
        /\ minute \in KioskScreen!Tasks /\ conn[c].pc = "stop"
        /\ task' = [task EXCEPT ![minute] = KioskScreen!Cancelled]
        /\ conn' = [conn EXCEPT ![c].pc = "pend", ![c].rest = pending]
    BY DEF KioskScreen!VideoStopped, KioskScreen!Released, ScreenInv, ScreenTypes
  <1>2. KioskScreen!Tasks' = KioskScreen!Tasks
    BY <1>1, SameLimits
  <1>3. PICK t \in KioskScreen!Tasks : t = minute
    BY <1>1
  <1>4. \A s \in KioskScreen!Sockets :
          /\ socket'[s].st = socket[s].st /\ socket'[s].stalled = socket[s].stalled /\ socket'[s].todo = socket[s].todo
          /\ socket'[s].shown = socket[s].shown /\ socket'[s].lost = socket[s].lost \cup task[t].rest
    BY <1>3, RoundLost
  <1>5. conn'[c].rest = pending /\ conn[c].rest = {} /\ \A d \in Conns : d # c => conn'[d].rest = conn[d].rest
    BY <1>1 DEF ScreenConn, ScreenInv, RestInv
  <1>6. \A u \in KioskScreen!Tasks : u # t => task'[u] = task[u]
    BY <1>1, <1>3
  <1>7. \A i \in Played : GoesOut(i) => GoesOut(i)' \/ i \in task[t].rest
    BY <1>2, <1>5, <1>6 DEF GoesOut
  <1>8. \A s : s \in KioskScreen!Showing' => s \in KioskScreen!Showing /\ s \in KioskScreen!Sockets
    BY <1>1, <1>4, ShowingIs
  <1> QED
    BY <1>1, <1>4, <1>7, <1>8, SameForward

LEMMA MinuteForward ==
  ASSUME ScreenInv, NewestInv, NEW t \in KioskScreen!Tasks, KioskScreen!MinutePasses(t)
  PROVE  Forward
  <1>1. /\ UNCHANGED <<run, latest, card, socket, conn>> /\ task \in [KioskScreen!Tasks -> ScreenTask]
        /\ task[t].rest = {} /\ task' = [task EXCEPT ![t].rest = pending]
    BY DEF KioskScreen!MinutePasses, ScreenInv, ScreenTypes
  <1>2. KioskScreen!Tasks' = KioskScreen!Tasks
    BY <1>1, SameLimits
  <1>3. task'[t].rest = pending /\ \A u \in KioskScreen!Tasks : u # t => task'[u] = task[u]
    BY <1>1 DEF ScreenTask
  <1>4. \A i \in Played : GoesOut(i) => GoesOut(i)'
    BY <1>1, <1>2, <1>3 DEF GoesOut
  <1>5. \A s : s \in KioskScreen!Showing' <=> s \in KioskScreen!Showing
    BY <1>1, ShowingIs
  <1> QED
    BY <1>1, <1>4, <1>5, SameForward

(* One of the cards held goes out: the latest, if it was kept; a page shows none where none was kept. *)
LEMMA LatestForward ==
  ASSUME ScreenInv, NewestInv, run' = run, UNCHANGED <<latest, card>>, NEW i \in Played,
         NEW x, KioskScreen!SendsLatest(x, i), \A j \in Played : GoesOut(j) => GoesOut(j)' \/ j = i
  PROVE  Forward
  <1>1. ScreenTypes /\ latest[i] \in KioskScreen!Cards /\ latest[i] \in Nat
    BY CardNumbers DEF ScreenInv, ScreenTypes
  <1>2. \A j \in Played : latest'[j] <= card'[j]
    BY DEF NewestInv
  <1>3. CASE latest[i] = 0
    <2>1. socket' = socket
      BY <1>3 DEF KioskScreen!SendsLatest
    <2>2. ASSUME NEW s \in KioskScreen!Showing', NEW j \in Played PROVE Goes(s, j)
      <3>1. s \in KioskScreen!Showing /\ s \in KioskScreen!Sockets
        BY <2>1, ShowingIs
      <3>2. socket[s].shown[i] = latest[i]
        <4>1. socket[s].shown[i] <= latest[i]
          BY <3>1 DEF NewestInv, Well
        <4>2. socket[s].shown[i] \in Nat
          BY <3>1, CardNumbers
        <4> QED
          BY <1>3, <4>1, <4>2
      <3>3. CASE j = i
        BY <1>1, <2>1, <3>1, <3>2, <3>3, CardShows
      <3>4. CASE j # i
        BY <2>1, <3>1, <3>4, CardStays
      <3> QED
        BY <3>3, <3>4
    <2> QED
      BY <1>2, <2>2 DEF Forward
  <1>4. CASE latest[i] # 0
    <2>1. socket' = KioskScreen!ShowCard(i, latest[i])
      BY <1>4 DEF KioskScreen!SendsLatest
    <2>2. ASSUME NEW s \in KioskScreen!Showing', NEW j \in Played PROVE Goes(s, j)
      <3>1. /\ \A r \in KioskScreen!Sockets :
              /\ socket'[r].st = socket[r].st /\ socket'[r].stalled = socket[r].stalled /\ socket'[r].todo = socket[r].todo
              /\ \A k \in Played \ {i} : /\ socket'[r].shown[k] = socket[r].shown[k]
                                         /\ k \in socket'[r].lost <=> k \in socket[r].lost
              /\ socket'[r].shown[i] = IF r \in KioskScreen!Taking THEN latest[i] ELSE socket[r].shown[i]
        BY <1>1, <2>1, CardOnPage
      <3>2. s \in KioskScreen!Sockets
        BY ShowingIs
      <3>3. s \in KioskScreen!Showing /\ s \in KioskScreen!Taking
        BY <3>1, <3>2, ShowingIs DEF KioskScreen!Showing
      <3>4. CASE j = i
        BY <1>1, <3>1, <3>2, <3>3, <3>4, CardShows
      <3>5. CASE j # i
        <4>1. j \in Played \ {i}
          BY <3>5
        <4>2. socket'[s].st = socket[s].st /\ socket'[s].todo[j] = socket[s].todo[j]
          BY <3>1, <3>2
        <4>3. socket'[s].shown[j] = socket[s].shown[j] /\ (j \in socket'[s].lost <=> j \in socket[s].lost)
          BY <3>1, <3>2, <4>1
        <4> QED
          BY <3>3, <3>5, <4>2, <4>3, CardStays
      <3> QED
        BY <3>4, <3>5
    <2> QED
      BY <1>2, <2>2 DEF Forward
  <1> QED
    BY <1>3, <1>4

LEMMA PendingForward ==
  ASSUME ScreenInv, NewestInv, NEW c \in Conns, KioskScreen!VideoSendsPending(c)
  PROVE  Forward
  <1>1. /\ UNCHANGED <<pending, latest, task, card, run>> /\ conn \in [Conns -> ScreenConn]
    BY DEF KioskScreen!VideoSendsPending, ScreenInv, ScreenTypes
  <1>2. KioskScreen!Tasks' = KioskScreen!Tasks
    BY <1>1, SameLimits
  <1>3. CASE conn[c].rest = {}
    <2>1. conn' = [conn EXCEPT ![c] = KioskScreen!Done(c)] /\ socket' = socket
      BY <1>3 DEF KioskScreen!VideoSendsPending
    <2>2. \A i \in Played : GoesOut(i) => GoesOut(i)'
      BY <1>1, <1>2, <1>3, <2>1 DEF GoesOut
    <2>3. \A s : s \in KioskScreen!Showing' <=> s \in KioskScreen!Showing
      BY <1>1, <2>1, ShowingIs
    <2> QED
      BY <1>1, <2>1, <2>2, <2>3, SameForward
  <1>4. CASE conn[c].rest # {}
    <2>1. PICK i \in conn[c].rest : /\ conn' = [conn EXCEPT ![c].rest = conn[c].rest \ {i}]
                                    /\ KioskScreen!SendsLatest(c, i)
      BY <1>4 DEF KioskScreen!VideoSendsPending
    <2>2. i \in Played
      BY <1>1 DEF ScreenConn
    <2>3. conn'[c].rest = conn[c].rest \ {i} /\ \A d \in Conns : d # c => conn'[d] = conn[d]
      BY <1>1, <2>1 DEF ScreenConn
    <2>4. \A j \in Played : GoesOut(j) => GoesOut(j)' \/ j = i
      BY <1>1, <1>2, <2>3 DEF GoesOut
    <2> QED
      BY <1>1, <2>1, <2>2, <2>4, LatestForward
  <1> QED
    BY <1>3, <1>4

LEMMA RoundForward ==
  ASSUME ScreenInv, NewestInv, NEW t \in KioskScreen!Tasks, KioskScreen!MinuteSends(t)
  PROVE  Forward
  <1>1. /\ UNCHANGED <<pending, latest, conn, card, run>> /\ task \in [KioskScreen!Tasks -> ScreenTask]
    BY DEF KioskScreen!MinuteSends, ScreenInv, ScreenTypes
  <1>2. KioskScreen!Tasks' = KioskScreen!Tasks
    BY <1>1, SameLimits
  <1>3. PICK i \in task[t].rest :
          /\ task' = [task EXCEPT ![t].rest = task[t].rest \ {i},
                                  ![t].st = IF task[t].rest = {i} THEN "runs" ELSE task[t].st]
          /\ KioskScreen!SendsLatest(t, i)
    BY DEF KioskScreen!MinuteSends, KioskScreen!NextMinute
  <1>4. i \in Played
    BY <1>1 DEF ScreenTask
  <1>5. task'[t].rest = task[t].rest \ {i} /\ \A u \in KioskScreen!Tasks : u # t => task'[u] = task[u]
    BY <1>1, <1>3 DEF ScreenTask
  <1>6. \A j \in Played : GoesOut(j) => GoesOut(j)' \/ j = i
    BY <1>1, <1>2, <1>5 DEF GoesOut
  <1> QED
    BY <1>1, <1>3, <1>4, <1>6, LatestForward

(* A card that is broadcast is a newer one, or one kept again: shown, or held. *)
LEMMA BroadcastForward ==
  ASSUME ScreenInv, NewestInv, run' = run, UNCHANGED <<task, conn>>, NEW i \in Played,
         card' \in [Played -> KioskScreen!Cards], \A j \in Played : card[j] <= card'[j], KioskScreen!Broadcast(i)
  PROVE  Forward
  <1>1. KioskScreen!Tasks' = KioskScreen!Tasks /\ ScreenTypes
    BY SameLimits DEF ScreenInv
  <1>2. PICK v \in KioskScreen!Cards : v = card'[i]
    OBVIOUS
  <1>3. v \in Nat /\ \A j \in Played : latest[j] \in Nat /\ card[j] \in Nat /\ card'[j] \in Nat
    <2>1. KioskScreen!Cards \subseteq Nat
      BY ScreenConstants DEF ScreenInv, ScreenTypes, KioskScreen!Cards
    <2> QED
      BY <2>1, CardNumbers
  <1>4. latest'[i] = v /\ \A j \in Played \ {i} : latest'[j] = latest[j]
    BY <1>1, <1>2 DEF ScreenTypes, KioskScreen!Broadcast
  <1>5. \A j \in Played : latest'[j] <= card'[j] /\ latest[j] <= latest'[j]
    <2>1. \A j \in Played : latest[j] <= card[j]
      BY DEF NewestInv
    <2> QED
      BY <1>2, <1>3, <1>4, <2>1
  <1>6. \/ KioskScreen!Held(i) /\ pending' = pending \cup {i} /\ UNCHANGED socket
        \/ ~KioskScreen!Held(i) /\ socket' = KioskScreen!ShowCard(i, v) /\ UNCHANGED pending
    BY <1>2 DEF KioskScreen!Broadcast
  <1>7. \A j \in Played : GoesOut(j) => GoesOut(j)'
    BY <1>1, <1>6 DEF GoesOut
  <1>8. ASSUME NEW s \in KioskScreen!Showing', NEW j \in Played PROVE Goes(s, j)
    <2>1. CASE KioskScreen!Held(i)
      <3>1. UNCHANGED socket /\ GoesOut(i)'
        BY <1>6, <2>1 DEF GoesOut
      <3>2. s \in KioskScreen!Showing /\ s \in KioskScreen!Sockets
        BY <3>1, ShowingIs
      <3>3. CASE j = i
        <4>1. Well(s, i) /\ latest[i] <= latest'[i]
          BY <1>5, <3>2 DEF NewestInv
        <4>2. /\ socket[s].shown[i] \in Nat /\ socket[s].todo[i] \in Nat
              /\ latest[i] \in Nat /\ latest'[i] \in Nat
          BY <1>3, <1>4, <3>2, CardNumbers
        <4>3. socket[s].shown[i] <= latest'[i] /\ socket[s].todo[i] <= latest'[i]
          BY <4>1, <4>2 DEF Well
        <4>4. Well(s, i)'
          BY <3>1, <4>1, <4>3 DEF Well
        <4> QED
          BY <3>1, <3>3, <4>2, <4>4 DEF Goes
      <3>4. CASE j # i
        BY <1>4, <1>7, <3>1, <3>2, <3>4, CardStays
      <3> QED
        BY <3>3, <3>4
    <2>2. CASE ~KioskScreen!Held(i)
      <3>1. /\ \A r \in KioskScreen!Sockets :
              /\ socket'[r].st = socket[r].st /\ socket'[r].stalled = socket[r].stalled /\ socket'[r].todo = socket[r].todo
              /\ \A k \in Played \ {i} : /\ socket'[r].shown[k] = socket[r].shown[k]
                                         /\ k \in socket'[r].lost <=> k \in socket[r].lost
              /\ socket'[r].shown[i] = IF r \in KioskScreen!Taking THEN v ELSE socket[r].shown[i]
        BY <1>1, <1>6, <2>2, CardOnPage
      <3>2. s \in KioskScreen!Sockets
        BY ShowingIs
      <3>3. s \in KioskScreen!Showing /\ s \in KioskScreen!Taking
        BY <3>1, <3>2, ShowingIs DEF KioskScreen!Showing
      <3>4. CASE j = i
        BY <1>3, <1>4, <1>5, <3>1, <3>2, <3>3, <3>4, CardShows
      <3>5. CASE j # i
        <4>1. j \in Played \ {i}
          BY <3>5
        <4>2. socket'[s].st = socket[s].st /\ socket'[s].todo[j] = socket[s].todo[j]
          BY <3>1, <3>2
        <4>3. socket'[s].shown[j] = socket[s].shown[j] /\ (j \in socket'[s].lost <=> j \in socket[s].lost)
          BY <3>1, <3>2, <4>1
        <4> QED
          BY <1>4, <1>7, <3>3, <3>5, <4>2, <4>3, CardStays
      <3> QED
        BY <3>4, <3>5
    <2> QED
      BY <2>1, <2>2
  <1> QED
    BY <1>5, <1>8 DEF Forward

LEMMA CardForward ==
  ASSUME ScreenInv, NewestInv, NEW i \in Played, KioskScreen!SendsCard(i) \/ KioskScreen!ResendsCard(i)
  PROVE  Forward
  <1>1. card \in [Played -> KioskScreen!Cards] /\ KioskScreen!Limit.cards \in Nat /\ \A j \in Played : card[j] \in Nat
    BY ScreenConstants, CardNumbers DEF ScreenInv, ScreenTypes
  <1>2. UNCHANGED <<run, task, conn>>
    BY DEF KioskScreen!SendsCard, KioskScreen!ResendsCard
  <1>3. card' \in [Played -> KioskScreen!Cards] /\ \A j \in Played : card[j] <= card'[j]
    <2>1. CASE card' = card
      BY <1>1, <2>1
    <2>2. CASE KioskScreen!SendsCard(i)
      <3>1. card[i] < KioskScreen!Limit.cards /\ card' = [card EXCEPT ![i] = card[i] + 1]
        BY <2>2 DEF KioskScreen!SendsCard
      <3>2. card[i] + 1 \in KioskScreen!Cards
        BY <1>1, <3>1 DEF KioskScreen!Cards
      <3> QED
        BY <1>1, <3>1, <3>2
    <2> QED
      BY <2>1, <2>2 DEF KioskScreen!ResendsCard
  <1>4. KioskScreen!Broadcast(i) \/ UNCHANGED <<latest, pending, socket, card>>
    BY DEF KioskScreen!SendsCard, KioskScreen!ResendsCard
  <1>5. CASE UNCHANGED <<latest, pending, socket, card>>
    <2>1. \A s : s \in KioskScreen!Showing' <=> s \in KioskScreen!Showing
      BY <1>2, <1>5, ShowingIs
    <2> QED
      BY <1>2, <1>5, <2>1, HeldSame, SameForward
  <1> QED
    BY <1>2, <1>3, <1>4, <1>5, BroadcastForward

(* A reload leaves no page that shows the cards. *)
LEMMA ReloadForward == ASSUME ScreenInv, KioskScreen!ReloadModules PROVE Forward
  <1>1. run'.screen = run.screen
    BY DEF KioskScreen!ReloadModules, ScreenInv, ScreenTypes
  <1>2. ASSUME NEW s \in KioskScreen!Showing' PROVE FALSE
    <2>1. s \in KioskScreen!Sockets /\ socket'[s].st # "leaves" /\ socket'[s].st \in {"hello", "cards", "up"} /\ ~socket'[s].stalled
      BY <1>1, ShowingIs
    <2>2. socket'[s] = IF s \in KioskScreen!Taking THEN [socket[s] EXCEPT !.st = "leaves"] ELSE socket[s]
      BY <2>1 DEF KioskScreen!ReloadModules
    <2>3. s \notin KioskScreen!Taking
      BY <2>1, <2>2 DEF ScreenInv, ScreenTypes, ScreenPage
    <2> QED
      BY <2>1, <2>2, <2>3 DEF KioskScreen!Taking, KioskScreen!Active
  <1>3. \A i \in Played : latest'[i] <= card'[i]
    BY CardNumbers DEF KioskScreen!ReloadModules, KioskScreen!NoCards
  <1> QED
    BY <1>2, <1>3 DEF Forward

(* A page connects with nothing on it, and is greeted with the latest cards, at once or one by one. *)
LEMMA OnePageForward ==
  ASSUME ScreenInv, NewestInv, UNCHANGED <<pending, latest, task, conn, card, run>>, NEW s \in KioskScreen!Sockets,
         \A r \in KioskScreen!Sockets : r # s => socket'[r] = socket[r],
         s \in KioskScreen!Showing' => \A i \in Played : Goes(s, i)
  PROVE  Forward
  <1>1. \A i \in Played : latest'[i] <= card'[i]
    BY DEF NewestInv
  <1>2. ASSUME NEW r \in KioskScreen!Showing', NEW i \in Played PROVE Goes(r, i)
    <2>1. CASE r = s
      BY <2>1
    <2>2. CASE r # s
      <3>1. r \in KioskScreen!Sockets
        BY ShowingIs
      <3>2. socket'[r] = socket[r]
        BY <2>2, <3>1
      <3>3. r \in KioskScreen!Showing
        BY <3>1, <3>2, ShowingIs
      <3> QED
        BY <3>2, <3>3, HeldSame, CardStays
    <2> QED
      BY <2>1, <2>2
  <1> QED
    BY <1>1, <1>2 DEF Forward

LEMMA ConnectsForward == ASSUME ScreenInv, NewestInv, NEW s \in KioskScreen!Sockets, KioskScreen!PageConnects(s) PROVE Forward
  <1>1. /\ UNCHANGED <<pending, latest, task, conn, card, run>> /\ socket \in [KioskScreen!Sockets -> ScreenPage]
        /\ socket[s].st = "new"
        /\ socket' = [socket EXCEPT ![s] = [KioskScreen!NewPage EXCEPT !.st = "hello", !.video = KioskScreen!Hello]]
    BY DEF KioskScreen!PageConnects, ScreenInv, ScreenTypes
  <1>2. /\ socket'[s].shown = KioskScreen!NoCards /\ socket'[s].todo = KioskScreen!NoCards /\ socket'[s].st = "hello"
        /\ \A r \in KioskScreen!Sockets : r # s => socket'[r] = socket[r]
    BY <1>1 DEF KioskScreen!NewPage
  <1>3. s \notin KioskScreen!Showing
    BY <1>1, ShowingIs
  <1>4. ASSUME NEW i \in Played PROVE Goes(s, i)
    <2>1. latest[i] \in Nat /\ socket'[s].shown[i] = 0 /\ socket'[s].todo[i] = 0
      BY <1>2, CardNumbers DEF KioskScreen!NoCards
    <2>2. GoesOut(i) => GoesOut(i)'
      BY <1>1, HeldSame
    <2>3. Well(s, i)'
      BY <1>1, <1>2, <2>1 DEF Well
    <2> QED
      BY <1>3, <2>2, <2>3 DEF Goes
  <1> QED
    BY <1>1, <1>2, <1>4, OnePageForward

LEMMA GreetedForward == ASSUME ScreenInv, NewestInv, NEW s \in KioskScreen!Sockets, KioskScreen!PageGreeted(s) PROVE Forward
  <1>1. /\ UNCHANGED <<pending, latest, task, conn, card, run>> /\ socket \in [KioskScreen!Sockets -> ScreenPage]
        /\ socket[s].st = "hello" /\ ~socket[s].stalled
        /\ socket' = IF KioskScreen!Slow THEN [socket EXCEPT ![s].st = "cards", ![s].todo = latest]
                     ELSE [socket EXCEPT ![s].st = "up", ![s].shown = latest, ![s].lost = {}]
    BY DEF KioskScreen!PageGreeted, KioskScreen!Kept, ScreenInv, ScreenTypes
  <1>2. \A r \in KioskScreen!Sockets : r # s => socket'[r] = socket[r]
    BY <1>1
  <1>3. s \in KioskScreen!Showing
    BY <1>1, ShowingIs
  <1>4. ASSUME NEW i \in Played PROVE Goes(s, i)
    <2>1. /\ latest[i] \in Nat /\ socket[s].shown[i] \in Nat /\ socket[s].shown[i] <= latest[i]
          /\ socket[s].todo[i] = 0
      BY <1>1, <1>3, CardNumbers DEF NewestInv, Well
    <2>2. GoesOut(i) => GoesOut(i)'
      BY <1>1, HeldSame
    <2>3. CASE KioskScreen!Slow
      <3>1. socket'[s].st = "cards" /\ socket'[s].todo = latest /\ socket'[s].shown = socket[s].shown
        BY <1>1, <2>3 DEF ScreenPage
      <3>2. latest[i] # 0 \/ socket[s].shown[i] = latest[i]
        BY <2>1
      <3>3. Well(s, i)'
        BY <1>1, <2>1, <3>1, <3>2 DEF Well
      <3> QED
        BY <2>1, <2>2, <3>1, <3>3 DEF Goes
    <2>4. CASE ~KioskScreen!Slow
      <3>1. socket'[s].st = "up" /\ socket'[s].todo = socket[s].todo /\ socket'[s].shown = latest
        BY <1>1, <2>4 DEF ScreenPage
      <3>2. Well(s, i)'
        BY <1>1, <2>1, <3>1 DEF Well
      <3> QED
        BY <1>1, <2>1, <2>2, <3>1, <3>2 DEF Goes
    <2> QED
      BY <2>3, <2>4
  <1> QED
    BY <1>1, <1>2, <1>4, OnePageForward

LEMMA GetsCardForward == ASSUME ScreenInv, NewestInv, NEW s \in KioskScreen!Sockets, KioskScreen!PageGetsCard(s) PROVE Forward
  <1>1. /\ UNCHANGED <<pending, latest, task, conn, card, run>> /\ socket \in [KioskScreen!Sockets -> ScreenPage]
        /\ socket[s].st = "cards" /\ ~socket[s].stalled
    BY DEF KioskScreen!PageGetsCard, ScreenInv, ScreenTypes
  <1>2. s \in KioskScreen!Showing
    BY <1>1, ShowingIs
  <1>3. CASE socket[s].todo = KioskScreen!NoCards
    <2>1. socket' = [socket EXCEPT ![s].st = "up"]
      BY <1>3 DEF KioskScreen!PageGetsCard
    <2>2. /\ socket'[s].st = "up" /\ socket'[s].shown = socket[s].shown /\ socket'[s].todo = socket[s].todo
          /\ socket'[s].lost = socket[s].lost /\ \A r \in KioskScreen!Sockets : r # s => socket'[r] = socket[r]
      BY <1>1, <2>1 DEF ScreenPage
    <2>3. ASSUME NEW i \in Played PROVE Goes(s, i)
      <3>1. socket[s].todo[i] = 0
        BY <1>3 DEF KioskScreen!NoCards
      <3> QED
        BY <1>1, <1>2, <2>2, <3>1, HeldSame, CardStays
    <2> QED
      BY <1>1, <2>2, <2>3, OnePageForward
  <1>4. CASE socket[s].todo # KioskScreen!NoCards
    <2>1. /\ \A r \in KioskScreen!Sockets : r # s => socket'[r] = socket[r]
          /\ socket'[s].st = "cards"
          /\ \E i \in Played :
               /\ socket[s].todo[i] # 0 /\ socket'[s].shown[i] = socket[s].todo[i] /\ socket'[s].todo[i] = 0
               /\ socket[s].todo[i] # latest[i] => i \in socket'[s].lost
               /\ \A j \in Played \ {i} :
                    /\ socket'[s].shown[j] = socket[s].shown[j] /\ socket'[s].todo[j] = socket[s].todo[j]
                    /\ j \in socket'[s].lost <=> j \in socket[s].lost
      BY <1>4, GreetingCard
    <2>2. PICK i \in Played :
               /\ socket[s].todo[i] # 0 /\ socket'[s].shown[i] = socket[s].todo[i] /\ socket'[s].todo[i] = 0
               /\ socket[s].todo[i] # latest[i] => i \in socket'[s].lost
               /\ \A j \in Played \ {i} :
                    /\ socket'[s].shown[j] = socket[s].shown[j] /\ socket'[s].todo[j] = socket[s].todo[j]
                    /\ j \in socket'[s].lost <=> j \in socket[s].lost
      BY <2>1
    <2>3. ASSUME NEW j \in Played PROVE Goes(s, j)
      <3>1. GoesOut(j) => GoesOut(j)'
        BY <1>1, HeldSame
      <3>2. CASE j = i
        <4>1. /\ Well(s, i) /\ latest[i] \in Nat /\ socket[s].shown[i] \in Nat /\ socket[s].todo[i] \in Nat
          BY <1>2, CardNumbers DEF NewestInv
        <4>2. Well(s, i)'
          BY <1>1, <2>1, <2>2, <4>1 DEF Well
        <4>3. socket'[s].shown[i] >= socket[s].shown[i] \/ i \in socket'[s].lost
          BY <2>2, <4>1 DEF Well
        <4> QED
          BY <3>1, <3>2, <4>2, <4>3 DEF Goes
      <3>3. CASE j # i
        BY <1>1, <1>2, <2>1, <2>2, <3>1, <3>3, CardStays
      <3> QED
        BY <3>2, <3>3
    <2> QED
      BY <1>1, <2>1, <2>3, OnePageForward
  <1> QED
    BY <1>3, <1>4

LEMMA GoneForward ==
  ASSUME ScreenInv, NewestInv, NEW s \in KioskScreen!Sockets, KioskScreen!PageHangs(s) \/ KioskScreen!PageCloses(s)
  PROVE  Forward
  <1>1. /\ UNCHANGED <<pending, latest, task, conn, card, run>> /\ socket \in [KioskScreen!Sockets -> ScreenPage]
        /\ socket' = [socket EXCEPT ![s].stalled = TRUE] \/ socket' = [socket EXCEPT ![s].st = "gone"]
    BY DEF KioskScreen!PageHangs, KioskScreen!PageCloses, ScreenInv, ScreenTypes
  <1>2. socket'[s].stalled \/ socket'[s].st = "gone"
    BY <1>1 DEF ScreenPage
  <1>3. s \notin KioskScreen!Showing'
    BY <1>1, <1>2, ShowingIs
  <1> QED
    BY <1>1, <1>3, OnePageForward

(* What a connection's start, video or end changes is who plays; the cards stay. *)
LEMMA ConnForward ==
  ASSUME ScreenInv, NewestInv, NEW c \in Conns,
         \/ KioskScreen!ConnStarts(c) \/ KioskScreen!ConnEnds(c) \/ KioskScreen!ServeEnds(c)
         \/ \E plays \in BOOLEAN : KioskScreen!ConnPlays(c, plays)
  PROVE  Forward
  <1>1. /\ UNCHANGED <<pending, latest, task, card>> /\ conn \in [Conns -> ScreenConn] /\ ScreenTypes
    BY DEF KioskScreen!ConnStarts, KioskScreen!ConnEnds, KioskScreen!ServeEnds, KioskScreen!ConnPlays, ScreenInv, ScreenTypes
  <1>2. run'.screen = run.screen
    BY DEF KioskScreen!ConnStarts, KioskScreen!ConnEnds, KioskScreen!ServeEnds, KioskScreen!ConnPlays, ScreenInv, ScreenTypes
  <1>3. KioskScreen!Tasks' = KioskScreen!Tasks
    BY <1>2, SameLimits
  <1>4. CASE KioskScreen!ConnStarts(c) \/ KioskScreen!ConnEnds(c)
    <2>1. UNCHANGED socket /\ \E st \in {"up", "ended"} : conn' = [conn EXCEPT ![c].st = st]
      BY <1>4 DEF KioskScreen!ConnStarts, KioskScreen!ConnEnds
    <2>2. \A d \in Conns : conn'[d].rest = conn[d].rest
      BY <1>1, <2>1 DEF ScreenConn
    <2>3. \A i \in Played : GoesOut(i) => GoesOut(i)'
      BY <1>1, <1>3, <2>2 DEF GoesOut
    <2>4. \A s : s \in KioskScreen!Showing' <=> s \in KioskScreen!Showing
      BY <1>2, <2>1, ShowingIs
    <2> QED
      BY <1>1, <1>2, <2>1, <2>3, <2>4, SameForward
  <1>5. ASSUME NEW plays \in BOOLEAN, NEW now \in {"up", "serve"}, conn[c].pc = "idle",
               KioskScreen!SetVideoPlaying(c, plays, now)
        PROVE  Forward
    <2>1. conn[c].rest = {}
      BY <1>5 DEF ScreenInv, RestInv
    <2>2. socket' = socket \/ socket' = KioskScreen!ShowVideo(plays)
      BY <1>5 DEF KioskScreen!SetVideoPlaying
    <2>3. \A s \in KioskScreen!Sockets :
            /\ socket'[s].st = socket[s].st /\ socket'[s].stalled = socket[s].stalled /\ socket'[s].todo = socket[s].todo
            /\ socket'[s].shown = socket[s].shown /\ socket'[s].lost = socket[s].lost
      BY <1>1, <1>2, <2>2, VideoOnPage
    <2>4. \E to : conn' = [conn EXCEPT ![c] = to]
      BY <1>5 DEF KioskScreen!SetVideoPlaying
    <2>5. \A d \in Conns : d # c => conn'[d] = conn[d]
      BY <1>1, <2>4
    <2>6. \A i \in Played : GoesOut(i) => GoesOut(i)'
      BY <1>1, <1>3, <2>1, <2>5 DEF GoesOut
    <2>7. \A s : s \in KioskScreen!Showing' => s \in KioskScreen!Showing /\ s \in KioskScreen!Sockets
      BY <1>2, <2>3, ShowingIs
    <2> QED
      BY <1>1, <1>2, <2>3, <2>6, <2>7, SameForward
  <1> QED
    BY <1>4, <1>5 DEF KioskScreen!ServeEnds, KioskScreen!ConnPlays

LEMMA SentForward ==
  ASSUME ScreenInv, NewestInv, NEW n \in DOMAIN sending, KioskScreen!Sent(n)
  PROVE  Forward
  <1>1. /\ UNCHANGED <<pending, latest, task, conn, card, run>> /\ socket \in [KioskScreen!Sockets -> ScreenPage]
    BY DEF KioskScreen!Sent, ScreenInv, ScreenTypes
  <1>2. \A s \in KioskScreen!Sockets : socket'[s] = socket[s] \/ socket'[s].st = "gone"
    BY <1>1 DEF KioskScreen!Sent, ScreenPage
  <1>3. \A s : s \in KioskScreen!Showing' => s \in KioskScreen!Showing /\ socket'[s] = socket[s]
    BY <1>1, <1>2, ShowingIs
  <1> QED
    BY <1>1, <1>3, HeldSame, SameForward

(* Every step of the screen. *)
LEMMA NextForward == ASSUME ScreenInv, NewestInv, [KioskScreen!Next]_KioskScreenVars PROVE Forward
  <1>1. CASE UNCHANGED KioskScreenVars
    <2>1. UNCHANGED <<run, latest, card, socket, pending, task, conn>>
      BY <1>1 DEF KioskScreenVars
    <2>2. \A s : s \in KioskScreen!Showing' <=> s \in KioskScreen!Showing
      BY <2>1, ShowingIs
    <2> QED
      BY <2>1, <2>2, HeldSame, SameForward
  <1>2. CASE KioskScreen!RunStep
    BY <1>2, CallForward, StopForward, PendingForward DEF KioskScreen!RunStep
  <1>3. CASE KioskScreen!SendStep \/ KioskScreen!MinuteStep
    BY <1>3, SentForward, RoundForward DEF KioskScreen!SendStep, KioskScreen!MinuteStep
  <1>4. CASE KioskScreen!GreetStep
    BY <1>4, GreetedForward, GetsCardForward DEF KioskScreen!GreetStep
  <1>5. CASE KioskScreen!ReloadModules
    BY <1>5, ReloadForward
  <1>6. CASE \E s \in KioskScreen!Sockets : KioskScreen!PageConnects(s) \/ KioskScreen!PageHangs(s) \/ KioskScreen!PageCloses(s)
    BY <1>6, ConnectsForward, GoneForward
  <1>7. CASE \E i \in Played : KioskScreen!SendsCard(i) \/ KioskScreen!ResendsCard(i)
    BY <1>7, CardForward
  <1>8. CASE \E c \in Conns : \/ KioskScreen!ConnStarts(c) \/ KioskScreen!ConnEnds(c) \/ KioskScreen!ServeEnds(c)
                              \/ \E plays \in BOOLEAN : KioskScreen!ConnPlays(c, plays)
    BY <1>8, ConnForward
  <1>9. CASE \E t \in KioskScreen!Tasks : KioskScreen!MinutePasses(t)
    BY <1>9, MinuteForward
  <1> QED
    BY <1>1, <1>2, <1>3, <1>4, <1>5, <1>6, <1>7, <1>8, <1>9 DEF KioskScreen!Next

LEMMA ScreenForward == ASSUME ScreenInv, NewestInv, [KioskScreen!Next]_KioskScreenVars
  PROVE  ScreenInv' /\ NewestInv' /\ KioskScreen!OnlySentLeaves /\ KioskScreen!OldIsMissed
  <1>1. ScreenInv'
    BY ScreenStep
  <1>2. run'.screen = run.screen
    BY LimitStays DEF ScreenInv
  <1>3. Forward
    BY NextForward
  <1> QED
    BY <1>1, <1>2, <1>3, ForwardShows

LEMMA NewestInit == ASSUME KioskScreen!Init PROVE NewestInv
  <1>1. \A i \in Played : latest[i] = 0 /\ card[i] = 0
    BY DEF KioskScreen!Init, KioskScreen!NoCards
  <1>2. KioskScreen!Showing = {}
    BY DEF KioskScreen!Init, KioskScreen!Showing, KioskScreen!Taking, KioskScreen!Active, KioskScreen!NewPage
  <1> QED
    BY <1>1, <1>2 DEF NewestInv

(* What a page shows at rest, of the invariant. *)
LEMMA ScreenShows == ASSUME ScreenInv, NewestInv
  PROVE  /\ KioskScreen!TypeOK /\ KioskScreen!CardsShown /\ KioskScreen!MinuteTaskFits
         /\ KioskScreen!DeadDontPlay /\ KioskScreen!EndedIsServed
  <1>1. KioskScreen!TypeOK
    <2>1. ScreenTypes /\ OneAwait
      BY DEF ScreenInv, AwaitInv
    <2>2. \A n \in DOMAIN sending : sending[n] \in ScreenMsg
      BY <2>1 DEF ScreenTypes
    <2> QED
      BY <2>1, <2>2 DEF ScreenTypes, OneAwait, KioskScreen!TypeOK, ScreenMsg, ScreenTask, ScreenPage, ScreenConn
  <1>2. KioskScreen!CardsShown
    <2> SUFFICES ASSUME KioskScreen!Quiet, ~KioskScreen!Hangs, NEW s \in KioskScreen!Showing, NEW i \in Played
                 PROVE  \/ socket[s].shown[i] = latest[i]
                        \/ i \in pending /\ kioskscreen_players # {}
                        \/ i \in socket[s].lost
      BY DEF KioskScreen!CardsShown
    <2>1. socket[s].st = "up" /\ Well(s, i)
      BY DEF KioskScreen!Quiet, NewestInv
    <2>2. socket[s].shown[i] = latest[i] \/ GoesOut(i) \/ i \in socket[s].lost
      BY <2>1 DEF Well
    <2>3. \A c \in Conns : conn[c].rest = {}
      BY DEF KioskScreen!Quiet, ScreenInv, RestInv
    <2>4. GoesOut(i) => i \in pending
      BY <2>3 DEF GoesOut, KioskScreen!Quiet
    <2>5. i \in pending => kioskscreen_players # {}
      BY DEF ScreenInv, RestInv, KioskScreen!Quiet
    <2> QED
      BY <2>2, <2>4, <2>5
  <1>3. KioskScreen!MinuteTaskFits
    <2> SUFFICES ASSUME KioskScreen!Quiet, ~KioskScreen!Hangs
                 PROVE  /\ {t \in KioskScreen!Tasks : task[t].st = "runs"} = {minute} \ {KioskScreen!None}
                        /\ (minute # KioskScreen!None) = (kioskscreen_players # {})
      BY DEF KioskScreen!MinuteTaskFits
    <2>1. minute # KioskScreen!None => minute \in KioskScreen!Tasks
      BY DEF ScreenInv, ScreenTypes
    <2>2. KioskScreen!None \notin KioskScreen!Tasks
      BY ScreenConstants DEF ScreenInv, ScreenTypes
    <2>3. {t \in KioskScreen!Tasks : task[t].st = "runs"} = {minute} \ {KioskScreen!None}
      BY <2>1, <2>2 DEF ScreenInv, MinuteInv
    <2>4. Calls = {}
      BY DEF Calls, KioskScreen!Quiet
    <2>5. minute # KioskScreen!None <=> kioskscreen_players # {}
      BY <2>4 DEF ScreenInv, OrderInv
    <2> QED
      BY <2>3, <2>5
  <1>4. KioskScreen!DeadDontPlay /\ KioskScreen!EndedIsServed
    BY DEF ScreenInv, PlayingInv, MinuteInv, KioskScreen!DeadDontPlay, KioskScreen!EndedIsServed
  <1> QED
    BY <1>1, <1>2, <1>3, <1>4

(* At rest a page shows each module's latest card, or the card waits for the next minute while another module plays, or
   the page missed it, in a cancelled round or a slow greeting; one task sends the held updates while a video plays and
   none while none does; who plays has a process or one whose end is still to be read; and no stop of a video is left
   without the task it cancels, so that what died is served: for any modules, connections, cards and videos, and any
   order in which they start, stop, die, connect, reload and are cancelled, on any screen that doesn't hang
   (set_video_playing, send_pending, broadcast, connect, _serve). *)
THEOREM CardsAlwaysShown == Spec => []CardsShown
  <1> DEFINE Inv == part = "screen" => ScreenInv /\ NewestInv
  <1>1. Init => Inv
    BY ScreenInit, NewestInit DEF Init
  <1>2. ASSUME Inv, [Next]_vars PROVE Inv'
    BY <1>2, ScreenForward, StepOfPart
  <1>3. Inv => CardsShown
    BY ScreenShows DEF CardsShown
  <1> QED
    BY <1>1, <1>2, <1>3, PTL DEF Spec

(* An update that was held leaves only by being shown on each page there is, as the latest card, or with the round that
   a stop cancels, and a page goes back to an older card only in a slow greeting (the second part of HeldGoOut, for any
   screens, modules, connections, cards and videos: connect, broadcast, set_video_playing, send_pending). *)
THEOREM HeldOnlyGoOut == Spec => [][part = "screen" => KioskScreen!OnlySentLeaves /\ KioskScreen!OldIsMissed]_vars
  <1> DEFINE Inv == part = "screen" => ScreenInv /\ NewestInv
             Shows == part = "screen" => KioskScreen!OnlySentLeaves /\ KioskScreen!OldIsMissed
  <1>1. Init => Inv
    BY ScreenInit, NewestInit DEF Init
  <1>2. ASSUME Inv, [Next]_vars PROVE Inv' /\ Shows
    BY <1>2, ScreenForward, StepOfPart
  <1> QED
    BY <1>1, <1>2, PTL DEF Spec
=============================================================================
