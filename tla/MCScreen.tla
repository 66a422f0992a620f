------------------------------ MODULE MCScreen ------------------------------
(***************************************************************************)
(* What is on the mirror's screen: the cards and the videos the core sends  *)
(* to the page, what each module is told of its card, the video windows     *)
(* above the page.  Each has its own state: a behaviour is of one of them.  *)
(***************************************************************************)
EXTENDS Naturals, FiniteSets, Sequences, TLC

CONSTANTS a, b, a1, a2, b1, Played, Conns, InstanceOf, Screens,          \* KioskScreen's
          radio, Watched, FirstConfigs, MaxMoves, MaxDeaths,             \* CardShown's
          Windowed, Requests, Rates, Normal, MaxBlocks, MaxCrashes       \* Windows'

CONSTANT Parts  \* the components a configuration checks, of "screen", "card", "windows"

VARIABLES
  part,  \* which of them the behaviour is one of
  kioskscreen_players, pending, latest, minute, task, socket, conn, sending, card, resend, run,
  config, scheduled, scheduled_out, on, posted, telling, hidden, asked, sync, proc, overlapped, late, moves, deaths,
  block, module, ended, windows_players, rule, rate, left, blocks, crashes

KioskScreenVars == <<kioskscreen_players, pending, latest, minute, task, socket, conn, sending, card, resend, run>>
CardShownVars == <<config, scheduled, scheduled_out, on, posted, telling, hidden, asked, sync, proc, overlapped, late,
                   moves, deaths>>
WindowsVars == <<block, module, ended, windows_players, rule, rate, left, blocks, crashes>>

\* Two modules, one of whose processes may be started again.
Two  == (a1 :> a) @@ (a2 :> a) @@ (b1 :> b)

\* The radio marked for privacy or not, privacy mode on or not.
Marked == {[privacy |-> FALSE, marked |-> {}], [privacy |-> FALSE, marked |-> {radio}], [privacy |-> TRUE, marked |-> {radio}]}

\* The kinds of screen with their bounds: cards, sockets, reloads, videos, and the connections there are.
Screen(kind, cards, sockets, reloads, videos, conns) ==
  [kind |-> kind, cards |-> cards, sockets |-> sockets, reloads |-> reloads, videos |-> videos, conns |-> conns]
EachScreen == {Screen("quick", 1, 2, 1, 1, {a1, b1}), Screen("quick", 1, 1, 0, 2, {a1, a2, b1}),
               Screen("slow", 2, 1, 0, 1, {a1, b1}), Screen("slow", 1, 1, 0, 2, {a1, b1}),
               Screen("hangs", 0, 1, 0, 2, {a1, a2, b1})}
StuckScreen == {Screen("hangs", 0, 1, 0, 3, {a1, b1})}

\* A page that takes its time, and cards; one that doesn't, and videos.
SlowScreen  == {Screen("slow", 2, 1, 0, 0, {a1})}
QuickScreen == {Screen("quick", 1, 1, 0, 2, {a1, b1})}

KioskScreen == INSTANCE KioskScreen WITH
  players <- kioskscreen_players, Instances <- Played
CardShown == INSTANCE CardShown WITH
  Instances <- Watched
Windows == INSTANCE Windows WITH
  players <- windows_players, Instances <- Windowed

\* What a behaviour is not one of stays 0.
Init ==
  /\ part \in Parts
  /\ IF part = "screen" THEN KioskScreen!Init
     ELSE kioskscreen_players = 0 /\ pending = 0 /\ latest = 0 /\ minute = 0 /\ task = 0 /\ socket = 0 /\ conn = 0
          /\ sending = 0 /\ card = 0 /\ resend = 0 /\ run = 0
  /\ IF part = "card" THEN CardShown!Init
     ELSE config = 0 /\ scheduled = 0 /\ scheduled_out = 0 /\ on = 0 /\ posted = 0 /\ telling = 0 /\ hidden = 0
          /\ asked = 0 /\ sync = 0 /\ proc = 0 /\ overlapped = 0 /\ late = 0 /\ moves = 0 /\ deaths = 0
  /\ IF part = "windows" THEN Windows!Init
     ELSE block = 0 /\ module = 0 /\ ended = 0 /\ windows_players = 0 /\ rule = 0 /\ rate = 0 /\ left = 0
          /\ blocks = 0 /\ crashes = 0
Next ==
  \/ part = "screen" /\ KioskScreen!Next /\ UNCHANGED <<part, CardShownVars, WindowsVars>>
  \/ part = "card" /\ CardShown!Next /\ UNCHANGED <<part, KioskScreenVars, WindowsVars>>
  \/ part = "windows" /\ Windows!Next /\ UNCHANGED <<part, KioskScreenVars, CardShownVars>>
vars == <<part, KioskScreenVars, CardShownVars, WindowsVars>>

\* The fairness of KioskScreen and CardShown: the event loop runs every task, a message is through after SEND_TIMEOUT at
\* the latest, the minutes pass, and every wait of a sync or a process ends.
Fairness ==
  /\ WF_KioskScreenVars(part = "screen" /\ KioskScreen!Running /\ KioskScreen!RunStep)
  /\ WF_KioskScreenVars(part = "screen" /\ ~KioskScreen!Running /\ KioskScreen!SendStep)
  /\ WF_KioskScreenVars(part = "screen" /\ ~KioskScreen!Running /\ KioskScreen!MinuteStep)
  /\ SF_KioskScreenVars(part = "screen" /\ ~KioskScreen!Running /\ ~KioskScreen!Urgent
                          /\ \E t \in KioskScreen!Tasks : KioskScreen!MinutePasses(t))
  /\ WF_CardShownVars(part = "card" /\ CardShown!Works)
Spec == Init /\ [][Next]_vars
FairSpec == Spec /\ Fairness

ASSUME ScreenAssumption == KioskScreen!KioskScreenAssumption /\ CardShown!CardShownAssumption /\ Windows!WindowsAssumption

-----------------------------------------------------------------------------
(* Each property of a component, of that component's behaviours.           *)

\* At rest a page shows each module's latest card, or the card is held, or the page missed it (a cancelled round, a slow
\* greeting); one task sends the held updates while a video plays and none while none does, no dead process plays, and
\* a stop gets on to what it serves next (kiosk/ws.py, client._serve).
CardsShown ==
  part = "screen" => /\ KioskScreen!TypeOK /\ KioskScreen!CardsShown /\ KioskScreen!MinuteTaskFits
                     /\ KioskScreen!DeadDontPlay /\ KioskScreen!EndedIsServed
\* What is held goes out, on a whole minute or when the last video stops, and leaves only by going out to every page or
\* with a cancelled round (set_video_playing), and a page goes back to an older card only in a slow greeting (connect).
HeldGoOut ==
  /\ (part = "screen" /\ pending # {}) ~> (part # "screen" \/ pending = {})
  /\ [][part = "screen" => KioskScreen!OnlySentLeaves /\ KioskScreen!OldIsMissed]_vars
\* At rest a module knows whether its card is on the screen, and the core what it told the module, also when changes
\* overlap a sync (client.set_hidden, loader.shown, display_power.set_awake).
ModuleKnows == part = "card" => CardShown!TypeOK /\ CardShown!ModuleKnows /\ CardShown!CoreKnowsTold
\* When nothing changes any more every instance comes to run and to know whether its card is shown.
AllKnowInTheEnd == <>[](part = "card" => CardShown!AllKnow)
\* One video window at a time; when its block ends, by an error or a cancel too, the rule and the refresh rate are those
\* before it, but for what a crash or a failed step of the finally leaves, and it doesn't count as playing any more
\* (video_window, set_video_playing).
PutBack == part = "windows" => Windows!PutBack
\* What documents and comments say and the code doesn't do.
EndedIsAlwaysServed == part = "screen" => KioskScreen!EndedIsAlwaysServed
AllShown == part = "screen" => KioskScreen!AllShown
HeldAllGoOut == [][part = "screen" => KioskScreen!HeldAllGoOut]_vars
NoCardGoesBack == [][part = "screen" => KioskScreen!NoCardGoesBack]_vars
AllPutBack == part = "windows" => Windows!AllPutBack
HiddenAsSaved == part = "card" => CardShown!HiddenAsSaved
SleepsUnlessLate == part = "card" => CardShown!SleepsUnlessLate
SleepsUnlessOverlapped == part = "card" => CardShown!SleepsUnlessOverlapped
=============================================================================
