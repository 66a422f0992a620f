------------------------------- MODULE Inputs -------------------------------
(***************************************************************************)
(* A push button and the presence sensors on the header (hardware/          *)
(* inputs.py): the kernel queues what their contacts do, the app reads it,   *)
(* times it by its own clock and its timers, and tells what was pressed.    *)
(***************************************************************************)
EXTENDS Naturals, Sequences

CONSTANTS Bounce, Window, Long,  \* BOUNCE, MULTI_PRESS_WINDOW and the button's long_press, in ticks
          Horizon,               \* bound: ticks in a behaviour
          Sensors,               \* PRESENCE_TYPES
          InputScenes            \* how much of each kind of happening a behaviour has

InputsAssumption == /\ {Bounce, Window, Long, Horizon} \subseteq Nat
                    /\ 1 < Bounce /\ Bounce < Window /\ Window < Long /\ Bounce < Horizon
                    /\ InputScenes \subseteq [{"presses", "bounces", "strays", "stalls", "motions", "restarts"} -> Nat]

VARIABLES now,       \* the clock
          finger,    \* the owner: [down, at, held], at the last change, held: how long it was down before it
          contact,   \* the button's contact: [closed, at]
          kernel,    \* what the app has not read: the contact's events, in order
          button,    \* the PressClassifier: [count, down, lastdown, lastup, fired]
          polls,     \* the app's timers for it
          told,      \* the presses told (hardware.button)
          hand,      \* history: the presses as the finger made them: [shorts, made, mine]
          there,     \* each sensor: whether somebody is there
          opened,    \* whether the app reads the input devices
          presence,  \* GpioInputs.presence
          seen,      \* history: the sensors that changed since they were opened
          may        \* how much of each kind of happening is left

contacts == <<finger, contact, hand>>
classifier == <<button, polls, told>>
motion == <<there, presence, seen>>
vars == <<now, contacts, kernel, classifier, motion, opened, may>>

None == 0  \* no time: the clock starts later
NewClassifier == [count |-> 0, down |-> None, lastdown |-> None, lastup |-> None, fired |-> FALSE]
NewHand == [shorts |-> 0, made |-> <<>>, mine |-> FALSE]

Init == /\ now = Bounce + 1 /\ may \in InputScenes
        /\ finger = [down |-> FALSE, at |-> None, held |-> 0] /\ contact = [closed |-> FALSE, at |-> None]
        /\ kernel = <<>> /\ button = NewClassifier /\ polls = {} /\ told = <<>> /\ hand = NewHand
        /\ there = [s \in Sensors |-> FALSE] /\ presence = there /\ seen = {} /\ opened = FALSE

Happens(what) == may[what] > 0 /\ may' = [may EXCEPT ![what] = @ - 1]

-----------------------------------------------------------------------------
(* The owner's finger, and the contact that bounces after it moved.         *)

\* What the finger did, by its own times: a long press, or so many short ones.
Kind(count) == CASE count = 1 -> "single" [] count = 2 -> "double" [] OTHER -> "triple"
\* The owner is no closer to an edge than a bounce is long: clearly short or long, clearly one gesture or two.
ClearHold(held) == held < Long - Bounce \/ held >= Long
ClearGap(gap) == gap < Window \/ gap > Window + Bounce

Flips == /\ contact' = [closed |-> ~contact.closed, at |-> now]
         /\ kernel' = IF opened THEN Append(kernel, ~contact.closed) ELSE kernel

Presses == /\ ~finger.down /\ contact.closed = finger.down /\ now - contact.at >= Bounce /\ Happens("presses")
           /\ hand.shorts > 0 => ClearGap(now - finger.at)
           /\ Flips /\ finger' = [finger EXCEPT !.down = TRUE, !.at = now]
           /\ hand' = [hand EXCEPT !.mine = opened]
           /\ UNCHANGED <<now, classifier, motion, opened>>

Releases == /\ finger.down /\ contact.closed /\ now - contact.at >= Bounce /\ ClearHold(now - finger.at)
            /\ Flips /\ finger' = [down |-> FALSE, at |-> now, held |-> now - finger.at]
            /\ hand' = IF ~hand.mine THEN hand
                       ELSE IF now - finger.at >= Long
                         THEN [hand EXCEPT !.shorts = 0, !.made = Append(@, "long")]
                         ELSE [hand EXCEPT !.shorts = @ + 1]
            /\ UNCHANGED <<now, classifier, motion, opened, may>>

\* gpio-keys debounces less than a button bounces: the contact is away for less than Bounce.  A release that
\* counts as no short press, of a long one or of one begun unheard, bounces in a scene of its own.
NotCounted == ~finger.down /\ (finger.held >= Long \/ ~hand.mine)
Bounces == /\ now - finger.at < Bounce /\ Flips
           /\ IF contact.closed = finger.down
                THEN Happens(IF NotCounted THEN "strays" ELSE "bounces")
                ELSE UNCHANGED may
           /\ UNCHANGED <<now, finger, hand, classifier, motion, opened>>

-----------------------------------------------------------------------------
(* The app's reading of the button.                                        *)

Down_NoBounce(b) == [b EXCEPT !.down = now, !.fired = FALSE]  \* (mutant) every closing is a press
Down(b) ==
  LET bounced == b.count > 0 /\ now - b.lastup < Bounce
  IN  [b EXCEPT !.count = IF bounced THEN @ - 1 ELSE @, !.down = IF bounced THEN b.lastdown ELSE now, !.fired = FALSE]

\* up, and what it tells
Up(b) == IF b.down = None THEN b
         ELSE LET up == [b EXCEPT !.lastdown = b.down, !.down = None]
              IN  IF b.fired THEN up
                  ELSE IF now - b.down >= Long THEN [up EXCEPT !.count = 0]
                  ELSE [up EXCEPT !.count = @ + 1, !.lastup = now]
UpTells(b) == IF b.down # None /\ ~b.fired /\ now - b.down >= Long THEN <<"long">> ELSE <<>>

HeldLong == button.down # None /\ ~button.fired /\ now - button.down >= Long
Finished == button.down = None /\ button.count > 0 /\ now - button.lastup >= Window

\* _on_readable, _on_button: the next event, and a timer for what may be finished later.
Reads == /\ kernel # <<>> /\ kernel' = Tail(kernel)
         /\ IF Head(kernel)
              THEN button' = Down(button) /\ polls' = polls \cup {now + Long} /\ UNCHANGED told
              ELSE /\ button' = Up(button) /\ polls' = polls \cup {now + Window} /\ told' = told \o UpTells(button)
         /\ UNCHANGED <<now, contacts, motion, opened, may>>

\* _poll: a due timer, after what the kernel had to be read.
Polls == /\ kernel = <<>> /\ \E t \in polls : t <= now /\ polls' = polls \ {t}
         /\ CASE HeldLong -> /\ button' = [button EXCEPT !.fired = TRUE, !.count = 0]
                             /\ told' = Append(told, "long")
              [] Finished -> /\ button' = [button EXCEPT !.count = 0]
                             /\ told' = Append(told, Kind(button.count))
              [] OTHER -> UNCHANGED <<button, told>>
         /\ UNCHANGED <<now, contacts, kernel, motion, opened, may>>

\* The finger's short presses are a gesture of their own once the next one can't be meant with them.
Due == kernel # <<>> \/ \E t \in polls : t <= now
Passes == /\ now < Horizon /\ now' = now + 1
          /\ IF Due THEN Happens("stalls") ELSE UNCHANGED may
          /\ contact.closed # finger.down => now' - contact.at < Bounce /\ now' - finger.at < Bounce
          /\ hand' = IF ~finger.down /\ hand.shorts > 0 /\ now - finger.at >= Window + Bounce
                       THEN [hand EXCEPT !.shorts = 0, !.made = Append(@, Kind(hand.shorts))] ELSE hand
          /\ UNCHANGED <<finger, contact, kernel, classifier, motion, opened>>

-----------------------------------------------------------------------------
(* The input devices and the presence sensors.                             *)

Senses(s) == /\ Happens("motions") /\ there' = [there EXCEPT ![s] = ~@]
             /\ IF opened THEN presence' = [presence EXCEPT ![s] = there'[s]] /\ seen' = seen \cup {s}
                          ELSE UNCHANGED <<presence, seen>>
             /\ UNCHANGED <<now, contacts, kernel, classifier, opened>>

\* _watch, _open: looked for every few seconds; a contact's state is not read. Not within a bounce (bound).
Opens == /\ ~opened /\ now - finger.at >= Bounce /\ opened' = TRUE
         /\ UNCHANGED <<now, contacts, kernel, classifier, motion, may>>

\* The app stops (stop, _close) and starts with nothing of a press that was going on.
Restarts == /\ Happens("restarts") /\ opened' = FALSE /\ kernel' = <<>>
            /\ button' = NewClassifier /\ polls' = {} /\ presence' = [s \in Sensors |-> FALSE] /\ seen' = {}
            /\ hand' = [NewHand EXCEPT !.made = told]
            /\ UNCHANGED <<now, finger, contact, told, there>>

Next == Presses \/ Releases \/ Bounces \/ Reads \/ Polls \/ Passes \/ (\E s \in Sensors : Senses(s)) \/ Opens \/ Restarts
Spec == Init /\ [][Next]_vars

-----------------------------------------------------------------------------
(* What must hold.                                                         *)

TypeOK == /\ now \in 0..Horizon /\ button.count \in Nat /\ {button.down, button.lastdown, button.lastup} \subseteq 0..Horizon
          /\ presence \in [Sensors -> BOOLEAN] /\ polls \subseteq Nat /\ seen \subseteq Sensors

\* What is told is what the finger did: each gesture once, of its own kind, in order, however the contact bounces,
\* and a press that a restart of the app cut in two is not made up from its end (PressClassifier,
\* _on_button); presence is what the sensors show once they changed (_on_readable).
Quiet == ~finger.down /\ ~Due /\ hand.shorts = 0 /\ now - finger.at > Window + Bounce
PresenceIsTrue == \A s \in seen : presence[s] = there[s]
GesturesAsMade == TypeOK /\ PresenceIsTrue /\ (Quiet => told = hand.made)

\* "A contact that opens and closes again within this is one press" (BOUNCE), after a long press too: but Down
\* only looks for a bounce after a short one.
LongIsOnePress == Quiet /\ hand.mine => told = hand.made

=============================================================================
