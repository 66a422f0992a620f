---------------------------- MODULE KioskScreen ----------------------------
(***************************************************************************)
(* What the core sends the mirror's screen (features/kiosk/ws.py, its      *)
(* ConnectionManager): each module's latest card, kept for a page that     *)
(* connects later, and the updates held while a module plays a video,      *)
(* which go out on each whole minute and when the last video stops.        *)
(* The callers are the tasks of features/modules/client.py that serve one  *)
(* instance's connection each; they change the manager's sets before they  *)
(* wait for the screen to take a message, and go on when it did, or when   *)
(* SEND_TIMEOUT dropped it.                                                *)
(***************************************************************************)
EXTENDS Integers, Sequences, SequencesExt

CONSTANTS
  Instances,   \* the module instances
  Conns,       \* the connections of their processes, one after the other
  InstanceOf,  \* the instance of each
  Screens      \* the kinds of screen, each with its bounds: the cards an instance sends, the page's WebSockets,
               \* the calls of reload_modules, the videos that start, and the connections

\* A screen is greeted in one go, or may take its time with that, or may also hang, or go away while messages wait
\* for it.
Kinds == {"quick", "slow", "hangs"}

KioskScreenAssumption ==
  /\ InstanceOf \in [Conns -> Instances]
  /\ Screens \subseteq [kind : Kinds, cards : Nat, sockets : Nat \ {0}, reloads : Nat, videos : Nat, conns : SUBSET Conns]
  /\ \A s \in Screens : Conns \cap (1..s.videos) = {}  \* whoever waits is one of them or a task

None    == 0

VARIABLES
  players,  \* video_players
  pending,  \* pending: the instances whose update waits for the next whole minute
  latest,   \* latest_messages: each instance's card, or 0
  minute,   \* _minute_task
  task,     \* the _each_minute tasks: whether it runs, and the send_pending it is in
  socket,   \* each WebSocket of the page: what the page shows, what it missed, and its greeting
  conn,     \* each instance connection's task: what it serves and the call it is in
  sending,  \* the callers that wait for the screen, in the order they began
  card,     \* each module's last card (client.py's conn.html)
  resend,   \* the instances whose card reload_modules' _sync still sends again
  run      \* the screen of this run, and its bounded steps: reloads made and videos started

vars == <<players, pending, latest, minute, task, socket, conn, sending, card, resend, run>>

Slow    == run.screen.kind # "quick"
Hangs   == run.screen.kind = "hangs"
Limit   == run.screen
Sockets == 1..Limit.sockets
Tasks   == 1..Limit.videos
Cards   == 0..Limit.cards

NoCards  == [i \in Instances |-> 0]
NewPage  == [st |-> "new", stalled |-> FALSE, video |-> FALSE, shown |-> NoCards, todo |-> NoCards, lost |-> {}]
NewTask  == [st |-> "new", rest |-> {}]
NewConn  == [st |-> "new", plays |-> FALSE, pc |-> "idle", rest |-> {}]

TypeOK ==
  /\ players \subseteq Instances /\ pending \subseteq Instances /\ resend \subseteq Instances
  /\ latest \in [Instances -> Cards] /\ card \in [Instances -> Cards]
  /\ minute \in Tasks \cup {None}
  /\ task \in [Tasks -> [st : {"new", "runs", "over"}, rest : SUBSET Instances]]
  /\ socket \in [Sockets -> [st : {"new", "hello", "cards", "up", "leaves", "gone"}, stalled : BOOLEAN, video : BOOLEAN,
                             shown : [Instances -> Cards], todo : [Instances -> Cards], lost : SUBSET Instances]]
  /\ conn \in [Conns -> [st : {"new", "up", "ended", "serve", "done", "stuck"}, plays : BOOLEAN,
                         pc : {"idle", "start", "stop", "pend"}, rest : SUBSET Instances]]
  /\ \A n \in DOMAIN sending : sending[n].by \in Conns \cup Tasks /\ sending[n].to \subseteq Sockets
  /\ \A n, m \in DOMAIN sending : sending[n].by = sending[m].by => n = m  \* one await each
  /\ run \in [screen : Screens, reloads : 0..Limit.reloads, videos : 0..Limit.videos]

Init ==
  /\ \E s \in Screens : run = [screen |-> s, reloads |-> 0, videos |-> 0]
  /\ players = {} /\ pending = {} /\ latest = NoCards /\ minute = None
  /\ task = [t \in Tasks |-> NewTask]
  /\ socket = [s \in Sockets |-> NewPage]
  /\ conn = [c \in Conns |-> NewConn]
  /\ sending = <<>> /\ card = NoCards /\ resend = {}

-----------------------------------------------------------------------------
(* _send: to every WebSocket connected now; the page takes it, unless it hangs. *)

Active  == {s \in Sockets : socket[s].st \in {"hello", "cards", "up", "leaves"}}
Taking  == {s \in Active : ~socket[s].stalled}
Showing == {s \in Taking : socket[s].st # "leaves"}  \* not told to reload

ShowVideo(on) == [s \in Sockets |-> IF s \in Taking THEN [socket[s] EXCEPT !.video = on] ELSE socket[s]]
ShowCard(i, v) == [s \in Sockets |-> IF s \in Taking THEN [socket[s] EXCEPT !.shown[i] = v, !.lost = @ \ {i}]
                                     ELSE socket[s]]

\* The caller waits until each of them took it.
Waits(by) == sending' = Append(sending, [by |-> by, to |-> Active])

Waiting(by) == \E n \in DOMAIN sending : sending[n].by = by

(* A message is through when everyone took it or SEND_TIMEOUT dropped who didn't, for each
   WebSocket in the order they were sent: the caller waits for it, of a prompt screen too (gather is given
   a task for each).  One to nobody is through at once: its caller goes on before anything else happens. *)
AtOnce(n) == sending[n].to = {}
Urgent    == \E n \in DOMAIN sending : AtOnce(n)

Through(n) ==
  /\ \A m \in 1..(n - 1) : sending[m].to \cap sending[n].to = {} /\ ~AtOnce(m)
  /\ Urgent => AtOnce(n)

Sent(n) ==
  /\ Through(n)
  /\ sending' = RemoveAt(sending, n)
  /\ socket' = [s \in Sockets |-> IF s \in sending[n].to /\ socket[s].stalled
                                  THEN [socket[s] EXCEPT !.st = "gone"] ELSE socket[s]]
  /\ UNCHANGED <<players, pending, latest, minute, task, conn, card, resend, run>>

-----------------------------------------------------------------------------
(* The page. *)

\* connect: counted in, then greeted with whether a video plays.
Hello == players # {}

PageConnects(s) ==
  /\ socket[s].st = "new" /\ \A r \in 1..(s - 1) : socket[r].st # "new"
  /\ socket' = [socket EXCEPT ![s] = [NewPage EXCEPT !.st = "hello", !.video = Hello]]
  /\ UNCHANGED <<players, pending, latest, minute, task, conn, sending, card, resend, run>>

\* Then every card there is, read once: those of a page that takes its time go out one by one.
Kept_None == NoCards  \* (mutant) the page waits for each module's next card
Kept == latest

PageGreeted(s) ==
  /\ socket[s].st = "hello" /\ ~socket[s].stalled
  /\ socket' = IF Slow THEN [socket EXCEPT ![s].st = "cards", ![s].todo = Kept]
                       ELSE [socket EXCEPT ![s].st = "up", ![s].shown = Kept, ![s].lost = {}]
  /\ UNCHANGED <<players, pending, latest, minute, task, conn, sending, card, resend, run>>

Old(s) == {i \in Instances : socket[s].todo[i] # latest[i]}  \* the page shows a newer card already

PageGetsCard(s) ==
  /\ socket[s].st = "cards" /\ ~socket[s].stalled
  /\ IF socket[s].todo = NoCards THEN socket' = [socket EXCEPT ![s].st = "up"]
     ELSE \E i \in Instances :
            /\ socket[s].todo[i] # 0
            /\ socket' = [socket EXCEPT ![s].shown[i] = socket[s].todo[i], ![s].todo[i] = 0,
                                        ![s].lost = (@ \ {i}) \cup ({i} \cap Old(s))]
  /\ UNCHANGED <<players, pending, latest, minute, task, conn, sending, card, resend, run>>

\* It hangs, or is closed (a reload, its own or the core's, a crash).
PageHangs(s) ==
  /\ Hangs /\ s \in Taking
  /\ socket' = [socket EXCEPT ![s].stalled = TRUE]
  /\ UNCHANGED <<players, pending, latest, minute, task, conn, sending, card, resend, run>>

PageCloses(s) ==
  /\ s \in Active /\ (Hangs \/ \A n \in DOMAIN sending : s \notin sending[n].to)
  /\ socket' = [socket EXCEPT ![s].st = "gone"]
  /\ UNCHANGED <<players, pending, latest, minute, task, conn, sending, card, resend, run>>

-----------------------------------------------------------------------------
(* Cards. *)

Held(i) == players # {} /\ i \notin players

\* broadcast, of a card: kept as the latest, and held while another module plays a video.
Broadcast(i) ==
  /\ latest' = [latest EXCEPT ![i] = card'[i]]
  /\ IF Held(i)
     THEN pending' = pending \cup {i} /\ UNCHANGED socket
     ELSE socket' = ShowCard(i, card'[i]) /\ UNCHANGED pending

SendsCard(i) ==
  /\ \E c \in Conns : InstanceOf[c] = i /\ conn[c].st = "up"
  /\ card[i] < Limit.cards /\ card' = [card EXCEPT ![i] = @ + 1]
  /\ Broadcast(i)
  /\ UNCHANGED <<players, minute, task, conn, sending, resend, run>>

\* reload_modules: nothing is kept, and the page told to reload; its sync sends the cards again.
ReloadModules ==
  /\ run.reloads < Limit.reloads /\ run' = [run EXCEPT !.reloads = @ + 1]
  /\ latest' = NoCards /\ pending' = {}
  /\ socket' = [s \in Sockets |-> IF s \in Taking THEN [socket[s] EXCEPT !.st = "leaves"] ELSE socket[s]]
  /\ resend' = {i \in Instances : card[i] # 0}
  /\ UNCHANGED <<players, minute, task, conn, sending, card>>

ResendsCard(i) ==
  /\ i \in resend /\ resend' = resend \ {i}
  /\ UNCHANGED card
  /\ IF latest[i] = card[i] THEN UNCHANGED <<latest, pending, socket>> ELSE Broadcast(i)
  /\ UNCHANGED <<players, minute, task, conn, sending, run>>

\* send_pending, of one it took: the latest card, if it was kept.
SendsLatest(by, i) == IF latest[i] = 0 THEN UNCHANGED <<socket, sending>>
                      ELSE socket' = ShowCard(i, latest[i]) /\ Waits(by)

-----------------------------------------------------------------------------
(* set_video_playing, of an instance's connection. *)

Done(c) == [conn[c] EXCEPT !.pc = "idle", !.rest = {},
                           !.st = IF conn[c].st = "serve" THEN "done" ELSE @]

\* Whether the page is told.
IsNews_Always(before, after) == TRUE  \* (mutant) every start and stop is told
IsNews(before, after) == (before # {}) # (after # {})

Over_OfNone(i) == players  \* (mutant) a stop is only told, not taken in
Over(i) == players \ {i}

SetVideoPlaying(c, on, now) ==
  LET i == InstanceOf[c] IN
  /\ players' = IF on THEN players \cup {i} ELSE Over(i)
  /\ IF ~IsNews(players, players')
     THEN conn' = [conn EXCEPT ![c] = IF now = "serve" THEN [NewConn EXCEPT !.st = "done"]
                                      ELSE [conn[c] EXCEPT !.plays = on]] /\ UNCHANGED <<socket, sending>>
     ELSE /\ conn' = [conn EXCEPT ![c] = [st |-> now, plays |-> on, rest |-> {},
                                          pc |-> IF on THEN "start" ELSE "stop"]]
          /\ socket' = ShowVideo(on) /\ Waits(c)

\* A process starts; another one of the same instance is gone from _instances by then.
ConnStarts(c) ==
  /\ conn[c].st = "new" /\ c \in Limit.conns
  /\ \A d \in Conns : InstanceOf[d] = InstanceOf[c] => conn[d].st # "up"
  /\ conn' = [conn EXCEPT ![c].st = "up"]
  /\ UNCHANGED <<players, pending, latest, minute, task, socket, sending, card, resend, run>>

\* Its video starts or stops (_handle: a stopped instance's messages are nothing).
ConnPlays(c, on) ==
  /\ conn[c].st = "up" /\ conn[c].pc = "idle" /\ conn[c].plays # on
  /\ on => run.videos < Limit.videos
  /\ run' = IF on THEN [run EXCEPT !.videos = @ + 1] ELSE run
  /\ SetVideoPlaying(c, on, "up")
  /\ UNCHANGED <<pending, latest, minute, task, card, resend>>

\* The process dies, or the core stops it, whatever its task is doing.
ConnEnds(c) ==
  /\ conn[c].st = "up"
  /\ conn' = [conn EXCEPT ![c].st = "ended"]
  /\ UNCHANGED <<players, pending, latest, minute, task, socket, sending, card, resend, run>>

\* _serve, when the connection was read to its end: its video is over.
ServeEnds(c) ==
  /\ conn[c].st = "ended" /\ conn[c].pc = "idle"
  /\ SetVideoPlaying(c, FALSE, "serve")
  /\ UNCHANGED <<pending, latest, minute, task, card, resend, run>>

\* After the first video's message: the held updates go out each minute.
VideoStarted(c) ==
  /\ conn[c].pc = "start" /\ ~Waiting(c)
  /\ \E t \in Tasks :
       /\ task[t].st = "new" /\ \A u \in 1..(t - 1) : task[u].st # "new"
       /\ task' = [task EXCEPT ![t].st = "runs"] /\ minute' = t
  /\ conn' = [conn EXCEPT ![c] = Done(c)]
  /\ UNCHANGED <<players, pending, latest, socket, sending, card, resend, run>>

\* After the last one's: the minute's task is cancelled, with what it took from pending and didn't send yet, and
\* what was held since goes out at once.
Cancelled_Not == task[minute]  \* (mutant) only forgotten
Cancelled == [st |-> "over", rest |-> {}]

Released_None == {}  \* (mutant) what was held is dropped
Released == pending

VideoStopped(c) ==
  /\ conn[c].pc = "stop" /\ ~Waiting(c) /\ minute # None
  /\ task' = [task EXCEPT ![minute] = Cancelled] /\ minute' = None
  /\ IF Waiting(minute) THEN \E n \in DOMAIN sending : sending[n].by = minute /\ sending' = RemoveAt(sending, n)
                        ELSE UNCHANGED sending
  /\ socket' = [s \in Sockets |-> [socket[s] EXCEPT !.lost = socket[s].lost \cup task[minute].rest]]
  /\ pending' = {} /\ conn' = [conn EXCEPT ![c].pc = "pend", ![c].rest = Released]
  /\ UNCHANGED <<players, latest, card, resend, run>>

\* None has no cancel(): the message counts as a bad one (_read), but _serve ends there.
VideoStopFails(c) ==
  /\ conn[c].pc = "stop" /\ ~Waiting(c) /\ minute = None
  /\ conn' = [conn EXCEPT ![c] = [Done(c) EXCEPT !.st = IF conn[c].st = "serve" THEN "stuck" ELSE @]]
  /\ UNCHANGED <<players, pending, latest, minute, task, socket, sending, card, resend, run>>

VideoSendsPending(c) ==
  /\ conn[c].pc = "pend" /\ ~Waiting(c)
  /\ IF conn[c].rest = {} THEN conn' = [conn EXCEPT ![c] = Done(c)] /\ UNCHANGED <<socket, sending>>
     ELSE \E i \in conn[c].rest :
            /\ conn' = [conn EXCEPT ![c].rest = @ \ {i}]
            /\ SendsLatest(c, i)
  /\ UNCHANGED <<players, pending, latest, minute, task, card, resend, run>>

\* _each_minute.
NextMinute_None == "over"  \* (mutant) it sends once
NextMinute == "runs"

MinutePasses(t) ==
  /\ task[t].st = "runs" /\ task[t].rest = {} /\ ~Waiting(t) /\ pending # {}
  /\ task' = [task EXCEPT ![t].rest = pending] /\ pending' = {}
  /\ UNCHANGED <<players, latest, minute, socket, conn, sending, card, resend, run>>

MinuteSends(t) ==
  /\ task[t].st = "runs" /\ ~Waiting(t)
  /\ \E i \in task[t].rest :
       /\ task' = [task EXCEPT ![t].rest = @ \ {i},
                               ![t].st = IF task[t].rest = {i} THEN NextMinute ELSE @]
       /\ SendsLatest(t, i)
  /\ UNCHANGED <<players, pending, latest, minute, conn, card, resend, run>>

-----------------------------------------------------------------------------
\* A call that waits for nobody runs until it does.
Running == \E c \in Conns : conn[c].pc # "idle" /\ ~Waiting(c)

RunStep == \E c \in Conns : VideoStarted(c) \/ VideoStopped(c) \/ VideoStopFails(c) \/ VideoSendsPending(c)

\* A minute's round too, but it may be cancelled before gather's tasks sent what it gave them.
MinuteStep == \E t \in Tasks : MinuteSends(t)

SendStep  == \E n \in DOMAIN sending : Sent(n)
GreetStep == \E s \in Sockets : PageGreeted(s) \/ PageGetsCard(s)

Next ==
  \/ Running /\ RunStep
  \/ ~Running /\ (SendStep \/ MinuteStep)
  \/ /\ ~Running /\ ~Urgent
     /\ \/ GreetStep \/ ReloadModules
        \/ \E s \in Sockets : PageConnects(s) \/ PageHangs(s) \/ PageCloses(s)
        \/ \E i \in Instances : SendsCard(i) \/ ResendsCard(i)
        \/ \E c \in Conns : ConnStarts(c) \/ ConnEnds(c) \/ ServeEnds(c) \/ \E on \in BOOLEAN : ConnPlays(c, on)
        \/ \E t \in Tasks : MinutePasses(t)

Spec == Init /\ [][Next]_vars

\* The event loop runs every task, a message is through after SEND_TIMEOUT at the latest, and
\* the minutes pass.
FairSpec ==
  /\ Spec /\ WF_vars(Running /\ RunStep) /\ WF_vars(~Running /\ SendStep) /\ WF_vars(~Running /\ MinuteStep)
  /\ SF_vars(~Running /\ ~Urgent /\ \E t \in Tasks : MinutePasses(t))

-----------------------------------------------------------------------------
(* Properties. *)

\* No call, greeting or minute's round is under way.
Quiet ==
  /\ sending = <<>> /\ resend = {}
  /\ \A c \in Conns : conn[c].pc = "idle"
  /\ \A t \in Tasks : task[t].rest = {}
  /\ \A s \in Showing : socket[s].st = "up"

\* At rest a page shows each module's latest card, or the card is held for the next minute, or the page missed it: it
\* was in a minute's round that the last stop cancelled, or an older one of the greeting came after it.  No other card
\* is lost between the cache, the held updates, the reloads, the greetings and the videos' ends, unless the page hangs.
CardsShown ==
  Quiet /\ ~Hangs =>
    \A s \in Showing, i \in Instances :
         socket[s].shown[i] = latest[i] \/ (i \in pending /\ players # {}) \/ i \in socket[s].lost

\* At rest one task sends the held updates while a video plays, and none while none does, unless the page
\* hangs: EndedIsAlwaysServed.
MinuteTaskFits ==
  Quiet /\ ~Hangs => {t \in Tasks : task[t].st = "runs"} = {minute} \ {None} /\ (minute # None) = (players # {})

\* A process that died inside video_is_playing plays no more (_serve's comment: the other modules
\* would update once a minute until the next restart).
DeadDontPlay ==
  \A i \in players : \E c \in Conns : InstanceOf[c] = i /\ conn[c].st \in {"up", "ended", "serve"}

\* _serve gets past set_video_playing, to what it does of an instance that ended ("start it again or, after
\* CRASH_LIMIT quick deaths in a row, pause it"), unless the page hangs.
EndedIsServed       == ~Hangs => \A c \in Conns : conn[c].st # "stuck"
EndedIsAlwaysServed == \A c \in Conns : conn[c].st # "stuck"

\* The page never goes back to an older card of a module ("Send the latest state", connect), but for one it missed a
\* newer card of: a page that takes its time gets the cards there were when it connected one by one, and one of them
\* after a newer one was broadcast.
NoCardGoesBack ==
  \A s \in Showing \cap Showing', i \in Instances : socket'[s].shown[i] >= socket[s].shown[i]
OldIsMissed ==
  \A s \in Showing \cap Showing', i \in Instances : socket'[s].shown[i] >= socket[s].shown[i] \/ i \in socket'[s].lost

\* A held update leaves only by going out, to every page there is ("the updates held meanwhile go
\* out on each whole minute, and at once when the last stops", set_video_playing), or with the minute's round that
\* the last stop cancels.
HeldUpdates ==
  pending \cup (UNION {task[t].rest : t \in Tasks}) \cup (UNION {conn[c].rest : c \in Conns})
LeftUnsent(i, s) ==
  i \in HeldUpdates \ HeldUpdates' /\ s \in Showing' /\ socket'[s].shown[i] # latest'[i]
OnlySentLeaves == \A i \in Instances, s \in Sockets : LeftUnsent(i, s) => i \in socket'[s].lost

\* What set_video_playing's comment says, and the code doesn't do: nothing is lost with the cancelled round.
AllShown ==
  Quiet /\ ~Slow =>
    \A s \in Showing, i \in Instances : socket[s].shown[i] = latest[i] \/ (i \in pending /\ players # {})
HeldAllGoOut == \A i \in Instances, s \in Sockets : ~LeftUnsent(i, s)

\* What is held goes out, on a whole minute or when the last video stops.
HeldGoOut == pending # {} ~> pending = {}
=============================================================================
