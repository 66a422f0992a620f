-------------------------------- MODULE Wifi --------------------------------
(***************************************************************************)
(* How the mirror stays reachable over one radio: NetworkManager, the check *)
(* at boot and its watch (mirrordash-wifi-check.sh), the app's requests that *)
(* change the network, its remembered hotspot state, and the page that is on *)
(* the screen meanwhile.                                                    *)
(***************************************************************************)
EXTENDS Naturals, FiniteSets

CONSTANTS Networks,       \* names of Wi-Fi networks
          WifiScenes,     \* what may happen in a behaviour
          Off, Hotspot,   \* what the radio does besides being on one of the networks
          None            \* nothing, where a network or an answer could be

WifiAssumption == \A s \in WifiScenes : s.saved \subseteq Networks

VARIABLES radio,     \* Off, Hotspot or the network joined
          air,       \* networks in range whose router is up
          saved,     \* profiles of networks in NetworkManager
          wrong,     \* those with a wrong password
          link,      \* the rest of the world: [chip, passes, cable, phone]
          up,        \* "off", "boot" (the check at boot runs before the app starts), "up"
          watch,     \* the watch: "idle", "waits", "retries", "rejoins", "tells"
          rounds,    \* watch rounds without traffic, and the step taken for a hung chip
          stamp,     \* the card's note of the last restart for the chip is less than an hour old
          job,       \* the app's requests that change the network
          seen,      \* the remembered hotspot state: TRUE, FALSE, None (ask again)
          asked,     \* an answer NetworkManager gave that is not remembered yet
          page,      \* on the screen: "mirror", "prompt" (the hotspot's name and password) or "none"
          net,       \* the internet monitor: [fails, online]
          left,      \* how much of each kind of happening is left
          wifi,      \* the scene played
          since      \* histories: restarts for the chip in the last hour; the steps taken since traffic flowed

nm == <<radio, saved, wrong>>
app == <<job, seen, asked, page, net>>
vars == <<radio, air, saved, wrong, link, up, watch, rounds, stamp, job, seen, asked, page, net, left, wifi, since>>

Jobs == {"setup", "restore", "switch"}
NoJob == [pc |-> "idle", net |-> None, right |-> TRUE, from |-> FALSE, active |-> None, was |-> FALSE]
Monitor == [fails |-> 0, online |-> TRUE]
NoRounds == [fails |-> 0, step |-> 0]
MaxFails == 5  \* bound: rounds without traffic are told apart up to here

Init == /\ wifi \in WifiScenes /\ left = wifi.left
        /\ radio = Off /\ air \in SUBSET Networks /\ saved = wifi.saved /\ wrong = {}
        /\ link = [chip |-> "ok", passes |-> TRUE, cable |-> FALSE, phone |-> FALSE]
        /\ up = "boot" /\ watch = "idle" /\ rounds = NoRounds /\ stamp = FALSE
        /\ job = [j \in Jobs |-> NoJob] /\ seen = None /\ asked = None /\ page = "none" /\ net = Monitor
        /\ since = [restarts |-> 0, steps |-> {}]

OnWifi == radio \in Networks
Online == radio # Off \/ link.cable                   \* nm-online: any connection counts, the hotspot too
Passes == link.cable \/ (OnWifi /\ link.chip = "ok" /\ link.passes)
Joinable == IF link.chip = "ok" THEN (saved \intersect air) \ wrong ELSE {}
Happens(what) == left[what] > 0 /\ left' = [left EXCEPT ![what] = @ - 1]

\* is_wifi_hotspot_active: what is remembered, for a few seconds, or what NetworkManager says.  An answer that
\* is remembered and forgotten again before anything else happens is left out; Asks and Remembers are the others.
HotspotSeen == IF seen = None THEN radio = Hotspot ELSE seen
ShownPage == IF HotspotSeen THEN "prompt" ELSE "mirror"

-----------------------------------------------------------------------------
(* The world, and what NetworkManager does by itself.                      *)

RouterGoes(n) ==
  /\ n \in air /\ Happens("routers") /\ air' = air \ {n} /\ radio' = IF radio = n THEN Off ELSE radio
  /\ UNCHANGED <<saved, wrong, link, up, watch, rounds, stamp, app, wifi, since>>

RouterComes(n) ==
  /\ n \notin air /\ Happens("routers") /\ air' = air \union {n}
  /\ UNCHANGED <<nm, link, up, watch, rounds, stamp, app, wifi, since>>

JoinsByItself ==  \* a saved network in range, whenever the radio does nothing
  /\ up # "off" /\ radio = Off /\ radio' \in Joinable
  /\ UNCHANGED <<air, saved, wrong, link, up, watch, rounds, stamp, app, left, wifi, since>>

LinkChanges(part, value) ==
  /\ link[part] # value /\ link' = [link EXCEPT ![part] = value]
  /\ UNCHANGED <<nm, air, up, watch, rounds, stamp, app, wifi, since>>
PhoneMoves == (link.phone \/ radio = Hotspot) /\ Happens("phone") /\ LinkChanges("phone", ~link.phone)
TrafficMoves == Happens("traffic") /\ LinkChanges("passes", ~link.passes)
ChipHangs == link.chip = "ok" /\ OnWifi /\ Happens("hangs") /\ LinkChanges("chip", "hung")
CableGoes == link.cable /\ Happens("cable") /\ LinkChanges("cable", FALSE)

\* The dispatcher's cable hook: the hotspot goes, and the app is told.
CableComes ==
  /\ up # "off" /\ ~link.cable /\ Happens("cable") /\ link' = [link EXCEPT !.cable = TRUE]
  /\ IF radio = Hotspot /\ up = "up"
       THEN radio' = Off /\ seen' = None /\ page' = "mirror"
       ELSE radio' = (IF radio = Hotspot THEN Off ELSE radio) /\ UNCHANGED <<seen, page>>
  /\ UNCHANGED <<air, saved, wrong, up, watch, rounds, stamp, job, asked, net, wifi, since>>

HourPasses ==
  /\ since.restarts > 0 /\ since' = [since EXCEPT !.restarts = 0] /\ stamp' = FALSE
  /\ UNCHANGED <<nm, air, link, up, watch, rounds, app, left, wifi>>

-----------------------------------------------------------------------------
(* The mirror starts and restarts.                                         *)

\* Whatever is in RAM goes: the counts of the watch, the app and its requests.
Restarts == /\ up' = "off" /\ radio' = Off /\ watch' = "idle" /\ rounds' = NoRounds
            /\ job' = [j \in Jobs |-> NoJob] /\ seen' = None /\ asked' = None /\ page' = "none" /\ net' = Monitor

PowerReturns ==  \* the chip may not start
  /\ up = "off" /\ up' = "boot"
  /\ \E chip \in {"ok"} \union (IF left.hangs > 0 THEN {"absent"} ELSE {}) :
       link' = [link EXCEPT !.chip = chip, !.phone = FALSE]
  /\ UNCHANGED <<nm, air, watch, rounds, stamp, app, left, wifi, since>>

\* The check at boot; the app and the screen's first page come after its decision.
BootCheck ==
  /\ up = "boot" /\ up' = "up"
  /\ radio' = IF Online \/ link.chip # "ok" THEN radio ELSE Hotspot
  /\ page' = IF radio' = Hotspot THEN "prompt" ELSE "mirror"
  /\ UNCHANGED <<saved, wrong, air, link, watch, rounds, stamp, job, seen, asked, net, left, wifi, since>>

\* restart_for_wifi_chip: noted on the card first, and never twice within the hour.
RestartForChip_Anytime ==  \* (mutant) restarts whatever the note says
  /\ since.restarts < 2 /\ Restarts /\ stamp' = TRUE /\ since' = [since EXCEPT !.restarts = @ + 1, !.steps = {}]
RestartForChip ==
  IF stamp THEN watch' = "idle" /\ UNCHANGED <<radio, up, rounds, stamp, app, since>>
           ELSE Restarts /\ stamp' = TRUE /\ since' = [since EXCEPT !.restarts = @ + 1, !.steps = {}]

-----------------------------------------------------------------------------
(* The watch, every few minutes.                                           *)

WatchBegins ==
  /\ up = "up" /\ watch = "idle" /\ link.chip # "absent"
  /\ \/ /\ radio = Hotspot /\ saved # {} /\ ~link.phone    \* try the saved Wi-Fi again
        /\ radio' = Off /\ watch' = "retries"
     \/ radio # Hotspot /\ watch' = "waits" /\ UNCHANGED radio
  /\ UNCHANGED <<saved, wrong, air, link, up, rounds, stamp, app, left, wifi, since>>

\* recover_wifi_chip: there is no wlan0; its driver is loaded again.
RecoverChip ==
  /\ up = "up" /\ watch = "idle" /\ link.chip = "absent"
  /\ \/ link' = [link EXCEPT !.chip = "ok"] /\ UNCHANGED <<radio, up, watch, rounds, stamp, app, since>>
     \/ link.cable /\ UNCHANGED <<radio, up, watch, rounds, stamp, app, since, link>>
     \/ ~link.cable /\ RestartForChip /\ UNCHANGED link
  /\ UNCHANGED <<saved, wrong, air, left, wifi>>

\* join_saved_wifi on the hotspot's radio: a saved network, or back to the hotspot.
RetriesSaved ==
  /\ up = "up" /\ watch = "retries" /\ watch' = "tells"
  /\ IF Joinable # {} THEN radio' \in Joinable ELSE radio' = IF link.chip = "ok" THEN Hotspot ELSE Off
  /\ UNCHANGED <<saved, wrong, air, link, up, rounds, stamp, app, left, wifi, since>>

StartHotspot_AtBootOnly ==  \* (mutant) only the check at boot starts the hotspot
  /\ up = "up" /\ watch = "waits" /\ ~Online /\ watch' = "idle"
  /\ UNCHANGED <<nm, air, link, up, rounds, stamp, app, left, wifi, since>>

StartHotspot ==  \* nm-online timed out
  /\ up = "up" /\ watch = "waits" /\ ~Online /\ watch' = "tells"
  /\ radio' = IF link.chip = "ok" THEN Hotspot ELSE Off
  /\ UNCHANGED <<saved, wrong, air, link, up, rounds, stamp, app, left, wifi, since>>

\* tell_mirrordash and post_wifi_changed: the remembered state is forgotten and the page loads again.
Tell ==
  /\ up = "up" /\ watch = "tells" /\ watch' = "idle"
  /\ seen' = (radio = Hotspot) /\ page' = IF radio = Hotspot THEN "prompt" ELSE "mirror"
  /\ UNCHANGED <<nm, air, link, up, rounds, stamp, job, asked, net, left, wifi, since>>

Checks == up = "up" /\ watch = "waits" /\ Online
Fails == IF rounds.fails = MaxFails THEN MaxFails ELSE rounds.fails + 1

TrafficFlows ==
  /\ Checks /\ Passes /\ watch' = "idle" /\ rounds' = NoRounds /\ since' = [since EXCEPT !.steps = {}]
  /\ UNCHANGED <<nm, air, link, up, stamp, app, left, wifi>>

CountsRound ==  \* one round can be a router restarting
  /\ Checks /\ ~Passes /\ Fails < 2 /\ watch' = "idle" /\ rounds' = [rounds EXCEPT !.fails = Fails]
  /\ UNCHANGED <<nm, air, link, up, stamp, app, left, wifi, since>>

Rejoins ==
  /\ Checks /\ ~Passes /\ Fails >= 2 /\ link.chip # "hung"
  /\ rounds' = [rounds EXCEPT !.fails = Fails] /\ radio' = Off /\ watch' = "rejoins"
  /\ UNCHANGED <<saved, wrong, air, link, up, stamp, app, left, wifi, since>>

RejoinsSaved ==
  /\ up = "up" /\ watch = "rejoins" /\ watch' = "idle"
  /\ IF Joinable = {} THEN UNCHANGED radio ELSE radio' \in Joinable
  /\ UNCHANGED <<saved, wrong, air, link, up, rounds, stamp, app, left, wifi, since>>

\* recover_hung_chip: one step a round, chosen by the number of the round.
HungChipStep ==
  /\ Checks /\ ~Passes /\ Fails >= 2 /\ link.chip = "hung"
  /\ \/ /\ Fails \in {2, 3} /\ rounds' = [fails |-> Fails, step |-> Fails]
        /\ \E chip \in {"ok", "hung"} \union (IF Fails = 3 THEN {"absent"} ELSE {}) :
             link' = [link EXCEPT !.chip = chip]
        /\ radio' = (IF link'.chip = "hung" THEN radio ELSE Off) /\ watch' = "idle"
        /\ since' = [since EXCEPT !.steps = @ \union {Fails}]
        /\ UNCHANGED <<up, stamp, app>>
     \/ /\ Fails > 3 /\ UNCHANGED link /\ RestartForChip
  /\ UNCHANGED <<saved, wrong, air, left, wifi>>

-----------------------------------------------------------------------------
(* The app's requests.                                                     *)

JobAsked(j, from, active) ==
  /\ up = "up" /\ job[j].pc = "idle" /\ Happens(j)
  /\ \E n \in Networks, right \in BOOLEAN :
       job' = [job EXCEPT ![j] = [pc |-> "asked", net |-> n, right |-> right, from |-> from, active |-> active,
                                  was |-> n \in saved]]
  /\ UNCHANGED <<nm, air, link, up, watch, rounds, stamp, seen, asked, page, net, wifi, since>>

\* The setup page's join comes from the hotspot when the remembered state says so; a backup's always does.
SetupAsked == JobAsked("setup", HotspotSeen, None)
RestoreAsked == JobAsked("restore", TRUE, None)
SwitchAsked == JobAsked("switch", FALSE, IF OnWifi THEN radio ELSE None)

\* connect_wifi takes the hotspot down first: one radio can't be a hotspot and a client at once.
TearsDown(j) ==
  /\ up = "up" /\ job[j].pc = "asked" /\ job' = [job EXCEPT ![j].pc = "joins"]
  /\ seen' = FALSE /\ radio' = IF radio = Hotspot THEN Off ELSE radio
  /\ UNCHANGED <<saved, wrong, air, link, up, watch, rounds, stamp, asked, page, net, left, wifi, since>>

Joined(j) ==
  /\ up = "up" /\ job[j].pc = "joins" /\ job[j].net \in air /\ link.chip = "ok"
  /\ job[j].right \/ job[j].net \in saved \ wrong
  /\ radio' = job[j].net /\ saved' = saved \union {job[j].net} /\ wrong' = wrong \ {job[j].net}
  /\ job' = [job EXCEPT ![j] = NoJob]
  /\ UNCHANGED <<air, link, up, watch, rounds, stamp, seen, asked, page, net, left, wifi, since>>

\* A wrong password leaves a profile behind; a network that isn't seen changes nothing.
NotJoined(j) ==
  /\ up = "up" /\ job[j].pc = "joins" /\ job' = [job EXCEPT ![j].pc = "failed"]
  /\ \/ /\ job[j].net \in air /\ link.chip = "ok" /\ ~job[j].right /\ job[j].net \notin saved \ wrong
        /\ radio' = Off /\ saved' = saved \union {job[j].net} /\ wrong' = wrong \union {job[j].net}
     \/ (job[j].net \notin air \/ link.chip # "ok") /\ UNCHANGED nm
  /\ UNCHANGED <<air, link, up, watch, rounds, stamp, seen, asked, page, net, left, wifi, since>>

\* restore_captive_ap; a restart only if even that fails.
HotspotBack(j) ==
  /\ up = "up" /\ job[j].pc = "failed" /\ job[j].from
  /\ IF link.chip = "ok"
       THEN radio' = Hotspot /\ seen' = TRUE /\ job' = [job EXCEPT ![j] = NoJob]
            /\ UNCHANGED <<up, watch, rounds, asked, page, net>>
       ELSE Restarts
  /\ UNCHANGED <<saved, wrong, air, link, stamp, left, wifi, since>>

NothingBack(j) ==
  /\ up = "up" /\ j = "setup" /\ job[j].pc = "failed" /\ ~job[j].from /\ job' = [job EXCEPT ![j] = NoJob]
  /\ UNCHANGED <<nm, air, link, up, watch, rounds, stamp, seen, asked, page, net, left, wifi, since>>

SwitchesBack_Deletes ==  \* (mutant) the profile goes though it was saved before
  /\ up = "up" /\ job.switch.pc = "failed" /\ job' = [job EXCEPT !.switch = NoJob]
  /\ saved' = saved \ {job.switch.net} /\ wrong' = wrong \intersect saved'
  /\ radio' = IF job.switch.active \in Joinable THEN job.switch.active ELSE radio
  /\ UNCHANGED <<air, link, up, watch, rounds, stamp, seen, asked, page, net, left, wifi, since>>

\* switch_wifi: the profile this attempt made is deleted, and the network it was on joined again.
SwitchesBack ==
  /\ up = "up" /\ job.switch.pc = "failed" /\ job' = [job EXCEPT !.switch = NoJob]
  /\ saved' = (IF job.switch.was THEN saved ELSE saved \ {job.switch.net}) /\ wrong' = wrong \intersect saved'
  /\ radio' = IF job.switch.active \in Joinable THEN job.switch.active
              ELSE IF job.switch.active # None \/ radio \in saved \ saved' THEN Off ELSE radio
  /\ UNCHANGED <<air, link, up, watch, rounds, stamp, seen, asked, page, net, left, wifi, since>>

-----------------------------------------------------------------------------
(* The remembered state, the page and the internet monitor.                *)

Asks ==
  /\ up = "up" /\ seen = None /\ asked = None /\ Happens("asks") /\ asked' = (radio = Hotspot)
  /\ UNCHANGED <<nm, air, link, up, watch, rounds, stamp, job, seen, page, net, wifi, since>>

Remembers ==
  /\ asked # None /\ seen' = asked /\ asked' = None
  /\ UNCHANGED <<nm, air, link, up, watch, rounds, stamp, job, page, net, left, wifi, since>>

Expires_Never ==  \* (mutant) the state is asked once and remembered for good
  FALSE /\ UNCHANGED vars

Expires ==
  /\ seen # None /\ seen' = None
  /\ UNCHANGED <<nm, air, link, up, watch, rounds, stamp, job, asked, page, net, left, wifi, since>>

\* The prompt asks every 5 s; so does the page before a password is set, but the mirror's own page doesn't.
PagePolls ==
  /\ up = "up" /\ (page = "prompt" \/ (page = "mirror" /\ ~wifi.password)) /\ page' = ShownPage
  /\ page' # page
  /\ UNCHANGED <<nm, air, link, up, watch, rounds, stamp, job, seen, asked, net, left, wifi, since>>

\* InternetMonitor.check: offline after two failed checks in a row, online at the first that works.
InternetCheck ==
  /\ up = "up" /\ wifi.monitor
  /\ net' = IF Passes THEN Monitor
            ELSE LET fails == IF net.fails < 2 THEN net.fails + 1 ELSE 2
                 IN  [fails |-> fails, online |-> net.online /\ fails < 2]
  /\ net' # net
  /\ UNCHANGED <<nm, air, link, up, watch, rounds, stamp, job, seen, asked, page, left, wifi, since>>

-----------------------------------------------------------------------------
World == \/ \E n \in Networks : RouterGoes(n) \/ RouterComes(n)
         \/ JoinsByItself \/ PhoneMoves \/ TrafficMoves \/ ChipHangs \/ CableGoes \/ CableComes \/ HourPasses
WatchStep == \/ WatchBegins \/ RecoverChip \/ RetriesSaved \/ StartHotspot \/ Tell \/ TrafficFlows \/ CountsRound
             \/ Rejoins \/ RejoinsSaved \/ HungChipStep
JobStep(j) == TearsDown(j) \/ Joined(j) \/ NotJoined(j) \/ HotspotBack(j) \/ NothingBack(j) \/ (j = "switch" /\ SwitchesBack)
Next == \/ World \/ PowerReturns \/ BootCheck \/ WatchStep \/ SetupAsked \/ RestoreAsked \/ SwitchAsked \/ (\E j \in Jobs : JobStep(j))
        \/ Asks \/ Remembers \/ Expires \/ PagePolls \/ InternetCheck

\* systemd starts the checks, the event loop runs the requests, the timers of page, memory and monitor go off.
Fairness == /\ WF_vars(PowerReturns) /\ WF_vars(BootCheck) /\ WF_vars(WatchStep)
            /\ \A j \in Jobs : WF_vars(JobStep(j))
            /\ WF_vars(Remembers) /\ WF_vars(Expires) /\ WF_vars(InternetCheck) /\ WF_vars(PagePolls)
Spec == Init /\ [][Next]_vars /\ Fairness

-----------------------------------------------------------------------------
(* What must hold.                                                         *)

TypeOK == /\ radio \in Networks \union {Off, Hotspot} /\ air \subseteq Networks
          /\ wrong \subseteq saved /\ saved \subseteq Networks
          /\ watch \in {"idle", "waits", "retries", "rejoins", "tells"} /\ up \in {"off", "boot", "up"}
          /\ rounds \in [fails : 0..MaxFails, step : {0, 2, 3}] /\ stamp \in BOOLEAN
          /\ seen \in BOOLEAN \union {None} /\ asked \in BOOLEAN \union {None} /\ net \in [fails : 0..2, online : BOOLEAN]

\* A mirror that is running is never left with neither Wi-Fi, hotspot nor cable for good, whatever the routers
\* do and whatever join fails half-way, unless its chip does not work (the watch, post_wifi_setup, switch_wifi).
WayIn == (up = "up" /\ ~Online) ~> (Online \/ link.chip # "ok")

\* The screen follows the radio: it does not keep the setup prompt once the mirror is on a Wi-Fi, and as long as
\* no password is set it does not keep the other page while the hotspot is up; the offline badge follows too.
ScreenFollows ==
  /\ (<>[](up = "up" /\ OnWifi)) => <>[](page = "mirror")
  /\ (<>[](up = "up" /\ radio = Hotspot /\ ~wifi.password)) => <>[](page = "prompt")
  /\ (<>[](up = "up" /\ Passes)) => <>[]net.online
  /\ (<>[](up = "up" /\ ~Passes /\ wifi.monitor)) => <>[](~net.online)

\* A chip that is really broken does not make the mirror restart over and over: at most one restart an hour,
\* although everything but the note on the card is lost in between (restart_for_wifi_chip).
RestartsAreRare == TypeOK /\ since.restarts <= 1

\* A network that was saved and works keeps its profile, whatever is tried with it later (switch_wifi).
KeepsSaved == saved \ wrong \subseteq saved'

\* What the documents say and the code does not keep.
\* The mirror restarts for a hung chip only after the weaker steps were tried.
RestartIsLastResort == (HungChipStep /\ up' = "off") => since.steps = {2, 3}
\* A new mirror's hotspot stays up, also after a wrong password was typed.
NewHotspotStays == (radio = Hotspot /\ watch' = "retries" /\ watch # "retries") => saved # wrong
\* A phone in the middle of setup keeps its hotspot.
KeepsPhone == (radio = Hotspot /\ link.phone /\ radio' # Hotspot) => ~WatchStep
=============================================================================
