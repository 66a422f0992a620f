------------------------------ MODULE OsUpdate ------------------------------
(***************************************************************************)
(* System updates: a release's bundle is written by RAUC into the half of   *)
(* the card that isn't running, started once on trial by the firmware, and  *)
(* kept only when the network and the app work with it.  The core decides   *)
(* what to install and counts what failed; rauc-bootloader, mark-good and   *)
(* update-p1 change what boots.                                             *)
(***************************************************************************)
EXTENDS Naturals

CONSTANTS MaxBuild,   \* the builds released: 1..MaxBuild, 1 is the one on the card at first
          Firmware,   \* the Pi firmware each build brings
          Tries,      \* OS_TRIAL_TRIES
          OsScenes    \* how often a behaviour has each kind of happening; see Happenings

Happenings == {"starts", "cuts", "app", "reboots", "hand", "wires", "checks"}
OsAssumption == /\ MaxBuild \in Nat \ {0} /\ Firmware \in [1..MaxBuild -> Nat \ {0}] /\ Tries \in Nat \ {0}
                       /\ OsScenes \subseteq [Happenings -> Nat]

VARIABLES slot,      \* boot and root partition of A and B: [build, ready, gpio, at]; build 0: nothing whole
          half,      \* the two places for p1: [fw, primary, whole]
          entry,     \* the half the partition table names: p1
          power,     \* "off" (the firmware is next) or "on"
          running, trial,  \* the slot that runs, and the device tree's tryboot
          armed,     \* the firmware's one-time tryboot flag
          rauc,      \* rauc install: [pc, build]
          job,       \* the core's job: "idle", "download", "install", "restarting"
          mark,      \* mirrordash-mark-good: "none", "wait", "good", "p1", "switch"
          newest,    \* the newest release
          pending,   \* os-update-pending, 0: no such file
          failed,    \* auto_update_failed: [build, times]
          wired,     \* the wiring the settings remember as written
          left,      \* how much of each kind of happening is left
          proven, tried, lost, late  \* histories: builds proven on trial, trial boots of each build, whether a
                                     \* trial came that no job started, whether wiring changed beside an update

card == <<slot, half, entry>>
up == <<power, running, trial, armed>>
core == <<job, pending, failed>>
histories == <<proven, tried, lost, late>>
vars == <<slot, half, entry, power, running, trial, armed, rauc, job, mark, newest, pending, failed, wired, left,
          proven, tried, lost, late>>

Builds == 1..MaxBuild
Other(s) == IF s = "A" THEN "B" ELSE "A"
NoRauc == [pc |-> "idle", build |-> 0]
primary == half[entry].primary          \* primary_partition, of the autoboot.txt that the firmware reads
Installed == slot[running].build
Whole(s) == slot[s].build # 0 /\ slot[s].ready
Uses(what) == left[what] > 0 /\ left' = [left EXCEPT ![what] = @ - 1]

Init == /\ slot = [s \in {"A", "B"} |-> [build |-> IF s = "A" THEN 1 ELSE 0, ready |-> s = "A", gpio |-> 0, at |-> 0]]
        /\ half = [h \in 1..2 |-> [fw |-> IF h = 1 THEN Firmware[1] ELSE 0, primary |-> "A", whole |-> h = 1]]
        /\ entry = 1 /\ power = "on" /\ running = "A" /\ trial = FALSE /\ armed = FALSE
        /\ rauc = NoRauc /\ job = "idle" /\ mark = "none" /\ newest = 1
        /\ pending = 0 /\ failed = [build |-> 0, times |-> 0] /\ wired = 0 /\ left \in OsScenes
        /\ proven = {1} /\ tried = [b \in Builds |-> 0] /\ lost = FALSE /\ late = FALSE

Release == /\ newest < MaxBuild /\ newest' = newest + 1
           /\ UNCHANGED <<card, up, rauc, core, mark, wired, left, histories>>

-----------------------------------------------------------------------------
(* The core.                                                               *)

Decides_Afresh ==  \* (mutant) every failure is the first
  IF pending = 0 \/ job \in {"download", "install"} THEN UNCHANGED <<pending, failed>>
  ELSE IF pending = Installed THEN pending' = (IF trial THEN pending ELSE 0) /\ UNCHANGED failed
  ELSE pending' = 0 /\ failed' = [build |-> pending, times |-> 1]

\* failed_os_update: what a check makes of an update that was started.
Decides ==
  IF pending = 0 \/ job \in {"download", "install"} THEN UNCHANGED <<pending, failed>>
  ELSE IF pending = Installed THEN pending' = (IF trial THEN pending ELSE 0) /\ UNCHANGED failed
  ELSE /\ pending' = 0
       /\ failed' = [build |-> pending, times |-> IF failed.build = pending THEN failed.times + 1 ELSE 1]

\* check_os_update by itself: the Updates card.
Checks == /\ power = "on" /\ pending # 0 /\ Uses("checks") /\ Decides
          /\ UNCHANGED <<card, up, rauc, job, mark, newest, wired, histories>>

Skipped(f) == IF f.times >= Tries THEN f.build ELSE 0   \* skipped_os_build

\* auto_update at night and trigger_os_update by hand: a check, then the job, in one step of the event loop.
Starts(nightly) ==
  /\ power = "on" /\ job = "idle" /\ Uses("starts") /\ Decides
  /\ newest > Installed /\ (nightly => newest # Skipped(failed'))
  /\ job' = "download"
  /\ UNCHANGED <<card, up, rauc, mark, newest, wired, histories>>

Downloads == /\ power = "on" /\ job = "download"
             /\ \/ job' = "idle" /\ UNCHANGED pending   \* the download fails: nothing was written
                \/ job' = "install" /\ pending' = newest
             /\ UNCHANGED <<card, up, rauc, mark, newest, failed, wired, left, histories>>

\* The end of update_os, when rauc has exited.
Exits(ok) == IF job = "install" THEN /\ job' = IF ok THEN "restarting" ELSE "idle"
                                     /\ pending' = IF ok THEN pending ELSE 0
                                ELSE UNCHANGED <<job, pending>>

-----------------------------------------------------------------------------
(* rauc install, with rauc-bootloader as its backend.                      *)

target == Other(running)

\* set-state bad: RAUC asks before it overwrites a slot, and is refused the one that boots.
MayOverwrite_Any(s) == TRUE  \* (mutant) never refused
MayOverwrite(s) == s # primary

RaucBegins ==
  /\ power = "on" /\ job = "install" /\ rauc = NoRauc
  /\ IF MayOverwrite(target) THEN /\ rauc' = [pc |-> "root", build |-> pending]
                                  /\ slot' = [slot EXCEPT ![target].build = 0, ![target].ready = FALSE, ![target].gpio = 0]
                                  /\ UNCHANGED <<job, pending>>
                             ELSE Exits(FALSE) /\ UNCHANGED <<rauc, slot>>
  /\ UNCHANGED <<half, entry, up, mark, newest, failed, wired, left, histories>>

\* A second install is refused while one runs; one install can also fail for itself (signature, card).
RaucRefuses == /\ power = "on" /\ job = "install" /\ rauc # NoRauc /\ lost
               /\ Exits(FALSE) /\ UNCHANGED <<card, up, rauc, mark, newest, failed, wired, left, histories>>
RaucFails == /\ power = "on" /\ rauc # NoRauc /\ rauc.pc # "activate" /\ rauc' = NoRauc /\ Exits(FALSE)
             /\ UNCHANGED <<card, up, mark, newest, failed, wired, left, histories>>

RaucWrites == /\ power = "on" /\ rauc.pc = "root" /\ rauc' = [rauc EXCEPT !.pc = "primary"]
              /\ slot' = [slot EXCEPT ![target].build = rauc.build]
              /\ UNCHANGED <<half, entry, up, core, mark, newest, wired, left, histories>>

\* set-primary of the slot just written: prepare_boot gives it its own root and this mirror's wiring, and
\* the firmware is asked for a trial.
SetPrimary_Bundle ==  \* (mutant) the bundle's own config.txt stays
  /\ power = "on" /\ rauc.pc = "primary" /\ rauc' = [rauc EXCEPT !.pc = "activate"]
  /\ slot' = [slot EXCEPT ![target].ready = TRUE] /\ armed' = TRUE
  /\ UNCHANGED <<half, entry, power, running, trial, core, mark, newest, wired, left, histories>>
SetPrimary == /\ power = "on" /\ rauc.pc = "primary" /\ rauc' = [rauc EXCEPT !.pc = "activate"]
              /\ slot' = [slot EXCEPT ![target].ready = TRUE, ![target].gpio = slot[running].gpio]
              /\ armed' = TRUE
              /\ UNCHANGED <<half, entry, power, running, trial, core, mark, newest, wired, left, histories>>

Latest == IF slot["A"].at > slot["B"].at THEN slot["A"].at ELSE slot["B"].at
Activate == /\ power = "on" /\ rauc.pc = "activate" /\ rauc' = NoRauc /\ Exits(TRUE)
            /\ slot' = [slot EXCEPT ![target].at = Latest + 1]
            /\ UNCHANGED <<half, entry, up, mark, newest, failed, wired, left, histories>>

-----------------------------------------------------------------------------
(* Restarts.                                                               *)

\* What runs is gone; the app's job with it.
Stops == power' = "off" /\ rauc' = NoRauc /\ job' = "idle" /\ mark' = "none"

Reboots == /\ power = "on" /\ Stops /\ IF job = "restarting" THEN UNCHANGED left ELSE Uses("reboots")
           /\ UNCHANGED <<card, running, trial, armed, newest, pending, failed, wired, histories>>

\* By hand, to test: reboot "0 tryboot".
HandTrial == /\ power = "on" /\ Uses("hand") /\ Stops /\ armed' = TRUE /\ lost' = (lost \/ pending # 0)
             /\ UNCHANGED <<card, running, trial, newest, pending, failed, wired, proven, tried, late>>

\* The flag does not outlive the power.
Cut == /\ Uses("cuts") /\ Stops /\ armed' = FALSE
       /\ UNCHANGED <<card, running, trial, newest, pending, failed, wired, histories>>

\* Only the app: RAUC, a service of its own, goes on.
AppRestarts == /\ power = "on" /\ Uses("app") /\ job' = "idle" /\ lost' = (lost \/ job = "install")
               /\ UNCHANGED <<card, up, rauc, mark, newest, pending, failed, wired, proven, tried, late>>

\* is-update-trial: the tryboot of the slot RAUC activated last.
IsUpdateTrial_Any(s) == TRUE  \* (mutant) every tryboot counts as an update's
IsUpdateTrial(s) == slot[s].at > slot[Other(s)].at

\* The firmware: the flag is cleared whatever happens.  A trial of a slot that isn't whole ends by itself
\* (no root: a panic) and the next start takes the primary one.
Boots ==
  LET s == IF armed THEN Other(primary) ELSE primary IN
  /\ power = "off" /\ half[entry].whole /\ armed' = FALSE
  /\ IF Whole(s) THEN /\ power' = "on" /\ running' = s /\ trial' = armed
                      /\ mark' = IF armed /\ IsUpdateTrial(s) THEN "wait" ELSE "none"
                      /\ tried' = IF armed /\ pending = slot[s].build THEN [tried EXCEPT ![pending] = @ + 1] ELSE tried
                 ELSE armed /\ UNCHANGED <<power, running, trial, mark, tried>>
  /\ UNCHANGED <<card, rauc, core, newest, wired, left, proven, lost, late>>

-----------------------------------------------------------------------------
(* mirrordash-mark-good and update-p1.                                     *)

\* GitHub and /health answer.
MarkProves == /\ power = "on" /\ mark = "wait" /\ mark' = "good"
              /\ proven' = proven \union {Installed}
              /\ UNCHANGED <<card, up, rauc, core, newest, wired, left, tried, lost, late>>

\* They don't in time: the log is saved and the mirror restarts.
MarkFails_Stays ==  \* (mutant) without OnFailure
  /\ power = "on" /\ mark = "wait" /\ mark' = "none"
  /\ UNCHANGED <<card, up, rauc, core, newest, wired, left, histories>>
MarkFails == /\ power = "on" /\ mark = "wait" /\ Stops
             /\ UNCHANGED <<card, running, trial, armed, newest, pending, failed, wired, left, histories>>

\* rauc status mark-good, set-state good: swap_primary's new autoboot.txt replaces the old one.
MarkGood == /\ power = "on" /\ mark = "good" /\ mark' = "p1"
            /\ half' = IF running # primary THEN [half EXCEPT ![entry].primary = running] ELSE half
            /\ UNCHANGED <<slot, entry, up, rauc, core, newest, wired, left, histories>>

\* update-p1, when the running system's firmware isn't p1's: the new p1 is built in the other half ...
BuildsHalf ==
  /\ power = "on" /\ mark = "p1"
  /\ IF half[entry].fw = Firmware[Installed] THEN mark' = "none" /\ UNCHANGED half
     ELSE /\ half' = [half EXCEPT ![3 - entry] = [fw |-> 0, primary |-> primary, whole |-> FALSE]]
          /\ mark' = "copy"
  /\ UNCHANGED <<slot, entry, up, rauc, core, newest, wired, left, histories>>

\* ... with autoboot.txt as it is now, and compared (a copy that differs ends it) ...
CopiesHalf == /\ power = "on" /\ mark = "copy"
              /\ \/ /\ half' = [half EXCEPT ![3 - entry] = [fw |-> Firmware[Installed], primary |-> primary, whole |-> TRUE]]
                    /\ mark' = "switch"
                 \/ mark' = "none" /\ UNCHANGED half
              /\ UNCHANGED <<slot, entry, up, rauc, core, newest, wired, left, histories>>

\* ... before the partition table names it.
SwitchesP1 == /\ power = "on" /\ mark = "switch" /\ mark' = "none" /\ entry' = 3 - entry
              /\ UNCHANGED <<slot, half, up, rauc, core, newest, wired, left, histories>>

\* Wiring saved: mirrordash-gpio-overlays writes the running slot's boot partition.
Wires == /\ power = "on" /\ Uses("wires") /\ wired' = 1 - wired
         /\ slot' = [slot EXCEPT ![running].gpio = 1 - wired]
         /\ late' = (late \/ running # primary \/ rauc.pc = "activate" \/ slot[target].at > slot[running].at)
         /\ UNCHANGED <<half, entry, up, rauc, core, mark, newest, proven, tried, lost>>

Next == \/ Release \/ Checks \/ Starts(TRUE) \/ Starts(FALSE) \/ Downloads
        \/ RaucBegins \/ RaucRefuses \/ RaucFails \/ RaucWrites \/ SetPrimary \/ Activate
        \/ Reboots \/ HandTrial \/ Cut \/ AppRestarts \/ Boots
        \/ MarkProves \/ MarkFails \/ MarkGood \/ BuildsHalf \/ CopiesHalf \/ SwitchesP1 \/ Wires

Spec == Init /\ [][Next]_vars

\* systemd and the firmware go on: a start is not put off, and mark-good's unit has its timeouts.
FairSpec == Spec /\ WF_vars(Boots) /\ WF_vars(MarkProves \/ MarkFails) /\ WF_vars(MarkGood)

-----------------------------------------------------------------------------

TypeOK ==
  /\ \A s \in {"A", "B"} : slot[s].build \in 0..MaxBuild /\ slot[s].ready \in BOOLEAN /\ slot[s].gpio \in 0..1
  /\ \A h \in 1..2 : half[h].primary \in {"A", "B"} /\ half[h].whole \in BOOLEAN
  /\ entry \in 1..2 /\ power \in {"off", "on"} /\ running \in {"A", "B"} /\ trial \in BOOLEAN /\ armed \in BOOLEAN
  /\ rauc.pc \in {"idle", "root", "primary", "activate"} /\ job \in {"idle", "download", "install", "restarting"}
  /\ mark \in {"none", "wait", "good", "p1", "copy", "switch"}
  /\ pending \in 0..MaxBuild /\ failed.build \in 0..MaxBuild

\* Whenever the power goes, the mirror starts again: the partition table names a whole p1 whose autoboot.txt
\* names a whole slot, and that slot is never the one being written ("nothing bootable would be left",
\* rauc-bootloader).
AlwaysBoots == TypeOK /\ half[entry].whole /\ Whole(primary) /\ (rauc # NoRauc => target # primary)

\* What boots normally was proven on a trial of its own (or came with the card), and is never older than
\* what did before: a trial by hand of an old slot doesn't keep it (is-update-trial).
KeepsProven == slot'[primary'].build \in proven' /\ slot'[primary'].build >= slot[primary].build
KeptIsProven == [][KeepsProven]_vars

\* A broken build costs the nights at most Tries trial boots: every one that was started is counted before
\* the next night's start.  Unless the app restarted while RAUC went on, or a trial was started by hand.
StopsNightly == Starts(TRUE) /\ ~lost /\ newest \notin proven => tried[newest] < Tries

\* An update's trial ends by itself: with the new system kept, or the old one running again.
TrialEnds == (power = "on" /\ mark = "wait") ~> (power = "on" /\ running = primary)

\* The slot that boots wires what the settings remember, from one system to the next, unless wiring was saved
\* while a newer system waited or was on trial in the other slot.
WiringFits == power = "on" /\ running = primary /\ ~late => slot[running].gpio = wired

-----------------------------------------------------------------------------
(* What comments and docs say that the code does not do.                   *)

\* "A system build whose trial boot failed is counted" (ARCHITECTURE.md): no more is counted than was tried.
CountsTrials == failed.build # 0 => failed.times <= tried[failed.build]
\* The wiring carried over to the new boot partition is this mirror's ("what belongs to this mirror").
WiringAlwaysFits == power = "on" => slot[running].gpio = wired
=============================================================================
