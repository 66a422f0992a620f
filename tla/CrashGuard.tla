----------------------------- MODULE CrashGuard -----------------------------
(***************************************************************************)
(* The guard against a crash loop of the mirror's screen                   *)
(* (features/kiosk/guard.py) with what feeds it: the page's word of which  *)
(* load it is (static/js/kiosk/core.js), the core's count of the loads it  *)
(* did not ask for (features/kiosk/ws.py), and the owner's saves.          *)
(* Clocks are ages in ticks, kept up to the first one that no longer       *)
(* matters; the page's ids are used again when nobody knows them.          *)
(***************************************************************************)
EXTENDS Integers, Sequences, FiniteSets, FiniteSetsExt, SequencesExt

CONSTANTS
  Names,       \* names of module instances
  Clocks,      \* those whose module is the clock (CLOCK_MODULES)
  Window,      \* WINDOW, in ticks
  Grace,       \* how long a load is put down to the reload asked for, in ticks
  Cause,       \* the instance whose settings crash the page's renderer
  Soon,        \* at the latest so many ticks after the page loaded
  AtRest,      \* whether the owner leaves the mirror alone while the guard holds modules
  MaxSaid,     \* bound: words of the page the core has not read yet
  MaxChanges,  \* bound: what the owner does
  MaxRestarts, \* bound: starts of the core
  MaxFaults,   \* bound: drops of the page's connection, and crashes the cause has no part in
  MaxMishaps   \* bound: starts, drops and crashes together

CrashGuardAssumption ==
  /\ IsFiniteSet(Names) /\ Clocks \subseteq Names /\ Cause \in Names \ Clocks /\ AtRest \in BOOLEAN
  /\ Grace \in Nat \ {0} /\ Soon \in Nat \ {0} /\ Window \in Nat /\ Grace + Soon <= Window
  /\ MaxSaid \in Nat \ {0} /\ MaxChanges \in Nat /\ MaxRestarts \in Nat
  /\ MaxFaults \in Nat /\ MaxMishaps \in Nat

Top   == 3
Never == Window + 1
NoId  == 0
Ids   == 1..(MaxSaid + 2)
Boots == {"none", "now", "old"}      \* page_boot: null, this start of the core, an earlier one
Whys  == {"crash", "asked", "own"}   \* why a page was loaded: what the core is to tell apart

VARIABLES
  instances, enabled, layers,  \* config["modules"]: there, switched on, in Background or Foreground
  rank,      \* who was saved or installed after whom: the times under "changed" and "installed"
  level, paused,               \* the guard's saved state: its step, and what it paused
  crashed,   \* the age of the last crash of "crashes"
  stepped,   \* the age of stepped_at
  known, stale,                \* the connection manager's page_id and page_stale
  asked,     \* the age of reload_asked_at
  played,    \* played_video
  reloads,   \* whether page_crashed or show_again still comes to reload_modules
  page,      \* the screen's page
  said,      \* what its pages said of their loads that the core has not read yet
  up,        \* how long the page is loaded
  blamed,    \* why the load was made that the core last counted as a crash
  changes, restarts, faults   \* bounds: how often

config == <<instances, enabled, layers, rank>>
guard  == <<level, paused, crashed, stepped>>
core   == <<known, stale, asked, played, reloads>>
screen == <<page, said, up>>
vars   == <<config, guard, core, screen, blamed, changes, restarts, faults>>

TypeOK ==
  /\ instances \subseteq Names /\ enabled \subseteq instances /\ layers \subseteq Names
  /\ rank \in [Names -> 0..Cardinality(Names)]
  /\ level \in 0..Top /\ paused \subseteq Names /\ crashed \in 0..Never /\ stepped \in 0..Never
  /\ known \in Ids \cup {NoId} /\ stale \in BOOLEAN /\ asked \in 0..Grace
  /\ played \subseteq Names /\ reloads \in BOOLEAN
  /\ page \in [id : Ids, heard : Boots, st : {"loads", "open", "up", "lost"}, told : BOOLEAN, why : Whys]
  /\ said \in BoundedSeq([id : Ids, boot : Boots, why : Whys], MaxSaid)
  /\ up \in 0..Soon /\ blamed \in Whys \cup {"none"}
  /\ changes \in 0..MaxChanges /\ restarts \in 0..MaxRestarts /\ faults \in 0..MaxFaults

Init ==
  /\ instances = Names /\ enabled = Names
  /\ layers \in {{}, Names \ Clocks}
  /\ rank = [n \in Names |-> 0]
  /\ level = 0 /\ paused = {} /\ crashed = Never /\ stepped = Never
  /\ known = NoId /\ stale = FALSE /\ asked = Grace /\ played = {} /\ reloads = FALSE
  /\ page = [id |-> 1, heard |-> "none", st |-> "loads", told |-> FALSE, why |-> "crash"]
  /\ said = <<>> /\ up = 0 /\ blamed = "none" /\ changes = 0 /\ restarts = 0 /\ faults = 0

-----------------------------------------------------------------------------
(* The guard                                                                *)

Shown == enabled \ paused

(* last_changed: the one shown instance with the latest time, as a set; no  *)
(* time at all or a tie tells nothing.                                      *)
LastChanged ==
  LET latest == {n \in Shown : rank[n] > 0 /\ \A o \in Shown : rank[o] <= rank[n]}
  IN  IF Cardinality(latest) = 1 THEN latest ELSE {}

ToPause(step) ==
  IF step = Top THEN instances \ Clocks
  ELSE LastChanged \cup (IF step = 2 THEN (layers \cup played) \cap instances ELSE {})

NewAt(step) == ToPause(step) \ paused

NextStepWithoutSkip == level + 1  \* (mutant) a step that pauses nothing is one too

(* The next step: a step that would pause nothing new goes on to the next.  *)
NextStep == Min({s \in (level + 1)..Top : s = Top \/ NewAt(s) # {}})

Due == IF level = 0 THEN crashed <= Window ELSE stepped <= Window

PageCrashedForgets ==  \* (mutant) a step takes the place of the one before
  /\ crashed' = 0
  /\ IF Due /\ level < Top
     THEN /\ level' = NextStep /\ paused' = NewAt(NextStep) /\ stepped' = 0 /\ reloads' = TRUE
     ELSE UNCHANGED <<level, paused, stepped, reloads>>

PageCrashedUntimed ==  \* (mutant) the time of the step is not noted
  /\ crashed' = 0 /\ UNCHANGED stepped
  /\ IF Due /\ level < Top
     THEN /\ level' = NextStep /\ paused' = paused \cup NewAt(NextStep) /\ reloads' = TRUE
     ELSE UNCHANGED <<level, paused, reloads>>

(* after_crash and page_crashed, up to its first await                      *)
PageCrashed ==
  /\ crashed' = 0
  /\ IF Due /\ level < Top
     THEN /\ level' = NextStep /\ paused' = paused \cup NewAt(NextStep) /\ stepped' = 0
          /\ reloads' = TRUE
     ELSE UNCHANGED <<level, paused, stepped, reloads>>

(* Ranks after the instances in s were saved or installed now               *)
Later(s) ==
  LET below(n) == {rank[o] : o \in {m \in Names \ s : rank[m] > 0 /\ (n \in s \/ rank[m] <= rank[n])}}
  IN  [n \in Names |-> IF n \notin s /\ rank[n] = 0 THEN 0
                       ELSE Cardinality(below(n)) + (IF n \in s THEN 1 ELSE 0)]

StartsOver == level' = 0 /\ crashed' = Never /\ stepped' = Never

(* release: a module the guard paused comes back, and with none left the    *)
(* guard starts over.                                                       *)
Release(n) ==
  IF n \notin paused THEN UNCHANGED guard
  ELSE /\ paused' = paused \ {n}
       /\ IF paused' = {} THEN StartsOver ELSE UNCHANGED <<level, crashed, stepped>>

-----------------------------------------------------------------------------
(* The page                                                                 *)

NewId == Min({i \in Ids : i # known /\ \A k \in DOMAIN said : said[k].id # i})

Loads(why) ==
  /\ page' = [id |-> NewId, heard |-> "none", st |-> "loads", told |-> FALSE, why |-> why]
  /\ up' = 0

(* The renderer crashed and Cog runs again, or systemd or the watch started *)
(* the screen again.                                                        *)
ScreenCrashes ==
  /\ restarts + faults < MaxMishaps /\ faults < MaxFaults /\ faults' = faults + 1 /\ Loads("crash")
  /\ UNCHANGED <<config, guard, core, said, blamed, changes, restarts>>

(* The renderer runs out of memory once the page shows the cause.           *)
CauseCrashes ==
  /\ Cause \in Shown /\ page.st = "up" /\ said = <<>> /\ Loads("crash")
  /\ UNCHANGED <<config, guard, core, said, blamed, changes, restarts, faults>>

(* Its WebSocket opens: it says which load it is.                           *)
PageOpens ==
  /\ page.st \in {"loads", "lost"} /\ Len(said) < MaxSaid
  /\ page' = [page EXCEPT !.st = "open"]
  /\ said' = Append(said, [id |-> page.id, boot |-> page.heard, why |-> page.why])
  /\ UNCHANGED <<config, guard, core, up, blamed, changes, restarts, faults>>

(* hello: on another start of the core than its own the page reloads itself *)
PageHears ==
  /\ page.st = "open"
  /\ IF page.heard = "old" THEN Loads("own")
     ELSE page' = [page EXCEPT !.st = "up", !.heard = "now"] /\ UNCHANGED up
  /\ UNCHANGED <<config, guard, core, said, blamed, changes, restarts, faults>>

Heard == page.told /\ page.st # "open"

(* The reload it was sent, after the hello of that connection               *)
PageReloads ==
  /\ Heard /\ Loads("asked")
  /\ UNCHANGED <<config, guard, core, said, blamed, changes, restarts, faults>>

(* Its connection drops: a reload it was sent may be lost with it.          *)
PageLost ==
  /\ page.st \in {"open", "up"} /\ restarts + faults < MaxMishaps /\ faults < MaxFaults /\ faults' = faults + 1
  /\ \E told \in {FALSE, Heard} : page' = [page EXCEPT !.st = "lost", !.told = told]
  /\ UNCHANGED <<config, guard, core, said, up, blamed, changes, restarts>>

-----------------------------------------------------------------------------
(* The core                                                                 *)

CountsOwnReloads(m) == known \notin {NoId, m.id} /\ asked >= Grace \* (mutant) an older page is not told apart

(* Whether the core takes the load for a crash                              *)
Counts(m) == known \notin {NoId, m.id} /\ ~stale /\ asked >= Grace

(* page_loaded                                                              *)
PageLoaded ==
  /\ said # <<>> /\ said' = Tail(said)
  /\ LET m == Head(said)
     IN  /\ known' = m.id /\ stale' = (m.boot = "old")
         /\ IF Counts(m) THEN PageCrashed /\ blamed' = m.why
            ELSE UNCHANGED <<guard, reloads, blamed>>
  /\ UNCHANGED <<config, asked, played, page, up, changes, restarts, faults>>

(* reload_modules' broadcast of {"action": "reload"}                        *)
AsksReload ==
  /\ asked' = 0
  /\ page' = [page EXCEPT !.told = @ \/ page.st \in {"open", "up"}]
  /\ UNCHANGED <<known, stale, played, said, up, blamed, restarts, faults>>

(* The end of page_crashed and show_again, after broadcast_screen           *)
ReloadsModules ==
  /\ reloads /\ reloads' = FALSE /\ AsksReload
  /\ UNCHANGED <<config, guard, changes>>

VideoPlays(n) ==
  /\ n \in Shown \ played /\ played' = played \cup {n}
  /\ UNCHANGED <<config, guard, known, stale, asked, reloads, screen, blamed, changes, restarts, faults>>

CoreRestarts ==
  /\ restarts + faults < MaxMishaps /\ restarts < MaxRestarts /\ restarts' = restarts + 1
  /\ known' = NoId /\ stale' = FALSE /\ asked' = Grace /\ played' = {} /\ reloads' = FALSE
  /\ said' = <<>>
  /\ \E told \in {FALSE, Heard} :
       page' = [page EXCEPT !.st = IF @ = "loads" THEN @ ELSE "lost", !.told = told,
                            !.heard = IF @ = "now" THEN "old" ELSE @]
  /\ UNCHANGED <<config, guard, up, blamed, changes, faults>>

(* A tick is minutes: a load, its word and a reload asked for take seconds, *)
(* and the settings that crash the page do so within Soon.                  *)

Older(age, end) == IF age < end THEN age + 1 ELSE age

Tick ==
  /\ page.st \in {"up", "lost"} /\ ~page.told /\ said = <<>> /\ ~reloads
  /\ Cause \in Shown => up < Soon
  /\ crashed' = Older(crashed, Never) /\ stepped' = Older(stepped, Never)
  /\ asked' = Older(asked, Grace) /\ up' = Older(up, Soon)
  /\ UNCHANGED <<config, level, paused, known, stale, played, reloads, page, said, blamed, changes, restarts, faults>>

-----------------------------------------------------------------------------
(* The owner                                                                *)

Changes == changes < MaxChanges /\ changes' = changes + 1 /\ (AtRest => level = 0)

(* save_module_config_route, of an instance that is there or a new one      *)
Save(n) ==
  /\ Changes
  /\ instances' = instances \cup {n}
  /\ enabled' = IF n \in instances THEN enabled ELSE enabled \cup {n}
  /\ \E l \in {{}, {n}} : layers' = (layers \ {n}) \cup l
  /\ rank' = Later({n}) /\ Release(n) /\ AsksReload /\ UNCHANGED reloads

RemoveInstance(n) ==
  /\ Changes /\ n \in instances
  /\ instances' = instances \ {n} /\ enabled' = enabled \ {n} /\ layers' = layers \ {n}
  /\ AsksReload /\ UNCHANGED <<rank, guard, reloads>>

(* set_instances_enabled                                                    *)
Toggle(n) ==
  /\ Changes /\ n \in instances
  /\ enabled' = IF n \in enabled THEN enabled \ {n} ELSE enabled \cup {n}
  /\ AsksReload /\ UNCHANGED <<instances, layers, rank, guard, reloads>>

(* Packages installed or updated: the instances of each get its time.       *)
Installed(s) ==
  /\ Changes /\ rank' = Later(s)
  /\ UNCHANGED <<instances, enabled, layers, guard, core, screen, blamed, restarts, faults>>

ShowAgain ==
  /\ Changes /\ paused' = {} /\ StartsOver /\ reloads' = TRUE
  /\ UNCHANGED <<config, known, stale, asked, played, screen, blamed, restarts, faults>>

Next ==
  \/ ScreenCrashes \/ CauseCrashes \/ PageOpens \/ PageHears \/ PageReloads \/ PageLost
  \/ PageLoaded \/ ReloadsModules \/ CoreRestarts \/ Tick \/ ShowAgain
  \/ \E n \in Names : VideoPlays(n) \/ Save(n) \/ RemoveInstance(n) \/ Toggle(n)
  \/ \E s \in (SUBSET Names) \ {{}} : Installed(s)

Spec == Init /\ [][Next]_vars

(* The page opens and hears the core again and again, the core reads what   *)
(* it says and finishes what it began, time passes, and the page crashes    *)
(* while the instance that crashes it is shown.                             *)
FairSpec ==
  /\ Spec
  /\ SF_vars(PageOpens) /\ SF_vars(PageHears) /\ SF_vars(PageReloads) /\ WF_vars(PageLoaded)
  /\ WF_vars(ReloadsModules) /\ SF_vars(CauseCrashes) /\ SF_vars(Tick)

-----------------------------------------------------------------------------
(* Only a load nobody asked for is a crash: never the page's own reload on  *)
(* another start of the core, nor one the core asked for, whatever was lost *)
(* or restarted in between (page_loaded).                                   *)
NoFalseCrash == blamed \in {"none", "crash"}

(* What the guard paused stays so, and its step stands, until the owner     *)
(* saves the module or presses Show Again: no crash and no restart lets go. *)
OwnerLetsGo == (paused \ paused' # {} \/ level' < level) => changes' > changes

(* A step below the top pauses something that was shown or could be, so     *)
(* that no crash is spent on a step that changes nothing (after_crash).     *)
PausesSomething == level' > level => paused' # paused \/ level' = Top
StepPauses      == [][PausesSomething]_vars

(* The crash loop ends: the instance whose settings crash the page is       *)
(* paused in the end, whatever else happens to the screen and the core.     *)
LoopEnds == <>[](Cause \notin Shown)

(* Step 2 pauses what is in Background or Foreground and what played a      *)
(* video, beside what step 1 paused (ARCHITECTURE #47).                     *)
StepTwoPausesLayers ==
  [][level = 1 /\ level' = 2 => paused' \subseteq paused \cup layers \cup played]_vars

(* With none of the mirror's modules left paused the guard has started over *)
(* (guard.py, release).                                                     *)
NoneLeftStartsOver == level \in 1..(Top - 1) => paused \cap instances # {}
=============================================================================
