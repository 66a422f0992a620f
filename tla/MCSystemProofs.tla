--------------------------- MODULE MCSystemProofs ---------------------------
(* What holds of the mirror as a machine for every value of the constants: each
   component's inductive invariant, that its steps keep it, and what follows for the
   behaviours of all of them. *)
EXTENDS MCSystem, AppEnvProofs, TLAPS

(* A behaviour stays one of the component it began as, and each step is a step of that
   component, or leaves it alone. *)
LEMMA StepOfPart == ASSUME [SystemNext]_system_vars
  PROVE  /\ part' = part
         /\ part = "app" => [Next]_vars
         /\ part = "os" => [OsUpdate!Next]_OsUpdateVars
         /\ part = "wifi" => [Wifi!Next]_WifiVars
         /\ part = "boots" => [FirstBoot!Next]_FirstBootVars
BY DEF SystemNext, system_vars

-----------------------------------------------------------------------------
(* FirstBoot.                                                               *)

BootSteps == {"repart", "format", "storage", "modules", "copied", "clears", "mount", "seed", "python", "name", "cfg",
              "links", "off", "up", "stopped", "stuck"}

BootTypes ==
  /\ firstboot_part \in {"none", "raw", "data"} /\ firstboot_boot \in BootSteps /\ cuts \in 0..MaxCuts
  /\ image \in BOOLEAN /\ firstboot_storage \in BOOLEAN /\ data \in BOOLEAN /\ on \in BOOLEAN
  /\ python \in {"none", "moved", "named"} /\ reset \in {"no", "deletes", "failed", "cut"}
  /\ folder \subseteq Files /\ firstboot_saved \subseteq Files
  /\ img \in [there : BOOLEAN, files : SUBSET Files]
  /\ venv \in [home : {"none", FirstBoot!Root, FirstBoot!Storage}, bins : {"none", FirstBoot!Root, FirstBoot!Storage}]

\* What is behind a step of the boot: /storage is there; the Python a venv is pointed to has its name.
StepInv ==
  /\ firstboot_boot \notin {"repart", "format", "storage", "stopped", "off"} => firstboot_part = "data"
  /\ firstboot_boot = "copied" => ~img.there
  /\ firstboot_boot \in {"cfg", "links"} => python = "named"
  /\ reset = "deletes" => firstboot_boot = "up"

\* Where what modules saved is, until the owner resets the mirror: in their file system once it has its name, and in
\* the folder before; the folder is cleared only of what was copied.
SavedInv ==
  /\ ~img.there => img.files = {}
  /\ reset \in {"no", "deletes"} => firstboot_saved \subseteq folder \cup img.files
  /\ reset = "no" =>
       /\ img.there => firstboot_saved \subseteq img.files
       /\ on => img.there
       /\ firstboot_boot = "clears" \/ (firstboot_boot = "mount" /\ image) => img.there

\* What a reset deletes is gone when it says it is done.
OwnInv ==
  reset = "no" =>
    /\ data => firstboot_part = "data"
    /\ venv.home = FirstBoot!Storage \/ venv.bins = FirstBoot!Storage => python = "named"

BootsInv == BootTypes /\ StepInv /\ SavedInv /\ OwnInv

(* The first boot of a card finds nothing to lose.                         *)
LEMMA BootsInit == ASSUME FirstBoot!Init PROVE BootsInv
  <1>1. cuts \in 0..MaxCuts
    BY SystemAssumption DEF FirstBoot!FirstBootAssumption, FirstBoot!Init
  <1>2. BootTypes
    BY <1>1 DEF FirstBoot!Init, BootTypes, BootSteps, FirstBoot!Root, FirstBoot!Storage, FirstBoot!NoImg,
      FirstBoot!NoVenv
  <1>3. StepInv /\ SavedInv /\ OwnInv
    BY DEF FirstBoot!Init, StepInv, SavedInv, OwnInv, FirstBoot!Root, FirstBoot!Storage, FirstBoot!NoImg,
      FirstBoot!NoVenv
  <1> QED
    BY <1>2, <1>3 DEF BootsInv

(* No step of the boot, of the modules or of a reset loses what was saved.  *)
LEMMA BootsStep == ASSUME BootsInv, [FirstBoot!Next]_FirstBootVars PROVE BootsInv'
  <1> USE DEF BootsInv
  <1>1. CASE FirstBoot!Complete
    BY <1>1 DEF FirstBoot!Complete, FirstBoot!Step, FirstBoot!fs, FirstBoot!app, BootTypes, StepInv, SavedInv, OwnInv,
      BootSteps, FirstBoot!Root, FirstBoot!Storage, FirstBoot!NoImg, FirstBoot!NoVenv
  <1>2. CASE FirstBoot!AddsPartition
    BY <1>2 DEF FirstBoot!AddsPartition, FirstBoot!Step, FirstBoot!fs, FirstBoot!app, BootTypes, StepInv, SavedInv,
      OwnInv, BootSteps, FirstBoot!Root, FirstBoot!Storage, FirstBoot!NoImg, FirstBoot!NoVenv
  <1>3. CASE FirstBoot!Formats
    BY <1>3 DEF FirstBoot!Formats, FirstBoot!Step, FirstBoot!fs, FirstBoot!app, BootTypes, StepInv, SavedInv, OwnInv,
      BootSteps, FirstBoot!Root, FirstBoot!Storage, FirstBoot!NoImg, FirstBoot!NoVenv
  <1>4. CASE FirstBoot!MountsStorage
    BY <1>4 DEF FirstBoot!MountsStorage, FirstBoot!Step, FirstBoot!fs, FirstBoot!app, BootTypes, StepInv, SavedInv,
      OwnInv, BootSteps, FirstBoot!Root, FirstBoot!Storage, FirstBoot!NoImg, FirstBoot!NoVenv
  <1>5. CASE FirstBoot!Stops
    BY <1>5 DEF FirstBoot!Stops, FirstBoot!Step, FirstBoot!fs, FirstBoot!app, BootTypes, StepInv, SavedInv, OwnInv,
      BootSteps, FirstBoot!Root, FirstBoot!Storage, FirstBoot!NoImg, FirstBoot!NoVenv
  <1>6. CASE FirstBoot!HasImg
    BY <1>6 DEF FirstBoot!HasImg, FirstBoot!Step, FirstBoot!fs, FirstBoot!app, BootTypes, StepInv, SavedInv, OwnInv,
      BootSteps, FirstBoot!Root, FirstBoot!Storage, FirstBoot!NoImg, FirstBoot!NoVenv
  <1>7. CASE FirstBoot!MakesImg
    BY <1>7 DEF FirstBoot!MakesImg, FirstBoot!Step, FirstBoot!fs, FirstBoot!app, BootTypes, StepInv, SavedInv, OwnInv,
      BootSteps, FirstBoot!Root, FirstBoot!Storage, FirstBoot!NoImg, FirstBoot!NoVenv
  <1>8. CASE FirstBoot!NamesImg
    BY <1>8 DEF FirstBoot!NamesImg, FirstBoot!Step, FirstBoot!fs, FirstBoot!app, BootTypes, StepInv, SavedInv, OwnInv,
      BootSteps, FirstBoot!Root, FirstBoot!Storage, FirstBoot!NoImg, FirstBoot!NoVenv
  <1>9. CASE FirstBoot!ClearsFolder
    BY <1>9 DEF FirstBoot!ClearsFolder, FirstBoot!Step, FirstBoot!fs, FirstBoot!app, BootTypes, StepInv, SavedInv,
      OwnInv, BootSteps, FirstBoot!Root, FirstBoot!Storage, FirstBoot!NoImg, FirstBoot!NoVenv
  <1>10. CASE FirstBoot!MountsImg
    BY <1>10 DEF FirstBoot!MountsImg, FirstBoot!Step, FirstBoot!fs, FirstBoot!app, BootTypes, StepInv, SavedInv,
      OwnInv, BootSteps, FirstBoot!Root, FirstBoot!Storage, FirstBoot!NoImg, FirstBoot!NoVenv
  <1>11. CASE FirstBoot!Seeds
    BY <1>11 DEF FirstBoot!Seeds, FirstBoot!Step, FirstBoot!fs, FirstBoot!app, BootTypes, StepInv, SavedInv, OwnInv,
      BootSteps, FirstBoot!Root, FirstBoot!Storage, FirstBoot!NoImg, FirstBoot!NoVenv
  <1>12. CASE FirstBoot!PythonMoved
    BY <1>12 DEF FirstBoot!PythonMoved, FirstBoot!Step, FirstBoot!fs, FirstBoot!app, BootTypes, StepInv, SavedInv,
      OwnInv, BootSteps, FirstBoot!Root, FirstBoot!Storage, FirstBoot!NoImg, FirstBoot!NoVenv
  <1>13. CASE FirstBoot!CopiesPython
    BY <1>13 DEF FirstBoot!CopiesPython, FirstBoot!Step, FirstBoot!fs, FirstBoot!app, BootTypes, StepInv, SavedInv,
      OwnInv, BootSteps, FirstBoot!Root, FirstBoot!Storage, FirstBoot!NoImg, FirstBoot!NoVenv
  <1>14. CASE FirstBoot!NamesPython
    BY <1>14 DEF FirstBoot!NamesPython, FirstBoot!Step, FirstBoot!fs, FirstBoot!app, BootTypes, StepInv, SavedInv,
      OwnInv, BootSteps, FirstBoot!Root, FirstBoot!Storage, FirstBoot!NoImg, FirstBoot!NoVenv
  <1>15. CASE FirstBoot!HasPython
    BY <1>15 DEF FirstBoot!HasPython, FirstBoot!Step, FirstBoot!fs, FirstBoot!app, BootTypes, StepInv, SavedInv,
      OwnInv, BootSteps, FirstBoot!Root, FirstBoot!Storage, FirstBoot!NoImg, FirstBoot!NoVenv
  <1>16. CASE FirstBoot!MoveFails
    BY <1>16 DEF FirstBoot!MoveFails, FirstBoot!Step, FirstBoot!fs, FirstBoot!app, BootTypes, StepInv, SavedInv,
      OwnInv, BootSteps, FirstBoot!Root, FirstBoot!Storage, FirstBoot!NoImg, FirstBoot!NoVenv
  <1>17. CASE FirstBoot!CopyFails
    BY <1>17 DEF FirstBoot!CopyFails, FirstBoot!Step, FirstBoot!fs, FirstBoot!app, BootTypes, StepInv, SavedInv,
      OwnInv, BootSteps, FirstBoot!Root, FirstBoot!Storage, FirstBoot!NoImg, FirstBoot!NoVenv
  <1>18. CASE FirstBoot!Fails
    BY <1>18 DEF FirstBoot!Fails, FirstBoot!Step, FirstBoot!fs, FirstBoot!app, BootTypes, StepInv, SavedInv, OwnInv,
      BootSteps, FirstBoot!Root, FirstBoot!Storage, FirstBoot!NoImg, FirstBoot!NoVenv
  <1>19. CASE FirstBoot!PointsCfg
    BY <1>19 DEF FirstBoot!PointsCfg, FirstBoot!Step, FirstBoot!fs, FirstBoot!app, BootTypes, StepInv, SavedInv,
      OwnInv, BootSteps, FirstBoot!Root, FirstBoot!Storage, FirstBoot!NoImg, FirstBoot!NoVenv
  <1>20. CASE FirstBoot!PointsLinks
    BY <1>20 DEF FirstBoot!PointsLinks, FirstBoot!Step, FirstBoot!fs, FirstBoot!app, BootTypes, StepInv, SavedInv,
      OwnInv, BootSteps, FirstBoot!Root, FirstBoot!Storage, FirstBoot!NoImg, FirstBoot!NoVenv
  <1>21. CASE FirstBoot!Cut
    <2>1. cuts' \in 0..MaxCuts
      BY <1>21, SystemAssumption DEF FirstBoot!FirstBootAssumption, FirstBoot!Cut, BootTypes
    <2>2. BootTypes'
      BY <1>21, <2>1 DEF FirstBoot!Cut, FirstBoot!Step, FirstBoot!fs, FirstBoot!app, BootTypes, BootSteps,
        FirstBoot!Root, FirstBoot!Storage, FirstBoot!NoImg, FirstBoot!NoVenv
    <2>3. StepInv' /\ SavedInv' /\ OwnInv'
      BY <1>21 DEF FirstBoot!Cut, FirstBoot!Step, FirstBoot!fs, FirstBoot!app, BootTypes, StepInv, SavedInv, OwnInv,
        FirstBoot!Root, FirstBoot!Storage, FirstBoot!NoImg, FirstBoot!NoVenv
    <2> QED
      BY <2>2, <2>3
  <1>22. CASE FirstBoot!PowersOn
    BY <1>22 DEF FirstBoot!PowersOn, FirstBoot!Step, FirstBoot!fs, FirstBoot!app, BootTypes, StepInv, SavedInv,
      OwnInv, BootSteps, FirstBoot!Root, FirstBoot!Storage, FirstBoot!NoImg, FirstBoot!NoVenv
  <1>23. CASE FirstBoot!Resets
    BY <1>23 DEF FirstBoot!Resets, FirstBoot!Step, FirstBoot!fs, FirstBoot!app, BootTypes, StepInv, SavedInv, OwnInv,
      BootSteps, FirstBoot!Root, FirstBoot!Storage, FirstBoot!NoImg, FirstBoot!NoVenv
  <1>24. CASE FirstBoot!Deletes
    <2>1. data' \in BOOLEAN /\ python' \in {"none", "moved", "named"} /\ folder' \subseteq Files
      BY <1>24 DEF FirstBoot!Deletes, FirstBoot!app, BootTypes
    <2>2. img' \in [there : BOOLEAN, files : SUBSET Files]
      <3>1. img' = img \/ img' = FirstBoot!NoImg
        BY <1>24 DEF FirstBoot!Deletes
      <3>2. FirstBoot!NoImg \in [there : BOOLEAN, files : SUBSET Files]
        BY DEF FirstBoot!NoImg
      <3> QED
        BY <3>1, <3>2 DEF BootTypes
    <2>3. venv' \in [home : {"none", FirstBoot!Root, FirstBoot!Storage}, bins : {"none", FirstBoot!Root,
          FirstBoot!Storage}]
      BY <1>24 DEF FirstBoot!Deletes, FirstBoot!app, FirstBoot!NoVenv, BootTypes
    <2>4. BootTypes'
      <3>1. UNCHANGED <<image, firstboot_part, firstboot_boot, cuts, firstboot_storage, on, reset>>
            /\ firstboot_saved' = {}
        BY <1>24 DEF FirstBoot!Deletes
      <3> QED
        BY <2>1, <2>2, <2>3, <3>1 DEF BootTypes
    <2>5. StepInv' /\ SavedInv' /\ OwnInv'
      BY <1>24 DEF FirstBoot!Deletes, FirstBoot!app, BootTypes, StepInv, SavedInv, OwnInv, FirstBoot!NoImg,
        FirstBoot!NoVenv, FirstBoot!Storage
    <2> QED
      BY <2>4, <2>5
  <1>25. CASE FirstBoot!Restarts
    BY <1>25 DEF FirstBoot!Restarts, FirstBoot!Step, FirstBoot!fs, FirstBoot!app, BootTypes, StepInv, SavedInv,
      OwnInv, BootSteps, FirstBoot!Root, FirstBoot!Storage, FirstBoot!NoImg, FirstBoot!NoVenv
  <1>26. ASSUME NEW f \in Files, FirstBoot!Saves(f) PROVE BootsInv'
    BY <1>26 DEF FirstBoot!Saves, FirstBoot!app, BootTypes, StepInv, SavedInv, OwnInv, BootSteps, FirstBoot!Root,
      FirstBoot!Storage, FirstBoot!NoImg, FirstBoot!NoVenv
  <1>27. CASE UNCHANGED FirstBootVars
    BY <1>27 DEF FirstBootVars, BootTypes, StepInv, SavedInv, OwnInv, BootSteps
  <1> QED
    BY <1>1, <1>2, <1>3, <1>4, <1>5, <1>6, <1>7, <1>8, <1>9, <1>10, <1>11, <1>12, <1>13, <1>14, <1>15, <1>16,
       <1>17, <1>18, <1>19, <1>20, <1>21, <1>22, <1>23, <1>24, <1>25, <1>26, <1>27 DEF FirstBoot!Next

(* Until the owner resets the mirror: wherever the power goes, what modules saved is there again once their file system is
   mounted, settings never meet a new file system, and no venv names a Python that isn't
   there whole, for any files and any number of cuts. *)
THEOREM CutsNeverLose == SystemSpec => []CutsLoseNothing
  <1> DEFINE Inv == part = "boots" => BootsInv
  <1>1. SystemInit => Inv
    BY BootsInit DEF SystemInit
  <1>2. Inv /\ [SystemNext]_system_vars => Inv'
    BY BootsStep, StepOfPart
  <1>3. Inv => CutsLoseNothing
    <2>1. ASSUME BootsInv PROVE FirstBoot!TypeOK
      BY <2>1 DEF BootsInv, BootTypes, FirstBoot!TypeOK
    <2>2. ASSUME BootsInv PROVE FirstBoot!CutsLoseNothing
      BY <2>1, <2>2 DEF BootsInv, BootTypes, StepInv, SavedInv, OwnInv, FirstBoot!CutsLoseNothing
    <2> QED
      BY <2>2 DEF CutsLoseNothing
  <1> QED
    BY <1>1, <1>2, <1>3, PTL DEF SystemSpec

-----------------------------------------------------------------------------
(* OsUpdate.                                                                *)

OsSlots == {"A", "B"}
Spare == OsUpdate!Other(OsUpdate!primary)  \* the slot that doesn't boot normally

OsSlot == [build : 0..MaxBuild, ready : BOOLEAN, gpio : 0..1, at : Nat]
OsHalf == [fw : Nat, primary : OsSlots, whole : BOOLEAN]
OsRauc == [pc : {"idle", "root", "primary", "activate"}, build : 0..MaxBuild]
OsFailed == [build : 0..MaxBuild, times : Nat]

OsCardTypes ==
  /\ slot \in [OsSlots -> OsSlot]
  /\ half \in [1..2 -> OsHalf]
  /\ entry \in 1..2

OsRunTypes ==
  /\ power \in {"off", "on"} /\ running \in OsSlots /\ trial \in BOOLEAN /\ armed \in BOOLEAN
  /\ rauc \in OsRauc
  /\ osupdate_job \in {"idle", "download", "install", "restarting"}
  /\ mark \in {"none", "wait", "good", "p1", "copy", "switch"}

OsCountTypes ==
  /\ newest \in OsUpdate!Builds /\ pending \in 0..MaxBuild /\ failed \in OsFailed
  /\ wired \in 0..1 /\ proven \subseteq OsUpdate!Builds /\ tried \in [OsUpdate!Builds -> Nat]
  /\ lost \in BOOLEAN /\ late \in BOOLEAN

\* What goes on where: nothing without power, what runs is whole, and RAUC writes only beside the slot that boots.
OsPlaces ==
  /\ power = "off" => rauc = OsUpdate!NoRauc /\ osupdate_job = "idle" /\ mark = "none"
  /\ power = "on" => OsUpdate!Whole(running)
  /\ power = "on" /\ ~trial => running = OsUpdate!primary
  /\ rauc.pc = "idle" <=> rauc = OsUpdate!NoRauc
  /\ rauc.pc # "idle" => running = OsUpdate!primary
  /\ rauc.pc = "activate" => armed

\* What boots is whole, and so is the new p1 before the partition table names it.
OsBoots ==
  /\ half[entry].whole /\ OsUpdate!Whole(OsUpdate!primary)
  /\ mark = "switch" => half[3 - entry].whole /\ half[3 - entry].primary = OsUpdate!primary

\* What RAUC has made of the other slot: not ready before it is whole, and then newer, with this mirror's wiring.
OsSpare ==
  /\ rauc.pc # "idle" => rauc.build > OsUpdate!Installed
  /\ rauc.pc \in {"root", "primary"} => ~slot[OsUpdate!target].ready
  /\ rauc.pc \in {"primary", "activate"} => slot[OsUpdate!target].build = rauc.build
  /\ slot[Spare].ready /\ (slot[Spare].at > slot[OsUpdate!primary].at \/ rauc.pc = "activate")
       => slot[Spare].build >= slot[OsUpdate!primary].build /\ (~late => slot[Spare].gpio = wired)
  /\ ~late => slot[OsUpdate!primary].gpio = wired

\* What boots was proven; a trial that proves itself is of the slot RAUC activated last.
OsProven ==
  /\ slot[OsUpdate!primary].build \in proven
  /\ mark = "good" => OsUpdate!Installed \in proven
  /\ mark \in {"wait", "good"} /\ running # OsUpdate!primary => slot[running].at > slot[OsUpdate!primary].at

\* The core's job is about a newer build, and what failed is never newer than what is pending.
OsJobs ==
  /\ osupdate_job = "download" => newest > OsUpdate!Installed /\ pending \in {0, OsUpdate!Installed}
  /\ osupdate_job = "install" => pending > OsUpdate!Installed
  /\ pending <= newest /\ failed.build <= newest
  /\ pending # 0 => failed.build <= pending
  /\ ~lost /\ rauc.pc # "idle" => osupdate_job = "install"

\* Every trial boot of the newest build was counted, or will be by the next check.
Counted == IF failed.build = newest THEN failed.times ELSE 0
ToCount == IF pending = newest /\ osupdate_job # "install" /\ ~armed THEN 1 ELSE 0
OsCounts ==
  /\ \A b \in OsUpdate!Builds : b > newest => tried[b] = 0
  /\ ~lost /\ newest \notin proven => tried[newest] <= Counted + ToCount

OsTypes == OsCardTypes /\ OsRunTypes /\ OsCountTypes
OsRest == OsPlaces /\ OsBoots /\ OsSpare /\ OsProven /\ OsJobs /\ OsCounts
OsInv == OsTypes /\ OsRest

(* The builds there are, from the first to the last, and what stands for no installation. *)
LEMMA OsConstants ==
  /\ MaxBuild \in Nat \ {0} /\ OsUpdate!Builds = 1..MaxBuild /\ 0 \in 0..MaxBuild /\ 1 \in OsUpdate!Builds
  /\ OsUpdate!Builds \subseteq 0..MaxBuild /\ OsUpdate!Builds \subseteq Nat
  /\ Firmware \in [OsUpdate!Builds -> Nat] /\ Tries \in Nat \ {0}
  /\ OsUpdate!NoRauc \in OsRauc /\ OsUpdate!NoRauc.pc = "idle"
BY SystemAssumption DEF OsUpdate!OsAssumption, OsUpdate!Builds, OsUpdate!NoRauc, OsRauc

(* What is written to a slot and to a half of p1 has its type. *)
LEMMA SlotEdits == ASSUME NEW r \in OsSlot
  PROVE  /\ \A b \in 0..MaxBuild, y \in BOOLEAN, g \in 0..1 : [r EXCEPT !.build = b, !.ready = y,
            !.gpio = g] \in OsSlot
         /\ \A g \in 0..1 : [r EXCEPT !.gpio = g] \in OsSlot
         /\ \A n \in Nat : [r EXCEPT !.at = n] \in OsSlot
BY DEF OsSlot

(* ... and of a half. *)
LEMMA HalfEdits == ASSUME NEW r \in OsHalf, NEW s \in OsSlots, NEW f \in Nat, NEW w \in BOOLEAN
  PROVE  [r EXCEPT !.primary = s] \in OsHalf /\ [fw |-> f, primary |-> s, whole |-> w] \in OsHalf
BY DEF OsHalf

(* The slots and halves the system speaks of. *)
LEMMA OsNames == ASSUME OsTypes
  PROVE  /\ OsUpdate!target \in OsSlots /\ OsUpdate!primary \in OsSlots /\ Spare \in OsSlots
         /\ OsUpdate!target # running /\ Spare # OsUpdate!primary /\ 3 - entry \in 1..2 /\ 3 - entry # entry
         /\ \A s \in OsSlots : s = OsUpdate!primary \/ s = Spare
         /\ \A s \in OsSlots : s = running \/ s = OsUpdate!target
         /\ \A s \in OsSlots : OsUpdate!Other(s) \in OsSlots \ {s}
BY DEF OsTypes, OsCardTypes, OsRunTypes, OsSlots, OsHalf, Spare, OsUpdate!target, OsUpdate!primary, OsUpdate!Other

(* Each step keeps the types of what is on the card ... *)
LEMMA OsCardTypesStep == ASSUME OsTypes, OsPlaces, OsUpdate!Next PROVE OsCardTypes'
  <1> USE OsNames DEF OsTypes
  <1>1. CASE OsUpdate!RaucBegins
    <2> DEFINE new == [slot[OsUpdate!target] EXCEPT !.build = 0, !.ready = FALSE, !.gpio = 0]
    <2>1. 0 \in 0..MaxBuild /\ 0 \in 0..1 /\ FALSE \in BOOLEAN /\ slot[OsUpdate!target] \in OsSlot
      BY OsConstants DEF OsCardTypes
    <2>2. new \in OsSlot
      BY <2>1, SlotEdits
    <2>3. slot' = slot \/ slot' = [slot EXCEPT ![OsUpdate!target] = new]
      BY <1>1 DEF OsUpdate!RaucBegins, OsCardTypes
    <2> QED
      BY <1>1, <2>2, <2>3 DEF OsUpdate!RaucBegins, OsCardTypes
  <1>2. CASE OsUpdate!RaucWrites
    <2>1. rauc.build \in 0..MaxBuild
      BY DEF OsRunTypes, OsRauc
    <2> QED
      BY <1>2, <2>1 DEF OsUpdate!RaucWrites, OsCardTypes, OsSlot
  <1>3. CASE OsUpdate!SetPrimary
    <2>1. running \in OsSlots
      BY DEF OsRunTypes
    <2> QED
      BY <1>3, <2>1 DEF OsUpdate!SetPrimary, OsCardTypes, OsSlot
  <1>4. CASE OsUpdate!Activate
    <2> DEFINE new == [slot[OsUpdate!target] EXCEPT !.at = OsUpdate!Latest + 1]
    <2>1. OsUpdate!Latest + 1 \in Nat
      BY DEF OsUpdate!Latest, OsCardTypes, OsSlot, OsSlots
    <2>2. new \in OsSlot
      BY <2>1, SlotEdits DEF OsCardTypes
    <2>3. slot' = [slot EXCEPT ![OsUpdate!target] = new]
      BY <1>4 DEF OsUpdate!Activate, OsCardTypes
    <2> QED
      BY <1>4, <2>2, <2>3 DEF OsUpdate!Activate, OsCardTypes
  <1>5. CASE OsUpdate!Wires
    <2> DEFINE new == [slot[running] EXCEPT !.gpio = 1 - wired]
    <2>1. 1 - wired \in 0..1 /\ running \in OsSlots
      BY DEF OsCountTypes, OsRunTypes
    <2>2. new \in OsSlot
      BY <2>1, SlotEdits DEF OsCardTypes
    <2>3. slot' = [slot EXCEPT ![running] = new]
      BY <1>5 DEF OsUpdate!Wires, OsCardTypes
    <2> QED
      BY <1>5, <2>1, <2>2, <2>3 DEF OsUpdate!Wires, OsCardTypes
  <1>6. CASE OsUpdate!MarkGood
    BY <1>6, HalfEdits DEF OsUpdate!MarkGood, OsCardTypes, OsRunTypes
  <1>7. CASE OsUpdate!BuildsHalf
    <2> DEFINE new == [fw |-> 0, primary |-> OsUpdate!primary, whole |-> FALSE]
    <2>1. new \in OsHalf
      BY DEF OsHalf
    <2>2. half' = half \/ half' = [half EXCEPT ![3 - entry] = new]
      BY <1>7 DEF OsUpdate!BuildsHalf
    <2> QED
      BY <1>7, <2>1, <2>2 DEF OsUpdate!BuildsHalf, OsCardTypes
  <1>8. CASE OsUpdate!CopiesHalf
    <2> DEFINE new == [fw |-> Firmware[OsUpdate!Installed], primary |-> OsUpdate!primary, whole |-> TRUE]
    <2>1. OsUpdate!Installed \in OsUpdate!Builds
      BY <1>8, OsConstants DEF OsUpdate!CopiesHalf, OsPlaces, OsUpdate!Whole, OsUpdate!Installed, OsCardTypes,
         OsRunTypes,
        OsSlot
    <2>2. new \in OsHalf
      BY <2>1, OsConstants DEF OsHalf
    <2>3. half' = half \/ half' = [half EXCEPT ![3 - entry] = new]
      BY <1>8 DEF OsUpdate!CopiesHalf
    <2> QED
      BY <1>8, <2>2, <2>3 DEF OsUpdate!CopiesHalf, OsCardTypes
  <1>9. CASE OsUpdate!SwitchesP1
    BY <1>9 DEF OsUpdate!SwitchesP1, OsCardTypes
  <1>10. CASE UNCHANGED OsUpdate!card
    BY <1>10 DEF OsUpdate!card, OsCardTypes
  <1> QED
    BY <1>1, <1>2, <1>3, <1>4, <1>5, <1>6, <1>7, <1>8, <1>9, <1>10 DEF OsUpdate!Next, OsUpdate!card, OsUpdate!Release,
      OsUpdate!Checks, OsUpdate!Starts, OsUpdate!Downloads, OsUpdate!RaucRefuses, OsUpdate!RaucFails,
      OsUpdate!Reboots,
      OsUpdate!HandTrial, OsUpdate!Cut, OsUpdate!AppRestarts, OsUpdate!Boots, OsUpdate!MarkProves, OsUpdate!MarkFails

(* ... of what runs ... *)
LEMMA OsRunTypesStep == ASSUME OsTypes, OsPlaces, OsUpdate!Next PROVE OsRunTypes'
  <1> USE OsNames, OsConstants DEF OsTypes
  <1>1. ASSUME NEW n \in BOOLEAN, OsUpdate!Starts(n) PROVE OsRunTypes'
    BY <1>1 DEF OsUpdate!Starts, OsUpdate!Uses, OsUpdate!Decides, OsUpdate!core, OsUpdate!up, OsRunTypes,
      OsCountTypes, OsRauc
  <1>2. CASE OsUpdate!Downloads
    BY <1>2 DEF OsUpdate!Downloads, OsUpdate!core, OsUpdate!up, OsRunTypes, OsCountTypes, OsRauc
  <1>3. CASE OsUpdate!RaucBegins
    BY <1>3 DEF OsUpdate!RaucBegins, OsUpdate!Exits, OsUpdate!core, OsUpdate!up, OsRunTypes, OsCountTypes, OsRauc
  <1>4. CASE OsUpdate!RaucRefuses
    BY <1>4 DEF OsUpdate!RaucRefuses, OsUpdate!Exits, OsUpdate!core, OsUpdate!up, OsRunTypes, OsCountTypes, OsRauc
  <1>5. CASE OsUpdate!RaucFails
    BY <1>5 DEF OsUpdate!RaucFails, OsUpdate!Exits, OsUpdate!core, OsUpdate!up, OsRunTypes, OsCountTypes, OsRauc
  <1>6. CASE OsUpdate!RaucWrites
    BY <1>6 DEF OsUpdate!RaucWrites, OsUpdate!core, OsUpdate!up, OsRunTypes, OsCountTypes, OsRauc
  <1>7. CASE OsUpdate!SetPrimary
    BY <1>7 DEF OsUpdate!SetPrimary, OsUpdate!core, OsUpdate!up, OsRunTypes, OsCountTypes, OsRauc
  <1>8. CASE OsUpdate!Activate
    BY <1>8 DEF OsUpdate!Activate, OsUpdate!Exits, OsUpdate!core, OsUpdate!up, OsRunTypes, OsCountTypes, OsRauc
  <1>9. CASE OsUpdate!Reboots
    BY <1>9 DEF OsUpdate!Reboots, OsUpdate!Stops, OsUpdate!core, OsUpdate!up, OsRunTypes, OsCountTypes, OsRauc
  <1>10. CASE OsUpdate!HandTrial
    BY <1>10 DEF OsUpdate!HandTrial, OsUpdate!Stops, OsUpdate!core, OsUpdate!up, OsRunTypes, OsCountTypes, OsRauc
  <1>11. CASE OsUpdate!Cut
    BY <1>11 DEF OsUpdate!Cut, OsUpdate!Stops, OsUpdate!core, OsUpdate!up, OsRunTypes, OsCountTypes, OsRauc
  <1>12. CASE OsUpdate!AppRestarts
    BY <1>12 DEF OsUpdate!AppRestarts, OsUpdate!core, OsUpdate!up, OsRunTypes, OsCountTypes, OsRauc
  <1>13. CASE OsUpdate!Boots
    BY <1>13 DEF OsUpdate!Boots, OsUpdate!core, OsUpdate!up, OsRunTypes, OsCountTypes, OsRauc
  <1>14. CASE OsUpdate!MarkProves
    BY <1>14 DEF OsUpdate!MarkProves, OsUpdate!core, OsUpdate!up, OsRunTypes, OsCountTypes, OsRauc
  <1>15. CASE OsUpdate!MarkFails
    BY <1>15 DEF OsUpdate!MarkFails, OsUpdate!Stops, OsUpdate!core, OsUpdate!up, OsRunTypes, OsCountTypes, OsRauc
  <1>16. CASE OsUpdate!MarkGood
    BY <1>16 DEF OsUpdate!MarkGood, OsUpdate!core, OsUpdate!up, OsRunTypes, OsCountTypes, OsRauc
  <1>17. CASE OsUpdate!BuildsHalf
    BY <1>17 DEF OsUpdate!BuildsHalf, OsUpdate!core, OsUpdate!up, OsRunTypes, OsCountTypes, OsRauc
  <1>18. CASE OsUpdate!CopiesHalf
    BY <1>18 DEF OsUpdate!CopiesHalf, OsUpdate!core, OsUpdate!up, OsRunTypes, OsCountTypes, OsRauc
  <1>19. CASE OsUpdate!SwitchesP1
    BY <1>19 DEF OsUpdate!SwitchesP1, OsUpdate!core, OsUpdate!up, OsRunTypes, OsCountTypes, OsRauc
  <1>20. CASE UNCHANGED <<power, running, trial, armed, rauc, osupdate_job, mark>>
    BY <1>20 DEF OsRunTypes
  <1> QED
    BY <1>1, <1>2, <1>3, <1>4, <1>5, <1>6, <1>7, <1>8, <1>9, <1>10, <1>11, <1>12, <1>13, <1>14, <1>15, <1>16,
       <1>17, <1>18, <1>19, <1>20 DEF OsUpdate!Next, OsUpdate!core, OsUpdate!up, OsUpdate!histories,
            OsUpdate!Release, OsUpdate!Checks, OsUpdate!Wires

(* What a check decides, and what the end of an installation leaves, has its type. *)
LEMMA DecidesTypes == ASSUME OsTypes, OsUpdate!Decides PROVE pending' \in 0..MaxBuild /\ failed' \in OsFailed
  <1>1. failed.times + 1 \in Nat /\ 1 \in Nat
    BY DEF OsTypes, OsCountTypes, OsFailed
  <1>2. \A n \in Nat : [build |-> pending, times |-> n] \in OsFailed
    BY DEF OsTypes, OsCountTypes, OsFailed
  <1> QED
    BY <1>1, <1>2, OsConstants DEF OsUpdate!Decides, OsTypes, OsCountTypes

(* ... and of what is counted. *)
LEMMA OsCountTypesStep == ASSUME OsTypes, OsPlaces, OsUpdate!Next PROVE OsCountTypes'
  <1> USE OsConstants DEF OsTypes
  <1>1. CASE OsUpdate!Release
    BY <1>1 DEF OsUpdate!Release, OsUpdate!core, OsUpdate!histories, OsCountTypes
  <1>2. CASE OsUpdate!Checks
    BY <1>2, DecidesTypes DEF OsUpdate!Checks, OsUpdate!histories, OsCountTypes
  <1>3. ASSUME NEW n \in BOOLEAN, OsUpdate!Starts(n) PROVE OsCountTypes'
    BY <1>3, DecidesTypes DEF OsUpdate!Starts, OsUpdate!histories, OsCountTypes
  <1>4. CASE OsUpdate!Downloads
    BY <1>4 DEF OsUpdate!Downloads, OsUpdate!histories, OsCountTypes
  <1>5. CASE OsUpdate!RaucBegins \/ OsUpdate!RaucRefuses \/ OsUpdate!RaucFails \/ OsUpdate!Activate
    BY <1>5 DEF OsUpdate!RaucBegins, OsUpdate!RaucRefuses, OsUpdate!RaucFails, OsUpdate!Activate, OsUpdate!Exits,
      OsUpdate!histories, OsCountTypes
  <1>6. CASE OsUpdate!HandTrial \/ OsUpdate!AppRestarts
    BY <1>6 DEF OsUpdate!HandTrial, OsUpdate!AppRestarts, OsCountTypes
  <1>7. CASE OsUpdate!Boots
    <2>1. tried' = tried \/ (pending \in OsUpdate!Builds /\ tried' = [tried EXCEPT ![pending] = @ + 1])
      <3>1. \A s \in OsSlots : OsUpdate!Whole(s) => slot[s].build \in OsUpdate!Builds
        BY DEF OsCardTypes, OsSlot, OsUpdate!Whole
      <3> QED
        BY <1>7, <3>1, OsNames DEF OsUpdate!Boots
    <2> QED
      BY <1>7, <2>1 DEF OsUpdate!Boots, OsUpdate!core, OsCountTypes
  <1>8. CASE OsUpdate!MarkProves
    <2>1. OsUpdate!Installed \in OsUpdate!Builds
      BY <1>8 DEF OsUpdate!MarkProves, OsPlaces, OsUpdate!Whole, OsUpdate!Installed, OsCardTypes, OsRunTypes, OsSlot
    <2> QED
      BY <1>8, <2>1 DEF OsUpdate!MarkProves, OsUpdate!core, OsCountTypes
  <1>9. CASE OsUpdate!Wires
    BY <1>9 DEF OsUpdate!Wires, OsUpdate!core, OsUpdate!up, OsCountTypes, OsCardTypes, OsRunTypes, OsSlot
  <1>10. CASE UNCHANGED <<newest, pending, failed, wired, proven, tried, lost, late>>
    BY <1>10 DEF OsCountTypes
  <1> QED
    BY <1>1, <1>2, <1>3, <1>4, <1>5, <1>6, <1>7, <1>8, <1>9, <1>10 DEF OsUpdate!Next, OsUpdate!core,
       OsUpdate!histories,
      OsUpdate!RaucWrites, OsUpdate!SetPrimary, OsUpdate!Reboots, OsUpdate!Cut, OsUpdate!MarkFails, OsUpdate!MarkGood,
      OsUpdate!BuildsHalf, OsUpdate!CopiesHalf, OsUpdate!SwitchesP1

(* An installation that begins takes only what is in the slot that doesn't boot.  *)
LEMMA BeginsBeside ==
  ASSUME OsTypes, OsRest, OsUpdate!RaucBegins, OsUpdate!target # OsUpdate!primary, OsTypes'
  PROVE  OsPlaces' /\ OsBoots' /\ OsSpare' /\ OsProven'
  <1> USE DEF OsTypes, OsRest
  <1>1. OsUpdate!target \in OsSlots /\ slot[OsUpdate!target] \in OsSlot
    BY OsNames DEF OsCardTypes
  <1>2. slot' = [slot EXCEPT ![OsUpdate!target] = [slot[OsUpdate!target] EXCEPT !.build = 0, !.ready = FALSE,
        !.gpio = 0]]
    BY <1>1 DEF OsUpdate!RaucBegins, OsUpdate!MayOverwrite, OsCardTypes
  <1>3. /\ slot'[OsUpdate!target].build = 0 /\ ~slot'[OsUpdate!target].ready
        /\ slot'[OsUpdate!target].at = slot[OsUpdate!target].at
        /\ \A s \in OsSlots : s # OsUpdate!target => slot'[s] = slot[s]
    BY <1>1, <1>2 DEF OsCardTypes, OsSlot
  <1>4. /\ UNCHANGED <<half, entry, power, running, trial, armed, mark, wired, proven, lost, late>> /\ power = "on"
        /\ rauc' = [pc |-> "root", build |-> pending] /\ osupdate_job = "install"
    BY DEF OsUpdate!RaucBegins, OsUpdate!MayOverwrite, OsUpdate!up, OsUpdate!histories
  <1>5. OsUpdate!primary \in OsSlots /\ OsUpdate!target \in OsSlots /\ Spare = OsUpdate!target
        /\ running = OsUpdate!primary
    BY DEF OsCardTypes, OsRunTypes, OsSlots, OsHalf, Spare, OsUpdate!target, OsUpdate!primary, OsUpdate!Other
  <1>6. OsPlaces'
    BY <1>3, <1>4, <1>5 DEF OsCardTypes, OsRunTypes, OsCountTypes, OsSlot, OsPlaces, OsBoots, OsSpare, OsProven,
      OsJobs, OsSlots, Spare, OsUpdate!primary, OsUpdate!target, OsUpdate!Other, OsUpdate!Installed, OsUpdate!Whole,
      OsUpdate!NoRauc
  <1>7. OsBoots'
    BY <1>3, <1>4, <1>5 DEF OsCardTypes, OsRunTypes, OsCountTypes, OsSlot, OsPlaces, OsBoots, OsSpare, OsProven,
      OsJobs, OsSlots, Spare, OsUpdate!primary, OsUpdate!target, OsUpdate!Other, OsUpdate!Installed, OsUpdate!Whole,
      OsUpdate!NoRauc
  <1>8. OsSpare'
    BY <1>3, <1>4, <1>5 DEF OsCardTypes, OsRunTypes, OsCountTypes, OsSlot, OsPlaces, OsBoots, OsSpare, OsProven,
      OsJobs, OsSlots, Spare, OsUpdate!primary, OsUpdate!target, OsUpdate!Other, OsUpdate!Installed, OsUpdate!Whole,
      OsUpdate!NoRauc
  <1>9. OsProven'
    BY <1>3, <1>4, <1>5 DEF OsCardTypes, OsRunTypes, OsCountTypes, OsSlot, OsPlaces, OsBoots, OsSpare, OsProven,
      OsJobs, OsSlots, Spare, OsUpdate!primary, OsUpdate!target, OsUpdate!Other, OsUpdate!Installed, OsUpdate!Whole,
      OsUpdate!NoRauc
  <1> QED
    BY <1>6, <1>7, <1>8, <1>9

(* A start waits for its proof only when it is an update's trial.  *)
LEMMA TrialIsNewer == ASSUME OsTypes, OsRest, OsTypes', OsUpdate!Boots PROVE OsProven'
  <1> USE DEF OsTypes, OsRest
  <1>1. UNCHANGED <<slot, half, entry, proven>>
    BY DEF OsUpdate!Boots, OsUpdate!card
  <1>2. mark' \notin {"good"}
    BY DEF OsUpdate!Boots, OsPlaces
  <1>3. ASSUME mark' = "wait", running' # OsUpdate!primary PROVE slot[running'].at > slot[OsUpdate!primary].at
    BY <1>3, OsNames DEF OsUpdate!Boots, OsPlaces, OsUpdate!IsUpdateTrial, OsCardTypes, OsRunTypes,
       OsUpdate!Other, OsUpdate!primary, OsSlots, OsHalf
  <1> QED
    BY <1>1, <1>2, <1>3 DEF OsProven, OsUpdate!primary, OsUpdate!Installed

(* What becomes the spare slot when a trial is kept is older.  *)
LEMMA KeptLeavesOlder == ASSUME OsTypes, OsRest, OsTypes', OsUpdate!MarkGood PROVE OsSpare'
  <1> USE DEF OsTypes, OsRest
  <1>1. UNCHANGED <<slot, entry, running, rauc, armed, wired, late, proven>> /\ running \in OsSlots
        /\ slot[running] \in OsSlot
    BY DEF OsUpdate!MarkGood, OsUpdate!up, OsUpdate!histories, OsRunTypes, OsCardTypes
  <1>2. CASE running = OsUpdate!primary
    BY <1>1, <1>2 DEF OsUpdate!MarkGood, OsSpare, OsUpdate!primary, OsUpdate!target, OsUpdate!Installed, Spare
  <1>3. CASE running # OsUpdate!primary
    <2>1. OsUpdate!primary' = running /\ Spare' = OsUpdate!primary /\ Spare = running
      BY <1>1, <1>3 DEF OsUpdate!MarkGood, OsCardTypes, OsRunTypes, OsSlots, OsHalf, Spare, OsUpdate!primary,
         OsUpdate!Other
    <2>2. rauc.pc = "idle" /\ slot[running].at > slot[OsUpdate!primary].at /\ slot[running].ready
      BY <1>3 DEF OsUpdate!MarkGood, OsPlaces, OsProven, OsUpdate!Whole, OsRunTypes
    <2>3. slot[running].at \in Nat /\ slot[OsUpdate!primary].at \in Nat
      BY OsNames DEF OsCardTypes, OsRunTypes, OsSlot
    <2> QED
      BY <1>1, <2>1, <2>2, <2>3 DEF OsSpare
  <1> QED
    BY <1>2, <1>3

(* No step of the core, RAUC, the firmware or mark-good breaks what the others rely on. *)
LEMMA OsStep == ASSUME OsTypes, OsRest, OsTypes', OsUpdate!Next PROVE OsRest'
  <1> USE DEF OsRest, OsTypes
  <1>1. CASE OsUpdate!Release
    <2>1. OsPlaces' /\ OsBoots' /\ OsSpare' /\ OsProven'
      BY <1>1 DEF OsUpdate!Release, OsUpdate!card, OsUpdate!up, OsUpdate!core, OsUpdate!histories, OsPlaces, OsBoots,
        OsSpare, OsProven, OsSlots, Spare, Counted, ToCount, OsUpdate!primary, OsUpdate!target, OsUpdate!Other,
        OsUpdate!Installed, OsUpdate!Whole, OsUpdate!NoRauc, OsUpdate!Builds
    <2>2. OsJobs'
      BY <1>1 DEF OsUpdate!Release, OsUpdate!card, OsUpdate!up, OsUpdate!core, OsUpdate!histories, OsCardTypes,
        OsRunTypes, OsCountTypes, OsSlot, OsFailed, OsPlaces, OsBoots, OsSpare, OsProven, OsJobs, OsCounts, OsSlots,
        Spare, Counted, ToCount, OsUpdate!primary, OsUpdate!target, OsUpdate!Other, OsUpdate!Installed,
        OsUpdate!Whole, OsUpdate!NoRauc, OsUpdate!Builds
    <2>3. OsCounts'
      BY <1>1 DEF OsUpdate!Release, OsUpdate!card, OsUpdate!up, OsUpdate!core, OsUpdate!histories, OsCardTypes,
        OsRunTypes, OsCountTypes, OsSlot, OsFailed, OsPlaces, OsBoots, OsSpare, OsProven, OsJobs, OsCounts, OsSlots,
        Spare, Counted, ToCount, OsUpdate!primary, OsUpdate!target, OsUpdate!Other, OsUpdate!Installed,
        OsUpdate!Whole, OsUpdate!NoRauc, OsUpdate!Builds
    <2> QED
      BY <2>1, <2>2, <2>3 DEF OsRest
  <1>2. CASE OsUpdate!Checks
    <2>1. OsPlaces' /\ OsBoots' /\ OsSpare' /\ OsProven'
      BY <1>2 DEF OsUpdate!Checks, OsUpdate!Uses, OsUpdate!Decides, OsUpdate!card, OsUpdate!up, OsUpdate!core,
        OsUpdate!histories, OsPlaces, OsBoots, OsSpare, OsProven, OsSlots, Spare, Counted, ToCount, OsUpdate!primary,
        OsUpdate!target, OsUpdate!Other, OsUpdate!Installed, OsUpdate!Whole, OsUpdate!NoRauc, OsUpdate!Builds
    <2>2. OsJobs'
      BY <1>2 DEF OsUpdate!Checks, OsUpdate!Uses, OsUpdate!Decides, OsUpdate!card, OsUpdate!up, OsUpdate!core,
        OsUpdate!histories, OsCardTypes, OsRunTypes, OsCountTypes, OsSlot, OsFailed, OsPlaces, OsBoots, OsSpare,
        OsProven, OsJobs, OsCounts, OsSlots, Spare, Counted, ToCount, OsUpdate!primary, OsUpdate!target,
        OsUpdate!Other, OsUpdate!Installed, OsUpdate!Whole, OsUpdate!NoRauc, OsUpdate!Builds
    <2>3. OsCounts'
      BY <1>2 DEF OsUpdate!Checks, OsUpdate!Uses, OsUpdate!Decides, OsUpdate!card, OsUpdate!up, OsUpdate!core,
        OsUpdate!histories, OsCardTypes, OsRunTypes, OsCountTypes, OsSlot, OsFailed, OsPlaces, OsBoots, OsSpare,
        OsProven, OsJobs, OsCounts, OsSlots, Spare, Counted, ToCount, OsUpdate!primary, OsUpdate!target,
        OsUpdate!Other, OsUpdate!Installed, OsUpdate!Whole, OsUpdate!NoRauc, OsUpdate!Builds
    <2> QED
      BY <2>1, <2>2, <2>3 DEF OsRest
  <1>3. CASE OsUpdate!Downloads
    <2>1. OsBoots' /\ OsSpare' /\ OsProven'
      BY <1>3 DEF OsUpdate!Downloads, OsUpdate!card, OsUpdate!up, OsUpdate!core, OsUpdate!histories, OsBoots, OsSpare,
        OsProven, OsSlots, Spare, Counted, ToCount, OsUpdate!primary, OsUpdate!target, OsUpdate!Other,
        OsUpdate!Installed, OsUpdate!Whole, OsUpdate!NoRauc, OsUpdate!Builds
    <2>2. OsPlaces'
      BY <1>3 DEF OsUpdate!Downloads, OsUpdate!card, OsUpdate!up, OsUpdate!core, OsUpdate!histories, OsCardTypes,
        OsRunTypes, OsCountTypes, OsSlot, OsFailed, OsPlaces, OsBoots, OsSpare, OsProven, OsJobs, OsCounts, OsSlots,
        Spare, Counted, ToCount, OsUpdate!primary, OsUpdate!target, OsUpdate!Other, OsUpdate!Installed,
        OsUpdate!Whole, OsUpdate!NoRauc, OsUpdate!Builds
    <2>3. OsJobs'
      BY <1>3 DEF OsUpdate!Downloads, OsUpdate!card, OsUpdate!up, OsUpdate!core, OsUpdate!histories, OsCardTypes,
        OsRunTypes, OsCountTypes, OsSlot, OsFailed, OsPlaces, OsBoots, OsSpare, OsProven, OsJobs, OsCounts, OsSlots,
        Spare, Counted, ToCount, OsUpdate!primary, OsUpdate!target, OsUpdate!Other, OsUpdate!Installed,
        OsUpdate!Whole, OsUpdate!NoRauc, OsUpdate!Builds
    <2>4. OsCounts'
      BY <1>3 DEF OsUpdate!Downloads, OsUpdate!card, OsUpdate!up, OsUpdate!core, OsUpdate!histories, OsCardTypes,
        OsRunTypes, OsCountTypes, OsSlot, OsFailed, OsPlaces, OsBoots, OsSpare, OsProven, OsJobs, OsCounts, OsSlots,
        Spare, Counted, ToCount, OsUpdate!primary, OsUpdate!target, OsUpdate!Other, OsUpdate!Installed,
        OsUpdate!Whole, OsUpdate!NoRauc, OsUpdate!Builds
    <2> QED
      BY <2>1, <2>2, <2>3, <2>4 DEF OsRest
  <1>4. CASE OsUpdate!RaucBegins
    <2>1. OsPlaces'
      <3>1. CASE OsUpdate!target = OsUpdate!primary
        BY <1>4, <3>1 DEF OsUpdate!RaucBegins, OsUpdate!MayOverwrite, OsUpdate!Exits, OsUpdate!card, OsUpdate!up,
          OsUpdate!core, OsUpdate!histories, OsPlaces, OsBoots, OsSpare, OsProven, Spare, OsUpdate!primary,
          OsUpdate!target, OsUpdate!Other, OsUpdate!Installed, OsUpdate!Whole, OsUpdate!NoRauc
      <3> QED
        BY <1>4, <3>1, BeginsBeside
    <2>2. OsBoots'
      <3>1. CASE OsUpdate!target = OsUpdate!primary
        BY <1>4, <3>1 DEF OsUpdate!RaucBegins, OsUpdate!MayOverwrite, OsUpdate!Exits, OsUpdate!card, OsUpdate!up,
          OsUpdate!core, OsUpdate!histories, OsPlaces, OsBoots, OsSpare, OsProven, Spare, OsUpdate!primary,
          OsUpdate!target, OsUpdate!Other, OsUpdate!Installed, OsUpdate!Whole, OsUpdate!NoRauc
      <3> QED
        BY <1>4, <3>1, BeginsBeside
    <2>3. OsSpare'
      <3>1. CASE OsUpdate!target = OsUpdate!primary
        BY <1>4, <3>1 DEF OsUpdate!RaucBegins, OsUpdate!MayOverwrite, OsUpdate!Exits, OsUpdate!card, OsUpdate!up,
          OsUpdate!core, OsUpdate!histories, OsPlaces, OsBoots, OsSpare, OsProven, Spare, OsUpdate!primary,
          OsUpdate!target, OsUpdate!Other, OsUpdate!Installed, OsUpdate!Whole, OsUpdate!NoRauc
      <3> QED
        BY <1>4, <3>1, BeginsBeside
    <2>4. OsProven'
      <3>1. CASE OsUpdate!target = OsUpdate!primary
        BY <1>4, <3>1 DEF OsUpdate!RaucBegins, OsUpdate!MayOverwrite, OsUpdate!Exits, OsUpdate!card, OsUpdate!up,
          OsUpdate!core, OsUpdate!histories, OsPlaces, OsBoots, OsSpare, OsProven, Spare, OsUpdate!primary,
          OsUpdate!target, OsUpdate!Other, OsUpdate!Installed, OsUpdate!Whole, OsUpdate!NoRauc
      <3> QED
        BY <1>4, <3>1, BeginsBeside
    <2>5. OsJobs'
      BY <1>4 DEF OsUpdate!RaucBegins, OsUpdate!MayOverwrite, OsUpdate!Exits, OsUpdate!card, OsUpdate!up,
        OsUpdate!core, OsUpdate!histories, OsCardTypes, OsRunTypes, OsCountTypes, OsSlot, OsFailed, OsPlaces, OsBoots,
        OsSpare, OsProven, OsJobs, OsCounts, OsSlots, Spare, Counted, ToCount, OsUpdate!primary, OsUpdate!target,
        OsUpdate!Other, OsUpdate!Installed, OsUpdate!Whole, OsUpdate!NoRauc, OsUpdate!Builds
    <2>6. OsCounts'
      BY <1>4 DEF OsUpdate!RaucBegins, OsUpdate!MayOverwrite, OsUpdate!Exits, OsUpdate!card, OsUpdate!up,
        OsUpdate!core, OsUpdate!histories, OsCardTypes, OsRunTypes, OsCountTypes, OsSlot, OsFailed, OsPlaces, OsBoots,
        OsSpare, OsProven, OsJobs, OsCounts, OsSlots, Spare, Counted, ToCount, OsUpdate!primary, OsUpdate!target,
        OsUpdate!Other, OsUpdate!Installed, OsUpdate!Whole, OsUpdate!NoRauc, OsUpdate!Builds
    <2> QED
      BY <2>1, <2>2, <2>3, <2>4, <2>5, <2>6 DEF OsRest
  <1>5. CASE OsUpdate!RaucRefuses
    <2>1. OsBoots' /\ OsSpare' /\ OsProven'
      BY <1>5 DEF OsUpdate!RaucRefuses, OsUpdate!Exits, OsUpdate!card, OsUpdate!up, OsUpdate!core, OsUpdate!histories,
        OsBoots, OsSpare, OsProven, OsSlots, Spare, Counted, ToCount, OsUpdate!primary, OsUpdate!target,
        OsUpdate!Other, OsUpdate!Installed, OsUpdate!Whole, OsUpdate!NoRauc, OsUpdate!Builds
    <2>2. OsPlaces'
      BY <1>5 DEF OsUpdate!RaucRefuses, OsUpdate!Exits, OsUpdate!card, OsUpdate!up, OsUpdate!core, OsUpdate!histories,
        OsCardTypes, OsRunTypes, OsCountTypes, OsSlot, OsFailed, OsPlaces, OsBoots, OsSpare, OsProven, OsJobs,
        OsCounts, OsSlots, Spare, Counted, ToCount, OsUpdate!primary, OsUpdate!target, OsUpdate!Other,
        OsUpdate!Installed, OsUpdate!Whole, OsUpdate!NoRauc, OsUpdate!Builds
    <2>3. OsJobs'
      BY <1>5 DEF OsUpdate!RaucRefuses, OsUpdate!Exits, OsUpdate!card, OsUpdate!up, OsUpdate!core, OsUpdate!histories,
        OsCardTypes, OsRunTypes, OsCountTypes, OsSlot, OsFailed, OsPlaces, OsBoots, OsSpare, OsProven, OsJobs,
        OsCounts, OsSlots, Spare, Counted, ToCount, OsUpdate!primary, OsUpdate!target, OsUpdate!Other,
        OsUpdate!Installed, OsUpdate!Whole, OsUpdate!NoRauc, OsUpdate!Builds
    <2>4. OsCounts'
      BY <1>5 DEF OsUpdate!RaucRefuses, OsUpdate!Exits, OsUpdate!card, OsUpdate!up, OsUpdate!core, OsUpdate!histories,
        OsCardTypes, OsRunTypes, OsCountTypes, OsSlot, OsFailed, OsPlaces, OsBoots, OsSpare, OsProven, OsJobs,
        OsCounts, OsSlots, Spare, Counted, ToCount, OsUpdate!primary, OsUpdate!target, OsUpdate!Other,
        OsUpdate!Installed, OsUpdate!Whole, OsUpdate!NoRauc, OsUpdate!Builds
    <2> QED
      BY <2>1, <2>2, <2>3, <2>4 DEF OsRest
  <1>6. CASE OsUpdate!RaucFails
    <2>1. OsBoots' /\ OsProven'
      BY <1>6 DEF OsUpdate!RaucFails, OsUpdate!Exits, OsUpdate!card, OsUpdate!up, OsUpdate!core, OsUpdate!histories,
        OsBoots, OsProven, OsSlots, Spare, Counted, ToCount, OsUpdate!primary, OsUpdate!target, OsUpdate!Other,
        OsUpdate!Installed, OsUpdate!Whole, OsUpdate!NoRauc, OsUpdate!Builds
    <2>2. OsPlaces'
      BY <1>6 DEF OsUpdate!RaucFails, OsUpdate!Exits, OsUpdate!card, OsUpdate!up, OsUpdate!core, OsUpdate!histories,
        OsCardTypes, OsRunTypes, OsCountTypes, OsSlot, OsFailed, OsPlaces, OsBoots, OsSpare, OsProven, OsJobs,
        OsCounts, OsSlots, Spare, Counted, ToCount, OsUpdate!primary, OsUpdate!target, OsUpdate!Other,
        OsUpdate!Installed, OsUpdate!Whole, OsUpdate!NoRauc, OsUpdate!Builds
    <2>3. OsSpare'
      BY <1>6 DEF OsUpdate!RaucFails, OsUpdate!Exits, OsUpdate!card, OsUpdate!up, OsUpdate!core, OsUpdate!histories,
        OsCardTypes, OsRunTypes, OsCountTypes, OsSlot, OsFailed, OsPlaces, OsBoots, OsSpare, OsProven, OsJobs,
        OsCounts, OsSlots, Spare, Counted, ToCount, OsUpdate!primary, OsUpdate!target, OsUpdate!Other,
        OsUpdate!Installed, OsUpdate!Whole, OsUpdate!NoRauc, OsUpdate!Builds
    <2>4. OsJobs'
      BY <1>6 DEF OsUpdate!RaucFails, OsUpdate!Exits, OsUpdate!card, OsUpdate!up, OsUpdate!core, OsUpdate!histories,
        OsCardTypes, OsRunTypes, OsCountTypes, OsSlot, OsFailed, OsPlaces, OsBoots, OsSpare, OsProven, OsJobs,
        OsCounts, OsSlots, Spare, Counted, ToCount, OsUpdate!primary, OsUpdate!target, OsUpdate!Other,
        OsUpdate!Installed, OsUpdate!Whole, OsUpdate!NoRauc, OsUpdate!Builds
    <2>5. OsCounts'
      BY <1>6 DEF OsUpdate!RaucFails, OsUpdate!Exits, OsUpdate!card, OsUpdate!up, OsUpdate!core, OsUpdate!histories,
        OsCardTypes, OsRunTypes, OsCountTypes, OsSlot, OsFailed, OsPlaces, OsBoots, OsSpare, OsProven, OsJobs,
        OsCounts, OsSlots, Spare, Counted, ToCount, OsUpdate!primary, OsUpdate!target, OsUpdate!Other,
        OsUpdate!Installed, OsUpdate!Whole, OsUpdate!NoRauc, OsUpdate!Builds
    <2> QED
      BY <2>1, <2>2, <2>3, <2>4, <2>5 DEF OsRest
  <1>7. CASE OsUpdate!RaucWrites
    <2>1. OsCounts'
      BY <1>7 DEF OsUpdate!RaucWrites, OsUpdate!card, OsUpdate!up, OsUpdate!core, OsUpdate!histories, OsCounts,
        OsSlots, Spare, Counted, ToCount, OsUpdate!primary, OsUpdate!target, OsUpdate!Other, OsUpdate!Installed,
        OsUpdate!Whole, OsUpdate!NoRauc, OsUpdate!Builds
    <2>2. OsPlaces'
      BY <1>7 DEF OsUpdate!RaucWrites, OsUpdate!card, OsUpdate!up, OsUpdate!core, OsUpdate!histories, OsCardTypes,
        OsRunTypes, OsCountTypes, OsSlot, OsFailed, OsPlaces, OsBoots, OsSpare, OsProven, OsJobs, OsCounts, OsSlots,
        Spare, Counted, ToCount, OsUpdate!primary, OsUpdate!target, OsUpdate!Other, OsUpdate!Installed,
        OsUpdate!Whole, OsUpdate!NoRauc, OsUpdate!Builds
    <2>3. OsBoots'
      BY <1>7 DEF OsUpdate!RaucWrites, OsUpdate!card, OsUpdate!up, OsUpdate!core, OsUpdate!histories, OsCardTypes,
        OsRunTypes, OsCountTypes, OsSlot, OsFailed, OsPlaces, OsBoots, OsSpare, OsProven, OsJobs, OsCounts, OsSlots,
        Spare, Counted, ToCount, OsUpdate!primary, OsUpdate!target, OsUpdate!Other, OsUpdate!Installed,
        OsUpdate!Whole, OsUpdate!NoRauc, OsUpdate!Builds
    <2>4. OsSpare'
      BY <1>7 DEF OsUpdate!RaucWrites, OsUpdate!card, OsUpdate!up, OsUpdate!core, OsUpdate!histories, OsCardTypes,
        OsRunTypes, OsCountTypes, OsSlot, OsFailed, OsPlaces, OsBoots, OsSpare, OsProven, OsJobs, OsCounts, OsSlots,
        Spare, Counted, ToCount, OsUpdate!primary, OsUpdate!target, OsUpdate!Other, OsUpdate!Installed,
        OsUpdate!Whole, OsUpdate!NoRauc, OsUpdate!Builds
    <2>5. OsProven'
      BY <1>7 DEF OsUpdate!RaucWrites, OsUpdate!card, OsUpdate!up, OsUpdate!core, OsUpdate!histories, OsCardTypes,
        OsRunTypes, OsCountTypes, OsSlot, OsFailed, OsPlaces, OsBoots, OsSpare, OsProven, OsJobs, OsCounts, OsSlots,
        Spare, Counted, ToCount, OsUpdate!primary, OsUpdate!target, OsUpdate!Other, OsUpdate!Installed,
        OsUpdate!Whole, OsUpdate!NoRauc, OsUpdate!Builds
    <2>6. OsJobs'
      BY <1>7 DEF OsUpdate!RaucWrites, OsUpdate!card, OsUpdate!up, OsUpdate!core, OsUpdate!histories, OsCardTypes,
        OsRunTypes, OsCountTypes, OsSlot, OsFailed, OsPlaces, OsBoots, OsSpare, OsProven, OsJobs, OsCounts, OsSlots,
        Spare, Counted, ToCount, OsUpdate!primary, OsUpdate!target, OsUpdate!Other, OsUpdate!Installed,
        OsUpdate!Whole, OsUpdate!NoRauc, OsUpdate!Builds
    <2> QED
      BY <2>1, <2>2, <2>3, <2>4, <2>5, <2>6 DEF OsRest
  <1>8. CASE OsUpdate!SetPrimary
    <2>1. OsPlaces'
      BY <1>8 DEF OsUpdate!SetPrimary, OsUpdate!card, OsUpdate!up, OsUpdate!core, OsUpdate!histories, OsCardTypes,
        OsRunTypes, OsCountTypes, OsSlot, OsFailed, OsPlaces, OsBoots, OsSpare, OsProven, OsJobs, OsCounts, OsSlots,
        Spare, Counted, ToCount, OsUpdate!primary, OsUpdate!target, OsUpdate!Other, OsUpdate!Installed,
        OsUpdate!Whole, OsUpdate!NoRauc, OsUpdate!Builds
    <2>2. OsBoots'
      BY <1>8 DEF OsUpdate!SetPrimary, OsUpdate!card, OsUpdate!up, OsUpdate!core, OsUpdate!histories, OsCardTypes,
        OsRunTypes, OsCountTypes, OsSlot, OsFailed, OsPlaces, OsBoots, OsSpare, OsProven, OsJobs, OsCounts, OsSlots,
        Spare, Counted, ToCount, OsUpdate!primary, OsUpdate!target, OsUpdate!Other, OsUpdate!Installed,
        OsUpdate!Whole, OsUpdate!NoRauc, OsUpdate!Builds
    <2>3. OsSpare'
      BY <1>8 DEF OsUpdate!SetPrimary, OsUpdate!card, OsUpdate!up, OsUpdate!core, OsUpdate!histories, OsCardTypes,
        OsRunTypes, OsCountTypes, OsSlot, OsFailed, OsPlaces, OsBoots, OsSpare, OsProven, OsJobs, OsCounts, OsSlots,
        Spare, Counted, ToCount, OsUpdate!primary, OsUpdate!target, OsUpdate!Other, OsUpdate!Installed,
        OsUpdate!Whole, OsUpdate!NoRauc, OsUpdate!Builds
    <2>4. OsProven'
      BY <1>8 DEF OsUpdate!SetPrimary, OsUpdate!card, OsUpdate!up, OsUpdate!core, OsUpdate!histories, OsCardTypes,
        OsRunTypes, OsCountTypes, OsSlot, OsFailed, OsPlaces, OsBoots, OsSpare, OsProven, OsJobs, OsCounts, OsSlots,
        Spare, Counted, ToCount, OsUpdate!primary, OsUpdate!target, OsUpdate!Other, OsUpdate!Installed,
        OsUpdate!Whole, OsUpdate!NoRauc, OsUpdate!Builds
    <2>5. OsJobs'
      BY <1>8 DEF OsUpdate!SetPrimary, OsUpdate!card, OsUpdate!up, OsUpdate!core, OsUpdate!histories, OsCardTypes,
        OsRunTypes, OsCountTypes, OsSlot, OsFailed, OsPlaces, OsBoots, OsSpare, OsProven, OsJobs, OsCounts, OsSlots,
        Spare, Counted, ToCount, OsUpdate!primary, OsUpdate!target, OsUpdate!Other, OsUpdate!Installed,
        OsUpdate!Whole, OsUpdate!NoRauc, OsUpdate!Builds
    <2>6. OsCounts'
      BY <1>8 DEF OsUpdate!SetPrimary, OsUpdate!card, OsUpdate!up, OsUpdate!core, OsUpdate!histories, OsCardTypes,
        OsRunTypes, OsCountTypes, OsSlot, OsFailed, OsPlaces, OsBoots, OsSpare, OsProven, OsJobs, OsCounts, OsSlots,
        Spare, Counted, ToCount, OsUpdate!primary, OsUpdate!target, OsUpdate!Other, OsUpdate!Installed,
        OsUpdate!Whole, OsUpdate!NoRauc, OsUpdate!Builds
    <2> QED
      BY <2>1, <2>2, <2>3, <2>4, <2>5, <2>6 DEF OsRest
  <1>9. CASE OsUpdate!Activate
    <2>1. OsPlaces'
      BY <1>9 DEF OsUpdate!Activate, OsUpdate!Exits, OsUpdate!Latest, OsUpdate!card, OsUpdate!up, OsUpdate!core,
        OsUpdate!histories, OsCardTypes, OsRunTypes, OsCountTypes, OsSlot, OsFailed, OsPlaces, OsBoots, OsSpare,
        OsProven, OsJobs, OsCounts, OsSlots, Spare, Counted, ToCount, OsUpdate!primary, OsUpdate!target,
        OsUpdate!Other, OsUpdate!Installed, OsUpdate!Whole, OsUpdate!NoRauc, OsUpdate!Builds
    <2>2. OsBoots'
      BY <1>9 DEF OsUpdate!Activate, OsUpdate!Exits, OsUpdate!Latest, OsUpdate!card, OsUpdate!up, OsUpdate!core,
        OsUpdate!histories, OsCardTypes, OsRunTypes, OsCountTypes, OsSlot, OsFailed, OsPlaces, OsBoots, OsSpare,
        OsProven, OsJobs, OsCounts, OsSlots, Spare, Counted, ToCount, OsUpdate!primary, OsUpdate!target,
        OsUpdate!Other, OsUpdate!Installed, OsUpdate!Whole, OsUpdate!NoRauc, OsUpdate!Builds
    <2>3. OsSpare'
      BY <1>9 DEF OsUpdate!Activate, OsUpdate!Exits, OsUpdate!Latest, OsUpdate!card, OsUpdate!up, OsUpdate!core,
        OsUpdate!histories, OsCardTypes, OsRunTypes, OsCountTypes, OsSlot, OsFailed, OsPlaces, OsBoots, OsSpare,
        OsProven, OsJobs, OsCounts, OsSlots, Spare, Counted, ToCount, OsUpdate!primary, OsUpdate!target,
        OsUpdate!Other, OsUpdate!Installed, OsUpdate!Whole, OsUpdate!NoRauc, OsUpdate!Builds
    <2>4. OsProven'
      BY <1>9 DEF OsUpdate!Activate, OsUpdate!Exits, OsUpdate!Latest, OsUpdate!card, OsUpdate!up, OsUpdate!core,
        OsUpdate!histories, OsCardTypes, OsRunTypes, OsCountTypes, OsSlot, OsFailed, OsPlaces, OsBoots, OsSpare,
        OsProven, OsJobs, OsCounts, OsSlots, Spare, Counted, ToCount, OsUpdate!primary, OsUpdate!target,
        OsUpdate!Other, OsUpdate!Installed, OsUpdate!Whole, OsUpdate!NoRauc, OsUpdate!Builds
    <2>5. OsJobs'
      BY <1>9 DEF OsUpdate!Activate, OsUpdate!Exits, OsUpdate!Latest, OsUpdate!card, OsUpdate!up, OsUpdate!core,
        OsUpdate!histories, OsCardTypes, OsRunTypes, OsCountTypes, OsSlot, OsFailed, OsPlaces, OsBoots, OsSpare,
        OsProven, OsJobs, OsCounts, OsSlots, Spare, Counted, ToCount, OsUpdate!primary, OsUpdate!target,
        OsUpdate!Other, OsUpdate!Installed, OsUpdate!Whole, OsUpdate!NoRauc, OsUpdate!Builds
    <2>6. OsCounts'
      BY <1>9 DEF OsUpdate!Activate, OsUpdate!Exits, OsUpdate!Latest, OsUpdate!card, OsUpdate!up, OsUpdate!core,
        OsUpdate!histories, OsCardTypes, OsRunTypes, OsCountTypes, OsSlot, OsFailed, OsPlaces, OsBoots, OsSpare,
        OsProven, OsJobs, OsCounts, OsSlots, Spare, Counted, ToCount, OsUpdate!primary, OsUpdate!target,
        OsUpdate!Other, OsUpdate!Installed, OsUpdate!Whole, OsUpdate!NoRauc, OsUpdate!Builds
    <2> QED
      BY <2>1, <2>2, <2>3, <2>4, <2>5, <2>6 DEF OsRest
  <1>10. CASE OsUpdate!Reboots
    <2>1. OsPlaces'
      BY <1>10 DEF OsUpdate!Reboots, OsUpdate!Stops, OsUpdate!Uses, OsUpdate!card, OsUpdate!up, OsUpdate!core,
        OsUpdate!histories, OsCardTypes, OsRunTypes, OsCountTypes, OsSlot, OsFailed, OsPlaces, OsBoots, OsSpare,
        OsProven, OsJobs, OsCounts, OsSlots, Spare, Counted, ToCount, OsUpdate!primary, OsUpdate!target,
        OsUpdate!Other, OsUpdate!Installed, OsUpdate!Whole, OsUpdate!NoRauc, OsUpdate!Builds
    <2>2. OsBoots'
      BY <1>10 DEF OsUpdate!Reboots, OsUpdate!Stops, OsUpdate!Uses, OsUpdate!card, OsUpdate!up, OsUpdate!core,
        OsUpdate!histories, OsCardTypes, OsRunTypes, OsCountTypes, OsSlot, OsFailed, OsPlaces, OsBoots, OsSpare,
        OsProven, OsJobs, OsCounts, OsSlots, Spare, Counted, ToCount, OsUpdate!primary, OsUpdate!target,
        OsUpdate!Other, OsUpdate!Installed, OsUpdate!Whole, OsUpdate!NoRauc, OsUpdate!Builds
    <2>3. OsSpare'
      BY <1>10 DEF OsUpdate!Reboots, OsUpdate!Stops, OsUpdate!Uses, OsUpdate!card, OsUpdate!up, OsUpdate!core,
        OsUpdate!histories, OsCardTypes, OsRunTypes, OsCountTypes, OsSlot, OsFailed, OsPlaces, OsBoots, OsSpare,
        OsProven, OsJobs, OsCounts, OsSlots, Spare, Counted, ToCount, OsUpdate!primary, OsUpdate!target,
        OsUpdate!Other, OsUpdate!Installed, OsUpdate!Whole, OsUpdate!NoRauc, OsUpdate!Builds
    <2>4. OsProven'
      BY <1>10 DEF OsUpdate!Reboots, OsUpdate!Stops, OsUpdate!Uses, OsUpdate!card, OsUpdate!up, OsUpdate!core,
        OsUpdate!histories, OsCardTypes, OsRunTypes, OsCountTypes, OsSlot, OsFailed, OsPlaces, OsBoots, OsSpare,
        OsProven, OsJobs, OsCounts, OsSlots, Spare, Counted, ToCount, OsUpdate!primary, OsUpdate!target,
        OsUpdate!Other, OsUpdate!Installed, OsUpdate!Whole, OsUpdate!NoRauc, OsUpdate!Builds
    <2>5. OsJobs'
      BY <1>10 DEF OsUpdate!Reboots, OsUpdate!Stops, OsUpdate!Uses, OsUpdate!card, OsUpdate!up, OsUpdate!core,
        OsUpdate!histories, OsCardTypes, OsRunTypes, OsCountTypes, OsSlot, OsFailed, OsPlaces, OsBoots, OsSpare,
        OsProven, OsJobs, OsCounts, OsSlots, Spare, Counted, ToCount, OsUpdate!primary, OsUpdate!target,
        OsUpdate!Other, OsUpdate!Installed, OsUpdate!Whole, OsUpdate!NoRauc, OsUpdate!Builds
    <2>6. OsCounts'
      BY <1>10 DEF OsUpdate!Reboots, OsUpdate!Stops, OsUpdate!Uses, OsUpdate!card, OsUpdate!up, OsUpdate!core,
        OsUpdate!histories, OsCardTypes, OsRunTypes, OsCountTypes, OsSlot, OsFailed, OsPlaces, OsBoots, OsSpare,
        OsProven, OsJobs, OsCounts, OsSlots, Spare, Counted, ToCount, OsUpdate!primary, OsUpdate!target,
        OsUpdate!Other, OsUpdate!Installed, OsUpdate!Whole, OsUpdate!NoRauc, OsUpdate!Builds
    <2> QED
      BY <2>1, <2>2, <2>3, <2>4, <2>5, <2>6 DEF OsRest
  <1>11. CASE OsUpdate!HandTrial
    <2>1. OsPlaces'
      BY <1>11 DEF OsUpdate!HandTrial, OsUpdate!Stops, OsUpdate!Uses, OsUpdate!card, OsUpdate!up, OsUpdate!core,
        OsUpdate!histories, OsCardTypes, OsRunTypes, OsCountTypes, OsSlot, OsFailed, OsPlaces, OsBoots, OsSpare,
        OsProven, OsJobs, OsCounts, OsSlots, Spare, Counted, ToCount, OsUpdate!primary, OsUpdate!target,
        OsUpdate!Other, OsUpdate!Installed, OsUpdate!Whole, OsUpdate!NoRauc, OsUpdate!Builds
    <2>2. OsBoots'
      BY <1>11 DEF OsUpdate!HandTrial, OsUpdate!Stops, OsUpdate!Uses, OsUpdate!card, OsUpdate!up, OsUpdate!core,
        OsUpdate!histories, OsCardTypes, OsRunTypes, OsCountTypes, OsSlot, OsFailed, OsPlaces, OsBoots, OsSpare,
        OsProven, OsJobs, OsCounts, OsSlots, Spare, Counted, ToCount, OsUpdate!primary, OsUpdate!target,
        OsUpdate!Other, OsUpdate!Installed, OsUpdate!Whole, OsUpdate!NoRauc, OsUpdate!Builds
    <2>3. OsSpare'
      BY <1>11 DEF OsUpdate!HandTrial, OsUpdate!Stops, OsUpdate!Uses, OsUpdate!card, OsUpdate!up, OsUpdate!core,
        OsUpdate!histories, OsCardTypes, OsRunTypes, OsCountTypes, OsSlot, OsFailed, OsPlaces, OsBoots, OsSpare,
        OsProven, OsJobs, OsCounts, OsSlots, Spare, Counted, ToCount, OsUpdate!primary, OsUpdate!target,
        OsUpdate!Other, OsUpdate!Installed, OsUpdate!Whole, OsUpdate!NoRauc, OsUpdate!Builds
    <2>4. OsProven'
      BY <1>11 DEF OsUpdate!HandTrial, OsUpdate!Stops, OsUpdate!Uses, OsUpdate!card, OsUpdate!up, OsUpdate!core,
        OsUpdate!histories, OsCardTypes, OsRunTypes, OsCountTypes, OsSlot, OsFailed, OsPlaces, OsBoots, OsSpare,
        OsProven, OsJobs, OsCounts, OsSlots, Spare, Counted, ToCount, OsUpdate!primary, OsUpdate!target,
        OsUpdate!Other, OsUpdate!Installed, OsUpdate!Whole, OsUpdate!NoRauc, OsUpdate!Builds
    <2>5. OsJobs'
      BY <1>11 DEF OsUpdate!HandTrial, OsUpdate!Stops, OsUpdate!Uses, OsUpdate!card, OsUpdate!up, OsUpdate!core,
        OsUpdate!histories, OsCardTypes, OsRunTypes, OsCountTypes, OsSlot, OsFailed, OsPlaces, OsBoots, OsSpare,
        OsProven, OsJobs, OsCounts, OsSlots, Spare, Counted, ToCount, OsUpdate!primary, OsUpdate!target,
        OsUpdate!Other, OsUpdate!Installed, OsUpdate!Whole, OsUpdate!NoRauc, OsUpdate!Builds
    <2>6. OsCounts'
      BY <1>11 DEF OsUpdate!HandTrial, OsUpdate!Stops, OsUpdate!Uses, OsUpdate!card, OsUpdate!up, OsUpdate!core,
        OsUpdate!histories, OsCardTypes, OsRunTypes, OsCountTypes, OsSlot, OsFailed, OsPlaces, OsBoots, OsSpare,
        OsProven, OsJobs, OsCounts, OsSlots, Spare, Counted, ToCount, OsUpdate!primary, OsUpdate!target,
        OsUpdate!Other, OsUpdate!Installed, OsUpdate!Whole, OsUpdate!NoRauc, OsUpdate!Builds
    <2> QED
      BY <2>1, <2>2, <2>3, <2>4, <2>5, <2>6 DEF OsRest
  <1>12. CASE OsUpdate!Cut
    <2>1. OsPlaces'
      BY <1>12 DEF OsUpdate!Cut, OsUpdate!Stops, OsUpdate!Uses, OsUpdate!card, OsUpdate!up, OsUpdate!core,
        OsUpdate!histories, OsCardTypes, OsRunTypes, OsCountTypes, OsSlot, OsFailed, OsPlaces, OsBoots, OsSpare,
        OsProven, OsJobs, OsCounts, OsSlots, Spare, Counted, ToCount, OsUpdate!primary, OsUpdate!target,
        OsUpdate!Other, OsUpdate!Installed, OsUpdate!Whole, OsUpdate!NoRauc, OsUpdate!Builds
    <2>2. OsBoots'
      BY <1>12 DEF OsUpdate!Cut, OsUpdate!Stops, OsUpdate!Uses, OsUpdate!card, OsUpdate!up, OsUpdate!core,
        OsUpdate!histories, OsCardTypes, OsRunTypes, OsCountTypes, OsSlot, OsFailed, OsPlaces, OsBoots, OsSpare,
        OsProven, OsJobs, OsCounts, OsSlots, Spare, Counted, ToCount, OsUpdate!primary, OsUpdate!target,
        OsUpdate!Other, OsUpdate!Installed, OsUpdate!Whole, OsUpdate!NoRauc, OsUpdate!Builds
    <2>3. OsSpare'
      BY <1>12 DEF OsUpdate!Cut, OsUpdate!Stops, OsUpdate!Uses, OsUpdate!card, OsUpdate!up, OsUpdate!core,
        OsUpdate!histories, OsCardTypes, OsRunTypes, OsCountTypes, OsSlot, OsFailed, OsPlaces, OsBoots, OsSpare,
        OsProven, OsJobs, OsCounts, OsSlots, Spare, Counted, ToCount, OsUpdate!primary, OsUpdate!target,
        OsUpdate!Other, OsUpdate!Installed, OsUpdate!Whole, OsUpdate!NoRauc, OsUpdate!Builds
    <2>4. OsProven'
      BY <1>12 DEF OsUpdate!Cut, OsUpdate!Stops, OsUpdate!Uses, OsUpdate!card, OsUpdate!up, OsUpdate!core,
        OsUpdate!histories, OsCardTypes, OsRunTypes, OsCountTypes, OsSlot, OsFailed, OsPlaces, OsBoots, OsSpare,
        OsProven, OsJobs, OsCounts, OsSlots, Spare, Counted, ToCount, OsUpdate!primary, OsUpdate!target,
        OsUpdate!Other, OsUpdate!Installed, OsUpdate!Whole, OsUpdate!NoRauc, OsUpdate!Builds
    <2>5. OsJobs'
      BY <1>12 DEF OsUpdate!Cut, OsUpdate!Stops, OsUpdate!Uses, OsUpdate!card, OsUpdate!up, OsUpdate!core,
        OsUpdate!histories, OsCardTypes, OsRunTypes, OsCountTypes, OsSlot, OsFailed, OsPlaces, OsBoots, OsSpare,
        OsProven, OsJobs, OsCounts, OsSlots, Spare, Counted, ToCount, OsUpdate!primary, OsUpdate!target,
        OsUpdate!Other, OsUpdate!Installed, OsUpdate!Whole, OsUpdate!NoRauc, OsUpdate!Builds
    <2>6. OsCounts'
      BY <1>12 DEF OsUpdate!Cut, OsUpdate!Stops, OsUpdate!Uses, OsUpdate!card, OsUpdate!up, OsUpdate!core,
        OsUpdate!histories, OsCardTypes, OsRunTypes, OsCountTypes, OsSlot, OsFailed, OsPlaces, OsBoots, OsSpare,
        OsProven, OsJobs, OsCounts, OsSlots, Spare, Counted, ToCount, OsUpdate!primary, OsUpdate!target,
        OsUpdate!Other, OsUpdate!Installed, OsUpdate!Whole, OsUpdate!NoRauc, OsUpdate!Builds
    <2> QED
      BY <2>1, <2>2, <2>3, <2>4, <2>5, <2>6 DEF OsRest
  <1>13. CASE OsUpdate!AppRestarts
    <2>1. OsBoots' /\ OsSpare' /\ OsProven'
      BY <1>13 DEF OsUpdate!AppRestarts, OsUpdate!Uses, OsUpdate!card, OsUpdate!up, OsUpdate!core, OsUpdate!histories,
        OsBoots, OsSpare, OsProven, OsSlots, Spare, Counted, ToCount, OsUpdate!primary, OsUpdate!target,
        OsUpdate!Other, OsUpdate!Installed, OsUpdate!Whole, OsUpdate!NoRauc, OsUpdate!Builds
    <2>2. OsPlaces'
      BY <1>13 DEF OsUpdate!AppRestarts, OsUpdate!Uses, OsUpdate!card, OsUpdate!up, OsUpdate!core, OsUpdate!histories,
        OsCardTypes, OsRunTypes, OsCountTypes, OsSlot, OsFailed, OsPlaces, OsBoots, OsSpare, OsProven, OsJobs,
        OsCounts, OsSlots, Spare, Counted, ToCount, OsUpdate!primary, OsUpdate!target, OsUpdate!Other,
        OsUpdate!Installed, OsUpdate!Whole, OsUpdate!NoRauc, OsUpdate!Builds
    <2>3. OsJobs'
      BY <1>13 DEF OsUpdate!AppRestarts, OsUpdate!Uses, OsUpdate!card, OsUpdate!up, OsUpdate!core, OsUpdate!histories,
        OsCardTypes, OsRunTypes, OsCountTypes, OsSlot, OsFailed, OsPlaces, OsBoots, OsSpare, OsProven, OsJobs,
        OsCounts, OsSlots, Spare, Counted, ToCount, OsUpdate!primary, OsUpdate!target, OsUpdate!Other,
        OsUpdate!Installed, OsUpdate!Whole, OsUpdate!NoRauc, OsUpdate!Builds
    <2>4. OsCounts'
      BY <1>13 DEF OsUpdate!AppRestarts, OsUpdate!Uses, OsUpdate!card, OsUpdate!up, OsUpdate!core, OsUpdate!histories,
        OsCardTypes, OsRunTypes, OsCountTypes, OsSlot, OsFailed, OsPlaces, OsBoots, OsSpare, OsProven, OsJobs,
        OsCounts, OsSlots, Spare, Counted, ToCount, OsUpdate!primary, OsUpdate!target, OsUpdate!Other,
        OsUpdate!Installed, OsUpdate!Whole, OsUpdate!NoRauc, OsUpdate!Builds
    <2> QED
      BY <2>1, <2>2, <2>3, <2>4 DEF OsRest
  <1>14. CASE OsUpdate!Boots
    <2>1. OsPlaces'
      BY <1>14 DEF OsUpdate!Boots, OsUpdate!IsUpdateTrial, OsUpdate!card, OsUpdate!up, OsUpdate!core,
        OsUpdate!histories, OsCardTypes, OsRunTypes, OsCountTypes, OsSlot, OsFailed, OsPlaces, OsBoots, OsSpare,
        OsProven, OsJobs, OsCounts, OsSlots, Spare, Counted, ToCount, OsUpdate!primary, OsUpdate!target,
        OsUpdate!Other, OsUpdate!Installed, OsUpdate!Whole, OsUpdate!NoRauc, OsUpdate!Builds
    <2>2. OsBoots'
      BY <1>14 DEF OsUpdate!Boots, OsUpdate!IsUpdateTrial, OsUpdate!card, OsUpdate!up, OsUpdate!core,
        OsUpdate!histories, OsCardTypes, OsRunTypes, OsCountTypes, OsSlot, OsFailed, OsPlaces, OsBoots, OsSpare,
        OsProven, OsJobs, OsCounts, OsSlots, Spare, Counted, ToCount, OsUpdate!primary, OsUpdate!target,
        OsUpdate!Other, OsUpdate!Installed, OsUpdate!Whole, OsUpdate!NoRauc, OsUpdate!Builds
    <2>3. OsSpare'
      BY <1>14 DEF OsUpdate!Boots, OsUpdate!IsUpdateTrial, OsUpdate!card, OsUpdate!up, OsUpdate!core,
        OsUpdate!histories, OsCardTypes, OsRunTypes, OsCountTypes, OsSlot, OsFailed, OsPlaces, OsBoots, OsSpare,
        OsProven, OsJobs, OsCounts, OsSlots, Spare, Counted, ToCount, OsUpdate!primary, OsUpdate!target,
        OsUpdate!Other, OsUpdate!Installed, OsUpdate!Whole, OsUpdate!NoRauc, OsUpdate!Builds
    <2>4. OsProven'
      BY <1>14, TrialIsNewer
    <2>5. OsJobs'
      BY <1>14 DEF OsUpdate!Boots, OsUpdate!IsUpdateTrial, OsUpdate!card, OsUpdate!up, OsUpdate!core,
        OsUpdate!histories, OsCardTypes, OsRunTypes, OsCountTypes, OsSlot, OsFailed, OsPlaces, OsBoots, OsSpare,
        OsProven, OsJobs, OsCounts, OsSlots, Spare, Counted, ToCount, OsUpdate!primary, OsUpdate!target,
        OsUpdate!Other, OsUpdate!Installed, OsUpdate!Whole, OsUpdate!NoRauc, OsUpdate!Builds
    <2>6. OsCounts'
      BY <1>14 DEF OsUpdate!Boots, OsUpdate!IsUpdateTrial, OsUpdate!card, OsUpdate!up, OsUpdate!core,
        OsUpdate!histories, OsCardTypes, OsRunTypes, OsCountTypes, OsSlot, OsFailed, OsPlaces, OsBoots, OsSpare,
        OsProven, OsJobs, OsCounts, OsSlots, Spare, Counted, ToCount, OsUpdate!primary, OsUpdate!target,
        OsUpdate!Other, OsUpdate!Installed, OsUpdate!Whole, OsUpdate!NoRauc, OsUpdate!Builds
    <2> QED
      BY <2>1, <2>2, <2>3, <2>4, <2>5, <2>6 DEF OsRest
  <1>15. CASE OsUpdate!MarkProves
    <2>1. OsSpare' /\ OsJobs'
      BY <1>15 DEF OsUpdate!MarkProves, OsUpdate!card, OsUpdate!up, OsUpdate!core, OsUpdate!histories, OsSpare,
        OsJobs, OsSlots, Spare, Counted, ToCount, OsUpdate!primary, OsUpdate!target, OsUpdate!Other,
        OsUpdate!Installed, OsUpdate!Whole, OsUpdate!NoRauc, OsUpdate!Builds
    <2>2. OsPlaces'
      BY <1>15 DEF OsUpdate!MarkProves, OsUpdate!card, OsUpdate!up, OsUpdate!core, OsUpdate!histories, OsCardTypes,
        OsRunTypes, OsCountTypes, OsSlot, OsFailed, OsPlaces, OsBoots, OsSpare, OsProven, OsJobs, OsCounts, OsSlots,
        Spare, Counted, ToCount, OsUpdate!primary, OsUpdate!target, OsUpdate!Other, OsUpdate!Installed,
        OsUpdate!Whole, OsUpdate!NoRauc, OsUpdate!Builds
    <2>3. OsBoots'
      BY <1>15 DEF OsUpdate!MarkProves, OsUpdate!card, OsUpdate!up, OsUpdate!core, OsUpdate!histories, OsCardTypes,
        OsRunTypes, OsCountTypes, OsSlot, OsFailed, OsPlaces, OsBoots, OsSpare, OsProven, OsJobs, OsCounts, OsSlots,
        Spare, Counted, ToCount, OsUpdate!primary, OsUpdate!target, OsUpdate!Other, OsUpdate!Installed,
        OsUpdate!Whole, OsUpdate!NoRauc, OsUpdate!Builds
    <2>4. OsProven'
      BY <1>15 DEF OsUpdate!MarkProves, OsUpdate!card, OsUpdate!up, OsUpdate!core, OsUpdate!histories, OsCardTypes,
        OsRunTypes, OsCountTypes, OsSlot, OsFailed, OsPlaces, OsBoots, OsSpare, OsProven, OsJobs, OsCounts, OsSlots,
        Spare, Counted, ToCount, OsUpdate!primary, OsUpdate!target, OsUpdate!Other, OsUpdate!Installed,
        OsUpdate!Whole, OsUpdate!NoRauc, OsUpdate!Builds
    <2>5. OsCounts'
      BY <1>15 DEF OsUpdate!MarkProves, OsUpdate!card, OsUpdate!up, OsUpdate!core, OsUpdate!histories, OsCardTypes,
        OsRunTypes, OsCountTypes, OsSlot, OsFailed, OsPlaces, OsBoots, OsSpare, OsProven, OsJobs, OsCounts, OsSlots,
        Spare, Counted, ToCount, OsUpdate!primary, OsUpdate!target, OsUpdate!Other, OsUpdate!Installed,
        OsUpdate!Whole, OsUpdate!NoRauc, OsUpdate!Builds
    <2> QED
      BY <2>1, <2>2, <2>3, <2>4, <2>5 DEF OsRest
  <1>16. CASE OsUpdate!MarkFails
    <2>1. OsPlaces'
      BY <1>16 DEF OsUpdate!MarkFails, OsUpdate!Stops, OsUpdate!card, OsUpdate!up, OsUpdate!core, OsUpdate!histories,
        OsCardTypes, OsRunTypes, OsCountTypes, OsSlot, OsFailed, OsPlaces, OsBoots, OsSpare, OsProven, OsJobs,
        OsCounts, OsSlots, Spare, Counted, ToCount, OsUpdate!primary, OsUpdate!target, OsUpdate!Other,
        OsUpdate!Installed, OsUpdate!Whole, OsUpdate!NoRauc, OsUpdate!Builds
    <2>2. OsBoots'
      BY <1>16 DEF OsUpdate!MarkFails, OsUpdate!Stops, OsUpdate!card, OsUpdate!up, OsUpdate!core, OsUpdate!histories,
        OsCardTypes, OsRunTypes, OsCountTypes, OsSlot, OsFailed, OsPlaces, OsBoots, OsSpare, OsProven, OsJobs,
        OsCounts, OsSlots, Spare, Counted, ToCount, OsUpdate!primary, OsUpdate!target, OsUpdate!Other,
        OsUpdate!Installed, OsUpdate!Whole, OsUpdate!NoRauc, OsUpdate!Builds
    <2>3. OsSpare'
      BY <1>16 DEF OsUpdate!MarkFails, OsUpdate!Stops, OsUpdate!card, OsUpdate!up, OsUpdate!core, OsUpdate!histories,
        OsCardTypes, OsRunTypes, OsCountTypes, OsSlot, OsFailed, OsPlaces, OsBoots, OsSpare, OsProven, OsJobs,
        OsCounts, OsSlots, Spare, Counted, ToCount, OsUpdate!primary, OsUpdate!target, OsUpdate!Other,
        OsUpdate!Installed, OsUpdate!Whole, OsUpdate!NoRauc, OsUpdate!Builds
    <2>4. OsProven'
      BY <1>16 DEF OsUpdate!MarkFails, OsUpdate!Stops, OsUpdate!card, OsUpdate!up, OsUpdate!core, OsUpdate!histories,
        OsCardTypes, OsRunTypes, OsCountTypes, OsSlot, OsFailed, OsPlaces, OsBoots, OsSpare, OsProven, OsJobs,
        OsCounts, OsSlots, Spare, Counted, ToCount, OsUpdate!primary, OsUpdate!target, OsUpdate!Other,
        OsUpdate!Installed, OsUpdate!Whole, OsUpdate!NoRauc, OsUpdate!Builds
    <2>5. OsJobs'
      BY <1>16 DEF OsUpdate!MarkFails, OsUpdate!Stops, OsUpdate!card, OsUpdate!up, OsUpdate!core, OsUpdate!histories,
        OsCardTypes, OsRunTypes, OsCountTypes, OsSlot, OsFailed, OsPlaces, OsBoots, OsSpare, OsProven, OsJobs,
        OsCounts, OsSlots, Spare, Counted, ToCount, OsUpdate!primary, OsUpdate!target, OsUpdate!Other,
        OsUpdate!Installed, OsUpdate!Whole, OsUpdate!NoRauc, OsUpdate!Builds
    <2>6. OsCounts'
      BY <1>16 DEF OsUpdate!MarkFails, OsUpdate!Stops, OsUpdate!card, OsUpdate!up, OsUpdate!core, OsUpdate!histories,
        OsCardTypes, OsRunTypes, OsCountTypes, OsSlot, OsFailed, OsPlaces, OsBoots, OsSpare, OsProven, OsJobs,
        OsCounts, OsSlots, Spare, Counted, ToCount, OsUpdate!primary, OsUpdate!target, OsUpdate!Other,
        OsUpdate!Installed, OsUpdate!Whole, OsUpdate!NoRauc, OsUpdate!Builds
    <2> QED
      BY <2>1, <2>2, <2>3, <2>4, <2>5, <2>6 DEF OsRest
  <1>17. CASE OsUpdate!MarkGood
    <2>1. OsJobs' /\ OsCounts'
      BY <1>17 DEF OsUpdate!MarkGood, OsUpdate!card, OsUpdate!up, OsUpdate!core, OsUpdate!histories, OsJobs, OsCounts,
        OsSlots, Spare, Counted, ToCount, OsUpdate!primary, OsUpdate!target, OsUpdate!Other, OsUpdate!Installed,
        OsUpdate!Whole, OsUpdate!NoRauc, OsUpdate!Builds
    <2>2. OsPlaces'
      BY <1>17 DEF OsUpdate!MarkGood, OsUpdate!card, OsUpdate!up, OsUpdate!core, OsUpdate!histories, OsCardTypes,
        OsRunTypes, OsCountTypes, OsSlot, OsFailed, OsPlaces, OsBoots, OsSpare, OsProven, OsJobs, OsCounts, OsSlots,
        Spare, Counted, ToCount, OsUpdate!primary, OsUpdate!target, OsUpdate!Other, OsUpdate!Installed,
        OsUpdate!Whole, OsUpdate!NoRauc, OsUpdate!Builds
    <2>3. OsBoots'
      BY <1>17 DEF OsUpdate!MarkGood, OsUpdate!card, OsUpdate!up, OsUpdate!core, OsUpdate!histories, OsCardTypes,
        OsRunTypes, OsCountTypes, OsSlot, OsFailed, OsPlaces, OsBoots, OsSpare, OsProven, OsJobs, OsCounts, OsSlots,
        Spare, Counted, ToCount, OsUpdate!primary, OsUpdate!target, OsUpdate!Other, OsUpdate!Installed,
        OsUpdate!Whole, OsUpdate!NoRauc, OsUpdate!Builds
    <2>4. OsSpare'
      BY <1>17, KeptLeavesOlder
    <2>5. OsProven'
      BY <1>17 DEF OsUpdate!MarkGood, OsUpdate!card, OsUpdate!up, OsUpdate!core, OsUpdate!histories, OsCardTypes,
        OsRunTypes, OsCountTypes, OsSlot, OsFailed, OsPlaces, OsBoots, OsSpare, OsProven, OsJobs, OsCounts, OsSlots,
        Spare, Counted, ToCount, OsUpdate!primary, OsUpdate!target, OsUpdate!Other, OsUpdate!Installed,
        OsUpdate!Whole, OsUpdate!NoRauc, OsUpdate!Builds
    <2> QED
      BY <2>1, <2>2, <2>3, <2>4, <2>5 DEF OsRest
  <1>18. CASE OsUpdate!BuildsHalf
    <2>1. OsJobs' /\ OsCounts'
      BY <1>18 DEF OsUpdate!BuildsHalf, OsUpdate!card, OsUpdate!up, OsUpdate!core, OsUpdate!histories, OsJobs,
        OsCounts, OsSlots, Spare, Counted, ToCount, OsUpdate!primary, OsUpdate!target, OsUpdate!Other,
        OsUpdate!Installed, OsUpdate!Whole, OsUpdate!NoRauc, OsUpdate!Builds
    <2>2. OsPlaces'
      BY <1>18 DEF OsUpdate!BuildsHalf, OsUpdate!card, OsUpdate!up, OsUpdate!core, OsUpdate!histories, OsCardTypes,
        OsRunTypes, OsCountTypes, OsSlot, OsFailed, OsPlaces, OsBoots, OsSpare, OsProven, OsJobs, OsCounts, OsSlots,
        Spare, Counted, ToCount, OsUpdate!primary, OsUpdate!target, OsUpdate!Other, OsUpdate!Installed,
        OsUpdate!Whole, OsUpdate!NoRauc, OsUpdate!Builds
    <2>3. OsBoots'
      BY <1>18 DEF OsUpdate!BuildsHalf, OsUpdate!card, OsUpdate!up, OsUpdate!core, OsUpdate!histories, OsCardTypes,
        OsRunTypes, OsCountTypes, OsSlot, OsFailed, OsPlaces, OsBoots, OsSpare, OsProven, OsJobs, OsCounts, OsSlots,
        Spare, Counted, ToCount, OsUpdate!primary, OsUpdate!target, OsUpdate!Other, OsUpdate!Installed,
        OsUpdate!Whole, OsUpdate!NoRauc, OsUpdate!Builds
    <2>4. OsSpare'
      BY <1>18 DEF OsUpdate!BuildsHalf, OsUpdate!card, OsUpdate!up, OsUpdate!core, OsUpdate!histories, OsCardTypes,
        OsRunTypes, OsCountTypes, OsSlot, OsFailed, OsPlaces, OsBoots, OsSpare, OsProven, OsJobs, OsCounts, OsSlots,
        Spare, Counted, ToCount, OsUpdate!primary, OsUpdate!target, OsUpdate!Other, OsUpdate!Installed,
        OsUpdate!Whole, OsUpdate!NoRauc, OsUpdate!Builds
    <2>5. OsProven'
      BY <1>18 DEF OsUpdate!BuildsHalf, OsUpdate!card, OsUpdate!up, OsUpdate!core, OsUpdate!histories, OsCardTypes,
        OsRunTypes, OsCountTypes, OsSlot, OsFailed, OsPlaces, OsBoots, OsSpare, OsProven, OsJobs, OsCounts, OsSlots,
        Spare, Counted, ToCount, OsUpdate!primary, OsUpdate!target, OsUpdate!Other, OsUpdate!Installed,
        OsUpdate!Whole, OsUpdate!NoRauc, OsUpdate!Builds
    <2> QED
      BY <2>1, <2>2, <2>3, <2>4, <2>5 DEF OsRest
  <1>19. CASE OsUpdate!CopiesHalf
    <2>1. OsJobs' /\ OsCounts'
      BY <1>19 DEF OsUpdate!CopiesHalf, OsUpdate!card, OsUpdate!up, OsUpdate!core, OsUpdate!histories, OsJobs,
        OsCounts, OsSlots, Spare, Counted, ToCount, OsUpdate!primary, OsUpdate!target, OsUpdate!Other,
        OsUpdate!Installed, OsUpdate!Whole, OsUpdate!NoRauc, OsUpdate!Builds
    <2>2. OsPlaces'
      BY <1>19 DEF OsUpdate!CopiesHalf, OsUpdate!card, OsUpdate!up, OsUpdate!core, OsUpdate!histories, OsCardTypes,
        OsRunTypes, OsCountTypes, OsSlot, OsFailed, OsPlaces, OsBoots, OsSpare, OsProven, OsJobs, OsCounts, OsSlots,
        Spare, Counted, ToCount, OsUpdate!primary, OsUpdate!target, OsUpdate!Other, OsUpdate!Installed,
        OsUpdate!Whole, OsUpdate!NoRauc, OsUpdate!Builds
    <2>3. OsBoots'
      BY <1>19 DEF OsUpdate!CopiesHalf, OsUpdate!card, OsUpdate!up, OsUpdate!core, OsUpdate!histories, OsCardTypes,
        OsRunTypes, OsCountTypes, OsSlot, OsFailed, OsPlaces, OsBoots, OsSpare, OsProven, OsJobs, OsCounts, OsSlots,
        Spare, Counted, ToCount, OsUpdate!primary, OsUpdate!target, OsUpdate!Other, OsUpdate!Installed,
        OsUpdate!Whole, OsUpdate!NoRauc, OsUpdate!Builds
    <2>4. OsSpare'
      BY <1>19 DEF OsUpdate!CopiesHalf, OsUpdate!card, OsUpdate!up, OsUpdate!core, OsUpdate!histories, OsCardTypes,
        OsRunTypes, OsCountTypes, OsSlot, OsFailed, OsPlaces, OsBoots, OsSpare, OsProven, OsJobs, OsCounts, OsSlots,
        Spare, Counted, ToCount, OsUpdate!primary, OsUpdate!target, OsUpdate!Other, OsUpdate!Installed,
        OsUpdate!Whole, OsUpdate!NoRauc, OsUpdate!Builds
    <2>5. OsProven'
      BY <1>19 DEF OsUpdate!CopiesHalf, OsUpdate!card, OsUpdate!up, OsUpdate!core, OsUpdate!histories, OsCardTypes,
        OsRunTypes, OsCountTypes, OsSlot, OsFailed, OsPlaces, OsBoots, OsSpare, OsProven, OsJobs, OsCounts, OsSlots,
        Spare, Counted, ToCount, OsUpdate!primary, OsUpdate!target, OsUpdate!Other, OsUpdate!Installed,
        OsUpdate!Whole, OsUpdate!NoRauc, OsUpdate!Builds
    <2> QED
      BY <2>1, <2>2, <2>3, <2>4, <2>5 DEF OsRest
  <1>20. CASE OsUpdate!SwitchesP1
    <2>1. OsJobs' /\ OsCounts'
      BY <1>20 DEF OsUpdate!SwitchesP1, OsUpdate!card, OsUpdate!up, OsUpdate!core, OsUpdate!histories, OsJobs,
        OsCounts, OsSlots, Spare, Counted, ToCount, OsUpdate!primary, OsUpdate!target, OsUpdate!Other,
        OsUpdate!Installed, OsUpdate!Whole, OsUpdate!NoRauc, OsUpdate!Builds
    <2>2. OsPlaces'
      BY <1>20 DEF OsUpdate!SwitchesP1, OsUpdate!card, OsUpdate!up, OsUpdate!core, OsUpdate!histories, OsCardTypes,
        OsRunTypes, OsCountTypes, OsSlot, OsFailed, OsPlaces, OsBoots, OsSpare, OsProven, OsJobs, OsCounts, OsSlots,
        Spare, Counted, ToCount, OsUpdate!primary, OsUpdate!target, OsUpdate!Other, OsUpdate!Installed,
        OsUpdate!Whole, OsUpdate!NoRauc, OsUpdate!Builds
    <2>3. OsBoots'
      BY <1>20 DEF OsUpdate!SwitchesP1, OsUpdate!card, OsUpdate!up, OsUpdate!core, OsUpdate!histories, OsCardTypes,
        OsRunTypes, OsCountTypes, OsSlot, OsFailed, OsPlaces, OsBoots, OsSpare, OsProven, OsJobs, OsCounts, OsSlots,
        Spare, Counted, ToCount, OsUpdate!primary, OsUpdate!target, OsUpdate!Other, OsUpdate!Installed,
        OsUpdate!Whole, OsUpdate!NoRauc, OsUpdate!Builds
    <2>4. OsSpare'
      BY <1>20 DEF OsUpdate!SwitchesP1, OsUpdate!card, OsUpdate!up, OsUpdate!core, OsUpdate!histories, OsCardTypes,
        OsRunTypes, OsCountTypes, OsSlot, OsFailed, OsPlaces, OsBoots, OsSpare, OsProven, OsJobs, OsCounts, OsSlots,
        Spare, Counted, ToCount, OsUpdate!primary, OsUpdate!target, OsUpdate!Other, OsUpdate!Installed,
        OsUpdate!Whole, OsUpdate!NoRauc, OsUpdate!Builds
    <2>5. OsProven'
      BY <1>20 DEF OsUpdate!SwitchesP1, OsUpdate!card, OsUpdate!up, OsUpdate!core, OsUpdate!histories, OsCardTypes,
        OsRunTypes, OsCountTypes, OsSlot, OsFailed, OsPlaces, OsBoots, OsSpare, OsProven, OsJobs, OsCounts, OsSlots,
        Spare, Counted, ToCount, OsUpdate!primary, OsUpdate!target, OsUpdate!Other, OsUpdate!Installed,
        OsUpdate!Whole, OsUpdate!NoRauc, OsUpdate!Builds
    <2> QED
      BY <2>1, <2>2, <2>3, <2>4, <2>5 DEF OsRest
  <1>21. CASE OsUpdate!Wires
    <2>1. OsCounts'
      BY <1>21 DEF OsUpdate!Wires, OsUpdate!Uses, OsUpdate!card, OsUpdate!up, OsUpdate!core, OsUpdate!histories,
        OsCounts, OsSlots, Spare, Counted, ToCount, OsUpdate!primary, OsUpdate!target, OsUpdate!Other,
        OsUpdate!Installed, OsUpdate!Whole, OsUpdate!NoRauc, OsUpdate!Builds
    <2>2. OsPlaces'
      BY <1>21 DEF OsUpdate!Wires, OsUpdate!Uses, OsUpdate!card, OsUpdate!up, OsUpdate!core, OsUpdate!histories,
        OsCardTypes, OsRunTypes, OsCountTypes, OsSlot, OsFailed, OsPlaces, OsBoots, OsSpare, OsProven, OsJobs,
        OsCounts, OsSlots, Spare, Counted, ToCount, OsUpdate!primary, OsUpdate!target, OsUpdate!Other,
        OsUpdate!Installed, OsUpdate!Whole, OsUpdate!NoRauc, OsUpdate!Builds
    <2>3. OsBoots'
      BY <1>21 DEF OsUpdate!Wires, OsUpdate!Uses, OsUpdate!card, OsUpdate!up, OsUpdate!core, OsUpdate!histories,
        OsCardTypes, OsRunTypes, OsCountTypes, OsSlot, OsFailed, OsPlaces, OsBoots, OsSpare, OsProven, OsJobs,
        OsCounts, OsSlots, Spare, Counted, ToCount, OsUpdate!primary, OsUpdate!target, OsUpdate!Other,
        OsUpdate!Installed, OsUpdate!Whole, OsUpdate!NoRauc, OsUpdate!Builds
    <2>4. OsSpare'
      BY <1>21 DEF OsUpdate!Wires, OsUpdate!Uses, OsUpdate!card, OsUpdate!up, OsUpdate!core, OsUpdate!histories,
        OsCardTypes, OsRunTypes, OsCountTypes, OsSlot, OsFailed, OsPlaces, OsBoots, OsSpare, OsProven, OsJobs,
        OsCounts, OsSlots, Spare, Counted, ToCount, OsUpdate!primary, OsUpdate!target, OsUpdate!Other,
        OsUpdate!Installed, OsUpdate!Whole, OsUpdate!NoRauc, OsUpdate!Builds
    <2>5. OsProven'
      BY <1>21 DEF OsUpdate!Wires, OsUpdate!Uses, OsUpdate!card, OsUpdate!up, OsUpdate!core, OsUpdate!histories,
        OsCardTypes, OsRunTypes, OsCountTypes, OsSlot, OsFailed, OsPlaces, OsBoots, OsSpare, OsProven, OsJobs,
        OsCounts, OsSlots, Spare, Counted, ToCount, OsUpdate!primary, OsUpdate!target, OsUpdate!Other,
        OsUpdate!Installed, OsUpdate!Whole, OsUpdate!NoRauc, OsUpdate!Builds
    <2>6. OsJobs'
      BY <1>21 DEF OsUpdate!Wires, OsUpdate!Uses, OsUpdate!card, OsUpdate!up, OsUpdate!core, OsUpdate!histories,
        OsCardTypes, OsRunTypes, OsCountTypes, OsSlot, OsFailed, OsPlaces, OsBoots, OsSpare, OsProven, OsJobs,
        OsCounts, OsSlots, Spare, Counted, ToCount, OsUpdate!primary, OsUpdate!target, OsUpdate!Other,
        OsUpdate!Installed, OsUpdate!Whole, OsUpdate!NoRauc, OsUpdate!Builds
    <2> QED
      BY <2>1, <2>2, <2>3, <2>4, <2>5, <2>6 DEF OsRest
  <1>22. ASSUME NEW n \in BOOLEAN, OsUpdate!Starts(n) PROVE OsRest'
    <2>1. OsBoots' /\ OsSpare' /\ OsProven'
      BY <1>22 DEF OsUpdate!Starts, OsUpdate!Uses, OsUpdate!Decides, OsUpdate!Skipped, OsUpdate!card, OsUpdate!up,
        OsUpdate!core, OsUpdate!histories, OsBoots, OsSpare, OsProven, OsSlots, Spare, Counted, ToCount,
        OsUpdate!primary, OsUpdate!target, OsUpdate!Other, OsUpdate!Installed, OsUpdate!Whole, OsUpdate!NoRauc,
        OsUpdate!Builds
    <2>2. OsPlaces'
      BY <1>22 DEF OsUpdate!Starts, OsUpdate!Uses, OsUpdate!Decides, OsUpdate!Skipped, OsUpdate!card, OsUpdate!up,
        OsUpdate!core, OsUpdate!histories, OsCardTypes, OsRunTypes, OsCountTypes, OsSlot, OsFailed, OsPlaces, OsBoots,
        OsSpare, OsProven, OsJobs, OsCounts, OsSlots, Spare, Counted, ToCount, OsUpdate!primary, OsUpdate!target,
        OsUpdate!Other, OsUpdate!Installed, OsUpdate!Whole, OsUpdate!NoRauc, OsUpdate!Builds
    <2>3. OsJobs'
      BY <1>22 DEF OsUpdate!Starts, OsUpdate!Uses, OsUpdate!Decides, OsUpdate!Skipped, OsUpdate!card, OsUpdate!up,
        OsUpdate!core, OsUpdate!histories, OsCardTypes, OsRunTypes, OsCountTypes, OsSlot, OsFailed, OsPlaces, OsBoots,
        OsSpare, OsProven, OsJobs, OsCounts, OsSlots, Spare, Counted, ToCount, OsUpdate!primary, OsUpdate!target,
        OsUpdate!Other, OsUpdate!Installed, OsUpdate!Whole, OsUpdate!NoRauc, OsUpdate!Builds
    <2>4. OsCounts'
      BY <1>22 DEF OsUpdate!Starts, OsUpdate!Uses, OsUpdate!Decides, OsUpdate!Skipped, OsUpdate!card, OsUpdate!up,
        OsUpdate!core, OsUpdate!histories, OsCardTypes, OsRunTypes, OsCountTypes, OsSlot, OsFailed, OsPlaces, OsBoots,
        OsSpare, OsProven, OsJobs, OsCounts, OsSlots, Spare, Counted, ToCount, OsUpdate!primary, OsUpdate!target,
        OsUpdate!Other, OsUpdate!Installed, OsUpdate!Whole, OsUpdate!NoRauc, OsUpdate!Builds
    <2> QED
      BY <2>1, <2>2, <2>3, <2>4 DEF OsRest
  <1> QED
    BY <1>1, <1>2, <1>3, <1>4, <1>5, <1>6, <1>7, <1>8, <1>9, <1>10, <1>11, <1>12, <1>13, <1>14, <1>15, <1>16,
       <1>17, <1>18, <1>19, <1>20, <1>21, <1>22 DEF OsUpdate!Next

-----------------------------------------------------------------------------
(* Wifi.                                                                    *)

WifiJob == [pc : {"idle", "asked", "joins", "failed"}, net : Networks \union {None}, right : BOOLEAN, from : BOOLEAN,
            active : Networks \union {None}, was : BOOLEAN]
WifiRounds == [fails : 0..5, step : {0, 2, 3}]
WifiNet == [fails : 0..2, online : BOOLEAN]
WifiSince == [restarts : 0..1, steps : SUBSET {2, 3}]

WifiTypes ==
  /\ radio \in Networks \union {Off, Hotspot} /\ air \subseteq Networks /\ wifi_saved \subseteq Networks
  /\ watch \in {"idle", "waits", "retries", "rejoins", "tells"} /\ up \in {"off", "boot", "up"}
  /\ rounds \in WifiRounds /\ stamp \in BOOLEAN
  /\ seen \in BOOLEAN \union {None} /\ asked \in BOOLEAN \union {None} /\ net \in WifiNet
  /\ wifi_job \in [Wifi!Jobs -> WifiJob]
  /\ since \in WifiSince

\* A request that goes on is for a network; a wrong password belongs to a profile; a restart is noted for its hour.
WifiInv ==
  /\ WifiTypes
  /\ \A j \in Wifi!Jobs : wifi_job[j].pc # "idle" => wifi_job[j].net \in Networks
  /\ wrong \subseteq wifi_saved
  /\ since.restarts = 1 => stamp

(* What a restart leaves, and what is written in the histories, has its type. *)
LEMMA WifiBlank ==
  /\ Wifi!NoJob \in WifiJob /\ Wifi!NoJob.pc = "idle" /\ [j \in Wifi!Jobs |-> Wifi!NoJob] \in [Wifi!Jobs -> WifiJob]
  /\ Wifi!Monitor \in WifiNet /\ Wifi!NoRounds \in WifiRounds
  <1>1. Wifi!NoJob \in WifiJob /\ Wifi!NoJob.pc = "idle"
    BY DEF Wifi!NoJob, WifiJob
  <1>2. Wifi!Monitor \in WifiNet /\ Wifi!NoRounds \in WifiRounds
    BY DEF WifiNet, WifiRounds, Wifi!Monitor, Wifi!NoRounds
  <1> QED
    BY <1>1, <1>2

(* The note of the last restarts keeps its type as it is written. *)
LEMMA SinceEdits == ASSUME NEW s \in WifiSince
  PROVE  /\ [s EXCEPT !.restarts = 0] \in WifiSince /\ [s EXCEPT !.restarts = 0].restarts = 0
         /\ \A t \in SUBSET {2, 3} : [s EXCEPT !.steps = t] \in WifiSince
            /\ [s EXCEPT !.steps = t].restarts = s.restarts
         /\ s.restarts # 1 => [s EXCEPT !.restarts = @ + 1, !.steps = {}] \in WifiSince
  <1>1. s.restarts # 1 => s.restarts + 1 \in 0..1 /\ {} \in SUBSET {2, 3}
    BY DEF WifiSince
  <1>2. \A n \in 0..1, t \in SUBSET {2, 3} : [s EXCEPT !.restarts = n, !.steps = t] \in WifiSince
    BY DEF WifiSince
  <1>3. [s EXCEPT !.restarts = @ + 1, !.steps = {}] = [s EXCEPT !.restarts = s.restarts + 1, !.steps = {}]
    BY DEF WifiSince
  <1>4. [s EXCEPT !.restarts = 0] \in WifiSince /\ [s EXCEPT !.restarts = 0].restarts = 0
    BY DEF WifiSince
  <1>5. \A t \in SUBSET {2, 3} : [s EXCEPT !.steps = t] \in WifiSince /\ [s EXCEPT !.steps = t].restarts = s.restarts
    BY DEF WifiSince
  <1> QED
    BY <1>1, <1>2, <1>3, <1>4, <1>5

(* So do the rounds of the watch. *)
LEMMA RoundEdits == ASSUME rounds \in WifiRounds
  PROVE  Wifi!Fails \in 0..5 /\ \A n \in 0..5 : [rounds EXCEPT !.fails = n] \in WifiRounds
BY DEF WifiRounds, Wifi!Fails, Wifi!MaxFails

(* A restart leaves nothing but the card: the watch, the monitor and the requests begin anew. *)
LEMMA WifiRestarts == ASSUME WifiInv, Wifi!Restarts PROVE
  /\ radio' = Off /\ watch' = "idle" /\ up' = "off" /\ rounds' \in WifiRounds /\ seen' = None /\ asked' = None
  /\ net' \in WifiNet /\ wifi_job' \in [Wifi!Jobs -> WifiJob] /\ (\A j \in Wifi!Jobs : wifi_job'[j].pc = "idle")
  <1>1. \A j \in Wifi!Jobs : wifi_job'[j] = Wifi!NoJob
    BY DEF Wifi!Restarts
  <1>2. rounds' = Wifi!NoRounds /\ net' = Wifi!Monitor /\ wifi_job' = [j \in Wifi!Jobs |-> Wifi!NoJob]
    BY DEF Wifi!Restarts
  <1>3. radio' = Off /\ watch' = "idle" /\ up' = "off" /\ seen' = None /\ asked' = None
    BY DEF Wifi!Restarts
  <1> QED
    BY <1>1, <1>2, <1>3, WifiBlank


(* A restart for the chip is noted, and none comes while the note is there. *)
LEMMA ChipRestarts == ASSUME WifiInv, Wifi!RestartForChip, UNCHANGED <<wifi_saved, wrong, air>> PROVE WifiInv'
  <1>1. CASE stamp
    BY <1>1 DEF Wifi!RestartForChip, Wifi!app, WifiInv, WifiTypes
  <1>2. CASE ~stamp
    <2>1. Wifi!Restarts /\ stamp' = TRUE /\ since.restarts # 1 /\ since \in WifiSince
      BY <1>2 DEF Wifi!RestartForChip, WifiInv, WifiTypes
    <2>2. since' \in WifiSince
      BY <1>2, <2>1, SinceEdits DEF Wifi!RestartForChip
    <2>3. /\ radio' = Off /\ watch' = "idle" /\ up' = "off" /\ rounds' \in WifiRounds /\ seen' = None /\ asked' = None
          /\ net' \in WifiNet /\ wifi_job' \in [Wifi!Jobs -> WifiJob]
             /\ (\A j \in Wifi!Jobs : wifi_job'[j].pc = "idle")
      BY <2>1, WifiRestarts
    <2> QED
      BY <2>1, <2>2, <2>3 DEF WifiInv, WifiTypes
  <1> QED
    BY <1>1, <1>2 DEF WifiInv, WifiTypes

(* A request for another network keeps the invariant. *)
LEMMA WifiAsked == ASSUME WifiInv, NEW j \in Wifi!Jobs, NEW from \in BOOLEAN,
         NEW active \in Networks \union {None}, Wifi!JobAsked(j, from, active) PROVE WifiInv'
  <1>1. PICK n \in Networks, right \in BOOLEAN :
          wifi_job' = [wifi_job EXCEPT ![j] =
                         [pc |-> "asked", net |-> n, right |-> right, from |-> from, active |-> active,
                          was |-> n \in wifi_saved]]
    BY DEF Wifi!JobAsked
  <1> DEFINE new == [pc |-> "asked", net |-> n, right |-> right, from |-> from, active |-> active,
                     was |-> n \in wifi_saved]
  <1>2. new \in WifiJob /\ new.net \in Networks
    BY DEF WifiJob
  <1>3. wifi_job' = [wifi_job EXCEPT ![j] = new]
    BY <1>1
  <1> HIDE DEF new
  <1>4. wifi_job' \in [Wifi!Jobs -> WifiJob] /\ \A i \in Wifi!Jobs : wifi_job'[i].pc # "idle"
        => wifi_job'[i].net \in Networks
    BY <1>2, <1>3 DEF WifiInv, WifiTypes
  <1> QED
    BY <1>4 DEF Wifi!JobAsked, Wifi!nm, WifiInv, WifiTypes

(* Wi-Fi begins off, with no request and no restart counted. *)
LEMMA WifiInit == ASSUME Wifi!Init PROVE WifiInv
  <1>1. /\ wifi_saved \subseteq Networks /\ air \subseteq Networks /\ wrong = {} /\ radio = Off /\ watch = "idle"
        /\ up = "boot" /\ stamp = FALSE /\ seen = None /\ asked = None
    BY SystemAssumption DEF Wifi!Init, Wifi!WifiAssumption
  <1>2. since \in WifiSince /\ since.restarts = 0
    BY DEF Wifi!Init, WifiSince
  <1>3. /\ net \in WifiNet /\ rounds \in WifiRounds /\ wifi_job \in [Wifi!Jobs -> WifiJob]
        /\ \A j \in Wifi!Jobs : wifi_job[j].pc = "idle"
    BY WifiBlank DEF Wifi!Init
  <1>4. WifiTypes
    BY <1>1, <1>2, <1>3 DEF WifiTypes
  <1>5. ~(since.restarts = 1)
    BY <1>2
  <1> QED
    BY <1>1, <1>3, <1>4, <1>5 DEF WifiInv

(* Each step of Wi-Fi keeps its invariant. *)
LEMMA WifiStep == ASSUME WifiInv, [Wifi!Next]_WifiVars PROVE WifiInv'
  <1> USE DEF WifiInv
  <1>1. ASSUME NEW n \in Networks, Wifi!RouterGoes(n) PROVE WifiInv'
    BY <1>1 DEF Wifi!RouterGoes, Wifi!Happens, Wifi!nm, Wifi!app, WifiTypes
  <1>2. ASSUME NEW n \in Networks, Wifi!RouterComes(n) PROVE WifiInv'
    BY <1>2 DEF Wifi!RouterComes, Wifi!Happens, Wifi!nm, Wifi!app, WifiTypes
  <1>3. CASE Wifi!JoinsByItself
    BY <1>3 DEF Wifi!JoinsByItself, Wifi!Joinable, Wifi!nm, Wifi!app, WifiTypes
  <1>4. CASE Wifi!PhoneMoves
    BY <1>4 DEF Wifi!PhoneMoves, Wifi!Happens, Wifi!LinkChanges, Wifi!nm, Wifi!app, WifiTypes
  <1>5. CASE Wifi!TrafficMoves
    BY <1>5 DEF Wifi!TrafficMoves, Wifi!Happens, Wifi!LinkChanges, Wifi!nm, Wifi!app, WifiTypes
  <1>6. CASE Wifi!ChipHangs
    BY <1>6 DEF Wifi!ChipHangs, Wifi!Happens, Wifi!LinkChanges, Wifi!nm, Wifi!app, WifiTypes
  <1>7. CASE Wifi!CableGoes
    BY <1>7 DEF Wifi!CableGoes, Wifi!Happens, Wifi!LinkChanges, Wifi!nm, Wifi!app, WifiTypes
  <1>8. CASE Wifi!CableComes
    BY <1>8 DEF Wifi!CableComes, Wifi!Happens, Wifi!nm, Wifi!app, WifiTypes
  <1>9. CASE Wifi!HourPasses
    <2>1. since' \in WifiSince /\ since'.restarts = 0 /\ stamp' \in BOOLEAN
      BY <1>9, SinceEdits DEF Wifi!HourPasses, WifiTypes
    <2> QED
      BY <1>9, <2>1 DEF Wifi!HourPasses, Wifi!nm, Wifi!app, WifiTypes
  <1>10. CASE Wifi!PowerReturns
    BY <1>10 DEF Wifi!PowerReturns, Wifi!nm, Wifi!app, WifiTypes
  <1>11. CASE Wifi!BootCheck
    BY <1>11 DEF Wifi!BootCheck, Wifi!Online, Wifi!nm, Wifi!app, WifiTypes
  <1>12. CASE Wifi!WatchBegins
    BY <1>12 DEF Wifi!WatchBegins, Wifi!nm, Wifi!app, WifiTypes
  <1>13. CASE Wifi!RecoverChip
    <2>1. CASE Wifi!RestartForChip
      BY <1>13, <2>1, ChipRestarts DEF Wifi!RecoverChip, WifiTypes
    <2>2. CASE UNCHANGED <<radio, up, watch, rounds, stamp, Wifi!app, since>>
      BY <1>13, <2>2 DEF Wifi!RecoverChip, Wifi!app, WifiTypes
    <2> QED
      BY <1>13, <2>1, <2>2 DEF Wifi!RecoverChip
  <1>14. CASE Wifi!RetriesSaved
    BY <1>14 DEF Wifi!RetriesSaved, Wifi!Joinable, Wifi!nm, Wifi!app, WifiTypes
  <1>15. CASE Wifi!StartHotspot
    BY <1>15 DEF Wifi!StartHotspot, Wifi!nm, Wifi!app, WifiTypes
  <1>16. CASE Wifi!Tell
    BY <1>16 DEF Wifi!Tell, Wifi!nm, Wifi!app, WifiTypes
  <1>17. CASE Wifi!TrafficFlows
    BY <1>17, SinceEdits, WifiBlank DEF Wifi!TrafficFlows, Wifi!nm, Wifi!app, WifiTypes
  <1>18. CASE Wifi!CountsRound
    BY <1>18, RoundEdits DEF Wifi!CountsRound, Wifi!nm, Wifi!app, WifiTypes
  <1>19. CASE Wifi!Rejoins
    BY <1>19, RoundEdits DEF Wifi!Rejoins, Wifi!nm, Wifi!app, WifiTypes
  <1>20. CASE Wifi!RejoinsSaved
    BY <1>20 DEF Wifi!RejoinsSaved, Wifi!Joinable, Wifi!nm, Wifi!app, WifiTypes
  <1>21. CASE Wifi!HungChipStep
    <2>1. CASE Wifi!RestartForChip
      BY <1>21, <2>1, ChipRestarts DEF Wifi!HungChipStep, WifiTypes
    <2>2. CASE rounds' = [fails |-> Wifi!Fails, step |-> Wifi!Fails] /\ Wifi!Fails \in {2, 3}
      <3>1. rounds' \in WifiRounds /\ Wifi!Fails \in {2, 3}
        BY <2>2 DEF WifiRounds
      <3>2. since.steps \union {Wifi!Fails} \in SUBSET {2, 3} /\ since \in WifiSince
        BY <3>1 DEF WifiTypes, WifiSince
      <3>3. since' = [since EXCEPT !.steps = since.steps \union {Wifi!Fails}] \/ since' = since
        BY <1>21, <3>1 DEF Wifi!HungChipStep
      <3>4. since' \in WifiSince /\ since'.restarts = since.restarts
        BY <3>2, <3>3, SinceEdits
      <3>5. watch' = "idle" /\ radio' \in {radio, Off} /\ UNCHANGED <<wifi_saved, wrong, air, up, stamp, Wifi!app>>
        BY <1>21, <3>1 DEF Wifi!HungChipStep
      <3> QED
        BY <3>1, <3>4, <3>5 DEF Wifi!app, WifiTypes
    <2> QED
      BY <1>21, <2>1, <2>2 DEF Wifi!HungChipStep
  <1>22. CASE Wifi!SetupAsked
    BY <1>22, WifiAsked DEF Wifi!SetupAsked, Wifi!HotspotSeen, Wifi!Jobs, WifiTypes
  <1>23. CASE Wifi!RestoreAsked
    BY <1>23, WifiAsked DEF Wifi!RestoreAsked, Wifi!Jobs, WifiTypes
  <1>24. CASE Wifi!SwitchAsked
    BY <1>24, WifiAsked DEF Wifi!SwitchAsked, Wifi!OnWifi, Wifi!Jobs, WifiTypes
  <1>25. CASE Wifi!Asks
    BY <1>25 DEF Wifi!Asks, Wifi!Happens, Wifi!nm, Wifi!app, WifiTypes
  <1>26. CASE Wifi!Remembers
    BY <1>26 DEF Wifi!Remembers, Wifi!nm, Wifi!app, WifiTypes
  <1>27. CASE Wifi!Expires
    BY <1>27 DEF Wifi!Expires, Wifi!nm, Wifi!app, WifiTypes
  <1>28. CASE Wifi!PagePolls
    BY <1>28 DEF Wifi!PagePolls, Wifi!ShownPage, Wifi!HotspotSeen, Wifi!nm, Wifi!app, WifiTypes
  <1>29. CASE Wifi!InternetCheck
    BY <1>29 DEF Wifi!InternetCheck, Wifi!Monitor, Wifi!nm, Wifi!app, WifiTypes, WifiNet
  <1>30. ASSUME NEW j \in Wifi!Jobs, Wifi!TearsDown(j) PROVE WifiInv'
    BY <1>30 DEF Wifi!TearsDown, Wifi!nm, Wifi!app, WifiTypes, WifiJob
  <1>31. ASSUME NEW j \in Wifi!Jobs, Wifi!Joined(j) PROVE WifiInv'
    BY <1>31 DEF Wifi!Joined, Wifi!NoJob, Wifi!nm, Wifi!app, WifiTypes, WifiJob
  <1>32. ASSUME NEW j \in Wifi!Jobs, Wifi!NotJoined(j) PROVE WifiInv'
    BY <1>32 DEF Wifi!NotJoined, Wifi!nm, Wifi!app, WifiTypes, WifiJob
  <1>33. ASSUME NEW j \in Wifi!Jobs, Wifi!HotspotBack(j) PROVE WifiInv'
    <2>1. CASE wifi_link.chip = "ok"
      <3>1. wifi_job' = [wifi_job EXCEPT ![j] = Wifi!NoJob] /\ j \in Wifi!Jobs
        BY <1>33, <2>1 DEF Wifi!HotspotBack
      <3>2. wifi_job' \in [Wifi!Jobs -> WifiJob] /\ \A i \in Wifi!Jobs : wifi_job'[i].pc # "idle"
            => wifi_job'[i].net \in Networks
        BY <3>1, WifiBlank DEF WifiTypes
      <3> QED
        BY <1>33, <2>1, <3>2 DEF Wifi!HotspotBack, WifiTypes
    <2>2. CASE wifi_link.chip # "ok"
      <3>1. Wifi!Restarts
        BY <1>33, <2>2 DEF Wifi!HotspotBack
      <3>2. /\ radio' = Off /\ watch' = "idle" /\ up' = "off" /\ rounds' \in WifiRounds /\ seen' = None
               /\ asked' = None
            /\ net' \in WifiNet /\ wifi_job' \in [Wifi!Jobs -> WifiJob]
               /\ \A i \in Wifi!Jobs : wifi_job'[i].pc = "idle"
        BY <3>1, WifiRestarts
      <3>3. UNCHANGED <<wifi_saved, wrong, air, stamp, since>>
        BY <1>33 DEF Wifi!HotspotBack
      <3> QED
        BY <3>2, <3>3 DEF WifiTypes
    <2> QED
      BY <2>1, <2>2
  <1>34. ASSUME NEW j \in Wifi!Jobs, Wifi!NothingBack(j) PROVE WifiInv'
    BY <1>34 DEF Wifi!NothingBack, Wifi!NoJob, Wifi!nm, Wifi!app, WifiTypes, WifiJob
  <1>35. CASE Wifi!SwitchesBack
    BY <1>35 DEF Wifi!SwitchesBack, Wifi!NoJob, Wifi!Joinable, Wifi!Jobs, Wifi!nm, Wifi!app, WifiTypes, WifiJob
  <1>36. CASE UNCHANGED WifiVars
    BY <1>36 DEF WifiVars, WifiTypes
  <1> QED
    BY <1>1, <1>2, <1>3, <1>4, <1>5, <1>6, <1>7, <1>8, <1>9, <1>10, <1>11, <1>12, <1>13, <1>14, <1>15, <1>16,
       <1>17, <1>18, <1>19, <1>20, <1>21, <1>22, <1>23, <1>24, <1>25, <1>26, <1>27, <1>28, <1>29, <1>30, <1>31,
            <1>32, <1>33, <1>34, <1>35, <1>36 DEF Wifi!Next, Wifi!World, Wifi!WatchStep, Wifi!JobStep

(* A card as it came boots, and nothing on it was tried. *)
LEMMA OsInit == ASSUME OsUpdate!Init PROVE OsInv
  <1> USE OsConstants
  <1>1. slot \in [OsSlots -> OsSlot]
    BY DEF OsUpdate!Init, OsSlots, OsSlot
  <1>2. half \in [1..2 -> OsHalf]
    BY DEF OsUpdate!Init, OsSlots, OsHalf
  <1>3. OsRunTypes
    <2>1. rauc \in OsRauc
      BY DEF OsUpdate!Init
    <2> QED
      BY <2>1 DEF OsUpdate!Init, OsRunTypes, OsSlots
  <1>7. entry \in 1..2
    BY DEF OsUpdate!Init
  <1>4. OsCountTypes
    <2>1. failed \in OsFailed
      BY DEF OsUpdate!Init, OsFailed
    <2>2. tried \in [OsUpdate!Builds -> Nat]
      BY DEF OsUpdate!Init
    <2>3. newest \in OsUpdate!Builds /\ pending \in 0..MaxBuild /\ wired \in 0..1 /\ proven \subseteq OsUpdate!Builds
      BY DEF OsUpdate!Init
    <2>4. lost \in BOOLEAN /\ late \in BOOLEAN
      BY DEF OsUpdate!Init
    <2> QED
      BY <2>1, <2>2, <2>3, <2>4 DEF OsCountTypes
  <1>5. OsPlaces /\ OsBoots /\ OsSpare /\ OsProven
    <2>1. slot["A"].build = 1 /\ slot["A"].ready /\ slot["A"].gpio = 0 /\ ~slot["B"].ready
      BY DEF OsUpdate!Init
    <2>3. half[entry].primary = "A" /\ half[entry].whole
      <3>1. half[1] = [fw |-> IF 1 = 1 THEN Firmware[1] ELSE 0, primary |-> "A", whole |-> 1 = 1]
        BY DEF OsUpdate!Init
      <3>2. half[1].primary = "A" /\ half[1].whole = (1 = 1)
        BY <3>1
      <3>3. half[1].whole
        BY <3>2
      <3>4. entry = 1
        BY DEF OsUpdate!Init
      <3> QED
        BY <3>2, <3>3, <3>4
    <2>4. OsUpdate!primary = "A" /\ Spare = "B" /\ OsUpdate!Whole("A")
      BY <2>1, <2>3 DEF Spare, OsUpdate!primary, OsUpdate!Other, OsUpdate!Whole
    <2>5. running = "A" /\ wired = 0 /\ mark = "none"
      BY DEF OsUpdate!Init
    <2>2. rauc = OsUpdate!NoRauc /\ rauc.pc = "idle" /\ power = "on" /\ ~trial /\ proven = {1}
      BY DEF OsUpdate!Init
    <2> QED
      BY <2>1, <2>2, <2>3, <2>4, <2>5 DEF OsPlaces, OsBoots, OsSpare, OsProven, OsUpdate!Installed
  <1>6. OsJobs /\ OsCounts
    BY DEF OsUpdate!Init, OsJobs, OsCounts, Counted, ToCount, OsUpdate!Installed, OsUpdate!NoRauc, OsUpdate!Builds
  <1> QED
    BY <1>1, <1>2, <1>3, <1>4, <1>5, <1>6, <1>7 DEF OsInv, OsTypes, OsRest, OsCardTypes

(* Each step of an OS update keeps its invariant. *)
LEMMA OsKeeps == ASSUME OsInv, [OsUpdate!Next]_OsUpdateVars PROVE OsInv'
  <1>1. CASE OsUpdate!Next
    <2>1. OsTypes'
      BY <1>1, OsCardTypesStep, OsRunTypesStep, OsCountTypesStep DEF OsInv, OsTypes, OsRest
    <2> QED
      BY <1>1, <2>1, OsStep DEF OsInv
  <1>2. CASE UNCHANGED OsUpdateVars
    <2>1. OsTypes'
      BY <1>2 DEF OsUpdateVars, OsInv, OsTypes, OsCardTypes, OsRunTypes, OsCountTypes
    <2>2. OsPlaces' /\ OsBoots'
      BY <1>2 DEF OsUpdateVars, OsInv, OsRest, OsPlaces, OsBoots, OsUpdate!primary, OsUpdate!Whole
    <2>3. OsSpare' /\ OsProven'
      BY <1>2 DEF OsUpdateVars, OsInv, OsRest, OsSpare, OsProven, Spare, OsUpdate!primary, OsUpdate!Installed,
        OsUpdate!target
    <2>4. OsJobs' /\ OsCounts'
      BY <1>2 DEF OsUpdateVars, OsInv, OsRest, OsJobs, OsCounts, Counted, ToCount, OsUpdate!Installed
    <2> QED
      BY <2>1, <2>2, <2>3, <2>4 DEF OsInv, OsRest
  <1> QED
    BY <1>1, <1>2

(* What boots after a step is as new as what did before. *)
LEMMA OsNeverOlder == ASSUME OsInv, [OsUpdate!Next]_OsUpdateVars
  PROVE  slot'[OsUpdate!primary'].build >= slot[OsUpdate!primary].build
  <1> USE DEF OsInv, OsTypes
  <1>1. slot[OsUpdate!primary].build \in Nat /\ running \in OsSlots /\ OsUpdate!primary \in OsSlots
    BY OsNames DEF OsCardTypes, OsRunTypes, OsSlot
  <1>2. CASE OsUpdate!MarkGood
    <2>1. CASE running = OsUpdate!primary
      BY <1>1, <1>2, <2>1 DEF OsUpdate!MarkGood, OsUpdate!primary
    <2>2. CASE running # OsUpdate!primary
      <3>1. OsUpdate!primary' = running /\ Spare = running /\ slot' = slot
        BY <1>2, <2>2 DEF OsUpdate!MarkGood, OsCardTypes, OsRunTypes, OsSlots, OsHalf, Spare, OsUpdate!primary,
          OsUpdate!Other
      <3>2. slot[running].ready /\ slot[running].at > slot[OsUpdate!primary].at
        BY <1>2, <2>2 DEF OsUpdate!MarkGood, OsRest, OsPlaces, OsProven, OsUpdate!Whole
      <3> QED
        BY <3>1, <3>2 DEF OsRest, OsSpare
    <2> QED
      BY <2>1, <2>2
  <1>3. CASE OsUpdate!RaucBegins \/ OsUpdate!RaucWrites \/ OsUpdate!SetPrimary \/ OsUpdate!Activate \/ OsUpdate!Wires
    <2>1. OsUpdate!primary' = OsUpdate!primary
      BY <1>3 DEF OsUpdate!RaucBegins, OsUpdate!RaucWrites, OsUpdate!SetPrimary, OsUpdate!Activate, OsUpdate!Wires,
        OsUpdate!primary
    <2>2. slot'[OsUpdate!primary].build = slot[OsUpdate!primary].build
      <3>1. CASE OsUpdate!RaucBegins
        BY <3>1, <1>1, OsNames DEF OsUpdate!RaucBegins, OsUpdate!MayOverwrite, OsCardTypes
      <3>2. CASE OsUpdate!RaucWrites
        BY <3>2, <1>1, OsNames DEF OsUpdate!RaucWrites, OsCardTypes, OsRest, OsPlaces
      <3>3. CASE OsUpdate!SetPrimary
        BY <3>3, <1>1, OsNames DEF OsUpdate!SetPrimary, OsCardTypes, OsSlot
      <3>4. CASE OsUpdate!Activate
        BY <3>4, <1>1, OsNames DEF OsUpdate!Activate, OsCardTypes, OsSlot
      <3>5. CASE OsUpdate!Wires
        BY <3>5, <1>1, OsNames DEF OsUpdate!Wires, OsCardTypes, OsSlot
      <3> QED
        BY <1>3, <3>1, <3>2, <3>3, <3>4, <3>5
    <2> QED
      BY <1>1, <2>1, <2>2
  <1>4. CASE slot' = slot /\ OsUpdate!primary' = OsUpdate!primary
    BY <1>1, <1>4
  <1>5. CASE OsUpdate!BuildsHalf \/ OsUpdate!CopiesHalf
    <2>1. half'[entry] = half[entry] /\ entry' = entry /\ slot' = slot
      BY <1>5, OsNames DEF OsUpdate!BuildsHalf, OsUpdate!CopiesHalf, OsCardTypes
    <2> QED
      BY <1>4, <2>1 DEF OsUpdate!primary
  <1>6. CASE OsUpdate!SwitchesP1
    BY <1>4, <1>6 DEF OsUpdate!SwitchesP1, OsUpdate!primary, OsRest, OsBoots
  <1>7. CASE UNCHANGED OsUpdate!card
    BY <1>4, <1>7 DEF OsUpdate!card, OsUpdate!primary
  <1> QED
    BY <1>2, <1>3, <1>5, <1>6, <1>7 DEF OsUpdate!Next, OsUpdate!card, OsUpdate!Release, OsUpdateVars,
      OsUpdate!Checks, OsUpdate!Starts, OsUpdate!Downloads, OsUpdate!RaucRefuses, OsUpdate!RaucFails,
      OsUpdate!Reboots,
      OsUpdate!HandTrial, OsUpdate!Cut, OsUpdate!AppRestarts, OsUpdate!Boots, OsUpdate!MarkProves, OsUpdate!MarkFails

(* A night that starts the newest build has not tried it often enough to give it up. *)
LEMMA OsNights == ASSUME OsInv PROVE OsUpdate!StopsNightly
  <1> SUFFICES ASSUME OsUpdate!Starts(TRUE), ~lost, newest \notin proven PROVE tried[newest] < Tries
    BY DEF OsUpdate!StopsNightly
  <1> USE DEF OsInv, OsTypes
  <1>1. /\ osupdate_job = "idle" /\ OsUpdate!Decides /\ newest > OsUpdate!Installed
        /\ newest # OsUpdate!Skipped(failed')
    BY DEF OsUpdate!Starts
  <1>2. /\ newest \in OsUpdate!Builds /\ newest \in Nat /\ newest # 0 /\ tried[newest] \in Nat /\ pending \in Nat
        /\ failed.build \in Nat /\ failed.times \in Nat /\ Tries \in Nat /\ Tries # 0
    BY OsConstants DEF OsCountTypes, OsFailed
  <1>3. tried[newest] <= Counted + ToCount /\ pending <= newest /\ (pending # 0 => failed.build <= pending)
    BY DEF OsRest, OsCounts, OsJobs
  <1>4. CASE failed' = failed /\ (pending = 0 \/ pending = OsUpdate!Installed)
    <2>1. ToCount = 0
      BY <1>1, <1>2, <1>4 DEF ToCount
    <2>2. Counted < Tries
      BY <1>1, <1>2, <1>4 DEF Counted, OsUpdate!Skipped
    <2> QED
      BY <1>2, <1>3, <2>1, <2>2 DEF Counted
  <1>5. CASE pending # 0 /\ failed' = [build |-> pending,
             times |-> IF failed.build = pending THEN failed.times + 1 ELSE 1]
    <2>1. CASE pending = newest
      <3>1. failed'.build = newest /\ failed'.times = Counted + 1
        BY <1>2, <1>5, <2>1 DEF Counted
      <3>2. Counted + 1 < Tries /\ ToCount <= 1 /\ Counted \in Nat /\ ToCount \in Nat
        BY <1>1, <1>2, <3>1 DEF OsUpdate!Skipped, Counted, ToCount
      <3> QED
        BY <1>2, <1>3, <3>2
    <2>2. CASE pending # newest
      BY <1>2, <1>3, <1>5, <2>2 DEF Counted, ToCount
    <2> QED
      BY <2>1, <2>2
  <1> QED
    BY <1>1, <1>4, <1>5 DEF OsUpdate!Decides

(* What boots normally was proven on a trial of its own and is never older than what did before, and a build
   that breaks costs the nights at most Tries trials, for any number of builds and wherever the power goes
   (is-update-trial, mark-good, updates/service.py). *)
THEOREM KeptIsAlwaysProven == SystemSpec => KeptIsProven
  <1> DEFINE Inv == part = "os" => OsInv
  <1>1. SystemInit => Inv
    BY OsInit DEF SystemInit
  <1>2. Inv /\ [SystemNext]_system_vars => Inv'
    BY OsKeeps, StepOfPart
  <1>3. Inv /\ [SystemNext]_system_vars => [part = "os" => OsUpdate!KeepsProven /\ OsUpdate!StopsNightly]_OsUpdateVars
    <2> SUFFICES ASSUME part = "os", OsInv, [SystemNext]_system_vars PROVE OsUpdate!KeepsProven
                        /\ OsUpdate!StopsNightly
      OBVIOUS
    <2>1. [OsUpdate!Next]_OsUpdateVars
      BY StepOfPart
    <2>2. OsInv'
      BY <2>1, OsKeeps
    <2>3. slot'[OsUpdate!primary'].build \in proven'
      BY <2>2 DEF OsInv, OsRest, OsProven
    <2> QED
      BY <2>1, <2>3, OsNeverOlder, OsNights DEF OsUpdate!KeepsProven
  <1> QED
    BY <1>1, <1>2, <1>3, PTL DEF SystemSpec, KeptIsProven

(* Whenever the power goes there is a whole half of p1 that names a whole slot to start, with the wiring the
   settings remember, and restarts for a hung Wi-Fi chip stay an hour apart (rauc-bootloader, update-p1,
   restart_for_wifi_chip). *)
THEOREM AlwaysStaysUp == SystemSpec => []StaysUp
  <1> DEFINE Inv == (part = "os" => OsInv) /\ (part = "wifi" => WifiInv)
  <1>1. SystemInit => Inv
    BY OsInit, WifiInit DEF SystemInit
  <1>2. Inv /\ [SystemNext]_system_vars => Inv'
    BY OsKeeps, WifiStep, StepOfPart
  <1>3. Inv => StaysUp
    <2>1. ASSUME OsInv PROVE OsUpdate!AlwaysBoots /\ OsUpdate!WiringFits
      <3>1. OsUpdate!TypeOK
        BY <2>1 DEF OsInv, OsTypes, OsCardTypes, OsRunTypes, OsCountTypes, OsSlot, OsHalf, OsRauc, OsFailed, OsSlots,
          OsUpdate!TypeOK
      <3>2. rauc # OsUpdate!NoRauc => OsUpdate!target # OsUpdate!primary
        BY <2>1, OsNames DEF OsInv, OsTypes, OsRest, OsPlaces
      <3>3. half[entry].whole /\ OsUpdate!Whole(OsUpdate!primary)
        BY <2>1 DEF OsInv, OsRest, OsBoots
      <3>4. OsUpdate!WiringFits
        BY <2>1 DEF OsInv, OsRest, OsSpare, OsUpdate!WiringFits
      <3> QED
        BY <3>1, <3>2, <3>3, <3>4 DEF OsUpdate!AlwaysBoots
    <2>2. ASSUME WifiInv PROVE Wifi!RestartsAreRare
      <3>1. since.restarts <= 1
        BY <2>2 DEF WifiInv, WifiTypes, WifiSince
      <3>2. Wifi!TypeOK
        BY <2>2 DEF WifiInv, WifiTypes, WifiRounds, WifiNet, Wifi!TypeOK, Wifi!MaxFails
      <3> QED
        BY <3>1, <3>2 DEF Wifi!RestartsAreRare
    <2> QED
      BY <2>1, <2>2 DEF StaysUp
  <1> QED
    BY <1>1, <1>2, <1>3, PTL DEF SystemSpec

-----------------------------------------------------------------------------
(* The app.                                                                 *)

(* A behaviour of the mirror is one of AppEnv's too: its other components leave the app's
   environments alone. *)
LEMMA SystemRunsTheApp == SystemSpec => Spec
  <1>1. SystemInit => Init
    BY DEF SystemInit
  <1>2. [SystemNext]_system_vars => [Next]_vars
    BY DEF SystemNext, system_vars
  <1> QED
    BY <1>1, <1>2, PTL DEF SystemSpec, Spec

(* While nothing but the trial of a new root comes between, the modules that run are built
   for the Python that runs them, the launcher's fallback is a finished environment the app
   once ran from, and no update ends in Safe mode (venv_swap, packages, launch.sh). *)
THEOREM AppAlwaysFits ==
  ASSUME Interruptions \subseteq {"trial"}
  PROVE  SystemSpec => []AppFits
  <1>1. IInv /\ FitInv => AppFits
    <2> SUFFICES ASSUME IInv, FitInv PROVE AppFits
      OBVIOUS
    <2>1. TypeOK
      BY DEF IInv
    <2>2. ModulesFitApp
      <3> SUFFICES ASSUME Up, job = NoJob, ~restartDue PROVE site[siteLink] = {run.py}
        BY DEF ModulesFitApp
      <3>1. job.phase = "none" /\ ~RollingBack
        BY Turns DEF RollingBack, Up
      <3> QED
        BY <3>1 DEF FitInv, RestsInv, Up
    <2>3. FallbackIsStable
      BY DEF FitInv, CalmInv, Sound, FallbackIsStable
    <2>4. UpdateNeverEndsInSafeMode
      BY DEF FitInv, CalmInv, UpdateNeverEndsInSafeMode, SafeMode
    <2> QED
      BY <2>1, <2>2, <2>3, <2>4 DEF AppFits
  <1> QED
    BY <1>1, SystemRunsTheApp, SpecIInv, SpecFits, PTL

-----------------------------------------------------------------------------
(* What is saved of networks.                                               *)

Happenings == {"routers", "phone", "traffic", "hangs", "cable", "setup", "restore", "switch", "asks"}

\* A scene counts what may happen, and has the dashboard's switch or the setup page's joins, not both.
OneWay == \A s \in WifiScenes :
  /\ s.left \in [Happenings -> Nat]
  /\ s.left["switch"] = 0 \/ (s.left["setup"] = 0 /\ s.left["restore"] = 0)

Idle(j) == wifi_job[j].pc = "idle"

\* A switch that found no profile of its network leaves none that works behind, while only it joins networks.
SwitchInv ==
  /\ wifi_left \in [Happenings -> Nat]
  /\ \/ wifi_left["switch"] = 0 /\ Idle("switch")
     \/ wifi_left["setup"] = 0 /\ Idle("setup") /\ wifi_left["restore"] = 0 /\ Idle("restore")
  /\ Idle("switch") \/ wifi_job["switch"].was \/ wifi_job["switch"].net \notin wifi_saved \ wrong

(* What happens uses up one of its kind and leaves the counts of the others. *)
LEMMA HappensOnce ==
  ASSUME NEW what \in Happenings, wifi_left \in [Happenings -> Nat], Wifi!Happens(what)
  PROVE  /\ wifi_left[what] # 0 /\ wifi_left' \in [Happenings -> Nat]
         /\ \A k \in Happenings \ {what} : wifi_left'[k] = wifi_left[k]
  <1>1. wifi_left[what] > 0 /\ wifi_left[what] \in Nat
    BY DEF Wifi!Happens
  <1>2. wifi_left[what] - 1 \in Nat /\ wifi_left[what] # 0
    BY <1>1
  <1>3. wifi_left' = [wifi_left EXCEPT ![what] = wifi_left[what] - 1]
    BY DEF Wifi!Happens
  <1> QED
    BY <1>2, <1>3

(* A step that asks for nothing and joins nothing: no more may happen than before, the profiles are as they
   were, and so are the requests, or they went with the power. *)
QuietStep ==
  /\ wifi_left' = wifi_left \/ \E what \in Happenings \ {"switch", "setup", "restore"} : Wifi!Happens(what)
  /\ UNCHANGED <<wifi_saved, wrong>>
  /\ wifi_job' = wifi_job \/ wifi_job' = [j \in Wifi!Jobs |-> Wifi!NoJob]

LEMMA QuietKeeps == ASSUME SwitchInv, QuietStep PROVE SwitchInv'
  <1>1. /\ wifi_left' \in [Happenings -> Nat]
        /\ \A k \in {"switch", "setup", "restore"} : wifi_left'[k] = wifi_left[k]
    BY HappensOnce DEF SwitchInv, QuietStep, Happenings
  <1>2. CASE wifi_job' = wifi_job
    BY <1>1, <1>2 DEF SwitchInv, QuietStep, Idle
  <1>3. CASE wifi_job' = [j \in Wifi!Jobs |-> Wifi!NoJob]
    <2>1. \A j \in {"switch", "setup", "restore"} : wifi_job'[j].pc = "idle"
      BY <1>3 DEF Wifi!Jobs, Wifi!NoJob
    <2> QED
      BY <1>1, <2>1 DEF SwitchInv, Idle
  <1> QED
    BY <1>2, <1>3 DEF QuietStep

(* A step that is none of the app's requests to change the network is quiet. *)
LEMMA OthersAreQuiet ==
  ASSUME WifiInv,
         \/ Wifi!World \/ Wifi!PowerReturns \/ Wifi!BootCheck \/ Wifi!WatchStep
         \/ Wifi!Asks \/ Wifi!Remembers \/ Wifi!Expires \/ Wifi!PagePolls \/ Wifi!InternetCheck
  PROVE  QuietStep
  <1> USE DEF QuietStep, Happenings, Wifi!nm, Wifi!app
  <1>1. CASE Wifi!World
    BY <1>1 DEF Wifi!World, Wifi!RouterGoes, Wifi!RouterComes, Wifi!JoinsByItself, Wifi!PhoneMoves, Wifi!TrafficMoves,
      Wifi!ChipHangs, Wifi!CableGoes, Wifi!CableComes, Wifi!HourPasses, Wifi!LinkChanges
  <1>2. CASE Wifi!PowerReturns \/ Wifi!BootCheck
    BY <1>2 DEF Wifi!PowerReturns, Wifi!BootCheck
  <1>3. CASE Wifi!WatchStep
    BY <1>3 DEF Wifi!WatchStep, Wifi!WatchBegins, Wifi!RecoverChip, Wifi!RetriesSaved, Wifi!StartHotspot, Wifi!Tell,
      Wifi!TrafficFlows, Wifi!CountsRound, Wifi!Rejoins, Wifi!RejoinsSaved, Wifi!HungChipStep, Wifi!RestartForChip,
      Wifi!Restarts
  <1>4. CASE Wifi!Asks \/ Wifi!Remembers \/ Wifi!Expires \/ Wifi!PagePolls \/ Wifi!InternetCheck
    BY <1>4 DEF Wifi!Asks, Wifi!Remembers, Wifi!Expires, Wifi!PagePolls, Wifi!InternetCheck
  <1> QED
    BY <1>1, <1>2, <1>3, <1>4

(* A request is one more of its kind, asked for while there is none. *)
LEMMA AskedOnce ==
  ASSUME WifiInv, SwitchInv, NEW j \in Wifi!Jobs, NEW from, NEW active, Wifi!JobAsked(j, from, active)
  PROVE  SwitchInv'
  <1>1. /\ wifi_left[j] # 0 /\ wifi_left' \in [Happenings -> Nat]
        /\ \A k \in Happenings \ {j} : wifi_left'[k] = wifi_left[k]
    BY HappensOnce DEF Wifi!JobAsked, SwitchInv, Happenings, Wifi!Jobs
  <1>2. UNCHANGED <<wifi_saved, wrong>>
    BY DEF Wifi!JobAsked, Wifi!nm
  <1>3. /\ wifi_job'[j].was = (wifi_job'[j].net \in wifi_saved)
        /\ \A k \in Wifi!Jobs \ {j} : wifi_job'[k] = wifi_job[k]
    BY DEF Wifi!JobAsked, WifiInv, WifiTypes
  <1>4. CASE j = "switch"
    BY <1>1, <1>2, <1>3, <1>4 DEF SwitchInv, Idle, Happenings, Wifi!Jobs
  <1>5. CASE j # "switch"
    BY <1>1, <1>2, <1>3, <1>5 DEF SwitchInv, Idle, Happenings, Wifi!Jobs
  <1> QED
    BY <1>4, <1>5

(* Whatever step a request takes keeps the invariant, and a saved network that works. *)
LEMMA JobKeeps ==
  ASSUME WifiInv, SwitchInv, NEW j \in Wifi!Jobs, Wifi!JobStep(j)
  PROVE  SwitchInv' /\ Wifi!KeepsSaved
  <1> USE DEF WifiInv, WifiTypes
  <1>1. wifi_left' = wifi_left
    BY DEF Wifi!JobStep, Wifi!TearsDown, Wifi!Joined, Wifi!NotJoined, Wifi!HotspotBack, Wifi!NothingBack,
      Wifi!SwitchesBack
  <1>2. CASE Wifi!TearsDown(j)
    <2>1. /\ UNCHANGED <<wifi_saved, wrong>> /\ wifi_job[j].pc = "asked"
          /\ wifi_job' = [wifi_job EXCEPT ![j].pc = "joins"]
      BY <1>2 DEF Wifi!TearsDown
    <2>2. \A k \in Wifi!Jobs : /\ wifi_job'[k].net = wifi_job[k].net /\ wifi_job'[k].was = wifi_job[k].was
                               /\ wifi_job'[k].pc = "idle" <=> wifi_job[k].pc = "idle"
      BY <2>1 DEF WifiJob
    <2> QED
      BY <1>1, <2>1, <2>2 DEF SwitchInv, Idle, Wifi!Jobs, Wifi!KeepsSaved
  <1>3. CASE Wifi!Joined(j)
    <2>1. /\ wifi_job[j].pc = "joins" /\ wifi_saved \subseteq wifi_saved'
          /\ wifi_job' = [wifi_job EXCEPT ![j] = Wifi!NoJob] /\ Wifi!NoJob.pc = "idle"
      BY <1>3 DEF Wifi!Joined, Wifi!NoJob
    <2>2. wifi_job["switch"].pc = "idle" \/ j = "switch"
      BY <2>1 DEF SwitchInv, Idle, Wifi!Jobs
    <2>3. wifi_job'["switch"].pc = "idle" /\ \A k \in Wifi!Jobs : wifi_job[k].pc = "idle" => wifi_job'[k].pc = "idle"
      BY <2>1, <2>2 DEF Wifi!Jobs
    <2> QED
      BY <1>1, <2>1, <2>3 DEF SwitchInv, Idle, Wifi!Jobs, Wifi!KeepsSaved
  <1>4. CASE Wifi!NotJoined(j)
    <2>1. wifi_job[j].pc = "joins" /\ wifi_job' = [wifi_job EXCEPT ![j].pc = "failed"]
      BY <1>4 DEF Wifi!NotJoined
    <2>2. \A k \in Wifi!Jobs : /\ wifi_job'[k].net = wifi_job[k].net /\ wifi_job'[k].was = wifi_job[k].was
                               /\ wifi_job'[k].pc = "idle" <=> wifi_job[k].pc = "idle"
      BY <2>1 DEF WifiJob
    <2>3. wifi_saved \subseteq wifi_saved' /\ \A n \in wifi_saved' \ wrong' : n \in wifi_saved \ wrong
      BY <1>4 DEF Wifi!NotJoined, Wifi!nm
    <2> QED
      BY <1>1, <2>2, <2>3 DEF SwitchInv, Idle, Wifi!Jobs, Wifi!KeepsSaved
  <1>5. CASE Wifi!HotspotBack(j) \/ Wifi!NothingBack(j)
    <2>1. /\ UNCHANGED <<wifi_saved, wrong>>
          /\ \/ wifi_job' = [k \in Wifi!Jobs |-> Wifi!NoJob]
             \/ wifi_job' = [wifi_job EXCEPT ![j] = Wifi!NoJob]
      BY <1>5 DEF Wifi!HotspotBack, Wifi!NothingBack, Wifi!Restarts, Wifi!nm
    <2>2. \A k \in Wifi!Jobs : wifi_job'[k] = wifi_job[k] \/ wifi_job'[k].pc = "idle"
      BY <2>1 DEF Wifi!NoJob
    <2> QED
      BY <1>1, <2>1, <2>2 DEF SwitchInv, Idle, Wifi!Jobs, Wifi!KeepsSaved
  <1>6. CASE j = "switch" /\ Wifi!SwitchesBack
    <2>1. /\ wifi_job["switch"].pc = "failed" /\ wrong' = wrong \intersect wifi_saved'
          /\ wifi_saved' = IF wifi_job["switch"].was THEN wifi_saved ELSE wifi_saved \ {wifi_job["switch"].net}
          /\ wifi_job' = [wifi_job EXCEPT !["switch"] = Wifi!NoJob]
      BY <1>6 DEF Wifi!SwitchesBack
    <2>2. \A k \in Wifi!Jobs : wifi_job'[k] = wifi_job[k] \/ wifi_job'[k].pc = "idle"
      BY <2>1 DEF Wifi!NoJob
    <2>3. wifi_job'["switch"].pc = "idle"
      BY <2>1 DEF Wifi!NoJob, Wifi!Jobs
    <2>4. Wifi!KeepsSaved
      BY <2>1 DEF SwitchInv, Idle, Wifi!KeepsSaved
    <2> QED
      BY <1>1, <2>2, <2>3, <2>4 DEF SwitchInv, Idle, Wifi!Jobs
  <1> QED
    BY <1>2, <1>3, <1>4, <1>5, <1>6 DEF Wifi!JobStep

(* Every step of Wi-Fi keeps the invariant, and a saved network that works. *)
LEMMA SwitchStep == ASSUME WifiInv, SwitchInv, [Wifi!Next]_WifiVars
  PROVE  SwitchInv' /\ [Wifi!KeepsSaved]_WifiVars
  <1>1. ASSUME QuietStep PROVE SwitchInv' /\ Wifi!KeepsSaved
    BY <1>1, QuietKeeps DEF QuietStep, Wifi!KeepsSaved
  <1>2. CASE Wifi!SetupAsked \/ Wifi!RestoreAsked \/ Wifi!SwitchAsked
    <2>1. PICK j \in Wifi!Jobs : \E from, active : Wifi!JobAsked(j, from, active)
      BY <1>2 DEF Wifi!SetupAsked, Wifi!RestoreAsked, Wifi!SwitchAsked, Wifi!Jobs
    <2> QED
      BY <2>1, AskedOnce DEF Wifi!JobAsked, Wifi!nm, Wifi!KeepsSaved
  <1>3. CASE UNCHANGED WifiVars
    BY <1>3 DEF WifiVars, SwitchInv, Idle
  <1> QED
    BY <1>1, <1>2, <1>3, OthersAreQuiet, JobKeeps DEF Wifi!Next

(* Where one way at a time is open to change the network, a network that was saved and works keeps its profile,
   whatever is tried with it later (switch_wifi). *)
THEOREM NetworkAlwaysKept == ASSUME OneWay PROVE SystemSpec => NetworkKept
  <1> DEFINE Inv == part = "wifi" => WifiInv /\ SwitchInv
  <1>1. SystemInit => Inv
    <2>1. ASSUME Wifi!Init PROVE SwitchInv
      <3>1. wifi_left \in [Happenings -> Nat] /\ (wifi_left["switch"] = 0 \/ (wifi_left["setup"] = 0 /\ wifi_left["restore"] = 0))
        BY <2>1, OneWay DEF OneWay, Wifi!Init
      <3>2. \A j \in {"setup", "restore", "switch"} : wifi_job[j].pc = "idle"
        BY <2>1 DEF Wifi!Init, Wifi!Jobs, Wifi!NoJob
      <3> QED
        BY <3>1, <3>2 DEF SwitchInv, Idle
    <2> QED
      BY <2>1, WifiInit DEF SystemInit
  <1>2. Inv /\ [SystemNext]_system_vars => Inv'
    BY WifiStep, SwitchStep, StepOfPart
  <1>3. Inv /\ [SystemNext]_system_vars => [part = "wifi" => Wifi!KeepsSaved]_WifiVars
    BY SwitchStep, StepOfPart
  <1> QED
    BY <1>1, <1>2, <1>3, PTL DEF SystemSpec, NetworkKept
=============================================================================
