------------------------------ MODULE FirstBoot ------------------------------
(***************************************************************************)
(* What root does at every boot before the app starts, and can be cut off   *)
(* anywhere: the partition for /storage (mirrordash-repart.sh), its mount,   *)
(* the modules' own file system, the app's Python on /storage               *)
(* (mirrordash-hydrate.sh), and the factory reset that undoes it all.       *)
(***************************************************************************)
EXTENDS Integers, FiniteSets

CONSTANTS Files,   \* what modules save
          MaxCuts  \* bound: power cuts and restarts

FirstBootAssumption == MaxCuts \in Nat

VARIABLES image,    \* a card image (A/B layout, squashfs root), not a Pi set up by hand
          part,     \* the partition for /storage: "none", "raw" (in the table, no file system), "data"
          boot,     \* the step the boot is at; "off", "up", "stopped", "stuck"
          cuts,
          storage,  \* /storage is mounted
          data,     \* the owner's settings are on it
          folder,   \* files in the modules' folder on /storage
          img,      \* modules.img is there, and the files in it
          on,       \* it is mounted over the folder
          saved,    \* history: what modules saved while they had their file system
          python,   \* the app's Python on /storage: "none", "moved" (there whole), "named" (with its short name)
          venv,     \* the venv: the Python its pyvenv.cfg (home) and its bin/ links (bins) name
          reset     \* the factory reset: "no", "deletes", "failed", "cut"

fs == <<folder, img, on, saved>>
app == <<python, venv>>
vars == <<image, part, boot, cuts, storage, data, fs, app, reset>>

Root == "root"      \* the Python of the OS image's root
Storage == "storage"
NoImg == [there |-> FALSE, files |-> {}]
NoVenv == [home |-> "none", bins |-> "none"]

\* A card just flashed, or a mirror whose system before this one kept the modules' files in the folder.
Init == /\ image \in BOOLEAN /\ boot = "repart" /\ cuts = 0 /\ storage = FALSE /\ data = FALSE
        /\ \/ part = "none" /\ folder = {}
           \/ part = "data" /\ folder = Files
        /\ saved = folder /\ img = NoImg /\ on = FALSE /\ python = "none" /\ venv = NoVenv /\ reset = "no"

Step(from, to) == boot = from /\ boot' = to

-----------------------------------------------------------------------------
(* mirrordash-repart.sh.                                                   *)

\* A partition in the table is taken for a finished one.
Complete == Step("repart", "storage") /\ part # "none" /\ UNCHANGED <<image, part, cuts, storage, data, fs, app, reset>>
\* sfdisk (an image) or parted writes the table; then mkfs.ext4.
AddsPartition == /\ Step("repart", "format") /\ part = "none" /\ part' = "raw"
                 /\ UNCHANGED <<image, cuts, storage, data, fs, app, reset>>
Formats == /\ Step("format", "storage") /\ part' = "data" /\ UNCHANGED <<image, cuts, storage, data, fs, app, reset>>

-----------------------------------------------------------------------------
(* mirrordash-hydrate.sh.                                                  *)

\* fstab's mount, or the script's after e2fsck, which may not be able to repair it either.
MountsStorage == /\ Step("storage", "modules") /\ part = "data" /\ storage' = TRUE
                 /\ UNCHANGED <<image, part, cuts, data, fs, app, reset>>
\* Without /storage an image stops; a Pi set up by hand has the folder on its root, where nothing of it is used here.
Stops == /\ Step("storage", "stopped") /\ image /\ UNCHANGED <<image, part, cuts, storage, data, fs, app, reset>>

\* The modules' file system, once: what the folder holds is copied in, under another name until it is whole.
HasImg == /\ Step("modules", "mount") /\ (image => img.there) /\ UNCHANGED <<image, part, cuts, storage, data, fs, app, reset>>
MakesImg_InPlace ==  \* (mutant) under its own name from the start
  /\ Step("modules", "copied") /\ image /\ ~img.there /\ img' = [there |-> TRUE, files |-> {}]
  /\ UNCHANGED <<image, part, cuts, storage, data, folder, on, saved, app, reset>>
MakesImg ==
  /\ Step("modules", "copied") /\ image /\ ~img.there /\ UNCHANGED <<image, part, cuts, storage, data, fs, app, reset>>
NamesImg == /\ Step("copied", "clears") /\ img' = [there |-> TRUE, files |-> folder]
            /\ UNCHANGED <<image, part, cuts, storage, data, folder, on, saved, app, reset>>
ClearsFolder == /\ Step("clears", "mount") /\ folder' = {}
                /\ UNCHANGED <<image, part, cuts, storage, data, img, on, saved, app, reset>>
\* Mounted over the folder; without it the modules still run, in the folder.
MountsImg == /\ Step("mount", "seed") /\ on' \in (IF image THEN BOOLEAN ELSE {FALSE})
             /\ UNCHANGED <<image, part, cuts, storage, data, folder, img, saved, app, reset>>

\* The golden venv, copied and then named (AppEnv has the rest of the venvs); it uses the root's Python.
Seeds == /\ Step("seed", "python") /\ venv' = IF venv = NoVenv THEN [home |-> Root, bins |-> Root] ELSE venv
         /\ UNCHANGED <<image, part, cuts, storage, data, fs, python, reset>>
\* A venv whose pyvenv.cfg names the root's Python gets a copy of it: copied under another name, then moved.
PythonMoved == /\ Step("python", "up") /\ venv.home # Root /\ UNCHANGED <<image, part, cuts, storage, data, fs, app, reset>>
CopiesPython == /\ Step("python", "name") /\ venv.home = Root /\ python = "none" /\ python' = "moved"
                /\ UNCHANGED <<image, part, cuts, storage, data, fs, venv, reset>>
\* uv's short name for it, which pyvenv.cfg uses.
NamesPython == /\ Step("name", "cfg") /\ python' = "named" /\ UNCHANGED <<image, part, cuts, storage, data, fs, venv, reset>>
HasPython == /\ Step("python", "cfg") /\ venv.home = Root /\ python = "named"
             /\ UNCHANGED <<image, part, cuts, storage, data, fs, app, reset>>
\* mv doesn't replace the copy an earlier boot moved and had no time to name: the last command of a list, it ends the script.
MoveFails == /\ Step("python", "stuck") /\ venv.home = Root /\ python = "moved"
             /\ UNCHANGED <<image, part, cuts, storage, data, fs, app, reset>>
\* The copy fails (a full card): the root's Python is kept for now, or the one an earlier boot moved gets its name.
CopyFails == /\ venv.home = Root
             /\ IF python = "moved" THEN Step("python", "name") ELSE python = "none" /\ Step("python", "up")
             /\ UNCHANGED <<image, part, cuts, storage, data, fs, app, reset>>
PointsCfg == /\ Step("cfg", "links") /\ venv' = [venv EXCEPT !.home = Storage]
             /\ UNCHANGED <<image, part, cuts, storage, data, fs, python, reset>>
PointsLinks == /\ Step("links", "up") /\ venv' = [venv EXCEPT !.bins = Storage]
               /\ UNCHANGED <<image, part, cuts, storage, data, fs, python, reset>>

\* Another command fails, and with it the script (set -e): the app, which requires it, isn't started.
Fails == /\ boot \in {"modules", "copied", "clears", "seed", "cfg", "links"} /\ boot' = "stopped"
         /\ UNCHANGED <<image, part, cuts, storage, data, fs, app, reset>>

-----------------------------------------------------------------------------
(* The mirror runs.                                                        *)

\* Modules save in the folder as it is mounted; what they save without their file system isn't there with it.
Saves(f) == /\ boot = "up" /\ reset = "no" /\ data' = TRUE
            /\ IF on THEN img' = [img EXCEPT !.files = @ \cup {f}] /\ UNCHANGED folder
                     ELSE folder' = folder \cup {f} /\ UNCHANGED img
            /\ saved' = IF on \/ ~img.there THEN saved \cup {f} ELSE saved
            /\ UNCHANGED <<image, part, boot, cuts, storage, on, app, reset>>

\* Power goes at any step; or the mirror restarts.
Cut == /\ boot # "off" /\ cuts < MaxCuts /\ cuts' = cuts + 1 /\ boot' = "off" /\ storage' = FALSE /\ on' = FALSE
       /\ reset' = IF reset = "deletes" THEN "cut" ELSE reset
       /\ UNCHANGED <<image, part, data, folder, img, saved, app>>
PowersOn == Step("off", "repart") /\ UNCHANGED <<image, part, cuts, storage, data, fs, app, reset>>

\* mirrordash-factory-reset: everything but the logs is deleted, folder by folder, in any order; then it restarts.
Resets == /\ boot = "up" /\ reset = "no" /\ reset' = "deletes" /\ UNCHANGED <<image, part, boot, cuts, storage, data, fs, app>>
Deletes == /\ reset = "deletes" /\ boot = "up"
           /\ \/ data /\ data' = FALSE /\ UNCHANGED <<folder, img, app>>
              \/ venv # NoVenv /\ venv' = NoVenv /\ UNCHANGED <<data, folder, img, python>>
              \/ python # "none" /\ python' = "none" /\ UNCHANGED <<data, folder, img, venv>>
              \/ img.there /\ img' = NoImg /\ UNCHANGED <<data, folder, app>>
              \/ ~on /\ folder # {} /\ folder' = {} /\ UNCHANGED <<data, img, app>>
           /\ saved' = {} /\ UNCHANGED <<image, part, boot, cuts, storage, on, reset>>
\* rm can't remove a folder something is mounted on, find hands its error on, and set -e ends the script.
Restarts == /\ reset = "deletes" /\ boot = "up" /\ ~data /\ venv = NoVenv /\ python = "none" /\ ~img.there /\ (~on => folder = {})
            /\ IF on THEN reset' = "failed" /\ UNCHANGED <<boot, storage>>
                     ELSE reset' = "no" /\ boot' = "off" /\ storage' = FALSE
            /\ UNCHANGED <<image, part, cuts, data, fs, app>>

Next == \/ Complete \/ AddsPartition \/ Formats \/ MountsStorage \/ Stops
        \/ HasImg \/ MakesImg \/ NamesImg \/ ClearsFolder \/ MountsImg
        \/ Seeds \/ PythonMoved \/ CopiesPython \/ NamesPython \/ HasPython \/ MoveFails \/ CopyFails \/ Fails \/ PointsCfg \/ PointsLinks
        \/ (\E f \in Files : Saves(f)) \/ Cut \/ PowersOn \/ Resets \/ Deletes \/ Restarts
Spec == Init /\ [][Next]_vars

-----------------------------------------------------------------------------
(* What must hold.                                                         *)

TypeOK == /\ part \in {"none", "raw", "data"} /\ cuts \in 0..MaxCuts /\ {image, storage, data, on} \subseteq BOOLEAN /\ python \in {"none", "moved", "named"}
          /\ folder \subseteq Files /\ img.files \subseteq Files /\ saved \subseteq Files
          /\ {venv.home, venv.bins} \subseteq {"none", Root, Storage} /\ reset \in {"no", "deletes", "failed", "cut"}

\* Wherever the power goes, until the owner asks for a reset, what modules saved is there again once their file system
\* is mounted, and is never deleted before it is; settings never meet a new file system; no venv names a Python that isn't there whole
\* (mirrordash-hydrate.sh: "a power cut mid-copy must not leave a half Python that looks done").
CutsLoseNothing ==
  TypeOK /\ (reset = "no" =>
    /\ saved \subseteq folder \cup img.files
    /\ boot = "up" /\ on => saved \subseteq img.files
    /\ data => part = "data"
    /\ venv.home = Storage \/ venv.bins = Storage => python = "named")

\* The boot stops only for a /storage that is there and can't be mounted: repart is "a no-op once /storage is there".
StorageIsMade == boot = "stopped" => part # "raw"

\* What a power cut left of a Python never keeps a later boot from starting the app ("a power cut mid-copy must not
\* leave a half Python that looks done").
PythonNeverStuck == boot # "stuck"

\* The venv of a mirror that is up names one Python: its "bin/python link and the home line of its pyvenv.cfg are the
\* only places that name it", the Python on /storage "so an OS update never changes it under the venvs".
PythonIsItsOwn == boot = "up" /\ reset = "no" => venv.bins = venv.home

\* The factory reset "deletes everything of the owner's on /storage ... Then restarts".
ResetRestarts == reset # "failed"
=============================================================================
