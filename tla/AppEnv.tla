------------------------------- MODULE AppEnv -------------------------------
(***************************************************************************)
(* The app's environments on /storage and everything that moves them:      *)
(*   - the A/B swap of the core's venv (mirrordash_core/venv.py), run by   *)
(*     the update, Python upgrade and Reinstall jobs (updates/service.py), *)
(*   - the module site, switched the same way by the module host           *)
(*     (client.py packages, host.py Control._site),                        *)
(*   - the one job slot (admin.py start_job) and the restart after a job,  *)
(*   - the launcher (scripts/launch.sh) with its rollback and Safe mode,   *)
(*     started again by systemd whenever it exits,                         *)
(*   - the hydrate script that seeds /storage at every boot, and moves the *)
(*     app's Python there from the root,                                   *)
(*   - the trial boot of a new OS version, as the launcher sees it.        *)
(* What can interrupt them is a parameter: a power cut between any two     *)
(* steps, the core killed (while it starts too), the Restart button, the   *)
(* module host's answer lost, a disk that fails or is full.                *)
(***************************************************************************)
EXTENDS Integers, FiniteSets

CONSTANTS
  MaxVer,           \* the newest MirrorDash release; releases are 1..MaxVer
  MaxPy,            \* the newest Python; Pythons are 1..MaxPy
  RequiresPy,       \* RequiresPy[v]: the oldest Python release v runs on
  Kinds,            \* the kinds of job that may be started
  Interruptions,    \* the kinds of interruption that may happen
  MaxInterruptions, \* bound: how many of them in one behaviour
  Absent            \* the value of a folder that isn't there

Py       == 1..MaxPy
Versions == 1..MaxVer
AllKinds == {"update", "rebuild", "modules"}
AllInterruptions == {"power", "kill", "restart", "host", "disk", "late", "trial"}

(* A venv folder: the MirrorDash in it (0: none yet), its Python, whether its
   making has finished, whether the app starts from it, whether its pyvenv.cfg names
   the Python on /storage (else the root's), and (history only) whether the app ever
   ran from it. *)
Env == [ver : 0..MaxVer, py : Py, whole : BOOLEAN, starts : BOOLEAN, own : BOOLEAN, ran : BOOLEAN]

\* What the promise at the end tells apart: an app, and the Pythons of its modules.
Pairs == [app : [ver : 0..MaxVer, py : Py, starts : BOOLEAN], mods : SUBSET Py]

ASSUME AppEnvAssumption ==
  /\ MaxVer \in Nat \ {0} /\ MaxPy \in Nat \ {0}
  /\ RequiresPy \in [Versions -> Py] /\ RequiresPy[1] = 1
  /\ Kinds \subseteq AllKinds
  /\ Interruptions \subseteq AllInterruptions
  /\ MaxInterruptions \in Nat
  /\ Absent \notin Env \cup Pairs

Slots == {"venv_a", "venv_b"}
Dirs  == Slots \cup {"venv_old", "venv_failed"}
Sites == {"site_a", "site_b"}

Other(slot)     == IF slot = "venv_b" THEN "venv_a" ELSE "venv_b"
OtherSite(name) == IF name = "site_b" THEN "site_a" ELSE "site_b"

\* base_venv, on the read-only root: release 1 and the root's Python
Golden == [ver |-> 1, py |-> 1, whole |-> TRUE, starts |-> TRUE, own |-> FALSE, ran |-> TRUE]

\* The copy of the root's Python on /storage under its full version, before it has the short name a venv uses.
Unnamed == 0

JobPhases == {"none", "python", "wipe", "create", "link", "site_prepare", "install",
              "site_build", "site_commit", "commit_old", "commit_rename",
              "commit_pythons", "revert", "revert_rm"}
JobKinds  == AllKinds \cup {"none", "python"}
NoJob == [kind |-> "none", phase |-> "none", ver |-> 0, py |-> 1,
          active |-> "venv_a", late |-> FALSE]
Job == [kind : JobKinds, phase : JobPhases, ver : 0..MaxVer, py : Py,
        active : Slots, late : BOOLEAN]

VARIABLES
  dir,         \* the venv folders under /storage/mirrordash
  link,        \* what /storage/mirrordash/venv names
  pythons,     \* the Pythons under /storage/mirrordash/python
  site,        \* the Pythons the modules of each site folder are built for
  siteDirs,    \* the site folders there are
  siteLink,    \* what modules/site names
  boot,        \* how far the boot, launch.sh or its rollback has come
  status,      \* MIRRORDASH_BOOT_STATUS
  run,         \* the environment the app runs from
  job,         \* the job's kind and how far it has come
  jobState,    \* admin._job["state"]
  restartDue,  \* run_restart is on its way to SIGTERM
  os,          \* the root that is running: kept, or on trial
  interrupted  \* how many interruptions happened

storage == <<dir, link, pythons, site, siteDirs, siteLink>>
app     == <<run, job, jobState, restartDue>>
vars    == <<dir, link, pythons, site, siteDirs, siteLink, boot, status, run,
             job, jobState, restartDue, os, interrupted>>

Boots == {"hydrate", "hydrate_link", "hydrate_python", "hydrate_name", "stuck",
          "launch", "starting", "exec", "crashed", "felled", "up",
          "rb_site", "rb_failed", "rb_old", "rb_mv_old", "rb_mv_failed", "rb_link"}

TypeOK ==
  /\ dir \in [Dirs -> Env \cup {Absent}]
  /\ link \in Slots
  /\ pythons \subseteq Py \cup {Unnamed}
  /\ site \in [Sites -> SUBSET Py]
  /\ siteDirs \subseteq Sites
  /\ siteLink \in Sites
  /\ boot \in Boots
  /\ status \in {"normal", "rollback", "safe_mode"}
  /\ run \in Env \cup {Absent}
  /\ job \in Job
  /\ jobState \in {"idle", "running", "restarting", "failed"}
  /\ restartDue \in BOOLEAN
  /\ os \in {"kept", "trial_good", "trial_broken"}
  /\ interrupted \in 0..MaxInterruptions

\* A mirror that has been used: the seeded venv with modules built for it, running.
Init ==
  /\ dir = [d \in Dirs |-> IF d = "venv_a" THEN [Golden EXCEPT !.own = TRUE] ELSE Absent]
  /\ link = "venv_a"
  /\ pythons = {1}
  /\ site = [s \in Sites |-> IF s = "site_a" THEN {1} ELSE {}]
  /\ siteDirs = {"site_a"}
  /\ siteLink = "site_a"
  /\ boot = "launch" /\ status = "normal" /\ run = Absent
  /\ job = NoJob /\ jobState = "idle" /\ restartDue = FALSE
  /\ os = "kept" /\ interrupted = 0

-----------------------------------------------------------------------------
(* The job slot. *)

Up          == boot = "up"
InPhase(ph) == Up /\ job.phase = ph
Goto(ph)    == job' = [job EXCEPT !.phase = ph]
Next_       == Other(job.active)
NextSite    == OtherSite(siteLink)
SafeMode    == status = "safe_mode"

\* A job that didn't switch anything ends with its error.
Failed == job' = NoJob /\ jobState' = "failed" /\ UNCHANGED restartDue

\* Every package operation that worked ends by scheduling the restart.
Done == job' = NoJob /\ jobState' = "restarting" /\ restartDue' = TRUE

(* The release Reinstall installs: the running one's; in Safe mode the one of the
   venv that didn't start, or of the one the launcher set aside before that. *)
ReinstallVer ==
  LET Has(d) == dir[d] # Absent /\ dir[d].ver # 0 IN
  IF ~SafeMode THEN run.ver
  ELSE IF Has(link) THEN dir[link].ver
  ELSE IF Has("venv_failed") THEN dir["venv_failed"].ver
  ELSE run.ver

Interrupt(kind) ==
  /\ kind \in Interruptions
  /\ interrupted < MaxInterruptions
  /\ interrupted' = interrupted + 1

JobSlotFree == jobState # "running"

StartJob(kind, phase, ver, py) ==
  /\ Up /\ JobSlotFree
  /\ job' = [kind |-> kind, phase |-> phase, ver |-> ver, py |-> py,
             active |-> link, late |-> restartDue]
  /\ jobState' = "running"
  /\ IF restartDue THEN Interrupt("late") ELSE UNCHANGED interrupted
  /\ UNCHANGED <<storage, boot, status, run, restartDue, os>>

\* update_core: a copy of the active venv, or an empty one when the release needs a newer Python.
StartUpdate ==
  /\ "update" \in Kinds
  /\ \E v \in Versions :
       /\ Up /\ v > run.ver
       /\ IF RequiresPy[v] > run.py
          THEN StartJob("python", "python", v, RequiresPy[v])
          ELSE StartJob("update", "wipe", v, run.py)

\* rebuild_venv: an empty venv with the running Python.
StartRebuild ==
  /\ "rebuild" \in Kinds
  /\ Up
  /\ StartJob("rebuild", "wipe", ReinstallVer, run.py)

\* install, update or uninstall of a module: only the module site changes.
StartModules ==
  /\ "modules" \in Kinds
  /\ StartJob("modules", "site_prepare", 0, 1)

-----------------------------------------------------------------------------
(* The core's A/B swap: prepare_venv_next, the install, then commit or revert. *)

\* uv python install: the newer Python, next to the running one.
InstallPython ==
  /\ InPhase("python")
  /\ \/ pythons' = pythons \cup {job.py} /\ Goto("wipe")
        /\ UNCHANGED <<jobState, restartDue>>
     \/ Failed /\ UNCHANGED pythons
  /\ UNCHANGED <<dir, link, site, siteDirs, siteLink, boot, status, run, os, interrupted>>

\* Enough room, and the old next venv deleted; or the 507.
PrepareWipe ==
  /\ InPhase("wipe")
  /\ \/ dir' = [dir EXCEPT ![Next_] = Absent] /\ Goto("create")
        /\ UNCHANGED <<jobState, restartDue>>
     \/ Failed /\ UNCHANGED dir
  /\ UNCHANGED <<link, pythons, site, siteDirs, siteLink, boot, status, run, os, interrupted>>

(* The venv the install starts from: a copy of the active one, which may or may not start
   once uv is at work in it, or an empty one (uv venv fetches a Python that isn't there). *)
Copies == job.kind = "update" /\ dir[job.active] # Absent

Unfinished ==
  IF Copies
  THEN {[dir[job.active] EXCEPT !.whole = FALSE, !.starts = s, !.ran = FALSE] : s \in BOOLEAN}
  ELSE {[ver |-> 0, py |-> job.py, whole |-> FALSE, starts |-> FALSE, own |-> TRUE, ran |-> FALSE]}

PrepareCreate ==
  /\ InPhase("create")
  /\ \E e \in Unfinished : dir' = [dir EXCEPT ![Next_] = e]
  /\ pythons' = IF Copies THEN pythons ELSE pythons \cup {job.py}
  /\ \/ Goto("link") /\ UNCHANGED <<jobState, restartDue>>
     \/ Failed
  /\ UNCHANGED <<link, site, siteDirs, siteLink, boot, status, run, os, interrupted>>

\* point_link(venv_link, next_path): before anything is installed in it.
PrepareLink ==
  /\ InPhase("link")
  /\ link' = Next_
  /\ Goto(IF job.kind = "python" THEN "site_prepare" ELSE "install")
  /\ UNCHANGED <<dir, pythons, site, siteDirs, siteLink, boot, status, run,
                 jobState, restartDue, os, interrupted>>

(* uv pip install in the next venv. It can't work on a Python the release doesn't
   run on. The second a late job has before SIGTERM is too short for it. *)
Installed(old) ==
  {[ver |-> job.ver, py |-> old.py, whole |-> TRUE, starts |-> s, own |-> old.own, ran |-> FALSE] : s \in BOOLEAN}

CanInstall == job.ver \in Versions /\ RequiresPy[job.ver] <= dir[Next_].py

InstallCore ==
  /\ InPhase("install")
  /\ CanInstall /\ ~job.late
  /\ \E e \in Installed(dir[Next_]) : dir' = [dir EXCEPT ![Next_] = e]
  /\ Goto(IF job.kind = "python" THEN "site_build" ELSE "commit_old")
  /\ UNCHANGED <<link, pythons, site, siteDirs, siteLink, boot, status, run,
                 jobState, restartDue, os, interrupted>>

InstallFails ==
  /\ InPhase("install")
  /\ Goto("revert")
  /\ UNCHANGED <<storage, boot, status, run, jobState, restartDue, os, interrupted>>

\* commit_venv_next: venv_old deleted ...
CommitOld ==
  /\ InPhase("commit_old")
  /\ dir' = [dir EXCEPT !["venv_old"] = Absent]
  /\ Goto("commit_rename")
  /\ UNCHANGED <<link, pythons, site, siteDirs, siteLink, boot, status, run,
                 jobState, restartDue, os, interrupted>>

\* ... and the active venv renamed to it, when it is there.
KeptAsOld_Next == Next_  \* (mutant) the new venv renamed instead
KeptAsOld == job.active

CommitRename ==
  /\ InPhase("commit_rename")
  /\ dir' = IF dir[KeptAsOld] = Absent THEN dir
            ELSE [dir EXCEPT !["venv_old"] = dir[KeptAsOld], ![KeptAsOld] = Absent]
  /\ Goto("commit_pythons")
  /\ UNCHANGED <<link, pythons, site, siteDirs, siteLink, boot, status, run,
                 jobState, restartDue, os, interrupted>>

\* remove_unused_pythons: what none of venv_a, venv_b and venv_old uses.
UsesOwn(d) == dir[d] # Absent /\ dir[d].own

\* (mutant) venv_old forgotten
UsedPythons_SlotsOnly == {dir[d].py : d \in {x \in Slots : UsesOwn(x)}}

UsedPythons == {dir[d].py : d \in {x \in Slots \cup {"venv_old"} : UsesOwn(x)}}

CommitPythons ==
  /\ InPhase("commit_pythons")
  /\ pythons' = IF UsedPythons = {} THEN pythons ELSE pythons \cap UsedPythons
  /\ Done
  /\ UNCHANGED <<dir, link, site, siteDirs, siteLink, boot, status, run, os, interrupted>>

\* revert_venv_next: the link back first, then the next venv deleted.
RevertTarget_Next == Next_  \* (mutant) the link isn't switched back
RevertTarget == job.active

Revert ==
  /\ InPhase("revert")
  /\ link' = RevertTarget
  /\ Goto("revert_rm")
  /\ UNCHANGED <<dir, pythons, site, siteDirs, siteLink, boot, status, run,
                 jobState, restartDue, os, interrupted>>

RevertRemove ==
  /\ InPhase("revert_rm")
  /\ dir' = [dir EXCEPT ![Next_] = Absent]
  /\ Failed
  /\ UNCHANGED <<link, pythons, site, siteDirs, siteLink, boot, status, run, os, interrupted>>

-----------------------------------------------------------------------------
(* The module site's change, by the module host. In Safe mode no host is connected. *)

\* The next site: empty for a new Python, else the active one's links.
SitePrepare ==
  /\ InPhase("site_prepare")
  /\ ~SafeMode
  /\ site' = [site EXCEPT ![NextSite] = IF job.kind = "python" THEN {} ELSE site[siteLink]]
  /\ siteDirs' = siteDirs \cup {NextSite}
  /\ Goto(IF job.kind = "python" THEN "install" ELSE "site_build")
  /\ UNCHANGED <<dir, link, pythons, siteLink, boot, status, run,
                 jobState, restartDue, os, interrupted>>

\* The host isn't there or gives no answer: nothing to revert in the site yet.
SitePrepareFails ==
  /\ InPhase("site_prepare")
  /\ IF job.kind = "python" THEN Goto("revert") /\ UNCHANGED <<jobState, restartDue>>
                            ELSE Failed
  /\ UNCHANGED <<storage, boot, status, run, os, interrupted>>

(* The modules built by pip for the venv's Python (core_python: the link's), each in a
   folder of its own, and linked; then loaded once. *)
SiteBuild ==
  /\ InPhase("site_build")
  /\ site' = [site EXCEPT ![NextSite] = @ \cup {dir[link].py}]
  /\ Goto("site_commit")
  /\ UNCHANGED <<dir, link, pythons, siteDirs, siteLink, boot, status, run,
                 jobState, restartDue, os, interrupted>>

\* Revert empties the next site again.
SiteBuildFails ==
  /\ InPhase("site_build")
  /\ site' = [site EXCEPT ![NextSite] = {}]
  /\ IF job.kind = "python" THEN Goto("revert") /\ UNCHANGED <<jobState, restartDue>>
                            ELSE Failed
  /\ UNCHANGED <<dir, link, pythons, siteDirs, siteLink, boot, status, run, os, interrupted>>

SiteCommit ==
  /\ InPhase("site_commit")
  /\ siteLink' = NextSite
  /\ IF job.kind = "python" THEN Goto("commit_old") /\ UNCHANGED <<jobState, restartDue>>
                            ELSE Done
  /\ UNCHANGED <<dir, link, pythons, site, siteDirs, boot, status, run, os, interrupted>>

-----------------------------------------------------------------------------
(* The restart, and what can interrupt a change. *)

\* The core's process is gone; the job and all it knew with it.
CoreGone == run' = Absent /\ job' = NoJob /\ jobState' = "idle" /\ restartDue' = FALSE

\* The Restart button, and a restored backup: nothing looks at the job slot.
RequestRestart ==
  /\ Up /\ ~restartDue
  /\ restartDue' = TRUE
  /\ IF jobState = "running" THEN Interrupt("restart") ELSE UNCHANGED interrupted
  /\ UNCHANGED <<storage, boot, status, run, job, jobState, os>>

\* The phases in which a cancelled venv_swap reverts: the link is switched, the block still runs.
SwapOpen == job.kind # "modules"
            /\ job.phase \in {"site_prepare", "install", "site_build", "site_commit",
                              "revert", "revert_rm"}

(* SIGTERM: the running job is cancelled where it awaits. An open swap reverts; a commit
   that waits for venv_old's deletion ends after it, without the rename; the host may have
   switched the site in when the core stops waiting for its answer. *)
Restart ==
  /\ Up /\ restartDue /\ job.phase # "commit_rename"
  /\ link' = IF SwapOpen THEN job.active ELSE link
  /\ dir' = IF SwapOpen THEN [dir EXCEPT ![Next_] = Absent]
            ELSE IF job.phase = "commit_old" THEN [dir EXCEPT !["venv_old"] = Absent]
            ELSE dir
  /\ siteLink' \in IF job.phase = "site_commit" THEN Sites ELSE {siteLink}
  /\ boot' = "launch" /\ CoreGone
  /\ UNCHANGED <<pythons, site, siteDirs, status, os, interrupted>>

\* The core dies later than a broken start would (the kernel's OOM killer, say): no rollback.
CoreKilled ==
  /\ Up /\ Interrupt("kill")
  /\ boot' = "launch" /\ CoreGone
  /\ UNCHANGED <<storage, status, os>>

\* Killed while it starts, which launch.sh can't tell from a start that fails: exit code 137 is neither SIGTERM's nor SIGINT's.
KilledAtStart ==
  /\ boot \in {"starting", "exec"} /\ Interrupt("kill")
  /\ boot' = (IF boot = "starting" THEN "felled" ELSE "launch")
  /\ run' = Absent
  /\ UNCHANGED <<storage, status, job, jobState, restartDue, os>>

\* A power cut, between any two steps: the next boot hydrates and launches.
PowerCut ==
  /\ Interrupt("power")
  /\ boot' = "hydrate" /\ CoreGone
  /\ os' = "kept"
  /\ UNCHANGED <<storage, status>>

\* The host switched the site, but its answer never came: the core takes it for a failure.
SiteCommitLost ==
  /\ InPhase("site_commit") /\ Interrupt("host")
  /\ siteLink' = NextSite
  /\ IF job.kind = "python" THEN Goto("revert") /\ UNCHANGED <<jobState, restartDue>>
                            ELSE Failed
  /\ UNCHANGED <<dir, link, pythons, site, siteDirs, boot, status, run, os>>

(* The disk fails while venv_old is deleted: commit_venv_next only warns, and venv_old is
   left with what couldn't be deleted. *)
CommitOldFails ==
  /\ InPhase("commit_old") /\ Interrupt("disk")
  /\ dir["venv_old"] # Absent
  /\ dir' = [dir EXCEPT !["venv_old"] = [@ EXCEPT !.whole = FALSE, !.starts = FALSE]]
  /\ Goto("commit_pythons")
  /\ UNCHANGED <<link, pythons, site, siteDirs, siteLink, boot, status, run,
                 jobState, restartDue, os>>

\* An OS update restarts into the new root on trial: one the app works on, or not.
OsTrial ==
  /\ Up /\ JobSlotFree /\ Interrupt("trial")
  /\ os' \in {"trial_good", "trial_broken"}
  /\ boot' = "hydrate" /\ CoreGone
  /\ UNCHANGED <<storage, status>>

OnTrial == os \in {"trial_good", "trial_broken"}

\* mark-good: the app answers, so the new root is kept.
MarkGood ==
  /\ Up /\ os = "trial_good"
  /\ os' = "kept"
  /\ UNCHANGED <<storage, boot, status, app, interrupted>>

\* The app never answered, so mark-good gave up: the mirror restarts into the root it had.
TrialOver ==
  /\ OnTrial /\ ~Up
  /\ os' = "kept"
  /\ boot' = "hydrate" /\ CoreGone
  /\ UNCHANGED <<storage, status, interrupted>>

-----------------------------------------------------------------------------
(* hydrate, launch.sh and systemd. *)

LinkResolves == dir[link] # Absent

\* Only a missing or dangling link is seeded; venv_a only when it isn't there.
NothingToSeed_AnyLink == TRUE  \* (mutant) a dangling link passes for a good one
NothingToSeed == LinkResolves

Hydrate ==
  /\ boot = "hydrate"
  /\ IF NothingToSeed
     THEN boot' = "hydrate_python" /\ UNCHANGED dir
     ELSE /\ boot' = "hydrate_link"
          /\ dir' = IF dir["venv_a"] = Absent THEN [dir EXCEPT !["venv_a"] = Golden] ELSE dir
  /\ UNCHANGED <<link, pythons, site, siteDirs, siteLink, status, app, os, interrupted>>

HydrateLink ==
  /\ boot = "hydrate_link"
  /\ link' = "venv_a" /\ boot' = "hydrate_python"
  /\ UNCHANGED <<dir, pythons, site, siteDirs, siteLink, status, app, os, interrupted>>

\* The venvs that use the root's Python still, and whether it has to be copied for them.
RootVenvs == {d \in Dirs : dir[d] # Absent /\ ~dir[d].own}
NeedsCopy == RootVenvs # {} /\ Golden.py \notin pythons

HydratePython(to, newPythons) ==
  /\ boot = "hydrate_python" /\ NeedsCopy
  /\ boot' = to /\ pythons' = newPythons
  /\ UNCHANGED <<dir, link, site, siteDirs, siteLink, status, app, os>>

\* Copied, and moved to its full version ...
MovePython == /\ Unnamed \notin pythons /\ HydratePython("hydrate_name", pythons \cup {Unnamed})
              /\ UNCHANGED interrupted

\* ... which mv doesn't do over a folder that is there: the last command of its list, it ends the script.
MoveFails == /\ Unnamed \in pythons /\ HydratePython("stuck", pythons)
             /\ UNCHANGED interrupted

\* No room for the copy: the root's Python is kept for now, or the one that is there gets its name.
CopyFails == /\ Interrupt("disk")
             /\ HydratePython(IF Unnamed \in pythons THEN "hydrate_name" ELSE "launch", pythons)

\* uv's short name for it.
NamePython ==
  /\ boot = "hydrate_name" /\ boot' = "hydrate_python"
  /\ pythons' = (pythons \ {Unnamed}) \cup {Golden.py}
  /\ UNCHANGED <<dir, link, site, siteDirs, siteLink, status, app, os, interrupted>>

\* A venv's pyvenv.cfg and bin links changed to it (FirstBoot has the two apart), one venv after the other.
PointPython ==
  /\ boot = "hydrate_python" /\ ~NeedsCopy
  /\ \E d \in RootVenvs : dir' = [dir EXCEPT ![d] = [@ EXCEPT !.own = TRUE]]
  /\ UNCHANGED <<boot, link, pythons, site, siteDirs, siteLink, status, app, os, interrupted>>

Hydrated ==
  /\ boot = "hydrate_python" /\ RootVenvs = {}
  /\ boot' = "launch"
  /\ UNCHANGED <<storage, status, app, os, interrupted>>

\* launch.sh starts the linked venv, or base_venv when the link names nothing.
Launch ==
  /\ boot = "launch"
  /\ boot' = "starting"
  /\ IF LinkResolves THEN run' = dir[link] /\ status' = "normal"
                     ELSE run' = Golden /\ status' = "safe_mode"
  /\ UNCHANGED <<storage, job, jobState, restartDue, os, interrupted>>

Starts == run.starts /\ os # "trial_broken" /\ (run.own => run.py \in pythons)

\* The app stays up past the first seconds.
ComesUp ==
  /\ boot \in {"starting", "exec"}
  /\ Starts
  /\ boot' = "up"
  /\ run' = [run EXCEPT !.ran = TRUE]
  /\ dir' = IF SafeMode \/ ~LinkResolves THEN dir ELSE [dir EXCEPT ![link].ran = TRUE]
  /\ UNCHANGED <<link, pythons, site, siteDirs, siteLink, status,
                 job, jobState, restartDue, os, interrupted>>

\* It doesn't; launch.sh sees that, unless it already handed over (exec): then systemd does.
CrashesAtStart ==
  /\ boot \in {"starting", "exec"}
  /\ ~Starts
  /\ boot' = IF boot = "starting" THEN "crashed" ELSE "launch"
  /\ run' = Absent
  /\ UNCHANGED <<storage, status, job, jobState, restartDue, os, interrupted>>

\* What launch.sh does about a broken start.
\* (mutant) no look at the trial
LeaveToTrial_Never == FALSE

LeaveToTrial == OnTrial
RollBack     == ~LeaveToTrial /\ dir["venv_old"] # Absent
\* (mutant) no Safe mode
GoGolden_Never == FALSE

GoGolden     == ~LeaveToTrial /\ dir["venv_old"] = Absent /\ ~SafeMode

HandleCrash ==
  /\ boot \in {"crashed", "felled"}
  /\ \/ RollBack /\ boot' = "rb_site" /\ UNCHANGED <<run, status>>
     \/ GoGolden /\ boot' = "exec" /\ run' = Golden /\ status' = "safe_mode"
     \/ ~RollBack /\ ~GoGolden /\ boot' = "launch" /\ UNCHANGED <<run, status>>
  /\ UNCHANGED <<storage, job, jobState, restartDue, os, interrupted>>

\* The site back too, when venv_old's Python isn't the failed venv's.
\* (mutant) only the venv goes back
SwitchSiteBack_Never == FALSE

SwitchSiteBack ==
  /\ dir["venv_old"].py # dir[link].py
  /\ OtherSite(siteLink) \in siteDirs

RbSite ==
  /\ boot = "rb_site"
  /\ siteLink' = IF SwitchSiteBack THEN OtherSite(siteLink) ELSE siteLink
  /\ boot' = "rb_failed"
  /\ UNCHANGED <<dir, link, pythons, site, siteDirs, status, app, os, interrupted>>

\* One folder of the rollback deleted or moved.
RbStep(from, to, newDir) ==
  /\ boot = from /\ boot' = to
  /\ dir' = newDir
  /\ UNCHANGED <<link, pythons, site, siteDirs, siteLink, status, app, os, interrupted>>

RbFailed   == RbStep("rb_failed", "rb_old", [dir EXCEPT !["venv_failed"] = Absent])
RbOld      == RbStep("rb_old", "rb_mv_old", [dir EXCEPT ![Other(link)] = Absent])
RbMvOld    == RbStep("rb_mv_old", "rb_mv_failed",
                     [dir EXCEPT ![Other(link)] = dir["venv_old"], !["venv_old"] = Absent])
RbMvFailed == RbStep("rb_mv_failed", "rb_link",
                     [dir EXCEPT !["venv_failed"] = dir[link], ![link] = Absent])

\* (mutant) linked where it was kept
RollbackTarget == Other(link)

RbLink ==
  /\ boot = "rb_link"
  /\ link' = RollbackTarget
  /\ boot' = "exec" /\ status' = "rollback"
  /\ run' = dir[Other(link)]
  /\ UNCHANGED <<dir, pythons, site, siteDirs, siteLink,
                 job, jobState, restartDue, os, interrupted>>

-----------------------------------------------------------------------------
JobStep ==
  \/ InstallPython \/ PrepareWipe \/ PrepareCreate \/ PrepareLink
  \/ InstallCore \/ InstallFails \/ CommitOld \/ CommitRename \/ CommitPythons
  \/ Revert \/ RevertRemove
  \/ SitePrepare \/ SitePrepareFails \/ SiteBuild \/ SiteBuildFails \/ SiteCommit

BootStep ==
  \/ Hydrate \/ HydrateLink \/ MovePython \/ MoveFails \/ NamePython \/ PointPython \/ Hydrated
  \/ Launch \/ ComesUp \/ CrashesAtStart \/ HandleCrash
  \/ RbSite \/ RbFailed \/ RbOld \/ RbMvOld \/ RbMvFailed \/ RbLink

AdminStep == StartUpdate \/ StartRebuild \/ StartModules \/ RequestRestart

InterruptionStep ==
  \/ CoreKilled \/ KilledAtStart \/ PowerCut \/ SiteCommitLost \/ CommitOldFails \/ CopyFails \/ OsTrial

Next == JobStep \/ BootStep \/ Restart \/ AdminStep \/ InterruptionStep \/ MarkGood \/ TrialOver

\* systemd and the scripts go on by themselves, and so does a job that was started.
Fairness == WF_vars(BootStep) /\ WF_vars(JobStep) /\ WF_vars(Restart)
            /\ WF_vars(MarkGood) /\ WF_vars(TrialOver)

Spec == Init /\ [][Next]_vars
FairSpec == Spec /\ Fairness

-----------------------------------------------------------------------------
(* Safety. *)

(* The modules that run are built for the Python that runs them: a Python upgrade, its
   failure and its rollback move the venv and the module site together
   (_update_to_new_python, launch.sh's switch back of the site). *)
ModulesFitApp ==
  Up /\ job = NoJob /\ ~restartDue /\ ~SafeMode => site[siteLink] = {run.py}

(* venv_old, the launcher's fallback, is always a finished environment the app once ran
   from (commit_venv_next, a 409 for a no-op update, revert_venv_next). *)
FallbackIsStable ==
  dir["venv_old"] # Absent => dir["venv_old"].whole /\ dir["venv_old"].ran

(* An update that doesn't start ends in the version before it, never in Safe mode, as long
   as nothing interrupts the change (launch.sh, commit_venv_next, revert_venv_next). *)
UpdateNeverEndsInSafeMode == ~SafeMode

(* Whatever was interrupted, the launcher finds an environment behind the link: hydrate
   repairs a link a half-done rollback left dangling (mirrordash-hydrate.sh, launch.sh). *)
LaunchFindsVenv == boot \in {"launch", "crashed", "felled"} \/ (Up /\ ~SafeMode) => LinkResolves

(* No environment the launcher can start loses its Python to remove_unused_pythons. *)
PythonsKept ==
  \A d \in Slots \cup {"venv_old"} : UsesOwn(d) => dir[d].py \in pythons

(* A start that fails by itself only rolls back a version that doesn't start: a crash the
   new root causes on its trial boot never downgrades MirrorDash (ARCHITECTURE #31). A
   start that is killed is OnlyBrokenRolledBack's. *)
GoodVersionKept ==
  [][boot = "crashed" /\ boot' = "rb_site" => ~dir[link].starts]_vars

(* Whatever is interrupted, the app runs again, from base_venv if need be; but for a cut
   between the move of the app's Python and its naming, which every later boot stops at
   (UpWhateverIsCut). *)
AlwaysUpAgain == []<>(Up \/ boot = "stuck")

-----------------------------------------------------------------------------
(* The promise AtomicSwap states, and where it is kept in this state. *)

App(d)  == IF dir[d] = Absent THEN Absent
           ELSE [ver |-> dir[d].ver, py |-> dir[d].py, starts |-> dir[d].starts]
Pair(d, s) == [app |-> App(d), mods |-> site[s]]

RollingBack == boot \in {"rb_failed", "rb_old", "rb_mv_old", "rb_mv_failed", "rb_link"}

\* A swap takes effect when its commit begins, a rollback with its first step.
Uncommitted == job.kind # "modules"
  /\ job.phase \in {"site_prepare", "install", "site_build", "site_commit", "revert"}

CurrentDir ==
  IF Uncommitted THEN job.active
  ELSE IF boot \in {"rb_failed", "rb_old", "rb_mv_old"} THEN "venv_old"
  ELSE IF boot \in {"rb_mv_failed", "rb_link"} THEN Other(link)
  ELSE link

FallbackDir == IF job.phase \in {"commit_old", "commit_rename"} THEN job.active ELSE "venv_old"

\* The site a rollback to the fallback would link (launch.sh); what runs has the one that is linked.
FallbackSite ==
  IF dir[FallbackDir].py # dir[CurrentDir].py /\ OtherSite(siteLink) \in siteDirs
  THEN OtherSite(siteLink) ELSE siteLink

Promise == INSTANCE AtomicSwap WITH
  None     <- Absent,
  current  <- Pair(CurrentDir, siteLink),
  fallback <- IF RollingBack \/ dir[FallbackDir] = Absent \/ dir[CurrentDir].ran THEN Absent
              ELSE Pair(FallbackDir, FallbackSite)

(* Seen from the next start, an uninterrupted change of MirrorDash, its Python and its
   modules is one step, and so is a rollback (venv_swap and packages, launch.sh). *)
ChangesAreAtomic == Promise!Spec

-----------------------------------------------------------------------------
(* What the documents say and the code doesn't keep to. *)

(* "Once successful, the symlink is atomically updated" (ARCHITECTURE #16): the link never
   names an environment that is still being made. *)
LinkNamesFinishedVenv == LinkResolves => dir[link].whole

(* "A start that fails within this long is a broken install" (launch.sh): only a version
   that doesn't start by itself is rolled back, whatever ended its start. *)
OnlyBrokenRolledBack ==
  [][boot' = "rb_site" /\ boot # "rb_site" => ~dir[link].starts]_vars

(* "A power cut mid-copy must not leave a half Python that looks done"
   (mirrordash-hydrate.sh): the app runs again wherever the power went. *)
UpWhateverIsCut == []<>Up

(* "Switch back to it too, or modules with compiled code stop" (launch.sh): after a
   rollback the modules are the ones built for the Python it went back to. *)
RollbackRestoresSite == Up /\ status = "rollback" => site[siteLink] = {run.py}

(* "Use Reinstall MirrorDash [...] to install it again" (USER_GUIDE): in Safe mode the
   release Reinstall asks for runs on the Python it makes the venv with. *)
SafeModeCanReinstall == Up /\ SafeMode => RequiresPy[ReinstallVer] <= run.py
=============================================================================
