---------------------------- MODULE AppEnvProofs ----------------------------
(* What holds of AppEnv for every number of releases and Pythons and, up to the last
   section, every mix of interruptions. The inductive invariant IInv says where the link and
   the folders it needs are in each phase of a swap and of a rollback; FitInv, in the last
   section, also what they hold. *)
EXTENDS AppEnv, TLAPS

\* A job lives in the running app, and each kind goes through its own phases.
JobInv ==
  /\ job.phase # "none" => boot = "up"
  /\ job.phase = "none" <=> job.kind = "none"
  /\ job.kind = "modules" => job.phase \in {"site_prepare", "site_build", "site_commit"}

\* The environment that runs, or is being started, is one.
RunInv == boot \in {"starting", "exec", "up"} => run \in Env

\* The link resolves, but for the moments the rollback leaves it dangling.
LinkInv ==
  /\ boot \notin {"hydrate", "hydrate_link", "rb_link"} => dir[link] # Absent
  /\ boot = "hydrate_link" => dir["venv_a"] # Absent
  /\ boot \in {"rb_site", "rb_failed", "rb_old", "rb_mv_old"} => dir["venv_old"] # Absent
  /\ boot \in {"rb_mv_failed", "rb_link"} => dir[Other(link)] # Absent

\* Which of the two environments the link names in each phase of a swap.
SwapInv ==
  /\ job.phase \in {"python", "wipe", "create", "link", "revert_rm"} => link = job.active
  /\ job.phase = "link" => dir[Other(job.active)] # Absent
  /\ job.kind # "modules"
     /\ job.phase \in {"site_prepare", "install", "site_build", "site_commit",
                       "commit_old", "commit_rename", "revert"}
       => link = Other(job.active) /\ dir[job.active] # Absent

IInv == TypeOK /\ JobInv /\ RunInv /\ LinkInv /\ SwapInv

-----------------------------------------------------------------------------
(* The constants the state is built from have their types. *)
LEMMA ConstantTypes ==
  /\ Golden \in Env /\ Golden.py \in Py /\ NoJob \in Job
  /\ NoJob.phase = "none" /\ NoJob.kind = "none"
  /\ Slots \subseteq Dirs /\ {"venv_old", "venv_failed"} \subseteq Dirs /\ "venv_a" \in Slots
  /\ {"venv_old", "venv_failed"} \cap Slots = {}
  /\ \A s \in Slots : Other(s) \in Slots /\ Other(s) # s /\ Other(Other(s)) = s
  /\ \A s \in Sites : OtherSite(s) \in Sites
  /\ 0 \in 0..MaxInterruptions /\ Absent \notin Env
BY AppEnvAssumption
   DEF Golden, Env, NoJob, Job, JobKinds, AllKinds, JobPhases, Py, Dirs, Slots, Sites, Other,
      OtherSite, Versions

(* The environments the program makes out of others are environments. *)
LEMMA EnvEdits == ASSUME NEW e \in Env
  PROVE  /\ e.py \in Py /\ e.ver \in 0..MaxVer
         /\ \A s \in BOOLEAN : [e EXCEPT !.whole = FALSE, !.starts = s, !.ran = FALSE] \in Env
         /\ [e EXCEPT !.whole = FALSE, !.starts = FALSE] \in Env
         /\ [e EXCEPT !.ran = TRUE] \in Env /\ [e EXCEPT !.own = TRUE] \in Env
         /\ job.ver \in Versions => Installed(e) \subseteq Env
  <1>1. e.py \in Py /\ e.ver \in 0..MaxVer
    BY DEF Env
  <1>2. \A s \in BOOLEAN : [e EXCEPT !.whole = FALSE, !.starts = s, !.ran = FALSE] \in Env
    BY DEF Env
  <1>3. /\ [e EXCEPT !.whole = FALSE, !.starts = FALSE] \in Env /\ [e EXCEPT !.ran = TRUE] \in Env
        /\ [e EXCEPT !.own = TRUE] \in Env
    BY DEF Env
  <1>4. ASSUME job.ver \in Versions, NEW s \in BOOLEAN
        PROVE  [ver |-> job.ver, py |-> e.py, whole |-> TRUE, starts |-> s, own |-> e.own, ran |-> FALSE] \in Env
    <2>1. job.ver \in 0..MaxVer /\ e.own \in BOOLEAN
      BY <1>4, AppEnvAssumption DEF Versions, Env
    <2> QED BY <1>1, <2>1 DEF Env
  <1> QED BY <1>1, <1>2, <1>3, <1>4 DEF Installed

(* An environment that is only begun is one. *)
LEMMA UnfinishedEnv == ASSUME TypeOK PROVE Unfinished \subseteq Env
  <1>1. CASE Copies
    <2>1. dir[job.active] \in Env
      BY <1>1, ConstantTypes DEF Copies, TypeOK, Job
    <2>2. \A s \in BOOLEAN :
            [dir[job.active] EXCEPT !.whole = FALSE, !.starts = s, !.ran = FALSE] \in Env
      BY <2>1, EnvEdits
    <2> QED BY <1>1, <2>2 DEF Unfinished
  <1>2. CASE ~Copies
    BY <1>2, AppEnvAssumption DEF Unfinished, TypeOK, Job, Env
  <1> QED BY <1>1, <1>2

(* An unfinished environment runs on the Python of the one it copies, or the job's. *)
LEMMA UnfinishedPy == ASSUME TypeOK, NEW e \in Unfinished
  PROVE /\ e.py = IF Copies THEN dir[job.active].py ELSE job.py
        /\ e.own = IF Copies THEN dir[job.active].own ELSE TRUE
  <1>1. CASE Copies
    <2>1. dir[job.active] \in Env
      BY <1>1, ConstantTypes DEF Copies, TypeOK, Job
    <2>2. PICK s \in BOOLEAN :
            e = [dir[job.active] EXCEPT !.whole = FALSE, !.starts = s, !.ran = FALSE]
      BY <1>1 DEF Unfinished
    <2> QED BY <1>1, <2>1, <2>2 DEF Env
  <1>2. CASE ~Copies
    <2>1. e = [ver |-> 0, py |-> job.py, whole |-> FALSE, starts |-> FALSE, own |-> TRUE, ran |-> FALSE]
      BY <1>2 DEF Unfinished
    <2> QED BY <1>2, <2>1
  <1> QED BY <1>1, <1>2

(* An interruption is counted, up to its bound. *)
LEMMA InterruptCounted == ASSUME interrupted \in 0..MaxInterruptions, NEW kind, Interrupt(kind)
  PROVE  interrupted' \in 0..MaxInterruptions
BY AppEnvAssumption DEF Interrupt

(* What each job is, field by field. *)
LEMMA JobFields == ASSUME NEW j \in Job
  PROVE j.kind \in JobKinds /\ j.phase \in JobPhases /\ j.active \in Slots /\ j.py \in Py
BY DEF Job

(* A job that moves to another phase stays the same job. *)
LEMMA GotoKeepsJob == ASSUME job \in Job, NEW ph \in JobPhases, Goto(ph)
  PROVE job' \in Job /\ job'.phase = ph /\ job'.kind = job.kind /\ job'.active = job.active
BY DEF Goto, Job

(* A job that starts is of its kind, at its first phase, and knows the active environment. *)
LEMMA StartedJob ==
  ASSUME TypeOK, NEW kind \in AllKinds \cup {"python"}, NEW phase \in JobPhases,
         NEW ver \in 0..MaxVer, NEW py \in Py, StartJob(kind, phase, ver, py)
  PROVE  job' \in Job /\ job'.active \in Slots
         /\ job'.phase = phase /\ job'.kind = kind /\ job'.active = link
BY DEF StartJob, Job, JobKinds, TypeOK

(* The first state: the seeded environment, linked. *)
LEMMA InitIInv == Init => IInv
  <1> SUFFICES ASSUME Init PROVE IInv
    OBVIOUS
  <1> USE AppEnvAssumption, ConstantTypes
  <1>1. dir \in [Dirs -> Env \cup {Absent}] /\ dir["venv_a"] # Absent
    <2>1. [Golden EXCEPT !.own = TRUE] \in Env
      BY EnvEdits
    <2> QED BY <2>1 DEF Init
  <1>2. 1 \in Py
    BY DEF Py
  <1>3. pythons \subseteq Py \cup {Unnamed} /\ site \in [Sites -> SUBSET Py]
    BY <1>2 DEF Init
  <1>4. TypeOK
    BY <1>1, <1>3 DEF Init, TypeOK, Sites, Slots, Boots
  <1> QED
    BY <1>1, <1>4 DEF IInv, Init, JobInv, RunInv, LinkInv, SwapInv

(* One step of the program keeps it. *)
LEMMA NextIInv == IInv /\ [Next]_vars => IInv'
  <1> SUFFICES ASSUME IInv, [Next]_vars PROVE IInv'
    OBVIOUS
  <1> USE AppEnvAssumption, ConstantTypes DEF IInv, TypeOK
  <1>1. ASSUME InstallPython PROVE IInv'
    <2>1. /\ job' \in Job /\ job'.active \in Slots
          /\ \/ job'.phase = "wipe" /\ job'.kind = job.kind /\ job'.active = job.active
             \/ job' = NoJob
      BY <1>1, JobFields, GotoKeepsJob DEF InstallPython, InPhase, Up, Failed, JobPhases
    <2> QED BY <1>1, <2>1, JobFields
       DEF InstallPython, InPhase, Up, Failed, Boots, JobInv, RunInv, LinkInv, SwapInv,
           storage, app
  <1>2. ASSUME PrepareWipe PROVE IInv'
    <2>1. /\ job' \in Job /\ job'.active \in Slots
          /\ \/ job'.phase = "create" /\ job'.kind = job.kind /\ job'.active = job.active
             \/ job' = NoJob
      BY <1>2, JobFields, GotoKeepsJob DEF PrepareWipe, InPhase, Up, Failed, Next_, JobPhases
    <2>2. /\ dir' \in [Dirs -> Env \cup {Absent}]
          /\ \A d \in Dirs : d # Other(link) => dir'[d] = dir[d]
      BY <1>2, JobFields DEF PrepareWipe, InPhase, Up, Failed, Next_, SwapInv, Dirs, storage
    <2> QED BY <1>2, <2>1, <2>2, JobFields
       DEF PrepareWipe, InPhase, Up, Failed, Next_, Boots, JobInv, RunInv, LinkInv,
           SwapInv, storage, app
  <1>3. ASSUME PrepareCreate PROVE IInv'
    <2>1. /\ job' \in Job /\ job'.active \in Slots
          /\ \/ job'.phase = "link" /\ job'.kind = job.kind /\ job'.active = job.active
             \/ job' = NoJob
      BY <1>3, JobFields, GotoKeepsJob
         DEF PrepareCreate, InPhase, Up, Failed, Next_, Copies, JobPhases
    <2>2. /\ dir' \in [Dirs -> Env \cup {Absent}]
          /\ dir'[Other(link)] # Absent
          /\ \A d \in Dirs : d # Other(link) => dir'[d] = dir[d]
      <3>1. PICK e \in Unfinished : dir' = [dir EXCEPT ![Other(link)] = e]
        BY <1>3 DEF PrepareCreate, InPhase, Up, Next_, SwapInv
      <3>2. e \in Env
        BY <3>1, UnfinishedEnv
      <3> QED BY <3>1, <3>2
    <2> QED BY <1>3, <2>1, <2>2, JobFields
       DEF PrepareCreate, InPhase, Up, Failed, Next_, Copies, Boots, JobInv, RunInv,
           LinkInv, SwapInv, storage, app
  <1>4. ASSUME PrepareLink PROVE IInv'
    <2>1. /\ job' \in Job /\ job'.active \in Slots
          /\ \/ job'.phase = "site_prepare" /\ job'.kind = job.kind /\ job'.active = job.active
             \/ job'.phase = "install" /\ job'.kind = job.kind /\ job'.active = job.active
      BY <1>4, JobFields, GotoKeepsJob DEF PrepareLink, InPhase, Up, Next_, JobPhases
    <2> QED BY <1>4, <2>1, JobFields
       DEF PrepareLink, InPhase, Up, Next_, Boots, JobInv, RunInv, LinkInv, SwapInv, storage, app
  <1>5. ASSUME InstallCore PROVE IInv'
    <2>1. /\ job' \in Job /\ job'.active \in Slots
          /\ \/ job'.phase = "site_build" /\ job'.kind = job.kind /\ job'.active = job.active
             \/ job'.phase = "commit_old" /\ job'.kind = job.kind /\ job'.active = job.active
      BY <1>5, JobFields, GotoKeepsJob DEF InstallCore, InPhase, Up, Next_, CanInstall, JobPhases
    <2>2. /\ dir' \in [Dirs -> Env \cup {Absent}]
          /\ dir'[link] # Absent
          /\ \A d \in Dirs : d # link => dir'[d] = dir[d]
      <3>1. dir[link] \in Env /\ job.ver \in Versions /\ Other(job.active) = link
        BY <1>5, JobFields DEF InstallCore, InPhase, Up, CanInstall, LinkInv, SwapInv, JobInv
      <3>2. PICK e \in Installed(dir[link]) : dir' = [dir EXCEPT ![link] = e]
        BY <1>5, <3>1 DEF InstallCore, Next_
      <3>3. e \in Env
        BY <3>1, <3>2, EnvEdits
      <3> QED BY <3>2, <3>3
    <2> QED BY <1>5, <2>1, <2>2, JobFields
       DEF InstallCore, InPhase, Up, Next_, CanInstall, Boots, JobInv, RunInv, LinkInv,
           SwapInv, storage, app
  <1>6. ASSUME InstallFails PROVE IInv'
    <2>1. /\ job' \in Job /\ job'.active \in Slots
          /\ job'.phase = "revert" /\ job'.kind = job.kind /\ job'.active = job.active
      BY <1>6, JobFields, GotoKeepsJob DEF InstallFails, InPhase, Up, JobPhases
    <2> QED BY <1>6, <2>1, JobFields
       DEF InstallFails, InPhase, Up, Boots, JobInv, RunInv, LinkInv, SwapInv, storage, app
  <1>7. ASSUME CommitOld PROVE IInv'
    <2>1. /\ job' \in Job /\ job'.active \in Slots
          /\ job'.phase = "commit_rename" /\ job'.kind = job.kind /\ job'.active = job.active
      BY <1>7, JobFields, GotoKeepsJob DEF CommitOld, InPhase, Up, JobPhases
    <2>2. dir' \in [Dirs -> Env \cup {Absent}] /\ \A d \in Slots : dir'[d] = dir[d]
      BY <1>7, JobFields DEF CommitOld, InPhase, Up, SwapInv, Dirs, storage
    <2> QED BY <1>7, <2>1, <2>2, JobFields
       DEF CommitOld, InPhase, Up, Boots, JobInv, RunInv, LinkInv, SwapInv, storage, app
  <1>8. ASSUME CommitRename PROVE IInv'
    <2>1. /\ job' \in Job /\ job'.active \in Slots
          /\ job'.phase = "commit_pythons" /\ job'.kind = job.kind /\ job'.active = job.active
      BY <1>8, JobFields, GotoKeepsJob DEF CommitRename, InPhase, Up, KeptAsOld, JobPhases
    <2>2. dir' \in [Dirs -> Env \cup {Absent}] /\ dir'[link] = dir[link]
      <3>1. dir[job.active] \in Env /\ job.active \in Slots /\ link = Other(job.active)
        BY <1>8, JobFields DEF CommitRename, InPhase, Up, SwapInv, JobInv
      <3>2. dir' = [dir EXCEPT !["venv_old"] = dir[job.active], ![job.active] = Absent]
        BY <1>8, <3>1 DEF CommitRename, KeptAsOld
      <3> QED BY <3>1, <3>2
    <2> QED BY <1>8, <2>1, <2>2, JobFields
       DEF CommitRename, InPhase, Up, KeptAsOld, Boots, JobInv, RunInv, LinkInv, SwapInv,
           storage, app
  <1>9. ASSUME CommitPythons PROVE IInv'
    <2>1. /\ job' \in Job /\ job'.active \in Slots
          /\ job' = NoJob
      BY <1>9, JobFields, GotoKeepsJob DEF CommitPythons, InPhase, Up, Done, JobPhases
    <2> QED BY <1>9, <2>1, JobFields
       DEF CommitPythons, InPhase, Up, Done, Boots, JobInv, RunInv, LinkInv, SwapInv, storage, app
  <1>10. ASSUME Revert PROVE IInv'
    <2>1. /\ job' \in Job /\ job'.active \in Slots
          /\ job'.phase = "revert_rm" /\ job'.kind = job.kind /\ job'.active = job.active
      BY <1>10, JobFields, GotoKeepsJob DEF Revert, InPhase, Up, RevertTarget, JobPhases
    <2> QED BY <1>10, <2>1, JobFields
       DEF Revert, InPhase, Up, RevertTarget, Boots, JobInv, RunInv, LinkInv, SwapInv,
           storage, app
  <1>11. ASSUME RevertRemove PROVE IInv'
    <2>1. /\ job' \in Job /\ job'.active \in Slots
          /\ job' = NoJob
      BY <1>11, JobFields, GotoKeepsJob DEF RevertRemove, InPhase, Up, Failed, Next_, JobPhases
    <2>2. dir' \in [Dirs -> Env \cup {Absent}] /\ dir'[link] = dir[link]
      BY <1>11, JobFields DEF RevertRemove, InPhase, Up, Failed, Next_, SwapInv, Dirs, storage
    <2> QED BY <1>11, <2>1, <2>2, JobFields
       DEF RevertRemove, InPhase, Up, Failed, Next_, Boots, JobInv, RunInv, LinkInv,
           SwapInv, storage, app
  <1>12. ASSUME SitePrepare PROVE IInv'
    <2>1. /\ job' \in Job /\ job'.active \in Slots
          /\ \/ job.kind = "python" /\ job'.phase = "install"
                /\ job'.kind = job.kind /\ job'.active = job.active
             \/ job.kind # "python" /\ job'.phase = "site_build"
                /\ job'.kind = job.kind /\ job'.active = job.active
      BY <1>12, JobFields, GotoKeepsJob DEF SitePrepare, InPhase, Up, NextSite, JobPhases
    <2>2. site' \in [Sites -> SUBSET Py]
      BY <1>12 DEF SitePrepare, InPhase, Up, NextSite
    <2> QED BY <1>12, <2>1, <2>2, JobFields
       DEF SitePrepare, InPhase, Up, NextSite, Boots, JobInv, RunInv, LinkInv, SwapInv,
           storage, app
  <1>13. ASSUME SitePrepareFails PROVE IInv'
    <2>1. /\ job' \in Job /\ job'.active \in Slots
          /\ \/ job'.phase = "revert" /\ job'.kind = job.kind /\ job'.active = job.active
             \/ job' = NoJob
      BY <1>13, JobFields, GotoKeepsJob DEF SitePrepareFails, InPhase, Up, Failed, JobPhases
    <2> QED BY <1>13, <2>1, JobFields
       DEF SitePrepareFails, InPhase, Up, Failed, Boots, JobInv, RunInv, LinkInv,
           SwapInv, storage, app
  <1>14. ASSUME SiteBuild PROVE IInv'
    <2>1. /\ job' \in Job /\ job'.active \in Slots
          /\ job'.phase = "site_commit" /\ job'.kind = job.kind /\ job'.active = job.active
      BY <1>14, JobFields, GotoKeepsJob DEF SiteBuild, InPhase, Up, NextSite, JobPhases
    <2>2. site' \in [Sites -> SUBSET Py]
      <3>1. dir[link] \in Env /\ OtherSite(siteLink) \in Sites
        BY <1>14 DEF SiteBuild, InPhase, Up, LinkInv
      <3>2. site' = [site EXCEPT ![OtherSite(siteLink)] = @ \cup {dir[link].py}]
        BY <1>14 DEF SiteBuild, NextSite
      <3> QED BY <3>1, <3>2, EnvEdits
    <2> QED BY <1>14, <2>1, <2>2, JobFields
       DEF SiteBuild, InPhase, Up, NextSite, Boots, JobInv, RunInv, LinkInv, SwapInv, storage, app
  <1>15. ASSUME SiteBuildFails PROVE IInv'
    <2>1. /\ job' \in Job /\ job'.active \in Slots
          /\ \/ job'.phase = "revert" /\ job'.kind = job.kind /\ job'.active = job.active
             \/ job' = NoJob
      BY <1>15, JobFields, GotoKeepsJob
         DEF SiteBuildFails, InPhase, Up, NextSite, Failed, JobPhases
    <2>2. site' \in [Sites -> SUBSET Py]
      BY <1>15 DEF SiteBuildFails, InPhase, Up, NextSite, Failed
    <2> QED BY <1>15, <2>1, <2>2, JobFields
       DEF SiteBuildFails, InPhase, Up, NextSite, Failed, Boots, JobInv, RunInv, LinkInv,
           SwapInv, storage, app
  <1>16. ASSUME SiteCommit PROVE IInv'
    <2>1. /\ job' \in Job /\ job'.active \in Slots
          /\ \/ job'.phase = "commit_old" /\ job'.kind = job.kind /\ job'.active = job.active
             \/ job' = NoJob
      BY <1>16, JobFields, GotoKeepsJob DEF SiteCommit, InPhase, Up, NextSite, Done, JobPhases
    <2> QED BY <1>16, <2>1, JobFields
       DEF SiteCommit, InPhase, Up, NextSite, Done, Boots, JobInv, RunInv, LinkInv,
           SwapInv, storage, app
  <1>17. ASSUME SiteCommitLost PROVE IInv'
    <2>1. /\ job' \in Job /\ job'.active \in Slots
          /\ \/ job'.phase = "revert" /\ job'.kind = job.kind /\ job'.active = job.active
             \/ job' = NoJob
      BY <1>17, JobFields, GotoKeepsJob
         DEF SiteCommitLost, InPhase, Up, Interrupt, NextSite, Failed, JobPhases
    <2> QED BY <1>17, <2>1, JobFields
       DEF SiteCommitLost, InPhase, Up, Interrupt, NextSite, Failed, Boots, JobInv,
           RunInv, LinkInv, SwapInv, storage, app
  <1>18. ASSUME CommitOldFails PROVE IInv'
    <2>1. /\ job' \in Job /\ job'.active \in Slots
          /\ job'.phase = "commit_pythons" /\ job'.kind = job.kind /\ job'.active = job.active
      BY <1>18, JobFields, GotoKeepsJob DEF CommitOldFails, InPhase, Up, Interrupt, JobPhases
    <2>2. dir' \in [Dirs -> Env \cup {Absent}] /\ \A d \in Slots : dir'[d] = dir[d]
      <3>1. [dir["venv_old"] EXCEPT !.whole = FALSE, !.starts = FALSE] \in Env
        BY <1>18, EnvEdits DEF CommitOldFails
      <3> QED BY <1>18, <3>1 DEF CommitOldFails
    <2> QED BY <1>18, <2>1, <2>2, JobFields
       DEF CommitOldFails, InPhase, Up, Interrupt, Boots, JobInv, RunInv, LinkInv,
           SwapInv, storage, app
  <1>19. ASSUME Hydrate PROVE IInv'
    <2>1. /\ dir' \in [Dirs -> Env \cup {Absent}]
          /\ (dir[link] = Absent => dir'["venv_a"] # Absent)
          /\ (dir[link] # Absent => dir' = dir)
      BY <1>19 DEF Hydrate, NothingToSeed, LinkResolves, SwapInv, Dirs, storage
    <2> QED BY <1>19, <2>1, JobFields
       DEF Hydrate, NothingToSeed, LinkResolves, Boots, JobInv, RunInv, LinkInv, SwapInv,
           storage, app
  <1>20. ASSUME HydrateLink PROVE IInv'
    BY <1>20, JobFields DEF HydrateLink, Boots, JobInv, RunInv, LinkInv, SwapInv, storage, app
  <1>21. ASSUME Launch PROVE IInv'
    BY <1>21, JobFields
       DEF Launch, LinkResolves, Boots, JobInv, RunInv, LinkInv, SwapInv, storage, app
  <1>22. ASSUME ComesUp PROVE IInv'
    <2>1. /\ dir' \in [Dirs -> Env \cup {Absent}]
          /\ run' \in Env
          /\ \A d \in Dirs : dir[d] # Absent <=> dir'[d] # Absent
      <3>1. run' \in Env
        BY <1>22, EnvEdits DEF ComesUp, RunInv
      <3>2. CASE SafeMode \/ ~LinkResolves
        BY <1>22, <3>1, <3>2 DEF ComesUp
      <3>3. CASE ~SafeMode /\ LinkResolves
        <4>1. [dir[link] EXCEPT !.ran = TRUE] \in Env /\ dir[link] \in Env
          BY <3>3, EnvEdits DEF LinkResolves
        <4>2. dir' = [dir EXCEPT ![link] = [dir[link] EXCEPT !.ran = TRUE]]
          BY <1>22, <3>3 DEF ComesUp
        <4> QED BY <3>1, <4>1, <4>2
      <3> QED BY <3>2, <3>3
    <2> QED BY <1>22, <2>1, JobFields
       DEF ComesUp, LinkResolves, SafeMode, Boots, JobInv, RunInv, LinkInv, SwapInv, storage, app
  <1>23. ASSUME CrashesAtStart PROVE IInv'
    BY <1>23, JobFields DEF CrashesAtStart, Boots, JobInv, RunInv, LinkInv, SwapInv, storage, app
  <1>24. ASSUME HandleCrash PROVE IInv'
    BY <1>24, JobFields
       DEF HandleCrash, RollBack, GoGolden, LeaveToTrial, SafeMode, Boots, JobInv,
           RunInv, LinkInv, SwapInv, storage, app
  <1>25. ASSUME RbSite PROVE IInv'
    BY <1>25, JobFields DEF RbSite, Boots, JobInv, RunInv, LinkInv, SwapInv, storage, app
  <1>26. ASSUME RbFailed PROVE IInv'
    <2>1. /\ dir' \in [Dirs -> Env \cup {Absent}]
          /\ \A d \in Slots \cup {"venv_old"} : dir'[d] = dir[d]
      BY <1>26 DEF RbFailed, RbStep, SwapInv, Dirs, storage
    <2> QED BY <1>26, <2>1, JobFields
       DEF RbFailed, RbStep, Boots, JobInv, RunInv, LinkInv, SwapInv, storage, app
  <1>27. ASSUME RbOld PROVE IInv'
    <2>1. /\ dir' \in [Dirs -> Env \cup {Absent}]
          /\ dir'[link] = dir[link]
          /\ dir'["venv_old"] = dir["venv_old"]
      BY <1>27 DEF RbOld, RbStep, SwapInv, Dirs, storage
    <2> QED BY <1>27, <2>1, JobFields
       DEF RbOld, RbStep, Boots, JobInv, RunInv, LinkInv, SwapInv, storage, app
  <1>28. ASSUME RbMvOld PROVE IInv'
    <2>1. /\ dir' \in [Dirs -> Env \cup {Absent}]
          /\ dir'[link] = dir[link]
          /\ dir'[Other(link)] = dir["venv_old"]
      BY <1>28 DEF RbMvOld, RbStep, SwapInv, Dirs, storage
    <2> QED BY <1>28, <2>1, JobFields
       DEF RbMvOld, RbStep, Boots, JobInv, RunInv, LinkInv, SwapInv, storage, app
  <1>29. ASSUME RbMvFailed PROVE IInv'
    <2>1. dir' \in [Dirs -> Env \cup {Absent}] /\ dir'[Other(link)] = dir[Other(link)]
      BY <1>29 DEF RbMvFailed, RbStep, SwapInv, Dirs, storage
    <2> QED BY <1>29, <2>1, JobFields
       DEF RbMvFailed, RbStep, Boots, JobInv, RunInv, LinkInv, SwapInv, storage, app
  <1>30. ASSUME RbLink PROVE IInv'
    BY <1>30, JobFields
       DEF RbLink, RollbackTarget, Boots, JobInv, RunInv, LinkInv, SwapInv, storage, app
  <1>31. ASSUME StartUpdate PROVE IInv'
    <2>1. /\ job' \in Job /\ job'.active \in Slots
          /\ \/ job'.phase = "python" /\ job'.kind = "python" /\ job'.active = link
             \/ job'.phase = "wipe" /\ job'.kind = "update" /\ job'.active = link
      <3>1. PICK v \in Versions :
              /\ Up /\ v > run.ver
              /\ IF RequiresPy[v] > run.py
                 THEN StartJob("python", "python", v, RequiresPy[v])
                 ELSE StartJob("update", "wipe", v, run.py)
        BY <1>31 DEF StartUpdate
      <3>2. run.py \in Py /\ RequiresPy[v] \in Py /\ v \in 0..MaxVer
        <4>1. run \in Env
          BY <3>1 DEF RunInv, Up
        <4>2. RequiresPy[v] \in Py /\ v \in 0..MaxVer
          BY DEF Versions
        <4> QED BY <4>1, <4>2, EnvEdits
      <3>3. CASE RequiresPy[v] > run.py
        BY <3>1, <3>2, <3>3, StartedJob DEF AllKinds, JobPhases
      <3>4. CASE ~(RequiresPy[v] > run.py)
        BY <3>1, <3>2, <3>4, StartedJob DEF AllKinds, JobPhases
      <3> QED BY <3>3, <3>4
    <2> QED BY <1>31, <2>1, JobFields
       DEF StartUpdate, StartJob, JobSlotFree, Up, Interrupt, Boots, JobInv, RunInv,
           LinkInv, SwapInv, storage, app
  <1>32. ASSUME StartRebuild PROVE IInv'
    <2>1. /\ job' \in Job /\ job'.active \in Slots
          /\ job'.phase = "wipe" /\ job'.kind = "rebuild" /\ job'.active = link
      <3>1. run \in Env /\ run.py \in Py /\ run.ver \in 0..MaxVer
        BY <1>32, EnvEdits DEF StartRebuild, RunInv, Up
      <3>2. ReinstallVer \in 0..MaxVer
        BY <3>1, EnvEdits DEF ReinstallVer
      <3>3. StartJob("rebuild", "wipe", ReinstallVer, run.py)
        BY <1>32 DEF StartRebuild
      <3> QED BY <3>1, <3>2, <3>3, StartedJob DEF AllKinds, JobPhases
    <2> QED BY <1>32, <2>1, JobFields
       DEF StartRebuild, StartJob, JobSlotFree, Up, Interrupt, Boots, JobInv, RunInv,
           LinkInv, SwapInv, storage, app
  <1>33. ASSUME StartModules PROVE IInv'
    <2>1. /\ job' \in Job /\ job'.active \in Slots
          /\ job'.phase = "site_prepare" /\ job'.kind = "modules" /\ job'.active = link
      <3>1. 0 \in 0..MaxVer /\ 1 \in Py
        BY DEF Py
      <3>2. StartJob("modules", "site_prepare", 0, 1)
        BY <1>33 DEF StartModules
      <3> QED BY <3>1, <3>2, StartedJob DEF AllKinds, JobPhases
    <2> QED BY <1>33, <2>1, JobFields
       DEF StartModules, StartJob, JobSlotFree, Up, Interrupt, Boots, JobInv, RunInv,
           LinkInv, SwapInv, storage, app
  <1>34. ASSUME RequestRestart PROVE IInv'
    BY <1>34, JobFields
       DEF RequestRestart, Up, Interrupt, Boots, JobInv, RunInv, LinkInv, SwapInv,
           storage, app
  <1>35. ASSUME CoreKilled PROVE IInv'
    <2>1. /\ job' \in Job /\ job'.active \in Slots
          /\ job' = NoJob
      BY <1>35, JobFields, GotoKeepsJob DEF CoreKilled, Up, Interrupt, CoreGone, JobPhases
    <2> QED BY <1>35, <2>1, InterruptCounted, JobFields
       DEF CoreKilled, Up, CoreGone, Boots, JobInv, RunInv, LinkInv, SwapInv, storage, app
  <1>36. ASSUME PowerCut PROVE IInv'
    <2>1. /\ job' \in Job /\ job'.active \in Slots
          /\ job' = NoJob
      BY <1>36, JobFields, GotoKeepsJob DEF PowerCut, Interrupt, CoreGone, JobPhases
    <2> QED BY <1>36, <2>1, InterruptCounted, JobFields
       DEF PowerCut, CoreGone, Boots, JobInv, RunInv, LinkInv, SwapInv, storage, app
  <1>37. ASSUME OsTrial PROVE IInv'
    <2>1. /\ job' \in Job /\ job'.active \in Slots
          /\ job' = NoJob
      BY <1>37, JobFields, GotoKeepsJob
         DEF OsTrial, Up, Interrupt, CoreGone, JobSlotFree, JobPhases
    <2> QED BY <1>37, <2>1, InterruptCounted, JobFields
       DEF OsTrial, Up, CoreGone, JobSlotFree, Boots, JobInv, RunInv, LinkInv, SwapInv,
           storage, app
  <1>38. ASSUME Restart PROVE IInv'
    <2>1. /\ job' \in Job /\ job'.active \in Slots
          /\ job' = NoJob
      BY <1>38, JobFields, GotoKeepsJob DEF Restart, Up, CoreGone, SwapOpen, Next_, JobPhases
    <2>2. dir' \in [Dirs -> Env \cup {Absent}] /\ dir'[link'] # Absent /\ link' \in Slots
      <3>1. CASE SwapOpen
        <4>1. /\ link' = job.active /\ job.active \in Slots /\ dir[job.active] # Absent
              /\ dir' = [dir EXCEPT ![Other(job.active)] = Absent]
          BY <1>38, <3>1, JobFields DEF Restart, Up, SwapOpen, Next_, LinkInv, SwapInv
        <4> QED BY <4>1
      <3>2. CASE ~SwapOpen
        <4>1. link' = link /\ dir[link] # Absent
          BY <1>38, <3>2 DEF Restart, Up, LinkInv
        <4>2. dir' = dir \/ dir' = [dir EXCEPT !["venv_old"] = Absent]
          BY <1>38, <3>2 DEF Restart
        <4> QED BY <4>1, <4>2
      <3> QED BY <3>1, <3>2
    <2> QED BY <1>38, <2>1, <2>2, JobFields
       DEF Restart, Up, CoreGone, SwapOpen, Next_, Boots, JobInv, RunInv, LinkInv,
           SwapInv, storage, app
  <1>39. ASSUME MarkGood PROVE IInv'
    BY <1>39, JobFields DEF MarkGood, Up, Boots, JobInv, RunInv, LinkInv, SwapInv, storage, app
  <1>40. ASSUME TrialOver PROVE IInv'
    <2>1. /\ job' \in Job /\ job'.active \in Slots
          /\ job' = NoJob
      BY <1>40, JobFields, GotoKeepsJob DEF TrialOver, OnTrial, Up, CoreGone, JobPhases
    <2> QED BY <1>40, <2>1, JobFields
       DEF TrialOver, OnTrial, Up, CoreGone, Boots, JobInv, RunInv, LinkInv, SwapInv, storage, app
  <1>42. ASSUME MovePython \/ MoveFails \/ CopyFails PROVE IInv'
    <2>1. /\ boot = "hydrate_python" /\ boot' \in {"hydrate_name", "stuck", "launch"}
          /\ pythons' \subseteq Py \cup {Unnamed} /\ interrupted' \in 0..MaxInterruptions
          /\ UNCHANGED <<dir, link, site, siteDirs, siteLink, status, run, job, jobState, restartDue, os>>
      BY <1>42, InterruptCounted DEF MovePython, MoveFails, CopyFails, HydratePython, app
    <2> QED BY <2>1, JobFields DEF Boots, JobInv, RunInv, LinkInv, SwapInv
  <1>43. ASSUME NamePython \/ Hydrated PROVE IInv'
    <2>1. /\ boot \in {"hydrate_python", "hydrate_name"} /\ boot' \in {"hydrate_python", "launch"}
          /\ pythons' \subseteq Py \cup {Unnamed}
          /\ UNCHANGED <<dir, link, site, siteDirs, siteLink, status, run, job, jobState, restartDue, os, interrupted>>
      BY <1>43 DEF NamePython, Hydrated, storage, app
    <2> QED BY <2>1, JobFields DEF Boots, JobInv, RunInv, LinkInv, SwapInv
  <1>44. ASSUME PointPython PROVE IInv'
    <2>1. PICK d \in RootVenvs : dir' = [dir EXCEPT ![d] = [dir[d] EXCEPT !.own = TRUE]]
      BY <1>44 DEF PointPython
    <2>2. d \in Dirs /\ dir[d] \in Env /\ [dir[d] EXCEPT !.own = TRUE] \in Env
      BY EnvEdits DEF RootVenvs
    <2>3. /\ dir' \in [Dirs -> Env \cup {Absent}]
          /\ \A x \in Dirs : dir[x] # Absent <=> dir'[x] # Absent
      BY <2>1, <2>2
    <2> QED BY <1>44, <2>3, JobFields DEF PointPython, Boots, JobInv, RunInv, LinkInv, SwapInv, app
  <1>45. ASSUME KilledAtStart PROVE IInv'
    BY <1>45, InterruptCounted, JobFields
       DEF KilledAtStart, Boots, JobInv, RunInv, LinkInv, SwapInv, storage
  <1>41. ASSUME UNCHANGED vars PROVE IInv'
    BY <1>41 DEF IInv, JobInv, RunInv, LinkInv, SwapInv, vars
  <1> QED
    BY <1>1, <1>2, <1>3, <1>4, <1>5, <1>6, <1>7, <1>8, <1>9, <1>10, <1>11, <1>12, <1>13,
       <1>14, <1>15, <1>16, <1>17, <1>18, <1>19, <1>20, <1>21, <1>22, <1>23, <1>24, <1>25,
       <1>26, <1>27, <1>28, <1>29, <1>30, <1>31, <1>32, <1>33, <1>34, <1>35, <1>36, <1>37,
       <1>38, <1>39, <1>40, <1>41, <1>42, <1>43, <1>44, <1>45
       DEF Next, JobStep, BootStep, AdminStep, InterruptionStep

(* In every behaviour, whatever interrupts it, IInv holds. *)
LEMMA SpecIInv == Spec => []IInv
BY InitIInv, NextIInv, PTL DEF Spec

(* The state has its type: AppEnv's variables stand for the folders, links and processes
   of /storage/mirrordash and the core (venv.py, launch.sh). *)
THEOREM TypeCorrect == Spec => []TypeOK
  <1>1. IInv => TypeOK
    BY DEF IInv
  <1> QED
    BY SpecIInv, <1>1, PTL

(* The launcher finds an environment behind the link, wherever a swap, a rollback or a
   cancelled job was interrupted (launch.sh, mirrordash-hydrate.sh). *)
THEOREM LaunchAlwaysFindsVenv == Spec => []LaunchFindsVenv
  <1>1. IInv => LaunchFindsVenv
    BY DEF IInv, LinkInv, LaunchFindsVenv, LinkResolves, Up
  <1> QED
    BY SpecIInv, <1>1, PTL

-----------------------------------------------------------------------------
(* Only the root's Python, the one hydrate copies, is used from the root. *)
RootInv == \A d \in Dirs : dir[d] # Absent /\ ~dir[d].own => dir[d].py = Golden.py

KeptInv == RootInv /\ PythonsKept

(* A step that adds no Python's user keeps both: each environment is gone or as it was. *)
LEMMA FewerUsersKeepPythons ==
  ASSUME KeptInv, pythons \subseteq pythons',
         \A d \in Dirs : dir'[d] = Absent \/ dir'[d] = dir[d]
  PROVE  KeptInv'
  <1>1. RootInv'
    BY DEF KeptInv, RootInv
  <1>2. PythonsKept'
    BY DEF KeptInv, PythonsKept, UsesOwn, Slots, Dirs
  <1> QED BY <1>1, <1>2 DEF KeptInv

(* A step that makes one environment with a Python that is there keeps them too. *)
LEMMA OneMoreKeepsPythons ==
  ASSUME TypeOK, KeptInv, pythons \subseteq pythons', NEW x \in Dirs, NEW e \in Env, dir' = [dir EXCEPT ![x] = e],
         e.own => e.py \in pythons', ~e.own => e.py = Golden.py
  PROVE  KeptInv'
  <1>1. \A d \in Dirs : dir'[d] = IF d = x THEN e ELSE dir[d]
    BY DEF TypeOK
  <1>2. RootInv'
    BY <1>1 DEF KeptInv, RootInv
  <1>3. PythonsKept'
    BY <1>1 DEF KeptInv, PythonsKept, UsesOwn, Slots, Dirs
  <1> QED BY <1>2, <1>3 DEF KeptInv

(* One step of the program keeps the Pythons its environments run on. *)
LEMMA NextPythonsKept == IInv /\ KeptInv /\ [Next]_vars => KeptInv'
  <1> SUFFICES ASSUME IInv, KeptInv, [Next]_vars PROVE KeptInv'
    OBVIOUS
  <1> USE AppEnvAssumption, ConstantTypes DEF IInv, TypeOK
  <1>1. ASSUME UNCHANGED dir, pythons \subseteq pythons' PROVE KeptInv'
    BY <1>1, FewerUsersKeepPythons
  <1>2. CASE InstallPython
    BY <1>1, <1>2 DEF InstallPython
  <1>3. CASE PrepareWipe
    BY <1>3, FewerUsersKeepPythons DEF PrepareWipe
  <1>4. CASE PrepareCreate
    <2>1. PICK e \in Unfinished : dir' = [dir EXCEPT ![Next_] = e]
      BY <1>4 DEF PrepareCreate
    <2>2. Next_ \in Dirs /\ job.active \in Slots /\ job.active \in Dirs /\ e \in Env
      BY JobFields, UnfinishedEnv DEF Next_
    <2>3. pythons \subseteq pythons' /\ (e.own => e.py \in pythons') /\ (~e.own => e.py = Golden.py)
      <3>1. CASE Copies
        <4>1. e.py = dir[job.active].py /\ e.own = dir[job.active].own /\ dir[job.active] # Absent
          BY <3>1, UnfinishedPy DEF Copies
        <4>2. pythons' = pythons
          BY <1>4, <3>1 DEF PrepareCreate
        <4> QED BY <2>2, <4>1, <4>2 DEF KeptInv, RootInv, PythonsKept, UsesOwn
      <3>2. CASE ~Copies
        BY <1>4, <3>2, UnfinishedPy DEF PrepareCreate
      <3> QED BY <3>1, <3>2
    <2> QED BY <2>1, <2>2, <2>3, OneMoreKeepsPythons
  <1>5. CASE InstallCore
    <2>1. PICK e \in Installed(dir[Next_]) : dir' = [dir EXCEPT ![Next_] = e]
      BY <1>5 DEF InstallCore
    <2>2. Next_ \in Slots /\ Next_ \in Dirs /\ dir[Next_] \in Env /\ job.ver \in Versions
      BY <1>5, JobFields DEF InstallCore, CanInstall, InPhase, Up, Next_, LinkInv, SwapInv, JobInv
    <2>3. e \in Env
      BY <2>1, <2>2, EnvEdits
    <2>5. e.py = dir[Next_].py /\ e.own = dir[Next_].own
      BY <2>1 DEF Installed
    <2>4. (e.own => e.py \in pythons) /\ (~e.own => e.py = Golden.py)
      BY <2>2, <2>5 DEF KeptInv, RootInv, PythonsKept, UsesOwn
    <2> QED BY <1>5, <2>1, <2>2, <2>3, <2>4, OneMoreKeepsPythons DEF InstallCore
  <1>6. CASE CommitOld
    BY <1>6, FewerUsersKeepPythons DEF CommitOld
  <1>7. CASE CommitRename
    <2>1. job.active \in Slots /\ job.active \in Dirs /\ "venv_old" \in Dirs /\ pythons' = pythons
      BY <1>7, JobFields DEF CommitRename
    <2>2. \A d \in Dirs : dir'[d] \in {Absent, dir[d]} \/ (d = "venv_old" /\ dir'[d] = dir[job.active])
      BY <1>7, <2>1 DEF CommitRename, KeptAsOld
    <2>3. RootInv'
      BY <2>1, <2>2 DEF KeptInv, RootInv
    <2>4. PythonsKept'
      BY <2>1, <2>2 DEF KeptInv, PythonsKept, UsesOwn
    <2> QED BY <2>3, <2>4 DEF KeptInv
  <1>8. CASE CommitPythons
    <2>1. RootInv'
      BY <1>8 DEF CommitPythons, KeptInv, RootInv
    <2>2. PythonsKept'
      BY <1>8 DEF CommitPythons, UsedPythons, KeptInv, PythonsKept, UsesOwn
    <2> QED BY <2>1, <2>2 DEF KeptInv
  <1>9. CASE RevertRemove
    BY <1>9, FewerUsersKeepPythons DEF RevertRemove
  <1>10. CASE Restart
    BY <1>10, FewerUsersKeepPythons DEF Restart
  <1>11. CASE CommitOldFails
    <2> DEFINE e == [dir["venv_old"] EXCEPT !.whole = FALSE, !.starts = FALSE]
    <2>1. dir["venv_old"] \in Env /\ e \in Env
      BY <1>11, EnvEdits DEF CommitOldFails
    <2>2. dir' = [dir EXCEPT !["venv_old"] = e] /\ pythons' = pythons
      BY <1>11 DEF CommitOldFails
    <2>3. e.py = dir["venv_old"].py /\ e.own = dir["venv_old"].own
      BY <2>1 DEF Env
    <2>4. (e.own => e.py \in pythons) /\ (~e.own => e.py = Golden.py)
      BY <2>1, <2>3 DEF KeptInv, RootInv, PythonsKept, UsesOwn
    <2> HIDE DEF e
    <2> QED BY <2>1, <2>2, <2>4, OneMoreKeepsPythons
  <1>12. CASE Hydrate
    <2>1. CASE dir' = dir
      BY <1>1, <1>12, <2>1 DEF Hydrate
    <2>2. CASE dir' = [dir EXCEPT !["venv_a"] = Golden]
      <3>1. ~Golden.own /\ "venv_a" \in Dirs
        BY DEF Golden
      <3> QED BY <1>12, <2>2, <3>1, OneMoreKeepsPythons DEF Hydrate
    <2> QED BY <1>12, <2>1, <2>2 DEF Hydrate
  <1>13. CASE ComesUp
    <2>1. CASE SafeMode \/ ~LinkResolves
      BY <1>1, <1>13, <2>1 DEF ComesUp
    <2>2. CASE ~SafeMode /\ LinkResolves
      <3> DEFINE e == [dir[link] EXCEPT !.ran = TRUE]
      <3>1. dir[link] \in Env /\ link \in Dirs /\ dir[link] # Absent /\ e \in Env
        BY <2>2, EnvEdits DEF LinkResolves
      <3>2. dir' = [dir EXCEPT ![link] = e] /\ pythons' = pythons
        BY <1>13, <2>2 DEF ComesUp
      <3>3. e.py = dir[link].py /\ e.own = dir[link].own
        BY <3>1 DEF Env
      <3>4. (e.own => e.py \in pythons) /\ (~e.own => e.py = Golden.py)
        BY <3>1, <3>3 DEF KeptInv, RootInv, PythonsKept, UsesOwn
      <3> HIDE DEF e
      <3> QED BY <3>1, <3>2, <3>4, OneMoreKeepsPythons
    <2> QED BY <2>1, <2>2
  <1>14. CASE RbFailed
    BY <1>14, FewerUsersKeepPythons DEF RbFailed, RbStep
  <1>15. CASE RbOld
    BY <1>15, FewerUsersKeepPythons DEF RbOld, RbStep
  <1>16. CASE RbMvOld \/ RbMvFailed
    <2>1. link \in Slots /\ link \in Dirs /\ Other(link) \in Slots /\ Other(link) \in Dirs
          /\ {"venv_old", "venv_failed"} \subseteq Dirs /\ pythons' = pythons
      BY <1>16 DEF RbMvOld, RbMvFailed, RbStep
    <2>2. \A d \in Dirs : \/ dir'[d] \in {Absent, dir[d]}
                          \/ d = Other(link) /\ dir'[d] = dir["venv_old"]
                          \/ d = "venv_failed" /\ dir'[d] = dir[link]
      BY <1>16, <2>1 DEF RbMvOld, RbMvFailed, RbStep
    <2>3. RootInv'
      BY <2>1, <2>2 DEF KeptInv, RootInv
    <2>4. PythonsKept'
      BY <2>1, <2>2 DEF KeptInv, PythonsKept, UsesOwn
    <2> QED BY <2>3, <2>4 DEF KeptInv
  <1>17. CASE PointPython
    <2>1. PICK d \in RootVenvs : dir' = [dir EXCEPT ![d] = [dir[d] EXCEPT !.own = TRUE]]
      BY <1>17 DEF PointPython
    <2> DEFINE e == [dir[d] EXCEPT !.own = TRUE]
    <2>2. d \in Dirs /\ dir[d] \in Env /\ dir[d] # Absent /\ ~dir[d].own /\ e \in Env
      BY EnvEdits DEF RootVenvs
    <2>3. e.py = dir[d].py /\ e.own
      BY <2>2 DEF Env
    <2>4. Golden.py \in pythons /\ pythons' = pythons
      BY <1>17, <2>2 DEF PointPython, NeedsCopy, RootVenvs
    <2>5. e.py \in pythons
      BY <2>2, <2>3, <2>4 DEF KeptInv, RootInv
    <2>6. dir' = [dir EXCEPT ![d] = e]
      BY <2>1
    <2> HIDE DEF e
    <2> QED BY <2>2, <2>3, <2>4, <2>5, <2>6, OneMoreKeepsPythons
  <1>18. CASE UNCHANGED vars
    BY <1>1, <1>18 DEF vars
  <1>19. CASE AdminStep \/ MarkGood \/ TrialOver \/ PowerCut
              \/ CoreKilled \/ KilledAtStart \/ OsTrial \/ SiteCommitLost
    BY <1>1, <1>19 DEF AdminStep, StartUpdate, StartRebuild, StartModules, StartJob, RequestRestart,
       MarkGood, TrialOver, PowerCut, CoreKilled, KilledAtStart, OsTrial, SiteCommitLost, storage
  <1>20. CASE PrepareLink \/ InstallFails \/ Revert \/ SitePrepare \/ SitePrepareFails
              \/ SiteBuild \/ SiteBuildFails \/ SiteCommit
    BY <1>1, <1>20 DEF PrepareLink, InstallFails, Revert, SitePrepare, SitePrepareFails,
       SiteBuild, SiteBuildFails, SiteCommit, storage
  <1>21. CASE HydrateLink \/ Hydrated \/ Launch \/ CrashesAtStart \/ HandleCrash \/ RbSite \/ RbLink
    BY <1>1, <1>21 DEF HydrateLink, Hydrated, Launch, CrashesAtStart, HandleCrash, RbSite, RbLink, storage
  <1>22. CASE MovePython \/ MoveFails \/ CopyFails
    BY <1>1, <1>22 DEF MovePython, MoveFails, CopyFails, HydratePython
  <1>23. CASE NamePython
    <2>1. RootInv'
      BY <1>23 DEF NamePython, KeptInv, RootInv
    <2>2. \A d \in Slots \cup {"venv_old"} : UsesOwn(d) => dir[d].py # Unnamed
      <3>1. \A d \in Slots \cup {"venv_old"} : UsesOwn(d) => dir[d] \in Env
        BY DEF UsesOwn
      <3>2. \A p \in Py : p # Unnamed
        BY DEF Py, Unnamed
      <3> QED BY <3>1, <3>2, EnvEdits
    <2>3. PythonsKept'
      BY <1>23, <2>2 DEF NamePython, KeptInv, PythonsKept, UsesOwn
    <2> QED BY <2>1, <2>3 DEF KeptInv
  <1> QED
    BY <1>2, <1>3, <1>4, <1>5, <1>6, <1>7, <1>8, <1>9, <1>10, <1>11, <1>12, <1>13, <1>14,
       <1>15, <1>16, <1>17, <1>18, <1>19, <1>20, <1>21, <1>22, <1>23
       DEF Next, JobStep, BootStep, InterruptionStep

(* A used mirror has its Python. *)
LEMMA InitPythonsKept == Init => KeptInv
  <1> SUFFICES ASSUME Init PROVE KeptInv
    OBVIOUS
  <1>1. \A d \in Dirs : dir[d] # Absent => dir[d] = [Golden EXCEPT !.own = TRUE]
    BY DEF Init
  <1>2. [Golden EXCEPT !.own = TRUE].own /\ [Golden EXCEPT !.own = TRUE].py = 1
    BY DEF Golden
  <1>3. pythons = {1}
    BY DEF Init
  <1>4. RootInv
    BY <1>1, <1>2 DEF RootInv
  <1>5. PythonsKept
    BY <1>1, <1>2, <1>3, ConstantTypes DEF PythonsKept, UsesOwn
  <1> QED BY <1>4, <1>5 DEF KeptInv

(* Whatever is interrupted, remove_unused_pythons never takes the Python of an environment
   the launcher may still start: the active one, the next one or the fallback (venv.py); one
   that still uses the root's needs none of them (mirrordash-hydrate.sh). *)
THEOREM PythonsAlwaysKept == Spec => []PythonsKept
  <1>1. KeptInv => PythonsKept
    BY DEF KeptInv
  <1> QED
    BY <1>1, SpecIInv, InitPythonsKept, NextPythonsKept, PTL DEF Spec

-----------------------------------------------------------------------------
(* What launch.sh is starting is what the link names, and a start that broke is that
   version's own doing, or the new root's. *)
StartInv ==
  /\ boot = "starting" /\ (dir[link] # Absent) => run = dir[link] /\ status = "normal"
  /\ boot = "crashed" => ~dir[link].starts \/ os = "trial_broken"

(* Each step keeps what a start is known by. *)
LEMMA NextStartInv == IInv /\ PythonsKept /\ StartInv /\ [Next]_vars => StartInv'
  <1> SUFFICES ASSUME IInv, PythonsKept, StartInv, [Next]_vars PROVE StartInv'
    OBVIOUS
  <1> USE DEF IInv, TypeOK
  <1>1. CASE Launch
    BY <1>1 DEF Launch, LinkResolves, LinkInv, StartInv, storage
  <1>2. CASE CrashesAtStart \/ KilledAtStart
    BY <1>2 DEF CrashesAtStart, KilledAtStart, Starts, SafeMode, LinkInv, StartInv, PythonsKept, UsesOwn, storage
  <1>3. CASE JobStep \/ Restart \/ SiteCommitLost \/ CommitOldFails
    <2>1. boot = "up" /\ boot' \in {"up", "launch"}
      BY <1>3 DEF JobStep, Restart, SiteCommitLost, CommitOldFails, InstallPython, PrepareWipe,
         PrepareCreate, PrepareLink, InstallCore, InstallFails, CommitOld, CommitRename,
         CommitPythons, Revert, RevertRemove, SitePrepare, SitePrepareFails, SiteBuild,
         SiteBuildFails, SiteCommit, InPhase, Up
    <2> QED BY <2>1 DEF StartInv
  <1>4. CASE AdminStep \/ MarkGood \/ TrialOver \/ PowerCut \/ CoreKilled \/ OsTrial
    <2>1. boot' \in {"up", "launch", "hydrate"}
      BY <1>4 DEF AdminStep, StartUpdate, StartRebuild, StartModules, StartJob, RequestRestart,
         MarkGood, TrialOver, PowerCut, CoreKilled, OsTrial, Up
    <2> QED BY <2>1 DEF StartInv
  <1>5. CASE Hydrate \/ HydrateLink \/ MovePython \/ MoveFails \/ CopyFails \/ NamePython \/ PointPython \/ Hydrated
             \/ ComesUp \/ HandleCrash
    <2>1. boot' \in {"launch", "hydrate_link", "hydrate_python", "hydrate_name", "stuck", "up", "rb_site", "exec"}
      BY <1>5 DEF Hydrate, HydrateLink, MovePython, MoveFails, CopyFails, HydratePython, NamePython, PointPython,
         Hydrated, ComesUp, HandleCrash
    <2> QED BY <2>1 DEF StartInv
  <1>6. CASE RbSite \/ RbFailed \/ RbOld \/ RbMvOld \/ RbMvFailed \/ RbLink
    <2>1. boot' \in {"rb_failed", "rb_old", "rb_mv_old", "rb_mv_failed", "rb_link", "exec"}
      BY <1>6 DEF RbSite, RbFailed, RbOld, RbMvOld, RbMvFailed, RbLink, RbStep
    <2> QED BY <2>1 DEF StartInv
  <1>7. CASE UNCHANGED vars
    BY <1>7 DEF vars, StartInv
  <1> QED
    BY <1>1, <1>2, <1>3, <1>4, <1>5, <1>6, <1>7 DEF Next, BootStep, InterruptionStep

(* Nothing is started at first. *)
LEMMA InitStartInv == Init => StartInv
BY DEF Init, StartInv

(* In every behaviour StartInv holds. *)
LEMMA SpecStartInv == Spec => []StartInv
BY SpecIInv, PythonsAlwaysKept, InitStartInv, NextStartInv, PTL DEF Spec

(* A step that begins a rollback begins it of a version that doesn't start. *)
LEMMA StepKeepsGoodVersion ==
  IInv /\ StartInv /\ [Next]_vars
    => [boot = "crashed" /\ boot' = "rb_site" => ~dir[link].starts]_vars
  <1> SUFFICES ASSUME StartInv, Next, boot = "crashed", boot' = "rb_site" PROVE ~dir[link].starts
    OBVIOUS
  <1>1. HandleCrash
    BY DEF Next, JobStep, BootStep, AdminStep, InterruptionStep, InstallPython, PrepareWipe,
       PrepareCreate, PrepareLink, InstallCore, InstallFails, CommitOld, CommitRename,
       CommitPythons, Revert, RevertRemove, SitePrepare, SitePrepareFails, SiteBuild,
       SiteBuildFails, SiteCommit, InPhase, Up, Hydrate, HydrateLink, MovePython, MoveFails, CopyFails,
       HydratePython, NamePython, PointPython, Hydrated, KilledAtStart, Launch, ComesUp,
       CrashesAtStart, RbSite, RbFailed, RbOld, RbMvOld, RbMvFailed, RbLink, RbStep, Restart,
       StartUpdate, StartRebuild, StartModules, StartJob, RequestRestart, CoreKilled, PowerCut, KilledAtStart, CopyFails,
       SiteCommitLost, CommitOldFails, OsTrial, MarkGood, TrialOver
  <1>2. os # "trial_broken"
    BY <1>1 DEF HandleCrash, RollBack, LeaveToTrial, OnTrial
  <1> QED
    BY <1>2 DEF StartInv

(* A start that fails by itself rolls back only a version that doesn't start: a crash the new
   root causes on its trial boot, and a Python that was cleaned away, never downgrade it
   (launch.sh). Of a start that is killed nothing is said: that one does. *)
THEOREM GoodVersionAlwaysKept == Spec => GoodVersionKept
  <1> QED
    BY SpecStartInv, SpecIInv, StepKeepsGoodVersion, PTL DEF Spec, GoodVersionKept

-----------------------------------------------------------------------------
(* A change is one step, seen from the next start: AppEnv implements AtomicSwap. The
   inductive invariant FitInv says, in each phase of a job and of a rollback, which
   environment and which modules' site belong together and that the way back is whole. It
   holds where nothing but the trial of a new root interrupts: a cut or a killed core in
   the middle of a job leaves the link on an environment that may not be finished, and what
   the launcher then makes of it is the theorems' above, not this promise's. *)

\* A finished environment the app ran from, and runs from again.
Sound(e) == e.whole /\ e.ran /\ e.starts

CommitPhases == {"commit_old", "commit_rename", "commit_pythons"}

\* The fallback is there, and the modules it runs with.
CanGoBack ==
  /\ dir["venv_old"] # Absent
  /\ \/ dir["venv_old"].py = dir[link].py
     \/ /\ OtherSite(siteLink) \in siteDirs
        /\ site[OtherSite(siteLink)] = {dir["venv_old"].py}

\* No Safe mode, no restart into a job, and a fallback that is sound.
CalmInv ==
  /\ status # "safe_mode" /\ boot \notin {"hydrate_link", "felled"}
  /\ boot = "rb_site" \/ RollingBack => os = "kept"
  /\ restartDue => boot = "up" /\ job.phase = "none"
  /\ jobState = "running" <=> job.phase # "none"
  /\ ~job.late
  /\ siteLink \in siteDirs
  /\ (dir["venv_old"] # Absent) => Sound(dir["venv_old"])

\* Between jobs: the link names a finished environment, the site is its own, and one that
\* never ran has a fallback.
RestsInv ==
  job.phase = "none" /\ ~RollingBack =>
    /\ dir[link] # Absent /\ dir[link].whole /\ (dir[link].ran => dir[link].starts)
    /\ site[siteLink] = {dir[link].py}
    /\ ~dir[link].ran => CanGoBack
    /\ boot = "exec" \/ (boot = "up" /\ ~restartDue) => run = dir[link] /\ dir[link].ran

\* During a job: the environment the app runs from is still there, with the site for it.
OldDir == IF job.phase = "commit_pythons" THEN "venv_old" ELSE job.active

SwapsInv ==
  job.phase # "none" =>
    /\ dir[OldDir] # Absent /\ Sound(dir[OldDir]) /\ run = dir[OldDir]
    /\ job.kind \in {"update", "rebuild"} =>
         /\ job.phase \notin {"python", "site_prepare", "site_build", "site_commit"}
         /\ job.py = dir[OldDir].py
    /\ job.kind = "modules" => link = job.active
    /\ job.phase = "commit_pythons" => link = Next_
    /\ job.kind = "python" => job.py # dir[OldDir].py
    /\ IF job.kind = "python" /\ job.phase \in CommitPhases
       THEN /\ site[siteLink] = {job.py}
            /\ NextSite \in siteDirs /\ site[NextSite] = {dir[OldDir].py}
       ELSE site[siteLink] = {dir[OldDir].py}
    /\ job.kind # "modules"
       /\ job.phase \in {"link", "site_prepare", "install", "site_build", "site_commit"} \cup CommitPhases
         => dir[Next_] # Absent /\ dir[Next_].py = job.py
    /\ job.kind # "modules" /\ job.phase \in {"site_build", "site_commit"} \cup CommitPhases
         => dir[Next_].whole /\ ~dir[Next_].ran
    /\ job.kind = "python" /\ job.phase \in {"install", "site_build"} => site[NextSite] = {}
    /\ job.kind = "modules" /\ job.phase \in {"site_build", "site_commit"}
         => site[NextSite] = {dir[OldDir].py}
    /\ job.kind = "python" /\ job.phase = "site_commit" => site[NextSite] = {job.py}
    /\ job.phase \in {"site_build", "site_commit"} => NextSite \in siteDirs
    /\ job.kind = "python" /\ job.phase = "install" => NextSite \in siteDirs

\* During a rollback: the environment it goes back to, and the site for it.
RollsInv ==
  /\ boot = "rb_site" => ~dir[link].starts /\ dir["venv_old"] # Absent
  /\ boot \in {"rb_failed", "rb_old", "rb_mv_old"} =>
       dir["venv_old"] # Absent /\ site[siteLink] = {dir["venv_old"].py}
  /\ boot \in {"rb_mv_failed", "rb_link"} =>
       /\ dir[Other(link)] # Absent /\ Sound(dir[Other(link)])
       /\ site[siteLink] = {dir[Other(link)].py} /\ dir["venv_old"] = Absent

FitInv == CalmInv /\ RestsInv /\ SwapsInv /\ RollsInv

(* There are two sites, each the other of the other, and no job is of any kind. *)
LEMMA Turns ==
  /\ \A s \in Sites : OtherSite(s) \in Sites /\ OtherSite(s) # s /\ OtherSite(OtherSite(s)) = s
  /\ NoJob.phase = "none" /\ NoJob.kind = "none" /\ ~NoJob.late /\ NoJob.active \in Slots
BY DEF Sites, OtherSite, NoJob, Slots

(* A newer Python is another one. *)
LEMMA NewerIsOther == \A p, q \in Py : p > q => p # q
BY DEF Py

(* A job that goes on stays the same job. *)
LEMMA JobGoesOn == ASSUME job \in Job, NEW ph \in JobPhases, Goto(ph)
  PROVE  /\ job' \in Job /\ job'.phase = ph /\ job'.kind = job.kind /\ job'.active = job.active
         /\ job'.py = job.py /\ job'.late = job.late /\ job'.ver = job.ver
BY DEF Goto, Job

(* On first start the golden version runs, with nothing to go back to and no job. *)
LEMMA InitFit == Init => FitInv
  <1> SUFFICES ASSUME Init PROVE FitInv
    OBVIOUS
  <1> USE ConstantTypes, Turns
  <1>1. /\ dir["venv_a"] = [Golden EXCEPT !.own = TRUE] /\ dir["venv_old"] = Absent
        /\ [Golden EXCEPT !.own = TRUE] # Absent
    <2>1. [Golden EXCEPT !.own = TRUE] \in Env
      BY EnvEdits
    <2> QED BY <2>1 DEF Init
  <1>2. /\ dir["venv_a"].whole /\ dir["venv_a"].ran /\ dir["venv_a"].starts
        /\ site["site_a"] = {dir["venv_a"].py}
    BY <1>1 DEF Init, Golden, Sites
  <1>3. CalmInv
    BY <1>1 DEF Init, CalmInv, RollingBack
  <1>4. RestsInv
    BY <1>1, <1>2 DEF Init, RestsInv
  <1>5. SwapsInv /\ RollsInv
    BY DEF Init, SwapsInv, RollsInv
  <1> QED BY <1>3, <1>4, <1>5 DEF FitInv

(* Each step keeps the pairs fitting, if nothing but the trial of a new root interrupts a change. *)
LEMMA NextFit ==
  ASSUME Interruptions \subseteq {"trial"}, IInv, IInv', PythonsKept, StartInv, FitInv, Next
  PROVE  FitInv'
  <1> USE ConstantTypes, Turns DEF IInv, TypeOK, FitInv, InPhase, Up, Goto, Failed, Done, storage, app, JobInv,
      LinkInv,
                       SwapInv, RollingBack, CanGoBack, Sound, OldDir, CommitPhases, Next_, NextSite, CalmInv,
                       RestsInv, SwapsInv, RollsInv
  <1>1. ASSUME InstallPython PROVE FitInv'
    <2>1. \/ job'.phase = "wipe" /\ job'.kind = job.kind /\ job'.active = job.active /\ job'.py = job.py
             /\ ~job'.late /\ jobState' = jobState
          \/ job' = NoJob /\ jobState' # "running"
      BY <1>1, JobGoesOn, JobFields DEF InstallPython, JobPhases
    <2>2. CalmInv'
      BY <1>1, <2>1, JobFields DEF InstallPython
    <2>3. RestsInv'
      BY <1>1, <2>1, JobFields DEF InstallPython
    <2>4. SwapsInv'
      BY <1>1, <2>1, JobFields DEF InstallPython
    <2>5. RollsInv'
      BY <1>1, <2>1, JobFields DEF InstallPython
    <2> QED BY <2>2, <2>3, <2>4, <2>5
  <1>2. ASSUME PrepareWipe PROVE FitInv'
    <2>1. \/ job'.phase = "create" /\ job'.kind = job.kind /\ job'.active = job.active /\ job'.py = job.py
             /\ ~job'.late /\ jobState' = jobState
          \/ job' = NoJob /\ jobState' # "running"
      BY <1>2, JobGoesOn, JobFields DEF PrepareWipe, JobPhases
    <2>2. \A d \in Dirs : d # Other(job.active) => dir'[d] = dir[d]
      BY <1>2 DEF PrepareWipe
    <2>3. CalmInv'
      BY <1>2, <2>1, <2>2, JobFields DEF PrepareWipe
    <2>4. RestsInv'
      BY <1>2, <2>1, <2>2, JobFields DEF PrepareWipe
    <2>5. SwapsInv'
      BY <1>2, <2>1, <2>2, JobFields DEF PrepareWipe
    <2>6. RollsInv'
      BY <1>2, <2>1, <2>2, JobFields DEF PrepareWipe
    <2> QED BY <2>3, <2>4, <2>5, <2>6
  <1>3. ASSUME PrepareCreate PROVE FitInv'
    <2>1. \/ job'.phase = "link" /\ job'.kind = job.kind /\ job'.active = job.active /\ job'.py = job.py
             /\ ~job'.late /\ jobState' = jobState
          \/ job' = NoJob /\ jobState' # "running"
      BY <1>3, JobGoesOn, JobFields DEF PrepareCreate, JobPhases
    <2>2. /\ dir'[Other(job.active)] # Absent /\ dir'[Other(job.active)].py = job.py
          /\ \A d \in Dirs : d # Other(job.active) => dir'[d] = dir[d]
      <3>1. PICK e \in Unfinished : dir' = [dir EXCEPT ![Other(job.active)] = e]
        BY <1>3 DEF PrepareCreate
      <3>2. e \in Env /\ (Copies => dir[job.active].py = job.py)
        BY <1>3, <3>1, UnfinishedEnv DEF Copies, PrepareCreate
      <3>3. e.py = job.py
        BY <3>1, <3>2, UnfinishedPy
      <3> QED BY <3>1, <3>2, <3>3, JobFields
    <2>3. CalmInv'
      BY <1>3, <2>1, <2>2, JobFields DEF PrepareCreate
    <2>4. RestsInv'
      BY <1>3, <2>1, <2>2, JobFields DEF PrepareCreate
    <2>5. SwapsInv'
      BY <1>3, <2>1, <2>2, JobFields DEF PrepareCreate
    <2>6. RollsInv'
      BY <1>3, <2>1, <2>2, JobFields DEF PrepareCreate
    <2> QED BY <2>3, <2>4, <2>5, <2>6
  <1>4. ASSUME PrepareLink PROVE FitInv'
    <2>1. /\ job'.phase = IF job.kind = "python" THEN "site_prepare" ELSE "install"
          /\ job'.kind = job.kind /\ job'.active = job.active /\ job'.py = job.py /\ ~job'.late
      BY <1>4, JobGoesOn DEF PrepareLink, JobPhases
    <2>2. CalmInv'
      BY <1>4, <2>1, JobFields DEF PrepareLink
    <2>3. RestsInv'
      BY <1>4, <2>1, JobFields DEF PrepareLink
    <2>4. SwapsInv'
      BY <1>4, <2>1, JobFields DEF PrepareLink
    <2>5. RollsInv'
      BY <1>4, <2>1, JobFields DEF PrepareLink
    <2> QED BY <2>2, <2>3, <2>4, <2>5
  <1>5. ASSUME InstallCore PROVE FitInv'
    <2>1. /\ job'.phase = IF job.kind = "python" THEN "site_build" ELSE "commit_old"
          /\ job'.kind = job.kind /\ job'.active = job.active /\ job'.py = job.py /\ ~job'.late
      BY <1>5, JobGoesOn DEF InstallCore, JobPhases
    <2>2. /\ dir'[Other(job.active)] # Absent /\ dir'[Other(job.active)].py = job.py
          /\ dir'[Other(job.active)].whole /\ ~dir'[Other(job.active)].ran
          /\ \A d \in Dirs : d # Other(job.active) => dir'[d] = dir[d]
      <3>1. job.kind # "modules" /\ job.active \in Slots
        BY <1>5, JobFields DEF InstallCore
      <3>2. dir[Other(job.active)] \in Env /\ dir[Other(job.active)].py = job.py
        BY <1>5, <3>1, JobFields DEF InstallCore
      <3>3. PICK e \in Installed(dir[Other(job.active)]) : dir' = [dir EXCEPT ![Other(job.active)] = e]
        BY <1>5 DEF InstallCore
      <3>4. e \in Env
        BY <1>5, <3>2, <3>3, EnvEdits DEF InstallCore, CanInstall
      <3>5. e.py = job.py /\ e.whole /\ ~e.ran
        BY <3>2, <3>3 DEF Installed
      <3> QED BY <3>1, <3>3, <3>4, <3>5
    <2>3. CalmInv'
      BY <1>5, <2>1, <2>2, JobFields DEF InstallCore
    <2>4. RestsInv'
      BY <1>5, <2>1, <2>2, JobFields DEF InstallCore
    <2>5. SwapsInv'
      BY <1>5, <2>1, <2>2, JobFields DEF InstallCore
    <2>6. RollsInv'
      BY <1>5, <2>1, <2>2, JobFields DEF InstallCore
    <2> QED BY <2>3, <2>4, <2>5, <2>6
  <1>6. ASSUME InstallFails PROVE FitInv'
    <2>1. job'.phase = "revert" /\ job'.kind = job.kind /\ job'.active = job.active /\ job'.py = job.py /\ ~job'.late
      BY <1>6, JobGoesOn, JobFields DEF InstallFails, JobPhases
    <2>2. CalmInv'
      BY <1>6, <2>1, JobFields DEF InstallFails
    <2>3. RestsInv'
      BY <1>6, <2>1, JobFields DEF InstallFails
    <2>4. SwapsInv'
      BY <1>6, <2>1, JobFields DEF InstallFails
    <2>5. RollsInv'
      BY <1>6, <2>1, JobFields DEF InstallFails
    <2> QED BY <2>2, <2>3, <2>4, <2>5
  <1>7. ASSUME CommitOld PROVE FitInv'
    <2>1. job'.phase = "commit_rename" /\ job'.kind = job.kind /\ job'.active = job.active /\ job'.py = job.py
          /\ ~job'.late
      BY <1>7, JobGoesOn, JobFields DEF CommitOld, JobPhases
    <2>2. dir'["venv_old"] = Absent /\ \A d \in Dirs : d # "venv_old" => dir'[d] = dir[d]
      BY <1>7 DEF CommitOld
    <2>3. CalmInv'
      BY <1>7, <2>1, <2>2, JobFields DEF CommitOld
    <2>4. RestsInv'
      BY <1>7, <2>1, <2>2, JobFields DEF CommitOld
    <2>5. SwapsInv'
      BY <1>7, <2>1, <2>2, JobFields DEF CommitOld
    <2>6. RollsInv'
      BY <1>7, <2>1, <2>2, JobFields DEF CommitOld
    <2> QED BY <2>3, <2>4, <2>5, <2>6
  <1>8. ASSUME CommitRename PROVE FitInv'
    <2>1. job'.phase = "commit_pythons" /\ job'.kind = job.kind /\ job'.active = job.active
          /\ job'.py = job.py /\ ~job'.late
      BY <1>8, JobGoesOn, JobFields DEF CommitRename, JobPhases
    <2>2. /\ dir'["venv_old"] = dir[job.active] /\ dir[job.active] # Absent
          /\ dir'[Other(job.active)] = dir[Other(job.active)]
      BY <1>8, JobFields DEF CommitRename, KeptAsOld
    <2>3. CalmInv'
      BY <1>8, <2>1, <2>2, JobFields DEF CommitRename
    <2>4. RestsInv'
      BY <1>8, <2>1, <2>2, JobFields DEF CommitRename
    <2>5. SwapsInv'
      BY <1>8, <2>1, <2>2, JobFields DEF CommitRename
    <2>6. RollsInv'
      BY <1>8, <2>1, <2>2, JobFields DEF CommitRename
    <2> QED BY <2>3, <2>4, <2>5, <2>6
  <1>9. ASSUME CommitPythons PROVE FitInv'
    <2>1. job' = NoJob
      BY <1>9, JobGoesOn, JobFields DEF CommitPythons, JobPhases
    <2>2. CalmInv'
      BY <1>9, <2>1, JobFields DEF CommitPythons, JobKinds, AllKinds
    <2>3. RestsInv'
      BY <1>9, <2>1, JobFields DEF CommitPythons, JobKinds, AllKinds
    <2>4. SwapsInv'
      BY <1>9, <2>1, JobFields DEF CommitPythons, JobKinds, AllKinds
    <2>5. RollsInv'
      BY <1>9, <2>1, JobFields DEF CommitPythons, JobKinds, AllKinds
    <2> QED BY <2>2, <2>3, <2>4, <2>5
  <1>10. ASSUME Revert PROVE FitInv'
    <2>1. job'.phase = "revert_rm" /\ job'.kind = job.kind /\ job'.active = job.active /\ job'.py = job.py
          /\ ~job'.late
      BY <1>10, JobGoesOn, JobFields DEF Revert, JobPhases
    <2>2. CalmInv'
      BY <1>10, <2>1, JobFields DEF Revert, RevertTarget
    <2>3. RestsInv'
      BY <1>10, <2>1, JobFields DEF Revert, RevertTarget
    <2>4. SwapsInv'
      BY <1>10, <2>1, JobFields DEF Revert, RevertTarget
    <2>5. RollsInv'
      BY <1>10, <2>1, JobFields DEF Revert, RevertTarget
    <2> QED BY <2>2, <2>3, <2>4, <2>5
  <1>11. ASSUME RevertRemove PROVE FitInv'
    <2>1. job' = NoJob
      BY <1>11, JobGoesOn, JobFields DEF RevertRemove, JobPhases
    <2>2. \A d \in Dirs : d # Other(job.active) => dir'[d] = dir[d]
      BY <1>11 DEF RevertRemove
    <2>3. CalmInv'
      BY <1>11, <2>1, <2>2, JobFields DEF RevertRemove
    <2>4. RestsInv'
      BY <1>11, <2>1, <2>2, JobFields DEF RevertRemove
    <2>5. SwapsInv'
      BY <1>11, <2>1, <2>2, JobFields DEF RevertRemove
    <2>6. RollsInv'
      BY <1>11, <2>1, <2>2, JobFields DEF RevertRemove
    <2> QED BY <2>3, <2>4, <2>5, <2>6
  <1>12. ASSUME SitePrepare PROVE FitInv'
    <2>1. /\ job'.phase = IF job.kind = "python" THEN "install" ELSE "site_build"
          /\ job'.kind = job.kind /\ job'.active = job.active /\ job'.py = job.py /\ ~job'.late
      BY <1>12, JobGoesOn DEF SitePrepare, JobPhases
    <2>2. /\ site'[OtherSite(siteLink)] = IF job.kind = "python" THEN {} ELSE site[siteLink]
          /\ site'[siteLink] = site[siteLink]
      BY <1>12, Turns DEF SitePrepare
    <2>3. CalmInv'
      BY <1>12, <2>1, <2>2, JobFields DEF SitePrepare, JobKinds, AllKinds
    <2>4. RestsInv'
      BY <1>12, <2>1, <2>2, JobFields DEF SitePrepare, JobKinds, AllKinds
    <2>5. SwapsInv'
      BY <1>12, <2>1, <2>2, JobFields DEF SitePrepare, JobKinds, AllKinds
    <2>6. RollsInv'
      BY <1>12, <2>1, <2>2, JobFields DEF SitePrepare, JobKinds, AllKinds
    <2> QED BY <2>3, <2>4, <2>5, <2>6
  <1>13. ASSUME SitePrepareFails PROVE FitInv'
    <2>1. IF job.kind = "python"
          THEN /\ job'.phase = "revert" /\ job'.kind = job.kind /\ job'.active = job.active
               /\ job'.py = job.py /\ ~job'.late
          ELSE job' = NoJob
      BY <1>13, JobGoesOn DEF SitePrepareFails, JobPhases
    <2>2. CalmInv'
      BY <1>13, <2>1, JobFields DEF SitePrepareFails, JobKinds, AllKinds
    <2>3. RestsInv'
      BY <1>13, <2>1, JobFields DEF SitePrepareFails, JobKinds, AllKinds
    <2>4. SwapsInv'
      BY <1>13, <2>1, JobFields DEF SitePrepareFails, JobKinds, AllKinds
    <2>5. RollsInv'
      BY <1>13, <2>1, JobFields DEF SitePrepareFails, JobKinds, AllKinds
    <2> QED BY <2>2, <2>3, <2>4, <2>5
  <1>14. ASSUME SiteBuild PROVE FitInv'
    <2>1. job'.phase = "site_commit" /\ job'.kind = job.kind /\ job'.active = job.active /\ job'.py = job.py
          /\ ~job'.late
      BY <1>14, JobGoesOn, JobFields DEF SiteBuild, JobPhases
    <2>2. /\ site'[OtherSite(siteLink)] = site[OtherSite(siteLink)] \cup {dir[link].py}
          /\ site'[siteLink] = site[siteLink]
      BY <1>14, Turns DEF SiteBuild
    <2>3. CalmInv'
      BY <1>14, <2>1, <2>2, JobFields DEF SiteBuild
    <2>4. RestsInv'
      BY <1>14, <2>1, <2>2, JobFields DEF SiteBuild
    <2>5. SwapsInv'
      BY <1>14, <2>1, <2>2, JobFields DEF SiteBuild
    <2>6. RollsInv'
      BY <1>14, <2>1, <2>2, JobFields DEF SiteBuild
    <2> QED BY <2>3, <2>4, <2>5, <2>6
  <1>15. ASSUME SiteBuildFails PROVE FitInv'
    <2>1. IF job.kind = "python"
          THEN /\ job'.phase = "revert" /\ job'.kind = job.kind /\ job'.active = job.active
               /\ job'.py = job.py /\ ~job'.late
          ELSE job' = NoJob
      BY <1>15, JobGoesOn DEF SiteBuildFails, JobPhases
    <2>2. site'[siteLink] = site[siteLink]
      BY <1>15, Turns DEF SiteBuildFails
    <2>3. CalmInv'
      BY <1>15, <2>1, <2>2, JobFields DEF SiteBuildFails, JobKinds, AllKinds
    <2>4. RestsInv'
      BY <1>15, <2>1, <2>2, JobFields DEF SiteBuildFails, JobKinds, AllKinds
    <2>5. SwapsInv'
      BY <1>15, <2>1, <2>2, JobFields DEF SiteBuildFails, JobKinds, AllKinds
    <2>6. RollsInv'
      BY <1>15, <2>1, <2>2, JobFields DEF SiteBuildFails, JobKinds, AllKinds
    <2> QED BY <2>3, <2>4, <2>5, <2>6
  <1>16. ASSUME SiteCommit PROVE FitInv'
    <2>1. IF job.kind = "python"
          THEN /\ job'.phase = "commit_old" /\ job'.kind = job.kind /\ job'.active = job.active
               /\ job'.py = job.py /\ ~job'.late
          ELSE job' = NoJob
      BY <1>16, JobGoesOn DEF SiteCommit, JobPhases
    <2>2. CalmInv'
      BY <1>16, <2>1, JobFields DEF SiteCommit, JobKinds, AllKinds
    <2>3. RestsInv'
      BY <1>16, <2>1, JobFields DEF SiteCommit, JobKinds, AllKinds
    <2>4. SwapsInv'
      BY <1>16, <2>1, JobFields DEF SiteCommit, JobKinds, AllKinds
    <2>5. RollsInv'
      BY <1>16, <2>1, JobFields DEF SiteCommit, JobKinds, AllKinds
    <2> QED BY <2>2, <2>3, <2>4, <2>5
  <1>17. ASSUME SiteCommitLost \/ CommitOldFails \/ CoreKilled \/ PowerCut \/ KilledAtStart \/ CopyFails
         PROVE  FitInv'
    <2>1. CalmInv'
      BY <1>17, JobFields DEF Interrupt, SiteCommitLost, CommitOldFails, CoreKilled, PowerCut, KilledAtStart, CopyFails
    <2>2. RestsInv'
      BY <1>17, JobFields DEF Interrupt, SiteCommitLost, CommitOldFails, CoreKilled, PowerCut, KilledAtStart, CopyFails
    <2>3. SwapsInv'
      BY <1>17, JobFields DEF Interrupt, SiteCommitLost, CommitOldFails, CoreKilled, PowerCut, KilledAtStart, CopyFails
    <2>4. RollsInv'
      BY <1>17, JobFields DEF Interrupt, SiteCommitLost, CommitOldFails, CoreKilled, PowerCut, KilledAtStart, CopyFails
    <2> QED BY <2>1, <2>2, <2>3, <2>4
  <1>18. ASSUME OsTrial PROVE FitInv'
    <2>1. job' = NoJob
      BY <1>18 DEF OsTrial, CoreGone
    <2>2. CalmInv'
      BY <1>18, <2>1, JobFields DEF OsTrial, JobSlotFree, CoreGone, Interrupt
    <2>3. RestsInv'
      BY <1>18, <2>1, JobFields DEF OsTrial, JobSlotFree, CoreGone, Interrupt
    <2>4. SwapsInv'
      BY <1>18, <2>1, JobFields DEF OsTrial, JobSlotFree, CoreGone, Interrupt
    <2>5. RollsInv'
      BY <1>18, <2>1, JobFields DEF OsTrial, JobSlotFree, CoreGone, Interrupt
    <2> QED BY <2>2, <2>3, <2>4, <2>5
  <1>19. ASSUME Restart PROVE FitInv'
    <2>1. job' = NoJob /\ job.phase = "none"
      BY <1>19 DEF Restart, CoreGone
    <2>2. CalmInv'
      BY <1>19, <2>1, JobFields DEF Restart, CoreGone, SwapOpen
    <2>3. RestsInv'
      BY <1>19, <2>1, JobFields DEF Restart, CoreGone, SwapOpen
    <2>4. SwapsInv'
      BY <1>19, <2>1, JobFields DEF Restart, CoreGone, SwapOpen
    <2>5. RollsInv'
      BY <1>19, <2>1, JobFields DEF Restart, CoreGone, SwapOpen
    <2> QED BY <2>2, <2>3, <2>4, <2>5
  <1>20. ASSUME MarkGood PROVE FitInv'
    <2>1. CalmInv'
      BY <1>20, JobFields DEF MarkGood
    <2>2. RestsInv'
      BY <1>20, JobFields DEF MarkGood
    <2>3. SwapsInv'
      BY <1>20, JobFields DEF MarkGood
    <2>4. RollsInv'
      BY <1>20, JobFields DEF MarkGood
    <2> QED BY <2>1, <2>2, <2>3, <2>4
  <1>21. ASSUME TrialOver PROVE FitInv'
    <2>1. job' = NoJob /\ job.phase = "none" /\ ~RollingBack /\ boot # "rb_site"
      BY <1>21 DEF TrialOver, OnTrial, CoreGone
    <2>2. CalmInv'
      BY <1>21, <2>1, JobFields DEF TrialOver, OnTrial, CoreGone
    <2>3. RestsInv'
      BY <1>21, <2>1, JobFields DEF TrialOver, OnTrial, CoreGone
    <2>4. SwapsInv'
      BY <1>21, <2>1, JobFields DEF TrialOver, OnTrial, CoreGone
    <2>5. RollsInv'
      BY <1>21, <2>1, JobFields DEF TrialOver, OnTrial, CoreGone
    <2> QED BY <2>2, <2>3, <2>4, <2>5
  <1>22. ASSUME Hydrate PROVE FitInv'
    <2>1. CalmInv'
      BY <1>22, JobFields DEF Hydrate, NothingToSeed, LinkResolves
    <2>2. RestsInv'
      BY <1>22, JobFields DEF Hydrate, NothingToSeed, LinkResolves
    <2>3. SwapsInv'
      BY <1>22, JobFields DEF Hydrate, NothingToSeed, LinkResolves
    <2>4. RollsInv'
      BY <1>22, JobFields DEF Hydrate, NothingToSeed, LinkResolves
    <2> QED BY <2>1, <2>2, <2>3, <2>4
  <1>23. ASSUME HydrateLink PROVE FitInv'
    <2>1. CalmInv'
      BY <1>23, JobFields DEF HydrateLink
    <2>2. RestsInv'
      BY <1>23, JobFields DEF HydrateLink
    <2>3. SwapsInv'
      BY <1>23, JobFields DEF HydrateLink
    <2>4. RollsInv'
      BY <1>23, JobFields DEF HydrateLink
    <2> QED BY <2>1, <2>2, <2>3, <2>4
  <1>24. ASSUME Launch PROVE FitInv'
    <2>1. CalmInv'
      BY <1>24, JobFields DEF Launch, LinkResolves
    <2>2. RestsInv'
      BY <1>24, JobFields DEF Launch, LinkResolves
    <2>3. SwapsInv'
      BY <1>24, JobFields DEF Launch, LinkResolves
    <2>4. RollsInv'
      BY <1>24, JobFields DEF Launch, LinkResolves
    <2> QED BY <2>1, <2>2, <2>3, <2>4
  <1>25. ASSUME ComesUp PROVE FitInv'
    <2>1. /\ dir[link] # Absent /\ run = dir[link] /\ run.starts /\ job.phase = "none" /\ ~RollingBack
      BY <1>25 DEF ComesUp, StartInv, Starts
    <2>2. /\ dir'[link] # Absent /\ dir'[link].whole = dir[link].whole /\ dir'[link].ran
          /\ dir'[link].starts /\ dir'[link].py = dir[link].py /\ run' = dir'[link]
          /\ \A d \in Dirs : d # link => dir'[d] = dir[d]
      <3>1. dir' = [dir EXCEPT ![link] = [dir[link] EXCEPT !.ran = TRUE]]
        BY <1>25, <2>1 DEF ComesUp, LinkResolves, SafeMode
      <3>2. dir[link] \in Env
        BY <2>1
      <3>3. [dir[link] EXCEPT !.ran = TRUE] \in Env
        BY <3>2, EnvEdits
      <3>4. dir'[link] = [dir[link] EXCEPT !.ran = TRUE] /\ \A d \in Dirs : d # link => dir'[d] = dir[d]
        BY <3>1
      <3>5. run' = [dir[link] EXCEPT !.ran = TRUE]
        BY <1>25, <2>1 DEF ComesUp
      <3>6. /\ [dir[link] EXCEPT !.ran = TRUE].ran
            /\ [dir[link] EXCEPT !.ran = TRUE].whole = dir[link].whole
            /\ [dir[link] EXCEPT !.ran = TRUE].starts = dir[link].starts
            /\ [dir[link] EXCEPT !.ran = TRUE].py = dir[link].py
        BY <3>2 DEF Env
      <3> QED BY <2>1, <3>3, <3>4, <3>5, <3>6, ConstantTypes
    <2>3. CalmInv'
      BY <1>25, <2>1, <2>2, JobFields DEF ComesUp, LinkResolves, SafeMode, Starts, StartInv
    <2>4. RestsInv'
      BY <1>25, <2>1, <2>2, JobFields DEF ComesUp, LinkResolves, SafeMode, Starts, StartInv
    <2>5. SwapsInv'
      BY <1>25, <2>1, <2>2, JobFields DEF ComesUp, LinkResolves, SafeMode, Starts, StartInv
    <2>6. RollsInv'
      BY <1>25, <2>1, <2>2, JobFields DEF ComesUp, LinkResolves, SafeMode, Starts, StartInv
    <2> QED BY <2>3, <2>4, <2>5, <2>6
  <1>26. ASSUME CrashesAtStart PROVE FitInv'
    <2>1. CalmInv'
      BY <1>26, JobFields DEF CrashesAtStart
    <2>2. RestsInv'
      BY <1>26, JobFields DEF CrashesAtStart
    <2>3. SwapsInv'
      BY <1>26, JobFields DEF CrashesAtStart
    <2>4. RollsInv'
      BY <1>26, JobFields DEF CrashesAtStart
    <2> QED BY <2>1, <2>2, <2>3, <2>4
  <1>27. ASSUME HandleCrash PROVE FitInv'
    <2>1. CalmInv'
      BY <1>27, JobFields DEF HandleCrash, RollBack, GoGolden, LeaveToTrial, OnTrial, SafeMode, StartInv
    <2>2. RestsInv'
      BY <1>27, JobFields DEF HandleCrash, RollBack, GoGolden, LeaveToTrial, OnTrial, SafeMode, StartInv
    <2>3. SwapsInv'
      BY <1>27, JobFields DEF HandleCrash, RollBack, GoGolden, LeaveToTrial, OnTrial, SafeMode, StartInv
    <2>4. RollsInv'
      BY <1>27, JobFields DEF HandleCrash, RollBack, GoGolden, LeaveToTrial, OnTrial, SafeMode, StartInv
    <2> QED BY <2>1, <2>2, <2>3, <2>4
  <1>28. ASSUME RbSite PROVE FitInv'
    <2>1. CalmInv'
      BY <1>28, JobFields DEF RbSite, SwitchSiteBack
    <2>2. RestsInv'
      BY <1>28, JobFields DEF RbSite, SwitchSiteBack
    <2>3. SwapsInv'
      BY <1>28, JobFields DEF RbSite, SwitchSiteBack
    <2>4. RollsInv'
      BY <1>28, JobFields DEF RbSite, SwitchSiteBack
    <2> QED BY <2>1, <2>2, <2>3, <2>4
  <1>29. ASSUME RbFailed PROVE FitInv'
    <2>1. \A d \in Slots \cup {"venv_old"} : dir'[d] = dir[d]
      BY <1>29 DEF RbFailed, RbStep
    <2>2. CalmInv'
      BY <1>29, <2>1, JobFields DEF RbFailed, RbStep
    <2>3. RestsInv'
      BY <1>29, <2>1, JobFields DEF RbFailed, RbStep
    <2>4. SwapsInv'
      BY <1>29, <2>1, JobFields DEF RbFailed, RbStep
    <2>5. RollsInv'
      BY <1>29, <2>1, JobFields DEF RbFailed, RbStep
    <2> QED BY <2>2, <2>3, <2>4, <2>5
  <1>30. ASSUME RbOld PROVE FitInv'
    <2>1. dir'[link] = dir[link] /\ dir'["venv_old"] = dir["venv_old"]
      BY <1>30 DEF RbOld, RbStep
    <2>2. CalmInv'
      BY <1>30, <2>1, JobFields DEF RbOld, RbStep
    <2>3. RestsInv'
      BY <1>30, <2>1, JobFields DEF RbOld, RbStep
    <2>4. SwapsInv'
      BY <1>30, <2>1, JobFields DEF RbOld, RbStep
    <2>5. RollsInv'
      BY <1>30, <2>1, JobFields DEF RbOld, RbStep
    <2> QED BY <2>2, <2>3, <2>4, <2>5
  <1>31. ASSUME RbMvOld PROVE FitInv'
    <2>1. dir'["venv_old"] = Absent /\ dir'[Other(link)] = dir["venv_old"]
      BY <1>31 DEF RbMvOld, RbStep
    <2>2. CalmInv'
      BY <1>31, <2>1, JobFields DEF RbMvOld, RbStep
    <2>3. RestsInv'
      BY <1>31, <2>1, JobFields DEF RbMvOld, RbStep
    <2>4. SwapsInv'
      BY <1>31, <2>1, JobFields DEF RbMvOld, RbStep
    <2>5. RollsInv'
      BY <1>31, <2>1, JobFields DEF RbMvOld, RbStep
    <2> QED BY <2>2, <2>3, <2>4, <2>5
  <1>32. ASSUME RbMvFailed PROVE FitInv'
    <2>1. dir'["venv_old"] = dir["venv_old"] /\ dir'[Other(link)] = dir[Other(link)]
      BY <1>32 DEF RbMvFailed, RbStep
    <2>2. CalmInv'
      BY <1>32, <2>1, JobFields DEF RbMvFailed, RbStep
    <2>3. RestsInv'
      BY <1>32, <2>1, JobFields DEF RbMvFailed, RbStep
    <2>4. SwapsInv'
      BY <1>32, <2>1, JobFields DEF RbMvFailed, RbStep
    <2>5. RollsInv'
      BY <1>32, <2>1, JobFields DEF RbMvFailed, RbStep
    <2> QED BY <2>2, <2>3, <2>4, <2>5
  <1>33. ASSUME RbLink PROVE FitInv'
    <2>1. CalmInv'
      BY <1>33, JobFields DEF RbLink, RollbackTarget
    <2>2. RestsInv'
      BY <1>33, JobFields DEF RbLink, RollbackTarget
    <2>3. SwapsInv'
      BY <1>33, JobFields DEF RbLink, RollbackTarget
    <2>4. RollsInv'
      BY <1>33, JobFields DEF RbLink, RollbackTarget
    <2> QED BY <2>1, <2>2, <2>3, <2>4
  <1>34. ASSUME StartRebuild PROVE FitInv'
    <2>1. /\ job'.phase = "wipe" /\ job'.kind = "rebuild" /\ job'.active = link
          /\ job'.py = run.py /\ job'.late = restartDue /\ ~restartDue
      BY <1>34 DEF StartRebuild, StartJob, Interrupt
    <2>2. CalmInv'
      BY <1>34, <2>1, JobFields DEF StartRebuild, StartJob, JobSlotFree, Interrupt
    <2>3. RestsInv'
      BY <1>34, <2>1, JobFields DEF StartRebuild, StartJob, JobSlotFree, Interrupt
    <2>4. SwapsInv'
      BY <1>34, <2>1, JobFields DEF StartRebuild, StartJob, JobSlotFree, Interrupt
    <2>5. RollsInv'
      BY <1>34, <2>1, JobFields DEF StartRebuild, StartJob, JobSlotFree, Interrupt
    <2> QED BY <2>2, <2>3, <2>4, <2>5
  <1>35. ASSUME StartModules PROVE FitInv'
    <2>1. /\ job'.phase = "site_prepare" /\ job'.kind = "modules" /\ job'.active = link
          /\ job'.py = 1 /\ job'.late = restartDue /\ ~restartDue
      BY <1>35 DEF StartModules, StartJob, Interrupt
    <2>2. CalmInv'
      BY <1>35, <2>1, JobFields DEF StartModules, StartJob, JobSlotFree, Interrupt
    <2>3. RestsInv'
      BY <1>35, <2>1, JobFields DEF StartModules, StartJob, JobSlotFree, Interrupt
    <2>4. SwapsInv'
      BY <1>35, <2>1, JobFields DEF StartModules, StartJob, JobSlotFree, Interrupt
    <2>5. RollsInv'
      BY <1>35, <2>1, JobFields DEF StartModules, StartJob, JobSlotFree, Interrupt
    <2> QED BY <2>2, <2>3, <2>4, <2>5
  <1>36. ASSUME StartUpdate PROVE FitInv'
    <2>1. /\ job'.active = link /\ job'.late = restartDue /\ ~restartDue
          /\ \/ job'.phase = "python" /\ job'.kind = "python" /\ job'.py > run.py
             \/ job'.phase = "wipe" /\ job'.kind = "update" /\ job'.py = run.py
      BY <1>36 DEF StartUpdate, StartJob, Interrupt
    <2>2. job.phase = "none" /\ run \in Env
      BY <1>36 DEF StartUpdate, StartJob, JobSlotFree, RunInv
    <2>3. job'.kind = "python" => job'.py # run.py
      <3>1. run.py \in Py
        BY <2>2, EnvEdits
      <3>2. job' \in Job
        OBVIOUS
      <3>3. job'.py \in Py
        BY <3>2, JobFields
      <3> QED BY <2>1, <3>1, <3>3, NewerIsOther
    <2>4. CalmInv'
      BY <1>36, <2>1, <2>2, <2>3, JobFields DEF StartUpdate, StartJob, JobSlotFree, Interrupt
    <2>5. RestsInv'
      BY <1>36, <2>1, <2>2, <2>3, JobFields DEF StartUpdate, StartJob, JobSlotFree, Interrupt
    <2>6. SwapsInv'
      BY <1>36, <2>1, <2>2, <2>3, JobFields DEF StartUpdate, StartJob, JobSlotFree, Interrupt
    <2>7. RollsInv'
      BY <1>36, <2>1, <2>2, <2>3, JobFields DEF StartUpdate, StartJob, JobSlotFree, Interrupt
    <2> QED BY <2>4, <2>5, <2>6, <2>7
  <1>37. ASSUME RequestRestart PROVE FitInv'
    <2>1. CalmInv'
      BY <1>37, JobFields DEF RequestRestart, Interrupt
    <2>2. RestsInv'
      BY <1>37, JobFields DEF RequestRestart, Interrupt
    <2>3. SwapsInv'
      BY <1>37, JobFields DEF RequestRestart, Interrupt
    <2>4. RollsInv'
      BY <1>37, JobFields DEF RequestRestart, Interrupt
    <2> QED BY <2>1, <2>2, <2>3, <2>4
  <1>38. ASSUME MovePython \/ MoveFails \/ NamePython \/ Hydrated PROVE FitInv'
    <2>1. /\ boot \in {"hydrate_python", "hydrate_name"}
          /\ boot' \in {"hydrate_python", "hydrate_name", "stuck", "launch"}
          /\ UNCHANGED <<dir, link, site, siteDirs, siteLink, status, run, job, jobState, restartDue, os>>
      BY <1>38 DEF MovePython, MoveFails, HydratePython, NamePython, Hydrated
    <2>2. CalmInv'
      BY <2>1
    <2>3. RestsInv'
      BY <2>1
    <2>4. SwapsInv' /\ RollsInv'
      BY <2>1
    <2> QED BY <2>2, <2>3, <2>4
  <1>39. ASSUME PointPython PROVE FitInv'
    <2>1. PICK d \in RootVenvs : dir' = [dir EXCEPT ![d] = [dir[d] EXCEPT !.own = TRUE]]
      BY <1>39 DEF PointPython
    <2>2. d \in Dirs /\ dir[d] \in Env /\ [dir[d] EXCEPT !.own = TRUE] \in Env
      BY EnvEdits DEF RootVenvs
    <2>3. \A x \in Dirs : /\ (dir'[x] = Absent) <=> (dir[x] = Absent)
                          /\ (dir[x] # Absent) => /\ dir'[x].whole = dir[x].whole /\ dir'[x].ran = dir[x].ran
                                               /\ dir'[x].starts = dir[x].starts /\ dir'[x].py = dir[x].py
      BY <2>1, <2>2 DEF Env
    <2>4. /\ boot = "hydrate_python" /\ boot' = boot /\ job.phase = "none" /\ job' = job
          /\ UNCHANGED <<link, site, siteDirs, siteLink, status, run, jobState, restartDue, os>>
      BY <1>39 DEF PointPython
    <2>10. link \in Dirs /\ "venv_old" \in Dirs
      OBVIOUS
    <2>8. /\ (dir'["venv_old"] = Absent) <=> (dir["venv_old"] = Absent)
          /\ (dir["venv_old"] # Absent) =>
               /\ dir'["venv_old"].whole = dir["venv_old"].whole /\ dir'["venv_old"].ran = dir["venv_old"].ran
               /\ dir'["venv_old"].starts = dir["venv_old"].starts /\ dir'["venv_old"].py = dir["venv_old"].py
      BY <2>3, <2>10
    <2>9. /\ (dir'[link] = Absent) <=> (dir[link] = Absent)
          /\ (dir[link] # Absent) => /\ dir'[link].whole = dir[link].whole /\ dir'[link].ran = dir[link].ran
                                   /\ dir'[link].starts = dir[link].starts /\ dir'[link].py = dir[link].py
      BY <2>3, <2>10
    <2> HIDE DEF FitInv, RestsInv, SwapsInv, RollsInv
    <2>5. CalmInv'
      BY <2>4, <2>8 DEF FitInv
    <2>6. RestsInv'
      BY <2>4, <2>8, <2>9 DEF FitInv, RestsInv
    <2>7. SwapsInv' /\ RollsInv'
      BY <2>4 DEF SwapsInv, RollsInv
    <2> QED BY <2>5, <2>6, <2>7 DEF FitInv
  <1> QED
    BY <1>1, <1>2, <1>3, <1>4, <1>5, <1>6, <1>7, <1>8, <1>9, <1>10, <1>11, <1>12, <1>13, <1>14,
       <1>15, <1>16, <1>17, <1>18, <1>19, <1>20, <1>21, <1>22, <1>23, <1>24, <1>25, <1>26, <1>27,
       <1>28, <1>29, <1>30, <1>31, <1>32, <1>33, <1>34, <1>35, <1>36, <1>37, <1>38, <1>39
       DEF Next, JobStep, BootStep, AdminStep, InterruptionStep

-----------------------------------------------------------------------------
(* The promise in terms of the environments: the pair the next start gets is the current
   environment and its own site, and so is the fallback. *)
Of(e) == [app |-> [ver |-> e.ver, py |-> e.py, starts |-> e.starts], mods |-> {e.py}]

(* What the promise is told of an environment is never "there is none". *)
LEMMA PairsAreThere == ASSUME NEW e \in Env PROVE Of(e) # Absent
BY AppEnvAssumption DEF Of, Env, Pairs

NoFallback == RollingBack \/ dir[FallbackDir] = Absent \/ dir[CurrentDir].ran

AsPromised ==
  /\ CurrentDir \in Dirs /\ FallbackDir \in Dirs /\ dir[CurrentDir] # Absent
  /\ Pair(CurrentDir, siteLink) = Of(dir[CurrentDir])
  /\ ~NoFallback => Pair(FallbackDir, FallbackSite) = Of(dir[FallbackDir])

(* An environment is paired with the site made for it. *)
LEMMA OwnSite ==
  ASSUME NEW d \in Dirs, dir[d] # Absent, NEW s \in Sites, site[s] = {dir[d].py}
  PROVE  Pair(d, s) = Of(dir[d])
BY DEF Pair, App, Of

(* Where everything fits, the two pairs of the promise are the environments they stand for. *)
LEMMA FitAsPromised == IInv /\ FitInv => AsPromised
  <1> SUFFICES ASSUME IInv, FitInv PROVE AsPromised
    OBVIOUS
  <1> USE ConstantTypes DEF IInv, TypeOK, FitInv
  <1>1. CurrentDir \in Dirs /\ FallbackDir \in Dirs /\ siteLink \in Sites /\ OtherSite(siteLink) \in Sites
    BY JobFields DEF CurrentDir, FallbackDir
  <1>2. CASE RollingBack
    <2>1. job.phase = "none" /\ NoFallback
      BY <1>2 DEF JobInv, RollingBack, NoFallback
    <2>2. dir[CurrentDir] # Absent /\ site[siteLink] = {dir[CurrentDir].py}
      BY <1>2, <2>1 DEF RollsInv, RollingBack, CurrentDir, Uncommitted
    <2> QED BY <1>1, <2>1, <2>2, OwnSite DEF AsPromised
  <1>3. CASE ~RollingBack /\ job.phase = "none"
    <2>1. CurrentDir = link /\ FallbackDir = "venv_old"
      BY <1>3 DEF CurrentDir, Uncommitted, RollingBack, FallbackDir
    <2>2. dir[link] # Absent /\ site[siteLink] = {dir[link].py}
      BY <1>3 DEF RestsInv
    <2>3. ASSUME ~NoFallback
          PROVE  dir["venv_old"] # Absent /\ site[FallbackSite] = {dir["venv_old"].py} /\ FallbackSite \in Sites
      BY <1>1, <1>3, <2>1, <2>2, <2>3 DEF NoFallback, RestsInv, CanGoBack, FallbackSite
    <2>4. Pair(CurrentDir, siteLink) = Of(dir[CurrentDir])
      BY <1>1, <2>1, <2>2, OwnSite
    <2>5. ~NoFallback => Pair(FallbackDir, FallbackSite) = Of(dir[FallbackDir])
      BY <1>1, <2>1, <2>3, OwnSite
    <2> QED BY <1>1, <2>1, <2>2, <2>4, <2>5 DEF AsPromised
  <1>4. CASE job.phase # "none" /\ job.phase \notin CommitPhases
    <2>1. boot = "up" /\ CurrentDir = job.active /\ OldDir = job.active
      BY <1>4, JobFields
         DEF JobInv, SwapInv, SwapsInv, CurrentDir, Uncommitted, OldDir, JobPhases, CommitPhases
    <2>2. dir[job.active] # Absent /\ dir[job.active].ran
      BY <1>4, <2>1 DEF SwapsInv, Sound
    <2>3. site[siteLink] = {dir[job.active].py}
      BY <1>4, <2>1 DEF SwapsInv
    <2> QED BY <1>1, <2>1, <2>2, <2>3, OwnSite DEF AsPromised, NoFallback
  <1>5. CASE job.phase \in CommitPhases
    <2>1. boot = "up" /\ CurrentDir = link /\ link = Next_ /\ FallbackDir = OldDir /\ job.kind # "modules"
      BY <1>5 DEF JobInv, SwapInv, SwapsInv, CurrentDir, Uncommitted, OldDir, FallbackDir, Next_, CommitPhases
    <2>2. dir[Next_] # Absent /\ dir[Next_].py = job.py /\ dir[OldDir] # Absent
      BY <1>5, <2>1 DEF SwapsInv, CommitPhases
    <2>3. job.kind \in {"update", "rebuild", "python"}
      BY <1>5, <2>1, JobFields DEF JobInv, JobKinds, AllKinds, CommitPhases
    <2>4. site[siteLink] = {job.py} /\ site[FallbackSite] = {dir[OldDir].py} /\ FallbackSite \in Sites
      <3>1. CASE job.kind = "python"
        <4>1. /\ site[siteLink] = {job.py} /\ dir[link].py = job.py /\ job.py # dir[OldDir].py
              /\ NextSite \in siteDirs /\ site[NextSite] = {dir[OldDir].py}
          BY <1>5, <2>1, <2>2, <3>1 DEF SwapsInv, CommitPhases
        <4> QED BY <1>1, <2>1, <4>1 DEF NextSite, FallbackSite
      <3>2. CASE job.kind # "python"
        <4>1. site[siteLink] = {dir[OldDir].py} /\ dir[link].py = job.py /\ job.py = dir[OldDir].py
          BY <1>5, <2>1, <2>2, <2>3, <3>2 DEF SwapsInv, CommitPhases
        <4> QED BY <1>1, <2>1, <4>1 DEF FallbackSite
      <3> QED BY <3>1, <3>2
    <2>5. Pair(CurrentDir, siteLink) = Of(dir[CurrentDir])
      BY <1>1, <2>1, <2>2, <2>4, OwnSite
    <2>6. Pair(FallbackDir, FallbackSite) = Of(dir[FallbackDir])
      BY <1>1, <2>1, <2>2, <2>4, OwnSite
    <2> QED BY <1>1, <2>1, <2>2, <2>5, <2>6 DEF AsPromised
  <1> QED BY <1>2, <1>3, <1>4, <1>5

(* ... also after a step. *)
LEMMA FitAsPromisedNext == (IInv /\ FitInv)' => AsPromised'
BY FitAsPromised, PTL

(* A step that leaves the current environment and the fallback what they are doesn't show. *)
LEMMA SameDoesNotShow ==
  ASSUME AsPromised, AsPromised',
         Of(dir[CurrentDir])' = Of(dir[CurrentDir]), NoFallback' <=> NoFallback,
         ~NoFallback => Of(dir[FallbackDir])' = Of(dir[FallbackDir])
  PROVE  UNCHANGED Promise!swapVars
BY DEF AsPromised, NoFallback, Promise!swapVars

(* Between two states in which the app ran from the current environment only that counts. *)
LEMMA SettledDoesNotShow ==
  ASSUME AsPromised, AsPromised', NoFallback, NoFallback',
         Of(dir[CurrentDir])' = Of(dir[CurrentDir])
  PROVE  UNCHANGED Promise!swapVars
BY SameDoesNotShow

(* In a job, but for its commit, the current environment is the one the app runs from. *)
LEMMA JobIsSettled ==
  ASSUME IInv, FitInv, job.phase \notin {"none"} \cup CommitPhases
  PROVE  CurrentDir = job.active /\ NoFallback /\ job.active \in Slots
  <1>1. job.phase \in JobPhases /\ job.active \in Slots /\ boot = "up"
    BY JobFields DEF IInv, TypeOK, JobInv
  <1>2. CurrentDir = job.active
    BY <1>1
       DEF IInv, FitInv, JobInv, SwapInv, SwapsInv, CurrentDir, Uncommitted, OldDir, JobPhases, CommitPhases
  <1>3. dir[job.active].ran
    BY <1>1 DEF FitInv, SwapsInv, OldDir, Sound, CommitPhases
  <1> QED BY <1>1, <1>2, <1>3 DEF NoFallback

(* Between jobs, and with no rollback on its way, the current environment is the linked one. *)
LEMMA RestIsLinked ==
  ASSUME job.phase = "none", ~RollingBack
  PROVE  CurrentDir = link /\ FallbackDir = "venv_old"
         /\ (NoFallback <=> dir["venv_old"] = Absent \/ dir[link].ran)
BY DEF CurrentDir, FallbackDir, Uncommitted, RollingBack, NoFallback

(* ... also after a step. *)
LEMMA RestIsLinkedNext ==
  (job.phase = "none" /\ ~RollingBack)'
    => (CurrentDir = link /\ FallbackDir = "venv_old"
        /\ (NoFallback <=> dir["venv_old"] = Absent \/ dir[link].ran))'
BY RestIsLinked, PTL

(* In a job, but for its commit, also after a step. *)
LEMMA JobIsSettledNext ==
  (IInv /\ FitInv /\ job.phase \notin {"none"} \cup CommitPhases)'
    => (CurrentDir = job.active /\ NoFallback /\ job.active \in Slots)'
BY JobIsSettled, PTL

(* One step of a job is a step of the promise: only the begin of its commit shows. *)
LEMMA JobStepsAreAtomic ==
  ASSUME IInv, IInv', FitInv, FitInv', AsPromised, AsPromised', JobStep
  PROVE  [Promise!Next]_(Promise!swapVars)
  <1> USE ConstantTypes DEF IInv, TypeOK
  <1>1. ASSUME job.phase \notin {"none"} \cup CommitPhases,
               job'.phase \notin {"none"} \cup CommitPhases,
               job'.active = job.active, dir'[job.active] = dir[job.active]
        PROVE  UNCHANGED Promise!swapVars
    <2>1. CurrentDir = job.active /\ NoFallback
      BY <1>1, JobIsSettled
    <2>2. CurrentDir' = job'.active /\ NoFallback'
      BY <1>1, JobIsSettledNext
    <2> QED BY <1>1, <2>1, <2>2, SettledDoesNotShow DEF Of
  <1>2. ASSUME job.phase \notin {"none"} \cup CommitPhases,
               job' = NoJob, boot' = "up", link' = job.active, dir'[job.active] = dir[job.active]
        PROVE  UNCHANGED Promise!swapVars
    <2>1. CurrentDir = job.active /\ NoFallback /\ dir[job.active].ran
      BY <1>2, JobIsSettled DEF FitInv, SwapsInv, OldDir, Sound, CommitPhases
    <2>2. CurrentDir' = job.active /\ NoFallback'
      BY <1>2, <2>1, RestIsLinkedNext DEF RollingBack
    <2> QED BY <1>2, <2>1, <2>2, SettledDoesNotShow DEF Of
  <1>9. ASSUME job.phase \in {"install", "site_commit"}, job.kind # "modules", job'.phase = "commit_old",
               job'.active = job.active, job'.kind = job.kind, boot' = "up", dir'[job.active] = dir[job.active]
        PROVE  [Promise!Next]_(Promise!swapVars)
    <2>1. /\ CurrentDir = job.active /\ NoFallback /\ job.active \in Slots
          /\ dir[job.active] # Absent
      BY <1>9, JobIsSettled DEF FitInv, SwapsInv, OldDir, CommitPhases
    <2>2. /\ CurrentDir' = link' /\ FallbackDir' = job.active /\ link' = Other(job.active)
      BY <1>9, <2>1 DEF SwapInv, CurrentDir, FallbackDir, Uncommitted
    <2>3. dir'[link'] # Absent /\ ~dir'[link'].ran
      BY <1>9, <2>2 DEF FitInv, SwapsInv, CommitPhases, Next_
    <2>4. ~NoFallback'
      BY <1>9, <2>1, <2>2, <2>3 DEF NoFallback, RollingBack
    <2>5. (Pair(CurrentDir, siteLink) = Of(dir[CurrentDir]))'
      BY DEF AsPromised
    <2>6. Pair(FallbackDir, FallbackSite)' = Pair(CurrentDir, siteLink)
      BY <1>9, <2>1, <2>2, <2>4 DEF AsPromised, Of
    <2> QED BY <2>4, <2>5, <2>6 DEF NoFallback, Promise!Next, Promise!Change, Promise!Fits, Of
  <1>3. CASE CommitOld
    <2>1. job.kind # "modules" /\ dir[job.active] # Absent /\ job.active \in Slots /\ link = Next_
      BY <1>3, JobFields DEF CommitOld, InPhase, JobInv, SwapInv, Next_
    <2>2. job'.phase = "commit_rename" /\ job'.active = job.active /\ job'.kind = job.kind
      BY <1>3, JobGoesOn DEF CommitOld, JobPhases
    <2>3. dir'[job.active] = dir[job.active] /\ dir'[link] = dir[link] /\ link' = link
          /\ boot = "up" /\ boot' = "up" /\ job.phase = "commit_old"
      BY <1>3, <2>1 DEF CommitOld, InPhase, Up, Next_
    <2>4. /\ CurrentDir = link /\ CurrentDir' = link /\ FallbackDir = job.active
          /\ FallbackDir' = job.active
      BY <2>1, <2>2, <2>3 DEF CurrentDir, FallbackDir, Uncommitted
    <2>5. dir'[CurrentDir'] = dir[CurrentDir] /\ dir'[FallbackDir'] = dir[FallbackDir]
      BY <2>3, <2>4
    <2>6. NoFallback' <=> NoFallback
      BY <2>3, <2>5 DEF NoFallback, RollingBack
    <2> QED BY <2>5, <2>6, SameDoesNotShow DEF Of
  <1>4. CASE CommitRename
    <2>1. job.kind # "modules" /\ dir[job.active] # Absent /\ job.active \in Slots /\ link = Next_
      BY <1>4, JobFields DEF CommitRename, InPhase, JobInv, SwapInv, Next_
    <2>2. job'.phase = "commit_pythons" /\ job'.active = job.active /\ job'.kind = job.kind
      BY <1>4, JobGoesOn DEF CommitRename, JobPhases
    <2>3. dir'["venv_old"] = dir[job.active] /\ dir'[link] = dir[link] /\ link' = link
          /\ boot = "up" /\ boot' = "up" /\ job.phase = "commit_rename"
      BY <1>4, <2>1 DEF CommitRename, KeptAsOld, InPhase, Up, Next_
    <2>4. /\ CurrentDir = link /\ CurrentDir' = link /\ FallbackDir = job.active
          /\ FallbackDir' = "venv_old"
      BY <2>1, <2>2, <2>3 DEF CurrentDir, FallbackDir, Uncommitted
    <2>5. dir'[CurrentDir'] = dir[CurrentDir] /\ dir'[FallbackDir'] = dir[FallbackDir]
      BY <2>3, <2>4
    <2>6. NoFallback' <=> NoFallback
      BY <2>3, <2>5 DEF NoFallback, RollingBack
    <2> QED BY <2>5, <2>6, SameDoesNotShow DEF Of
  <1>5. CASE CommitPythons
    <2>1. /\ job.phase = "commit_pythons" /\ boot = "up" /\ job' = NoJob /\ boot' = "up"
          /\ link' = link /\ dir' = dir
      BY <1>5 DEF CommitPythons, InPhase, Up, Done
    <2>2. CurrentDir = link /\ FallbackDir = "venv_old"
      BY <2>1 DEF CurrentDir, FallbackDir, Uncommitted
    <2>3. CurrentDir' = link' /\ FallbackDir' = "venv_old"
      BY <2>1, RestIsLinkedNext DEF RollingBack
    <2>4. NoFallback' <=> NoFallback
      BY <2>1, <2>2, <2>3 DEF NoFallback, RollingBack
    <2> QED BY <2>1, <2>2, <2>3, <2>4, SameDoesNotShow
  <1>6. CASE PrepareWipe \/ PrepareCreate \/ InstallCore \/ RevertRemove
    <2>1. /\ job.phase \in {"wipe", "create", "install", "revert_rm"}
          /\ job.active \in Slots /\ dir'[job.active] = dir[job.active]
          /\ job.phase # "install" => link' = job.active
          /\ boot' = "up"
      BY <1>6, JobFields DEF PrepareWipe, PrepareCreate, InstallCore, RevertRemove, InPhase, Up,
         Next_, SwapInv
    <2>2. \/ job' = NoJob /\ job.phase # "install"
          \/ job'.phase \in {"create", "link", "site_build"} /\ job'.active = job.active
          \/ /\ job.phase = "install" /\ job.kind # "modules" /\ job'.phase = "commit_old"
             /\ job'.active = job.active /\ job'.kind = job.kind
      BY <1>6, JobGoesOn DEF PrepareWipe, PrepareCreate, InstallCore, RevertRemove, InPhase,
         Failed, JobPhases, JobInv
    <2> QED BY <1>1, <1>2, <1>9, <2>1, <2>2 DEF CommitPhases
  <1>7. CASE InstallPython \/ SitePrepareFails \/ SiteBuildFails \/ SiteCommit
    <2>1. /\ job.phase \in {"python", "site_prepare", "site_build", "site_commit"}
          /\ job.active \in Slots /\ dir' = dir /\ link' = link /\ boot' = "up"
      BY <1>7, JobFields DEF InstallPython, SitePrepareFails, SiteBuildFails, SiteCommit, InPhase,
         Up, storage
    <2>2. \/ job' = NoJob /\ link = job.active
          \/ job'.phase \in {"wipe", "revert"} /\ job'.active = job.active
          \/ /\ job.phase = "site_commit" /\ job.kind # "modules" /\ job'.phase = "commit_old"
             /\ job'.active = job.active /\ job'.kind = job.kind
      <3>1. job.kind \in JobKinds
        BY JobFields
      <3>2. job.kind = "python" \/ job.phase = "python" \/ job.kind = "modules"
        BY <2>1, <3>1 DEF FitInv, SwapsInv, JobInv, JobKinds, AllKinds
      <3>3. job.phase = "python" \/ job.kind = "modules" => link = job.active
        BY <2>1 DEF FitInv, SwapsInv, SwapInv
      <3> QED BY <1>7, <2>1, <3>2, <3>3, JobGoesOn
             DEF InstallPython, SitePrepareFails, SiteBuildFails, SiteCommit, InPhase, Failed,
                 Done, JobPhases
    <2> QED BY <1>1, <1>2, <1>9, <2>1, <2>2 DEF CommitPhases
  <1>8. CASE PrepareLink \/ InstallFails \/ Revert \/ SitePrepare \/ SiteBuild
    <2>1. /\ job.phase \in {"link", "install", "revert", "site_prepare", "site_build"}
          /\ job.active \in Slots /\ dir' = dir
      BY <1>8, JobFields DEF PrepareLink, InstallFails, Revert, SitePrepare, SiteBuild, InPhase,
         storage
    <2>2. /\ job'.phase \in {"site_prepare", "install", "revert", "revert_rm", "site_build",
                             "site_commit"}
          /\ job'.active = job.active
      BY <1>8, JobGoesOn DEF PrepareLink, InstallFails, Revert, SitePrepare, SiteBuild, JobPhases
    <2> QED BY <1>1, <2>1, <2>2 DEF CommitPhases
  <1> QED BY <1>3, <1>4, <1>5, <1>6, <1>7, <1>8 DEF JobStep

(* The restart, the launcher and its rollback: a version that came up settles, and a rollback
   is one step, its first. *)
LEMMA BootStepsAreAtomic ==
  ASSUME IInv, IInv', StartInv, FitInv, FitInv', AsPromised, AsPromised', BootStep
  PROVE  [Promise!Next]_(Promise!swapVars)
  <1> USE ConstantTypes DEF IInv, TypeOK
  <1>1. ASSUME job.phase = "none", ~RollingBack, job'.phase = "none", ~RollingBack',
               dir' = dir, link' = link
        PROVE  UNCHANGED Promise!swapVars
    <2>1. CurrentDir = link /\ FallbackDir = "venv_old"
      BY <1>1, RestIsLinked
    <2>2. CurrentDir' = link' /\ FallbackDir' = "venv_old"
      BY <1>1, RestIsLinkedNext
    <2>3. NoFallback' <=> NoFallback
      BY <1>1, <2>1, <2>2 DEF NoFallback
    <2> QED BY <1>1, <2>1, <2>2, <2>3, SameDoesNotShow DEF Of
  <1>2. ASSUME RollingBack, RollingBack', dir'[CurrentDir'] = dir[CurrentDir]
        PROVE  UNCHANGED Promise!swapVars
    BY <1>2, SettledDoesNotShow DEF NoFallback, Of
  <1>3. CASE Hydrate \/ HydrateLink \/ MovePython \/ MoveFails \/ NamePython \/ Hydrated
             \/ Launch \/ CrashesAtStart \/ HandleCrash
    <2>1. job.phase = "none" /\ job' = job /\ ~RollingBack /\ ~RollingBack'
      BY <1>3 DEF Hydrate, HydrateLink, MovePython, MoveFails, HydratePython, NamePython, Hydrated, Launch,
         CrashesAtStart, HandleCrash, JobInv, RollingBack, app
    <2>2. dir' = dir /\ link' = link
      BY <1>3, <2>1 DEF Hydrate, HydrateLink, MovePython, MoveFails, HydratePython, NamePython, Hydrated, Launch,
         CrashesAtStart, HandleCrash, storage, FitInv, CalmInv, RestsInv, NothingToSeed, LinkResolves
    <2> QED BY <1>1, <2>1, <2>2
  <1>4. CASE ComesUp
    <2>1. /\ job.phase = "none" /\ job' = job /\ ~RollingBack /\ ~RollingBack' /\ link' = link
          /\ dir[link] # Absent /\ dir[link] \in Env /\ run = dir[link] /\ run.starts
      BY <1>4 DEF ComesUp, Starts, JobInv, LinkInv, StartInv, FitInv, RestsInv, RollingBack
    <2>2. dir' = [dir EXCEPT ![link] = [dir[link] EXCEPT !.ran = TRUE]]
      BY <1>4, <2>1 DEF ComesUp, LinkResolves, SafeMode, FitInv, CalmInv
    <2>3. /\ [dir[link] EXCEPT !.ran = TRUE].ran
          /\ [dir[link] EXCEPT !.ran = TRUE].ver = dir[link].ver
          /\ [dir[link] EXCEPT !.ran = TRUE].starts = dir[link].starts
          /\ [dir[link] EXCEPT !.ran = TRUE].py = dir[link].py
      BY <2>1 DEF Env
    <2>4. dir'[link'].ran /\ Of(dir'[link']) = Of(dir[link])
      BY <2>1, <2>2, <2>3 DEF Of
    <2>5. CurrentDir = link /\ (Pair(CurrentDir, siteLink) = Of(dir[CurrentDir]))
      BY <2>1, RestIsLinked DEF AsPromised
    <2>6. CurrentDir' = link' /\ (Pair(CurrentDir, siteLink) = Of(dir[CurrentDir]))'
      BY <2>1, RestIsLinkedNext DEF AsPromised
    <2>7. Pair(CurrentDir, siteLink)' = Pair(CurrentDir, siteLink)
      BY <2>4, <2>5, <2>6 DEF Of
    <2>8. NoFallback' /\ Pair(CurrentDir, siteLink).app.starts
      BY <2>1, <2>4, <2>5, <2>6 DEF NoFallback, Of
    <2> QED BY <2>7, <2>8 DEF NoFallback, Promise!Next, Promise!Settle
  <1>5. CASE RbSite
    <2>1. /\ boot = "rb_site" /\ boot' = "rb_failed" /\ job.phase = "none" /\ job' = job
          /\ dir' = dir /\ link' = link /\ ~RollingBack /\ RollingBack'
      BY <1>5 DEF RbSite, JobInv, RollingBack, app
    <2>2. ~dir[link].starts /\ dir["venv_old"] # Absent /\ ~dir[link].ran
      BY <2>1 DEF FitInv, RollsInv, RestsInv
    <2>3. CurrentDir = link /\ FallbackDir = "venv_old" /\ ~NoFallback
      BY <2>1, <2>2, RestIsLinked
    <2>4. CurrentDir' = "venv_old" /\ NoFallback'
      BY <2>1 DEF CurrentDir, Uncommitted, NoFallback
    <2>5. /\ Pair(CurrentDir, siteLink) = Of(dir[link])
          /\ Pair(FallbackDir, FallbackSite) = Of(dir["venv_old"])
          /\ Pair(CurrentDir, siteLink)' = Of(dir["venv_old"])
      BY <2>1, <2>3, <2>4 DEF AsPromised, Of
    <2>6. Pair(FallbackDir, FallbackSite) # Absent
      <3>1. dir["venv_old"] \in Env
        BY <2>2
      <3> QED BY <2>5, <3>1, PairsAreThere
    <2>7. ~Pair(CurrentDir, siteLink).app.starts
      BY <2>2, <2>5 DEF Of
    <2> QED BY <2>3, <2>4, <2>5, <2>6, <2>7 DEF NoFallback, Promise!Next, Promise!RollBack
  <1>6. CASE RbFailed \/ RbOld \/ RbMvOld \/ RbMvFailed
    <2>1. job.phase = "none" /\ job' = job /\ RollingBack /\ RollingBack' /\ link' = link
      BY <1>6 DEF RbFailed, RbOld, RbMvOld, RbMvFailed, RbStep, JobInv, RollingBack, app
    <2>2. dir'[CurrentDir'] = dir[CurrentDir]
      BY <1>6, <2>1 DEF RbFailed, RbOld, RbMvOld, RbMvFailed, RbStep, CurrentDir, Uncommitted
    <2> QED BY <1>2, <2>1, <2>2
  <1>7. CASE RbLink
    <2>1. /\ job.phase = "none" /\ job' = job /\ boot = "rb_link" /\ boot' = "exec"
          /\ dir' = dir /\ link' = Other(link) /\ dir[Other(link)].ran
      BY <1>7 DEF RbLink, RollbackTarget, JobInv, FitInv, RollsInv, Sound
    <2>2. CurrentDir = Other(link) /\ NoFallback
      BY <2>1 DEF CurrentDir, Uncommitted, NoFallback, RollingBack
    <2>3. CurrentDir' = Other(link) /\ NoFallback'
      BY <2>1, RestIsLinkedNext DEF RollingBack
    <2> QED BY <2>1, <2>2, <2>3, SettledDoesNotShow DEF Of
  <1>8. CASE PointPython
    <2>1. PICK d \in RootVenvs : dir' = [dir EXCEPT ![d] = [dir[d] EXCEPT !.own = TRUE]]
      BY <1>8 DEF PointPython
    <2>2. d \in Dirs /\ dir[d] \in Env /\ [dir[d] EXCEPT !.own = TRUE] \in Env
      BY EnvEdits DEF RootVenvs
    <2>3. \A x \in Dirs : /\ (dir'[x] = Absent) <=> (dir[x] = Absent)
                          /\ (dir[x] # Absent) => dir'[x].ran = dir[x].ran /\ Of(dir'[x]) = Of(dir[x])
      BY <2>1, <2>2 DEF Env, Of
    <2>4. job.phase = "none" /\ job' = job /\ ~RollingBack /\ ~RollingBack' /\ link' = link
      BY <1>8 DEF PointPython, JobInv, RollingBack, app
    <2>5. /\ CurrentDir = link /\ FallbackDir = "venv_old" /\ CurrentDir' = link /\ FallbackDir' = "venv_old"
          /\ dir[link] # Absent
      BY <2>4, RestIsLinked, RestIsLinkedNext DEF AsPromised
    <2>9. link \in Dirs /\ "venv_old" \in Dirs
      OBVIOUS
    <2>10. /\ (dir'["venv_old"] = Absent) <=> (dir["venv_old"] = Absent)
           /\ (dir["venv_old"] # Absent) => Of(dir'["venv_old"]) = Of(dir["venv_old"])
           /\ dir'[link].ran = dir[link].ran /\ Of(dir'[link]) = Of(dir[link])
      BY <2>3, <2>5, <2>9
    <2>6. NoFallback' <=> NoFallback
      BY <2>4, <2>5, <2>10 DEF NoFallback
    <2>7. ~NoFallback => dir["venv_old"] # Absent
      BY <2>5 DEF NoFallback
    <2>8. Of(dir[CurrentDir])' = Of(dir[CurrentDir]) /\ (~NoFallback => Of(dir[FallbackDir])' = Of(dir[FallbackDir]))
      <3>2. Of(dir[CurrentDir])' = Of(dir'[link]) /\ Of(dir[FallbackDir])' = Of(dir'["venv_old"])
        BY <2>5 DEF Of
      <3> QED BY <2>5, <2>7, <2>10, <3>2
    <2> QED BY <2>6, <2>8, SameDoesNotShow
  <1> QED BY <1>3, <1>4, <1>5, <1>6, <1>7, <1>8 DEF BootStep

(* Starting a job, restarting and a trial of a new root leave the pair alone. *)
LEMMA OtherStepsAreAtomic ==
  ASSUME Interruptions \subseteq {"trial"}, IInv, IInv', FitInv, FitInv', AsPromised, AsPromised',
         AdminStep \/ Restart \/ InterruptionStep \/ MarkGood \/ TrialOver
  PROVE  [Promise!Next]_(Promise!swapVars)
  <1> USE ConstantTypes DEF IInv, TypeOK
  <1>1. ASSUME job.phase = "none", ~RollingBack, job'.phase = "none", ~RollingBack',
               dir' = dir, link' = link
        PROVE  UNCHANGED Promise!swapVars
    <2>1. CurrentDir = link /\ FallbackDir = "venv_old"
      BY <1>1, RestIsLinked
    <2>2. CurrentDir' = link' /\ FallbackDir' = "venv_old"
      BY <1>1, RestIsLinkedNext
    <2>3. NoFallback' <=> NoFallback
      BY <1>1, <2>1, <2>2 DEF NoFallback
    <2> QED BY <1>1, <2>1, <2>2, <2>3, SameDoesNotShow DEF Of
  <1>2. CASE StartUpdate \/ StartRebuild \/ StartModules
    <2>1. /\ job.phase = "none" /\ boot = "up" /\ ~restartDue /\ dir' = dir /\ link' = link
          /\ job'.phase \in {"python", "wipe", "site_prepare"} /\ job'.active = link
      BY <1>2 DEF StartUpdate, StartRebuild, StartModules, StartJob, JobSlotFree, Interrupt, Up,
         FitInv, CalmInv, storage
    <2>2. CurrentDir = link /\ NoFallback
      BY <2>1, RestIsLinked DEF FitInv, RestsInv, RollingBack
    <2>3. CurrentDir' = link /\ NoFallback'
      BY <2>1, JobIsSettledNext DEF CommitPhases
    <2> QED BY <2>1, <2>2, <2>3, SettledDoesNotShow DEF Of
  <1>3. CASE RequestRestart \/ MarkGood
    <2>1. UNCHANGED <<dir, link, site, siteLink, boot, job>>
      BY <1>3 DEF RequestRestart, MarkGood, storage, app
    <2>2. /\ CurrentDir' = CurrentDir /\ FallbackDir' = FallbackDir
          /\ (RollingBack' <=> RollingBack)
      BY <2>1 DEF CurrentDir, FallbackDir, RollingBack, Uncommitted
    <2>3. NoFallback' <=> NoFallback
      BY <2>1, <2>2 DEF NoFallback
    <2> QED BY <2>1, <2>2, <2>3, SameDoesNotShow DEF Of
  <1>4. CASE Restart \/ OsTrial \/ TrialOver
    <2>1. job.phase = "none" /\ ~RollingBack
      BY <1>4 DEF Restart, OsTrial, TrialOver, JobSlotFree, OnTrial, Up, JobInv, FitInv, CalmInv,
         RollingBack
    <2>2. job'.phase = "none" /\ ~RollingBack' /\ dir' = dir /\ link' = link
      BY <1>4, <2>1 DEF Restart, OsTrial, TrialOver, CoreGone, SwapOpen, RollingBack, storage
    <2> QED BY <1>1, <2>1, <2>2
  <1>5. ~(CoreKilled \/ KilledAtStart \/ PowerCut \/ SiteCommitLost \/ CommitOldFails \/ CopyFails)
    BY DEF CoreKilled, KilledAtStart, PowerCut, SiteCommitLost, CommitOldFails, CopyFails, Interrupt
  <1> QED BY <1>2, <1>3, <1>4, <1>5 DEF AdminStep, InterruptionStep

(* The first pair fits, and has run. *)
LEMMA FirstIsPromised == Init => Promise!Init
  <1> SUFFICES ASSUME Init PROVE Promise!Init
    OBVIOUS
  <1>1. IInv /\ FitInv
    BY InitIInv, InitFit
  <1>2. AsPromised
    BY <1>1, FitAsPromised
  <1>3. CurrentDir = link /\ dir[link].ran
    BY RestIsLinked, ConstantTypes DEF Init, RollingBack, Golden
  <1> QED BY <1>2, <1>3 DEF AsPromised, Of, Promise!Init, Promise!Fits

(* In every behaviour nothing but a trial interrupts, FitInv holds. *)
LEMMA SpecFits ==
  ASSUME Interruptions \subseteq {"trial"}
  PROVE  Spec => []FitInv
  <1>1. IInv /\ IInv' /\ PythonsKept /\ StartInv /\ FitInv /\ [Next]_vars => FitInv'
    <2>1. ASSUME FitInv, UNCHANGED vars PROVE FitInv'
      BY <2>1 DEF vars, FitInv, CalmInv, RestsInv, SwapsInv, RollsInv, RollingBack, CanGoBack,
         OldDir, Next_, NextSite
    <2> QED BY <2>1, NextFit
  <1> QED
    BY <1>1, InitFit, SpecIInv, PythonsAlwaysKept, SpecStartInv, PTL DEF Spec

(* Seen from the next start, a change of MirrorDash, its Python and its modules is one step,
   and so is a rollback, as long as nothing but the trial of a new root interrupts it: AppEnv
   implements AtomicSwap (venv_swap and packages, launch.sh). *)
THEOREM ChangesAlwaysAtomic ==
  ASSUME Interruptions \subseteq {"trial"}
  PROVE  Spec => ChangesAreAtomic
  <1>1. IInv /\ IInv' /\ StartInv /\ FitInv /\ FitInv' /\ AsPromised /\ AsPromised' /\ [Next]_vars
          => [Promise!Next]_(Promise!swapVars)
    <2>1. ASSUME UNCHANGED vars PROVE UNCHANGED Promise!swapVars
      BY <2>1 DEF vars, Promise!swapVars, Pair, App, FallbackSite, CurrentDir, FallbackDir, Uncommitted,
         RollingBack
    <2> QED BY <2>1, JobStepsAreAtomic, BootStepsAreAtomic, OtherStepsAreAtomic DEF Next
  <1> QED BY <1>1, FirstIsPromised, FitAsPromised, SpecIInv, SpecStartInv, SpecFits, PTL
         DEF Spec, ChangesAreAtomic, Promise!Spec
=============================================================================
