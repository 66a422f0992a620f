------------------------------ MODULE Packages ------------------------------
(***************************************************************************)
(* Installing, updating and removing modules: the one background job of the *)
(* admin page, the module site's two folders of links and the link that says *)
(* which one runs, the folders the modules are installed in, and what the   *)
(* settings keep about them.  A restart or the loss of the module host may  *)
(* come between any two steps.                                              *)
(***************************************************************************)
EXTENDS Naturals, FiniteSets, FiniteSetsExt

CONSTANTS Releases,   \* what can be installed
          Info,       \* of each release: [pkg, from: who publishes it, names: its modules' names, loads: they import]
          Official,   \* OFFICIAL_OWNER
          MaxFolders, \* bound: folders of one package at a time
          Firsts,     \* what is installed at first: of each package a release
          JobScenes   \* bounds: jobs, failures, restarts; whether a job may be asked for while the app restarts

Packages == {Info[r].pkg : r \in Releases}
PackagesAssumption ==
  /\ IsFiniteSet(Releases) /\ Releases \intersect {"none", "partial"} = {} /\ MaxFolders \in Nat \ {0}
  /\ JobScenes \subseteq [jobs : Nat, fails : Nat, restarts : Nat, hosts : Nat, settings : Nat, hurry : Nat]
  /\ Firsts \subseteq [Packages -> Releases]
  /\ \A first \in Firsts : \A p, q \in Packages :
       Info[first[p]].pkg = p /\ (p # q => Info[first[p]].names \intersect Info[first[q]].names = {})

NoFolder == 0
NoLinks == [p \in Packages |-> NoFolder]

VARIABLES folders,    \* pkgs/<package>_<n>: "none", "partial" or the release in it
          site,       \* site_a and site_b: each package's link, the number of a folder
          link,       \* the link `site`
          running,    \* the folder each package's instances run from
          have,       \* the packages with instances in the settings
          scripts,    \* the settings' module_scripts
          job,        \* admin._job with where its work is: [st, pc, op, want, todo, from]
          page,       \* the admin page that follows the job: [st, over: the boot it knows is over, done]
          trusted,    \* history: the releases whose scripts the owner allowed by hand
          torn,       \* history: an interruption fell between the switch and the save that goes with it
          left        \* bounds: how much more may happen
disk == <<folders, site, link>>
config == <<have, scripts, trusted>>
vars == <<disk, running, config, job, page, torn, left>>

Sites == {"a", "b"}
next_site == CHOOSE s \in Sites : s # link
NoJob == [st |-> "idle", pc |-> "none", op |-> "install", want |-> {}, todo |-> {}, from |-> NoLinks]
Happens(what) == left[what] > 0 /\ left' = [left EXCEPT ![what] = @ - 1]
Installed(s, p) == folders[p][site[s][p]]
\* The instances of the settings, each from its module's folder in the site that runs.
Started == [p \in Packages |-> IF p \in have THEN site[link][p] ELSE NoFolder]

Init == \E first \in Firsts :
  /\ folders = [p \in Packages |-> [n \in 1..MaxFolders |-> IF n = 1 THEN first[p] ELSE "none"]]
  /\ site = [s \in Sites |-> IF s = "a" THEN [p \in Packages |-> 1] ELSE NoLinks] /\ link = "a"
  /\ have = Packages /\ running = [p \in Packages |-> 1] /\ scripts = {p \in Packages : Info[first[p]].from = Official}
  /\ job = NoJob /\ page = [st |-> "none", over |-> FALSE, done |-> FALSE] /\ trusted = {} /\ torn = FALSE
  /\ left \in JobScenes

-----------------------------------------------------------------------------
(* The job.                                                                *)

\* start_job: one at a time; one that waits for its restart no longer counts.
MayAsk == job.st # "running" /\ (job.st = "restarting" => left.hurry > 0)
Asks(op, todo, pc) ==
  /\ MayAsk /\ Happens("jobs")
  /\ job' = [st |-> "running", pc |-> pc, op |-> op, want |-> todo, todo |-> todo, from |-> site[link]]
  /\ page' = [st |-> "follows", over |-> FALSE, done |-> FALSE]
  /\ UNCHANGED <<disk, running, config, torn>>

Install(r) == Asks("install", {r}, "pin")
\* update_modules: each from where it was installed; all of them in one change.
Updates == {todo \in SUBSET Releases : todo # {} /\ \A r, s \in todo : Info[r].pkg = Info[s].pkg => r = s}
Update(todo) ==
  /\ \A r \in todo : /\ site[link][Info[r].pkg] # NoFolder
                     /\ LET now == Installed(link, Info[r].pkg) IN r # now /\ Info[r].from = Info[now].from
  /\ Asks("update", todo, "prepare")
Uninstall(p) == site[link][p] # NoFolder /\ Asks("uninstall", {Installed(link, p)}, "prepare")

Goes(pc) == job' = [job EXCEPT !.pc = pc]
Fails == job' = [job EXCEPT !.st = "failed", !.pc = "none"]
At(pc) == job.st = "running" /\ job.pc = pc

\* _pinned_to_latest_release: GitHub answers with its latest release, or the job ends.
Pins ==
  /\ At("pin") /\ ((Goes("prepare") /\ UNCHANGED left) \/ (Fails /\ Happens("fails")))
  /\ UNCHANGED <<disk, running, config, page, torn>>

\* The next site gets the links of the one that runs; then the folders neither has go, unless one can't be emptied.
Prepares ==
  /\ At("prepare") /\ Goes("pip") /\ site' = [site EXCEPT ![next_site] = site[link]]
  /\ \E stay \in BOOLEAN :
       /\ IF stay THEN Happens("fails") ELSE UNCHANGED left
       /\ folders' = [p \in Packages |-> [n \in 1..MaxFolders |->
            IF stay \/ \E s \in Sites : site'[s][p] = n THEN folders[p][n] ELSE "none"]]
  /\ UNCHANGED <<link, running, config, page, torn>>

\* uv fills a new folder of its own: one past the highest there is.
Used(p) == {n \in 1..MaxFolders : folders[p][n] # "none"}
NewFolder_Same(p) == 1  \* (mutant) a package's folder is always the same
NewFolder(p) == 1 + (IF Used(p) = {} THEN 0 ELSE Max(Used(p)))
First(todo) == CHOOSE r \in todo : TRUE
PipStarts ==
  /\ At("pip") /\ job.op # "uninstall" /\ Goes("uv")
  /\ LET p == Info[First(job.todo)].pkg
     IN  NewFolder(p) \in 1..MaxFolders /\ folders' = [folders EXCEPT ![p][NewFolder(p)] = "partial"]
  /\ UNCHANGED <<site, link, running, config, page, torn, left>>

PipFails_Skips ==  \* (mutant) the other modules of the change go in without it
  /\ At("uv") /\ Happens("fails") /\ job' = [job EXCEPT !.todo = @ \ {First(@)}, !.pc = IF Cardinality(job.todo) < 2 THEN "check" ELSE "pip"]
  /\ UNCHANGED <<disk, running, config, page, torn>>

PipFails ==
  /\ At("uv") /\ Goes("revert") /\ Happens("fails")
  /\ UNCHANGED <<disk, running, config, page, torn>>

\* module_name_clash: another package of the next site already has a module of that name.
Clash_Never(r) == FALSE  \* (mutant) nobody asks
Clash(r) == \E p \in Packages \ {Info[r].pkg} :
  site[next_site][p] # NoFolder /\ Info[Installed(next_site, p)].names \intersect Info[r].names # {}

Written(p) == CHOOSE n \in 1..MaxFolders : folders[p][n] = "partial" /\ \A m \in 1..MaxFolders : folders[p][m] = "partial" => m <= n
PipEnds ==
  /\ At("uv")
  /\ LET r == First(job.todo)
         p == Info[r].pkg
     IN  /\ folders' = [folders EXCEPT ![p][Written(p)] = r]
         /\ IF Clash(r) THEN Goes("revert") /\ UNCHANGED site
            ELSE /\ site' = [site EXCEPT ![next_site][p] = Written(p)]
                 /\ job' = [job EXCEPT !.todo = @ \ {r}, !.pc = IF Cardinality(job.todo) < 2 THEN "check" ELSE "pip"]
  /\ UNCHANGED <<link, running, config, page, torn, left>>

PipUninstalls ==
  /\ At("pip") /\ job.op = "uninstall" /\ Goes("commit")
  /\ site' = [site EXCEPT ![next_site][Info[First(job.todo)].pkg] = NoFolder]
  /\ UNCHANGED <<folders, link, running, config, page, torn, left>>

\* Updated modules must import from the next site; what is installed is not tried.
Changed == {p \in Packages : site[next_site][p] # job.from[p]}
Checks ==
  /\ At("check")
  /\ IF job.op = "update" /\ \E p \in Changed : ~Info[Installed(next_site, p)].loads THEN Goes("revert") ELSE Goes("commit")
  /\ UNCHANGED <<disk, running, config, page, torn, left>>

Reverts ==
  /\ At("revert") /\ Fails /\ site' = [site EXCEPT ![next_site] = NoLinks]
  /\ UNCHANGED <<folders, link, running, config, page, torn, left>>

Commits ==
  /\ At("commit") /\ Goes("save") /\ link' = next_site /\ page' = [page EXCEPT !.done = TRUE]
  /\ UNCHANGED <<folders, site, running, config, torn, left>>

\* What goes with it: an installed package's yes is its new origin's, a removed one's yes and instances go.
Saves_KeepsYes ==  \* (mutant) a yes already given stays
  /\ At("save") /\ job' = [job EXCEPT !.st = "restarting", !.pc = "none"]
  /\ LET gone == {p \in Packages : job.from[p] # NoFolder /\ site[link][p] = NoFolder}
         new  == {p \in Packages : site[link][p] # job.from[p] /\ site[link][p] # NoFolder}
     IN  /\ have' = have \ gone
         /\ scripts' = (scripts \ gone) \union {p \in new : job.op = "install" /\ Info[Installed(link, p)].from = Official}
  /\ UNCHANGED <<disk, running, page, trusted, torn, left>>
Saves ==
  /\ At("save") /\ job' = [job EXCEPT !.st = "restarting", !.pc = "none"]
  /\ LET gone == {p \in Packages : job.from[p] # NoFolder /\ site[link][p] = NoFolder}
         new  == {p \in Packages : site[link][p] # job.from[p] /\ site[link][p] # NoFolder}
     IN  /\ have' = have \ gone
         /\ scripts' = IF job.op # "install" THEN scripts \ gone
                       ELSE (scripts \ new) \union {p \in new : Info[Installed(link, p)].from = Official}
  /\ UNCHANGED <<disk, running, page, trusted, torn, left>>

-----------------------------------------------------------------------------
(* What else happens.                                                      *)

\* The app starts again, as the job scheduled (run_restart) or wherever the job is.  What the job wrote stays.
Starts == /\ torn' = (torn \/ At("save")) /\ job' = NoJob /\ page' = [page EXCEPT !.over = TRUE] /\ running' = Started
          /\ UNCHANGED <<disk, config>>
RestartDue == job.st = "restarting" /\ Starts /\ UNCHANGED left
Restarts == job.st # "restarting" /\ Happens("restarts") /\ Starts

\* The module host goes and comes back: its step fails, though a switch may have been made.
HostRestarts ==
  /\ Happens("hosts")
  /\ IF job.st = "running" /\ job.pc \notin {"pin", "save"} THEN Fails ELSE UNCHANGED job
  /\ link' \in (IF At("commit") THEN Sites ELSE {link})
  /\ torn' = (torn \/ link' # link) /\ page' = [page EXCEPT !.done = @ \/ link' # link]
  /\ UNCHANGED <<folders, site, config>> /\ running' = Started'

InstanceStarts(p) ==  \* after a crash or a change of its settings
  /\ running' = [running EXCEPT ![p] = Started[p]] /\ running' # running
  /\ UNCHANGED <<disk, config, job, page, torn, left>>

Adds(p) ==  \* a first instance of an installed module
  /\ p \notin have /\ site[link][p] # NoFolder /\ Happens("settings") /\ have' = have \union {p}
  /\ UNCHANGED <<disk, scripts, trusted, job, page, torn>> /\ running' = Started'

SetScripts(p) ==  \* set_module_scripts: the owner's own choice
  /\ site[link][p] # NoFolder /\ Happens("settings") /\ running' = Started
  /\ \/ scripts' = scripts \union {p} /\ trusted' = trusted \union {Installed(link, p)}
     \/ scripts' = scripts \ {p} /\ UNCHANGED trusted
  /\ UNCHANGED <<disk, have, job, page, torn>>

\* pollRestartAndReload: another boot id is success; a failed job is a failure, told only by the boot it failed in.
PagePolls ==
  /\ page.st = "follows" /\ (page.over \/ job.st = "failed")
  /\ page' = [page EXCEPT !.st = IF page.over THEN "success" ELSE "failed"]
  /\ UNCHANGED <<disk, running, config, job, torn, left>>

-----------------------------------------------------------------------------
JobStep == \/ Pins \/ Prepares \/ PipStarts \/ PipFails \/ PipEnds \/ PipUninstalls \/ Checks \/ Reverts \/ Commits \/ Saves \/ RestartDue
Next == \/ JobStep \/ Restarts \/ HostRestarts \/ PagePolls
        \/ MayAsk /\ \/ \E r \in Releases : Install(r)
                     \/ \E todo \in Updates : Update(todo)
        \/ \E p \in Packages : Uninstall(p) \/ InstanceStarts(p) \/ Adds(p) \/ SetScripts(p)

\* uv and every other step of the job has a timeout; the page polls every 1.5 s.
Spec == Init /\ [][Next]_vars /\ WF_vars(JobStep) /\ WF_vars(PagePolls)

-----------------------------------------------------------------------------
TypeOK ==
  /\ \A p \in Packages, n \in 1..MaxFolders :
       folders[p][n] \in {"none", "partial"} \union {r \in Releases : Info[r].pkg = p}
  /\ site \in [Sites -> [Packages -> 0..MaxFolders]] /\ link \in Sites /\ running \in [Packages -> 0..MaxFolders]
  /\ have \subseteq Packages /\ scripts \subseteq Packages
  /\ job.st \in {"idle", "running", "restarting", "failed"}
  /\ page.st \in {"none", "follows", "success", "failed"}

Whole(p, n) == n # NoFolder => folders[p][n] \in Releases

\* Whatever was interrupted, the site that runs has only whole modules, no two of them with a module of one name, and
\* no change touches the code that running instances use, also while it is not yet switched off (Control._site,
\* _install_or_uninstall, next_module_folder_name, _remove_unlinked_module_folders).
RunningKept == \A p \in Packages : Whole(p, running[p])
SiteIsSound ==
  /\ TypeOK /\ RunningKept
  /\ \A p \in Packages : Whole(p, site[link][p])
  /\ \A p, q \in Packages : p # q /\ site[link][p] # NoFolder /\ site[link][q] # NoFolder =>
       Info[Installed(link, p)].names \intersect Info[Installed(link, q)].names = {}

\* A job that failed changed nothing, one that succeeded changed all it was asked: never half of Update All
\* (packages, _change_packages).
AllOrNothing == ~torn =>
  /\ job.st = "failed" => site[link] = job.from
  /\ job.st = "restarting" /\ job.op # "uninstall" => \A r \in job.want : Installed(link, Info[r].pkg) = r

\* A card's scripts run only for a package the owner allowed or MirrorDash's own, and a yes dies with its package: one
\* of that name from anywhere else starts without it; no instance stays of a module that is gone (install_module,
\* uninstall_module).
YesIsItsOwn == ~torn /\ ~At("save") =>
  /\ \A p \in scripts : /\ site[link][p] # NoFolder
                        /\ \/ Info[Installed(link, p)].from = Official
                           \/ \E r \in trusted : Info[r].pkg = p /\ Info[r].from = Info[Installed(link, p)].from
  /\ \A p \in have : site[link][p] # NoFolder

\* What the comments say and the code does not keep.
\* "No guessing from timings" (pollRestartAndReload): a job cut by a restart is told as done.
PageToldTrue == page.st = "success" => page.done
\* A reinstalled module starts from defaults, and a yes is its origin's, also when the power goes (Saves).
YesAlwaysItsOwn == job.st = "idle" => (\A p \in scripts \union have : site[link][p] # NoFolder)
=============================================================================
