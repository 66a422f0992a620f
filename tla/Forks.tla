-------------------------------- MODULE Forks --------------------------------
(***************************************************************************)
(* How the module host makes a process for every module (forkserver.py, and *)
(* the parts of host.py that ask it to): the forkserver, which only forks,  *)
(* the control process, which knows each module's user, and the children on  *)
(* their way to running a module's code.                                    *)
(***************************************************************************)
EXTENDS Integers, FiniteSets

CONSTANTS Modules,    \* names of module instances, each with a user of its own
          Packages,   \* names of installed modules (and where they come from), likewise
          ModuleUids, \* MODULE_UIDS, the first of which is 1 more than PackageUids'
          PackageUids,
          Slots,      \* children at once
          MaxHosts,   \* bound: starts of the host
          Nobody      \* no name

Probe == "probe"
ForksAssumption ==
  /\ (ModuleUids \cup PackageUids) \subseteq Nat \ {0, 1} /\ ModuleUids \cap PackageUids = {}
  /\ Modules \cap Packages = {} /\ {Probe, Nobody} \cap (Modules \cup Packages) = {} /\ MaxHosts \in Nat \ {0}

VARIABLES uids,     \* uids.json and package_uids.json: name -> its user, 0 where there is none
          host,     \* the host's starts, counted
          server,   \* the forkserver is up
          control,  \* the control process: "down", "up", "checks", "closed", "open"
          child,    \* each child: [pc, name, uid, caps, alone, cut]
          owner     \* history: the name whose files a user has

parents == <<host, server, control>>
vars == <<uids, parents, child, owner>>

Names == Modules \cup Packages
ProbeUid == 1
UnitUser == 0
Range(name) == IF name = Probe THEN {ProbeUid} ELSE IF name \in Modules THEN ModuleUids ELSE PackageUids
NoChild == [pc |-> "none", name |-> Nobody, uid |-> UnitUser, user |-> UnitUser, caps |-> FALSE, alone |-> FALSE, cut |-> FALSE]

Init == /\ uids = [name \in Names |-> 0] /\ host = 1 /\ server = TRUE /\ control = "down"
        /\ child = [c \in Slots |-> NoChild] /\ owner = [uid \in ModuleUids \cup PackageUids |-> Nobody]

-----------------------------------------------------------------------------
(* The host's start and end.                                               *)

\* run_forkserver forks the control process, which serves one core.
StartsControl == /\ server /\ control = "down" /\ control' = "up" /\ UNCHANGED <<uids, host, server, child, owner>>

\* The forkserver ends (the control process did, or it was killed): the kernel ends every child tied to it.
Tied == {"tied", "runs", "stuck"}
Ends == /\ server /\ server' = FALSE /\ control' = "down"
        /\ child' = [c \in Slots |-> IF child[c].pc \in Tied \cup {"asked"} THEN NoChild
                                     ELSE [child[c] EXCEPT !.alone = child[c].pc # "none", !.cut = TRUE]]
        /\ UNCHANGED <<uids, host, owner>>

Starts == /\ ~server /\ host < MaxHosts /\ server' = TRUE /\ host' = host + 1 /\ UNCHANGED <<uids, control, child, owner>>

-----------------------------------------------------------------------------
(* The control process's requests.                                         *)

\* module_uids: a new name gets the next user, never one given before, while there is one.
Next1(used, range) == CHOOSE uid \in range \cup {0} :
  IF \E v \in range : \A u \in used : u < v
    THEN uid # 0 /\ (\A u \in used : u < uid) /\ \A v \in range : v < uid => \E u \in used : u >= v
    ELSE uid = 0
Given(name) == {uids[other] : other \in Names} \cap Range(name)
WithUser_Asked(name) ==  \* (mutant) the users of the names asked for
  [other \in Names |-> IF other # name THEN 0 ELSE IF uids[name] # 0 THEN uids[name] ELSE Next1(Given(name), Range(name))]
WithUser(name) ==
  [other \in Names |-> IF other # name \/ uids[name] # 0 THEN uids[other] ELSE Next1(Given(name), Range(name))]

Asks(c, name, uid) == child' = [child EXCEPT ![c] = [NoChild EXCEPT !.pc = "asked", !.name = name, !.user = uid]]

\* _check: what a module could reach is found out by a process like a module's.
Probes(c) == /\ control = "up" /\ child[c].pc = "none" /\ control' = "checks" /\ Asks(c, Probe, ProbeUid)
             /\ UNCHANGED <<uids, host, server, owner>>
Answers == /\ control = "checks" /\ ~(\E c \in Slots : child[c].name = Probe /\ child[c].pc \in {"asked", "forked", "switched", "bare", "tied"})
           /\ control' \in {"closed", "open"} /\ UNCHANGED <<uids, host, server, child, owner>>

\* start_instance and _install_or_uninstall: refused while the sandbox isn't known to be closed (an instance), or
\* without a user.
StartsModule(c, name) == /\ child[c].pc = "none" /\ (name \in Modules => control = "closed") /\ control # "down"
                         /\ uids' = WithUser(name)
                         /\ IF uids'[name] = 0 THEN UNCHANGED child ELSE Asks(c, name, uids'[name])
                         /\ UNCHANGED <<parents, owner>>

\* The core, or the control process, closes the child's connection.
Closes(c) == /\ child[c].pc # "none" /\ ~child[c].cut /\ child' = [child EXCEPT ![c].cut = TRUE]
             /\ UNCHANGED <<uids, parents, owner>>

-----------------------------------------------------------------------------
(* The forkserver and its children.                                        *)

\* check_spawn_request: only a user of that kind's; spawn_child gives it the folder, then forks.
SpawnAllowed(c) == child[c].user \in Range(child[c].name)
Forks(c) == /\ server /\ child[c].pc = "asked" /\ SpawnAllowed(c)
            /\ child' = [child EXCEPT ![c].pc = "forked", ![c].caps = TRUE]
            /\ owner' = IF child[c].name = Probe \/ owner[child[c].user] # Nobody THEN owner
                        ELSE [owner EXCEPT ![child[c].user] = child[c].name]
            /\ UNCHANGED <<uids, parents>>

Child(c, from, changed) == child[c].pc = from /\ child' = [child EXCEPT ![c] = changed] /\ UNCHANGED <<uids, parents, owner>>

SwitchesUser(c) == Child(c, "forked", [child[c] EXCEPT !.pc = "switched", !.uid = child[c].user])
DropsCapabilities(c) == Child(c, "switched", [child[c] EXCEPT !.pc = "bare", !.caps = FALSE])
TiesToParent(c) == Child(c, "bare", [child[c] EXCEPT !.pc = "tied"])
ChecksParent_Never(c) == Child(c, "tied", [child[c] EXCEPT !.pc = "runs"])  \* (mutant) the parent is taken to be there
ChecksParent(c) == Child(c, "tied", IF child[c].alone THEN NoChild ELSE [child[c] EXCEPT !.pc = "runs"])

Hangs(c) == child[c].name # Probe /\ Child(c, "runs", [child[c] EXCEPT !.pc = "stuck"])
\* The module ends by itself, or its loop reads the close; and when it reads nothing, its thread ends it.
Finishes(c) == Child(c, "runs", NoChild)
ExitsAfterGrace(c) == child[c].cut /\ (Child(c, "runs", NoChild) \/ Child(c, "stuck", NoChild))

ChildStep(c) == Forks(c) \/ SwitchesUser(c) \/ DropsCapabilities(c) \/ TiesToParent(c) \/ ChecksParent(c) \/ ExitsAfterGrace(c)
Next == \/ StartsControl \/ Ends \/ Starts \/ Answers
        \/ \E c \in Slots : Probes(c) \/ Closes(c) \/ Hangs(c) \/ Finishes(c) \/ ChildStep(c)
        \/ \E c \in Slots, name \in Names : StartsModule(c, name)

Spec == Init /\ [][Next]_vars

-----------------------------------------------------------------------------
(* What must hold.                                                         *)

TypeOK == /\ uids \in [Names -> ModuleUids \cup PackageUids \cup {0}] /\ host \in 1..MaxHosts /\ server \in BOOLEAN
          /\ control \in {"down", "up", "checks", "closed", "open"}
          /\ \A c \in Slots : child[c].pc \in {"none", "asked", "forked", "switched", "bare", "tied", "runs", "stuck"}

\* A module's code runs as a user that is its own, for good: no other name ever had it, through removals, restarts
\* of the host and the end of the range; without the forkserver's capabilities; and never without a parent to end
\* it: one that was forked just before the forkserver died ends itself (module_uids, fork_child).
Runs(c) == child[c].pc \in {"runs", "stuck"}
UsersAreOwn ==
  TypeOK /\ \A c \in Slots : Runs(c) =>
              /\ ~child[c].caps /\ ~child[c].alone /\ child[c].uid \in Range(child[c].name)
              /\ child[c].name # Probe => owner[child[c].uid] = child[c].name
=============================================================================
