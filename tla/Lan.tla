-------------------------------- MODULE Lan --------------------------------
(***************************************************************************)
(* What each module instance may reach on the home network: the addresses   *)
(* of its lan-url settings (lan.py), applied by a sync of the modules and   *)
(* by the refresh every LAN_REFRESH seconds (client.py), in nftables and in *)
(* the unit's own filter (mirrordash-module-network).                       *)
(***************************************************************************)
EXTENDS Naturals, FiniteSets

CONSTANTS Instances, Names, Addresses,  \* numbers, the first and the last as they sort
          Limit,      \* LAN_ADDRESS_LIMIT
          HelperEnds, \* how the helper ends: "ok", "refused" (nothing set), "half" (the unit's filter isn't)
          NetScenes   \* how much of each kind of happening a behaviour has
LanAssumption ==
  Instances \subseteq Nat /\ Addresses \subseteq Nat /\ IsFiniteSet(Instances) /\ IsFiniteSet(Addresses) /\ Limit \in Nat

VARIABLES hosts,   \* settings: the names typed for each instance
          dns,     \* the private addresses each name has now
          owed,    \* settings were saved, or the core started: a sync follows
          uids,    \* _uids: the instances with a user of their own, as of the last sync
          lan,     \* what the core takes to be in force, Unset before the first time
          nft,     \* nftables: (instance, address)
          cgroup,  \* IPAddressAllow of the module host's unit
          actor,   \* the sync and the refresh: [pc, modules (as read), pairs (the helper's arguments)]
          torn,    \* history: a helper ended half-way, and since then none was done and the core didn't restart
          may      \* how much of each kind of happening is left

vars == <<hosts, dns, owed, uids, lan, nft, cgroup, actor, torn, may>>

Actors == {"sync", "refresh"}
Pairs == Instances \X Addresses
Unset == {<<0, 0>>}
NoModules == [i \in Instances |-> {}]
Idle == [pc |-> "idle", modules |-> NoModules, pairs |-> {}]
Closes(pairs) == {pair[2] : pair \in pairs}

Init == /\ hosts \in [Instances -> SUBSET Names] /\ dns \in [Names -> SUBSET Addresses] /\ owed = TRUE /\ uids = {}
        /\ lan = Unset /\ nft = {} /\ cgroup = {} /\ actor = [a \in Actors |-> Idle]
        /\ torn = FALSE /\ may \in NetScenes

Happens(what) == may[what] > 0 /\ may' = [may EXCEPT ![what] = @ - 1]

\* _lan_lock: taken by the one, waited for by the other.
Locked == \E a \in Actors : actor[a].pc \in {"looks", "nft", "cgroup"}

\* sorted(...)[:LAN_ADDRESS_LIMIT]
Before(p, q) == p[1] < q[1] \/ (p[1] = q[1] /\ p[2] < q[2])
First(pairs) == {p \in pairs : Cardinality({q \in pairs : Before(q, p)}) < Limit}

\* lan_hosts for the instances with a user, and lan_addresses for the names that answered.
Wanted(modules, users, answered) ==
  First({pair \in Pairs : pair[1] \in users /\ \E name \in modules[pair[1]] \cap answered : pair[2] \in dns[name]})

-----------------------------------------------------------------------------
(* A sync: _sync as far as its call of _apply_lan.                         *)

Asks == /\ actor["sync"].pc = "idle" /\ owed /\ owed' = FALSE
        /\ actor' = [actor EXCEPT !["sync"] = [pc |-> "asked", modules |-> hosts, pairs |-> {}]]
        /\ UNCHANGED <<hosts, dns, uids, lan, nft, cgroup, torn, may>>
\* The host answers with the users it gave, or with the sandbox's holes: then nothing is wanted.
HostAnswers == /\ actor["sync"].pc = "asked" /\ uids' = Instances
               /\ actor' = [actor EXCEPT !["sync"].pc = "waits"] /\ UNCHANGED <<hosts, dns, owed, lan, nft, cgroup, torn, may>>
HostIsOpen == /\ actor["sync"].pc = "asked" /\ Happens("open") /\ uids' = {}
              /\ actor' = [actor EXCEPT !["sync"] = [@ EXCEPT !.pc = "waits", !.modules = NoModules]]
              /\ UNCHANGED <<hosts, dns, owed, lan, nft, cgroup, torn>>
\* The answer doesn't come: the host's connection ended, and another sync follows when it connects again.
HostEnds == /\ actor["sync"].pc = "asked" /\ Happens("ends") /\ owed' = TRUE
            /\ actor' = [actor EXCEPT !["sync"] = Idle] /\ UNCHANGED <<hosts, dns, uids, lan, nft, cgroup, torn>>

\* _refresh_lan: the settings as they are now.
Refreshes == /\ actor["refresh"].pc = "idle"
             /\ actor' = [actor EXCEPT !["refresh"] = [pc |-> "waits", modules |-> hosts, pairs |-> {}]]
             /\ UNCHANGED <<hosts, dns, owed, uids, lan, nft, cgroup, torn, may>>

-----------------------------------------------------------------------------
(* lan.apply, under _lan_lock, and the helper.                             *)

Takes_Unlocked(a) ==  \* (mutant) both may look names up and run the helper at once
  /\ actor[a].pc = "waits"
  /\ actor' = [actor EXCEPT ![a].pc = "looks"] /\ UNCHANGED <<hosts, dns, owed, uids, lan, nft, cgroup, torn, may>>
Takes(a) ==
  /\ actor[a].pc = "waits" /\ ~Locked
  /\ actor' = [actor EXCEPT ![a].pc = "looks"] /\ UNCHANGED <<hosts, dns, owed, uids, lan, nft, cgroup, torn, may>>

\* The helper runs only when its arguments change. A name that doesn't answer has no address.
Looks(a) ==
  /\ actor[a].pc = "looks"
  /\ \E answered \in {Names} \cup {Names \ {name} : name \in Names} :
       LET pairs == Wanted(actor[a].modules, uids, answered)
       IN  /\ IF answered = Names THEN UNCHANGED may ELSE Happens("deaf")
           /\ actor' = [actor EXCEPT ![a] = IF pairs = lan THEN Idle ELSE [@ EXCEPT !.pc = "nft", !.pairs = pairs]]
  /\ UNCHANGED <<hosts, dns, owed, uids, lan, nft, cgroup, torn>>
\* nft -f: the table is replaced in one transaction, or the helper exits.
SetsRules(a) == /\ actor[a].pc = "nft" /\ nft' = actor[a].pairs /\ actor' = [actor EXCEPT ![a].pc = "cgroup"]
                /\ UNCHANGED <<hosts, dns, owed, uids, lan, cgroup, torn, may>>
Refused(a) == /\ actor[a].pc = "nft" /\ "refused" \in HelperEnds /\ Happens("fails") /\ actor' = [actor EXCEPT ![a] = Idle]
              /\ UNCHANGED <<hosts, dns, owed, uids, lan, nft, cgroup, torn>>
\* systemctl set-property --runtime: done, the arguments are those in force. Or it fails.
SetsFilter(a) == /\ actor[a].pc = "cgroup" /\ actor' = [actor EXCEPT ![a] = Idle]
                 /\ \E end \in HelperEnds \cap {"ok", "half"} :
                      IF end = "ok" THEN cgroup' = Closes(actor[a].pairs) /\ lan' = actor[a].pairs /\ torn' = FALSE /\ UNCHANGED may
                      ELSE Happens("fails") /\ torn' = TRUE /\ UNCHANGED <<cgroup, lan>>
                 /\ UNCHANGED <<hosts, dns, owed, uids, nft>>

-----------------------------------------------------------------------------
(* What happens around it.                                                 *)

\* The owner saves an instance's settings (reload_modules), and an address changes (DHCP).
Saves == /\ Happens("saves") /\ owed' = TRUE /\ \E i \in Instances, names \in SUBSET Names : hosts' = [hosts EXCEPT ![i] = names]
         /\ UNCHANGED <<dns, uids, lan, nft, cgroup, actor, torn>>
Moves == /\ Happens("moves") /\ \E name \in Names, to \in SUBSET Addresses : dns' = [dns EXCEPT ![name] = to]
         /\ UNCHANGED <<hosts, owed, uids, lan, nft, cgroup, actor, torn>>
\* The core restarts, its helper with it: what was set so far stays until the next boot.
Restarts_KnowsIt ==  \* (mutant) what was believed is kept
  /\ Happens("restarts") /\ owed' = TRUE /\ uids' = {} /\ actor' = [a \in Actors |-> Idle]
  /\ torn' = FALSE /\ UNCHANGED <<hosts, dns, lan, nft, cgroup>>
Restarts ==
  /\ Happens("restarts") /\ owed' = TRUE /\ uids' = {} /\ lan' = Unset /\ actor' = [a \in Actors |-> Idle]
  /\ torn' = FALSE /\ UNCHANGED <<hosts, dns, nft, cgroup>>
Boots == /\ Happens("restarts") /\ owed' = TRUE /\ uids' = {} /\ lan' = Unset /\ actor' = [a \in Actors |-> Idle]
         /\ nft' = {} /\ cgroup' = {} /\ torn' = FALSE /\ UNCHANGED <<hosts, dns>>

Applies(a) == Takes(a) \/ Looks(a) \/ SetsRules(a) \/ Refused(a) \/ SetsFilter(a)
Next == Asks \/ HostAnswers \/ HostIsOpen \/ HostEnds \/ Refreshes \/ (\E a \in Actors : Applies(a)) \/ Saves \/ Moves \/ Restarts \/ Boots
\* The host answers or ends, the lock is fair, the helper ends, and the refresh comes every LAN_REFRESH seconds.
Fairness == WF_vars(Asks) /\ WF_vars(HostAnswers \/ HostIsOpen \/ HostEnds) /\ WF_vars(Refreshes)
            /\ \A a \in Actors : SF_vars(Takes(a)) /\ WF_vars(Looks(a) \/ SetsRules(a) \/ Refused(a) \/ SetsFilter(a))
Spec == Init /\ [][Next]_vars /\ Fairness

-----------------------------------------------------------------------------
(* What must hold.                                                         *)

TypeOK == /\ hosts \in [Instances -> SUBSET Names] /\ dns \in [Names -> SUBSET Addresses] /\ owed \in BOOLEAN
          /\ torn \in BOOLEAN /\ uids \subseteq Instances /\ lan \in (SUBSET Pairs) \cup {Unset} /\ nft \subseteq Pairs /\ cgroup \subseteq Addresses
          /\ actor \in [Actors -> [pc : {"idle", "asked", "waits", "looks", "nft", "cgroup"},
                                   modules : [Instances -> SUBSET Names], pairs : SUBSET Pairs]]

\* apply returns "the helper's arguments in force afterwards": while no helper runs, what the core takes to be in
\* force is what nftables and the unit's filter hold, and never more than the helper takes; a helper that ended
\* half-way is the one exception, until one is done.
ForceIsAlwaysSo == ~Locked /\ lan # Unset => nft = lan /\ cgroup = Closes(lan)
InForceIsSo == TypeOK /\ Cardinality(nft) <= Limit /\ (torn \/ ForceIsAlwaysSo)

\* Once nothing changes any more, each instance reaches exactly the addresses of the names its owner typed, whatever
\* was refused, moved or restarted on the way (_refresh_lan). After a helper that ended half-way only if another is
\* done: the core takes the arguments before it to be in force, and runs none while they are what it wants.
InForce == nft = Wanted(hosts, uids, Names) /\ cgroup = Closes(nft)
TypedIsReached == <>[](InForce \/ (torn /\ lan = Wanted(hosts, uids, Names)))
TypedIsAlwaysReached == <>[]InForce
=============================================================================
