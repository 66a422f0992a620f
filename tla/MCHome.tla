------------------------------- MODULE MCHome -------------------------------
(***************************************************************************)
(* What the mirror is to the home: its devices on the owner's MQTT broker,  *)
(* and what its modules may reach on the home network.                      *)
(***************************************************************************)
EXTENDS Naturals

CONSTANTS Modules, Tasks, Requests, Nobody, MqttScenes,                       \* Mqtt's: Modules are its Instances
          Reached, Names, Addresses, Limit, HelperEnds, NetScenes             \* Lan's: Reached are its Instances

CONSTANT Parts  \* the components a configuration checks, of "mqtt", "lan"

VARIABLES
  part,  \* which of them the behaviour is one of
  cfg, retained, session, run, task, client, published, pending, enable, shared, found, pub, req, mqtt_may, mqtt, gone, unsaid,
  hosts, dns, owed, uids, lan, nft, cgroup, actor, torn, lan_may

MqttVars == <<cfg, retained, session, run, task, client, published, pending, enable, shared, found, pub, req,
              mqtt_may, mqtt, gone, unsaid>>
LanVars == <<hosts, dns, owed, uids, lan, nft, cgroup, actor, torn, lan_may>>

\* Choices change while values are sent and the connection is lost; commands, restarts of Home Assistant and removals.
Still == [losses |-> 0, values |-> 0, commands |-> 0, births |-> 0, changes |-> 0, removals |-> 0, saves |-> 0, offs |-> 0,
          timeouts |-> 0]
Choices == [Still EXCEPT !.saves = 2, !.values = 2, !.losses = 1, !.offs = 1]
Changes == [Still EXCEPT !.saves = 1, !.values = 2, !.births = 1, !.changes = 2, !.commands = 1, !.removals = 1, !.losses = 1]
Slow == [Still EXCEPT !.saves = 1, !.values = 1, !.changes = 1, !.offs = 1, !.timeouts = 2]
All == {Choices, Changes, Slow}
Revokes == {[Still EXCEPT !.saves = 2, !.commands = 1]}
Thrice  == {[Still EXCEPT !.saves = 3]}

\* Settings saved while an address moves or the core restarts; a host that is open for one sync.
Few(s, m, r, o) == [saves |-> s, moves |-> m, restarts |-> r, open |-> o, ends |-> 1, deaf |-> 1, fails |-> 1]
Networks == {Few(1, 1, 0, 0), Few(1, 0, 1, 0), Few(0, 0, 1, 1)}

Mqtt == INSTANCE Mqtt WITH
  may <- mqtt_may, Instances <- Modules
Lan == INSTANCE Lan WITH
  may <- lan_may, Instances <- Reached

\* What a behaviour is not one of stays 0.
Init ==
  /\ part \in Parts
  /\ IF part = "mqtt" THEN Mqtt!Init
     ELSE cfg = 0 /\ retained = 0 /\ session = 0 /\ run = 0 /\ task = 0 /\ client = 0 /\ published = 0 /\ pending = 0
          /\ enable = 0 /\ shared = 0 /\ found = 0 /\ pub = 0 /\ req = 0 /\ mqtt_may = 0 /\ mqtt = 0 /\ gone = 0 /\ unsaid = 0
  /\ IF part = "lan" THEN Lan!Init
     ELSE hosts = 0 /\ dns = 0 /\ owed = 0 /\ uids = 0 /\ lan = 0 /\ nft = 0 /\ cgroup = 0 /\ actor = 0 /\ torn = 0 /\ lan_may = 0
Next ==
  \/ part = "mqtt" /\ Mqtt!Next /\ UNCHANGED <<part, LanVars>>
  \/ part = "lan" /\ Lan!Next /\ UNCHANGED <<part, MqttVars>>
vars == <<part, MqttVars, LanVars>>

\* The fairness of Mqtt and Lan: the bridge goes on; so do a sync, the refresh and the helper, and the lock is fair.
Spec == Init /\ [][Next]_vars
FairSpec ==
  /\ Spec
  /\ \A t \in Tasks : /\ WF_MqttVars(part = "mqtt" /\ Mqtt!PublisherStep(t))
                     /\ WF_MqttVars(part = "mqtt" /\ (Mqtt!Connects(t) \/ Mqtt!Serves(t) \/ Mqtt!TriesAgain(t)))
  /\ \A r \in Requests : WF_MqttVars(part = "mqtt" /\ Mqtt!RequestStep(r))
  /\ WF_MqttVars(part = "mqtt" /\ Mqtt!IntervalPasses)
  /\ WF_LanVars(part = "lan" /\ Lan!Asks) /\ WF_LanVars(part = "lan" /\ Lan!Refreshes)
  /\ WF_LanVars(part = "lan" /\ (Lan!HostAnswers \/ Lan!HostIsOpen \/ Lan!HostEnds))
  /\ \A a \in Lan!Actors :
       /\ SF_LanVars(part = "lan" /\ Lan!Takes(a))
       /\ WF_LanVars(part = "lan" /\ (Lan!Looks(a) \/ Lan!SetsRules(a) \/ Lan!Refused(a) \/ Lan!SetsFilter(a)))

ASSUME HomeAssumption == Mqtt!MqttAssumption /\ Lan!LanAssumption

-----------------------------------------------------------------------------
(* Each property of a component, of that component's behaviours.           *)

\* "online" is on the broker only while a connection is up, unless its end went unsaid, the bridge has one connection at
\* most, and between two passes the broker shows what is shared and no value of what isn't (bridge.py).
ToldTrue == part = "mqtt" => Mqtt!ToldTrue /\ Mqtt!SharedIsShown
\* What an owner stops sharing, or turns off, goes from the broker while the mirror is connected and its publisher goes
\* on (_clear_unshared_module_states).
Stays(i) == part = "mqtt" /\ Mqtt!Stays(i)
RevokedGoes == \A i \in Modules : Stays(i) ~> (~Stays(i) \/ Mqtt!PublisherDead)
\* While no helper runs, and none ended half-way since the last that was done, what the core takes to be in force is
\* what nftables and the unit's filter hold (lan.apply).
InForceIsSo == part = "lan" => Lan!InForceIsSo
\* Once nothing changes any more, each instance reaches exactly the addresses of the names its owner typed (_refresh_lan),
\* whatever was refused, moved or restarted; after a helper that ended half-way, unless the core wants again what it
\* takes to be in force and so runs no other.
TypedIsReached == <>[](part = "lan" => Lan!InForce \/ (torn /\ lan = Lan!Wanted(hosts, uids, Names)))
\* What comments and ARCHITECTURE.md say and the code doesn't do.
OnlineIsUp == part = "mqtt" => Mqtt!OnlineIsUp
RevokedAlwaysGoes == \A i \in Modules : Stays(i) ~> ~Stays(i)
ForceIsAlwaysSo == part = "lan" => Lan!ForceIsAlwaysSo
TypedIsAlwaysReached == <>[](part = "lan" => Lan!InForce)
OneTask == part = "mqtt" => Mqtt!OneTask
UnsharedIsRemoved == part = "mqtt" => Mqtt!UnsharedIsRemoved
ForgottenIsGone == part = "mqtt" => Mqtt!ForgottenIsGone
RemovedIsCleared == part = "mqtt" => Mqtt!RemovedIsCleared
OffIsOff == [][part = "mqtt" => Mqtt!OffIsOff]_MqttVars
AllowedWhenDone == [][part = "mqtt" => Mqtt!AllowedWhenDone]_MqttVars
=============================================================================
