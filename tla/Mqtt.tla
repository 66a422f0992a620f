-------------------------------- MODULE Mqtt --------------------------------
(***************************************************************************)
(* The MQTT bridge: the task that keeps a connection to the owner's broker, *)
(* its publisher, the requests that restart it or turn it off, and what the *)
(* broker keeps (retained) for Home Assistant and any other client.         *)
(***************************************************************************)
EXTENDS Naturals, FiniteSets

CONSTANTS Instances,  \* module instances, each exposing one entity
          Tasks,      \* connection tasks that can exist at once
          Requests,   \* admin requests that can be waiting at once
          MqttScenes, \* what may happen in a behaviour
          Nobody      \* no task, and nothing on a topic
MqttAssumption == Nobody \notin Tasks \union Instances \union {"", "shown", "controls", "value", "online", "offline"}

VARIABLES cfg,        \* the settings: [on, share, have, enabled, control]
          retained,   \* the broker: topic -> its retained payload
          session,    \* the broker: the task whose connection it has
          run,        \* each connection task: "none", "connects", "greets", "serves", "sleeps"
          task,       \* MqttBridge._task
          client,     \* MqttBridge._client
          published,  \* MqttBridge._published, Nobody where there is no key
          pending,    \* MqttBridge._pending: instances whose value waits for the next pass
          enable,     \* MqttBridge._enable: instances a command turns on or off
          shared,     \* MqttBridge._modules
          found,      \* the fingerprint of the last discovery, and whether another is due
          pub,        \* each task's publisher: [pc, cfg, todo]
          req,        \* the requests: [pc, op, todo, client, grew]
          may, mqtt,  \* how much of each kind of happening is left; the scene
          gone,       \* history: what the last request to turn MQTT off removed since the connection: "no", "half", "all"
          unsaid      \* history: the last connection ended cleanly and the broker was not told

bridge == <<task, client, published, pending, enable, shared, found>>
vars == <<cfg, retained, session, run, task, client, published, pending, enable, shared, found, pub, req, may, mqtt, gone, unsaid>>

Status == <<"status", Nobody>>
Mirror == <<"device", Nobody>>
Device(i) == <<"device", i>>
State(i) == <<"state", i>>
Topics == {Status, Mirror} \union {Device(i) : i \in Instances} \union {State(i) : i \in Instances}
Empty == [topic \in Topics |-> Nobody]
Keys(dict) == {topic \in Topics : dict[topic] # Nobody}

FirstCfg == [on |-> FALSE, share |-> {}, have |-> Instances, enabled |-> Instances, control |-> FALSE]
NoPass == [pc |-> "none", cfg |-> FirstCfg, todo |-> {}]
NoRequest == [pc |-> "idle", op |-> "save", todo |-> {}, client |-> Nobody, grew |-> FALSE]
Undiscovered == [print |-> <<>>, due |-> TRUE]

Init == /\ mqtt \in MqttScenes /\ may = mqtt
        /\ cfg = FirstCfg
        /\ retained = Empty /\ session = Nobody /\ run = [t \in Tasks |-> "none"]
        /\ task = Nobody /\ client = Nobody /\ published = Empty /\ pending = {} /\ enable = {} /\ shared = {}
        /\ found = Undiscovered /\ pub = [t \in Tasks |-> NoPass] /\ req = [r \in Requests |-> NoRequest] /\ gone = "no"
        /\ unsaid = FALSE

Happens(what) == may[what] > 0 /\ may' = [may EXCEPT ![what] = @ - 1]
\* _shared_module_devices: shared, installed, turned on.
SharedNow(c) == c.share \intersect c.have \intersect c.enabled
\* _mirror_components: the mirror's own device, with a switch per instance when the owner allows it.
MirrorShown(c) == IF c.control THEN "controls" ELSE "shown"
Fingerprint(c) == <<c.share, c.have, c.control>>

-----------------------------------------------------------------------------
(* The connection.                                                         *)

Drops(t) == [run EXCEPT ![t] = "sleeps"]

\* _run: the broker takes over an older connection with the same client id (its last will goes out); the
\* bridge forgets what it had published and says it is online, with no wait between.
Connects(t) ==
  /\ run[t] = "connects" /\ session' = t /\ client' = t
  /\ run' = [u \in Tasks |-> IF u = t THEN "greets" ELSE IF u = session THEN "sleeps" ELSE run[u]]
  /\ pub' = [u \in Tasks |-> IF u = session THEN NoPass ELSE pub[u]]
  /\ published' = Empty /\ found' = [found EXCEPT !.due = TRUE] /\ gone' = "no" /\ unsaid' = FALSE
  /\ retained' = [retained EXCEPT ![Status] = "online"]
  /\ UNCHANGED <<cfg, task, pending, enable, shared, req, may, mqtt>>

Serves(t) ==  \* its commands are subscribed to; the publisher starts
  /\ run[t] = "greets" /\ run' = [run EXCEPT ![t] = "serves"]
  /\ pub' = [pub EXCEPT ![t] = [NoPass EXCEPT !.pc = "idle"]]
  /\ UNCHANGED <<cfg, retained, session, bridge, req, may, mqtt, gone, unsaid>>

Refused(t) ==
  /\ run[t] = "connects" /\ Happens("losses") /\ run' = Drops(t)
  /\ UNCHANGED <<cfg, retained, session, bridge, pub, req, mqtt, gone, unsaid>>

\* The connection is lost, and the broker sends the last will; or an error of the bridge's own (a publish or a
\* subscription that times out) ends it: `async with` disconnects cleanly, so the broker sends none.
Loses(t) ==
  /\ run[t] \in {"greets", "serves"} /\ run' = Drops(t) /\ session' = Nobody /\ client' = Nobody
  /\ pub' = [pub EXCEPT ![t] = NoPass]
  /\ \/ Happens("losses") /\ retained' = [retained EXCEPT ![Status] = "offline"] /\ unsaid' = FALSE
     \/ Happens("timeouts") /\ unsaid' = TRUE /\ UNCHANGED retained
  /\ UNCHANGED <<cfg, task, published, pending, enable, shared, found, req, mqtt, gone>>

TriesAgain(t) ==  \* RETRY_FIRST is longer than stop waits for the broker
  /\ run[t] = "sleeps" /\ (\A r \in Requests : req[r].pc # "cancels") /\ run' = [run EXCEPT ![t] = "connects"]
  /\ UNCHANGED <<cfg, retained, session, bridge, pub, req, may, mqtt, gone, unsaid>>

-----------------------------------------------------------------------------
(* The publisher.                                                          *)

SetEnabled(enabled, changed) == (enabled \ changed) \union ((changed \intersect cfg.have) \ enabled)
\* _apply_pending: the waiting commands, all at once, whatever the settings say by now.
AppliesCommands(t) ==
  /\ pub[t].pc = "idle" /\ enable # {} /\ enable' = {}
  /\ cfg' = [cfg EXCEPT !.enabled = SetEnabled(@, enable)]
  /\ UNCHANGED <<retained, session, run, task, client, published, pending, shared, found, pub, req, may, mqtt, gone, unsaid>>

\* A pass with a discovery: what is shared now, and only the values of those are kept for sending.
Discovers_KeepsValues(t) ==  \* (mutant) a value sent just before follows the clearing
  /\ pub[t].pc = "idle" /\ (found.due \/ found.print # Fingerprint(cfg)) /\ found' = [print |-> Fingerprint(cfg), due |-> FALSE]
  /\ shared' = SharedNow(cfg) /\ UNCHANGED pending
  /\ pub' = [pub EXCEPT ![t] = [pc |-> "devices", cfg |-> cfg,
                                 todo |-> {Mirror} \union {Device(i) : i \in shared'}]]
  /\ UNCHANGED <<cfg, retained, session, run, task, client, published, enable, req, may, mqtt, gone, unsaid>>
Discovers(t) ==
  /\ pub[t].pc = "idle" /\ (found.due \/ found.print # Fingerprint(cfg))
  /\ found' = [print |-> Fingerprint(cfg), due |-> FALSE]
  /\ shared' = SharedNow(cfg) /\ pending' = pending \intersect shared'
  /\ pub' = [pub EXCEPT ![t] = [pc |-> "devices", cfg |-> cfg,
                                 todo |-> {Mirror} \union {Device(i) : i \in shared'}]]
  /\ UNCHANGED <<cfg, retained, session, run, task, client, published, enable, req, may, mqtt, gone, unsaid>>

\* One publish, unless it is what was sent last: then the next of the phase.
First(todo) == CHOOSE next \in todo : TRUE
Payload(phase, topic, c) == CASE phase = "devices" -> IF topic = Mirror THEN MirrorShown(c) ELSE "shown"
                              [] phase = "values" -> "value"
                              [] OTHER -> ""
Sends(t) ==
  /\ pub[t].todo # {} /\ pub' = [pub EXCEPT ![t].todo = @ \ {First(@)}]
  /\ LET topic == First(pub[t].todo)
         payload == Payload(pub[t].pc, topic, pub[t].cfg)
     IN  IF published[topic] = payload THEN UNCHANGED <<retained, published>>
         ELSE /\ retained' = [retained EXCEPT ![topic] = payload]
              /\ published' = [published EXCEPT ![topic] = IF pub[t].pc = "removed" THEN Nobody ELSE payload]
  /\ req' = [r \in Requests |-> [req[r] EXCEPT !.grew = @ \/ (req[r].pc = "forgets" /\ Keys(published') # Keys(published))]]
  /\ UNCHANGED <<cfg, session, run, task, client, pending, enable, shared, found, may, mqtt, gone, unsaid>>

\* A publish that times out raises in the publisher and ends it alone: _serve goes on reading. What it sent may
\* have arrived.
PublisherDies(t) ==
  /\ pub[t].todo # {} /\ Happens("timeouts") /\ pub' = [pub EXCEPT ![t].pc = "dead", ![t].todo = {}]
  /\ LET topic == First(pub[t].todo)
         payload == Payload(pub[t].pc, topic, pub[t].cfg)
     IN  published[topic] # payload /\ retained' \in {retained, [retained EXCEPT ![topic] = payload]}
  /\ UNCHANGED <<cfg, session, run, task, client, published, pending, enable, shared, found, req, mqtt, gone, unsaid>>

\* _send_discovery removes what is no longer a device, _clear_unshared_module_states the values of installed
\* instances that are not shared; then the values that wait.
Phase(t, pc, todo) == pub' = [pub EXCEPT ![t].pc = pc, ![t].todo = todo]
Removes(t) ==
  /\ pub[t].pc = "devices" /\ pub[t].todo = {}
  /\ Phase(t, "removed", {Device(i) : i \in {j \in Instances \ shared : published[Device(j)] # Nobody}})
  /\ UNCHANGED <<cfg, retained, session, run, bridge, req, may, mqtt, gone, unsaid>>

Clears_Nothing(t) ==  \* (mutant) the values of what is no longer shared stay
  /\ pub[t].pc = "removed" /\ pub[t].todo = {} /\ Phase(t, "cleared", {})
  /\ UNCHANGED <<cfg, retained, session, run, bridge, req, may, mqtt, gone, unsaid>>

Clears(t) ==
  /\ pub[t].pc = "removed" /\ pub[t].todo = {} /\ Phase(t, "cleared", {State(i) : i \in pub[t].cfg.have \ shared})
  /\ UNCHANGED <<cfg, retained, session, run, bridge, req, may, mqtt, gone, unsaid>>

TakesValues(t) ==
  /\ \/ pub[t].pc = "cleared" /\ pub[t].todo = {}
     \/ pub[t].pc = "idle" /\ ~found.due /\ found.print = Fingerprint(cfg) /\ pending # {}
  /\ Phase(t, "values", {State(i) : i \in pending}) /\ pending' = {}
  /\ UNCHANGED <<cfg, retained, session, run, task, client, published, enable, shared, found, req, may, mqtt, gone, unsaid>>

PassEnds(t) ==
  /\ pub[t].pc = "values" /\ pub[t].todo = {} /\ pub' = [pub EXCEPT ![t] = [NoPass EXCEPT !.pc = "idle"]]
  /\ UNCHANGED <<cfg, retained, session, run, bridge, req, may, mqtt, gone, unsaid>>

-----------------------------------------------------------------------------
(* What reaches the bridge.                                                *)

ModuleSays(i) ==  \* module_state
  /\ i \in shared \intersect cfg.have \intersect cfg.enabled /\ i \notin pending /\ Happens("values")
  /\ pending' = pending \union {i}
  /\ UNCHANGED <<cfg, retained, session, run, task, client, published, enable, shared, found, pub, req, mqtt, gone, unsaid>>

\* _command: turning an instance on or off, if the owner allows it; carried out on a later pass.
Command(i) ==
  /\ (\E t \in Tasks : run[t] = "serves") /\ cfg.control /\ i \in cfg.have /\ i \notin enable /\ Happens("commands")
  /\ enable' = enable \union {i}
  /\ UNCHANGED <<cfg, retained, session, run, task, client, published, pending, shared, found, pub, req, mqtt, gone, unsaid>>

Birth ==  \* _on_message: Home Assistant started and wants the discovery again
  /\ (\E t \in Tasks : run[t] = "serves") /\ Happens("births") /\ found' = [found EXCEPT !.due = TRUE]
  /\ published' = [topic \in Topics |-> IF topic[1] = "device" THEN Nobody ELSE published[topic]]
  /\ UNCHANGED <<cfg, retained, session, run, task, client, pending, enable, shared, pub, req, mqtt, gone, unsaid>>

IntervalPasses ==
  /\ ~found.due /\ found' = [found EXCEPT !.due = TRUE]
  /\ UNCHANGED <<cfg, retained, session, run, task, client, published, pending, enable, shared, pub, req, may, mqtt, gone, unsaid>>

Toggle(i) ==
  /\ i \in cfg.have /\ Happens("changes")
  /\ cfg' = [cfg EXCEPT !.enabled = IF i \in @ THEN @ \ {i} ELSE @ \union {i}]
  /\ UNCHANGED <<retained, session, run, bridge, pub, req, mqtt, gone, unsaid>>

Uninstall(i) ==  \* its settings go, the choice to share it stays
  /\ i \in cfg.have /\ Happens("removals") /\ cfg' = [cfg EXCEPT !.have = @ \ {i}, !.enabled = @ \ {i}]
  /\ UNCHANGED <<retained, session, run, bridge, pub, req, mqtt, gone, unsaid>>

-----------------------------------------------------------------------------
(* The admin's requests.                                                   *)

Save(r) ==  \* save_mqtt: the settings are saved, then the bridge restarts
  /\ req[r].pc = "idle" /\ Happens("saves") /\ req' = [req EXCEPT ![r] = [NoRequest EXCEPT !.pc = "stops"]]
  /\ \E share \in SUBSET cfg.have, control \in BOOLEAN :
       cfg' = [cfg EXCEPT !.on = TRUE, !.share = share, !.control = control]
  /\ UNCHANGED <<retained, session, run, bridge, pub, mqtt, gone, unsaid>>

TurnOff(r) ==  \* mqtt_off, forget
  /\ req[r].pc = "idle" /\ cfg.on /\ Happens("offs")
  /\ IF client = Nobody
       THEN /\ published' = Empty /\ req' = [req EXCEPT ![r] = [NoRequest EXCEPT !.pc = "stops", !.op = "off"]]
       ELSE /\ UNCHANGED published
            /\ req' = [req EXCEPT ![r] = [pc |-> "forgets", op |-> "off", todo |-> Keys(published),
                                          client |-> client, grew |-> FALSE]]
  /\ UNCHANGED <<cfg, retained, session, run, task, client, pending, enable, shared, found, pub, mqtt, gone, unsaid>>

Connected(r) == session # Nobody /\ session = req[r].client
Forgets(r) ==
  /\ req[r].pc = "forgets" /\ Connected(r) /\ ~req[r].grew /\ req[r].todo # {}
  /\ retained' = [retained EXCEPT ![First(req[r].todo)] = ""] /\ req' = [req EXCEPT ![r].todo = @ \ {First(@)}]
  /\ UNCHANGED <<cfg, session, run, bridge, pub, may, mqtt, gone, unsaid>>

Forgotten(r) ==  \* done, or the connection went meanwhile, or an answer of the broker's doesn't come
  /\ req[r].pc = "forgets"
  /\ \/ Connected(r) /\ req[r].todo = {} /\ retained' = [retained EXCEPT ![Status] = "offline"] /\ gone' = "all" /\ UNCHANGED may
     \/ ~Connected(r) /\ UNCHANGED <<retained, gone, may>>
     \/ Connected(r) /\ ~req[r].grew /\ Happens("timeouts") /\ gone' = "half" /\ UNCHANGED retained
  /\ published' = Empty /\ req' = [req EXCEPT ![r].pc = "stops"]
  /\ UNCHANGED <<cfg, session, run, task, client, pending, enable, shared, found, pub, mqtt, unsaid>>

\* The publisher changed the dictionary that forget goes through: the request fails, and MQTT stays on.
ForgetFails(r) ==
  /\ req[r].pc = "forgets" /\ Connected(r) /\ req[r].grew /\ req[r].todo # {} /\ req' = [req EXCEPT ![r] = NoRequest]
  /\ gone' = "half"
  /\ UNCHANGED <<cfg, retained, session, run, bridge, pub, may, mqtt, unsaid>>

Stops_Silently(r) ==  \* (mutant) a clean disconnect, and nobody is told
  /\ req[r].pc = "stops" /\ client # Nobody /\ req' = [req EXCEPT ![r].pc = "cancels"]
  /\ UNCHANGED <<cfg, retained, session, run, bridge, pub, may, mqtt, gone, unsaid>>

Stops(r) ==  \* stop: a clean disconnect sends no last will
  /\ req[r].pc = "stops" /\ client # Nobody /\ req' = [req EXCEPT ![r].pc = "cancels"]
  /\ \/ retained' = [retained EXCEPT ![Status] = "offline"] /\ unsaid' = FALSE /\ UNCHANGED may
     \/ Happens("timeouts") /\ unsaid' = TRUE /\ UNCHANGED retained  \* after 2 s
  /\ UNCHANGED <<cfg, session, run, bridge, pub, mqtt, gone>>

Free == {t \in Tasks : run[t] = "none"}
\* The rest of restart (a new task), or of mqtt_off (the settings say it is off).
Finishes(r) ==
  /\ req' = [req EXCEPT ![r] = NoRequest]
  /\ IF req[r].op = "save" /\ cfg.on
       THEN Free # {} /\ task' = First(Free) /\ run' = [run EXCEPT ![First(Free)] = "connects"]
       ELSE task' = Nobody /\ UNCHANGED run
  /\ cfg' = IF req[r].op = "off" THEN [cfg EXCEPT !.on = FALSE] ELSE cfg

Cancels_Nothing(r) ==  \* (mutant) another task is started beside the one there is
  /\ req[r].pc = "cancels" \/ (req[r].pc = "stops" /\ client = Nobody)
  /\ Finishes(r) /\ UNCHANGED <<pub, session, client>>
  /\ UNCHANGED <<retained, published, pending, enable, shared, found, may, mqtt, gone, unsaid>>

Cancels(r) ==  \* the task is awaited; with none the request goes on at once
  /\ req[r].pc = "cancels" \/ (req[r].pc = "stops" /\ client = Nobody)
  /\ IF task = Nobody THEN Finishes(r) /\ UNCHANGED <<pub, session, client>>
     ELSE /\ req' = [req EXCEPT ![r].pc = "ends"] /\ UNCHANGED <<task, cfg>>
          /\ run' = [run EXCEPT ![task] = "none"] /\ pub' = [pub EXCEPT ![task] = NoPass]
          /\ session' = (IF session = task THEN Nobody ELSE session) /\ client' = Nobody
  /\ UNCHANGED <<retained, published, pending, enable, shared, found, may, mqtt, gone, unsaid>>

Ends(r) ==
  /\ req[r].pc = "ends" /\ Finishes(r)
  /\ UNCHANGED <<retained, session, client, published, pending, enable, shared, found, pub, may, mqtt, gone, unsaid>>

-----------------------------------------------------------------------------
ConnectionStep(t) == Connects(t) \/ Serves(t) \/ Refused(t) \/ Loses(t) \/ TriesAgain(t)
PublisherStep(t) == \/ AppliesCommands(t) \/ Discovers(t) \/ Sends(t) \/ PublisherDies(t)
                    \/ Removes(t) \/ Clears(t) \/ TakesValues(t) \/ PassEnds(t)
Reaches == \/ \E i \in Instances : ModuleSays(i) \/ Command(i) \/ Toggle(i) \/ Uninstall(i)
           \/ Birth \/ IntervalPasses
RequestStep(r) == \/ Forgets(r) \/ Forgotten(r) \/ ForgetFails(r) \/ Stops(r) \/ Cancels(r)
                  \/ Ends(r)
Next == \/ \E t \in Tasks : ConnectionStep(t) \/ PublisherStep(t)
        \/ \E r \in Requests : Save(r) \/ TurnOff(r) \/ RequestStep(r)
        \/ Reaches

\* Tasks on the event loop go on, the broker answers, the discovery's interval passes.
Fairness == /\ \A t \in Tasks : WF_vars(PublisherStep(t)) /\ WF_vars(Connects(t) \/ Serves(t) \/ TriesAgain(t))
            /\ \A r \in Requests : WF_vars(RequestStep(r))
            /\ WF_vars(IntervalPasses)
Spec == Init /\ [][Next]_vars /\ Fairness

-----------------------------------------------------------------------------
(* What must hold.                                                         *)

TypeOK == /\ retained \in [Topics -> {Nobody, "", "shown", "controls", "value", "online", "offline"}]
          /\ published \in [Topics -> {Nobody, "", "shown", "controls", "value"}]
          /\ run \in [Tasks -> {"none", "connects", "greets", "serves", "sleeps"}]
          /\ {task, client, session} \subseteq Tasks \union {Nobody}
          /\ unsaid \in BOOLEAN /\ pending \subseteq Instances /\ enable \subseteq Instances /\ shared \subseteq Instances
          /\ \A t \in Tasks : pub[t].todo \subseteq Topics
          /\ \A r \in Requests : req[r].todo \subseteq Topics

\* Home Assistant is never left believing in a mirror that is away: "online" is on the broker only while a
\* connection is up, through lost connections, restarts and turning it off (_client_for's last will, stop), unless a
\* clean disconnect went unsaid; and the bridge has one connection task at most (restart), with one request at a time:
\* of two that wait for the same task to end each starts another.
OneTask == Cardinality({t \in Tasks : run[t] # "none"}) <= 1
OnlineIsUp == retained[Status] = "online" => session # Nobody
ToldTrue == TypeOK /\ OneTask /\ (unsaid \/ OnlineIsUp)

\* Between two passes the broker has a device for each instance that is shared, and no value of an
\* installed instance that is not, whatever was said, shared or lost before (_discover and what it calls); once a
\* request to turn MQTT off has removed devices, the next connection brings them back (Forgotten, ForgetFails).
AtRest(t) == pub[t].pc = "idle" /\ ~found.due /\ found.print = Fingerprint(cfg)
SharedIsShown ==
  \A t \in Tasks, i \in Instances : AtRest(t) /\ gone = "no" /\ (\A r \in Requests : req[r].pc # "forgets") =>
    /\ retained[Mirror] = MirrorShown(cfg) /\ (i \in shared => retained[Device(i)] = "shown")
    /\ i \in cfg.have \ shared => retained[State(i)] # "value"

\* What an owner stops sharing, or turns off, goes from the broker while the mirror is connected and its publisher
\* goes on.
PublisherDead == \E t \in Tasks : pub[t].pc = "dead"
Stays(i) == i \in cfg.have \ SharedNow(cfg) /\ session # Nobody /\ retained[State(i)] = "value"
RevokedGoes == \A i \in Instances : Stays(i) ~> (~Stays(i) \/ PublisherDead)

\* What the comments say and the code does not keep, besides OnlineIsUp ("the last will").
\* An error doesn't end the states, "the next pass tries again" (_publisher): but one of the broker's answers does.
RevokedAlwaysGoes == \A i \in Instances : Stays(i) ~> ~Stays(i)
\* Turned off, the devices and every state it left on the broker are removed (forget).
ForgottenIsGone == gone = "all" => \A topic \in Topics \ {Status} : retained[topic] \in {Nobody, ""}
\* "A device no longer shared: Home Assistant removes it" (Removes): but the choice is saved by a request that
\* restarts the bridge, and the new connection no longer knows which devices it had announced.
UnsharedIsRemoved == \A t \in Tasks, i \in Instances : AtRest(t) /\ i \notin shared => retained[Device(i)] # "shown"
\* A command is only what the owner allows: off until the owner turns it on (AppliesCommands).
AllowedWhenDone == \A t \in Tasks : AppliesCommands(t) => cfg.control
\* A module no longer there leaves nothing on the broker for any client to read (Clears).
RemovedIsCleared == \A t \in Tasks, i \in Instances : AtRest(t) /\ i \notin cfg.have => retained[State(i)] # "value"
\* Turning MQTT off turns it off (ForgetFails).
OffIsOff == \A r \in Requests : req[r].op = "off" /\ req'[r].pc = "idle" /\ req[r].pc # "idle" => ~cfg'.on
=============================================================================
