------------------------------ MODULE Settings ------------------------------
(***************************************************************************)
(* The mirror's settings: config.json with its last good copy, and the     *)
(* requests that read the settings, wait for something slow (a password's   *)
(* hash, systemctl, the root helper that writes the boot configuration, a   *)
(* restore's installs) and save them.  Each saves the settings whole.       *)
(***************************************************************************)
EXTENDS Naturals, FiniteSets

CONSTANTS Instances,  \* ids of instances of one installed module
          Devices,    \* what can be wired to the header: [type, at], at a GPIO or an I2C address
          Slots,      \* requests that can be waiting at once
          Scenes,     \* what may happen in a behaviour; see SceneOK
          Absent, Broken, Cold  \* no file, a file that doesn't read, nothing cached

VARIABLES file,       \* config.json: settings, Absent or Broken
          bak,        \* config.json.bak: settings or Absent
          cache,      \* _config_cache: settings or Cold
          boot,       \* what the boot configuration wires (config.txt)
          phase,      \* the core: "down", "moved" (a broken file put aside, the copy not saved yet), "up"
          task,       \* the request in each slot
          backup,     \* the newest backup file
          scene, used,    \* the scene played, and how much of each kind of happening was used
          shown, reverted,  \* histories: the newest recovery code an answer showed, and whether another came back by a
                            \* wiring, the last good copy or the defaults
          left, trusted     \* the instances that uninstalls removed, what was saved since a save first found
                            \* settings that read

files == <<file, bak, cache>>
histories == <<shown, reverted, left, trusted>>
vars == <<file, bak, cache, boot, phase, task, backup, scene, used, shown, reverted, left, trusted>>

Waiting == {"setup", "change", "recover", "ssh", "wire", "restore"}
Codes == 0..9
NoAuth == [pw |-> 0, code |-> 0]
Config == [globals : 0..1, bright : 0..1, ssh : BOOLEAN, token : BOOLEAN, inst : SUBSET Instances,
           share : SUBSET Instances, auth : [pw : Codes, code : Codes], dev : SUBSET Devices, gpio : SUBSET Devices]
SceneOK(s) == /\ s.kinds \subseteq Waiting /\ s.quick \subseteq {"globals", "bright", "token", "modules"}
              /\ {s.saves, s.cuts, s.breaks} \subseteq Nat /\ s.tasks \in Codes /\ s.set_up \in BOOLEAN /\ s.repair_cut \in BOOLEAN

SettingsAssumption == /\ \A s \in Scenes : SceneOK(s)
                      /\ {Absent, Broken, Cold} \cap Config = {} /\ Absent # Broken /\ Cold \notin {Absent, Broken}

Default == [globals |-> 0, bright |-> 0, ssh |-> FALSE, token |-> FALSE, inst |-> {}, share |-> {},
            auth |-> NoAuth, dev |-> {}, gpio |-> {}]
NoTask == [kind |-> "none", pc |-> "idle", cfg |-> Default, id |-> 0]
NoBackup == [cfg |-> Default, encrypted |-> FALSE, made |-> FALSE]

\* A mirror with a password that runs, or the first start of a new one: no settings file yet.
Init == /\ scene \in Scenes
        /\ IF scene.set_up THEN /\ cache = [Default EXCEPT !.auth = [pw |-> 1, code |-> 1]] /\ file = cache
                                /\ phase = "up" /\ shown = 1
           ELSE cache = Cold /\ file = Absent /\ phase = "down" /\ shown = 0
        /\ bak = Absent /\ boot = {} /\ task = [t \in Slots |-> NoTask] /\ backup = NoBackup
        /\ used = [saves |-> 0, tasks |-> 1, cuts |-> 0, breaks |-> 0] /\ reverted = FALSE /\ left = {} /\ trusted = {}

Uses(what) == used[what] < scene[what] /\ used' = [used EXCEPT ![what] = @ + 1]
Readable(f) == f \notin {Absent, Broken}
Reverts == reverted' = (cache'.auth.code # shown)
Trusts(c) == IF Readable(file) THEN {file, c} ELSE IF trusted = {} THEN {} ELSE trusted \union {c}

-----------------------------------------------------------------------------
(* The file.                                                               *)

Save_CopiesBroken(c) ==  \* (mutant) whatever is there becomes the last good copy
  /\ bak' = file
  /\ file' = c /\ cache' = c /\ trusted' = Trusts(c)

\* save_config: the file as it is becomes the last good copy, but only when it reads.
Save(c) == /\ bak' = IF Readable(file) THEN file ELSE bak
           /\ file' = c /\ cache' = c /\ trusted' = Trusts(c)

\* A power cut ends every request, between two steps or in a save, once the last good copy is written.
Cut ==
  /\ phase \in {"up", "moved"} /\ (phase = "moved" => scene.repair_cut) /\ Uses("cuts")
  /\ phase' = "down" /\ cache' = Cold /\ task' = [t \in Slots |-> NoTask]
  /\ bak' \in {bak} \union (IF Readable(file) THEN {file} ELSE {})
  /\ UNCHANGED <<file, boot, backup, scene, histories>>

\* A hand edit that doesn't read (over SSH, or on the card): the core notices at its next start.
Break ==
  /\ phase # "moved" /\ Readable(file) /\ Uses("breaks") /\ file' = Broken
  /\ UNCHANGED <<bak, cache, boot, phase, task, backup, scene, histories>>

\* load_config at a start.
Start ==
  /\ phase = "down"
  /\ \/ /\ Readable(file) /\ cache' = file /\ phase' = "up" /\ UNCHANGED <<file, bak, histories>>
     \/ /\ file = Absent /\ Save(Default) /\ Reverts /\ phase' = "up" /\ UNCHANGED <<shown, left>>
     \/ /\ file = Broken /\ file' = Absent /\ phase' = "moved" /\ UNCHANGED <<bak, cache, histories>>
  /\ UNCHANGED <<boot, task, backup, scene, used>>

\* _read_config_or_last_good_copy after it has put the broken file aside.
UseLastGoodCopy ==
  /\ phase = "moved" /\ phase' = "up"
  /\ Save(IF Readable(bak) THEN bak ELSE Default) /\ Reverts
  /\ UNCHANGED <<boot, task, backup, scene, used, shown, left>>

-----------------------------------------------------------------------------
(* Settings that are read and saved in one step of the event loop.         *)

SaveNow(part, c) ==
  /\ phase = "up" /\ part \in scene.quick /\ c # cache /\ Uses("saves") /\ Save(c)
  /\ UNCHANGED <<boot, phase, task, backup, scene, shown, reverted, left>>

SaveGlobals == SaveNow("globals", [cache EXCEPT !.globals = 1 - @])
SaveBrightness == SaveNow("bright", [cache EXCEPT !.bright = 1 - @])
CreateToken == SaveNow("token", [cache EXCEPT !.token = TRUE])
RemoveToken == SaveNow("token", [cache EXCEPT !.token = FALSE])
SaveInstance(i) == SaveNow("modules", [cache EXCEPT !.inst = @ \union {i}])
SaveMqtt(shared) == SaveNow("modules", [cache EXCEPT !.share = shared \intersect cache.inst])

RemoveInstance_KeepsShare(i) ==  \* (mutant) a removed instance stays shared
  phase = "up" /\ i \in cache.inst /\ SaveNow("modules", [cache EXCEPT !.inst = @ \ {i}])
RemoveInstance(i) ==
  phase = "up" /\ i \in cache.inst /\ SaveNow("modules", [cache EXCEPT !.inst = @ \ {i}, !.share = @ \ {i}])

\* uninstall_module, once the package is gone: its instances go, what is shared of them over MQTT stays.
Uninstall ==
  /\ phase = "up" /\ "modules" \in scene.quick /\ cache.inst # {} /\ Uses("saves")
  /\ Save([cache EXCEPT !.inst = {}]) /\ left' = left \union cache.inst
  /\ UNCHANGED <<boot, phase, task, backup, scene, shown, reverted>>

-----------------------------------------------------------------------------
(* Requests that wait.                                                     *)

\* A request begins: it is given the settings as they are, and an id that stands for what it will set.
Begins(t, kind, pc, cfg) ==
  /\ phase = "up" /\ kind \in scene.kinds /\ task[t] = NoTask /\ Uses("tasks")
  /\ task' = [task EXCEPT ![t] = [kind |-> kind, pc |-> pc, cfg |-> cfg, id |-> used'.tasks]]

At(t, kind, pc) == phase = "up" /\ task[t].kind = kind /\ task[t].pc = pc
Ends(t) == task' = [task EXCEPT ![t] = NoTask]
Shows(code) == shown' = code /\ reverted' = FALSE

\* Setup, a new password and a recovery hash in a thread; only then the settings are read again and saved.
SignInBegins(t) ==
  /\ phase = "up"
  /\ \/ cache.auth = NoAuth /\ Begins(t, "setup", "hash", cache)
     \/ cache.auth # NoAuth /\ \E kind \in {"change", "recover"} : Begins(t, kind, "hash", cache)
  /\ UNCHANGED <<files, boot, phase, backup, scene, histories>>

SetupSaves_First(t) ==  \* (mutant) "already set" is asked only before the hashing
  /\ At(t, "setup", "hash") /\ Ends(t) /\ Shows(task[t].id)
  /\ Save([cache EXCEPT !.auth = [pw |-> task[t].id, code |-> task[t].id]])
  /\ UNCHANGED <<boot, phase, backup, scene, used, left>>

SetupSaves(t) ==
  /\ At(t, "setup", "hash") /\ Ends(t)
  /\ IF cache.auth = NoAuth THEN /\ Save([cache EXCEPT !.auth = [pw |-> task[t].id, code |-> task[t].id]])
                                 /\ Shows(task[t].id)
                            ELSE UNCHANGED <<files, shown, reverted, trusted>>
  /\ UNCHANGED <<boot, phase, backup, scene, used, left>>

ChangeSaves_Stale(t) ==  \* (mutant) the settings read before the hashing are saved
  /\ At(t, "change", "hash") /\ Ends(t)
  /\ Save([task[t].cfg EXCEPT !.auth.pw = task[t].id])
  /\ UNCHANGED <<boot, phase, backup, scene, used, shown, reverted, left>>

ChangeSaves(t) ==
  /\ At(t, "change", "hash") /\ Ends(t)
  /\ Save([cache EXCEPT !.auth.pw = task[t].id])
  /\ UNCHANGED <<boot, phase, backup, scene, used, shown, reverted, left>>

RecoverSaves(t) ==
  /\ At(t, "recover", "hash") /\ Ends(t) /\ Shows(task[t].id)
  /\ Save([cache EXCEPT !.auth = [pw |-> task[t].id, code |-> task[t].id]])
  /\ UNCHANGED <<boot, phase, backup, scene, used, left>>

\* update_system_settings with only "ssh": every system setting is read before the wait for SSH ...
SshBegins(t) == /\ phase = "up" /\ Begins(t, "ssh", "apply", [cache EXCEPT !.ssh = ~@])
                /\ UNCHANGED <<files, boot, phase, backup, scene, histories>>

\* ... which can refuse the password, or fail ...
ApplySshFails(t) == /\ At(t, "ssh", "apply") /\ Ends(t)
                    /\ UNCHANGED <<files, boot, phase, backup, scene, used, histories>>

\* ... and all of them are put into the settings read after it.
SshSaves_Whole(t) ==  \* (mutant) all that was read before it is saved
  /\ At(t, "ssh", "apply") /\ Ends(t) /\ Save(task[t].cfg) /\ Reverts
  /\ UNCHANGED <<boot, phase, backup, scene, used, shown, left>>

SshSaves(t) ==
  /\ At(t, "ssh", "apply") /\ Ends(t)
  /\ Save([cache EXCEPT !.ssh = task[t].cfg.ssh, !.bright = task[t].cfg.bright])
  /\ UNCHANGED <<boot, phase, backup, scene, used, shown, reverted, left>>

-----------------------------------------------------------------------------
(* What is wired to the header.                                            *)

I2C == {2, 3}   \* the GPIOs the light sensor's bus takes
Fans == {"fan", "pwm_fan"}
OnPin(devs) == {d \in devs : d.type # "light"}
Apart(devs) == \A d, e \in devs : d # e => d.type # e.type /\ (d.type = "light" \/ e.type = "light" \/ d.at # e.at)

\* validate_devices: each type once, each GPIO once, one fan, and the I2C bus to itself.
Valid(devs) ==
  /\ Apart(devs) /\ ~(\A f \in Fans : \E d \in devs : d.type = f)
  /\ (\E d \in devs : d.type = "light") => \A d \in OnPin(devs) : d.at \notin I2C

\* mirrordash-gpio-overlays checks them again, for itself, before it replaces its block as a whole.
HelperTakes(devs) ==
  /\ \A d \in devs : /\ \A e \in devs \ {d} : e.type # d.type /\ (e.at = d.at => d.type = "light")
                     /\ d.type \in Fans => \A e \in devs \ {d} : e.type \notin Fans
  /\ \/ \A d \in devs : d.type # "light"
     \/ \A pin \in I2C : pin \notin {d.at : d \in OnPin(devs)}

\* Add or remove a device: with the wiring as it was (sync_gpio_overlays) they are saved at once, else
\* after the helper's wait, as they were read before it.  Nothing keeps two of them apart, or one from a restore.
WireBegins(t) == \E d \in Devices :
  LET dev == IF d \in cache.dev THEN cache.dev \ {d} ELSE cache.dev \union {d}
      cfg == [cache EXCEPT !.dev = dev] IN
  /\ phase = "up"
  /\ IF dev = cache.gpio
     THEN /\ "wire" \in scene.kinds /\ Uses("tasks") /\ Save(cfg) /\ UNCHANGED <<task, shown, reverted, left>>
     ELSE /\ Valid(dev) /\ Begins(t, "wire", "helper", cfg) /\ UNCHANGED <<files, histories>>
  /\ UNCHANGED <<boot, phase, backup, scene>>

\* write_gpio_overlays: the helper's block is replaced, or (refused, no card space, timeout) nothing is.
HelperWrites(t) ==
  /\ phase = "up" /\ task[t].pc = "helper"
  /\ \/ /\ HelperTakes(task[t].cfg.dev) /\ boot' = task[t].cfg.dev
        /\ task' = [task EXCEPT ![t].pc = "save", ![t].cfg.gpio = task[t].cfg.dev]
     \/ /\ UNCHANGED boot
        /\ task' = [task EXCEPT ![t] = IF task[t].kind = "wire" THEN NoTask ELSE [task[t] EXCEPT !.pc = "save"]]
  /\ UNCHANGED <<files, phase, backup, scene, used, histories>>

\* _save_devices after the helper.
WireSaves(t) ==
  /\ At(t, "wire", "save") /\ Ends(t) /\ Save(task[t].cfg) /\ Reverts
  /\ UNCHANGED <<boot, phase, backup, scene, used, shown, left>>

-----------------------------------------------------------------------------
(* Backup and restore.                                                     *)

WithoutSecrets(c) == [c EXCEPT !.auth = NoAuth]

CreateBackup == \E encrypted \in BOOLEAN :
  /\ phase = "up" /\ "restore" \in scene.kinds /\ ~backup.made
  /\ backup' = [cfg |-> IF encrypted THEN cache ELSE WithoutSecrets(cache), encrypted |-> encrypted, made |-> TRUE]
  /\ UNCHANGED <<files, boot, phase, task, scene, used, histories>>

\* A plain backup leaves out who can sign in: it comes from this mirror, as it is now.
KeepSecrets(restored, current) ==
  IF restored.auth = NoAuth THEN [restored EXCEPT !.auth = current.auth] ELSE restored

\* restore_backup, one job at a time: the backup is unpacked, then its modules are installed one by one ...
RestoreBegins(t) ==
  /\ phase = "up" /\ backup.made /\ \A u \in Slots : task[u].kind # "restore"
  /\ Begins(t, "restore", "install", [backup.cfg EXCEPT !.gpio = {}])
  /\ UNCHANGED <<files, boot, phase, backup, scene, histories>>

\* ... (one that fails is only logged; a module host that can't be asked ends the restore), and the overlays
\* are written for this card, unless there are none to write.
RestoreInstalls(t) ==
  /\ At(t, "restore", "install")
  /\ \/ task' = [task EXCEPT ![t].pc = IF task[t].cfg.dev # {} /\ Valid(task[t].cfg.dev) THEN "helper" ELSE "save"]
     \/ Ends(t)
  /\ UNCHANGED <<files, boot, phase, backup, scene, used, histories>>

\* _restore_config, from the reading of this mirror's settings to the save.
RestoreSaves(t) ==
  /\ At(t, "restore", "save")
  /\ Save(KeepSecrets(task[t].cfg, cache))
  /\ IF task[t].cfg.auth = NoAuth THEN UNCHANGED <<shown, reverted>> ELSE Shows(cache'.auth.code)
  /\ task' = [task EXCEPT ![t].pc = "data"]
  /\ UNCHANGED <<boot, phase, backup, scene, used, left>>

\* The data is put back (_restore_data, _restore_module_data) and the app restarts; data that can't be
\* put back ends the restore with the settings saved.
RestoreEnds(t) ==
  /\ At(t, "restore", "data")
  /\ \/ Ends(t) /\ UNCHANGED <<phase, cache>>
     \/ phase' = "down" /\ cache' = Cold /\ task' = [u \in Slots |-> NoTask]
  /\ UNCHANGED <<file, bak, boot, backup, scene, used, histories>>

Waits(t) == SignInBegins(t) \/ SetupSaves(t) \/ ChangeSaves(t) \/ RecoverSaves(t) \/ SshBegins(t) \/ ApplySshFails(t) \/ SshSaves(t)
              \/ WireBegins(t) \/ HelperWrites(t) \/ WireSaves(t)
              \/ RestoreBegins(t) \/ RestoreInstalls(t) \/ RestoreSaves(t) \/ RestoreEnds(t)

Next == \/ Cut \/ Break \/ Start \/ UseLastGoodCopy
        \/ SaveGlobals \/ SaveBrightness \/ CreateToken \/ RemoveToken \/ Uninstall \/ CreateBackup
        \/ \E i \in Instances : SaveInstance(i) \/ RemoveInstance(i)
        \/ \E shared \in SUBSET Instances : SaveMqtt(shared)
        \/ \E t \in Slots : Waits(t)

Spec == Init /\ [][Next]_vars

-----------------------------------------------------------------------------

TypeOK ==
  /\ file \in Config \union {Absent, Broken} /\ bak \in Config \union {Absent} /\ cache \in Config \union {Cold}
  /\ boot \in SUBSET Devices /\ phase \in {"down", "moved", "up"} /\ (phase = "up" <=> cache # Cold)
  /\ \A t \in Slots : /\ task[t].kind \in Waiting \union {"none"} /\ task[t].cfg \in Config /\ task[t].id \in Codes
                      /\ task[t].pc \in {"idle", "hash", "apply", "install", "helper", "save", "data"}
                      /\ phase # "up" => task[t] = NoTask
  /\ backup.cfg \in Config /\ shown \in Codes /\ left \in SUBSET Instances

\* Once a save has found settings that read, every start loads settings that were saved, never the defaults:
\* through a hand edit that doesn't read, saves on top of it, and cuts.  (save_config copies only a file that
\* reads, _read_config_or_last_good_copy.)  Without a cut between the two steps of a repair.
UsesGoodCopy == (phase # "up" /\ phase' = "up" /\ ~scene.repair_cut /\ trusted # {}) => cache' \in trusted

\* What a request is asked to set: a setup the first password, a new password and a recovery who can sign in, a
\* restore what its backup has.
Own(t) == CASE task[t].kind = "setup" -> IF cache.auth = NoAuth THEN {"auth"} ELSE {}
            [] task[t].kind \in {"change", "recover"} -> {"auth"}
            [] task[t].kind = "ssh" -> {"ssh"}
            [] task[t].kind = "wire" -> {"dev", "gpio"}
            [] task[t].kind = "restore" /\ task[t].cfg.auth = NoAuth -> DOMAIN Default \ {"auth"}
            [] OTHER -> DOMAIN Default
\* What it loaded before its wait and saves after it, whoever set it meanwhile: a wiring everything
\* (features/hardware/routes.py:147, 134), SSH the other system settings (system_settings.py:169).
FromBefore(t) == CASE task[t].kind = "wire" -> DOMAIN Default
                   [] task[t].kind = "ssh" -> {"bright"}
                   [] OTHER -> {}
Saving(t) == task[t] # NoTask /\ task'[t] # task[t] /\ phase = "up" /\ phase' = "up"

\* A request that waited leaves what it wasn't asked to set as it is at its save, whatever others saved meanwhile
\* (auth/routes.py reads the settings after the hash, backup/service.py after the installs); but for what a wiring and
\* SSH have from before their wait, which comes back, and nothing else with it.
SavesOwn == \A t \in Slots : Saving(t) => \A part \in DOMAIN Default \ Own(t) :
              cache'[part] = cache[part] \/ (part \in FromBefore(t) /\ cache'[part] = task[t].cfg[part])

\* The recovery code that works is the newest an answer showed, through slow requests that overlap, hand edits and cuts:
\* two setups cannot both answer with a code, and an older code comes back only with the settings a wiring loaded
\* before, or with the last good copy (or the defaults) in the place of a file that doesn't read; it stays until the
\* next code is shown (setup_auth, recover_auth).  An encrypted backup that is restored brings the code that was shown
\* for it.
ShownCodeWorks == phase = "up" => shown = cache.auth.code \/ reverted

\* What is shared over MQTT has an instance, but for those an uninstall removed (remove_module_config_route);
\* and the root helper, which checks for itself, takes every wiring the page let through (validate_devices).
SettingsFit ==
  /\ TypeOK
  /\ phase = "up" => cache.share \ cache.inst \subseteq left
  /\ \A t \in Slots : task[t].pc = "helper" => HelperTakes(task[t].cfg.dev)

-----------------------------------------------------------------------------
(* What comments and docs say that the code does not do.                    *)

\* What others saved stays, whatever request waited: not so when it is a wiring, or SSH.
OthersStay == \A t \in Slots : Saving(t) => \A part \in DOMAIN Default \ Own(t) : cache'[part] = cache[part]

\* "The code is used up: the answer has a new one" (auth/routes.py): a wiring beside it, or the last good copy, brings the
\* used one back.
ShownAlwaysWorks == phase = "up" => shown = cache.auth.code

\* "SSH is slow, and anything saved meanwhile must not be written over" (system_settings.py): a brightness
\* saved during the wait stays.
KeepsBrightness == \A t \in Slots : (At(t, "ssh", "apply") /\ task'[t] = NoTask /\ phase' = "up") => cache'.bright = cache.bright
SshKeepsBrightness == [][KeepsBrightness]_vars

\* "A file that doesn't read is never overwritten with defaults" while a last good copy is there (config.py).
DefaultsOnlyWithoutCopy == (phase # "up" /\ phase' = "up" /\ Readable(bak)) => cache' # Default \/ Default \in {file, bak}

\* "Write them for this card" (backup/service.py): after a restore that found no error, the card wires what
\* the restored settings name.
RestoreFitsCard ==
  \A t \in Slots : (At(t, "restore", "save") /\ task[t].cfg.gpio = task[t].cfg.dev /\ task'[t].pc = "data") => boot = cache'.gpio

\* "A reinstall starts from defaults" (modules/service.py), so an instance made anew is not shared.
NewInstanceIsUnshared == \A i \in Instances : (cache # Cold /\ cache' # Cold /\ phase = phase' /\ task = task'
                           /\ i \in cache'.inst \ cache.inst) => i \notin cache'.share
=============================================================================
