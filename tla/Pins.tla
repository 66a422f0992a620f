-------------------------------- MODULE Pins --------------------------------
(***************************************************************************)
(* The GPIO header: the devices of the Hardware tab, which the firmware sets *)
(* up at boot (hardware/devices.py, routes.py, mirrordash-gpio-overlays),   *)
(* and the lines module instances ask the core for (hardware/gpio.py,       *)
(* client.py's _hand_over_gpio_lines, instance.py's HostLink.gpio).         *)
(***************************************************************************)
EXTENDS Naturals, FiniteSets

CONSTANTS Header,     \* GPIO_HEADER_PINS
          I2CPins,    \* those an I2C device takes
          Wired,      \* the device types wired to one pin; "light" is the I2C one
          Users,      \* module instances that ask for a line
          Savers,     \* requests that change the devices, at once
          PinScenes,  \* how much of each kind of happening a behaviour has
          Nowhere     \* no device, no holder

PinsAssumption ==
  /\ I2CPins \subseteq Header /\ "light" \notin Wired /\ Nowhere \notin Header \cup Users
  /\ PinScenes \subseteq [changes : Nat, restores : Nat, emptied : Nat, failures : Nat, late : Nat, boots : Nat, cuts : Nat]

VARIABLES saved,   \* the config: [devices, overlays, pending]
          card,    \* the overlays in the card's config.txt
          boot,    \* the OS's boots, counted
          active,  \* the overlays the firmware applied at this one
          change,  \* each saver: [pc, devices, config]
          line,    \* the kernel: who holds each line
          user,    \* each instance: [stage, pin, waits, held] of its request and its process
          slip,    \* history: what went another way since it was last put right: "wiring", "line"
          may      \* how much of each kind of happening is left

wiring == <<saved, card, boot, active, change>>
lines == <<line, user>>
vars == <<wiring, lines, slip, may>>

Types == Wired \cup {"light"}
NoDevices == [type \in Types |-> Nowhere]
Used(devices) == {devices[type] : type \in Wired} \cup (IF devices["light"] # Nowhere THEN I2CPins ELSE {})
NoChange == [pc |-> "idle", op |-> "save", devices |-> NoDevices, overlays |-> NoDevices]
NoRequest == [stage |-> "none", pin |-> Nowhere, waits |-> FALSE, held |-> {}]

Init == /\ saved = [devices |-> NoDevices, overlays |-> NoDevices, pending |-> 0] /\ card = NoDevices
        /\ boot = 1 /\ active = NoDevices /\ change = [s \in Savers |-> NoChange]
        /\ line = [pin \in Header |-> Nowhere] /\ user = [i \in Users |-> NoRequest] /\ may \in PinScenes /\ slip = {}

Happens(what) == may[what] > 0 /\ may' = [may EXCEPT ![what] = @ - 1]

-----------------------------------------------------------------------------
(* The Hardware tab.                                                       *)

\* validate_devices, and the helper's own checks: one device a pin, no pin of I2C's beside the light sensor.
Valid(devices) == /\ \A a, b \in Wired : a # b /\ devices[a] # Nowhere => devices[a] # devices[b]
                  /\ devices["light"] # Nowhere => \A type \in Wired : devices[type] \notin I2CPins

\* add_device, remove_device, and sync_gpio_overlays as far as the helper's answer: the config as read then.
Changes(s) ==
  /\ change[s].pc = "idle" /\ Happens("changes")
  /\ \E type \in Types, where \in Header \cup {Nowhere} :
       LET devices == [saved.devices EXCEPT ![type] = where]
       IN  /\ devices # saved.devices /\ Valid(devices)
           /\ change' = [change EXCEPT ![s] = [pc |-> "writes", op |-> "save", devices |-> devices,
                                                  overlays |-> saved.overlays]]
  /\ UNCHANGED <<saved, card, boot, active, lines, slip>>

\* _restore_config: the backup's devices, the overlays as if never written.
Restores(s) ==
  /\ change[s].pc = "idle" /\ \E kind \in {"restores", "emptied"} :
       /\ Happens(kind)
       /\ \E devices \in [Types -> Header \cup {Nowhere}] :
            /\ Valid(devices) /\ (devices = NoDevices <=> kind = "emptied")
            /\ change' = [change EXCEPT ![s] = [pc |-> "writes", op |-> "restore", devices |-> devices,
                                                    overlays |-> NoDevices]]
  /\ UNCHANGED <<saved, card, boot, active, lines, slip>>

WiredAlready(s) == change[s].overlays = change[s].devices
Done(s) == change' = [change EXCEPT ![s] = NoChange]

Writes(s) ==  \* write_gpio_overlays: the helper replaces the overlays
  /\ change[s].pc = "writes" /\ ~WiredAlready(s)
  /\ card' = change[s].devices /\ change' = [change EXCEPT ![s].pc = "written"] /\ slip' = slip \ {"wiring"}
  /\ UNCHANGED <<saved, boot, active, lines, may>>

WriteFails(s) ==  \* before it wrote or (it took too long) after; a restore goes on with the rest of its config
  /\ change[s].pc = "writes" /\ ~WiredAlready(s) /\ Done(s)
  /\ \/ Happens("failures") /\ UNCHANGED card
     \/ Happens("late") /\ card' = change[s].devices
  /\ saved' = IF change[s].op = "save" THEN saved
              ELSE [saved EXCEPT !.devices = change[s].devices, !.overlays = NoDevices]
  /\ slip' = IF card' = saved'.devices THEN slip ELSE slip \cup {"wiring"}
  /\ UNCHANGED <<boot, active, lines>>

Saves_NoRestart(s) ==  \* (mutant) nothing says that a restart is needed
  /\ change[s].pc = "written" \/ (change[s].pc = "writes" /\ WiredAlready(s))
  /\ saved' = [saved EXCEPT !.devices = change[s].devices, !.overlays = change[s].devices]
  /\ Done(s) /\ UNCHANGED <<card, boot, active, lines, slip, may>>
Saves(s) ==  \* active after the next boot: this one is remembered
  /\ change[s].pc = "written" \/ (change[s].pc = "writes" /\ WiredAlready(s))
  /\ saved' = [devices |-> change[s].devices, overlays |-> change[s].devices,
               pending |-> IF WiredAlready(s) THEN saved.pending ELSE boot]
  /\ Done(s) /\ UNCHANGED <<card, boot, active, lines, slip, may>>

Reboots ==  \* whatever was going on
  /\ Happens("boots") /\ boot' = boot + 1 /\ active' = card /\ change' = [s \in Savers |-> NoChange]
  /\ line' = [pin \in Header |-> Nowhere] /\ user' = [i \in Users |-> NoRequest]
  /\ slip' = IF card = saved.devices THEN {} ELSE {"wiring"}
  /\ UNCHANGED <<saved, card>>

-----------------------------------------------------------------------------
(* Lines for the modules.                                                  *)

Asks(i) ==  \* self.gpio, again after its run_loop started again
  /\ user[i].stage = "none"
  /\ \E pin \in Header \ user[i].held : user' = [user EXCEPT ![i].stage = "asked", ![i].pin = pin, ![i].waits = TRUE]
  /\ UNCHANGED <<wiring, line, slip, may>>

\* free_pins; and what the kernel refuses: a line that an overlay, or another request, holds.
FreePins == Header \ Used(saved.devices)
Busy(pin) == line[pin] # Nowhere \/ pin \in Used(active)

HandsOver(i) ==  \* or says why not, which ends the request
  /\ user[i].stage = "asked"
  /\ IF user[i].pin \in FreePins /\ ~Busy(user[i].pin)
       THEN line' = [line EXCEPT ![user[i].pin] = i] /\ user' = [user EXCEPT ![i].stage = "sent"]
       ELSE UNCHANGED line /\ user' = [user EXCEPT ![i] = [NoRequest EXCEPT !.held = user[i].held]]
  /\ UNCHANGED <<wiring, slip, may>>

Closes(pins) == line' = [pin \in Header |-> IF pin \in pins THEN Nowhere ELSE line[pin]]
Settled(i, held) == user' = [user EXCEPT ![i] = [NoRequest EXCEPT !.held = held]]

Arrives_Late(i) ==  \* (mutant) nobody closes what comes too late
  /\ user[i].stage = "sent" /\ UNCHANGED line
  /\ IF user[i].waits THEN user' = [user EXCEPT ![i].stage = "given"] ELSE Settled(i, user[i].held)
  /\ UNCHANGED <<wiring, slip, may>>
Arrives(i) ==  \* fd_arrived
  /\ user[i].stage = "sent"
  /\ IF user[i].waits THEN user' = [user EXCEPT ![i].stage = "given"] /\ UNCHANGED line
                      ELSE Settled(i, user[i].held) /\ Closes({user[i].pin})
  /\ UNCHANGED <<wiring, slip, may>>

Takes(i) ==
  /\ user[i].stage = "given" /\ Settled(i, user[i].held \cup {user[i].pin})
  /\ UNCHANGED <<wiring, line, slip, may>>

\* The module gives up waiting (GPIO_TIMEOUT, a cancelled task); just as the answer came, its line is lost.
GivesUp(i) ==
  /\ user[i].waits
  /\ \/ user[i].stage \in {"asked", "sent"} /\ user' = [user EXCEPT ![i].waits = FALSE] /\ UNCHANGED <<slip, may>>
     \/ user[i].stage = "given" /\ Happens("cuts") /\ Settled(i, user[i].held) /\ slip' = slip \cup {"line"}
  /\ UNCHANGED <<wiring, line>>

LoopEnds(i) ==  \* release_gpio, and the request that its run_loop waits for is given up
  /\ user[i].held # {} /\ user[i].stage # "given" /\ Closes(user[i].held)
  /\ user' = [user EXCEPT ![i].held = {}, ![i].waits = FALSE] /\ UNCHANGED <<wiring, slip, may>>

-----------------------------------------------------------------------------
Next == \/ \E s \in Savers : Changes(s) \/ Restores(s) \/ Writes(s) \/ WriteFails(s) \/ Saves(s)
        \/ \E i \in Users : Asks(i) \/ HandsOver(i) \/ Arrives(i) \/ Takes(i) \/ GivesUp(i) \/ LoopEnds(i)
        \/ Reboots
Spec == Init /\ [][Next]_vars

-----------------------------------------------------------------------------
(* What must hold.                                                         *)

TypeOK == /\ {saved.devices, saved.overlays, card, active} \subseteq [Types -> Header \cup {Nowhere}]
          /\ line \in [Header -> Users \cup {Nowhere}] /\ boot \in Nat /\ saved.pending \in 0..boot
          /\ \A i \in Users : user[i].held \subseteq Header

\* When no change is on its way, the card has the overlays of the devices that were saved; and when no restart is
\* asked for, the firmware runs exactly those and no module holds one of their pins (sync_gpio_overlays, the
\* pending boot, free_pins); and the next change that is written puts right what a power cut or a late helper left.
Calm == \A s \in Savers : change[s].pc = "idle"
WiringIsSaved ==
  Calm /\ "wiring" \notin slip =>
            /\ TypeOK /\ card = saved.devices
            /\ saved.pending # boot => /\ active = saved.devices
                                       /\ \A pin \in Header \cap Used(saved.devices) : line[pin] = Nowhere

\* A line is held by the module that has it or is about to get it: one that came too late for its request, or
\* belonged to a run_loop that ended, is free again (fd_arrived, release_gpio).
NoLineLost == \A pin \in Header : line[pin] # Nowhere /\ "line" \notin slip =>
                LET i == line[pin] IN pin \in user[i].held \/ (user[i].stage \in {"sent", "given"} /\ user[i].pin = pin)
\* What the code means and does not keep: an error is told when nothing was written (write_gpio_overlays), a restore
\* writes the backup's devices for this card (_restore_config), and a request given up closes its line (fd_arrived).
WiringAlwaysSaved == Calm => card = saved.devices
LineAlwaysBack == \A pin \in Header : line[pin] # Nowhere => user[line[pin]].stage # "none" \/ pin \in user[line[pin]].held
=============================================================================
