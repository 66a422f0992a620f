------------------------------- MODULE Drawer -------------------------------
(***************************************************************************)
(* The settings drawer's questions to a module (preview, choices of a list) *)
(* and the short-lived settings process that answers them while no instance *)
(* of the module runs: settings_process.py, throwaway.py, preview.py,        *)
(* choices.py, client.py's preview, choices and _connection_for.             *)
(***************************************************************************)
EXTENDS Integers, FiniteSets

CONSTANTS Askers,      \* requests of the drawer under way at once
          Slots,       \* processes of the module at once
          Idle,        \* SETTINGS_IDLE, in steps a little longer than any request (REQUEST_TIMEOUT)
          MaxInstalls  \* bound: how often the module is reinstalled

DrawerAssumption == Slots \cap {0, -1} = {} /\ Idle \in Nat \ {0} /\ MaxInstalls \in Nat

VARIABLES code,      \* the module's installed version
          reloaded,  \* its version when the modules were last reloaded
          host,      \* the module host is connected
          instance,  \* an instance of the module runs
          table,     \* _conns: the settings process, NoSlot without one
          timer,     \* _timers: the process it closes, and how long from now
          proc,      \* processes: [st, code (0: not imported yet), asked (steps ago)]
          ask        \* requests: [pc, conn, floor]: where they wait, and reloaded when they came

vars == <<code, reloaded, host, instance, table, timer, proc, ask>>

NoSlot == 0
Own == -1  \* an instance's own process
NoTimer == [conn |-> NoSlot, left |-> 0]
NoProc == [st |-> "none", code |-> 0, asked |-> 0]
NoAsk == [pc |-> "none", conn |-> NoSlot, floor |-> 0]

Init == /\ code = 1 /\ reloaded = 1 /\ host = TRUE /\ instance \in BOOLEAN /\ table = NoSlot /\ timer = NoTimer
        /\ proc = [s \in Slots |-> NoProc] /\ ask = [a \in Askers |-> NoAsk]

Waits(a) == ask[a].pc \in {"asked", "works"}

\* Connection.close, or its end: what waits on its answers fails.
WithoutConns(conns) == [a \in Askers |-> IF Waits(a) /\ ask[a].conn \in conns THEN NoAsk ELSE ask[a]]
Closed(conns) == [s \in Slots |-> IF s \in conns /\ proc[s].st = "open" THEN [proc[s] EXCEPT !.st = "closed"] ELSE proc[s]]
Closes(conns) == proc' = Closed(conns) /\ ask' = WithoutConns(conns)

-----------------------------------------------------------------------------
(* A question of the drawer.                                               *)

\* SettingsProcesses.get's end: the process stays Idle from now. The question goes to it.
Gets(a, s, floor) ==
  /\ timer' = [conn |-> s, left |-> Idle]
  /\ proc' = [proc EXCEPT ![s].asked = 0]
  /\ ask' = [ask EXCEPT ![a] = [pc |-> "asked", conn |-> s, floor |-> floor]]

\* _connection_for: a process of an instance, or else the settings process. Without a host it is refused.
AsksInstance(a) == /\ ask[a].pc = "none" /\ instance
                   /\ ask' = [ask EXCEPT ![a] = [pc |-> "asked", conn |-> Own, floor |-> 0]]
                   /\ UNCHANGED <<code, reloaded, host, instance, table, timer, proc>>
AsksRunning(a) == /\ ask[a].pc = "none" /\ ~instance /\ host /\ table # NoSlot /\ Gets(a, table, reloaded)
                  /\ UNCHANGED <<code, reloaded, host, instance, table>>
AsksNew(a) == /\ ask[a].pc = "none" /\ ~instance /\ host /\ table = NoSlot
              /\ \E s \in Slots : /\ proc[s] = NoProc /\ proc' = [proc EXCEPT ![s].st = "open"]
                                  /\ ask' = [ask EXCEPT ![a] = [pc |-> "opens", conn |-> s, floor |-> reloaded]]
              /\ UNCHANGED <<code, reloaded, host, instance, table, timer>>
\* Its connection stands (_open_instance): it goes into the table, whatever is there by now.
Opens(a) == /\ ask[a].pc = "opens" /\ table' = ask[a].conn /\ Gets(a, ask[a].conn, ask[a].floor)
            /\ UNCHANGED <<code, reloaded, host, instance>>

\* A throwaway instance is made in the process, of the code it imported at its first question.
Works(a) == /\ ask[a].pc = "asked" /\ ask[a].conn \in {Own} \cup {s \in Slots : proc[s].st = "open"}
            /\ proc' = IF ask[a].conn = Own \/ proc[ask[a].conn].code # 0 THEN proc ELSE [proc EXCEPT ![ask[a].conn].code = code]
            /\ ask' = [ask EXCEPT ![a].pc = "works"] /\ UNCHANGED <<code, reloaded, host, instance, table, timer>>

\* Its card or choices, an error of the module's, or PREVIEW_TIMEOUT and CHOICES_TIMEOUT.
Answers(a) == /\ ask[a].pc = "works" /\ ask' = [ask EXCEPT ![a] = NoAsk]
              /\ UNCHANGED <<code, reloaded, host, instance, table, timer, proc>>
\* A question sent on a connection that is closed by now, and one that had no answer in REQUEST_TIMEOUT.
Fails(a) == /\ Waits(a) /\ ask' = [ask EXCEPT ![a] = NoAsk] /\ UNCHANGED <<code, reloaded, host, instance, table, timer, proc>>

-----------------------------------------------------------------------------
(* The end of a process.                                                   *)

Fires == /\ timer # NoTimer /\ timer.left = 0 /\ Closes({timer.conn}) /\ timer' = NoTimer
         /\ UNCHANGED <<code, reloaded, host, instance, table>>
Dies(s) == proc[s].st = "open" /\ proc' = Closed({s}) /\ UNCHANGED <<code, reloaded, host, instance, table, timer, ask>>
\* _serve: the connection's end was read.
Serves(s) == /\ proc[s].st = "closed" /\ ~(\E a \in Askers : ask[a].pc = "opens" /\ ask[a].conn = s)
             /\ proc' = [proc EXCEPT ![s] = NoProc] /\ ask' = WithoutConns({s})
             /\ IF table = s THEN table' = NoSlot /\ timer' = NoTimer ELSE UNCHANGED <<table, timer>>
             /\ UNCHANGED <<code, reloaded, host, instance>>

Reinstalls == /\ code <= MaxInstalls /\ code' = code + 1 /\ UNCHANGED <<reloaded, host, instance, table, timer, proc, ask>>
\* reload_modules: close_all, for the module's code may be new; an instance may have been added or removed.
Reloads_KeepsThem ==  \* (mutant) the settings processes stay
  /\ reloaded' = code /\ instance' \in BOOLEAN /\ UNCHANGED <<code, host, table, timer, proc, ask>>
Reloads ==
  /\ reloaded' = code /\ instance' \in BOOLEAN /\ Closes({table})
  /\ UNCHANGED <<code, host, table, timer>>

\* The host's end is the end of every process (_disconnected).
HostGoes == /\ host /\ host' = FALSE /\ instance' = FALSE /\ proc' = Closed(Slots) /\ ask' = WithoutConns({table, Own})
            /\ UNCHANGED <<code, reloaded, table, timer>>
HostBack == ~host /\ host' = TRUE /\ instance' \in BOOLEAN /\ UNCHANGED <<code, reloaded, table, timer, proc, ask>>

\* A step of time: longer than a question waits, and than what opens or ends takes.
Tick == /\ \A a \in Askers : ask[a].pc = "none"
        /\ \A s \in Slots : proc[s].st # "closed" /\ proc[s].asked <= Idle
        /\ ~(timer # NoTimer /\ timer.left = 0)
        /\ timer' = IF timer = NoTimer THEN timer ELSE [timer EXCEPT !.left = @ - 1]
        /\ proc' = [s \in Slots |-> IF proc[s].st = "open" THEN [proc[s] EXCEPT !.asked = @ + 1] ELSE proc[s]]
        /\ UNCHANGED <<code, reloaded, host, instance, table, ask>>

Next == \/ \E a \in Askers : AsksInstance(a) \/ AsksRunning(a) \/ AsksNew(a) \/ Opens(a) \/ Works(a) \/ Answers(a) \/ Fails(a)
        \/ \E s \in Slots : Dies(s) \/ Serves(s)
        \/ Fires \/ Reinstalls \/ Reloads \/ HostGoes \/ HostBack \/ Tick
Spec == Init /\ [][Next]_vars

-----------------------------------------------------------------------------
(* What must hold.                                                         *)

TypeOK == /\ code \in 1..(MaxInstalls + 1) /\ reloaded \in 1..code /\ {host, instance} \subseteq BOOLEAN
          /\ table \in Slots \cup {NoSlot} /\ timer \in [conn : Slots \cup {NoSlot}, left : 0..Idle]
          /\ proc \in [Slots -> [st : {"none", "open", "closed"}, code : 0..(MaxInstalls + 1), asked : 0..(Idle + 1)]]
          /\ ask \in [Askers -> [pc : {"none", "opens", "asked", "works"}, conn : Slots \cup {NoSlot, Own}, floor : 0..(MaxInstalls + 1)]]

\* A question is answered by code at least as new as when the modules were last reloaded before it, and never cut
\* off by the timer of a question before it (reload_modules' close_all, SettingsProcesses.get).
AnswersAreNew ==
  /\ TypeOK
  /\ \A a \in Askers : ask[a].pc = "works" /\ ask[a].conn # Own => proc[ask[a].conn].code >= ask[a].floor
  /\ timer # NoTimer /\ timer.left = 0 => ~(\E a \in Askers : Waits(a) /\ ask[a].conn = timer.conn)

\* A settings process "stops SETTINGS_IDLE seconds after it was last asked" (settings_process.py's docstring).
IdleProcessesStop == \A s \in Slots : proc[s].st = "open" => proc[s].asked <= Idle
=============================================================================
