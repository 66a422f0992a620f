-------------------------------- MODULE Fetch --------------------------------
(***************************************************************************)
(* A module's self.fetch (module_fetch.py): one request that tasks of an    *)
(* instance make again and again, its last good answer saved in the         *)
(* instance's cache folder, and the wait while the screen is off.           *)
(***************************************************************************)
EXTENDS Integers

CONSTANTS Tasks,        \* of the instance that make the same request: its loop, its on_shown
          MaxAge,       \* default_max_age: the module's interval, in steps of time
          KeepRunning,  \* the module's keep_running
          MaxTime       \* bound: steps of time

FetchAssumption == MaxAge \in Nat \ {0} /\ KeepRunning \in BOOLEAN /\ MaxTime \in Nat

VARIABLES now,
          awake,   \* the screen is on
          cache,   \* the saved answer: when it was downloaded, or None, or Half (cut off while it was written)
          task,    \* each task: where its fetch is, its answer [data (None or when it was downloaded), error], and
                   \* (history only) whether one was saved whole before it
          called,  \* history: when the API last answered well
          good     \* history: an answer was saved whole

vars == <<now, awake, cache, task, called, good>>

None == -1
Half == -2
NoFetch == [pc |-> "idle", data |-> None, error |-> "none", after |-> FALSE]
Answered(data, error) == [pc |-> "answered", data |-> data, error |-> error, after |-> good]

Init == now = 0 /\ awake \in BOOLEAN /\ cache = None /\ task = [t \in Tasks |-> NoFetch] /\ called = None /\ good = FALSE

\* _read_cached_answer: without a file, or one that doesn't parse, none.
Saved == IF cache = Half THEN None ELSE cache

\* fetch as far as its wait: a saved answer younger than max_age is the answer.
Fetches(t) ==
  /\ task[t].pc = "idle"
  /\ task' = [task EXCEPT ![t] = IF Saved # None /\ now - Saved < MaxAge THEN Answered(Saved, "none") ELSE [@ EXCEPT !.pc = "waits"]]
  /\ UNCHANGED <<now, awake, cache, called, good>>
Calls(t) == /\ task[t].pc = "waits" /\ TRUE \in {awake, KeepRunning} /\ task' = [task EXCEPT ![t].pc = "calls"]
            /\ UNCHANGED <<now, awake, cache, called, good>>
\* The download is done and parsed.
Downloads(t) == /\ task[t].pc = "calls" /\ task' = [task EXCEPT ![t].pc = "saves"] /\ called' = now
                /\ UNCHANGED <<now, awake, cache, good>>
\* _save_answer: a file beside it that takes its place, or none of it (a full disk).
Saves_InPlace(t) ==  \* (mutant) written where it is read
  /\ task[t].pc = "saves" /\ cache' \in {now, Half} /\ good' = TRUE
  /\ task' = [task EXCEPT ![t] = IF cache' = Half THEN NoFetch ELSE Answered(now, "none")]
  /\ UNCHANGED <<now, awake, called>>
Saves(t) ==
  /\ task[t].pc = "saves" /\ cache' \in {now, cache} /\ good' = (good \/ cache' = now)
  /\ task' = [task EXCEPT ![t] = Answered(now, "none")] /\ UNCHANGED <<now, awake, called>>
\* No answer, an error, or one that doesn't parse: the last good one, whatever its age.
FailsTo(t) == /\ task[t].pc = "calls" /\ \E error \in {"offline", "rejected", "invalid"} : task' = [task EXCEPT ![t] = Answered(Saved, error)]
              /\ UNCHANGED <<now, awake, cache, called, good>>
\* The module takes the answer, and calls again some time.
Shows(t) == /\ task[t].pc = "answered" /\ task' = [task EXCEPT ![t] = NoFetch] /\ UNCHANGED <<now, awake, cache, called, good>>

\* The process ends in the middle of any of it, and starts again. The cache stays.
Restarts == task' = [t \in Tasks |-> NoFetch] /\ UNCHANGED <<now, awake, cache, called, good>>
ScreenTurns == awake' = ~awake /\ UNCHANGED <<now, cache, task, called, good>>
\* A call and its save take no step of time.
Tick == /\ now < MaxTime /\ \A t \in Tasks : task[t].pc \in {"idle"} \cup (IF TRUE \in {awake, KeepRunning} THEN {} ELSE {"waits"})
        /\ now' = now + 1 /\ UNCHANGED <<awake, cache, task, called, good>>

Next == (\E t \in Tasks : Fetches(t) \/ Calls(t) \/ Downloads(t) \/ Saves(t) \/ FailsTo(t) \/ Shows(t)) \/ Restarts \/ ScreenTurns \/ Tick
Spec == Init /\ [][Next]_vars

-----------------------------------------------------------------------------
(* What must hold.                                                         *)

\* "On an error, answer is the last good one": once one was saved, no answer comes without data, however the process
\* ended since ("written whole or not at all"); and one without an error is younger than the interval.
LastGoodShown == \A t \in Tasks : task[t].pc = "answered" => /\ task[t].after => task[t].data # None
                                                             /\ task[t].error = "none" => now - task[t].data < MaxAge

\* max_age: "a paid API keeps to its schedule by itself". A saved answer is asked for again no sooner than an interval later,
\* and a fetch that fell due in the dark happens once, on waking.
KeepsToSchedule == called' # called => cache = None \/ now - cache >= MaxAge
=============================================================================
