--------------------------- MODULE MCAdminProofs ---------------------------
(***************************************************************************)
(* Proofs about the parts the admin pages change, each run by itself        *)
(* (MCAdmin): module files, fetches, the drawer's questions, the wiring and *)
(* its lines, the crash guard, the settings and their forms, the button.    *)
(* Each part has an inductive invariant and the theorem that a property     *)
(* follows from it, and last comes what no step of any of them undoes.      *)
(***************************************************************************)
EXTENDS MCAdmin, Integers, TLAPS, SequenceTheorems, FiniteSetTheorems, WellFoundedInduction

(* A behaviour stays one of the component it began as, and each step is a step of that
   component, or leaves it alone. *)
LEMMA StepOfPart == ASSUME [Next]_vars
  PROVE  /\ part' = part
         /\ part = "settings" => [Settings!Next]_SettingsVars
         /\ part = "forms" => [Forms!Next]_FormsVars
         /\ part = "pins" => [Pins!Next]_PinsVars
         /\ part = "files" => [Files!Next]_FilesVars
         /\ part = "drawer" => [Drawer!Next]_DrawerVars
         /\ part = "inputs" => [Inputs!Next]_InputsVars
         /\ part = "fetch" => [Fetch!Next]_FetchVars
         /\ part = "guard" => [CrashGuard!Next]_CrashGuardVars
BY DEF Next, vars

-----------------------------------------------------------------------------
(* Files.                                                                   *)

FileTask == [op : {"none", "writes", "linked", "thumb", "deleted"}, photo : Photos \cup {Files!Nothing},
             thumb : BOOLEAN, name : 0..Len(FileNames)]
FilesScene == [thumbs : SUBSET BOOLEAN, fails : BOOLEAN, cuts : Nat]

FilesTypes ==
  /\ folder \in [Files!Numbers -> Photos \cup {Files!Nothing, Files!Own}]
  /\ thumbs \in [Files!Numbers -> Photos \cup {Files!Nothing}]
  /\ files_task \in FileTask /\ todo \subseteq Photos
  /\ files_scene \in FilesScene
  /\ files_task.op # "none" => files_task.name \in Files!Numbers
  /\ files_task.op \in {"writes", "linked", "thumb"} => files_task.photo \in Photos

\* At most one cut, and if there is one each photo comes with its small copy and it is stored.
FewCuts(s) == s.cuts = 0 \/ (s.cuts = 1 /\ s.thumbs = {TRUE} /\ ~s.fails)
AfterCut == files_scene.thumbs = {TRUE} /\ ~files_scene.fails /\ files_scene.cuts = 0
Storing(n) == files_task.op \in {"linked", "thumb"} /\ files_task.name = n

\* What the core is in the middle of.
RequestInv ==
  /\ FewCuts(files_scene)
  /\ files_task.op \in {"linked", "thumb"} => folder[files_task.name] = files_task.photo
  /\ files_task.op = "deleted" => folder[files_task.name] \in {Files!Own, Files!Nothing}
  /\ files_scene.thumbs = {TRUE} /\ files_task.op \in {"writes", "linked", "thumb"} => files_task.thumb

\* A small copy of another photo is one about to be deleted or replaced; after a cut also one of a name that
\* no photo has.
ThumbsInv ==
  \A n \in Files!Numbers : thumbs[n] # Files!Nothing =>
    \/ folder[n] = thumbs[n]
    \/ files_task.op = "deleted" /\ files_task.name = n
    \/ AfterCut /\ (folder[n] \notin Photos \/ Storing(n))
FilesInv == FilesTypes /\ RequestInv /\ ThumbsInv

(* The names a file may take are numbered, and no photo is called like what is no photo. *)
LEMMA FileNumbers ==
  /\ Files!Numbers \subseteq Nat /\ 0 \notin Files!Numbers /\ 1 \in Files!Numbers
  /\ \A n \in Files!Numbers : n \in 0..Len(FileNames) /\ (n # Len(FileNames) => n + 1 \in Files!Numbers)
  /\ Files!Nothing \notin Photos /\ Files!Own \notin Photos /\ Files!Nothing # Files!Own
BY AdminAssumption DEF Files!FilesAssumption, Files!Numbers, Files!Nothing, Files!Own

(* The request the core is in the middle of keeps its type where one field of it changes. *)
LEMMA TaskEdits == ASSUME NEW r \in FileTask
  PROVE  /\ \A o \in {"linked", "thumb"} :
              /\ [r EXCEPT !.op = o] \in FileTask /\ [r EXCEPT !.op = o].op = o /\ [r EXCEPT !.op = o].name = r.name
              /\ [r EXCEPT !.op = o].photo = r.photo /\ [r EXCEPT !.op = o].thumb = r.thumb
         /\ \A n \in 0..Len(FileNames) :
              /\ [r EXCEPT !.name = n] \in FileTask /\ [r EXCEPT !.name = n].op = r.op
              /\ [r EXCEPT !.name = n].photo = r.photo /\ [r EXCEPT !.name = n].thumb = r.thumb
              /\ [r EXCEPT !.name = n].name = n
  <1>1. \A o \in {"linked", "thumb"} :
          /\ [r EXCEPT !.op = o] \in FileTask /\ [r EXCEPT !.op = o].op = o /\ [r EXCEPT !.op = o].name = r.name
          /\ [r EXCEPT !.op = o].photo = r.photo /\ [r EXCEPT !.op = o].thumb = r.thumb
    BY DEF FileTask
  <1>2. \A n \in 0..Len(FileNames) :
          /\ [r EXCEPT !.name = n] \in FileTask /\ [r EXCEPT !.name = n].op = r.op
          /\ [r EXCEPT !.name = n].photo = r.photo /\ [r EXCEPT !.name = n].thumb = r.thumb
          /\ [r EXCEPT !.name = n].name = n
    BY DEF FileTask
  <1> QED
    BY <1>1, <1>2

(* Between two requests the core is in the middle of nothing; a delete begins from there. *)
LEMMA BlankTask ==
  /\ Files!NoTask \in FileTask /\ Files!NoTask.op = "none"
  /\ \A n \in 0..Len(FileNames) :
       /\ [Files!NoTask EXCEPT !.op = "deleted", !.name = n] \in FileTask
       /\ [Files!NoTask EXCEPT !.op = "deleted", !.name = n].op = "deleted"
       /\ [Files!NoTask EXCEPT !.op = "deleted", !.name = n].name = n
  <1>1. Files!NoTask \in FileTask /\ Files!NoTask.op = "none"
    BY AdminAssumption DEF FileTask, Files!NoTask, Files!FilesAssumption
  <1>2. \A n \in 0..Len(FileNames) :
          /\ [Files!NoTask EXCEPT !.op = "deleted", !.name = n] \in FileTask
          /\ [Files!NoTask EXCEPT !.op = "deleted", !.name = n].op = "deleted"
          /\ [Files!NoTask EXCEPT !.op = "deleted", !.name = n].name = n
    BY DEF FileTask, Files!NoTask
  <1> QED
    BY <1>1, <1>2

(* After the one cut a photo still comes with its small copy. *)
LEMMA CutScene == AfterCut => files_scene.thumbs = {TRUE} /\ ~files_scene.fails
BY DEF AfterCut

(* The files begin empty, with the few cuts the theorem is about. *)
LEMMA FilesInit == ASSUME Files!Init, \A s \in FilesScenes : FewCuts(s) PROVE FilesInv
  <1>1. FilesTypes
    BY FileNumbers, AdminAssumption DEF Files!Init, FilesTypes, FilesScene, FileTask, Files!NoTask,
       Files!FilesAssumption
  <1>2. RequestInv
    BY DEF Files!Init, RequestInv, Files!NoTask
  <1>3. ThumbsInv
    BY DEF Files!Init, ThumbsInv
  <1> QED
    BY <1>1, <1>2, <1>3 DEF FilesInv

(* Each step on the files keeps their invariant. *)
LEMMA FilesStep == ASSUME FilesInv, [Files!Next]_FilesVars PROVE FilesInv'
  <1> USE FileNumbers DEF FilesInv
  <1>1. ASSUME NEW photo \in Photos, NEW thumb \in BOOLEAN, Files!Uploads(photo, thumb) PROVE FilesInv'
    <2>1. files_task.op = "none"
      BY <1>1 DEF Files!Uploads, Files!NoTask
    <2>2. files_task' \in FileTask /\ files_task'.op = "writes" /\ files_task'.photo = photo
          /\ files_task'.thumb = thumb
          /\ files_task'.name = 1
      BY <1>1, <2>1 DEF Files!Uploads, FileTask
    <2>3. files_scene' = files_scene /\ (AfterCut' <=> AfterCut)
      BY <1>1 DEF Files!Uploads, AfterCut
    <2>4. FilesTypes'
      BY <1>1, <2>1, <2>2, <2>3 DEF Files!Uploads, FilesTypes
    <2>5. RequestInv'
      BY <1>1, <2>1, <2>2, <2>3 DEF Files!Uploads, RequestInv, FilesTypes
    <2>6. ThumbsInv'
      BY <1>1, <2>1, <2>2, <2>3 DEF Files!Uploads, ThumbsInv, FilesTypes, Storing, RequestInv
    <2> QED
      BY <2>4, <2>5, <2>6
  <1>2. ASSUME Files!Links PROVE FilesInv'
    <2>1. files_task' \in FileTask /\ files_task'.op = "linked" /\ files_task'.photo = files_task.photo
          /\ files_task'.thumb = files_task.thumb /\ files_task'.name = files_task.name
      BY <1>2, TaskEdits DEF Files!Links, FilesTypes
    <2>2. files_scene' = files_scene /\ (AfterCut' <=> AfterCut)
      BY <1>2 DEF Files!Links, AfterCut
    <2>3. FilesTypes'
      BY <1>2, <2>1, <2>2 DEF Files!Links, FilesTypes
    <2>4. RequestInv'
      BY <1>2, <2>1, <2>2 DEF Files!Links, RequestInv, FilesTypes
    <2>5. ThumbsInv'
      BY <1>2, <2>1, <2>2 DEF Files!Links, ThumbsInv, FilesTypes, Storing, RequestInv
    <2> QED
      BY <2>3, <2>4, <2>5
  <1>3. ASSUME Files!NextName PROVE FilesInv'
    <2>1. files_task.name # Len(FileNames) => files_task.name + 1 \in Files!Numbers
      BY <1>3 DEF Files!NextName, FilesTypes
    <2>2. \/ files_task' = Files!NoTask
          \/ /\ files_task' \in FileTask /\ files_task'.op = "writes" /\ files_task'.photo = files_task.photo
             /\ files_task'.thumb = files_task.thumb /\ files_task'.name \in Files!Numbers
      <3>1. CASE files_task.name = Len(FileNames)
        BY <1>3, <3>1 DEF Files!NextName
      <3>2. CASE files_task.name # Len(FileNames)
        <4> DEFINE next == files_task.name + 1
        <4>1. files_task' = [files_task EXCEPT !.name = next] /\ files_task.op = "writes"
          BY <1>3, <3>2 DEF Files!NextName
        <4>2. next \in Files!Numbers /\ next \in 0..Len(FileNames)
          BY <2>1, <3>2
        <4>3. files_task \in FileTask
          BY DEF FilesTypes
        <4> HIDE DEF next
        <4> QED
          BY <4>1, <4>2, <4>3, TaskEdits
      <3> QED
        BY <3>1, <3>2
    <2>3. files_scene' = files_scene /\ (AfterCut' <=> AfterCut)
      BY <1>3 DEF Files!NextName, AfterCut
    <2>4. FilesTypes'
      BY <1>3, <2>1, <2>2, <2>3, BlankTask DEF Files!NextName, FilesTypes
    <2>5. RequestInv'
      BY <1>3, <2>1, <2>2, <2>3, BlankTask DEF Files!NextName, RequestInv, FilesTypes
    <2>6. ThumbsInv'
      BY <1>3, <2>1, <2>2, <2>3, BlankTask DEF Files!NextName, ThumbsInv, FilesTypes, Storing, RequestInv
    <2> QED
      BY <2>4, <2>5, <2>6
  <1>4. ASSUME Files!Unlinks PROVE FilesInv'
    <2>1. \/ files_task' = Files!NoTask /\ ~files_task.thumb
          \/ /\ files_task' \in FileTask /\ files_task'.op = "thumb" /\ files_task'.photo = files_task.photo
             /\ files_task'.thumb = files_task.thumb /\ files_task'.name = files_task.name
      BY <1>4, TaskEdits DEF Files!Unlinks, FilesTypes
    <2>2. files_scene' = files_scene /\ (AfterCut' <=> AfterCut)
      BY <1>4 DEF Files!Unlinks, AfterCut
    <2>3. FilesTypes'
      BY <1>4, <2>1, <2>2, BlankTask DEF Files!Unlinks, FilesTypes
    <2>4. RequestInv'
      BY <1>4, <2>1, <2>2, BlankTask DEF Files!Unlinks, RequestInv, FilesTypes
    <2>5. ThumbsInv'
      BY <1>4, <2>1, <2>2, BlankTask, CutScene DEF Files!Unlinks, ThumbsInv, FilesTypes, Storing, RequestInv
    <2> QED
      BY <2>3, <2>4, <2>5
  <1>5. ASSUME Files!StoresThumb PROVE FilesInv'
    <2>1. files_task' = Files!NoTask /\ files_task.name \in Files!Numbers /\ files_task.photo \in Photos
      BY <1>5 DEF Files!StoresThumb, FilesTypes
    <2>2. files_scene' = files_scene /\ (AfterCut' <=> AfterCut)
      BY <1>5 DEF Files!StoresThumb, AfterCut
    <2>3. FilesTypes'
      BY <1>5, <2>1, <2>2, BlankTask DEF Files!StoresThumb, FilesTypes
    <2>4. RequestInv'
      BY <1>5, <2>1, <2>2, BlankTask DEF Files!StoresThumb, RequestInv, FilesTypes
    <2>5. ThumbsInv'
      <3>1. folder' = folder /\ folder[files_task.name] = files_task.photo /\ files_task.op = "thumb"
        BY <1>5 DEF Files!StoresThumb, RequestInv
      <3>2. CASE thumbs' = [thumbs EXCEPT ![files_task.name] = files_task.photo]
        BY <2>1, <2>2, <3>1, <3>2 DEF ThumbsInv, FilesTypes, Storing
      <3>3. CASE files_scene.fails /\ UNCHANGED thumbs
        <4>1. ~AfterCut
          BY <3>3 DEF AfterCut
        <4> QED
          BY <2>2, <3>1, <3>3, <4>1 DEF ThumbsInv
      <3> QED
        BY <1>5, <3>2, <3>3 DEF Files!StoresThumb
    <2> QED
      BY <2>3, <2>4, <2>5
  <1>6. ASSUME Files!DeletesThumb PROVE FilesInv'
    <2>1. files_task' = Files!NoTask /\ files_task.name \in Files!Numbers
      BY <1>6 DEF Files!DeletesThumb, FilesTypes
    <2>2. files_scene' = files_scene /\ (AfterCut' <=> AfterCut)
      BY <1>6 DEF Files!DeletesThumb, AfterCut
    <2>3. FilesTypes'
      BY <1>6, <2>1, <2>2, BlankTask DEF Files!DeletesThumb, FilesTypes
    <2>4. RequestInv'
      BY <1>6, <2>1, <2>2, BlankTask DEF Files!DeletesThumb, RequestInv, FilesTypes
    <2>5. ThumbsInv'
      BY <1>6, <2>1, <2>2, BlankTask DEF Files!DeletesThumb, ThumbsInv, FilesTypes, Storing, RequestInv
    <2> QED
      BY <2>3, <2>4, <2>5
  <1>7. ASSUME Files!Cuts PROVE FilesInv'
    <2>1. files_scene.cuts > 0 /\ files_scene' = [files_scene EXCEPT !.cuts = files_scene.cuts - 1]
          /\ files_scene \in FilesScene
      BY <1>7 DEF Files!Cuts, FilesTypes
    <2>2. files_scene.cuts = 1 /\ files_scene.thumbs = {TRUE} /\ ~files_scene.fails
      <3>1. FewCuts(files_scene) /\ files_scene.cuts # 0
        BY <2>1 DEF RequestInv, FilesScene
      <3> QED
        BY <3>1 DEF FewCuts
    <2>3. files_scene' \in FilesScene /\ files_scene'.cuts = 0 /\ files_scene'.thumbs = {TRUE} /\ ~files_scene'.fails
      <3>1. files_scene'.cuts = 0 /\ files_scene'.thumbs = files_scene.thumbs
        <4>1. files_scene'.cuts = files_scene.cuts - 1
          BY <2>1 DEF FilesScene
        <4>2. files_scene'.thumbs = files_scene.thumbs
          BY <2>1 DEF FilesScene
        <4> QED
          BY <2>2, <4>1, <4>2
      <3>3. files_scene'.fails = files_scene.fails
        BY <2>1 DEF FilesScene
      <3>2. files_scene' \in FilesScene
        BY <2>1, <2>2 DEF FilesScene
      <3> QED
        BY <2>2, <3>1, <3>2, <3>3
    <2>4. FewCuts(files_scene') /\ AfterCut' /\ ~AfterCut
      BY <1>7, <2>1, <2>2, <2>3 DEF Files!Cuts, FewCuts, AfterCut
    <2>5. FilesTypes'
      BY <1>7, <2>3, BlankTask DEF Files!Cuts, FilesTypes
    <2>6. RequestInv'
      BY <1>7, <2>4, BlankTask DEF Files!Cuts, RequestInv
    <2>7. ThumbsInv'
      BY <1>7, <2>1, <2>2, <2>3, <2>4 DEF Files!Cuts, ThumbsInv, FilesTypes, Storing, RequestInv
    <2> QED
      BY <2>5, <2>6, <2>7
  <1>8. ASSUME NEW n \in Files!Numbers, Files!Deletes(n) PROVE FilesInv'
    <2>1. files_task.op = "none"
      BY <1>8 DEF Files!Deletes, Files!NoTask
    <2>2. files_task' \in FileTask /\ files_task'.op = "deleted" /\ files_task'.name = n
      BY <1>8, <2>1, BlankTask DEF Files!Deletes, FilesTypes
    <2>3. files_scene' = files_scene /\ (AfterCut' <=> AfterCut)
      BY <1>8 DEF Files!Deletes, AfterCut
    <2>4. FilesTypes'
      BY <1>8, <2>1, <2>2, <2>3 DEF Files!Deletes, FilesTypes
    <2>5. RequestInv'
      BY <1>8, <2>1, <2>2, <2>3 DEF Files!Deletes, RequestInv, FilesTypes
    <2>6. ThumbsInv'
      BY <1>8, <2>1, <2>2, <2>3 DEF Files!Deletes, ThumbsInv, FilesTypes, Storing, RequestInv
    <2> QED
      BY <2>4, <2>5, <2>6
  <1>9. ASSUME NEW n \in Files!Numbers, Files!ModulePuts(n) PROVE FilesInv'
    <2>1. files_scene' = files_scene /\ (AfterCut' <=> AfterCut)
      BY <1>9 DEF Files!ModulePuts, AfterCut
    <2>2. FilesTypes'
      BY <1>9, <2>1 DEF Files!ModulePuts, FilesTypes
    <2>3. RequestInv'
      BY <1>9, <2>1 DEF Files!ModulePuts, RequestInv, FilesTypes
    <2>4. ThumbsInv'
      BY <1>9, <2>1 DEF Files!ModulePuts, ThumbsInv, FilesTypes, Storing, RequestInv
    <2> QED
      BY <2>2, <2>3, <2>4
  <1>10. ASSUME UNCHANGED FilesVars PROVE FilesInv'
    <2>1. files_scene' = files_scene /\ (AfterCut' <=> AfterCut)
      BY <1>10 DEF FilesVars, AfterCut
    <2>2. FilesTypes'
      BY <1>10, <2>1 DEF FilesVars, FilesTypes
    <2>3. RequestInv'
      BY <1>10, <2>1 DEF FilesVars, RequestInv, FilesTypes
    <2>4. ThumbsInv'
      BY <1>10, <2>1 DEF FilesVars, ThumbsInv, FilesTypes, Storing, RequestInv
    <2> QED
      BY <2>2, <2>3, <2>4
  <1> QED
    BY <1>1, <1>2, <1>3, <1>4, <1>5, <1>6, <1>7, <1>8, <1>9, <1>10 DEF Files!Next

(* A small copy is of the photo of its name, if a cut comes at most once and then not beside uploads without one. *)
THEOREM ThumbAlwaysOwn ==
  ASSUME \A s \in FilesScenes : FewCuts(s)
  PROVE  Spec => []ThumbIsOwn
  <1> DEFINE Inv == part = "files" => FilesInv
  <1>1. Init => Inv
    BY FilesInit DEF Init
  <1>2. Inv /\ [Next]_vars => Inv'
    BY FilesStep, StepOfPart
  <1>3. Inv => ThumbIsOwn
    BY FileNumbers DEF FilesInv, FilesTypes, ThumbsInv, Storing, Files!ThumbIsOwn, ThumbIsOwn
  <1> QED
    BY <1>1, <1>2, <1>3, PTL DEF Spec

-----------------------------------------------------------------------------
(* Fetch.                                                                   *)

\* What a task shows: never nothing after a good answer, and without an error never an old one.
FetchTask == [pc : {"idle", "waits", "calls", "saves", "answered"}, data : Int,
              error : {"none", "offline", "rejected", "invalid"}, after : BOOLEAN]
Fresh(t) ==
  fetch_task[t].pc = "answered" =>
    /\ fetch_task[t].after => fetch_task[t].data # Fetch!None
    /\ fetch_task[t].error = "none" => fetch_task[t].data \in 0..fetch_now /\ fetch_now - fetch_task[t].data < MaxAge

FetchInv ==
  /\ fetch_now \in Nat /\ fetch_cache \in {Fetch!None} \cup 0..fetch_now /\ good \in BOOLEAN
  /\ good => fetch_cache # Fetch!None
  /\ fetch_task \in [FetchTasks -> FetchTask] /\ \A t \in FetchTasks : Fresh(t)

(* Between two fetches a task holds nothing. *)
LEMMA BlankFetch == Fetch!NoFetch \in FetchTask /\ Fetch!NoFetch.pc = "idle"
BY DEF FetchTask, Fetch!NoFetch, Fetch!None

(* Fetches begin with no answer at all. *)
LEMMA FetchInit == ASSUME Fetch!Init PROVE FetchInv
  <1>1. fetch_task \in [FetchTasks -> FetchTask] /\ \A t \in FetchTasks : Fresh(t)
    BY BlankFetch DEF Fetch!Init, Fresh
  <1> QED
    BY <1>1 DEF Fetch!Init, FetchInv, Fetch!None

(* A fetch that begins, waits, calls or ends shows nothing; the others are as they were. *)
LEMMA OthersStayFresh ==
  ASSUME FetchInv, NEW t \in FetchTasks, NEW r \in FetchTask, fetch_task' = [fetch_task EXCEPT ![t] = r],
         fetch_now' = fetch_now, r.pc # "answered"
  PROVE  fetch_task' \in [FetchTasks -> FetchTask] /\ \A o \in FetchTasks : Fresh(o)'
BY DEF FetchInv, Fresh

(* A task that answers: what it has fits what was saved, and the other tasks' answers stay as fresh as they were. *)
LEMMA AnswersFresh ==
  ASSUME FetchInv, NEW t \in FetchTasks, NEW d \in Int, NEW e \in {"none", "offline", "rejected", "invalid"},
         fetch_task' = [fetch_task EXCEPT ![t] = Fetch!Answered(d, e)],
         fetch_now' = fetch_now, good => d # Fetch!None,
         e = "none" => d \in 0..fetch_now /\ fetch_now - d < MaxAge
  PROVE  fetch_task' \in [FetchTasks -> FetchTask] /\ \A o \in FetchTasks : Fresh(o)'
  <1>4. Fetch!Answered(d, e) \in FetchTask
    BY DEF FetchInv, Fetch!Answered, FetchTask
  <1>1. fetch_task'[t].after = good /\ fetch_task'[t].data = d /\ fetch_task'[t].error = e
    BY DEF FetchInv, Fetch!Answered
  <1>2. Fresh(t)'
    BY <1>1 DEF Fresh
  <1>3. \A o \in FetchTasks : o # t => Fresh(o)'
    BY DEF FetchInv, Fresh
  <1> QED
    BY <1>2, <1>3, <1>4 DEF FetchInv

(* Each step of a fetch keeps its invariant. *)
LEMMA FetchStep == ASSUME FetchInv, [Fetch!Next]_FetchVars PROVE FetchInv'
  <1>1. fetch_now \in Nat /\ MaxAge \in Nat /\ MaxAge > 0 /\ Fetch!None = -1 /\ Fetch!Half = -2
    BY AdminAssumption DEF FetchInv, Fetch!FetchAssumption, Fetch!None, Fetch!Half
  <1>2. Fetch!Saved = fetch_cache
    BY <1>1 DEF FetchInv, Fetch!Saved
  <1> DEFINE Kept == fetch_task' \in [FetchTasks -> FetchTask] /\ \A o \in FetchTasks : Fresh(o)'
  <1>11. ASSUME Kept, UNCHANGED <<fetch_now, fetch_cache, good>> PROVE FetchInv'
    BY <1>11 DEF FetchInv
  <1>12. \A t \in FetchTasks : fetch_task[t] \in FetchTask
    BY DEF FetchInv
  <1>3. ASSUME NEW t \in FetchTasks, Fetch!Fetches(t) PROVE FetchInv'
    <2>1. CASE fetch_cache # Fetch!None /\ fetch_now - fetch_cache < MaxAge
      <3>1. fetch_task' = [fetch_task EXCEPT ![t] = Fetch!Answered(fetch_cache, "none")] /\ fetch_now' = fetch_now
        BY <1>2, <1>3, <2>1 DEF Fetch!Fetches
      <3>2. fetch_cache \in 0..fetch_now /\ fetch_cache \in Int
        BY <1>1, <2>1 DEF FetchInv
      <3>3. Kept
        BY <2>1, <3>1, <3>2, AnswersFresh
      <3> QED
        BY <1>3, <1>11, <3>3 DEF Fetch!Fetches
    <2>2. CASE ~(fetch_cache # Fetch!None /\ fetch_now - fetch_cache < MaxAge)
      <3>1. fetch_task' = [fetch_task EXCEPT ![t] = [fetch_task[t] EXCEPT !.pc = "waits"]] /\ fetch_now' = fetch_now
        BY <1>2, <1>3, <2>2 DEF Fetch!Fetches
      <3>2. [fetch_task[t] EXCEPT !.pc = "waits"] \in FetchTask
            /\ [fetch_task[t] EXCEPT !.pc = "waits"].pc # "answered"
        BY <1>12 DEF FetchTask
      <3>3. Kept
        BY <3>1, <3>2, OthersStayFresh
      <3> QED
        BY <1>3, <1>11, <3>3 DEF Fetch!Fetches
    <2> QED
      BY <2>1, <2>2
  <1>4. ASSUME NEW t \in FetchTasks, Fetch!Calls(t) \/ Fetch!Downloads(t) PROVE FetchInv'
    <2>1. PICK p \in {"calls", "saves"} : fetch_task' = [fetch_task EXCEPT ![t] = [fetch_task[t] EXCEPT !.pc = p]]
      BY <1>4 DEF Fetch!Calls, Fetch!Downloads, FetchInv
    <2>2. [fetch_task[t] EXCEPT !.pc = p] \in FetchTask /\ [fetch_task[t] EXCEPT !.pc = p].pc # "answered"
      BY <1>12 DEF FetchTask
    <2>3. fetch_now' = fetch_now
      BY <1>4 DEF Fetch!Calls, Fetch!Downloads
    <2>4. Kept
      BY <2>1, <2>2, <2>3, OthersStayFresh
    <2> QED
      BY <1>4, <1>11, <2>4 DEF Fetch!Calls, Fetch!Downloads
  <1>5. ASSUME NEW t \in FetchTasks, Fetch!Saves(t) PROVE FetchInv'
    <2>1. fetch_now - fetch_now < MaxAge /\ fetch_now \in 0..fetch_now /\ fetch_now # Fetch!None /\ fetch_now \in Int
      BY <1>1
    <2>2. fetch_task' = [fetch_task EXCEPT ![t] = Fetch!Answered(fetch_now, "none")] /\ fetch_now' = fetch_now
      BY <1>5 DEF Fetch!Saves
    <2>3. Kept
      BY <2>1, <2>2, AnswersFresh
    <2> QED
      BY <1>5, <2>1, <2>3 DEF Fetch!Saves, FetchInv
  <1>6. ASSUME NEW t \in FetchTasks, Fetch!FailsTo(t) PROVE FetchInv'
    <2>1. PICK e \in {"offline", "rejected", "invalid"} :
            fetch_task' = [fetch_task EXCEPT ![t] = Fetch!Answered(fetch_cache, e)]
      BY <1>2, <1>6 DEF Fetch!FailsTo
    <2>2. fetch_now' = fetch_now /\ fetch_cache \in Int /\ (good => fetch_cache # Fetch!None)
      BY <1>1, <1>6 DEF Fetch!FailsTo, FetchInv
    <2>3. Kept
      BY <2>1, <2>2, AnswersFresh
    <2> QED
      BY <1>6, <1>11, <2>3 DEF Fetch!FailsTo
  <1>7. ASSUME NEW t \in FetchTasks, Fetch!Shows(t) PROVE FetchInv'
    <2>1. Kept
      BY <1>7, BlankFetch, OthersStayFresh DEF Fetch!Shows
    <2> QED
      BY <1>7, <1>11, <2>1 DEF Fetch!Shows
  <1>8. ASSUME Fetch!Restarts PROVE FetchInv'
    <2>1. Kept
      BY <1>8, BlankFetch DEF Fetch!Restarts, Fresh
    <2> QED
      BY <1>8, <1>11, <2>1 DEF Fetch!Restarts
  <1>9. ASSUME Fetch!Tick PROVE FetchInv'
    <2>1. \A t \in FetchTasks : fetch_task[t].pc # "answered"
      BY <1>9 DEF Fetch!Tick
    <2>2. Kept
      BY <1>9, <2>1 DEF Fetch!Tick, FetchInv, Fresh
    <2>3. fetch_now' \in Nat /\ (fetch_cache \in 0..fetch_now => fetch_cache \in 0..fetch_now')
      <3>1. fetch_now' = fetch_now + 1
        BY <1>9 DEF Fetch!Tick
      <3> QED
        BY <1>1, <3>1
    <2> QED
      BY <1>9, <2>2, <2>3 DEF Fetch!Tick, FetchInv
  <1>10. ASSUME Fetch!ScreenTurns \/ UNCHANGED FetchVars PROVE FetchInv'
    BY <1>10 DEF Fetch!ScreenTurns, FetchVars, FetchInv, Fresh
  <1> QED
    BY <1>3, <1>4, <1>5, <1>6, <1>7, <1>8, <1>9, <1>10 DEF Fetch!Next

(* Once a good answer was saved every answer has data, and one without an error is younger than the module's
   interval, with any number of tasks and wherever its process ends (module_fetch.py). *)
THEOREM LastGoodAlwaysShown == Spec => []LastGoodShown
  <1> DEFINE Inv == part = "fetch" => FetchInv
  <1>1. Init => Inv
    BY FetchInit DEF Init
  <1>2. Inv /\ [Next]_vars => Inv'
    BY FetchStep, StepOfPart
  <1>3. Inv => LastGoodShown
    BY DEF FetchInv, Fresh, Fetch!LastGoodShown, LastGoodShown
  <1> QED
    BY <1>1, <1>2, <1>3, PTL DEF Spec

-----------------------------------------------------------------------------
(* Drawer.                                                                  *)

DrawerTimer == [conn : Processes \cup {0}, left : 0..Idle]
DrawerProc == [st : {"none", "open", "closed"}, code : 0..(MaxInstalls + 1), asked : 0..(Idle + 1)]
DrawerAsk == [pc : {"none", "opens", "asked", "works"}, conn : Processes \cup {0, -1}, floor : 0..(MaxInstalls + 1)]
DrawerTypes ==
  /\ code \in 1..(MaxInstalls + 1) /\ reloaded \in 1..code /\ host \in BOOLEAN /\ instance \in BOOLEAN
  /\ table \in Processes \cup {0} /\ timer \in DrawerTimer
  /\ proc \in [Processes -> DrawerProc] /\ ask \in [Askers -> DrawerAsk]

\* The timer was set by the last question to its process: while one is open it hasn't run down.
TimerInv ==
  timer # Drawer!NoTimer =>
    /\ timer.conn = table /\ table # 0
    /\ timer.left # Idle => \A q \in Askers : ~(Drawer!Waits(q) /\ ask[q].conn = timer.conn)

\* What a process has imported is no older than the last reload before what it is asked.
CodeInv ==
  /\ table # 0 => proc[table].st # "none"
  /\ \A p \in Processes : proc[p].code <= code
  /\ table # 0 /\ proc[table].st = "open" /\ proc[table].code # 0 => proc[table].code >= reloaded
  /\ \A q \in Askers : ask[q].pc \in {"asked", "works"} /\ ask[q].conn # -1 =>
       /\ ask[q].conn \in Processes /\ proc[ask[q].conn].st # "none" /\ ask[q].floor <= code
       /\ ask[q].pc = "works" => proc[ask[q].conn].code >= ask[q].floor
       /\ proc[ask[q].conn].st = "open" /\ proc[ask[q].conn].code # 0 => proc[ask[q].conn].code >= ask[q].floor

\* A process that opens is for one question alone, and nobody has asked it anything.
OpensInv ==
  \A q \in Askers : ask[q].pc = "opens" =>
    /\ ask[q].conn \in Processes /\ ask[q].floor <= reloaded
    /\ proc[ask[q].conn].code = 0 /\ proc[ask[q].conn].st # "none"
    /\ table # ask[q].conn
    /\ \A o \in Askers : o # q /\ ask[o].pc # "none" => ask[o].conn # ask[q].conn

DrawerInv == DrawerTypes /\ TimerInv /\ CodeInv /\ OpensInv

(* What stands for no process, the core's own one, and nothing asked. *)
LEMMA DrawerConstants ==
  /\ 0 \notin Processes /\ -1 \notin Processes /\ Idle \in Nat /\ Idle > 0 /\ MaxInstalls \in Nat
  /\ Drawer!NoSlot = 0 /\ Drawer!Own = -1
  /\ Drawer!NoTimer \in DrawerTimer /\ Drawer!NoTimer.conn = 0
  /\ Drawer!NoProc \in DrawerProc /\ Drawer!NoProc.st = "none" /\ Drawer!NoProc.code = 0
  /\ Drawer!NoAsk \in DrawerAsk /\ Drawer!NoAsk.pc = "none"
BY AdminAssumption DEF Drawer!DrawerAssumption, Drawer!NoSlot, Drawer!Own, Drawer!NoTimer, Drawer!NoProc,
   Drawer!NoAsk,
   DrawerTimer, DrawerProc, DrawerAsk

(* The drawer begins with nothing asked and no process. *)
LEMMA DrawerInit == ASSUME Drawer!Init PROVE DrawerInv
  <1> USE DrawerConstants
  <1>1. DrawerTypes
    BY DEF Drawer!Init, DrawerTypes
  <1>2. TimerInv /\ CodeInv /\ OpensInv
    BY DEF Drawer!Init, TimerInv, CodeInv, OpensInv
  <1> QED
    BY <1>1, <1>2 DEF DrawerInv

(* Closing connections ends processes that are open, and the questions that wait on them. *)
LEMMA ClosedProcs == ASSUME DrawerTypes, NEW conns PROVE
  /\ Drawer!Closed(conns) \in [Processes -> DrawerProc]
  /\ \A p \in Processes :
       /\ Drawer!Closed(conns)[p].code = proc[p].code
       /\ Drawer!Closed(conns)[p].st = "open" => proc[p].st = "open" /\ p \notin conns
       /\ Drawer!Closed(conns)[p].st = "none" <=> proc[p].st = "none"
  <1>1. ASSUME NEW p \in Processes
        PROVE  /\ [proc[p] EXCEPT !.st = "closed"] \in DrawerProc /\ [proc[p] EXCEPT !.st = "closed"].st = "closed"
               /\ [proc[p] EXCEPT !.st = "closed"].code = proc[p].code
    BY DEF DrawerTypes, DrawerProc
  <1> QED
    BY <1>1 DEF DrawerTypes, Drawer!Closed

(* Closing connections leaves the questions on others as they are. *)
LEMMA LeftAsks == ASSUME DrawerTypes, NEW conns PROVE
  /\ Drawer!WithoutConns(conns) \in [Askers -> DrawerAsk]
  /\ \A q \in Askers : Drawer!WithoutConns(conns)[q] = ask[q] \/ Drawer!WithoutConns(conns)[q].pc = "none"
  /\ \A q \in Askers : Drawer!Waits(q) /\ ask[q].conn \in conns => Drawer!WithoutConns(conns)[q].pc = "none"
BY DrawerConstants DEF DrawerTypes, Drawer!WithoutConns

(* Fewer questions and processes, or newer code: nothing that was asked gets older. *)
LEMMA FewerAsked ==
  ASSUME DrawerInv, DrawerTypes', timer' \in {timer, Drawer!NoTimer}, table' = table, code' >= code,
         reloaded' >= reloaded,
         \A q \in Askers : ask'[q] = ask[q] \/ ask'[q].pc = "none",
         \A p \in Processes : /\ proc'[p].code = proc[p].code /\ (proc'[p].st = "open" => proc[p].st = "open")
                              /\ proc'[p].st = "none" => proc[p].st = "none",
         table # 0 /\ proc'[table].st = "open" => reloaded' = reloaded
  PROVE  DrawerInv'
  <1> USE DrawerConstants
  <1>1. \A p \in Processes : proc[p].code \in Nat /\ proc'[p].code \in Nat
    BY DEF DrawerInv, DrawerTypes, DrawerProc
  <1>2. code \in Nat /\ code' \in Nat /\ reloaded \in Nat /\ reloaded' \in Nat
    BY DEF DrawerInv, DrawerTypes
  <1>3. \A q \in Askers : ask[q].floor \in Nat
    BY DEF DrawerInv, DrawerTypes, DrawerAsk
  <1>4. TimerInv'
    BY DEF DrawerInv, TimerInv, Drawer!Waits
  <1>5. CodeInv'
    <2>1. \A p \in Processes : proc'[p].code <= code'
      BY <1>1, <1>2 DEF DrawerInv, CodeInv
    <2>2. table' # 0 /\ proc'[table'].st = "open" /\ proc'[table'].code # 0 => proc'[table'].code >= reloaded'
      BY DEF DrawerInv, DrawerTypes, CodeInv
    <2>3. ASSUME NEW q \in Askers, ask'[q].pc \in {"asked", "works"}, ask'[q].conn # -1
          PROVE  /\ ask'[q].conn \in Processes /\ proc'[ask'[q].conn].st # "none" /\ ask'[q].floor <= code'
                 /\ ask'[q].pc = "works" => proc'[ask'[q].conn].code >= ask'[q].floor
                 /\ proc'[ask'[q].conn].st = "open" /\ proc'[ask'[q].conn].code # 0
                      => proc'[ask'[q].conn].code >= ask'[q].floor
      <3>1. ask'[q] = ask[q]
        BY <2>3
      <3>2. ask[q].conn \in Processes /\ proc[ask[q].conn].st # "none" /\ ask[q].floor <= code
        BY <2>3, <3>1 DEF DrawerInv, CodeInv
      <3> QED
        BY <1>2, <1>3, <2>3, <3>1, <3>2 DEF DrawerInv, CodeInv
    <2>4. table' # 0 => proc'[table'].st # "none"
      BY DEF DrawerInv, DrawerTypes, CodeInv
    <2> QED
      BY <2>1, <2>2, <2>3, <2>4 DEF CodeInv
  <1>6. OpensInv'
    <2> SUFFICES ASSUME NEW q \in Askers, ask'[q].pc = "opens"
                 PROVE  /\ ask'[q].conn \in Processes /\ ask'[q].floor <= reloaded'
                        /\ proc'[ask'[q].conn].code = 0 /\ proc'[ask'[q].conn].st # "none"
                        /\ table' # ask'[q].conn
                        /\ \A o \in Askers : o # q /\ ask'[o].pc # "none" => ask'[o].conn # ask'[q].conn
      BY DEF OpensInv
    <2>1. ask'[q] = ask[q]
      OBVIOUS
    <2> QED
      BY <1>2, <1>3, <2>1 DEF DrawerInv, OpensInv
  <1> QED
    BY <1>4, <1>5, <1>6 DEF DrawerInv

(* A question that goes to the process s, which then stays Idle from now. *)
LEMMA GetsStep ==
  ASSUME DrawerInv, NEW q \in Askers, NEW s \in Processes, NEW floor \in 0..reloaded, Drawer!Gets(q, s, floor),
         table' = s, UNCHANGED <<code, reloaded, host, instance>>, ask[q].pc \in {"none", "opens"},
         s # table => ask[q].pc = "opens" /\ ask[q].conn = s,
         s = table => floor = reloaded, proc[s].st # "none"
  PROVE  DrawerInv'
  <1> USE DrawerConstants
  <1>1. DrawerTypes /\ TimerInv /\ CodeInv /\ OpensInv
    BY DEF DrawerInv
  <1>2. \A p \in Processes : proc'[p].code = proc[p].code /\ proc'[p].st = proc[p].st
    BY <1>1 DEF Drawer!Gets, DrawerTypes, DrawerProc
  <1>3. /\ ask'[q].pc = "asked" /\ ask'[q].conn = s /\ ask'[q].floor = floor
        /\ \A o \in Askers : o # q => ask'[o] = ask[o]
    BY <1>1 DEF Drawer!Gets, DrawerTypes
  <1>4. timer' = [conn |-> s, left |-> Idle] /\ timer' # Drawer!NoTimer /\ timer'.conn = s /\ timer'.left = Idle
    BY DEF Drawer!Gets
  <1>5. DrawerTypes'
    <2>1. timer' \in DrawerTimer
      BY <1>4 DEF DrawerTimer
    <2>2. proc' \in [Processes -> DrawerProc]
      BY <1>1 DEF Drawer!Gets, DrawerTypes, DrawerProc
    <2>3. [pc |-> "asked", conn |-> s, floor |-> floor] \in DrawerAsk
      BY <1>1 DEF DrawerTypes, DrawerAsk
    <2>4. ask' \in [Askers -> DrawerAsk]
      BY <1>1, <2>3 DEF Drawer!Gets, DrawerTypes
    <2> QED
      BY <1>1, <2>1, <2>2, <2>4 DEF DrawerTypes
  <1>6. TimerInv'
    BY <1>4 DEF TimerInv
  <1>7. CodeInv'
    <2>1. /\ table' # 0 => proc'[table'].st # "none"
          /\ \A p \in Processes : proc'[p].code <= code'
      BY <1>1, <1>2 DEF CodeInv
    <2>2. s # table => proc[s].code = 0
      BY <1>1 DEF OpensInv
    <2>3. table' # 0 /\ proc'[table'].st = "open" /\ proc'[table'].code # 0 => proc'[table'].code >= reloaded'
      BY <1>1, <1>2, <2>2 DEF CodeInv
    <2>4. floor <= code /\ (proc[s].st = "open" /\ proc[s].code # 0 => proc[s].code >= floor)
      BY <1>1, <2>2 DEF CodeInv, DrawerTypes
    <2>5. ASSUME NEW o \in Askers, ask'[o].pc \in {"asked", "works"}, ask'[o].conn # -1
          PROVE  /\ ask'[o].conn \in Processes /\ proc'[ask'[o].conn].st # "none" /\ ask'[o].floor <= code'
                 /\ ask'[o].pc = "works" => proc'[ask'[o].conn].code >= ask'[o].floor
                 /\ proc'[ask'[o].conn].st = "open" /\ proc'[ask'[o].conn].code # 0
                      => proc'[ask'[o].conn].code >= ask'[o].floor
      <3>1. CASE o = q
        BY <1>2, <1>3, <2>4, <3>1
      <3>2. CASE o # q
        BY <1>1, <1>2, <1>3, <2>5, <3>2 DEF CodeInv
      <3> QED
        BY <3>1, <3>2
    <2> QED
      BY <2>1, <2>3, <2>5 DEF CodeInv
  <1>8. OpensInv'
    <2> SUFFICES ASSUME NEW o \in Askers, ask'[o].pc = "opens"
                 PROVE  /\ ask'[o].conn \in Processes /\ ask'[o].floor <= reloaded'
                        /\ proc'[ask'[o].conn].code = 0 /\ proc'[ask'[o].conn].st # "none"
                        /\ table' # ask'[o].conn
                        /\ \A r \in Askers : r # o /\ ask'[r].pc # "none" => ask'[r].conn # ask'[o].conn
      BY DEF OpensInv
    <2>1. o # q /\ ask'[o] = ask[o]
      BY <1>3
    <2>2. s # ask[o].conn
      BY <1>1, <2>1 DEF OpensInv
    <2> QED
      BY <1>1, <1>2, <1>3, <2>1, <2>2 DEF OpensInv
  <1> QED
    BY <1>5, <1>6, <1>7, <1>8 DEF DrawerInv

(* A process that is not there yet is in no table and has been asked nothing. *)
LEMMA NoneIsOf == ASSUME DrawerInv, NEW s \in Processes, proc[s] = Drawer!NoProc
  PROVE table # s /\ \A q \in Askers : ask[q].pc # "none" => ask[q].conn # s
BY DrawerConstants DEF DrawerInv, DrawerTypes, DrawerAsk, CodeInv, OpensInv

(* Each step of the drawer keeps its invariant. *)
LEMMA DrawerStep == ASSUME DrawerInv, [Drawer!Next]_DrawerVars PROVE DrawerInv'
  <1> USE DrawerConstants
  <1>1. DrawerTypes /\ TimerInv /\ CodeInv /\ OpensInv
    BY DEF DrawerInv
  <1>2. code \in Nat /\ reloaded \in Nat /\ reloaded \in 0..reloaded /\ reloaded <= code
    BY <1>1 DEF DrawerTypes
  <1>3. ASSUME NEW q \in Askers, Drawer!AsksInstance(q) PROVE DrawerInv'
    <2>1. /\ ask'[q].pc = "asked" /\ ask'[q].conn = -1 /\ \A o \in Askers : o # q => ask'[o] = ask[o]
          /\ UNCHANGED <<code, reloaded, host, instance, table, timer, proc>>
      BY <1>1, <1>3 DEF Drawer!AsksInstance, DrawerTypes
    <2>2. ask' \in [Askers -> DrawerAsk]
      <3>1. [pc |-> "asked", conn |-> -1, floor |-> 0] \in DrawerAsk
        BY DEF DrawerAsk
      <3> QED
        BY <1>1, <1>3, <3>1 DEF Drawer!AsksInstance, DrawerTypes
    <2>3. DrawerTypes'
      BY <1>1, <2>1, <2>2 DEF DrawerTypes
    <2>4. TimerInv'
      BY <1>1, <2>1 DEF DrawerTypes, TimerInv, Drawer!Waits
    <2>5. CodeInv'
      BY <1>1, <2>1 DEF CodeInv
    <2>6. OpensInv'
      BY <1>1, <2>1 DEF OpensInv
    <2> QED
      BY <2>3, <2>4, <2>5, <2>6 DEF DrawerInv
  <1>4. ASSUME NEW q \in Askers, Drawer!AsksRunning(q) PROVE DrawerInv'
    <2>1. table \in Processes /\ proc[table].st # "none"
      BY <1>1, <1>4 DEF Drawer!AsksRunning, DrawerTypes, CodeInv
    <2> QED
      BY <1>2, <1>4, <2>1, GetsStep DEF Drawer!AsksRunning
  <1>5. ASSUME NEW q \in Askers, Drawer!AsksNew(q) PROVE DrawerInv'
    <2>1. PICK s \in Processes : /\ proc[s] = Drawer!NoProc /\ proc' = [proc EXCEPT ![s].st = "open"]
                                 /\ ask' = [ask EXCEPT ![q] = [pc |-> "opens", conn |-> s, floor |-> reloaded]]
      BY <1>5 DEF Drawer!AsksNew
    <2>2. /\ ask'[q].pc = "opens" /\ ask'[q].conn = s /\ ask'[q].floor = reloaded
          /\ \A o \in Askers : o # q => ask'[o] = ask[o]
      BY <1>1, <2>1 DEF DrawerTypes
    <2>3. /\ proc'[s].st = "open" /\ proc'[s].code = 0 /\ \A p \in Processes : p # s => proc'[p] = proc[p]
      BY <1>1, <2>1 DEF DrawerTypes, DrawerProc
    <2>4. UNCHANGED <<code, reloaded, host, instance, table, timer>>
      BY <1>5 DEF Drawer!AsksNew
    <2>5. DrawerTypes'
      <3>1. [pc |-> "opens", conn |-> s, floor |-> reloaded] \in DrawerAsk
        BY <1>1 DEF DrawerTypes, DrawerAsk
      <3>2. [Drawer!NoProc EXCEPT !.st = "open"] \in DrawerProc
        BY DEF DrawerProc
      <3>3. proc' \in [Processes -> DrawerProc]
        BY <1>1, <2>1, <3>2 DEF DrawerTypes
      <3>4. ask' \in [Askers -> DrawerAsk]
        BY <1>1, <2>1, <3>1 DEF DrawerTypes
      <3> QED
        BY <1>1, <2>4, <3>3, <3>4 DEF DrawerTypes
    <2>6. table # s /\ \A o \in Askers : ask[o].pc # "none" => ask[o].conn # s
      BY <2>1, NoneIsOf
    <2>7. TimerInv'
      BY <1>1, <2>2, <2>4 DEF TimerInv, Drawer!Waits
    <2>8. CodeInv'
      BY <1>1, <1>2, <2>2, <2>3, <2>4, <2>6 DEF DrawerTypes, CodeInv
    <2>9. OpensInv'
      BY <1>1, <1>2, <2>2, <2>3, <2>4, <2>6 DEF OpensInv
    <2> QED
      BY <2>5, <2>7, <2>8, <2>9 DEF DrawerInv
  <1>6. ASSUME NEW q \in Askers, Drawer!Opens(q) PROVE DrawerInv'
    <2>1. ask[q].conn \in Processes /\ ask[q].floor \in 0..reloaded /\ table # ask[q].conn
          /\ proc[ask[q].conn].st # "none"
      BY <1>1, <1>2, <1>6 DEF Drawer!Opens, DrawerTypes, DrawerAsk, OpensInv
    <2> QED
      BY <1>6, <2>1, GetsStep DEF Drawer!Opens
  <1>7. ASSUME NEW q \in Askers, Drawer!Works(q) PROVE DrawerInv'
    <2>1. /\ ask'[q].pc = "works" /\ ask'[q].conn = ask[q].conn /\ ask'[q].floor = ask[q].floor /\ ask[q].pc = "asked"
          /\ \A o \in Askers : o # q => ask'[o] = ask[o]
          /\ UNCHANGED <<code, reloaded, host, instance, table, timer>>
      BY <1>1, <1>7 DEF Drawer!Works, DrawerTypes, DrawerAsk
    <2>2. ask' \in [Askers -> DrawerAsk]
      BY <1>1, <1>7 DEF Drawer!Works, DrawerTypes, DrawerAsk
    <2>3. \A p \in Processes : proc'[p].st = proc[p].st
      BY <1>1, <1>7 DEF Drawer!Works, DrawerTypes, DrawerProc
    <2>4. \A p \in Processes : proc'[p].code = proc[p].code \/ (proc'[p].code = code /\ p = ask[q].conn
          /\ proc[p].code = 0)
      BY <1>1, <1>7 DEF Drawer!Works, DrawerTypes, DrawerProc
    <2>5. proc' \in [Processes -> DrawerProc]
      BY <1>1, <1>7 DEF Drawer!Works, DrawerTypes, DrawerProc
    <2>6. ask[q].conn # -1 => proc[ask[q].conn].st = "open" /\ proc'[ask[q].conn].code # 0
      BY <1>1, <1>7 DEF Drawer!Works, DrawerTypes, DrawerProc
    <2>7. DrawerTypes'
      BY <1>1, <2>1, <2>2, <2>5 DEF DrawerTypes
    <2>8. TimerInv'
      BY <1>1, <2>1 DEF TimerInv, Drawer!Waits
    <2>9. CodeInv'
      <3>1. /\ table' # 0 => proc'[table'].st # "none"
            /\ \A p \in Processes : proc'[p].code <= code'
            /\ table' # 0 /\ proc'[table'].st = "open" /\ proc'[table'].code # 0 => proc'[table'].code >= reloaded'
        BY <1>1, <1>2, <2>1, <2>3, <2>4 DEF DrawerTypes, CodeInv
      <3>2. ASSUME NEW o \in Askers, ask'[o].pc \in {"asked", "works"}, ask'[o].conn # -1
            PROVE  /\ ask'[o].conn \in Processes /\ proc'[ask'[o].conn].st # "none" /\ ask'[o].floor <= code'
                   /\ ask'[o].pc = "works" => proc'[ask'[o].conn].code >= ask'[o].floor
                   /\ proc'[ask'[o].conn].st = "open" /\ proc'[ask'[o].conn].code # 0
                        => proc'[ask'[o].conn].code >= ask'[o].floor
        <4>1. /\ ask[o].pc \in {"asked", "works"} /\ ask[o].conn # -1 /\ ask'[o].conn = ask[o].conn
              /\ ask'[o].floor = ask[o].floor /\ ask[o].floor \in Nat
          BY <1>1, <2>1, <3>2 DEF DrawerTypes, DrawerAsk
        <4>2. /\ ask[o].conn \in Processes /\ proc[ask[o].conn].st # "none" /\ ask[o].floor <= code
              /\ ask[o].pc = "works" => proc[ask[o].conn].code >= ask[o].floor
              /\ proc[ask[o].conn].st = "open" /\ proc[ask[o].conn].code # 0 => proc[ask[o].conn].code >= ask[o].floor
          BY <1>1, <4>1 DEF CodeInv
        <4>3. proc[ask[o].conn].code = 0 => ~(ask[o].pc = "works" /\ ask[o].floor # 0)
          BY <4>1, <4>2
        <4> QED
          BY <1>2, <2>1, <2>3, <2>4, <2>6, <3>2, <4>1, <4>2
      <3> QED
        BY <3>1, <3>2 DEF CodeInv
    <2>10. OpensInv'
      BY <1>1, <2>1, <2>3, <2>4 DEF OpensInv
    <2> QED
      BY <2>7, <2>8, <2>9, <2>10 DEF DrawerInv
  <1>8. ASSUME NEW q \in Askers, Drawer!Answers(q) \/ Drawer!Fails(q) PROVE DrawerInv'
    <2>1. DrawerTypes'
      BY <1>1, <1>8 DEF Drawer!Answers, Drawer!Fails, DrawerTypes
    <2> QED
      BY <1>1, <1>2, <1>8, <2>1, FewerAsked DEF Drawer!Answers, Drawer!Fails, DrawerTypes
  <1>9. ASSUME NEW s \in Processes, Drawer!Dies(s) PROVE DrawerInv'
    <2>1. DrawerTypes'
      BY <1>1, <1>9, ClosedProcs DEF Drawer!Dies, DrawerTypes
    <2> QED
      BY <1>1, <1>2, <1>9, <2>1, ClosedProcs, FewerAsked DEF Drawer!Dies
  <1>10. ASSUME NEW s \in Processes, Drawer!Serves(s) PROVE DrawerInv'
    <2>1. /\ ask' = Drawer!WithoutConns({s}) /\ UNCHANGED <<code, reloaded, host, instance>>
          /\ proc'[s] = Drawer!NoProc /\ \A p \in Processes : p # s => proc'[p] = proc[p]
          /\ ~(\E o \in Askers : ask[o].pc = "opens" /\ ask[o].conn = s)
      BY <1>1, <1>10 DEF Drawer!Serves, DrawerTypes
    <2>2. (table = s /\ table' = 0 /\ timer' = Drawer!NoTimer) \/ (table # s /\ table' = table /\ timer' = timer)
      BY <1>10 DEF Drawer!Serves
    <2>3. /\ \A o \in Askers : ask'[o] = ask[o] \/ ask'[o].pc = "none"
          /\ \A o \in Askers : ask'[o].pc # "none" => ask'[o] = ask[o] /\ ask[o].conn # s
      BY <1>1, <2>1, LeftAsks DEF Drawer!Waits, DrawerTypes, DrawerAsk
    <2>4. DrawerTypes'
      BY <1>1, <1>10, <2>1, <2>2, LeftAsks DEF Drawer!Serves, DrawerTypes
    <2>5. TimerInv'
      BY <1>1, <2>2, <2>3 DEF TimerInv, Drawer!Waits
    <2>8. s \in Processes /\ s # 0
      BY <1>10
    <2>9. table' # 0 => table' = table /\ table \in Processes /\ proc'[table] = proc[table]
      BY <1>1, <2>1, <2>2 DEF DrawerTypes
    <2>10. ASSUME NEW o \in Askers, ask'[o].pc # "none", ask[o].conn \in Processes
           PROVE ask'[o] = ask[o] /\ proc'[ask[o].conn] = proc[ask[o].conn]
      BY <2>1, <2>3, <2>10
    <2>6. CodeInv'
      <3>1. table' # 0 => proc'[table'].st # "none"
        BY <1>1, <2>9 DEF CodeInv
      <3>2. \A p \in Processes : proc'[p].code <= code'
        BY <1>1, <1>2, <2>1 DEF CodeInv
      <3>3. table' # 0 /\ proc'[table'].st = "open" /\ proc'[table'].code # 0 => proc'[table'].code >= reloaded'
        BY <1>1, <2>1, <2>9 DEF CodeInv
      <3>4. ASSUME NEW o \in Askers, ask'[o].pc \in {"asked", "works"}, ask'[o].conn # -1
            PROVE  /\ ask'[o].conn \in Processes /\ proc'[ask'[o].conn].st # "none" /\ ask'[o].floor <= code'
                   /\ ask'[o].pc = "works" => proc'[ask'[o].conn].code >= ask'[o].floor
                   /\ proc'[ask'[o].conn].st = "open" /\ proc'[ask'[o].conn].code # 0
                        => proc'[ask'[o].conn].code >= ask'[o].floor
        <4>1. ask'[o] = ask[o] /\ ask[o].pc \in {"asked", "works"} /\ ask[o].conn # -1
          BY <2>3, <3>4
        <4>2. /\ ask[o].conn \in Processes /\ proc[ask[o].conn].st # "none" /\ ask[o].floor <= code
              /\ ask[o].pc = "works" => proc[ask[o].conn].code >= ask[o].floor
              /\ proc[ask[o].conn].st = "open" /\ proc[ask[o].conn].code # 0 => proc[ask[o].conn].code >= ask[o].floor
          BY <1>1, <4>1 DEF CodeInv
        <4>3. proc'[ask[o].conn] = proc[ask[o].conn]
          BY <2>10, <3>4, <4>2
        <4> QED
          BY <2>1, <4>1, <4>2, <4>3
      <3> QED
        BY <3>1, <3>2, <3>3, <3>4 DEF CodeInv
    <2>7. OpensInv'
      <3>1. ASSUME NEW o \in Askers, ask'[o].pc = "opens"
            PROVE  /\ ask'[o].conn \in Processes /\ ask'[o].floor <= reloaded'
                   /\ proc'[ask'[o].conn].code = 0 /\ proc'[ask'[o].conn].st # "none"
                   /\ table' # ask'[o].conn
                   /\ \A p \in Askers : p # o /\ ask'[p].pc # "none" => ask'[p].conn # ask'[o].conn
        <4>1. ask'[o] = ask[o] /\ ask[o].pc = "opens"
          BY <2>3, <3>1
        <4>2. /\ ask[o].conn \in Processes /\ ask[o].floor <= reloaded
              /\ proc[ask[o].conn].code = 0 /\ proc[ask[o].conn].st # "none"
              /\ table # ask[o].conn
              /\ \A p \in Askers : p # o /\ ask[p].pc # "none" => ask[p].conn # ask[o].conn
          BY <1>1, <4>1 DEF OpensInv
        <4>3. proc'[ask[o].conn] = proc[ask[o].conn]
          BY <2>10, <3>1, <4>2
        <4>4. table' # ask[o].conn
          BY <2>9, <4>2
        <4> QED
          BY <2>1, <2>3, <4>1, <4>2, <4>3, <4>4
      <3> QED
        BY <3>1 DEF OpensInv
    <2> QED
      BY <2>4, <2>5, <2>6, <2>7 DEF DrawerInv
  <1>11. ASSUME Drawer!Fires PROVE DrawerInv'
    <2>1. DrawerTypes'
      BY <1>1, <1>11, ClosedProcs, LeftAsks DEF Drawer!Fires, Drawer!Closes, DrawerTypes
    <2> QED
      BY <1>1, <1>2, <1>11, <2>1, ClosedProcs, LeftAsks, FewerAsked DEF Drawer!Fires, Drawer!Closes
  <1>12. ASSUME Drawer!Reinstalls PROVE DrawerInv'
    <2>1. DrawerTypes'
      BY <1>1, <1>12 DEF Drawer!Reinstalls, DrawerTypes
    <2> QED
      BY <1>2, <1>12, <2>1, FewerAsked DEF Drawer!Reinstalls
  <1>13. ASSUME Drawer!Reloads PROVE DrawerInv'
    <2>1. DrawerTypes'
      BY <1>1, <1>13, ClosedProcs, LeftAsks DEF Drawer!Reloads, Drawer!Closes, DrawerTypes
    <2>2. \A p \in Processes : proc'[p].st = "open" => p # table
      BY <1>1, <1>13, ClosedProcs DEF Drawer!Reloads, Drawer!Closes
    <2> QED
      BY <1>1, <1>2, <1>13, <2>1, <2>2, ClosedProcs, LeftAsks, FewerAsked DEF Drawer!Reloads, Drawer!Closes,
         DrawerTypes
  <1>14. ASSUME Drawer!HostGoes PROVE DrawerInv'
    <2>1. DrawerTypes'
      BY <1>1, <1>14, ClosedProcs, LeftAsks DEF Drawer!HostGoes, DrawerTypes
    <2> QED
      BY <1>1, <1>2, <1>14, <2>1, ClosedProcs, LeftAsks, FewerAsked DEF Drawer!HostGoes
  <1>15. ASSUME Drawer!HostBack PROVE DrawerInv'
    <2>1. DrawerTypes'
      BY <1>1, <1>15 DEF Drawer!HostBack, DrawerTypes
    <2> QED
      BY <1>2, <1>15, <2>1, FewerAsked DEF Drawer!HostBack
  <1>16. ASSUME Drawer!Tick PROVE DrawerInv'
    <2>1. /\ \A o \in Askers : ask'[o].pc = "none" /\ ask'[o] = ask[o]
          /\ UNCHANGED <<code, reloaded, host, instance, table, ask>>
      BY <1>16 DEF Drawer!Tick
    <2>2. \A p \in Processes : proc'[p].st = proc[p].st /\ proc'[p].code = proc[p].code /\ proc'[p] \in DrawerProc
      <3>1. ASSUME NEW p \in Processes PROVE proc'[p].st = proc[p].st /\ proc'[p].code = proc[p].code
                   /\ proc'[p] \in DrawerProc
        <4>1. CASE proc[p].st = "open"
          <5>1. proc'[p] = [proc[p] EXCEPT !.asked = proc[p].asked + 1] /\ proc[p].asked <= Idle
            BY <1>16, <4>1 DEF Drawer!Tick
          <5>2. proc[p] \in DrawerProc
            BY <1>1 DEF DrawerTypes
          <5> QED
            BY <5>1, <5>2 DEF DrawerProc
        <4>2. CASE proc[p].st # "open"
          BY <1>1, <1>16, <4>2 DEF Drawer!Tick, DrawerTypes
        <4> QED
          BY <4>1, <4>2
      <3> QED
        BY <3>1
    <2>3. timer' \in DrawerTimer /\ timer'.conn = timer.conn /\ (timer' # Drawer!NoTimer => timer # Drawer!NoTimer)
      <3>1. CASE timer = Drawer!NoTimer
        BY <1>16, <3>1 DEF Drawer!Tick
      <3>2. CASE timer # Drawer!NoTimer
        <4>1. timer' = [timer EXCEPT !.left = timer.left - 1] /\ timer.left # 0
          BY <1>16, <3>2 DEF Drawer!Tick
        <4> QED
          BY <1>1, <3>2, <4>1 DEF DrawerTypes, DrawerTimer
      <3> QED
        BY <3>1, <3>2
    <2>4. DrawerTypes'
      <3>1. proc' \in [Processes -> DrawerProc]
        BY <1>16, <2>2 DEF Drawer!Tick
      <3> QED
        BY <1>1, <2>1, <2>3, <3>1 DEF DrawerTypes
    <2>5. TimerInv'
      BY <1>1, <2>1, <2>3 DEF TimerInv, Drawer!Waits
    <2>6. CodeInv'
      BY <1>1, <2>1, <2>2 DEF CodeInv, DrawerTypes
    <2>7. OpensInv'
      BY <2>1 DEF OpensInv
    <2> QED
      BY <2>4, <2>5, <2>6, <2>7 DEF DrawerInv
  <1>17. ASSUME UNCHANGED DrawerVars PROVE DrawerInv'
    BY <1>17 DEF DrawerVars, DrawerInv, DrawerTypes, TimerInv, CodeInv, OpensInv, Drawer!Waits
  <1> QED
    BY <1>3, <1>4, <1>5, <1>6, <1>7, <1>8, <1>9, <1>10, <1>11, <1>12, <1>13, <1>14, <1>15, <1>16,
       <1>17 DEF Drawer!Next

(* A question is answered by code at least as new as the last reload of the modules before it, and no timer set by an
   earlier question cuts it off, with any number of questions and processes (settings_process.py). *)
THEOREM AnswersAlwaysNew == Spec => []AnswersAreNew
  <1> DEFINE Inv == part = "drawer" => DrawerInv
  <1>1. Init => Inv
    BY DrawerInit DEF Init
  <1>2. Inv /\ [Next]_vars => Inv'
    BY DrawerStep, StepOfPart
  <1>3. DrawerInv => Drawer!AnswersAreNew
    <2> SUFFICES ASSUME DrawerInv PROVE Drawer!AnswersAreNew
      OBVIOUS
    <2>1. DrawerTypes /\ TimerInv /\ CodeInv
      BY DEF DrawerInv
    <2>2. Drawer!TypeOK
      BY <2>1, DrawerConstants DEF DrawerTypes, DrawerTimer, DrawerProc, DrawerAsk, Drawer!TypeOK
    <2>3. \A q \in Askers : ask[q].pc = "works" /\ ask[q].conn # Drawer!Own => proc[ask[q].conn].code >= ask[q].floor
      BY <2>1, DrawerConstants DEF CodeInv
    <2>4. timer # Drawer!NoTimer /\ timer.left = 0 => ~(\E q \in Askers : Drawer!Waits(q) /\ ask[q].conn = timer.conn)
      BY <2>1, DrawerConstants DEF TimerInv
    <2> QED
      BY <2>2, <2>3, <2>4 DEF Drawer!AnswersAreNew
  <1>4. Inv => AnswersAreNew
    BY <1>3 DEF AnswersAreNew
  <1> QED
    BY <1>1, <1>2, <1>4, PTL DEF Spec

PinsDevices == [Pins!Types -> GpioHeader \cup {Nowhere}]
PinsSaved == [devices : PinsDevices, overlays : PinsDevices, pending : Nat]
PinsChange == [pc : {"idle", "writes", "written"}, op : {"save", "restore"}, devices : PinsDevices,
               overlays : PinsDevices]
PinsUser == [stage : {"none", "asked", "sent", "given"}, pin : GpioHeader \cup {Nowhere}, waits : BOOLEAN,
             held : SUBSET GpioHeader]
PinsMay == [changes : Nat, restores : Nat, emptied : Nat, failures : Nat, late : Nat, boots : Nat, cuts : Nat]

PinsTypes ==
  /\ pins_saved \in PinsSaved /\ card \in PinsDevices /\ active \in PinsDevices
  /\ pins_boot \in Nat /\ pins_saved.pending \in 0..pins_boot
  /\ change \in [Savers -> PinsChange]
  /\ line \in [GpioHeader -> Users \cup {Nowhere}] /\ user \in [Users -> PinsUser]
  /\ slip \subseteq {"wiring", "line"} /\ pins_may \in PinsMay
  /\ \A i \in Users : user[i].stage # "none" => user[i].pin \in GpioHeader

\* No backup without devices is restored, and the writing of no restore fails.
Rightable(may) == may.emptied = 0 /\ (may.restores = 0 \/ (may.failures = 0 /\ may.late = 0))

\* What was written is what the config says was written, and a change never finds it there already.
OverlaysInv ==
  /\ Rightable(pins_may) /\ pins_saved.overlays = pins_saved.devices
  /\ \A s \in Savers : change[s].pc \in {"writes", "written"} =>
       /\ change[s].overlays # change[s].devices
       /\ change[s].op = "restore" => pins_may.failures = 0 /\ pins_may.late = 0

\* The card has what is saved, or what is about to be; the firmware runs it when no restart is asked for.
CardInv ==
  "wiring" \notin slip =>
    /\ \A s \in Savers : change[s].pc = "written" => card = change[s].devices
    /\ (\A s \in Savers : change[s].pc # "written") =>
         /\ card = pins_saved.devices
         /\ pins_saved.pending # pins_boot => active = pins_saved.devices

\* A line is the firmware's or a module's, and the module knows of it.
LinesInv ==
  /\ \A pin \in GpioHeader \cap Pins!Used(active) : line[pin] = Nowhere
  /\ Pins!NoLineLost

PinsInv == PinsTypes /\ OverlaysInv /\ CardInv /\ LinesInv

OneSaver == \A s, t \in Savers : s = t

(* What stands for no pin, no devices, no change and no request. *)
LEMMA PinsConstants ==
  /\ Nowhere \notin GpioHeader /\ Nowhere \notin Users /\ PinScenes \subseteq PinsMay
  /\ Pins!NoDevices \in PinsDevices
  /\ Pins!NoChange \in PinsChange /\ Pins!NoChange.pc = "idle"
  /\ Pins!NoRequest \in PinsUser /\ Pins!NoRequest.stage = "none" /\ Pins!NoRequest.held = {}
BY AdminAssumption DEF Pins!PinsAssumption, PinsMay, PinsDevices, Pins!NoDevices, Pins!Types, Pins!NoChange, PinsChange,
   Pins!NoRequest, PinsUser

(* The wiring begins saved, and no line is held. *)
LEMMA PinsInit == ASSUME \A m \in PinScenes : Rightable(m), Pins!Init PROVE PinsInv
  <1> USE PinsConstants
  <1>1. PinsTypes
    <2>1. [devices |-> Pins!NoDevices, overlays |-> Pins!NoDevices, pending |-> 0] \in PinsSaved
      BY DEF PinsSaved
    <2> QED
      BY <2>1 DEF Pins!Init, PinsTypes
  <1>2. OverlaysInv
    BY DEF Pins!Init, OverlaysInv
  <1>3. CardInv
    BY DEF Pins!Init, CardInv
  <1>4. LinesInv
    BY DEF Pins!Init, LinesInv, Pins!NoLineLost
  <1> QED
    BY <1>1, <1>2, <1>3, <1>4 DEF PinsInv

(* The budget of one kind of happening is spent, the others' stay. *)
LEMMA Spent == ASSUME PinsTypes, NEW what \in {"changes", "restores", "emptied", "failures", "late", "boots", "cuts"},
                      Pins!Happens(what)
  PROVE  /\ pins_may' \in PinsMay /\ pins_may[what] > 0
         /\ \A kind \in {"restores", "emptied", "failures", "late"} :
              pins_may'[kind] = IF kind = what THEN pins_may[kind] - 1 ELSE pins_may[kind]
BY DEF PinsTypes, PinsMay, Pins!Happens

(* Wiring that can be put right stays so when something happens once more. *)
LEMMA StaysRightable == ASSUME PinsTypes, Rightable(pins_may), pins_may' \in PinsMay,
         \A kind \in {"restores", "emptied", "failures", "late"} : pins_may'[kind] \in {pins_may[kind],
         pins_may[kind] - 1}
  PROVE Rightable(pins_may')
BY DEF Rightable, PinsTypes, PinsMay

(* The lines are as they were when only the wiring changes... *)
LEMMA LinesStay == ASSUME LinesInv, UNCHANGED <<active, line, user>>, "line" \in slip
                          => "line" \in slip' PROVE LinesInv'
BY DEF LinesInv, Pins!NoLineLost, Pins!Used

(* ... and the wiring when only lines do. *)
LEMMA WiringStays ==
  ASSUME PinsTypes, OverlaysInv, CardInv, Pins!wiring' = Pins!wiring, "wiring" \in slip => "wiring" \in slip',
         pins_may' = pins_may \/ Pins!Happens("cuts")
  PROVE  OverlaysInv' /\ CardInv'
  <1>1. /\ Rightable(pins_may')
        /\ pins_may'.failures = pins_may.failures /\ pins_may'.late = pins_may.late
    <2>1. CASE pins_may' = pins_may
      BY <2>1 DEF OverlaysInv
    <2>2. CASE Pins!Happens("cuts")
      BY <2>2, Spent, StaysRightable DEF OverlaysInv
    <2> QED
      BY <2>1, <2>2
  <1>2. UNCHANGED <<pins_saved, card, pins_boot, active, change>>
    BY DEF Pins!wiring
  <1> QED
    BY <1>1, <1>2 DEF OverlaysInv, CardInv

(* A line that came too late for its request is closed. *)
LEMMA RequestEnds ==
  ASSUME PinsInv, NEW i \in Users, user[i].stage = "sent", Pins!wiring' = Pins!wiring, UNCHANGED <<slip,
         pins_may, active>>,
         Pins!Settled(i, user[i].held), Pins!Closes({user[i].pin})
  PROVE  PinsInv'
  <1> USE PinsConstants
  <1>1. PinsTypes /\ OverlaysInv /\ CardInv /\ LinesInv
    BY DEF PinsInv
  <1>2. /\ line' = [pin \in GpioHeader |-> IF pin = user[i].pin THEN Nowhere ELSE line[pin]]
        /\ user' = [user EXCEPT ![i] = [Pins!NoRequest EXCEPT !.held = user[i].held]]
    BY DEF Pins!Settled, Pins!Closes
  <1>3. [Pins!NoRequest EXCEPT !.held = user[i].held] \in PinsUser
    BY <1>1 DEF PinsTypes, PinsUser
  <1>4. user'[i].held = user[i].held /\ user'[i].stage = "none" /\ \A o \in Users : o # i => user'[o] = user[o]
    BY <1>1, <1>2, <1>3 DEF PinsTypes, PinsUser
  <1>5. user' \in [Users -> PinsUser] /\ line' \in [GpioHeader -> Users \cup {Nowhere}]
    BY <1>1, <1>2, <1>3 DEF PinsTypes
  <1>6. PinsTypes'
    BY <1>1, <1>4, <1>5 DEF PinsTypes, Pins!wiring
  <1>7. LinesInv'
    BY <1>1, <1>2, <1>4 DEF LinesInv, Pins!NoLineLost, Pins!Used, PinsTypes
  <1> QED
    BY <1>1, <1>6, <1>7, WiringStays DEF PinsInv

(* Each step of the wiring and its lines keeps their invariant. *)
LEMMA PinsStep == ASSUME OneSaver, PinsInv, [Pins!Next]_PinsVars PROVE PinsInv'
  <1> USE PinsConstants
  <1>1. PinsTypes /\ OverlaysInv /\ CardInv /\ LinesInv
    BY DEF PinsInv
  <1>2. ASSUME NEW s \in Savers, Pins!Changes(s) PROVE PinsInv'
    <2>1. PICK devices \in PinsDevices :
            /\ devices # pins_saved.devices
            /\ change' = [change EXCEPT ![s] = [pc |-> "writes", op |-> "save", devices |-> devices,
                                                overlays |-> pins_saved.overlays]]
      BY <1>1, <1>2 DEF Pins!Changes, PinsTypes, PinsSaved, PinsDevices
    <2>2. /\ Pins!Happens("changes") /\ change[s].pc = "idle"
          /\ UNCHANGED <<pins_saved, card, pins_boot, active, line, user, slip>>
      BY <1>2 DEF Pins!Changes, Pins!lines
    <2>3. [pc |-> "writes", op |-> "save", devices |-> devices, overlays |-> pins_saved.overlays] \in PinsChange
      BY <1>1, <2>1 DEF PinsChange, PinsTypes, PinsSaved
    <2>4. PinsTypes'
      BY <1>1, <2>1, <2>2, <2>3, Spent DEF PinsTypes
    <2>5. change'[s].pc = "writes" /\ change'[s].op = "save" /\ change'[s].devices = devices
          /\ change'[s].overlays = pins_saved.overlays
      BY <1>1, <2>1 DEF PinsTypes
    <2>6. OverlaysInv'
      <3>1. Rightable(pins_may')
        BY <1>1, <2>2, Spent, StaysRightable DEF OverlaysInv
      <3> QED
        BY <1>1, <2>1, <2>2, <2>5, <3>1 DEF OverlaysInv, OneSaver
    <2>7. CardInv'
      BY <1>1, <2>2, <2>5 DEF CardInv, OneSaver
    <2> QED
      BY <1>1, <2>2, <2>4, <2>6, <2>7, LinesStay DEF PinsInv
  <1>3. ASSUME NEW s \in Savers, Pins!Restores(s) PROVE PinsInv'
    <2>1. PICK kind \in {"restores", "emptied"}, devices \in PinsDevices :
            /\ Pins!Happens(kind) /\ (devices = Pins!NoDevices <=> kind = "emptied")
            /\ change' = [change EXCEPT ![s] = [pc |-> "writes", op |-> "restore", devices |-> devices,
                                                overlays |-> Pins!NoDevices]]
      BY <1>3 DEF Pins!Restores, PinsDevices
    <2>2. change[s].pc = "idle" /\ UNCHANGED <<pins_saved, card, pins_boot, active, line, user, slip>>
      BY <1>3 DEF Pins!Restores, Pins!lines
    <2>3. [pc |-> "writes", op |-> "restore", devices |-> devices, overlays |-> Pins!NoDevices] \in PinsChange
      BY DEF PinsChange
    <2>4. PinsTypes'
      BY <1>1, <2>1, <2>2, <2>3, Spent DEF PinsTypes
    <2>5. change'[s].pc = "writes" /\ change'[s].op = "restore" /\ change'[s].devices = devices
          /\ change'[s].overlays = Pins!NoDevices
      BY <1>1, <2>1 DEF PinsTypes
    <2>6. kind = "restores" /\ pins_may.failures = 0 /\ pins_may.late = 0
      BY <1>1, <2>1, Spent DEF OverlaysInv, Rightable
    <2>7. OverlaysInv'
      <3>1. Rightable(pins_may') /\ pins_may'.failures = 0 /\ pins_may'.late = 0
        BY <1>1, <2>1, <2>6, Spent, StaysRightable DEF OverlaysInv
      <3> QED
        BY <1>1, <2>1, <2>2, <2>5, <2>6, <3>1 DEF OverlaysInv, OneSaver
    <2>8. CardInv'
      BY <1>1, <2>2, <2>5 DEF CardInv, OneSaver
    <2> QED
      BY <1>1, <2>2, <2>4, <2>7, <2>8, LinesStay DEF PinsInv
  <1>4. ASSUME NEW s \in Savers, Pins!Writes(s) PROVE PinsInv'
    <2>1. /\ change[s].pc = "writes" /\ change[s].devices \in PinsDevices
          /\ change'[s].pc = "written" /\ change'[s].op = change[s].op /\ change'[s].devices = change[s].devices
          /\ change'[s].overlays = change[s].overlays
          /\ card' = change[s].devices /\ slip' = slip \ {"wiring"}
          /\ UNCHANGED <<pins_saved, pins_boot, active, line, user, pins_may>>
      BY <1>1, <1>4 DEF Pins!Writes, Pins!lines, PinsTypes, PinsChange
    <2>2. change' \in [Savers -> PinsChange]
      BY <1>1, <1>4 DEF Pins!Writes, PinsTypes, PinsChange
    <2>3. PinsTypes'
      BY <1>1, <2>1, <2>2 DEF PinsTypes
    <2>4. OverlaysInv'
      BY <1>1, <2>1 DEF OverlaysInv, OneSaver
    <2>5. CardInv'
      BY <1>1, <2>1 DEF CardInv, OneSaver
    <2> QED
      BY <1>1, <2>1, <2>3, <2>4, <2>5, LinesStay DEF PinsInv
  <1>5. ASSUME NEW s \in Savers, Pins!WriteFails(s) PROVE PinsInv'
    <2>1. /\ change[s].pc = "writes" /\ change[s].devices \in PinsDevices
             /\ change' = [change EXCEPT ![s] = Pins!NoChange]
          /\ UNCHANGED <<pins_boot, active, line, user>>
      BY <1>1, <1>5 DEF Pins!WriteFails, Pins!Done, Pins!lines, PinsTypes, PinsChange
    <2>2. PICK what \in {"failures", "late"} :
            Pins!Happens(what) /\ card' = IF what = "late" THEN change[s].devices ELSE card
      BY <1>5 DEF Pins!WriteFails
    <2>3. change[s].op = "save"
      BY <1>1, <2>1, <2>2, Spent DEF OverlaysInv, PinsTypes, PinsChange
    <2>4. pins_saved' = pins_saved /\ slip' = IF card' = pins_saved.devices THEN slip ELSE slip \cup {"wiring"}
      BY <1>5, <2>3 DEF Pins!WriteFails
    <2>5. PinsTypes'
      BY <1>1, <2>1, <2>2, <2>4, Spent DEF PinsTypes
    <2>6. change'[s].pc = "idle"
      BY <1>1, <2>1 DEF PinsTypes
    <2>7. OverlaysInv'
      <3>1. Rightable(pins_may')
        BY <1>1, <2>2, Spent, StaysRightable DEF OverlaysInv
      <3> QED
        BY <1>1, <2>4, <2>6, <3>1 DEF OverlaysInv, OneSaver
    <2>8. CardInv'
      BY <1>1, <2>1, <2>2, <2>4, <2>6 DEF CardInv, OneSaver
    <2> QED
      BY <1>1, <2>1, <2>4, <2>5, <2>7, <2>8, LinesStay DEF PinsInv
  <1>6. ASSUME NEW s \in Savers, Pins!Saves(s) PROVE PinsInv'
    <2>1. change[s].pc = "written" /\ change[s].overlays # change[s].devices /\ change[s].devices \in PinsDevices
      BY <1>1, <1>6 DEF Pins!Saves, Pins!WiredAlready, OverlaysInv, PinsTypes, PinsChange
    <2>2. /\ pins_saved' = [devices |-> change[s].devices, overlays |-> change[s].devices, pending |-> pins_boot]
          /\ change' = [change EXCEPT ![s] = Pins!NoChange]
          /\ UNCHANGED <<card, pins_boot, active, line, user, slip, pins_may>>
      BY <1>6, <2>1 DEF Pins!Saves, Pins!WiredAlready, Pins!Done, Pins!lines
    <2>3. pins_saved' \in PinsSaved /\ pins_saved'.pending \in 0..pins_boot
      BY <1>1, <2>1, <2>2 DEF PinsSaved, PinsTypes
    <2>4. PinsTypes'
      BY <1>1, <2>2, <2>3 DEF PinsTypes
    <2>5. change'[s].pc = "idle"
      BY <1>1, <2>2 DEF PinsTypes
    <2>6. OverlaysInv'
      BY <1>1, <2>2, <2>5 DEF OverlaysInv, OneSaver
    <2>7. CardInv'
      BY <1>1, <2>1, <2>2, <2>5 DEF CardInv, OneSaver
    <2> QED
      BY <1>1, <2>2, <2>4, <2>6, <2>7, LinesStay DEF PinsInv
  <1>7. ASSUME Pins!Reboots PROVE PinsInv'
    <2>1. /\ Pins!Happens("boots") /\ pins_boot' = pins_boot + 1 /\ active' = card
          /\ change' = [s \in Savers |-> Pins!NoChange]
          /\ line' = [pin \in GpioHeader |-> Nowhere] /\ user' = [i \in Users |-> Pins!NoRequest]
          /\ slip' = IF card = pins_saved.devices THEN {} ELSE {"wiring"}
          /\ UNCHANGED <<pins_saved, card>>
      BY <1>7 DEF Pins!Reboots
    <2>2. pins_boot' \in Nat /\ pins_saved.pending \in 0..pins_boot' /\ pins_saved.pending # pins_boot'
      BY <1>1, <2>1 DEF PinsTypes
    <2>3. PinsTypes'
      BY <1>1, <2>1, <2>2, Spent DEF PinsTypes
    <2>4. \A s \in Savers : change'[s].pc = "idle"
      BY <2>1
    <2>5. OverlaysInv'
      <3>1. Rightable(pins_may')
        BY <1>1, <2>1, Spent, StaysRightable DEF OverlaysInv
      <3> QED
        BY <1>1, <2>1, <2>4, <3>1 DEF OverlaysInv
    <2>6. CardInv'
      BY <2>1, <2>4 DEF CardInv
    <2>7. LinesInv'
      BY <2>1 DEF LinesInv, Pins!NoLineLost
    <2> QED
      BY <2>3, <2>5, <2>6, <2>7 DEF PinsInv
  <1>8. ASSUME NEW i \in Users, Pins!Asks(i) PROVE PinsInv'
    <2>1. PICK pin \in GpioHeader :
            user' = [user EXCEPT ![i].stage = "asked", ![i].pin = pin, ![i].waits = TRUE]
      BY <1>8 DEF Pins!Asks
    <2>2. user[i].stage = "none" /\ Pins!wiring' = Pins!wiring /\ UNCHANGED <<line, slip, pins_may>>
      BY <1>8 DEF Pins!Asks
    <2>3. /\ user'[i].stage = "asked" /\ user'[i].held = user[i].held /\ user'[i].pin = pin
          /\ \A o \in Users : o # i => user'[o] = user[o]
      BY <1>1, <2>1 DEF PinsTypes, PinsUser
    <2>4. user' \in [Users -> PinsUser]
      BY <1>1, <2>1 DEF PinsTypes, PinsUser
    <2>5. PinsTypes'
      BY <1>1, <2>2, <2>3, <2>4 DEF PinsTypes, Pins!wiring
    <2>6. LinesInv'
      BY <1>1, <2>2, <2>3 DEF LinesInv, Pins!NoLineLost, Pins!wiring, Pins!Used, PinsTypes
    <2> QED
      BY <1>1, <2>2, <2>5, <2>6, WiringStays DEF PinsInv
  <1>9. ASSUME NEW i \in Users, Pins!HandsOver(i) PROVE PinsInv'
    <2>1. user[i].stage = "asked" /\ Pins!wiring' = Pins!wiring /\ UNCHANGED <<slip, pins_may, active>>
      BY <1>9 DEF Pins!HandsOver, Pins!wiring
    <2>2. CASE user[i].pin \in Pins!FreePins /\ ~Pins!Busy(user[i].pin)
      <3>1. /\ line' = [line EXCEPT ![user[i].pin] = i] /\ user' = [user EXCEPT ![i].stage = "sent"]
            /\ user[i].pin \in GpioHeader /\ user[i].pin \notin Pins!Used(active) /\ line[user[i].pin] = Nowhere
        BY <1>9, <2>2 DEF Pins!HandsOver, Pins!FreePins, Pins!Busy
      <3>2. /\ user'[i].stage = "sent" /\ user'[i].held = user[i].held /\ user'[i].pin = user[i].pin
            /\ \A o \in Users : o # i => user'[o] = user[o]
        BY <1>1, <3>1 DEF PinsTypes, PinsUser
      <3>3. user' \in [Users -> PinsUser]
        BY <1>1, <3>1 DEF PinsTypes, PinsUser
      <3>4. line'[user[i].pin] = i /\ \A pin \in GpioHeader : pin # user[i].pin => line'[pin] = line[pin]
        BY <1>1, <3>1 DEF PinsTypes
      <3>5. PinsTypes'
        BY <1>1, <2>1, <3>1, <3>3 DEF PinsTypes, Pins!wiring
      <3>6. \A pin \in GpioHeader \cap Pins!Used(active)' : line'[pin] = Nowhere
        BY <1>1, <2>1, <3>1, <3>4 DEF LinesInv, Pins!Used
      <3>7. Pins!NoLineLost'
        BY <1>1, <2>1, <3>2, <3>4 DEF LinesInv, Pins!NoLineLost, PinsTypes
      <3> QED
        BY <1>1, <2>1, <3>5, <3>6, <3>7, WiringStays DEF PinsInv, LinesInv, Pins!Used
    <2>3. CASE ~(user[i].pin \in Pins!FreePins /\ ~Pins!Busy(user[i].pin))
      <3>1. line' = line /\ user' = [user EXCEPT ![i] = [Pins!NoRequest EXCEPT !.held = user[i].held]]
        BY <1>9, <2>3 DEF Pins!HandsOver
      <3>2. [Pins!NoRequest EXCEPT !.held = user[i].held] \in PinsUser
        BY <1>1 DEF PinsTypes, PinsUser
      <3>3. user'[i].held = user[i].held /\ \A o \in Users : o # i => user'[o] = user[o]
        BY <1>1, <3>1, <3>2 DEF PinsTypes, PinsUser
      <3>4. PinsTypes'
        BY <1>1, <2>1, <3>1, <3>2 DEF PinsTypes, Pins!wiring
      <3>5. LinesInv'
        BY <1>1, <2>1, <3>1, <3>3 DEF LinesInv, Pins!NoLineLost, Pins!Used, PinsTypes
      <3> QED
        BY <1>1, <2>1, <3>4, <3>5, WiringStays DEF PinsInv
    <2> QED
      BY <2>2, <2>3
  <1>10. ASSUME NEW i \in Users, Pins!Arrives(i) PROVE PinsInv'
    <2>1. user[i].stage = "sent" /\ Pins!wiring' = Pins!wiring /\ UNCHANGED <<slip, pins_may, active>>
      BY <1>10 DEF Pins!Arrives, Pins!wiring
    <2>2. CASE user[i].waits
      <3>1. user' = [user EXCEPT ![i].stage = "given"] /\ line' = line
        BY <1>10, <2>2 DEF Pins!Arrives
      <3>2. /\ user'[i].stage = "given" /\ user'[i].held = user[i].held /\ user'[i].pin = user[i].pin
            /\ \A o \in Users : o # i => user'[o] = user[o]
        BY <1>1, <3>1 DEF PinsTypes, PinsUser
      <3>3. user' \in [Users -> PinsUser]
        BY <1>1, <3>1 DEF PinsTypes, PinsUser
      <3>4. PinsTypes'
        BY <1>1, <2>1, <3>1, <3>3 DEF PinsTypes, Pins!wiring
      <3>5. LinesInv'
        BY <1>1, <2>1, <3>1, <3>2 DEF LinesInv, Pins!NoLineLost, Pins!Used, PinsTypes
      <3> QED
        BY <1>1, <2>1, <3>4, <3>5, WiringStays DEF PinsInv
    <2>3. CASE ~user[i].waits
      <3>1. Pins!Settled(i, user[i].held) /\ Pins!Closes({user[i].pin})
        BY <1>10, <2>3 DEF Pins!Arrives
      <3> QED
        BY <1>1, <2>1, <3>1, RequestEnds
    <2> QED
      BY <2>2, <2>3
  <1>11. ASSUME NEW i \in Users, Pins!Takes(i) PROVE PinsInv'
    <2>1. /\ user[i].stage = "given" /\ Pins!wiring' = Pins!wiring /\ UNCHANGED <<slip, pins_may, active, line>>
          /\ user' = [user EXCEPT ![i] = [Pins!NoRequest EXCEPT !.held = user[i].held \cup {user[i].pin}]]
      BY <1>11 DEF Pins!Takes, Pins!Settled, Pins!wiring
    <2>2. user[i].pin \in GpioHeader
      BY <1>1, <2>1 DEF PinsTypes
    <2>3. [Pins!NoRequest EXCEPT !.held = user[i].held \cup {user[i].pin}] \in PinsUser
      BY <1>1, <2>2 DEF PinsTypes, PinsUser
    <2>4. user'[i].held = user[i].held \cup {user[i].pin} /\ \A o \in Users : o # i => user'[o] = user[o]
      BY <1>1, <2>1, <2>3 DEF PinsTypes, PinsUser
    <2>5. PinsTypes'
      BY <1>1, <2>1, <2>3 DEF PinsTypes, Pins!wiring
    <2>6. LinesInv'
      BY <1>1, <2>1, <2>4 DEF LinesInv, Pins!NoLineLost, Pins!Used, PinsTypes
    <2> QED
      BY <1>1, <2>1, <2>5, <2>6, WiringStays DEF PinsInv
  <1>12. ASSUME NEW i \in Users, Pins!GivesUp(i) PROVE PinsInv'
    <2>1. Pins!wiring' = Pins!wiring /\ UNCHANGED <<active, line>>
      BY <1>12 DEF Pins!GivesUp, Pins!wiring
    <2>2. CASE user[i].stage \in {"asked", "sent"} /\ user' = [user EXCEPT ![i].waits = FALSE]
               /\ UNCHANGED <<slip, pins_may>>
      <3>1. /\ user'[i].stage = user[i].stage /\ user'[i].held = user[i].held /\ user'[i].pin = user[i].pin
            /\ \A o \in Users : o # i => user'[o] = user[o]
        BY <1>1, <2>2 DEF PinsTypes, PinsUser
      <3>2. user' \in [Users -> PinsUser]
        BY <1>1, <2>2 DEF PinsTypes, PinsUser
      <3>3. PinsTypes'
        BY <1>1, <2>1, <2>2, <3>2 DEF PinsTypes, Pins!wiring
      <3>4. LinesInv'
        BY <1>1, <2>1, <2>2, <3>1 DEF LinesInv, Pins!NoLineLost, Pins!Used, PinsTypes
      <3> QED
        BY <1>1, <2>1, <2>2, <3>3, <3>4, WiringStays DEF PinsInv
    <2>3. CASE Pins!Happens("cuts") /\ Pins!Settled(i, user[i].held) /\ slip' = slip \cup {"line"}
      <3>1. user' = [user EXCEPT ![i] = [Pins!NoRequest EXCEPT !.held = user[i].held]]
        BY <2>3 DEF Pins!Settled
      <3>2. [Pins!NoRequest EXCEPT !.held = user[i].held] \in PinsUser
        BY <1>1 DEF PinsTypes, PinsUser
      <3>3. PinsTypes'
        BY <1>1, <2>1, <2>3, <3>1, <3>2, Spent DEF PinsTypes, Pins!wiring
      <3>4. LinesInv'
        BY <1>1, <2>1, <2>3 DEF LinesInv, Pins!NoLineLost, Pins!Used
      <3> QED
        BY <1>1, <2>1, <2>3, <3>3, <3>4, WiringStays DEF PinsInv
    <2> QED
      BY <1>12, <2>2, <2>3 DEF Pins!GivesUp
  <1>13. ASSUME NEW i \in Users, Pins!LoopEnds(i) PROVE PinsInv'
    <2>1. /\ user[i].stage # "given" /\ Pins!wiring' = Pins!wiring /\ UNCHANGED <<slip, pins_may, active>>
          /\ line' = [pin \in GpioHeader |-> IF pin \in user[i].held THEN Nowhere ELSE line[pin]]
          /\ user' = [user EXCEPT ![i].held = {}, ![i].waits = FALSE]
      BY <1>13 DEF Pins!LoopEnds, Pins!Closes, Pins!wiring
    <2>2. /\ user'[i].stage = user[i].stage /\ user'[i].held = {} /\ user'[i].pin = user[i].pin
          /\ \A o \in Users : o # i => user'[o] = user[o]
      BY <1>1, <2>1 DEF PinsTypes, PinsUser
    <2>3. user' \in [Users -> PinsUser]
      BY <1>1, <2>1 DEF PinsTypes, PinsUser
    <2>4. line' \in [GpioHeader -> Users \cup {Nowhere}]
      BY <1>1, <2>1 DEF PinsTypes
    <2>5. PinsTypes'
      BY <1>1, <2>1, <2>3, <2>4 DEF PinsTypes, Pins!wiring
    <2>6. LinesInv'
      BY <1>1, <2>1, <2>2 DEF LinesInv, Pins!NoLineLost, Pins!Used, PinsTypes
    <2> QED
      BY <1>1, <2>1, <2>5, <2>6, WiringStays DEF PinsInv
  <1>14. CASE UNCHANGED PinsVars
    <2>1. PinsTypes' /\ OverlaysInv' /\ CardInv' /\ LinesInv'
      BY <1>1, <1>14 DEF PinsVars, PinsTypes, OverlaysInv, CardInv, LinesInv, Pins!NoLineLost, Pins!Used
    <2> QED
      BY <2>1 DEF PinsInv
  <1> QED
    BY <1>2, <1>3, <1>4, <1>5, <1>6, <1>7, <1>8, <1>9, <1>10, <1>11, <1>12, <1>13, <1>14 DEF Pins!Next

(* Pins: a card written late or not at all aside, and unless a backup has nothing to restore or its restore fails, *)
(* at rest the card, the firmware and the lines fit the devices that are saved, and no line is lost. *)
THEOREM WiringStaysSaved ==
  ASSUME OneSaver, \A m \in PinScenes : Rightable(m) PROVE Spec => []WiringIsSaved
  <1>1. Init => (part = "pins" => PinsInv)
    BY PinsInit DEF Init
  <1>2. (part = "pins" => PinsInv) /\ [Next]_vars => (part = "pins" => PinsInv)'
    BY StepOfPart, PinsStep
  <1>3. (part = "pins" => PinsInv) => WiringIsSaved
    <2>1. ASSUME PinsInv PROVE Pins!WiringIsSaved /\ Pins!NoLineLost
      <3>1. PinsTypes /\ CardInv /\ LinesInv
        BY <2>1 DEF PinsInv
      <3>2. ASSUME Pins!Calm, "wiring" \notin slip
            PROVE /\ card = pins_saved.devices
                  /\ pins_saved.pending # pins_boot => active = pins_saved.devices
        BY <3>1, <3>2 DEF CardInv, Pins!Calm
      <3>3. Pins!TypeOK
        <4>1. {pins_saved.devices, pins_saved.overlays, card, active} \subseteq PinsDevices
          BY <3>1 DEF PinsTypes, PinsSaved
        <4>2. \A i \in Users : user[i].held \subseteq GpioHeader
          BY <3>1 DEF PinsTypes, PinsUser
        <4> QED
          BY <3>1, <4>1, <4>2 DEF Pins!TypeOK, PinsTypes, PinsDevices
      <3> QED
        BY <3>1, <3>2, <3>3 DEF Pins!WiringIsSaved, LinesInv
    <2> QED
      BY <2>1 DEF WiringIsSaved
  <1> QED
    BY <1>1, <1>2, <1>3, PTL DEF Spec

\* The load the core will know once it has read all that the page said, and whether it was of another start
\* of the core.
LastId == IF said = <<>> THEN known ELSE said[Len(said)].id
LastStale == IF said = <<>> THEN crashguard_stale ELSE said[Len(said)].boot = "old"
IdBefore(k) == IF k = 1 THEN known ELSE said[k - 1].id
StaleBefore(k) == IF k = 1 THEN crashguard_stale ELSE said[k - 1].boot = "old"

GuardPage == [id : CrashGuard!Ids, heard : CrashGuard!Boots, st : {"loads", "open", "up", "lost"}, told : BOOLEAN,
              why : CrashGuard!Whys]
GuardWord == [id : CrashGuard!Ids, boot : CrashGuard!Boots, why : CrashGuard!Whys]

\* A load that is not a crash is known when the core reads of it, or follows one of another start, or a
\* reload asked for.
Excused(why, id, before, old) ==
  /\ why = "own" => before \in {0, id} \/ old
  /\ why = "asked" => before \in {0, id} \/ old \/ crashguard_asked < Grace

WordsInv == \A k \in 1..Len(said) : Excused(said[k].why, said[k].id, IdBefore(k), StaleBefore(k))

PageInv ==
  /\ Excused(crashguard_page.why, crashguard_page.id, LastId, LastStale)
  /\ crashguard_page.st # "loads" => LastId \in {0, crashguard_page.id}
  /\ crashguard_page.st = "loads" => crashguard_page.heard = "none" /\ ~crashguard_page.told
  /\ crashguard_page.st = "up" => crashguard_page.heard = "now"
  /\ crashguard_page.st = "open" /\ crashguard_page.heard = "old" => LastStale
  /\ crashguard_page.told =>
       \/ crashguard_asked < Grace
       \/ crashguard_page.heard = "old" /\ crashguard_page.st = "open"
       \/ crashguard_page.heard = "old" /\ crashguard_page.st = "lost" /\ LastId = 0
  /\ crashguard_page.told /\ crashguard_page.st = "lost" => crashguard_page.heard \in {"now", "old"}

-----------------------------------------------------------------------------
(* What its operators give.                                                 *)

(* A set of numbers has a smallest one: their initial segments have, by inclusion. *)
LEMMA SmallestThere == ASSUME NEW S, S \subseteq Nat, S # {} PROVE CrashGuard!Min(S) \in S
  <1> DEFINE Segments == {0..x : x \in S}
  <1>1. Segments \subseteq FiniteSubsetsOf(Nat) /\ Segments # {}
    <2>1. ASSUME NEW x \in S PROVE 0..x \in FiniteSubsetsOf(Nat)
      BY FS_Interval DEF FiniteSubsetsOf
    <2> QED
      BY <2>1
  <1>2. PICK s \in Segments : \A r \in Segments : ~(<<r, s>> \in StrictSubsetOrdering(Nat))
    <2> HIDE DEF Segments
    <2> QED
      BY <1>1, FS_StrictSubsetOrderingWellFounded, WFMin
  <1>3. PICK x \in S : s = 0..x
    OBVIOUS
  <1>4. ASSUME NEW y \in S PROVE x <= y
    <2>1. SUFFICES ASSUME y < x PROVE FALSE
      OBVIOUS
    <2>2. 0..y \subseteq 0..x /\ 0..y # 0..x /\ 0..y \subseteq Nat /\ 0..x \subseteq Nat
      BY <2>1
    <2>3. <<0..y, 0..x>> \in StrictSubsetOrdering(Nat)
      BY <2>2 DEF StrictSubsetOrdering
    <2> QED
      BY <1>2, <1>3, <2>3
  <1> QED
    BY <1>4 DEF CrashGuard!Min

(* What the component says of sets' sizes is what the theorems about them say. *)
LEMMA SameSize ==
  \A S : (CrashGuard!IsFiniteSet(S) <=> IsFiniteSet(S)) /\ CrashGuard!Cardinality(S) = Cardinality(S)
  <1>1. \A S : CrashGuard!IsFiniteSet(S) <=> IsFiniteSet(S)
    BY DEF CrashGuard!IsFiniteSet, IsFiniteSet
  <1>2. ASSUME NEW S PROVE CrashGuard!Cardinality(S) = Cardinality(S)
    BY DEF CrashGuard!Cardinality, Cardinality
  <1> QED
    BY <1>1, <1>2

(* A finite set has at least as many members as its image. *)
LEMMA ImageIsSmall == ASSUME NEW S, IsFiniteSet(S), NEW f
  PROVE LET T == {f[x] : x \in S} IN IsFiniteSet(T) /\ Cardinality(T) <= Cardinality(S)
  <1> DEFINE T == {f[x] : x \in S}
             g == [x \in S |-> f[x]]
  <1>1. g \in Surjection(S, T)
    BY DEF Surjection
  <1> QED
    BY <1>1, FS_Surjection

(* The constants of the guard, and its own names for the steps and ages. *)
LEMMA GuardConstants ==
  /\ IsFiniteSet(Guarded) /\ Cardinality(Guarded) \in Nat
  /\ Grace \in Nat /\ Grace > 0 /\ Soon \in Nat /\ CrashWindow \in Nat /\ MaxSaid \in Nat /\ MaxSaid > 0
  /\ CrashGuard!Top = 3 /\ CrashGuard!NoId = 0 /\ CrashGuard!Never = CrashWindow + 1
  /\ MaxChanges \in Nat /\ MaxRestarts \in Nat /\ MaxFaults \in Nat
  /\ CrashGuard!Ids \subseteq Nat /\ 0 \notin CrashGuard!Ids
  <1>1. CrashGuard!CrashGuardAssumption
    BY AdminAssumption
  <1>2. IsFiniteSet(Guarded)
    BY <1>1, SameSize DEF CrashGuard!CrashGuardAssumption
  <1>3. /\ Grace \in Nat /\ Grace > 0 /\ Soon \in Nat /\ CrashWindow \in Nat /\ MaxSaid \in Nat /\ MaxSaid > 0
        /\ MaxChanges \in Nat /\ MaxRestarts \in Nat /\ MaxFaults \in Nat
    BY <1>1 DEF CrashGuard!CrashGuardAssumption
  <1> QED
    BY <1>2, <1>3, FS_CardinalityType DEF CrashGuard!Top, CrashGuard!NoId, CrashGuard!Never, CrashGuard!Ids

(* With so many ids and so few words there is always an id no word and no load took. *)
LEMMA SpareId == ASSUME said \in Seq(GuardWord), Len(said) <= MaxSaid PROVE CrashGuard!NewId \in CrashGuard!Ids
  <1> USE GuardConstants
  <1> DEFINE Said == {said[k].id : k \in 1..Len(said)}
             Taken == Said \cup {known}
             ids == [k \in 1..Len(said) |-> said[k].id]
             Spare == {i \in CrashGuard!Ids : i # known /\ \A k \in DOMAIN said : said[k].id # i}
  <1>1. Len(said) \in Nat
    OBVIOUS
  <1>2. IsFiniteSet(1..Len(said)) /\ Cardinality(1..Len(said)) = Len(said)
    <2>1. 1 \in Int /\ Len(said) \in Int /\ Len(said) >= 0
      BY <1>1
    <2>2. IsFiniteSet(1..Len(said)) /\ Cardinality(1..Len(said)) = (IF 1 > Len(said) THEN 0 ELSE Len(said) - 1 + 1)
      BY <2>1, FS_Interval
    <2> QED
      BY <1>1, <2>2
  <1>3. {ids[k] : k \in 1..Len(said)} = {said[k].id : k \in 1..Len(said)}
    OBVIOUS
  <1>4. IsFiniteSet(Said) /\ Cardinality(Said) \in Nat /\ Cardinality(Said) <= Len(said)
    <2>1. IsFiniteSet({ids[k] : k \in 1..Len(said)}) /\ Cardinality({ids[k] : k \in 1..Len(said)}) <= Len(said)
      <3> HIDE DEF ids
      <3> QED
        BY <1>2, ImageIsSmall
    <2> QED
      BY <1>3, <2>1, FS_CardinalityType
  <1>5. IsFiniteSet(Taken) /\ Cardinality(Taken) <= MaxSaid + 1 /\ Cardinality(Taken) \in Nat
    <2>1. IsFiniteSet(Taken) /\ Cardinality(Taken) \in Nat
      BY <1>4, FS_AddElement, FS_CardinalityType
    <2>2. Cardinality(Taken) <= Cardinality(Said) + 1
      <3> HIDE DEF Said
      <3>1. Cardinality(Taken) = IF known \in Said THEN Cardinality(Said) ELSE Cardinality(Said) + 1
        BY <1>4, FS_AddElement
      <3> QED
        BY <1>4, <3>1
    <2> QED
      BY <1>1, <1>4, <2>1, <2>2
  <1>6. IsFiniteSet(CrashGuard!Ids) /\ Cardinality(CrashGuard!Ids) = MaxSaid + 2
    BY FS_Interval DEF CrashGuard!Ids
  <1>7. ~(CrashGuard!Ids \subseteq Taken)
    <2>1. SUFFICES ASSUME CrashGuard!Ids \subseteq Taken PROVE FALSE
      OBVIOUS
    <2>2. Cardinality(CrashGuard!Ids) <= Cardinality(Taken)
      BY <1>5, <2>1, FS_Subset
    <2> QED
      BY <1>5, <1>6, <2>2
  <1>8. Spare # {} /\ Spare \subseteq Nat
    <2>1. PICK i \in CrashGuard!Ids : i \notin Taken
      BY <1>7
    <2>2. i \in Spare
      BY <2>1
    <2> QED
      BY <2>2
  <1>9. CrashGuard!Min(Spare) \in Spare
    BY <1>8, SmallestThere
  <1> QED
    BY <1>9 DEF CrashGuard!NewId

(* The next step of the guard is above the one it stands on. *)
LEMMA StepUp == ASSUME level \in 0..2 PROVE CrashGuard!NextStep \in (level + 1)..3
  <1> DEFINE S == {s \in (level + 1)..3 : s = 3 \/ CrashGuard!NewAt(s) # {}}
  <1>1. S # {} /\ S \subseteq Nat
    <2>1. 3 \in S
      OBVIOUS
    <2> QED
      BY <2>1
  <1>2. CrashGuard!Min(S) \in S
    BY <1>1, SmallestThere
  <1> QED
    BY <1>2, GuardConstants DEF CrashGuard!NextStep

(* Ranks stay ranks when some instances were changed last. *)
LEMMA RanksStay == ASSUME NEW s \in SUBSET Guarded, rank \in [Guarded -> 0..Cardinality(Guarded)]
  PROVE CrashGuard!Later(s) \in [Guarded -> 0..Cardinality(Guarded)]
  <1> USE GuardConstants
  <1> DEFINE before(n) == {m \in Guarded \ s : rank[m] > 0 /\ (n \in s \/ rank[m] <= rank[n])}
             below(n) == {rank[o] : o \in before(n)}
  <1>1. ASSUME NEW n \in Guarded
        PROVE (IF n \notin s /\ rank[n] = 0 THEN 0 ELSE Cardinality(below(n)) + (IF n \in s THEN 1 ELSE 0))
                \in 0..Cardinality(Guarded)
    <2>1. IsFiniteSet(before(n)) /\ Cardinality(before(n)) \in Nat /\ Cardinality(before(n)) <= Cardinality(Guarded)
      BY FS_Subset, FS_CardinalityType
    <2>2. n \in s => Cardinality(before(n)) < Cardinality(Guarded)
      <3>1. n \in s => before(n) # Guarded
        OBVIOUS
      <3> QED
        BY <2>1, <3>1, FS_Subset
    <2>3. IsFiniteSet(below(n)) /\ Cardinality(below(n)) <= Cardinality(before(n)) /\ Cardinality(below(n)) \in Nat
      BY <2>1, ImageIsSmall, FS_CardinalityType
    <2> QED
      BY <2>1, <2>2, <2>3
  <1> QED
    BY <1>1, SameSize DEF CrashGuard!Later

-----------------------------------------------------------------------------
(* The types, of each group of variables by itself.                         *)

ConfigTypes ==
  /\ instances \subseteq Guarded /\ enabled \subseteq instances /\ layers \subseteq Guarded
  /\ rank \in [Guarded -> 0..Cardinality(Guarded)]
HeldTypes ==
  /\ level \in 0..3 /\ paused \subseteq Guarded
  /\ crashed \in 0..(CrashWindow + 1) /\ stepped \in 0..(CrashWindow + 1)
CountTypes ==
  /\ up \in 0..Soon /\ changes \in 0..MaxChanges /\ restarts \in 0..MaxRestarts /\ faults \in 0..MaxFaults
PlayedTypes == played \subseteq Guarded /\ reloads \in BOOLEAN
PageTypes ==
  /\ known \in CrashGuard!Ids \cup {0} /\ crashguard_stale \in BOOLEAN /\ crashguard_asked \in 0..Grace
  /\ crashguard_page \in GuardPage /\ said \in Seq(GuardWord) /\ Len(said) <= MaxSaid

PageActs == \/ CrashGuard!ScreenCrashes \/ CrashGuard!CauseCrashes \/ CrashGuard!PageOpens \/ CrashGuard!PageHears
            \/ CrashGuard!PageReloads \/ CrashGuard!PageLost

(* What holds after each kind of step of the guard holds after every step. *)
LEMMA GuardCases == ASSUME [CrashGuard!Next]_CrashGuardVars,
    NEW P,
    PageActs => P, CrashGuard!PageLoaded => P, CrashGuard!ReloadsModules => P, CrashGuard!CoreRestarts => P,
    CrashGuard!Tick => P, CrashGuard!ShowAgain => P,
    \A n \in Guarded : CrashGuard!VideoPlays(n) => P,
    \A n \in Guarded : CrashGuard!Save(n) \/ CrashGuard!RemoveInstance(n) \/ CrashGuard!Toggle(n) => P,
    \A s \in SUBSET Guarded : CrashGuard!Installed(s) => P,
    UNCHANGED CrashGuardVars => P
  PROVE P
BY DEF CrashGuard!Next, PageActs

(* Those of the page change nothing else. *)
LEMMA PageActsOnly == ASSUME PageActs
  PROVE UNCHANGED <<instances, enabled, layers, rank, level, paused, crashed, stepped, known, crashguard_stale,
                    crashguard_asked, played, reloads, blamed, changes, restarts>>
BY DEF PageActs, CrashGuard!ScreenCrashes, CrashGuard!CauseCrashes, CrashGuard!PageOpens, CrashGuard!PageHears,
   CrashGuard!PageReloads, CrashGuard!PageLost, CrashGuard!config, CrashGuard!guard, CrashGuard!core

(* Each step keeps the types of what is configured. *)
LEMMA ConfigStep == ASSUME ConfigTypes, [CrashGuard!Next]_CrashGuardVars PROVE ConfigTypes'
  <1>1. CASE UNCHANGED <<instances, enabled, layers, rank>>
    BY <1>1 DEF ConfigTypes
  <1>2. ASSUME NEW n \in Guarded, CrashGuard!Save(n) PROVE ConfigTypes'
    <2>1. rank' \in [Guarded -> 0..Cardinality(Guarded)]
      <3>1. rank' = CrashGuard!Later({n})
        BY <1>2 DEF CrashGuard!Save
      <3> QED
        BY <3>1, RanksStay DEF ConfigTypes
    <2> QED
      BY <1>2, <2>1 DEF CrashGuard!Save, ConfigTypes
  <1>3. ASSUME NEW n \in Guarded, CrashGuard!RemoveInstance(n) \/ CrashGuard!Toggle(n) PROVE ConfigTypes'
    BY <1>3 DEF CrashGuard!RemoveInstance, CrashGuard!Toggle, ConfigTypes
  <1>4. ASSUME NEW s \in SUBSET Guarded, CrashGuard!Installed(s) PROVE ConfigTypes'
    BY <1>4, RanksStay DEF CrashGuard!Installed, ConfigTypes
  <1>5. CrashGuard!PageLoaded \/ CrashGuard!ReloadsModules \/ CrashGuard!CoreRestarts \/ CrashGuard!Tick
          \/ CrashGuard!ShowAgain => UNCHANGED <<instances, enabled, layers, rank>>
    BY DEF CrashGuard!PageLoaded, CrashGuard!ReloadsModules, CrashGuard!CoreRestarts, CrashGuard!Tick,
       CrashGuard!ShowAgain, CrashGuard!config
  <1>6. \A n \in Guarded : CrashGuard!VideoPlays(n) => UNCHANGED <<instances, enabled, layers, rank>>
    BY DEF CrashGuard!VideoPlays, CrashGuard!config
  <1>7. UNCHANGED CrashGuardVars => UNCHANGED <<instances, enabled, layers, rank>>
    BY DEF CrashGuardVars
  <1> QED
    BY <1>1, <1>2, <1>3, <1>4, <1>5, <1>6, <1>7, PageActsOnly, GuardCases

(* A crash keeps the types of what the guard holds. *)
LEMMA CrashHeld == ASSUME HeldTypes, ConfigTypes, CrashGuard!PageCrashed
  PROVE HeldTypes' /\ (reloads' = TRUE \/ reloads' = reloads)
  <1> USE GuardConstants
  <1>1. CASE CrashGuard!Due /\ level < 3
    <2>1. CrashGuard!NextStep \in 1..3
      BY <1>1, StepUp DEF HeldTypes
    <2>2. CrashGuard!NewAt(CrashGuard!NextStep) \subseteq Guarded
      BY DEF CrashGuard!NewAt, CrashGuard!ToPause, CrashGuard!LastChanged, CrashGuard!Shown, ConfigTypes
    <2>3. /\ level' = CrashGuard!NextStep /\ paused' = paused \cup CrashGuard!NewAt(CrashGuard!NextStep)
          /\ stepped' = 0 /\ crashed' = 0 /\ reloads' = TRUE
      BY <1>1 DEF CrashGuard!PageCrashed
    <2> QED
      BY <2>1, <2>2, <2>3 DEF HeldTypes
  <1>2. CASE ~(CrashGuard!Due /\ level < 3)
    BY <1>2 DEF CrashGuard!PageCrashed, HeldTypes
  <1> QED
    BY <1>1, <1>2

(* So does each step. *)
LEMMA HeldStep == ASSUME HeldTypes, ConfigTypes, [CrashGuard!Next]_CrashGuardVars PROVE HeldTypes'
  <1> USE GuardConstants
  <1>1. CASE UNCHANGED <<level, paused, crashed, stepped>>
    BY <1>1 DEF HeldTypes
  <1>2. CrashGuard!PageLoaded => HeldTypes'
    BY <1>1, CrashHeld DEF CrashGuard!PageLoaded, CrashGuard!guard
  <1>3. CrashGuard!Tick => HeldTypes'
    BY DEF CrashGuard!Tick, CrashGuard!Older, HeldTypes
  <1>4. CrashGuard!ShowAgain => HeldTypes'
    BY DEF CrashGuard!ShowAgain, CrashGuard!StartsOver, HeldTypes
  <1>5. ASSUME NEW n \in Guarded, CrashGuard!Save(n) PROVE HeldTypes'
    <2>1. CrashGuard!Release(n)
      BY <1>5 DEF CrashGuard!Save
    <2> QED
      BY <1>1, <2>1 DEF CrashGuard!Release, CrashGuard!StartsOver, CrashGuard!guard, HeldTypes
  <1>6. ASSUME NEW n \in Guarded, CrashGuard!RemoveInstance(n) \/ CrashGuard!Toggle(n) \/ CrashGuard!VideoPlays(n)
        PROVE HeldTypes'
    BY <1>1, <1>6 DEF CrashGuard!RemoveInstance, CrashGuard!Toggle, CrashGuard!VideoPlays, CrashGuard!guard
  <1>7. ASSUME NEW s \in SUBSET Guarded, CrashGuard!Installed(s) PROVE HeldTypes'
    BY <1>1, <1>7 DEF CrashGuard!Installed, CrashGuard!guard
  <1>8. CrashGuard!ReloadsModules \/ CrashGuard!CoreRestarts => HeldTypes'
    BY <1>1 DEF CrashGuard!ReloadsModules, CrashGuard!CoreRestarts, CrashGuard!guard
  <1>9. UNCHANGED CrashGuardVars => HeldTypes'
    BY <1>1 DEF CrashGuardVars
  <1>10. PageActs => HeldTypes'
    BY <1>1, PageActsOnly
  <1> QED
    BY <1>2, <1>3, <1>4, <1>5, <1>6, <1>7, <1>8, <1>9, <1>10, GuardCases

(* Each step keeps the types of what has played. *)
LEMMA PlayedStep == ASSUME PlayedTypes, ConfigTypes, HeldTypes, [CrashGuard!Next]_CrashGuardVars PROVE PlayedTypes'
  <1>1. CASE UNCHANGED <<played, reloads>>
    BY <1>1 DEF PlayedTypes
  <1>2. CrashGuard!PageLoaded => PlayedTypes'
    BY CrashHeld DEF CrashGuard!PageLoaded, PlayedTypes
  <1>3. ASSUME NEW n \in Guarded, CrashGuard!Save(n) \/ CrashGuard!RemoveInstance(n) \/ CrashGuard!Toggle(n)
        PROVE PlayedTypes'
    BY <1>1, <1>3 DEF CrashGuard!Save, CrashGuard!RemoveInstance, CrashGuard!Toggle, CrashGuard!AsksReload
  <1>4. ASSUME NEW s \in SUBSET Guarded, CrashGuard!Installed(s) PROVE PlayedTypes'
    BY <1>1, <1>4 DEF CrashGuard!Installed, CrashGuard!core
  <1>5. ASSUME NEW n \in Guarded, CrashGuard!VideoPlays(n) PROVE PlayedTypes'
    BY <1>5 DEF CrashGuard!VideoPlays, PlayedTypes
  <1>6. CrashGuard!ReloadsModules \/ CrashGuard!CoreRestarts \/ CrashGuard!Tick \/ CrashGuard!ShowAgain
        => PlayedTypes'
    BY DEF CrashGuard!ReloadsModules, CrashGuard!AsksReload, CrashGuard!CoreRestarts, CrashGuard!Tick,
       CrashGuard!ShowAgain, PlayedTypes
  <1>7. UNCHANGED CrashGuardVars => PlayedTypes'
    BY <1>1 DEF CrashGuardVars
  <1>8. PageActs => PlayedTypes'
    BY <1>1, PageActsOnly
  <1> QED
    BY <1>2, <1>3, <1>4, <1>5, <1>6, <1>7, <1>8, GuardCases

(* Each step keeps the types of what is counted. *)
LEMMA CountStep == ASSUME CountTypes, [CrashGuard!Next]_CrashGuardVars PROVE CountTypes'
  <1> USE GuardConstants
  <1>1. CASE UNCHANGED <<up, changes, restarts, faults>>
    BY <1>1 DEF CountTypes
  <1>2. PageActs => CountTypes'
    BY DEF PageActs, CrashGuard!ScreenCrashes, CrashGuard!CauseCrashes, CrashGuard!PageOpens, CrashGuard!PageHears,
       CrashGuard!PageReloads, CrashGuard!PageLost, CrashGuard!Loads, CountTypes
  <1>3. ASSUME NEW n \in Guarded, CrashGuard!Save(n) \/ CrashGuard!RemoveInstance(n) \/ CrashGuard!Toggle(n)
        PROVE CountTypes'
    BY <1>3 DEF CrashGuard!Save, CrashGuard!RemoveInstance, CrashGuard!Toggle, CrashGuard!AsksReload,
       CrashGuard!Changes, CountTypes
  <1>4. ASSUME NEW s \in SUBSET Guarded, CrashGuard!Installed(s) PROVE CountTypes'
    BY <1>4 DEF CrashGuard!Installed, CrashGuard!screen, CrashGuard!Changes, CountTypes
  <1>5. ASSUME NEW n \in Guarded, CrashGuard!VideoPlays(n) PROVE CountTypes'
    BY <1>1, <1>5 DEF CrashGuard!VideoPlays, CrashGuard!screen
  <1>6. CrashGuard!ReloadsModules \/ CrashGuard!PageLoaded => CountTypes'
    BY <1>1 DEF CrashGuard!ReloadsModules, CrashGuard!AsksReload, CrashGuard!PageLoaded
  <1>7. CrashGuard!CoreRestarts \/ CrashGuard!Tick \/ CrashGuard!ShowAgain => CountTypes'
    BY DEF CrashGuard!CoreRestarts, CrashGuard!Tick, CrashGuard!Older, CrashGuard!ShowAgain, CrashGuard!screen,
       CrashGuard!Changes, CountTypes
  <1>8. UNCHANGED CrashGuardVars => CountTypes'
    BY <1>1 DEF CrashGuardVars
  <1> QED
    BY <1>2, <1>3, <1>4, <1>5, <1>6, <1>7, <1>8, GuardCases

-----------------------------------------------------------------------------
(* The page's words and the core's.                                         *)

TellInv == PageTypes /\ WordsInv /\ PageInv /\ blamed \in {"none", "crash"}

(* What neither touches the page, its words nor what the core knows of it leaves all that as it was, and so does
   what only asks for a reload less long ago. *)
LEMMA TellStays ==
  ASSUME TellInv, UNCHANGED <<known, crashguard_stale, crashguard_asked, crashguard_page, said,
         blamed>> PROVE TellInv'
BY DEF TellInv, PageTypes, WordsInv, PageInv, Excused, LastId, LastStale, IdBefore, StaleBefore

(* A page that is loaded anew: the core knows the load before it. *)
LEMMA LoadTells ==
  ASSUME TellInv, NEW why \in CrashGuard!Whys, CrashGuard!Loads(why),
         UNCHANGED <<known, crashguard_stale, crashguard_asked, said, blamed>>,
         why = "own" => LastStale, why = "asked" => crashguard_asked < Grace \/ LastId = 0
  PROVE  TellInv'
  <1>1. CrashGuard!NewId \in CrashGuard!Ids
    BY SpareId DEF TellInv, PageTypes
  <1>2. /\ crashguard_page'.id = CrashGuard!NewId /\ crashguard_page'.heard = "none" /\ crashguard_page'.st = "loads"
        /\ crashguard_page'.told = FALSE /\ crashguard_page'.why = why
        /\ crashguard_page' \in GuardPage
    BY <1>1 DEF CrashGuard!Loads, GuardPage, CrashGuard!Boots
  <1>3. LastId' = LastId /\ LastStale' = LastStale
    BY DEF LastId, LastStale
  <1>4. PageTypes'
    BY <1>2 DEF TellInv, PageTypes
  <1>5. WordsInv'
    BY DEF TellInv, WordsInv, Excused, IdBefore, StaleBefore
  <1>6. PageInv'
    BY <1>2, <1>3 DEF PageInv, Excused
  <1> QED
    BY <1>4, <1>5, <1>6 DEF TellInv

(* A page that changes its state and not its load. *)
LEMMA PageTells ==
  ASSUME TellInv, UNCHANGED <<known, crashguard_stale, crashguard_asked, said, blamed>>,
         crashguard_page' \in GuardPage, crashguard_page'.id = crashguard_page.id,
         crashguard_page'.why = crashguard_page.why,
         PageInv => PageInv'
  PROVE  TellInv'
BY DEF TellInv, PageTypes, WordsInv, Excused, IdBefore, StaleBefore

(* A page that opens says which load it is: excused if the core or it itself asked for it. *)
LEMMA OpensTells == ASSUME TellInv, CrashGuard!PageOpens PROVE TellInv'
  <1> USE GuardConstants
  <1> DEFINE word == [id |-> crashguard_page.id, boot |-> crashguard_page.heard, why |-> crashguard_page.why]
  <1>1. PageTypes /\ WordsInv /\ PageInv
    BY DEF TellInv
  <1>2. word \in GuardWord /\ Len(said) \in Nat
    BY <1>1 DEF PageTypes, GuardPage, GuardWord
  <1>3. /\ crashguard_page.st \in {"loads", "lost"} /\ Len(said) < MaxSaid
        /\ crashguard_page' = [crashguard_page EXCEPT !.st = "open"] /\ said' = Append(said, word)
        /\ UNCHANGED <<known, crashguard_stale, crashguard_asked, blamed>>
    BY DEF CrashGuard!PageOpens, CrashGuard!core
  <1>4. /\ said' \in Seq(GuardWord) /\ said' # <<>> /\ Len(said') = Len(said) + 1
        /\ \A k \in 1..Len(said) : said'[k] = said[k]
        /\ said'[Len(said) + 1] = word
    <2> HIDE DEF word
    <2> QED
      BY <1>1, <1>2, <1>3, AppendProperties DEF PageTypes
  <1>5. /\ crashguard_page'.st = "open" /\ crashguard_page'.id = crashguard_page.id
        /\ crashguard_page'.heard = crashguard_page.heard /\ crashguard_page'.why = crashguard_page.why
        /\ crashguard_page'.told = crashguard_page.told /\ crashguard_page' \in GuardPage
    BY <1>1, <1>3 DEF PageTypes, GuardPage
  <1>6. PageTypes'
    BY <1>1, <1>2, <1>3, <1>4, <1>5 DEF PageTypes
  <1>7. LastId' = crashguard_page.id /\ (LastStale' <=> crashguard_page.heard = "old")
    BY <1>2, <1>4 DEF LastId, LastStale
  <1>8. WordsInv'
    <2>1. ASSUME NEW k \in 1..Len(said)
          PROVE Excused(said[k].why, said[k].id, IdBefore(k), StaleBefore(k))'
      <3>1. Excused(said[k].why, said[k].id, IdBefore(k), StaleBefore(k))
        BY <1>1 DEF WordsInv
      <3>2. said'[k] = said[k] /\ IdBefore(k)' = IdBefore(k) /\ StaleBefore(k)' = StaleBefore(k)
        BY <1>2, <1>3, <1>4 DEF IdBefore, StaleBefore
      <3> QED
        BY <1>3, <3>1, <3>2 DEF Excused
    <2>2. PICK n \in Nat : n = Len(said) + 1
      BY <1>2
    <2>3. said'[n] = word
      BY <1>4, <2>2
    <2>4. IdBefore(n)' = LastId /\ (StaleBefore(n)' <=> LastStale)
      <3>1. CASE said = <<>>
        <4>1. n = 1
          BY <2>2, <3>1
        <4> QED
          BY <1>3, <3>1, <4>1 DEF IdBefore, StaleBefore, LastId, LastStale
      <3>2. CASE said # <<>>
        <4>1. Len(said) \in 1..Len(said) /\ n # 1 /\ n - 1 = Len(said)
          BY <1>1, <1>2, <2>2, <3>2, EmptySeq DEF PageTypes
        <4> QED
          BY <1>4, <3>2, <4>1 DEF IdBefore, StaleBefore, LastId, LastStale
      <3> QED
        BY <3>1, <3>2
    <2>5. Excused(said[n].why, said[n].id, IdBefore(n), StaleBefore(n))'
      <3>1. Excused(crashguard_page.why, crashguard_page.id, LastId, LastStale)
        BY <1>1 DEF PageInv
      <3>2. said'[n].why = crashguard_page.why /\ said'[n].id = crashguard_page.id
            /\ crashguard_asked' = crashguard_asked
        <4>1. word.why = crashguard_page.why /\ word.id = crashguard_page.id
          OBVIOUS
        <4> HIDE DEF word
        <4> QED
          BY <1>3, <2>3, <4>1
      <3> HIDE DEF word
      <3> QED
        BY <2>4, <3>1, <3>2 DEF Excused
    <2>6. ASSUME NEW k \in 1..Len(said')
          PROVE Excused(said[k].why, said[k].id, IdBefore(k), StaleBefore(k))'
      <3>1. k \in 1..Len(said) \/ k = n
        BY <1>2, <1>4, <2>2
      <3> QED
        BY <2>1, <2>5, <3>1
    <2> QED
      BY <2>6 DEF WordsInv
  <1>9. PageInv'
    BY <1>1, <1>3, <1>5, <1>7 DEF PageInv, Excused
  <1> QED
    BY <1>3, <1>6, <1>8, <1>9 DEF TellInv

(* A page that hears another start of the core than its own loads itself again. *)
LEMMA HearsTells == ASSUME TellInv, CrashGuard!PageHears PROVE TellInv'
  <1>1. CASE crashguard_page.heard = "old"
    BY <1>1, LoadTells DEF CrashGuard!PageHears, CrashGuard!core, CrashGuard!Whys, TellInv, PageInv
  <1>2. CASE crashguard_page.heard # "old"
    <2>1. /\ crashguard_page.st = "open" /\ crashguard_page' = [crashguard_page EXCEPT !.st = "up", !.heard = "now"]
          /\ UNCHANGED <<known, crashguard_stale, crashguard_asked, said, blamed>>
      BY <1>2 DEF CrashGuard!PageHears, CrashGuard!core
    <2>2. /\ crashguard_page'.st = "up" /\ crashguard_page'.heard = "now" /\ crashguard_page'.id = crashguard_page.id
          /\ crashguard_page'.why = crashguard_page.why /\ crashguard_page'.told = crashguard_page.told
          /\ crashguard_page' \in GuardPage
      BY <2>1 DEF TellInv, PageTypes, GuardPage, CrashGuard!Boots
    <2>3. PageInv => PageInv'
      BY <1>2, <2>1, <2>2 DEF PageInv, Excused, LastId, LastStale
    <2> QED
      BY <2>1, <2>2, <2>3, PageTells
  <1> QED
    BY <1>1, <1>2

(* A page that loses its connection keeps its excuse. *)
LEMMA LostTells == ASSUME TellInv, CrashGuard!PageLost PROVE TellInv'
  <1>1. PICK t \in {FALSE, CrashGuard!Heard} : crashguard_page' = [crashguard_page EXCEPT !.st = "lost", !.told = t]
    BY DEF CrashGuard!PageLost
  <1>2. /\ crashguard_page.st \in {"open", "up"}
        /\ UNCHANGED <<known, crashguard_stale, crashguard_asked, said, blamed>>
    BY DEF CrashGuard!PageLost, CrashGuard!core
  <1>3. t \in BOOLEAN /\ (t => crashguard_page.told /\ crashguard_page.st = "up")
    BY <1>1, <1>2 DEF CrashGuard!Heard, TellInv, PageTypes, GuardPage
  <1>4. /\ crashguard_page'.st = "lost" /\ crashguard_page'.heard = crashguard_page.heard
        /\ crashguard_page'.id = crashguard_page.id /\ crashguard_page'.why = crashguard_page.why
        /\ crashguard_page'.told = t /\ crashguard_page' \in GuardPage
    BY <1>1, <1>3 DEF TellInv, PageTypes, GuardPage
  <1>5. PageInv => PageInv'
    BY <1>2, <1>3, <1>4 DEF PageInv, Excused, LastId, LastStale
  <1> QED
    BY <1>2, <1>4, <1>5, PageTells

(* The core that reads a word knows the load before the next word. *)
LEMMA LoadedTells == ASSUME TellInv, CrashGuard!PageLoaded PROVE TellInv'
  <1> USE GuardConstants
  <1>1. PageTypes /\ WordsInv /\ PageInv
    BY DEF TellInv
  <1>2. /\ said # <<>> /\ said' = Tail(said) /\ known' = Head(said).id
        /\ (crashguard_stale' <=> Head(said).boot = "old")
        /\ UNCHANGED <<crashguard_asked, crashguard_page>>
    BY DEF CrashGuard!PageLoaded
  <1>3. /\ Head(said) = said[1] /\ Head(said) \in GuardWord /\ Tail(said) \in Seq(GuardWord)
        /\ Len(Tail(said)) = Len(said) - 1 /\ \A k \in 1..Len(Tail(said)) : Tail(said)[k] = said[k + 1]
        /\ Len(said) \in Nat /\ Len(said) > 0
    BY <1>1, <1>2, HeadTailProperties, EmptySeq DEF PageTypes
  <1>4. crashguard_stale' \in BOOLEAN
    BY DEF CrashGuard!PageLoaded
  <1>5. PageTypes'
    BY <1>1, <1>2, <1>3, <1>4 DEF PageTypes, GuardWord
  <1>6. Excused(said[1].why, said[1].id, known, crashguard_stale)
    BY <1>1, <1>3 DEF WordsInv, IdBefore, StaleBefore
  <1>7. blamed' \in {"none", "crash"}
    <2>1. CASE CrashGuard!Counts(Head(said))
      <3>1. said[1].why = "crash"
        <4>1. known \notin {0, said[1].id} /\ ~crashguard_stale /\ crashguard_asked >= Grace
          BY <1>3, <2>1 DEF CrashGuard!Counts
        <4>2. said[1].why \in {"crash", "asked", "own"} /\ crashguard_asked \in Nat
          BY <1>1, <1>3 DEF GuardWord, CrashGuard!Whys, PageTypes
        <4> QED
          BY <1>6, <4>1, <4>2 DEF Excused
      <3> QED
        BY <1>3, <2>1, <3>1 DEF CrashGuard!PageLoaded
    <2>2. CASE ~CrashGuard!Counts(Head(said))
      BY <2>2 DEF CrashGuard!PageLoaded, TellInv
    <2> QED
      BY <2>1, <2>2
  <1>8. LastId' = LastId /\ (LastStale' <=> LastStale)
    <2>1. CASE Len(said) = 1
      <3>1. Tail(said) = <<>> /\ LastId = said[1].id /\ (LastStale <=> said[1].boot = "old")
        BY <1>2, <1>3, <2>1, EmptySeq DEF LastId, LastStale
      <3> QED
        BY <1>2, <1>3, <3>1 DEF LastId, LastStale
    <2>2. CASE Len(said) # 1
      <3>1. Tail(said) # <<>> /\ Tail(said)[Len(Tail(said))] = said[Len(said)]
        <4>1. Len(Tail(said)) \in 1..Len(Tail(said)) /\ Len(Tail(said)) + 1 = Len(said)
          BY <1>3, <2>2
        <4>2. Tail(said)[Len(Tail(said))] = said[Len(said)]
          BY <1>3, <4>1
        <4>3. Len(<<>>) = 0
          OBVIOUS
        <4>4. Len(Tail(said)) # 0
          BY <1>3, <2>2
        <4> QED
          BY <4>2, <4>3, <4>4, Zenon
      <3> QED
        BY <1>2, <3>1 DEF LastId, LastStale
    <2> QED
      BY <2>1, <2>2
  <1>9. WordsInv'
    <2>1. ASSUME NEW k \in 1..Len(said')
          PROVE Excused(said[k].why, said[k].id, IdBefore(k), StaleBefore(k))'
      <3>1. k + 1 \in 1..Len(said) /\ said'[k] = said[k + 1] /\ k \in Nat /\ k >= 1
        BY <1>2, <1>3, <2>1
      <3>2. Excused(said[k + 1].why, said[k + 1].id, IdBefore(k + 1), StaleBefore(k + 1))
        BY <1>1, <3>1 DEF WordsInv
      <3>3. IdBefore(k + 1) = said[k].id /\ (StaleBefore(k + 1) <=> said[k].boot = "old")
        BY <3>1 DEF IdBefore, StaleBefore
      <3>4. IdBefore(k)' = said[k].id /\ (StaleBefore(k)' <=> said[k].boot = "old")
        <4>1. CASE k = 1
          BY <1>2, <1>3, <4>1 DEF IdBefore, StaleBefore
        <4>2. CASE k # 1
          <5>1. k - 1 \in 1..Len(Tail(said)) /\ said'[k - 1] = said[k]
            BY <1>2, <1>3, <3>1, <4>2
          <5> QED
            BY <4>2, <5>1 DEF IdBefore, StaleBefore
        <4> QED
          BY <4>1, <4>2
      <3> QED
        BY <1>2, <3>1, <3>2, <3>3, <3>4 DEF Excused
    <2> QED
      BY <2>1 DEF WordsInv
  <1>10. PageInv'
    BY <1>1, <1>2, <1>8 DEF PageInv, Excused
  <1> QED
    BY <1>5, <1>7, <1>9, <1>10 DEF TellInv

(* A reload the core asks for excuses the load that follows. *)
LEMMA AsksTells == ASSUME TellInv, CrashGuard!AsksReload PROVE TellInv'
  <1> USE GuardConstants
  <1>1. /\ crashguard_asked' = 0 /\ UNCHANGED <<known, crashguard_stale, said, blamed>>
        /\ crashguard_page'.st = crashguard_page.st /\ crashguard_page'.id = crashguard_page.id
        /\ crashguard_page'.heard = crashguard_page.heard /\ crashguard_page'.why = crashguard_page.why
        /\ crashguard_page'.told = (crashguard_page.told \/ crashguard_page.st \in {"open", "up"})
        /\ crashguard_page' \in GuardPage
    BY DEF CrashGuard!AsksReload, TellInv, PageTypes, GuardPage
  <1>2. PageTypes'
    BY <1>1 DEF TellInv, PageTypes
  <1>3. WordsInv'
    BY <1>1 DEF TellInv, WordsInv, Excused, IdBefore, StaleBefore
  <1>4. LastId' = LastId /\ LastStale' = LastStale
    BY <1>1 DEF LastId, LastStale
  <1>5. PageInv'
    BY <1>1, <1>4 DEF TellInv, PageInv, Excused
  <1> QED
    BY <1>1, <1>2, <1>3, <1>5 DEF TellInv

(* A start of the core excuses every load: the page finds another start, and nothing is known. *)
LEMMA RestartTells == ASSUME TellInv, CrashGuard!CoreRestarts PROVE TellInv'
  <1> USE GuardConstants
  <1>1. PageTypes /\ PageInv
    BY DEF TellInv
  <1>2. PICK t \in {FALSE, CrashGuard!Heard} :
          crashguard_page' = [crashguard_page EXCEPT !.st = IF @ = "loads" THEN @ ELSE "lost", !.told = t,
                                                     !.heard = IF @ = "now" THEN "old" ELSE @]
    BY DEF CrashGuard!CoreRestarts
  <1>3. known' = 0 /\ crashguard_stale' = FALSE /\ crashguard_asked' = Grace /\ said' = <<>> /\ blamed' = blamed
    BY DEF CrashGuard!CoreRestarts
  <1>4. t \in BOOLEAN /\ (t => crashguard_page.told /\ crashguard_page.st # "open")
    BY <1>1, <1>2 DEF CrashGuard!Heard, PageTypes, GuardPage
  <1>5. /\ crashguard_page'.st = (IF crashguard_page.st = "loads" THEN "loads" ELSE "lost")
        /\ crashguard_page'.heard = (IF crashguard_page.heard = "now" THEN "old" ELSE crashguard_page.heard)
        /\ crashguard_page'.id = crashguard_page.id /\ crashguard_page'.why = crashguard_page.why
        /\ crashguard_page'.told = t /\ crashguard_page' \in GuardPage
    BY <1>1, <1>2, <1>4 DEF PageTypes, GuardPage, CrashGuard!Boots
  <1>6. PageTypes'
    <2>1. <<>> \in Seq(GuardWord) /\ Len(<<>>) = 0 /\ Grace \in 0..Grace
      OBVIOUS
    <2>2. said' \in Seq(GuardWord) /\ Len(said') <= MaxSaid
      BY <1>3, <2>1
    <2> QED
      BY <1>3, <1>5, <2>1, <2>2 DEF PageTypes
  <1>7. WordsInv'
    BY <1>3 DEF WordsInv
  <1>8. LastId' = 0
    BY <1>3 DEF LastId
  <1>9. crashguard_page.st \in {"loads", "open", "up", "lost"}
    BY <1>1 DEF PageTypes, GuardPage
  <1>10. PageInv'
    BY <1>1, <1>3, <1>4, <1>5, <1>8, <1>9 DEF PageInv, Excused, LastStale
  <1> QED
    BY <1>3, <1>6, <1>7, <1>10 DEF TellInv

(* A tick passes only when every word was read, and every reload asked for was made. *)
LEMMA TickTells == ASSUME TellInv, CrashGuard!Tick PROVE TellInv'
  <1> USE GuardConstants
  <1>1. /\ crashguard_page.st \in {"up", "lost"} /\ ~crashguard_page.told /\ said = <<>>
        /\ crashguard_asked' \in {crashguard_asked, crashguard_asked + 1}
        /\ UNCHANGED <<known, crashguard_stale, crashguard_page, said, blamed>>
    BY DEF CrashGuard!Tick, CrashGuard!Older
  <1>2. crashguard_asked' \in 0..Grace
    BY DEF CrashGuard!Tick, CrashGuard!Older, TellInv, PageTypes
  <1>3. PageTypes'
    BY <1>1, <1>2 DEF TellInv, PageTypes
  <1>4. WordsInv'
    BY <1>1 DEF WordsInv
  <1>5. LastId' = LastId /\ LastStale' = LastStale
    BY <1>1 DEF LastId, LastStale
  <1>6. PageInv'
    BY <1>1, <1>5 DEF TellInv, PageInv, Excused
  <1> QED
    BY <1>1, <1>3, <1>4, <1>6 DEF TellInv

(* Each step keeps what the words and the page tell. *)
LEMMA TellStep == ASSUME TellInv, [CrashGuard!Next]_CrashGuardVars PROVE TellInv'
  <1>1. CrashGuard!ScreenCrashes \/ CrashGuard!CauseCrashes => TellInv'
    BY LoadTells DEF CrashGuard!ScreenCrashes, CrashGuard!CauseCrashes, CrashGuard!core, CrashGuard!Whys
  <1>2. CrashGuard!PageReloads => TellInv'
    BY LoadTells DEF CrashGuard!PageReloads, CrashGuard!Heard, CrashGuard!core, CrashGuard!Whys, TellInv, PageInv
  <1>3. PageActs => TellInv'
    BY <1>1, <1>2, OpensTells, HearsTells, LostTells DEF PageActs
  <1>4. CrashGuard!ReloadsModules => TellInv'
    BY AsksTells DEF CrashGuard!ReloadsModules
  <1>5. \A n \in Guarded : CrashGuard!Save(n) \/ CrashGuard!RemoveInstance(n) \/ CrashGuard!Toggle(n) => TellInv'
    BY AsksTells DEF CrashGuard!Save, CrashGuard!RemoveInstance, CrashGuard!Toggle
  <1>6. \A s \in SUBSET Guarded : CrashGuard!Installed(s) => TellInv'
    BY TellStays DEF CrashGuard!Installed, CrashGuard!core, CrashGuard!screen
  <1>7. \A n \in Guarded : CrashGuard!VideoPlays(n) => TellInv'
    BY TellStays DEF CrashGuard!VideoPlays, CrashGuard!screen
  <1>8. CrashGuard!ShowAgain => TellInv'
    BY TellStays DEF CrashGuard!ShowAgain, CrashGuard!screen
  <1>9. UNCHANGED CrashGuardVars => TellInv'
    BY TellStays DEF CrashGuardVars
  <1> QED
    BY <1>3, <1>4, <1>5, <1>6, <1>7, <1>8, <1>9, LoadedTells, RestartTells, TickTells, GuardCases

-----------------------------------------------------------------------------
(* The crash guard. *)

GuardInv == ConfigTypes /\ HeldTypes /\ CountTypes /\ PlayedTypes /\ TellInv

(* The guard begins with one load it knows nothing of. *)
LEMMA GuardInit == ASSUME CrashGuard!Init PROVE GuardInv
  <1> USE GuardConstants
  <1>1. ConfigTypes /\ HeldTypes /\ CountTypes /\ PlayedTypes
    <2>1. ConfigTypes
      BY DEF CrashGuard!Init, ConfigTypes
    <2>2. HeldTypes
      BY DEF CrashGuard!Init, HeldTypes
    <2>3. CountTypes
      BY DEF CrashGuard!Init, CountTypes
    <2>4. PlayedTypes
      BY DEF CrashGuard!Init, PlayedTypes
    <2> QED
      BY <2>1, <2>2, <2>3, <2>4
  <1>2. PageTypes
    <2>1. 1 \in CrashGuard!Ids
      BY DEF CrashGuard!Ids
    <2>2. [id |-> 1, heard |-> "none", st |-> "loads", told |-> FALSE, why |-> "crash"] \in GuardPage
      BY <2>1 DEF GuardPage, CrashGuard!Boots, CrashGuard!Whys
    <2>3. <<>> \in Seq(GuardWord) /\ Len(<<>>) = 0 /\ Grace \in 0..Grace
      OBVIOUS
    <2>4. said \in Seq(GuardWord) /\ Len(said) <= MaxSaid
      BY <2>3 DEF CrashGuard!Init
    <2> QED
      BY <2>2, <2>3, <2>4 DEF CrashGuard!Init, PageTypes
  <1>3. WordsInv
    BY DEF CrashGuard!Init, WordsInv
  <1>4. PageInv
    BY DEF CrashGuard!Init, PageInv, Excused, LastId
  <1> QED
    BY <1>1, <1>2, <1>3, <1>4 DEF GuardInv, TellInv, CrashGuard!Init

(* Each step of the guard keeps its invariant. *)
LEMMA GuardStep == ASSUME GuardInv, [CrashGuard!Next]_CrashGuardVars PROVE GuardInv'
BY ConfigStep, HeldStep, CountStep, PlayedStep, TellStep DEF GuardInv

(* Only a load of the page that nobody asked for is counted as a crash, with any number of instances, words,
   restarts of the core and lost connections (page_loaded). *)
THEOREM NeverFalseCrash == Spec => []NoFalseCrash
  <1>1. Init => (part = "guard" => GuardInv)
    BY GuardInit DEF Init
  <1>2. (part = "guard" => GuardInv) /\ [Next]_vars => (part = "guard" => GuardInv)'
    BY StepOfPart, GuardStep
  <1>3. (part = "guard" => GuardInv) => NoFalseCrash
    <2>1. ASSUME GuardInv PROVE CrashGuard!TypeOK
      <3>1. said \in CrashGuard!BoundedSeq(GuardWord, MaxSaid)
        <4>1. Len(said) \in 0..MaxSaid /\ said \in [1..Len(said) -> GuardWord]
          BY <2>1, GuardConstants DEF GuardInv, TellInv, PageTypes
        <4> QED
          BY <4>1 DEF CrashGuard!BoundedSeq, CrashGuard!SeqOf
      <3>2. blamed \in CrashGuard!Whys \cup {"none"}
        BY <2>1 DEF GuardInv, TellInv, CrashGuard!Whys
      <3> QED
        BY <2>1, <3>1, <3>2, GuardConstants, SameSize DEF GuardInv, TellInv, PageTypes, ConfigTypes, HeldTypes,
           CountTypes, PlayedTypes, CrashGuard!TypeOK, GuardPage, GuardWord
    <2> QED
      BY <2>1 DEF NoFalseCrash, CrashGuard!NoFalseCrash, GuardInv, TellInv
  <1> QED
    BY <1>1, <1>2, <1>3, PTL DEF Spec

SlotTask == [kind : Settings!Waiting \cup {"none"}, pc : {"idle", "hash", "apply", "install", "helper", "save",
"data"},
             cfg : Settings!Config, id : Settings!Codes]
BackupFile == [cfg : Settings!Config, encrypted : BOOLEAN, made : BOOLEAN]

FilesOfTypes ==
  /\ file \in Settings!Config \cup {Absent, Broken} /\ bak \in Settings!Config \cup {Absent}
  /\ settings_cache \in Settings!Config \cup {Cold} /\ (phase = "up" <=> settings_cache # Cold)
  /\ phase \in {"down", "moved", "up"}
RequestTypes ==
  /\ settings_boot \in SUBSET Header /\ settings_task \in [{t1, t2} -> SlotTask] /\ backup \in BackupFile
  /\ shown \in Settings!Codes /\ left \in SUBSET {i1, i2} /\ settings_scene \in SettingsScenes
  /\ used \in [saves : Nat, tasks : Nat, cuts : Nat, breaks : Nat] /\ used.tasks \in Settings!Codes
  /\ phase # "up" => \A t \in {t1, t2} : settings_task[t] = Settings!NoTask

\* What is shared has an instance in all settings that may be loaded or saved, but for what uninstalls removed.
Shares(c, gone) == c \in Settings!Config /\ c.share \ c.inst \subseteq gone
SharesInv ==
  /\ \A c \in {file, bak, settings_cache} : c \in Settings!Config => Shares(c, left)
  /\ Shares(backup.cfg, left) /\ \A t \in {t1, t2} : Shares(settings_task[t].cfg, left)

\* Once a save found settings that read, the file has some that were saved, or the copy has.
CopyInv ==
  /\ phase = "moved" => file = Absent
  /\ ~settings_scene.repair_cut /\ trusted # {} =>
       /\ bak \in trusted /\ bak \in Settings!Config
       /\ file \in Settings!Config => file \in trusted
       /\ file = Absent => phase = "moved"

\* What the requests that wait hold.
WaitsInv ==
  /\ ~backup.encrypted => backup.cfg.auth = Settings!NoAuth
  /\ \A t \in {t1, t2} :
       /\ settings_task[t].kind \in settings_scene.kinds \cup {"none"}
       /\ settings_task[t].kind = "restore" => backup.made /\ settings_task[t].cfg.auth = backup.cfg.auth
       /\ settings_task[t].pc = "helper" => Settings!HelperTakes(settings_task[t].cfg.dev)

\* The code in the file is the newest that was shown, as that of the core's settings is; or an older one came back.
ShownInv ==
  /\ reverted \in BOOLEAN /\ Settings!ShownCodeWorks
  /\ file \in Settings!Config => shown = file.auth.code \/ reverted

SettingsInv == FilesOfTypes /\ RequestTypes /\ SharesInv /\ CopyInv /\ WaitsInv /\ ShownInv

-----------------------------------------------------------------------------
(* Settings, edited.                                                        *)

(* What stands for no file, a broken one and a core that isn't up is none of the settings. *)
LEMMA SettingsConstants ==
  /\ Absent \notin Settings!Config /\ Broken \notin Settings!Config /\ Cold \notin Settings!Config
  /\ Absent # Broken /\ Cold # Absent /\ Cold # Broken
  /\ \A s \in SettingsScenes : s.tasks \in Settings!Codes /\ s.repair_cut \in BOOLEAN
BY AdminAssumption DEF Settings!SettingsAssumption, Settings!SceneOK

(* A file reads if it holds settings. *)
LEMMA Readable == \A f \in Settings!Config \cup {Absent, Broken} : Settings!Readable(f) <=> f \in Settings!Config
BY SettingsConstants DEF Settings!Readable

(* The settings of a new mirror: nothing shared, nobody signed in, no device. *)
LEMMA DefaultConfig ==
  /\ Settings!Default \in Settings!Config /\ Settings!Default.share = {} /\ Settings!Default.inst = {}
  /\ Settings!Default.auth = Settings!NoAuth /\ Settings!NoAuth.code = 0 /\ Settings!Default.dev = {}
  /\ DOMAIN Settings!Default = {"globals", "bright", "ssh", "token", "inst", "share", "auth", "dev", "gpio"}
BY DEF Settings!Default, Settings!Config, Settings!NoAuth, Settings!Codes

(* A slot without a request holds the settings of a new mirror. *)
LEMMA IdleSlot ==
  /\ Settings!NoTask \in SlotTask /\ Settings!NoTask.kind = "none" /\ Settings!NoTask.pc = "idle"
  /\ Settings!NoTask.cfg = Settings!Default
BY DefaultConfig DEF Settings!NoTask, SlotTask, Settings!Codes

(* A part of the settings is set: the rest is as it was. *)
Sets(c, part_, d) == d \in Settings!Config /\ \A p \in DOMAIN Settings!Default \ {part_} : d[p] = c[p]

(* What the parts of the settings are. *)
LEMMA ConfigFields == ASSUME NEW c \in Settings!Config
  PROVE /\ c.globals \in 0..1 /\ c.bright \in 0..1 /\ c.ssh \in BOOLEAN /\ c.token \in BOOLEAN
        /\ c.inst \subseteq {i1, i2} /\ c.share \subseteq {i1, i2} /\ c.dev \subseteq Header
           /\ c.gpio \subseteq Header
        /\ c.auth \in [pw : Settings!Codes, code : Settings!Codes]
BY DEF Settings!Config

(* SaveGlobals sets the global settings ... *)
LEMMA SetsGlobals == ASSUME NEW c \in Settings!Config PROVE Sets(c, "globals", [c EXCEPT !.globals = 1 - @])
  <1>1. 1 - c.globals \in 0..1
    BY ConfigFields
  <1> QED
    BY <1>1, DefaultConfig DEF Sets, Settings!Config
(* ... a brightness only itself ... *)
LEMMA SetsBright == ASSUME NEW c \in Settings!Config PROVE Sets(c, "bright", [c EXCEPT !.bright = 1 - @])
  <1>1. 1 - c.bright \in 0..1
    BY ConfigFields
  <1> QED
    BY <1>1, DefaultConfig DEF Sets, Settings!Config
(* ... a token only the token ... *)
LEMMA SetsToken == ASSUME NEW c \in Settings!Config, NEW b \in BOOLEAN PROVE Sets(c, "token", [c EXCEPT !.token = b])
BY DefaultConfig DEF Sets, Settings!Config
(* ... SSH only SSH ... *)
LEMMA SetsSsh == ASSUME NEW c \in Settings!Config PROVE Sets(c, "ssh", [c EXCEPT !.ssh = ~@])
BY DefaultConfig DEF Sets, Settings!Config
(* ... an instance only the instances ... *)
LEMMA SetsInst == ASSUME NEW c \in Settings!Config, NEW s \in SUBSET {i1, i2}
  PROVE Sets(c, "inst", [c EXCEPT !.inst = s]) /\ [c EXCEPT !.inst = s].inst = s
BY DefaultConfig DEF Sets, Settings!Config
(* ... MQTT only what is shared ... *)
LEMMA SetsShare == ASSUME NEW c \in Settings!Config, NEW s \in SUBSET {i1, i2}
  PROVE Sets(c, "share", [c EXCEPT !.share = s]) /\ [c EXCEPT !.share = s].share = s
BY DefaultConfig DEF Sets, Settings!Config
(* ... a removed instance both ... *)
LEMMA SetsBoth == ASSUME NEW c \in Settings!Config, NEW i \in {i1, i2}
  PROVE LET d == [c EXCEPT !.inst = @ \ {i}, !.share = @ \ {i}]
        IN  d \in Settings!Config /\ d.inst = c.inst \ {i} /\ d.share = c.share \ {i} /\ d.auth = c.auth
BY DEF Settings!Config
(* ... a setup and a recovery who can sign in ... *)
LEMMA SetsAuth == ASSUME NEW c \in Settings!Config, NEW a \in [pw : Settings!Codes, code : Settings!Codes]
  PROVE Sets(c, "auth", [c EXCEPT !.auth = a]) /\ [c EXCEPT !.auth = a].auth = a
BY DefaultConfig DEF Sets, Settings!Config
(* ... a new password keeps the recovery code ... *)
LEMMA SetsPassword == ASSUME NEW c \in Settings!Config, NEW n \in Settings!Codes
  PROVE Sets(c, "auth", [c EXCEPT !.auth.pw = n]) /\ [c EXCEPT !.auth.pw = n].auth.code = c.auth.code
  <1>1. [c.auth EXCEPT !.pw = n] \in [pw : Settings!Codes, code : Settings!Codes]
        /\ [c.auth EXCEPT !.pw = n].code = c.auth.code
    BY ConfigFields
  <1>2. [c EXCEPT !.auth.pw = n] = [c EXCEPT !.auth = [c.auth EXCEPT !.pw = n]]
    OBVIOUS
  <1> QED
    BY <1>1, <1>2, SetsAuth
(* ... the page with the wiring only the devices ... *)
LEMMA SetsDevices == ASSUME NEW c \in Settings!Config, NEW s \in SUBSET Header
  PROVE Sets(c, "dev", [c EXCEPT !.dev = s]) /\ [c EXCEPT !.dev = s].dev = s
BY DefaultConfig DEF Sets, Settings!Config
(* ... and the helper only what the card has. *)
LEMMA SetsOverlays == ASSUME NEW c \in Settings!Config, NEW s \in SUBSET Header
  PROVE Sets(c, "gpio", [c EXCEPT !.gpio = s])
BY DefaultConfig DEF Sets, Settings!Config

(* Settings where another part is set share as little as before ... *)
LEMMA SetsKeepsShares == ASSUME NEW c, NEW p, NEW d, NEW gone, Shares(c, gone), Sets(c, p, d), p \notin {"share",
                                "inst"}
  PROVE Shares(d, gone)
BY DefaultConfig DEF Sets, Shares
(* ... and let the same people in. *)
LEMMA SetsKeepsAuth == ASSUME NEW c, NEW p, NEW d, Sets(c, p, d), p # "auth" PROVE d.auth = c.auth
BY DefaultConfig DEF Sets

(* What a page lets through, the root helper takes. *)
LEMMA ValidIsTaken == ASSUME NEW devs \in SUBSET Header, Settings!Valid(devs) PROVE Settings!HelperTakes(devs)
  <1>1. \A d, e \in devs : d.at = e.at => d = e
    BY DEF Header
  <1>2. \A d, e \in devs : d # e => d.type # e.type
    BY DEF Settings!Valid, Settings!Apart
  <1>3. \A d \in devs : d.type \in Settings!Fans => \A e \in devs \ {d} : e.type \notin Settings!Fans
    BY <1>2 DEF Settings!Valid, Settings!Fans
  <1>4. \/ \A d \in devs : d.type # "light"
        \/ \A pin \in Settings!I2C : pin \notin {d.at : d \in Settings!OnPin(devs)}
    BY DEF Settings!Valid
  <1> QED
    BY <1>1, <1>2, <1>3, <1>4 DEF Settings!HelperTakes

-----------------------------------------------------------------------------
(* The file, as it is saved.                                                *)

(* A save of settings keeps the files' types and the good copy. *)
LEMMA SaveStores ==
  ASSUME FilesOfTypes, CopyInv, NEW c \in Settings!Config, Settings!Save(c), settings_scene' = settings_scene,
         phase' = "up"
  PROVE  FilesOfTypes' /\ CopyInv' /\ settings_cache' = c /\ file' = c /\ bak' \in {file, bak}
  <1>1. /\ bak' = (IF file \in Settings!Config THEN file ELSE bak) /\ file' = c /\ settings_cache' = c
        /\ trusted' = IF file \in Settings!Config THEN {file, c} ELSE IF trusted = {} THEN {} ELSE trusted \cup {c}
    BY Readable DEF Settings!Save, Settings!Trusts, FilesOfTypes
  <1>2. FilesOfTypes'
    BY <1>1, SettingsConstants DEF FilesOfTypes
  <1>3. CopyInv'
    BY <1>1, SettingsConstants DEF CopyInv, FilesOfTypes
  <1> QED
    BY <1>1, <1>2, <1>3

(* A save of settings that share what has an instance keeps that of all. *)
LEMMA SaveShares ==
  ASSUME SharesInv, FilesOfTypes, NEW c, Shares(c, left'), left \subseteq left', file' = c, settings_cache' = c,
         bak' \in {file, bak}, backup' = backup,
         \A t \in {t1, t2} : Shares(settings_task'[t].cfg, left) \/ Shares(settings_task'[t].cfg, left')
  PROVE  SharesInv'
  <1>1. \A d : Shares(d, left) => Shares(d, left')
    BY DEF Shares
  <1> QED
    BY <1>1 DEF SharesInv

(* A bounded happening keeps the counts' types. *)
LEMMA UsesFits ==
  ASSUME RequestTypes, NEW what \in {"saves", "tasks", "cuts", "breaks"}, Settings!Uses(what)
  PROVE  used' \in [saves : Nat, tasks : Nat, cuts : Nat, breaks : Nat] /\ used'.tasks \in Settings!Codes
  <1>1. used' = [used EXCEPT ![what] = @ + 1] /\ used[what] < settings_scene[what]
    BY DEF Settings!Uses
  <1>2. used' \in [saves : Nat, tasks : Nat, cuts : Nat, breaks : Nat]
    BY <1>1 DEF RequestTypes
  <1>3. used'.tasks = IF what = "tasks" THEN used.tasks + 1 ELSE used.tasks
    BY <1>1 DEF RequestTypes
  <1>4. settings_scene.tasks \in 0..9
    BY SettingsConstants DEF RequestTypes, Settings!Codes
  <1>5. used'.tasks \in 0..9
    BY <1>1, <1>3, <1>4 DEF RequestTypes, Settings!Codes
  <1> QED
    BY <1>2, <1>5 DEF Settings!Codes

(* Settings that are read and saved in one step, and an uninstall. *)
LEMMA SavesNow ==
  ASSUME SettingsInv, phase = "up", NEW c, Settings!Save(c), Shares(c, left'), c.auth = settings_cache.auth,
         left \subseteq left', left' \in SUBSET {i1, i2}, Settings!Uses("saves") \/ Settings!Uses("tasks"),
         UNCHANGED <<settings_boot, phase, settings_task, backup, settings_scene, shown, reverted>>
  PROVE  SettingsInv'
  <1>1. FilesOfTypes /\ RequestTypes /\ SharesInv /\ CopyInv /\ WaitsInv /\ ShownInv
    BY DEF SettingsInv
  <1>2. c \in Settings!Config
    BY DEF Shares
  <1>3. FilesOfTypes' /\ CopyInv' /\ settings_cache' = c /\ file' = c /\ bak' \in {file, bak}
    BY <1>1, <1>2, SaveStores
  <1>4. RequestTypes'
    <2>1. used' \in [saves : Nat, tasks : Nat, cuts : Nat, breaks : Nat] /\ used'.tasks \in Settings!Codes
      BY <1>1, UsesFits
    <2> QED
      BY <1>1, <2>1 DEF RequestTypes
  <1>5. SharesInv'
    BY <1>1, <1>3, SaveShares DEF SharesInv
  <1>6. WaitsInv' /\ ShownInv'
    BY <1>1, <1>3 DEF WaitsInv, ShownInv, Settings!ShownCodeWorks
  <1> QED
    BY <1>3, <1>4, <1>5, <1>6 DEF SettingsInv

(* What a request that waited saves at its end. *)
LEMMA SavesAtEnd ==
  ASSUME SettingsInv, phase = "up", NEW t \in {t1, t2}, NEW c, Settings!Save(c), Shares(c, left),
         NEW r \in SlotTask, settings_task' = [settings_task EXCEPT ![t] = r],
         r = Settings!NoTask \/ (r.kind = settings_task[t].kind /\ r.cfg = settings_task[t].cfg /\ r.pc # "helper"),
         shown' \in Settings!Codes, reverted' \in BOOLEAN, shown' = c.auth.code \/ reverted',
         UNCHANGED <<settings_boot, phase, backup, settings_scene, used, left>>
  PROVE  SettingsInv'
  <1>1. FilesOfTypes /\ RequestTypes /\ SharesInv /\ CopyInv /\ WaitsInv /\ ShownInv
    BY DEF SettingsInv
  <1>2. c \in Settings!Config
    BY DEF Shares
  <1>3. FilesOfTypes' /\ CopyInv' /\ settings_cache' = c /\ file' = c /\ bak' \in {file, bak}
    BY <1>1, <1>2, SaveStores
  <1>4. settings_task'[t] = r /\ \A u \in {t1, t2} : u # t => settings_task'[u] = settings_task[u]
    BY <1>1 DEF RequestTypes
  <1>5. RequestTypes'
    BY <1>1 DEF RequestTypes
  <1>6. SharesInv'
    <2>1. Shares(r.cfg, left)
      BY <1>1, IdleSlot, DefaultConfig DEF SharesInv, Shares
    <2>2. \A u \in {t1, t2} : Shares(settings_task'[u].cfg, left)
      BY <1>1, <1>4, <2>1 DEF SharesInv
    <2> QED
      BY <1>1, <1>3, <2>2, SaveShares
  <1>7. WaitsInv'
    <2>1. /\ r.kind \in settings_scene.kinds \cup {"none"}
          /\ r.kind = "restore" => backup.made /\ r.cfg.auth = backup.cfg.auth
          /\ r.pc # "helper"
      BY <1>1, IdleSlot DEF WaitsInv
    <2> QED
      BY <1>1, <1>4, <2>1 DEF WaitsInv
  <1>8. ShownInv'
    BY <1>3 DEF ShownInv, Settings!ShownCodeWorks
  <1> QED
    BY <1>3, <1>5, <1>6, <1>7, <1>8 DEF SettingsInv

(* A request that begins, goes on or ends without saving. *)
LEMMA Waiting ==
  ASSUME SettingsInv, phase = "up", NEW t \in {t1, t2}, NEW r \in SlotTask,
         settings_task' = [settings_task EXCEPT ![t] = r],
         Shares(r.cfg, left), r.kind \in settings_scene.kinds \cup {"none"},
         r.kind = "restore" => backup.made /\ r.cfg.auth = backup.cfg.auth,
         r.pc = "helper" => Settings!HelperTakes(r.cfg.dev),
         settings_boot' \in SUBSET Header, Settings!Uses("tasks") \/ used' = used,
         UNCHANGED <<file, bak, settings_cache, phase, backup, settings_scene, shown, reverted, left, trusted>>
  PROVE  SettingsInv'
  <1>1. FilesOfTypes /\ RequestTypes /\ SharesInv /\ CopyInv /\ WaitsInv /\ ShownInv
    BY DEF SettingsInv
  <1>2. settings_task'[t] = r /\ \A u \in {t1, t2} : u # t => settings_task'[u] = settings_task[u]
    BY <1>1 DEF RequestTypes
  <1>3. FilesOfTypes' /\ CopyInv'
    BY <1>1 DEF FilesOfTypes, CopyInv
  <1>4. RequestTypes'
    <2>1. used' \in [saves : Nat, tasks : Nat, cuts : Nat, breaks : Nat] /\ used'.tasks \in Settings!Codes
      BY <1>1, UsesFits DEF RequestTypes
    <2> QED
      BY <1>1, <2>1 DEF RequestTypes
  <1>5. SharesInv'
    BY <1>1, <1>2 DEF SharesInv
  <1>6. WaitsInv' /\ ShownInv'
    BY <1>1, <1>2 DEF WaitsInv, ShownInv, Settings!ShownCodeWorks
  <1> QED
    BY <1>3, <1>4, <1>5, <1>6 DEF SettingsInv

(* A request that begins. *)
LEMMA RequestBegins ==
  ASSUME SettingsInv, NEW t \in {t1, t2}, NEW kind \in Settings!Waiting, NEW pc \in {"hash", "apply", "install",
         "helper"},
         NEW cfg, Settings!Begins(t, kind, pc, cfg),
         Shares(cfg, left), kind = "restore" => backup.made /\ cfg.auth = backup.cfg.auth,
         pc = "helper" => Settings!HelperTakes(cfg.dev),
         UNCHANGED <<file, bak, settings_cache, settings_boot, phase, backup, settings_scene, shown, reverted, left, trusted>>
  PROVE  SettingsInv'
  <1> DEFINE r == [kind |-> kind, pc |-> pc, cfg |-> cfg, id |-> used'.tasks]
  <1>1. RequestTypes
    BY DEF SettingsInv
  <1>2. phase = "up" /\ kind \in settings_scene.kinds /\ Settings!Uses("tasks")
        /\ settings_task' = [settings_task EXCEPT ![t] = r]
    BY DEF Settings!Begins
  <1>3. r \in SlotTask
    BY <1>1, <1>2, UsesFits DEF SlotTask, Shares
  <1>4. r.kind = kind /\ r.pc = pc /\ r.cfg = cfg
    OBVIOUS
  <1>5. settings_boot' \in SUBSET Header
    BY <1>1 DEF RequestTypes
  <1> HIDE DEF r
  <1> QED
    BY <1>2, <1>3, <1>4, <1>5, Waiting

-----------------------------------------------------------------------------
(* Each step.                                                               *)

(* A cut keeps the invariant ... *)
LEMMA CutStep == ASSUME SettingsInv, Settings!Cut PROVE SettingsInv'
  <1>1. FilesOfTypes /\ RequestTypes /\ SharesInv /\ CopyInv /\ WaitsInv /\ ShownInv
    BY DEF SettingsInv
  <1>2. /\ phase \in {"up", "moved"} /\ (phase = "moved" => settings_scene.repair_cut)
        /\ phase' = "down" /\ settings_cache' = Cold /\ settings_task' = [t \in {t1, t2} |-> Settings!NoTask]
        /\ bak' = bak \/ (bak' = file /\ file \in Settings!Config)
        /\ Settings!Uses("cuts")
        /\ UNCHANGED <<file, settings_boot, backup, settings_scene, shown, reverted, left, trusted>>
    BY <1>1, Readable DEF Settings!Cut, Settings!histories, FilesOfTypes
  <1>3. \A t \in {t1, t2} : settings_task'[t] = Settings!NoTask
    BY <1>2
  <1>4. FilesOfTypes'
    BY <1>1, <1>2 DEF FilesOfTypes
  <1>5. RequestTypes'
    <2>1. used' \in [saves : Nat, tasks : Nat, cuts : Nat, breaks : Nat] /\ used'.tasks \in Settings!Codes
      BY <1>1, <1>2, UsesFits
    <2> QED
      BY <1>1, <1>2, <1>3, <2>1, IdleSlot DEF RequestTypes
  <1>6. SharesInv'
    BY <1>1, <1>2, <1>3, SettingsConstants, IdleSlot, DefaultConfig DEF SharesInv, Shares
  <1>7. CopyInv'
    BY <1>1, <1>2, SettingsConstants DEF CopyInv, FilesOfTypes
  <1>8. WaitsInv'
    BY <1>1, <1>2, <1>3, IdleSlot DEF WaitsInv
  <1>9. ShownInv'
    BY <1>1, <1>2 DEF ShownInv, Settings!ShownCodeWorks
  <1> QED
    BY <1>4, <1>5, <1>6, <1>7, <1>8, <1>9 DEF SettingsInv

(* ... a hand edit that doesn't read ... *)
LEMMA BreakStep == ASSUME SettingsInv, Settings!Break PROVE SettingsInv'
  <1>1. FilesOfTypes /\ RequestTypes /\ SharesInv /\ CopyInv /\ WaitsInv /\ ShownInv
    BY DEF SettingsInv
  <1>2. /\ phase # "moved" /\ file \in Settings!Config /\ file' = Broken /\ Settings!Uses("breaks")
        /\ UNCHANGED <<bak, settings_cache, settings_boot, phase, settings_task, backup, settings_scene, shown, reverted,
           left, trusted>>
    BY <1>1, Readable DEF Settings!Break, Settings!histories, FilesOfTypes
  <1>3. FilesOfTypes' /\ CopyInv'
    BY <1>1, <1>2, SettingsConstants DEF FilesOfTypes, CopyInv
  <1>4. RequestTypes'
    <2>1. used' \in [saves : Nat, tasks : Nat, cuts : Nat, breaks : Nat] /\ used'.tasks \in Settings!Codes
      BY <1>1, <1>2, UsesFits
    <2> QED
      BY <1>1, <1>2, <2>1 DEF RequestTypes
  <1>5. SharesInv'
    BY <1>1, <1>2, SettingsConstants DEF SharesInv
  <1>6. WaitsInv' /\ ShownInv'
    BY <1>1, <1>2, SettingsConstants DEF WaitsInv, ShownInv, Settings!ShownCodeWorks
  <1> QED
    BY <1>3, <1>4, <1>5, <1>6 DEF SettingsInv

(* A start that loads the file, or makes a new one, or puts a broken one aside; and the end of that repair. *)
LEMMA StartStep == ASSUME SettingsInv, Settings!Start \/ Settings!UseLastGoodCopy
  PROVE /\ SettingsInv'
        /\ phase' = "up" /\ ~settings_scene.repair_cut /\ trusted # {} => settings_cache' \in trusted
  <1>1. FilesOfTypes /\ RequestTypes /\ SharesInv /\ CopyInv /\ WaitsInv /\ ShownInv
    BY DEF SettingsInv
  <1>2. /\ phase # "up" /\ UNCHANGED <<settings_boot, settings_task, backup, settings_scene, used, left>>
        /\ \A t \in {t1, t2} : settings_task[t] = Settings!NoTask
    BY <1>1 DEF Settings!Start, Settings!UseLastGoodCopy, Settings!histories, RequestTypes
  <1>3. ASSUME phase' = "up", settings_cache' \in Settings!Config, shown' = shown, reverted' \in BOOLEAN,
               shown = settings_cache'.auth.code \/ reverted',
               FilesOfTypes', CopyInv', file' = settings_cache', bak' \in {file, bak}, Shares(settings_cache', left)
        PROVE  SettingsInv'
    <2>1. shown' \in Settings!Codes
      BY <1>1, <1>3 DEF RequestTypes
    <2>2. RequestTypes'
      BY <1>1, <1>2, <1>3, <2>1 DEF RequestTypes
    <2>3. SharesInv'
      BY <1>1, <1>2, <1>3 DEF SharesInv
    <2>4. WaitsInv' /\ ShownInv'
      BY <1>1, <1>2, <1>3 DEF WaitsInv, ShownInv, Settings!ShownCodeWorks
    <2> QED
      BY <1>3, <2>2, <2>3, <2>4 DEF SettingsInv
  <1>4. CASE file \in Settings!Config /\ phase = "down"
    <2>1. settings_cache' = file /\ phase' = "up" /\ UNCHANGED <<file, bak, shown, reverted, trusted>>
      BY <1>4, SettingsConstants DEF Settings!Start, Settings!UseLastGoodCopy, Settings!histories
    <2>2. FilesOfTypes' /\ CopyInv'
      BY <1>1, <1>2, <1>4, <2>1, SettingsConstants DEF FilesOfTypes, CopyInv
    <2>3. ~settings_scene.repair_cut /\ trusted # {} => settings_cache' \in trusted
      BY <1>1, <1>4, <2>1 DEF CopyInv
    <2>4. Shares(settings_cache', left)
      BY <1>1, <1>4, <2>1 DEF SharesInv
    <2>5. shown = settings_cache'.auth.code \/ reverted'
      BY <1>1, <1>4, <2>1 DEF ShownInv
    <2>6. reverted' \in BOOLEAN
      BY <1>1, <2>1 DEF ShownInv
    <2> QED
      BY <1>3, <1>4, <2>1, <2>2, <2>3, <2>4, <2>5, <2>6
  <1>5. CASE file = Absent /\ phase = "down"
    <2>1. Settings!Save(Settings!Default) /\ phase' = "up" /\ Settings!Reverts /\ shown' = shown
      BY <1>5, SettingsConstants, Readable DEF Settings!Start, Settings!UseLastGoodCopy
    <2>2. /\ FilesOfTypes' /\ CopyInv' /\ settings_cache' = Settings!Default /\ file' = Settings!Default
          /\ bak' \in {file, bak}
      BY <1>1, <1>2, <2>1, SaveStores, DefaultConfig
    <2>3. ~settings_scene.repair_cut => trusted = {}
      BY <1>1, <1>5 DEF CopyInv
    <2>4. Shares(settings_cache', left)
      BY <2>2, DefaultConfig DEF Shares
    <2>5. reverted' \in BOOLEAN /\ (shown = settings_cache'.auth.code \/ reverted')
      BY <2>1 DEF Settings!Reverts
    <2> QED
      BY <1>3, <2>1, <2>2, <2>3, <2>4, <2>5, DefaultConfig
  <1>6. CASE file = Broken /\ phase = "down"
    <2>1. file' = Absent /\ phase' = "moved" /\ UNCHANGED <<bak, settings_cache, shown, reverted, left, trusted>>
      BY <1>1, <1>6, SettingsConstants, Readable DEF Settings!Start, Settings!UseLastGoodCopy, Settings!histories
    <2>2. FilesOfTypes' /\ CopyInv'
      BY <1>1, <1>2, <1>6, <2>1, SettingsConstants DEF FilesOfTypes, CopyInv
    <2>3. RequestTypes'
      BY <1>1, <1>2, <2>1 DEF RequestTypes
    <2>4. SharesInv'
      BY <1>1, <1>2, <2>1, SettingsConstants DEF SharesInv
    <2>5. WaitsInv' /\ ShownInv'
      BY <1>1, <1>2, <2>1, SettingsConstants DEF WaitsInv, ShownInv, Settings!ShownCodeWorks
    <2> QED
      BY <2>1, <2>2, <2>3, <2>4, <2>5 DEF SettingsInv
  <1>7. CASE phase = "moved"
    <2> DEFINE c == IF bak \in Settings!Config THEN bak ELSE Settings!Default
    <2>1. phase' = "up" /\ Settings!Save(c) /\ Settings!Reverts /\ shown' = shown
      BY <1>1, <1>7, SettingsConstants, Readable DEF Settings!Start, Settings!UseLastGoodCopy, FilesOfTypes
    <2>2. c \in Settings!Config /\ Shares(c, left)
      BY <1>1, DefaultConfig DEF SharesInv, Shares
    <2>3. /\ FilesOfTypes' /\ CopyInv' /\ settings_cache' = c /\ file' = c
          /\ bak' \in {file, bak}
      <3> HIDE DEF c
      <3> QED
        BY <1>1, <1>2, <2>1, <2>2, SaveStores
    <2>4. ~settings_scene.repair_cut /\ trusted # {} => settings_cache' \in trusted
      BY <1>1, <2>3 DEF CopyInv
    <2>5. reverted' \in BOOLEAN /\ (shown = settings_cache'.auth.code \/ reverted')
      BY <2>1 DEF Settings!Reverts
    <2> HIDE DEF c
    <2> QED
      BY <1>3, <2>1, <2>2, <2>3, <2>4, <2>5
  <1>8. phase \in {"down", "moved"} /\ file \in Settings!Config \cup {Absent, Broken}
    BY <1>1, <1>2 DEF FilesOfTypes
  <1> QED
    BY <1>4, <1>5, <1>6, <1>7, <1>8

(* ... a backup ... *)
LEMMA BackupStep == ASSUME SettingsInv, Settings!CreateBackup PROVE SettingsInv'
  <1>1. FilesOfTypes /\ RequestTypes /\ SharesInv /\ CopyInv /\ WaitsInv /\ ShownInv
    BY DEF SettingsInv
  <1>2. PICK encrypted \in BOOLEAN :
          backup' = [cfg |-> IF encrypted THEN settings_cache ELSE Settings!WithoutSecrets(settings_cache),
                     encrypted |-> encrypted, made |-> TRUE]
    BY DEF Settings!CreateBackup
  <1>3. /\ phase = "up" /\ ~backup.made
        /\ UNCHANGED <<file, bak, settings_cache, settings_boot, phase, settings_task, settings_scene, used,
           shown, reverted, left,
                       trusted>>
    BY DEF Settings!CreateBackup, Settings!files, Settings!histories
  <1>4. settings_cache \in Settings!Config /\ Shares(settings_cache, left)
    BY <1>1, <1>3 DEF FilesOfTypes, SharesInv
  <1>5. Settings!NoAuth \in [pw : Settings!Codes, code : Settings!Codes]
    BY DEF Settings!NoAuth, Settings!Codes
  <1>6. Sets(settings_cache, "auth", Settings!WithoutSecrets(settings_cache))
        /\ Settings!WithoutSecrets(settings_cache).auth = Settings!NoAuth
    BY <1>4, <1>5, SetsAuth DEF Settings!WithoutSecrets
  <1>7. Shares(Settings!WithoutSecrets(settings_cache), left)
    BY <1>4, <1>6, SetsKeepsShares
  <1>8. Shares(backup'.cfg, left) /\ backup' \in BackupFile /\ (~backup'.encrypted
        => backup'.cfg.auth = Settings!NoAuth)
    BY <1>2, <1>4, <1>6, <1>7 DEF BackupFile, Shares
  <1>9. FilesOfTypes' /\ CopyInv' /\ ShownInv'
    BY <1>1, <1>3 DEF FilesOfTypes, CopyInv, ShownInv, Settings!ShownCodeWorks
  <1>10. RequestTypes' /\ SharesInv'
    BY <1>1, <1>3, <1>8 DEF RequestTypes, SharesInv
  <1>11. WaitsInv'
    BY <1>1, <1>3, <1>8 DEF WaitsInv
  <1> QED
    BY <1>9, <1>10, <1>11 DEF SettingsInv

(* The app restarts at the end of a restore. *)
LEMMA EndsStep == ASSUME SettingsInv, NEW t \in {t1, t2}, Settings!RestoreEnds(t) PROVE SettingsInv'
  <1>1. FilesOfTypes /\ RequestTypes /\ SharesInv /\ CopyInv /\ WaitsInv /\ ShownInv
    BY DEF SettingsInv
  <1>2. phase = "up" /\ UNCHANGED <<file, bak, settings_boot, backup, settings_scene, used, shown, reverted, left, trusted>>
    BY DEF Settings!RestoreEnds, Settings!At, Settings!histories
  <1>3. CASE Settings!Ends(t) /\ UNCHANGED <<phase, settings_cache>>
    <2>1. settings_boot' \in SUBSET Header
      BY <1>1, <1>2 DEF RequestTypes
    <2>2. Shares(Settings!NoTask.cfg, left)
      BY IdleSlot, DefaultConfig DEF Shares
    <2> QED
      BY <1>2, <1>3, <2>1, <2>2, IdleSlot, Waiting DEF Settings!Ends
  <1>4. CASE /\ phase' = "down" /\ settings_cache' = Cold
             /\ settings_task' = [u \in {t1, t2} |-> Settings!NoTask]
    <2>1. \A u \in {t1, t2} : settings_task'[u] = Settings!NoTask
      BY <1>4
    <2>2. FilesOfTypes' /\ CopyInv'
      BY <1>1, <1>2, <1>4, SettingsConstants DEF FilesOfTypes, CopyInv
    <2>3. RequestTypes'
      BY <1>1, <1>2, <1>4, <2>1, IdleSlot DEF RequestTypes
    <2>4. SharesInv'
      BY <1>1, <1>2, <1>4, <2>1, SettingsConstants, IdleSlot, DefaultConfig DEF SharesInv, Shares
    <2>5. WaitsInv' /\ ShownInv'
      BY <1>1, <1>2, <1>4, <2>1, IdleSlot DEF WaitsInv, ShownInv, Settings!ShownCodeWorks
    <2> QED
      BY <2>2, <2>3, <2>4, <2>5 DEF SettingsInv
  <1> QED
    BY <1>3, <1>4 DEF Settings!RestoreEnds

(* ... settings that are read and saved in one step ... *)
LEMMA QuickStep ==
  ASSUME SettingsInv,
         \/ Settings!SaveGlobals \/ Settings!SaveBrightness \/ Settings!CreateToken \/ Settings!RemoveToken
         \/ \E i \in {i1, i2} : Settings!SaveInstance(i) \/ Settings!RemoveInstance(i)
         \/ \E shared \in SUBSET {i1, i2} : Settings!SaveMqtt(shared)
  PROVE  SettingsInv'
  <1>1. ASSUME NEW section, NEW c, Settings!SaveNow(section, c), Shares(c, left),
               c.auth = settings_cache.auth PROVE SettingsInv'
    <2>1. left' = left /\ left' \in SUBSET {i1, i2}
      BY <1>1 DEF Settings!SaveNow, SettingsInv, RequestTypes
    <2> QED
      BY <1>1, <2>1, SavesNow DEF Settings!SaveNow
  <1>2. phase = "up" /\ settings_cache \in Settings!Config /\ Shares(settings_cache, left)
    BY DEF Settings!SaveGlobals, Settings!SaveBrightness, Settings!CreateToken, Settings!RemoveToken,
       Settings!SaveInstance, Settings!RemoveInstance, Settings!SaveMqtt, Settings!SaveNow, SettingsInv, FilesOfTypes,
       SharesInv
  <1>3. CASE Settings!SaveGlobals
    BY <1>1, <1>2, <1>3, SetsGlobals, SetsKeepsShares, SetsKeepsAuth DEF Settings!SaveGlobals
  <1>4. CASE Settings!SaveBrightness
    BY <1>1, <1>2, <1>4, SetsBright, SetsKeepsShares, SetsKeepsAuth DEF Settings!SaveBrightness
  <1>5. CASE Settings!CreateToken \/ Settings!RemoveToken
    <2>1. PICK b \in BOOLEAN : Settings!SaveNow("token", [settings_cache EXCEPT !.token = b])
      BY <1>5 DEF Settings!CreateToken, Settings!RemoveToken
    <2>2. Sets(settings_cache, "token", [settings_cache EXCEPT !.token = b])
      BY <1>2, SetsToken
    <2> QED
      BY <1>1, <1>2, <2>1, <2>2, SetsKeepsShares, SetsKeepsAuth
  <1>6. ASSUME NEW i \in {i1, i2}, Settings!SaveInstance(i) PROVE SettingsInv'
    <2> DEFINE c == [settings_cache EXCEPT !.inst = settings_cache.inst \cup {i}]
    <2>1. settings_cache.inst \cup {i} \in SUBSET {i1, i2}
      BY <1>2, ConfigFields
    <2>2. Sets(settings_cache, "inst", c) /\ c.inst = settings_cache.inst \cup {i}
      BY <1>2, <2>1, SetsInst
    <2>3. c.auth = settings_cache.auth /\ c.share = settings_cache.share /\ c \in Settings!Config
      BY <2>2, DefaultConfig DEF Sets
    <2>4. Shares(c, left)
      BY <1>2, <2>2, <2>3 DEF Shares
    <2>5. Settings!SaveNow("modules", c)
      BY <1>6 DEF Settings!SaveInstance
    <2> QED
      BY <1>1, <2>3, <2>4, <2>5
  <1>7. ASSUME NEW i \in {i1, i2}, Settings!RemoveInstance(i) PROVE SettingsInv'
    <2> DEFINE c == [settings_cache EXCEPT !.inst = @ \ {i}, !.share = @ \ {i}]
    <2>1. /\ c \in Settings!Config /\ c.inst = settings_cache.inst \ {i} /\ c.share = settings_cache.share \ {i}
          /\ c.auth = settings_cache.auth
      BY <1>2, SetsBoth
    <2>2. Shares(c, left)
      BY <1>2, <2>1 DEF Shares
    <2>3. Settings!SaveNow("modules", c)
      BY <1>7 DEF Settings!RemoveInstance
    <2> QED
      BY <1>1, <2>1, <2>2, <2>3
  <1>8. ASSUME NEW shared \in SUBSET {i1, i2}, Settings!SaveMqtt(shared) PROVE SettingsInv'
    <2> DEFINE c == [settings_cache EXCEPT !.share = shared \cap settings_cache.inst]
    <2>1. Sets(settings_cache, "share", c) /\ c.share = shared \cap settings_cache.inst
      BY <1>2, SetsShare
    <2>2. c.auth = settings_cache.auth /\ c.inst = settings_cache.inst /\ c \in Settings!Config
      BY <2>1, DefaultConfig DEF Sets
    <2>3. Shares(c, left)
      BY <1>2, <2>1, <2>2 DEF Shares
    <2>4. Settings!SaveNow("modules", c)
      BY <1>8 DEF Settings!SaveMqtt
    <2> QED
      BY <1>1, <2>2, <2>3, <2>4
  <1> QED
    BY <1>3, <1>4, <1>5, <1>6, <1>7, <1>8

(* ... an uninstall ... *)
LEMMA UninstallStep == ASSUME SettingsInv, Settings!Uninstall PROVE SettingsInv'
  <1> DEFINE c == [settings_cache EXCEPT !.inst = {}]
  <1>1. phase = "up" /\ settings_cache \in Settings!Config /\ Shares(settings_cache, left) /\ left \subseteq {i1, i2}
    BY DEF Settings!Uninstall, SettingsInv, FilesOfTypes, SharesInv, RequestTypes
  <1>2. Sets(settings_cache, "inst", c) /\ c.inst = {}
    BY <1>1, SetsInst
  <1>3. c.auth = settings_cache.auth /\ c.share = settings_cache.share /\ c \in Settings!Config
    BY <1>2, DefaultConfig DEF Sets
  <1>4. left' = left \cup settings_cache.inst /\ settings_cache.inst \subseteq {i1, i2}
    BY <1>1, ConfigFields DEF Settings!Uninstall
  <1>5. Shares(c, left')
    BY <1>1, <1>2, <1>3, <1>4 DEF Shares
  <1> QED
    BY <1>1, <1>3, <1>4, <1>5, SavesNow DEF Settings!Uninstall

(* What a slot holds, of a request that waits. *)
LEMMA Held == ASSUME SettingsInv, NEW t \in {t1, t2}
  PROVE /\ settings_task[t] \in SlotTask /\ settings_task[t].cfg \in Settings!Config
           /\ Shares(settings_task[t].cfg, left)
        /\ settings_task[t].id \in Settings!Codes /\ shown \in Settings!Codes /\ settings_boot \in SUBSET Header
        /\ settings_task[t].kind \in settings_scene.kinds \cup {"none"}
        /\ phase = "up" => settings_cache \in Settings!Config /\ Shares(settings_cache, left)
        /\ reverted \in BOOLEAN /\ (phase = "up" => shown = settings_cache.auth.code \/ reverted)
        /\ settings_task[t].kind = "restore" => backup.made /\ settings_task[t].cfg.auth = backup.cfg.auth
        /\ settings_task[t].kind = "restore" /\ ~backup.encrypted => settings_task[t].cfg.auth = Settings!NoAuth
BY DEF SettingsInv, RequestTypes, SharesInv, FilesOfTypes, WaitsInv, ShownInv, Settings!ShownCodeWorks, SlotTask, Shares

(* ... a setup, a new password and a recovery ... *)
LEMMA SignInStep ==
  ASSUME SettingsInv, NEW t \in {t1, t2},
         Settings!SignInBegins(t) \/ Settings!SetupSaves(t) \/ Settings!ChangeSaves(t) \/ Settings!RecoverSaves(t)
  PROVE  SettingsInv'
  <1>1. CASE Settings!SignInBegins(t)
    <2>1. PICK kind \in {"setup", "change", "recover"} : Settings!Begins(t, kind, "hash", settings_cache)
      BY <1>1 DEF Settings!SignInBegins
    <2>2. /\ phase = "up"
          /\ UNCHANGED <<file, bak, settings_cache, settings_boot, phase, backup, settings_scene, shown, reverted, left,
             trusted>>
      BY <1>1 DEF Settings!SignInBegins, Settings!files, Settings!histories
    <2>3. kind \in Settings!Waiting
      BY DEF Settings!Waiting
    <2> QED
      BY <2>1, <2>2, <2>3, Held, RequestBegins
  <1>2. CASE Settings!SetupSaves(t) \/ Settings!ChangeSaves(t) \/ Settings!RecoverSaves(t)
    <2>1. /\ phase = "up" /\ settings_task' = [settings_task EXCEPT ![t] = Settings!NoTask]
          /\ UNCHANGED <<settings_boot, phase, backup, settings_scene, used, left>>
      BY <1>2 DEF Settings!SetupSaves, Settings!ChangeSaves, Settings!RecoverSaves, Settings!At, Settings!Ends
    <2>2. settings_cache \in Settings!Config /\ Shares(settings_cache, left) /\ settings_task[t].id \in Settings!Codes
      BY <2>1, Held
    <2>3. ASSUME NEW c, Settings!Save(c), Sets(settings_cache, "auth", c), shown' \in Settings!Codes,
                 reverted' \in BOOLEAN, shown' = c.auth.code \/ reverted'
          PROVE SettingsInv'
      <3>1. Shares(c, left)
        BY <2>2, <2>3, SetsKeepsShares
      <3> QED
        BY <2>1, <2>3, <3>1, IdleSlot, SavesAtEnd
    <2> DEFINE a == [pw |-> settings_task[t].id, code |-> settings_task[t].id]
    <2>4. a \in [pw : Settings!Codes, code : Settings!Codes] /\ a.code = settings_task[t].id
      BY <2>2
    <2>5. /\ Sets(settings_cache, "auth", [settings_cache EXCEPT !.auth = a])
          /\ [settings_cache EXCEPT !.auth = a].auth = a
      BY <2>2, <2>4, SetsAuth
    <2>6. CASE Settings!SetupSaves(t) /\ settings_cache.auth # Settings!NoAuth
      <3>1. UNCHANGED <<file, bak, settings_cache, shown, reverted, trusted>>
        BY <2>6 DEF Settings!SetupSaves, Settings!files
      <3>2. Shares(Settings!NoTask.cfg, left) /\ settings_boot' \in SUBSET Header
        BY <2>1, Held, IdleSlot, DefaultConfig DEF Shares
      <3> QED
        BY <2>1, <3>1, <3>2, IdleSlot, Waiting
    <2>7. CASE Settings!RecoverSaves(t) \/ (Settings!SetupSaves(t) /\ settings_cache.auth = Settings!NoAuth)
      <3>1. Settings!Save([settings_cache EXCEPT !.auth = a]) /\ shown' = settings_task[t].id
         /\ reverted' = FALSE
        BY <2>7 DEF Settings!SetupSaves, Settings!RecoverSaves, Settings!Shows
      <3> QED
        BY <2>2, <2>3, <2>4, <2>5, <3>1
    <2>8. CASE Settings!ChangeSaves(t)
      <3>1. Settings!Save([settings_cache EXCEPT !.auth.pw = settings_task[t].id]) /\ shown' = shown
         /\ reverted' = reverted
        BY <2>8 DEF Settings!ChangeSaves
      <3>2. reverted \in BOOLEAN /\ (shown = settings_cache.auth.code \/ reverted)
        BY <2>1, Held
      <3>3. shown \in Settings!Codes
        BY Held
      <3> QED
        BY <2>2, <2>3, <3>1, <3>2, <3>3, SetsPassword
    <2> QED
      BY <1>2, <2>6, <2>7, <2>8
  <1> QED
    BY <1>1, <1>2

(* ... SSH ... *)
LEMMA SshStep ==
  ASSUME SettingsInv, NEW t \in {t1, t2}, Settings!SshBegins(t) \/ Settings!ApplySshFails(t) \/ Settings!SshSaves(t)
  PROVE  SettingsInv'
  <1>1. CASE Settings!SshBegins(t)
    <2>1. /\ phase = "up" /\ Settings!Begins(t, "ssh", "apply", [settings_cache EXCEPT !.ssh = ~@])
          /\ UNCHANGED <<file, bak, settings_cache, settings_boot, phase, backup, settings_scene, shown, reverted, left,
             trusted>>
      BY <1>1 DEF Settings!SshBegins, Settings!files, Settings!histories
    <2>2. Shares([settings_cache EXCEPT !.ssh = ~@], left)
      BY <2>1, Held, SetsSsh, SetsKeepsShares
    <2> QED
      BY <2>1, <2>2, RequestBegins DEF Settings!Waiting
  <1>2. CASE Settings!ApplySshFails(t)
    <2>1. /\ phase = "up" /\ settings_task' = [settings_task EXCEPT ![t] = Settings!NoTask]
          /\ UNCHANGED <<file, bak, settings_cache, settings_boot, phase, backup, settings_scene, used, shown, reverted,
             left, trusted>>
      BY <1>2 DEF Settings!ApplySshFails, Settings!At, Settings!Ends, Settings!files, Settings!histories
    <2>2. Shares(Settings!NoTask.cfg, left) /\ settings_boot' \in SUBSET Header
      BY <2>1, Held, IdleSlot, DefaultConfig DEF Shares
    <2> QED
      BY <2>1, <2>2, IdleSlot, Waiting
  <1>3. CASE Settings!SshSaves(t)
    <2> DEFINE c == [settings_cache EXCEPT !.ssh = settings_task[t].cfg.ssh, !.bright = settings_task[t].cfg.bright]
    <2>1. /\ phase = "up" /\ settings_task' = [settings_task EXCEPT ![t] = Settings!NoTask] /\ Settings!Save(c)
          /\ UNCHANGED <<settings_boot, phase, backup, settings_scene, used, shown, reverted, left>>
      BY <1>3 DEF Settings!SshSaves, Settings!At, Settings!Ends
    <2>2. settings_task[t].cfg.ssh \in BOOLEAN /\ settings_task[t].cfg.bright \in 0..1
      BY Held, ConfigFields
    <2>0. settings_cache \in Settings!Config
      BY <2>1, Held
    <2>3. /\ c \in Settings!Config
          /\ \A p \in DOMAIN Settings!Default \ {"ssh", "bright"} : c[p] = settings_cache[p]
      BY <2>0, <2>2, DefaultConfig DEF Settings!Config
    <2>4. c.share = settings_cache.share /\ c.inst = settings_cache.inst /\ c.auth = settings_cache.auth
      BY <2>3, DefaultConfig
    <2>5. Shares(c, left)
      BY <2>1, <2>3, <2>4, Held DEF Shares
    <2>6. shown' \in Settings!Codes /\ reverted' \in BOOLEAN /\ (shown' = c.auth.code \/ reverted')
      BY <2>1, <2>4, Held
    <2> HIDE DEF c
    <2> QED
      BY <2>1, <2>5, <2>6, IdleSlot, SavesAtEnd
  <1> QED
    BY <1>1, <1>2, <1>3

(* ... the wiring ... *)
LEMMA WireStep ==
  ASSUME SettingsInv, NEW t \in {t1, t2}, Settings!WireBegins(t) \/ Settings!HelperWrites(t) \/ Settings!WireSaves(t)
  PROVE  SettingsInv'
  <1>1. CASE Settings!WireBegins(t)
    <2>1. PICK dev, cfg :
            /\ \E d \in Header : dev = IF d \in settings_cache.dev THEN settings_cache.dev \ {d}
               ELSE settings_cache.dev \cup {d}
            /\ cfg = [settings_cache EXCEPT !.dev = dev] /\ phase = "up"
            /\ \/ Settings!Uses("tasks") /\ Settings!Save(cfg) /\ UNCHANGED <<settings_task, shown, reverted, left>>
               \/ /\ Settings!Valid(dev) /\ Settings!Begins(t, "wire", "helper", cfg)
                  /\ UNCHANGED <<file, bak, settings_cache, shown, reverted, left, trusted>>
            /\ UNCHANGED <<settings_boot, phase, backup, settings_scene>>
      BY <1>1 DEF Settings!WireBegins, Settings!files, Settings!histories
    <2>2. settings_cache \in Settings!Config /\ Shares(settings_cache, left)
      BY <2>1, Held
    <2>3. dev \in SUBSET Header
      BY <2>1, <2>2, ConfigFields
    <2>4. Sets(settings_cache, "dev", cfg) /\ cfg.dev = dev
      BY <2>1, <2>2, <2>3, SetsDevices
    <2>5. Shares(cfg, left) /\ cfg.auth = settings_cache.auth
      BY <2>2, <2>4, SetsKeepsShares, SetsKeepsAuth
    <2>6. CASE Settings!Uses("tasks") /\ Settings!Save(cfg) /\ UNCHANGED <<settings_task, shown, reverted, left>>
      <3>1. left' = left /\ left' \in SUBSET {i1, i2}
        BY <2>6 DEF SettingsInv, RequestTypes
      <3> QED
        BY <2>1, <2>5, <2>6, <3>1, SavesNow
    <2>7. CASE /\ Settings!Valid(dev) /\ Settings!Begins(t, "wire", "helper", cfg)
               /\ UNCHANGED <<file, bak, settings_cache, shown, reverted, left, trusted>>
      <3>1. Settings!HelperTakes(cfg.dev)
        BY <2>3, <2>4, <2>7, ValidIsTaken
      <3>2. "wire" \in Settings!Waiting /\ "wire" # "restore"
        BY DEF Settings!Waiting
      <3> QED
        BY <2>1, <2>5, <2>7, <3>1, <3>2, RequestBegins
    <2> QED
      BY <2>1, <2>6, <2>7
  <1>2. CASE Settings!HelperWrites(t)
    <2>1. /\ phase = "up" /\ settings_task[t].pc = "helper"
          /\ UNCHANGED <<file, bak, settings_cache, phase, backup, settings_scene, used, shown, reverted, left, trusted>>
      BY <1>2 DEF Settings!HelperWrites, Settings!files, Settings!histories
    <2>2. /\ settings_task[t] \in SlotTask /\ settings_task[t].cfg \in Settings!Config
          /\ Shares(settings_task[t].cfg, left) /\ settings_boot \in SUBSET Header
          /\ settings_task[t].kind \in settings_scene.kinds \cup {"none"}
          /\ settings_task[t].kind = "restore" => backup.made /\ settings_task[t].cfg.auth = backup.cfg.auth
      BY Held
    <2>3. PICK r : settings_task' = [settings_task EXCEPT ![t] = r] /\ settings_boot' \in SUBSET Header /\
            \/ r = [settings_task[t] EXCEPT !.pc = "save", !.cfg.gpio = settings_task[t].cfg.dev]
            \/ r = [settings_task[t] EXCEPT !.pc = "save"]
            \/ r = Settings!NoTask
      <3>1. settings_task[t].cfg.dev \in SUBSET Header
        BY <2>2, ConfigFields
      <3> QED
        BY <1>2, <2>2, <3>1 DEF Settings!HelperWrites
    <2>4. /\ r \in SlotTask /\ Shares(r.cfg, left) /\ r.pc # "helper"
          /\ r.kind \in settings_scene.kinds \cup {"none"}
          /\ r.kind = "restore" => backup.made /\ r.cfg.auth = backup.cfg.auth
      <3>1. CASE r = [settings_task[t] EXCEPT !.pc = "save", !.cfg.gpio = settings_task[t].cfg.dev]
        <4> DEFINE g == [settings_task[t].cfg EXCEPT !.gpio = settings_task[t].cfg.dev]
        <4>1. Sets(settings_task[t].cfg, "gpio", g)
          BY <2>2, ConfigFields, SetsOverlays
        <4>2. g \in Settings!Config /\ Shares(g, left) /\ g.auth = settings_task[t].cfg.auth
          BY <2>2, <4>1, SetsKeepsShares, SetsKeepsAuth DEF Sets
        <4>3. r = [settings_task[t] EXCEPT !.pc = "save", !.cfg = g]
          BY <3>1
        <4>4. r \in SlotTask /\ r.cfg = g /\ r.pc = "save" /\ r.kind = settings_task[t].kind
          <5> HIDE DEF g
          <5> QED
            BY <2>2, <4>2, <4>3 DEF SlotTask
        <4> QED
          BY <2>2, <4>2, <4>4
      <3>2. CASE r = [settings_task[t] EXCEPT !.pc = "save"]
        <4>1. r \in SlotTask /\ r.cfg = settings_task[t].cfg /\ r.pc = "save" /\ r.kind = settings_task[t].kind
          BY <2>2, <3>2 DEF SlotTask
        <4> QED
          BY <2>2, <4>1
      <3>3. CASE r = Settings!NoTask
        BY <3>3, IdleSlot, DefaultConfig DEF Shares
      <3> QED
        BY <2>3, <3>1, <3>2, <3>3
    <2> QED
      BY <2>1, <2>3, <2>4, Waiting
  <1>3. CASE Settings!WireSaves(t)
    <2>1. /\ phase = "up" /\ settings_task[t].kind = "wire" /\ Settings!Save(settings_task[t].cfg)
          /\ settings_task' = [settings_task EXCEPT ![t] = Settings!NoTask] /\ Settings!Reverts
          /\ UNCHANGED <<settings_boot, phase, backup, settings_scene, used, shown, left>>
      BY <1>3 DEF Settings!WireSaves, Settings!At, Settings!Ends
    <2>2. /\ Shares(settings_task[t].cfg, left) /\ shown' \in Settings!Codes /\ reverted' \in BOOLEAN
          /\ shown' = settings_task[t].cfg.auth.code \/ reverted'
      BY <2>1, Held DEF Settings!Reverts, Settings!Save
    <2> QED
      BY <2>1, <2>2, IdleSlot, SavesAtEnd
  <1> QED
    BY <1>1, <1>2, <1>3

(* ... and a restore. *)
LEMMA RestoreStep ==
  ASSUME SettingsInv, NEW t \in {t1, t2},
         Settings!RestoreBegins(t) \/ Settings!RestoreInstalls(t) \/ Settings!RestoreSaves(t)
  PROVE  SettingsInv'
  <1>1. CASE Settings!RestoreBegins(t)
    <2> DEFINE cfg == [backup.cfg EXCEPT !.gpio = {}]
    <2>1. /\ backup.made /\ Settings!Begins(t, "restore", "install", cfg)
          /\ UNCHANGED <<file, bak, settings_cache, settings_boot, phase, backup, settings_scene, shown, reverted, left,
             trusted>>
      BY <1>1 DEF Settings!RestoreBegins, Settings!files, Settings!histories
    <2>2. backup.cfg \in Settings!Config /\ Shares(backup.cfg, left)
      BY DEF SettingsInv, SharesInv, Shares
    <2>3. Sets(backup.cfg, "gpio", cfg)
      BY <2>2, SetsOverlays
    <2>4. Shares(cfg, left) /\ cfg.auth = backup.cfg.auth
      BY <2>2, <2>3, SetsKeepsShares, SetsKeepsAuth
    <2>5. "restore" \in Settings!Waiting
      BY DEF Settings!Waiting
    <2> HIDE DEF cfg
    <2> QED
      BY <2>1, <2>4, <2>5, RequestBegins
  <1>2. CASE Settings!RestoreInstalls(t)
    <2>1. /\ phase = "up" /\ settings_task[t].kind = "restore"
          /\ UNCHANGED <<file, bak, settings_cache, settings_boot, phase, backup, settings_scene, used, shown, reverted,
             left, trusted>>
      BY <1>2 DEF Settings!RestoreInstalls, Settings!At, Settings!files, Settings!histories
    <2>2. /\ settings_task[t] \in SlotTask /\ settings_task[t].cfg \in Settings!Config
          /\ Shares(settings_task[t].cfg, left) /\ settings_boot' \in SUBSET Header
          /\ settings_task[t].kind \in settings_scene.kinds \cup {"none"}
          /\ backup.made /\ settings_task[t].cfg.auth = backup.cfg.auth
      BY <2>1, Held
    <2>3. PICK r : settings_task' = [settings_task EXCEPT ![t] = r] /\
            \/ r = [settings_task[t] EXCEPT !.pc = "helper"] /\ Settings!Valid(settings_task[t].cfg.dev)
            \/ r = [settings_task[t] EXCEPT !.pc = "save"]
            \/ r = Settings!NoTask
      BY <1>2 DEF Settings!RestoreInstalls, Settings!Ends
    <2>4. CASE r = [settings_task[t] EXCEPT !.pc = "helper"] /\ Settings!Valid(settings_task[t].cfg.dev)
      <3>1. r \in SlotTask /\ r.cfg = settings_task[t].cfg /\ r.kind = settings_task[t].kind
        BY <2>2, <2>4 DEF SlotTask
      <3>2. Settings!HelperTakes(r.cfg.dev)
        BY <2>2, <2>4, <3>1, ConfigFields, ValidIsTaken
      <3> QED
        BY <2>1, <2>2, <2>3, <3>1, <3>2, Waiting
    <2>5. CASE r = [settings_task[t] EXCEPT !.pc = "save"]
      <3>1. r \in SlotTask /\ r.cfg = settings_task[t].cfg /\ r.kind = settings_task[t].kind /\ r.pc = "save"
        BY <2>2, <2>5 DEF SlotTask
      <3> QED
        BY <2>1, <2>2, <2>3, <3>1, Waiting
    <2>6. CASE r = Settings!NoTask
      <3>1. Shares(r.cfg, left)
        BY <2>6, IdleSlot, DefaultConfig DEF Shares
      <3> QED
        BY <2>1, <2>2, <2>3, <2>6, <3>1, IdleSlot, Waiting
    <2> QED
      BY <2>3, <2>4, <2>5, <2>6
  <1>3. CASE Settings!RestoreSaves(t)
    <2> DEFINE c == Settings!KeepSecrets(settings_task[t].cfg, settings_cache)
               r == [settings_task[t] EXCEPT !.pc = "data"]
    <2>1. /\ phase = "up" /\ settings_task[t].kind = "restore" /\ Settings!Save(c)
          /\ \/ settings_task[t].cfg.auth = Settings!NoAuth /\ shown' = shown /\ reverted' = reverted
             \/ shown' = settings_cache'.auth.code /\ reverted' = FALSE
          /\ settings_task' = [settings_task EXCEPT ![t] = r]
          /\ UNCHANGED <<settings_boot, phase, backup, settings_scene, used, left>>
      BY <1>3 DEF Settings!RestoreSaves, Settings!At, Settings!Shows
    <2>2. /\ settings_task[t] \in SlotTask /\ settings_task[t].cfg \in Settings!Config
          /\ Shares(settings_task[t].cfg, left) /\ settings_cache \in Settings!Config /\ shown \in Settings!Codes
          /\ ~backup.encrypted => settings_task[t].cfg.auth = Settings!NoAuth
          /\ reverted \in BOOLEAN /\ (shown = settings_cache.auth.code \/ reverted)
      BY <2>1, Held
    <2>3. r \in SlotTask /\ r.kind = settings_task[t].kind /\ r.cfg = settings_task[t].cfg /\ r.pc = "data"
      BY <2>2 DEF SlotTask
    <2>4. /\ c \in Settings!Config /\ Shares(c, left)
          /\ settings_task[t].cfg.auth = Settings!NoAuth => c.auth = settings_cache.auth
      <3>1. CASE settings_task[t].cfg.auth = Settings!NoAuth
        <4>1. settings_cache.auth \in [pw : Settings!Codes, code : Settings!Codes]
          BY <2>2, ConfigFields
        <4>2. Sets(settings_task[t].cfg, "auth", [settings_task[t].cfg EXCEPT !.auth = settings_cache.auth])
              /\ [settings_task[t].cfg EXCEPT !.auth = settings_cache.auth].auth = settings_cache.auth
          BY <2>2, <4>1, SetsAuth
        <4>3. c = [settings_task[t].cfg EXCEPT !.auth = settings_cache.auth]
          BY <3>1 DEF Settings!KeepSecrets
        <4>4. Shares(c, left)
          BY <2>2, <4>2, <4>3, SetsKeepsShares
        <4> HIDE DEF c
        <4> QED
          BY <4>2, <4>3, <4>4 DEF Shares
      <3>2. CASE settings_task[t].cfg.auth # Settings!NoAuth
        BY <2>2, <3>2 DEF Settings!KeepSecrets
      <3> QED
        BY <3>1, <3>2
    <2>5. settings_cache' = c
      BY <2>1 DEF Settings!Save
    <2>6. shown' \in Settings!Codes /\ reverted' \in BOOLEAN /\ (shown' = c.auth.code \/ reverted')
      BY <2>1, <2>2, <2>4, <2>5, ConfigFields
    <2> HIDE DEF c, r
    <2> QED
      BY <2>1, <2>3, <2>4, <2>6, SavesAtEnd
  <1> QED
    BY <1>1, <1>2, <1>3

(* Each step of the settings keeps their invariant. *)
LEMMA SettingsStep == ASSUME SettingsInv, [Settings!Next]_SettingsVars PROVE SettingsInv'
  <1>1. CASE UNCHANGED SettingsVars
    <2>1. FilesOfTypes' /\ RequestTypes' /\ SharesInv' /\ CopyInv' /\ WaitsInv' /\ ShownInv'
      BY <1>1 DEF SettingsVars, SettingsInv, FilesOfTypes, RequestTypes, SharesInv, CopyInv, WaitsInv,
         ShownInv, Settings!ShownCodeWorks
    <2> QED
      BY <2>1 DEF SettingsInv
  <1>2. ASSUME NEW t \in {t1, t2}, Settings!Waits(t) PROVE SettingsInv'
    BY <1>2, SignInStep, SshStep, WireStep, RestoreStep, EndsStep DEF Settings!Waits
  <1> QED
    BY <1>1, <1>2, CutStep, BreakStep, StartStep, BackupStep, QuickStep, UninstallStep DEF Settings!Next

(* A new mirror has no settings yet, one that was set up has saved ones. *)
LEMMA SettingsInit == ASSUME Settings!Init PROVE SettingsInv
  <1> DEFINE set == [Settings!Default EXCEPT !.auth = [pw |-> 1, code |-> 1]]
  <1>1. /\ set \in Settings!Config /\ set.auth = [pw |-> 1, code |-> 1] /\ set.share = {} /\ set.inst = {}
    <2>1. [pw |-> 1, code |-> 1] \in [pw : Settings!Codes, code : Settings!Codes]
      BY DEF Settings!Codes
    <2> QED
      BY <2>1, DefaultConfig, SetsAuth DEF Sets
  <1>2. /\ settings_scene \in SettingsScenes /\ bak = Absent /\ settings_boot = {}
        /\ settings_task = [t \in {t1, t2} |-> Settings!NoTask] /\ backup = Settings!NoBackup
        /\ used = [saves |-> 0, tasks |-> 1, cuts |-> 0, breaks |-> 0] /\ left = {} /\ trusted = {} /\ reverted = FALSE
        /\ \/ settings_cache = set /\ file = set /\ phase = "up" /\ shown = 1
           \/ settings_cache = Cold /\ file = Absent /\ phase = "down" /\ shown = 0
    BY DEF Settings!Init
  <1>3. \A t \in {t1, t2} : settings_task[t] = Settings!NoTask
    BY <1>2
  <1> HIDE DEF set
  <1>4. FilesOfTypes
    BY <1>1, <1>2, SettingsConstants DEF FilesOfTypes
  <1>5. backup \in BackupFile /\ backup.cfg = Settings!Default
    BY <1>2, DefaultConfig DEF BackupFile, Settings!NoBackup
  <1>6. RequestTypes
    <2>1. used.tasks \in Settings!Codes /\ shown \in Settings!Codes
      BY <1>2 DEF Settings!Codes
    <2> QED
      BY <1>2, <1>3, <1>5, <2>1, IdleSlot DEF RequestTypes
  <1>7. SharesInv
    BY <1>1, <1>2, <1>3, <1>5, SettingsConstants, IdleSlot, DefaultConfig DEF SharesInv, Shares
  <1>8. CopyInv /\ WaitsInv
    BY <1>2, <1>3, <1>5, IdleSlot, DefaultConfig DEF CopyInv, WaitsInv
  <1>9. ShownInv
    <2>1. reverted \in BOOLEAN /\ set.auth.code = 1
      <3>1. reverted \in BOOLEAN
        BY <1>2
      <3>2. set.auth.code = 1
        BY <1>1
      <3> QED
        BY <3>1, <3>2
    <2>2. CASE settings_cache = set /\ file = set /\ phase = "up" /\ shown = 1
      BY <2>1, <2>2 DEF ShownInv, Settings!ShownCodeWorks
    <2>3. CASE settings_cache = Cold /\ file = Absent /\ phase = "down" /\ shown = 0
      BY <2>1, <2>3, SettingsConstants DEF ShownInv, Settings!ShownCodeWorks
    <2> QED
      BY <1>2, <2>2, <2>3
  <1> QED
    BY <1>4, <1>6, <1>7, <1>8, <1>9 DEF SettingsInv

(* Nothing is shared over MQTT without an instance but for what an uninstall removed, the helper takes every wiring
   it is given, and the recovery code that works is the newest that was shown, but for an older one that the settings a
   wiring loaded before, or the last good copy or the defaults in the place of a broken file, bring back until the next
   is shown: through slow requests that overlap, hand edits that don't read, and cuts (config.py, auth/routes.py,
   hardware/routes.py, system_settings.py, backup/service.py). *)
THEOREM SettingsAlwaysFit == Spec => []SettingsFit
  <1>1. Init => (part = "settings" => SettingsInv)
    BY SettingsInit DEF Init
  <1>2. (part = "settings" => SettingsInv) /\ [Next]_vars => (part = "settings" => SettingsInv)'
    BY StepOfPart, SettingsStep
  <1>3. (part = "settings" => SettingsInv) => SettingsFit
    <2>1. ASSUME SettingsInv PROVE Settings!SettingsFit /\ Settings!ShownCodeWorks
      <3>1. /\ FilesOfTypes /\ RequestTypes /\ SharesInv /\ WaitsInv /\ Settings!ShownCodeWorks
        BY <2>1 DEF SettingsInv, ShownInv
      <3>2. phase = "up" => settings_cache.share \ settings_cache.inst \subseteq left
        BY <2>1, Held DEF Shares
      <3>3. Settings!TypeOK
        BY <3>1 DEF Settings!TypeOK, FilesOfTypes, RequestTypes, SlotTask, BackupFile
      <3> QED
        BY <3>1, <3>2, <3>3 DEF Settings!SettingsFit, WaitsInv
    <2> QED
      BY <2>1 DEF SettingsFit
  <1> QED
    BY <1>1, <1>2, <1>3, PTL DEF Spec

-----------------------------------------------------------------------------
(* Settings forms.                                                          *)

FormRow == [at : Nat, text : FormTexts \cup {Forms!NoText}]
FormPage == [on : BOOLEAN, count : Int, tags : SUBSET FormBoxes, rows : Seq(FormRow)]
\* What is saved, or its default, is of the schema's types, and has no more rows than a page.
SavedTypes ==
  /\ forms_saved = [key \in Forms!Keys |-> forms_saved[key]]
  /\ Forms!Given("on") \in BOOLEAN /\ Forms!Given("count") \in Int /\ Forms!Given("tags") \subseteq FormBoxes
  /\ Forms!Given("rows") \in Seq(FormTexts \cup {Forms!NoText}) /\ Len(Forms!Given("rows")) <= MaxRows
DrawerTypesOK ==
  /\ forms_page \in FormPage /\ forms_asked \in Seq(Nat) /\ Len(forms_page.rows) + Len(forms_asked) <= MaxRows
  /\ edits \in Nat
\* Each row's fields are named for the place it is in.
RowsInPlace == \A i \in 1..Len(forms_page.rows) : forms_page.rows[i].at = i
FormsInv == SavedTypes /\ DrawerTypesOK /\ RowsInPlace /\ (edits = 0 /\ ~forms_stale => Forms!Shown = Forms!Runs)

(* What stands for no value is no value, and a value is what was given. *)
LEMMA FormValues == \A v : Forms!Value(v) # Forms!Unset /\ Forms!Value(v).is = v
<1>1. TAKE v
<1>2. DOMAIN [is |-> v] # DOMAIN [unset |-> TRUE]
  OBVIOUS
<1> QED BY <1>2 DEF Forms!Value, Forms!Unset

(* What the component says of sets' sizes is what the theorems about them say. *)
LEMMA FormSize ==
  \A S : (Forms!IsFiniteSet(S) <=> IsFiniteSet(S)) /\ Forms!Cardinality(S) = Cardinality(S)
  <1>1. \A S : Forms!IsFiniteSet(S) <=> IsFiniteSet(S)
    BY DEF Forms!IsFiniteSet, IsFiniteSet
  <1>2. ASSUME NEW S PROVE Forms!Cardinality(S) = Cardinality(S)
    BY DEF Forms!Cardinality, Cardinality
  <1> QED
    BY <1>1, <1>2

(* A set of places that is one place has it as its first. *)
LEMMA OnePlace == ASSUME NEW n \in Nat
  PROVE Forms!Cardinality({n}) = 1 /\ Forms!Nth({n}, 1) = n
<1>1. Forms!Cardinality({n}) = 1
  BY FS_Singleton, FormSize
<1>2. {y \in {n} : y < n} = {}
  OBVIOUS
<1>3. Forms!Cardinality({y \in {n} : y < n}) = 1 - 1
  BY <1>2, FS_EmptySet, FormSize
<1>4. \E x \in {n} : Forms!Cardinality({y \in {n} : y < x}) = 1 - 1
  BY <1>3
<1>5. Forms!Nth({n}, 1) \in {n}
  BY <1>4 DEF Forms!Nth
<1> QED BY <1>1, <1>5

(* Of the places 1 to m the i-th is i. *)
LEMMA NthPlace == ASSUME NEW m \in Nat, NEW i \in 1..m
  PROVE Forms!Cardinality(1..m) = m /\ Forms!Nth(1..m, i) = i
<1>1. Forms!Cardinality(1..m) = m
  BY FS_Interval, FormSize
<1>2. ASSUME NEW x \in 1..m PROVE Forms!Cardinality({y \in 1..m : y < x}) = x - 1
  <2>1. {y \in 1..m : y < x} = 1..(x - 1)
    OBVIOUS
  <2>2. Cardinality(1..(x - 1)) = IF 1 > x - 1 THEN 0 ELSE x - 1 - 1 + 1
    BY FS_Interval
  <2>3. Forms!Cardinality({y \in 1..m : y < x}) = Cardinality(1..(x - 1))
    BY <2>1, FormSize
  <2> QED BY <2>2, <2>3
<1> DEFINE P(x) == Forms!Cardinality({y \in 1..m : y < x}) = i - 1
<1>3. P(i)
  BY <1>2
<1>4. \E x \in 1..m : P(x)
  BY <1>3
<1>5. Forms!Nth(1..m, i) = CHOOSE x \in 1..m : P(x)
  BY DEF Forms!Nth
<1>6. \A x \in 1..m : P(x) => x = i
  BY <1>2
<1> HIDE DEF P
<1>7. Forms!Nth(1..m, i) \in 1..m /\ P(Forms!Nth(1..m, i))
  BY <1>4, <1>5
<1> QED BY <1>1, <1>6, <1>7

(* A list of all of a set, each once, with the placeholder before it, is of that set without the placeholder. *)
LEMMA PlaceholderGone ==
  ASSUME NEW S, IsFiniteSet(S), Forms!NoText \notin S, NEW n \in Nat, n = Cardinality(S), NEW f \in [1..n -> S],
         \A a, b \in 1..n : f[a] = f[b] => a = b
  PROVE  Forms!Range(<<Forms!NoText>> \o f) \ {Forms!NoText} = S
<1> DEFINE h == <<Forms!NoText>> \o f
<1>1. f \in Surjection(1..n, S)
  <2>1. f \in Injection(1..n, S)
    BY DEF Injection, IsInjective
  <2>2. Cardinality(1..n) = n /\ IsFiniteSet(1..n)
    BY FS_Interval
  <2> QED BY <2>1, <2>2, FS_Injection
<1>2. \A s \in S : \E k \in 1..n : f[k] = s
  BY <1>1 DEF Surjection
<1>3. f \in Seq(S) /\ Len(f) = n
  OBVIOUS
<1>4. DOMAIN h = 1..(n + 1) /\ h[1] = Forms!NoText /\ \A k \in 1..n : h[k + 1] = f[k]
  BY <1>3
<1> HIDE DEF h
<1>5. \A k \in DOMAIN h : h[k] \in S \cup {Forms!NoText}
  <2>1. ASSUME NEW k \in DOMAIN h, k # 1 PROVE h[k] \in S
    <3>1. k - 1 \in 1..n /\ k - 1 + 1 = k
      BY <2>1, <1>4
    <3>2. h[k - 1 + 1] = f[k - 1]
      BY <3>1, <1>4
    <3> QED BY <3>1, <3>2
  <2> QED BY <2>1, <1>4
<1>6. ASSUME NEW s \in S PROVE \E k \in DOMAIN h : h[k] = s
  <2>1. PICK k \in 1..n : f[k] = s
    BY <1>2
  <2>2. k + 1 \in DOMAIN h /\ h[k + 1] = s
    BY <2>1, <1>4
  <2> QED BY <2>2
<1>7. Forms!Range(h) \ {Forms!NoText} = S
  BY <1>5, <1>6 DEF Forms!Range
<1> QED BY <1>7 DEF h

(* The choices in the order they are posted in are those ticked, with the placeholder before them. *)
LEMMA TickedPosted == ASSUME NEW S, IsFiniteSet(S), Forms!NoText \notin S
  PROVE Forms!Range(<<Forms!NoText>> \o Forms!SetToSeq(S)) \ {Forms!NoText} = S
<1> DEFINE n == Cardinality(S)
           f == Forms!SetToSeq(S)
           J(h) == \A a, b \in DOMAIN h : h[a] = h[b] => a = b
<1>1. ExistsBijection(1..n, S) /\ n \in Nat
  BY FS_CardinalityType
<1>2. PICK g \in Bijection(1..n, S) : TRUE
  BY <1>1 DEF ExistsBijection
<1>3. g \in [1..n -> S] /\ J(g)
  BY <1>2 DEF Bijection, Injection, IsInjective
<1>4. Forms!Cardinality(S) = n
  BY FormSize
<1>5. f = CHOOSE h \in [1..n -> S] : J(h)
  BY <1>4 DEF Forms!SetToSeq, Forms!IsInjective
<1> HIDE DEF J, f
<1>6. f \in [1..n -> S] /\ J(f)
  BY <1>3, <1>5
<1> QED BY <1>1, <1>6, PlaceholderGone DEF J, f

(* A page drawn anew is of its types, with each row in its place, and shows what is given. *)
LEMMA DrawnFits == ASSUME SavedTypes, NEW p, p = Forms!Draws
  PROVE  /\ p \in FormPage /\ Len(p.rows) <= MaxRows /\ \A i \in 1..Len(p.rows) : p.rows[i].at = i
         /\ p.on = Forms!Given("on") /\ p.count = Forms!Given("count") /\ p.tags = Forms!Given("tags")
         /\ Forms!Given("rows") = [i \in DOMAIN p.rows |-> p.rows[i].text]
<1> DEFINE g == Forms!Given("rows")
           r == [i \in DOMAIN g |-> [at |-> i, text |-> g[i]]]
           on == Forms!Given("on")
           count == Forms!Given("count")
           tags == Forms!Given("tags")
<1>1. p = [on |-> on, count |-> count, tags |-> tags, rows |-> r]
  BY DEF Forms!Draws
<1>2. g \in Seq(FormTexts \cup {Forms!NoText}) /\ Len(g) <= MaxRows /\ on \in BOOLEAN /\ count \in Int
      /\ tags \in SUBSET FormBoxes
  BY DEF SavedTypes
<1> HIDE DEF g, on, count, tags
<1>3. DOMAIN g = 1..Len(g) /\ Len(g) \in Nat
  BY <1>2
<1>4. \A i \in 1..Len(g) : g[i] \in FormTexts \cup {Forms!NoText} /\ i \in Nat
  BY <1>2
<1>5. \A i \in 1..Len(g) : r[i] \in FormRow
  BY <1>3, <1>4 DEF FormRow
<1>6. r \in Seq(FormRow) /\ Len(r) = Len(g)
  BY <1>3, <1>5
<1>7. \A i \in 1..Len(g) : r[i].at = i /\ r[i].text = g[i]
  BY <1>3
<1> HIDE DEF r
<1>8. p \in FormPage /\ p.rows = r
  BY <1>1, <1>2, <1>6 DEF FormPage
<1>9. g = [i \in DOMAIN r |-> r[i].text]
  <2>1. DOMAIN r = 1..Len(g)
    BY <1>6, <1>3
  <2>2. g = [i \in 1..Len(g) |-> g[i]]
    BY <1>2
  <2> QED BY <2>1, <2>2, <1>7
<1> QED BY <1>1, <1>2, <1>6, <1>7, <1>8, <1>9 DEF g, on, count, tags

(* Settings are those shown if they have the same switch, number, choices and rows. *)
LEMMA SameSettings ==
  ASSUME NEW p, NEW s, s = [key \in Forms!Keys |-> s[key]], p.on = s["on"], p.count = s["count"], p.tags = s["tags"],
         s["rows"] = [i \in DOMAIN p.rows |-> p.rows[i].text]
  PROVE  [on |-> p.on, count |-> p.count, tags |-> p.tags, rows |-> [i \in DOMAIN p.rows |-> p.rows[i].text]] = s
<1> DEFINE r == [i \in DOMAIN p.rows |-> p.rows[i].text]
<1> HIDE DEF r
<1>1. s = [key \in {"on", "count", "tags", "rows"} |-> s[key]]
  BY DEF Forms!Keys
<1>2. s["rows"] = r
  BY DEF r
<1>3. [on |-> p.on, count |-> p.count, tags |-> p.tags, rows |-> r] = s
  BY <1>1, <1>2
<1> QED BY <1>3 DEF r

(* Rows that take their places anew are as many, each in its place. *)
LEMMA RowsReindexed == ASSUME NEW r \in Seq(FormRow)
  PROVE  /\ Forms!Reindexed(r) \in Seq(FormRow) /\ Len(Forms!Reindexed(r)) = Len(r)
         /\ \A i \in 1..Len(r) : Forms!Reindexed(r)[i].at = i
<1> DEFINE q == [i \in DOMAIN r |-> [r[i] EXCEPT !.at = i]]
<1>1. DOMAIN r = 1..Len(r) /\ Len(r) \in Nat /\ \A i \in 1..Len(r) : r[i] \in FormRow
  OBVIOUS
<1>2. \A i \in 1..Len(r) : q[i] \in FormRow /\ q[i].at = i
  BY <1>1 DEF FormRow
<1>3. q \in Seq(FormRow) /\ Len(q) = Len(r)
  BY <1>1, <1>2
<1> QED BY <1>2, <1>3 DEF Forms!Reindexed

(* What is posted for a row is its text, and for no row nothing. *)
LEMMA RowPosted == ASSUME DrawerTypesOK, RowsInPlace, NEW at \in 1..MaxRows
  PROVE  /\ at <= Len(forms_page.rows) => /\ Forms!PostedAt(at) # <<>>
                                          /\ Forms!Merged(Forms!PostedAt(at)) = forms_page.rows[at].text
         /\ at > Len(forms_page.rows) => Forms!PostedAt(at) = <<>>
<1> DEFINE r == forms_page.rows
           places == {i \in DOMAIN r : r[i].at = at}
           text(n) == r[Forms!Nth(places, n)].text
<1>1. Forms!PostedAt(at) = [n \in 1..Forms!Cardinality(places) |-> text(n)]
  BY DEF Forms!PostedAt
<1>2. r \in Seq(FormRow) /\ DOMAIN r = 1..Len(r) /\ Len(r) \in Nat /\ MaxRows \in Nat
  BY AdminAssumption DEF DrawerTypesOK, FormPage, AdminAssumption, Forms!FormsAssumption
<1>3. \A i \in 1..Len(r) : r[i].at = i
  BY DEF RowsInPlace
<1>4. CASE at <= Len(r)
  <2>1. places = {at}
    BY <1>2, <1>3, <1>4
  <2> HIDE DEF places
  <2>2. Forms!Cardinality(places) = 1 /\ text(1) = r[at].text
    BY <2>1, OnePlace
  <2> HIDE DEF text
  <2>3. Forms!PostedAt(at) = [n \in 1..1 |-> text(n)]
    BY <1>1, <2>2
  <2>4. Forms!PostedAt(at) = <<text(1)>>
    BY <2>3
  <2>5. Len(Forms!PostedAt(at)) = 1 /\ Forms!PostedAt(at)[1] = text(1) /\ Forms!PostedAt(at) # <<>>
    BY <2>4
  <2> QED BY <1>4, <2>2, <2>5 DEF Forms!Merged
<1>5. CASE at > Len(r)
  <2>1. places = {}
    BY <1>2, <1>3, <1>5
  <2> HIDE DEF places
  <2>2. Forms!Cardinality(places) = 0
    BY <2>1, FS_EmptySet, FormSize
  <2> HIDE DEF text
  <2>3. Forms!PostedAt(at) = [n \in 1..0 |-> text(n)]
    BY <1>1, <2>2
  <2>4. Forms!PostedAt(at) = <<>>
    BY <2>3
  <2> QED BY <1>5, <1>2, <2>4
<1> QED BY <1>2, <1>4, <1>5

(* The rows read back are those of the page, in its order ... *)
LEMMA RowsParsed == ASSUME DrawerTypesOK, RowsInPlace
  PROVE  Forms!ParsedRows = [i \in DOMAIN forms_page.rows |-> forms_page.rows[i].text]
<1> DEFINE r == forms_page.rows
           ats == {at \in 1..MaxRows : Forms!PostedAt(at) # <<>>}
           m == Len(r)
           row(i) == Forms!Merged(Forms!PostedAt(Forms!Nth(ats, i)))
<1>1. Forms!ParsedRows = [i \in 1..Forms!Cardinality(ats) |-> row(i)]
  BY DEF Forms!ParsedRows
<1>2. r \in Seq(FormRow) /\ DOMAIN r = 1..m /\ m \in Nat /\ MaxRows \in Nat
  BY AdminAssumption DEF DrawerTypesOK, FormPage, AdminAssumption, Forms!FormsAssumption
<1>3. m <= MaxRows
  <2>1. Len(forms_page.rows) + Len(forms_asked) <= MaxRows /\ forms_asked \in Seq(Nat)
    BY DEF DrawerTypesOK
  <2>2. Len(forms_asked) \in Nat
    BY <2>1
  <2> QED BY <2>1, <2>2, <1>2
<1>4. \A at \in 1..MaxRows : at \in ats <=> at <= m
  BY <1>2, RowPosted
<1>5. ats = 1..m
  BY <1>2, <1>3, <1>4
<1>6. ASSUME NEW i \in 1..m PROVE Forms!Cardinality(ats) = m /\ row(i) = r[i].text
  <2>1. Forms!Cardinality(1..m) = m /\ Forms!Nth(1..m, i) = i
    BY <1>2, NthPlace
  <2>2. i \in 1..MaxRows /\ i <= m
    BY <1>2, <1>3
  <2>3. Forms!Merged(Forms!PostedAt(i)) = r[i].text
    BY <2>2, RowPosted
  <2> QED BY <1>5, <2>1, <2>3
<1>7. Forms!Cardinality(ats) = m
  <2>1. Cardinality(1..m) = m
    BY <1>2, FS_Interval
  <2> QED BY <2>1, <1>5, FormSize
<1> HIDE DEF row, ats
<1>8. Forms!ParsedRows = [i \in 1..m |-> r[i].text]
  BY <1>1, <1>6, <1>7
<1> QED BY <1>8, <1>2

(* ... and so are the switch, the number and the choices: what is saved is what is shown. A list that is empty is not
   saved, and its default is empty too. *)
LEMMA SavedIsShown == ASSUME FormsInv, forms_saved' = Forms!Parsed, FormRows.rows = <<>>
  PROVE  /\ forms_saved' = [key \in Forms!Keys |-> forms_saved'[key]]
         /\ Forms!Given("on")' = forms_page.on /\ Forms!Given("count")' = forms_page.count
         /\ Forms!Given("tags")' = forms_page.tags
         /\ Forms!Given("rows")' = [i \in DOMAIN forms_page.rows |-> forms_page.rows[i].text]
<1> DEFINE r == [i \in DOMAIN forms_page.rows |-> forms_page.rows[i].text]
           on == Forms!Value("true" \in Forms!Range(Forms!PostedSwitch))
           count == Forms!Value(forms_page.count)
           tags == Forms!Value(Forms!Range(Forms!PostedBoxes) \ {Forms!NoText})
           rows == IF r = <<>> THEN Forms!Unset ELSE Forms!Value(r)
<1>1. Forms!ParsedRows = r
  BY RowsParsed DEF FormsInv
<1>2. forms_saved' = [on |-> on, count |-> count, tags |-> tags, rows |-> rows]
  BY <1>1 DEF Forms!Parsed
<1>3. ("true" \in Forms!Range(Forms!PostedSwitch)) = forms_page.on
  <2>1. forms_page.on \in BOOLEAN
    BY DEF FormsInv, DrawerTypesOK, FormPage
  <2>2. CASE forms_page.on
    <3>1. Forms!PostedSwitch = <<"false">> \o <<"true">>
      BY <2>2 DEF Forms!PostedSwitch
    <3>2. 2 \in DOMAIN Forms!PostedSwitch /\ Forms!PostedSwitch[2] = "true"
      BY <3>1
    <3>3. "true" \in Forms!Range(Forms!PostedSwitch)
      BY <3>2 DEF Forms!Range
    <3> QED BY <3>3, <2>1, <2>2
  <2>3. CASE ~forms_page.on
    <3>1. Forms!PostedSwitch = <<"false">> \o <<>>
      BY <2>3 DEF Forms!PostedSwitch
    <3>2. DOMAIN Forms!PostedSwitch = {1} /\ Forms!PostedSwitch[1] = "false"
      BY <3>1
    <3>3. "true" \notin Forms!Range(Forms!PostedSwitch)
      BY <3>2 DEF Forms!Range
    <3> QED BY <3>3, <2>1, <2>3
  <2> QED BY <2>2, <2>3
<1>4. Forms!Range(Forms!PostedBoxes) \ {Forms!NoText} = forms_page.tags
  <2>1. forms_page.tags \subseteq FormBoxes
    BY DEF FormsInv, DrawerTypesOK, FormPage
  <2>2. IsFiniteSet(FormBoxes) /\ Forms!NoText \notin FormBoxes
    BY AdminAssumption, FormSize DEF AdminAssumption, Forms!FormsAssumption
  <2>3. IsFiniteSet(forms_page.tags) /\ Forms!NoText \notin forms_page.tags
    BY <2>1, <2>2, FS_Subset
  <2> QED BY <2>3, TickedPosted DEF Forms!PostedBoxes
<1>5. on = Forms!Value(forms_page.on) /\ tags = Forms!Value(forms_page.tags)
  BY <1>3, <1>4
<1> HIDE DEF on, count, tags, rows
<1>6. forms_saved' = [key \in Forms!Keys |-> forms_saved'[key]]
  BY <1>2 DEF Forms!Keys
<1>7. forms_saved'["on"] = on /\ forms_saved'["count"] = count /\ forms_saved'["tags"] = tags
      /\ forms_saved'["rows"] = rows
  BY <1>2
<1>8. Forms!Given("on")' = forms_page.on
  BY <1>5, <1>7, FormValues DEF Forms!Given
<1>9. Forms!Given("count")' = forms_page.count
  BY <1>7, FormValues DEF Forms!Given, count
<1>10. Forms!Given("tags")' = forms_page.tags
  BY <1>5, <1>7, FormValues DEF Forms!Given
<1>11. Forms!Given("rows")' = r
  <2> HIDE DEF r
  <2>1. CASE r = <<>>
    <3>1. forms_saved'["rows"] = Forms!Unset
      BY <1>7, <2>1 DEF rows
    <3>2. Forms!Given("rows")' = FormRows["rows"]
      BY <3>1 DEF Forms!Given
    <3> QED BY <3>2, <2>1
  <2>2. CASE r # <<>>
    <3>1. forms_saved'["rows"] = Forms!Value(r)
      BY <1>7, <2>2 DEF rows
    <3> QED BY <3>1, FormValues DEF Forms!Given
  <2> QED BY <2>1, <2>2
<1> QED BY <1>6, <1>8, <1>9, <1>10, <1>11

(* The drawer begins as the schema's defaults. *)
LEMMA FormsInit == ASSUME Forms!Init PROVE FormsInv
<1>1. forms_saved = [key \in Forms!Keys |-> Forms!Unset]
  BY DEF Forms!Init
<1>2. \A key \in Forms!Keys : Forms!Given(key) = FormRows[key]
  BY <1>1 DEF Forms!Given
<1>3. Forms!Given("on") = FormRows.on /\ Forms!Given("count") = FormRows.count /\ Forms!Given("tags") = FormRows.tags
      /\ Forms!Given("rows") = FormRows.rows
  BY <1>2 DEF Forms!Keys
<1>4. SavedTypes
  <2>1. FormRows.on \in BOOLEAN /\ FormRows.count \in Int /\ FormRows.tags \subseteq FormBoxes
        /\ FormRows.rows \in Seq(FormTexts) /\ Len(FormRows.rows) <= MaxRows
    BY AdminAssumption DEF AdminAssumption, Forms!FormsAssumption
  <2>2. FormRows.rows \in Seq(FormTexts \cup {Forms!NoText})
    BY <2>1
  <2>3. forms_saved = [key \in Forms!Keys |-> forms_saved[key]]
    BY <1>1
  <2> QED BY <1>3, <2>1, <2>2, <2>3 DEF SavedTypes
<1>5. forms_page = Forms!Draws /\ forms_asked = <<>> /\ edits = 0
  BY DEF Forms!Init
<1>6. /\ forms_page \in FormPage /\ Len(forms_page.rows) <= MaxRows
      /\ \A i \in 1..Len(forms_page.rows) : forms_page.rows[i].at = i
      /\ forms_page.on = Forms!Given("on") /\ forms_page.count = Forms!Given("count")
      /\ forms_page.tags = Forms!Given("tags")
      /\ Forms!Given("rows") = [i \in DOMAIN forms_page.rows |-> forms_page.rows[i].text]
  BY <1>4, <1>5, DrawnFits
<1>7. DrawerTypesOK /\ RowsInPlace
  <2>1. forms_page.rows \in Seq(FormRow)
    BY <1>6 DEF FormPage
  <2>2. forms_asked \in Seq(Nat) /\ Len(forms_asked) = 0 /\ Len(forms_page.rows) \in Nat
    BY <1>5, <2>1
  <2>3. Len(forms_page.rows) + Len(forms_asked) <= MaxRows
    BY <1>6, <2>2, AdminAssumption DEF AdminAssumption, Forms!FormsAssumption
  <2> QED BY <1>5, <1>6, <2>2, <2>3 DEF DrawerTypesOK, RowsInPlace
<1>8. Forms!Shown = Forms!Runs
  <2> DEFINE s == Forms!Runs
  <2>1. s = [key \in Forms!Keys |-> s[key]] /\ s["on"] = Forms!Given("on") /\ s["count"] = Forms!Given("count")
        /\ s["tags"] = Forms!Given("tags") /\ s["rows"] = Forms!Given("rows")
    BY DEF Forms!Runs, Forms!Keys
  <2> HIDE DEF s
  <2> QED BY <2>1, <1>6, SameSettings DEF Forms!Shown, s
<1> QED BY <1>4, <1>7, <1>8 DEF FormsInv

(* What is saved stays as it is when the page changes. *)
LEMMA SavedStays == ASSUME SavedTypes, UNCHANGED forms_saved
  PROVE SavedTypes' /\ \A key : Forms!Given(key)' = Forms!Given(key)
<1>1. \A key : Forms!Given(key)' = Forms!Given(key)
  BY DEF Forms!Given
<1> QED BY <1>1 DEF SavedTypes

(* An edit keeps the invariant if the rows it leaves are of their type, few enough, and each in its place. *)
LEMMA EditFits ==
  ASSUME FormsInv, UNCHANGED forms_saved, edits' \in Nat, edits' > 0,
         forms_page'.on \in BOOLEAN, forms_page'.count \in Int, forms_page'.tags \subseteq FormBoxes,
         forms_page' = [on |-> forms_page'.on, count |-> forms_page'.count, tags |-> forms_page'.tags,
                        rows |-> forms_page'.rows],
         forms_page'.rows \in Seq(FormRow), forms_asked' \in Seq(Nat),
         Len(forms_page'.rows) + Len(forms_asked') <= MaxRows,
         \A i \in 1..Len(forms_page'.rows) : forms_page'.rows[i].at = i
  PROVE  FormsInv'
<1>1. SavedTypes'
  BY SavedStays DEF FormsInv
<1>2. forms_page' \in FormPage
  BY DEF FormPage
<1>3. DrawerTypesOK' /\ RowsInPlace'
  BY <1>2 DEF DrawerTypesOK, RowsInPlace
<1> QED BY <1>1, <1>3 DEF FormsInv

(* So does one of a field that isn't a list's row ... *)
LEMMA FieldFits ==
  ASSUME FormsInv, UNCHANGED <<forms_saved, forms_asked>>, edits' = edits + 1, NEW p \in FormPage,
         forms_page' = p, p.rows = forms_page.rows
  PROVE  FormsInv'
<1>1. edits' \in Nat /\ edits' > 0
  BY DEF FormsInv, DrawerTypesOK
<1>2. /\ p.on \in BOOLEAN /\ p.count \in Int /\ p.tags \subseteq FormBoxes /\ p.rows \in Seq(FormRow)
      /\ p = [on |-> p.on, count |-> p.count, tags |-> p.tags, rows |-> p.rows]
  BY DEF FormPage
<1>3. Len(p.rows) + Len(forms_asked') <= MaxRows /\ forms_asked' \in Seq(Nat)
  BY DEF FormsInv, DrawerTypesOK
<1>4. \A i \in 1..Len(p.rows) : p.rows[i].at = i
  BY DEF FormsInv, RowsInPlace
<1> QED BY <1>1, <1>2, <1>3, <1>4, EditFits

(* ... and one of the rows. *)
LEMMA RowsFit ==
  ASSUME FormsInv, UNCHANGED forms_saved, edits' \in Nat, edits' > 0, NEW q \in Seq(FormRow),
         forms_page' = [forms_page EXCEPT !.rows = q], forms_asked' \in Seq(Nat),
         Len(q) + Len(forms_asked') <= MaxRows, \A i \in 1..Len(q) : q[i].at = i
  PROVE  FormsInv'
<1>1. forms_page \in FormPage
  BY DEF FormsInv, DrawerTypesOK
<1>2. /\ forms_page'.on \in BOOLEAN /\ forms_page'.count \in Int /\ forms_page'.tags \subseteq FormBoxes
      /\ forms_page'.rows = q
      /\ forms_page' = [on |-> forms_page'.on, count |-> forms_page'.count, tags |-> forms_page'.tags,
                        rows |-> forms_page'.rows]
  BY <1>1 DEF FormPage
<1> QED BY <1>2, EditFits

(* Each step of the form keeps its invariant. *)
LEMMA FormsStep == ASSUME FormsInv, [Forms!Next]_FormsVars, FormRows.rows = <<>> PROVE FormsInv'
<1> DEFINE r == forms_page.rows
<1>0. /\ forms_page \in FormPage /\ r \in Seq(FormRow) /\ Len(r) \in Nat /\ DOMAIN r = 1..Len(r)
      /\ forms_asked \in Seq(Nat) /\ Len(forms_asked) \in Nat /\ edits \in Nat /\ MaxRows \in Nat
      /\ Len(r) + Len(forms_asked) <= MaxRows /\ \A i \in 1..Len(r) : r[i].at = i
  <2>1. forms_page \in FormPage /\ forms_asked \in Seq(Nat) /\ edits \in Nat
        /\ Len(r) + Len(forms_asked) <= MaxRows /\ \A i \in 1..Len(r) : r[i].at = i
    BY DEF FormsInv, DrawerTypesOK, RowsInPlace
  <2>2. r \in Seq(FormRow)
    BY <2>1 DEF FormPage
  <2> QED BY <2>1, <2>2, AdminAssumption DEF AdminAssumption, Forms!FormsAssumption
<1>1. CASE Forms!Opens
  <2>1. /\ forms_page' = Forms!Draws /\ forms_asked' = <<>> /\ edits' = 0 /\ forms_saved' = forms_saved
    BY <1>1 DEF Forms!Opens
  <2>2. SavedTypes' /\ \A key : Forms!Given(key)' = Forms!Given(key)
    BY <2>1, SavedStays DEF FormsInv
  <2> DEFINE p == forms_page'
  <2>3. p = Forms!Draws /\ SavedTypes
    BY <2>1 DEF FormsInv
  <2> HIDE DEF p
  <2>4. /\ p \in FormPage /\ Len(p.rows) <= MaxRows /\ \A i \in 1..Len(p.rows) : p.rows[i].at = i
        /\ p.on = Forms!Given("on") /\ p.count = Forms!Given("count") /\ p.tags = Forms!Given("tags")
        /\ Forms!Given("rows") = [i \in DOMAIN p.rows |-> p.rows[i].text]
    BY <2>3, DrawnFits
  <2> DEFINE s == Forms!Runs'
  <2>5. s = [key \in Forms!Keys |-> s[key]] /\ s["on"] = Forms!Given("on")' /\ s["count"] = Forms!Given("count")'
        /\ s["tags"] = Forms!Given("tags")' /\ s["rows"] = Forms!Given("rows")'
    BY DEF Forms!Runs, Forms!Keys
  <2> HIDE DEF s
  <2>6. [on |-> p.on, count |-> p.count, tags |-> p.tags, rows |-> [i \in DOMAIN p.rows |-> p.rows[i].text]] = s
    <3>1. s["on"] = p.on /\ s["count"] = p.count /\ s["tags"] = p.tags
          /\ s["rows"] = [i \in DOMAIN p.rows |-> p.rows[i].text]
      BY <2>2, <2>4, <2>5
    <3> QED BY <3>1, <2>5, SameSettings
  <2>7. (Forms!Shown = Forms!Runs)'
    BY <2>6 DEF Forms!Shown, p, s
  <2>8. p.rows \in Seq(FormRow)
    BY <2>4 DEF FormPage
  <2>9. <<>> \in Seq(Nat) /\ Len(<<>>) = 0 /\ Len(p.rows) \in Nat
    BY <2>8
  <2>10. Len(p.rows) + Len(<<>>) <= MaxRows
    BY <2>4, <2>9, <1>0
  <2>11. DrawerTypesOK' /\ RowsInPlace'
    BY <2>1, <2>4, <2>9, <2>10 DEF DrawerTypesOK, RowsInPlace, p
  <2> QED BY <2>2, <2>7, <2>11 DEF FormsInv
<1>2. CASE Forms!Switches
  <2> DEFINE p == [forms_page EXCEPT !.on = ~@]
  <2>1. forms_page' = p /\ edits' = edits + 1 /\ UNCHANGED <<forms_saved, forms_asked>>
    BY <1>2 DEF Forms!Switches, Forms!Edits
  <2>2. p \in FormPage /\ p.rows = r
    BY <1>0 DEF FormPage
  <2> HIDE DEF p
  <2> QED BY <2>1, <2>2, FieldFits
<1>3. CASE Forms!Types
  <2>1. PICK count \in {Forms!Blank, 1, FormMaximum + 1} : Forms!Edits([forms_page EXCEPT !.count = count])
    BY <1>3 DEF Forms!Types
  <2> DEFINE p == [forms_page EXCEPT !.count = count]
  <2>2. forms_page' = p /\ edits' = edits + 1 /\ UNCHANGED <<forms_saved, forms_asked>>
    BY <1>3, <2>1 DEF Forms!Types, Forms!Edits
  <2>3. count \in Int
    BY AdminAssumption DEF AdminAssumption, Forms!FormsAssumption, Forms!Blank
  <2>4. p \in FormPage /\ p.rows = r
    BY <1>0, <2>3 DEF FormPage
  <2> HIDE DEF p
  <2> QED BY <2>2, <2>4, FieldFits
<1>4. CASE Forms!Ticks
  <2>1. PICK choice \in FormBoxes :
          Forms!Edits([forms_page EXCEPT !.tags = (@ \ {choice}) \cup ({choice} \ @)])
    BY <1>4 DEF Forms!Ticks
  <2> DEFINE t == (forms_page.tags \ {choice}) \cup ({choice} \ forms_page.tags)
             p == [forms_page EXCEPT !.tags = t]
  <2>2. forms_page' = p /\ edits' = edits + 1 /\ UNCHANGED <<forms_saved, forms_asked>>
    BY <1>4, <2>1 DEF Forms!Ticks, Forms!Edits
  <2>3. t \in SUBSET FormBoxes
    BY <1>0 DEF FormPage
  <2> HIDE DEF t
  <2>4. p \in FormPage /\ p.rows = r
    BY <1>0, <2>3 DEF FormPage
  <2> HIDE DEF p
  <2> QED BY <2>2, <2>4, FieldFits
<1>5. CASE Forms!Fills
  <2>1. PICK i \in DOMAIN r, text \in FormTexts : Forms!Edits([forms_page EXCEPT !.rows[i].text = text])
    BY <1>5 DEF Forms!Fills
  <2> DEFINE q == [r EXCEPT ![i] = [r[i] EXCEPT !.text = text]]
  <2>2. forms_page' = [forms_page EXCEPT !.rows = q] /\ edits' = edits + 1 /\ UNCHANGED <<forms_saved, forms_asked>>
    BY <1>5, <2>1, <1>0 DEF Forms!Fills, Forms!Edits
  <2>3. r[i] \in FormRow
    BY <1>0
  <2>4. [r[i] EXCEPT !.text = text] \in FormRow /\ [r[i] EXCEPT !.text = text].at = r[i].at
    BY <2>3 DEF FormRow
  <2>5. q \in Seq(FormRow) /\ Len(q) = Len(r)
    BY <1>0, <2>4
  <2>6. \A k \in 1..Len(q) : q[k].at = k
    BY <1>0, <2>4, <2>5
  <2> HIDE DEF q
  <2> QED BY <1>0, <2>2, <2>5, <2>6, RowsFit
<1>6. CASE Forms!Moves
  <2>1. PICK i \in 2..Len(r) : Forms!Edits([forms_page EXCEPT !.rows =
                                 Forms!Reindexed([@ EXCEPT ![i] = r[i - 1], ![i - 1] = r[i]])])
    BY <1>6 DEF Forms!Moves
  <2> DEFINE z == [r EXCEPT ![i] = r[i - 1], ![i - 1] = r[i]]
             q == Forms!Reindexed(z)
  <2>2. forms_page' = [forms_page EXCEPT !.rows = q] /\ edits' = edits + 1 /\ UNCHANGED <<forms_saved, forms_asked>>
    BY <1>6, <2>1 DEF Forms!Moves, Forms!Edits
  <2>3. r[i] \in FormRow /\ r[i - 1] \in FormRow
    BY <1>0
  <2>4. z \in Seq(FormRow) /\ Len(z) = Len(r)
    BY <1>0, <2>3
  <2> HIDE DEF z
  <2>5. q \in Seq(FormRow) /\ Len(q) = Len(r) /\ \A k \in 1..Len(q) : q[k].at = k
    BY <2>4, RowsReindexed
  <2> HIDE DEF q
  <2>6. edits' \in Nat /\ edits' > 0 /\ forms_asked' \in Seq(Nat) /\ Len(q) + Len(forms_asked') <= MaxRows
    BY <1>0, <2>2, <2>5
  <2> QED BY <2>2, <2>5, <2>6, RowsFit
<1>7. CASE Forms!Removes
  <2>1. PICK i \in DOMAIN r : Forms!Edits([forms_page EXCEPT !.rows = Forms!Reindexed(Forms!RemoveAt(@, i))])
    BY <1>7 DEF Forms!Removes
  <2> DEFINE a == SubSeq(r, 1, i - 1)
             b == SubSeq(r, i + 1, Len(r))
             z == a \o b
             q == Forms!Reindexed(z)
  <2>2. forms_page' = [forms_page EXCEPT !.rows = q] /\ edits' = edits + 1 /\ UNCHANGED <<forms_saved, forms_asked>>
    BY <1>7, <2>1 DEF Forms!Removes, Forms!Edits, Forms!RemoveAt
  <2>3. a \in Seq(FormRow) /\ Len(a) = i - 1
    BY <1>0, SubSeqProperties
  <2>4. b \in Seq(FormRow) /\ Len(b) = Len(r) - i
    BY <1>0, SubSeqProperties
  <2> HIDE DEF a, b
  <2>5. z \in Seq(FormRow) /\ Len(z) = Len(r) - 1
    <3>1. z \in Seq(FormRow) /\ Len(z) = Len(a) + Len(b)
      BY <2>3, <2>4, ConcatProperties
    <3>2. i \in Int /\ Len(r) \in Int
      BY <1>0
    <3> HIDE DEF z
    <3> QED BY <2>3, <2>4, <3>1, <3>2
  <2> HIDE DEF z
  <2>6. q \in Seq(FormRow) /\ Len(q) = Len(r) - 1 /\ \A k \in 1..Len(q) : q[k].at = k
    BY <2>5, RowsReindexed
  <2> HIDE DEF q
  <2>7. edits' \in Nat /\ edits' > 0 /\ forms_asked' \in Seq(Nat) /\ Len(q) + Len(forms_asked') <= MaxRows
    BY <1>0, <2>2, <2>6
  <2> QED BY <2>2, <2>6, <2>7, RowsFit
<1>8. CASE Forms!Adds
  <2>1. /\ Len(r) + Len(forms_asked) < MaxRows /\ forms_page' = forms_page /\ edits' = edits + 1
        /\ forms_asked' = Append(forms_asked, Len(r) + 1) /\ forms_saved' = forms_saved
    BY <1>8 DEF Forms!Adds, Forms!Edits
  <2>2. forms_asked' \in Seq(Nat) /\ Len(forms_asked') = Len(forms_asked) + 1
    BY <1>0, <2>1
  <2>3. forms_page' = [forms_page EXCEPT !.rows = r]
    BY <1>0, <2>1 DEF FormPage
  <2> HIDE DEF r
  <2>4. edits' \in Nat /\ edits' > 0 /\ Len(r) + Len(forms_asked') <= MaxRows
    <3>1. edits' = edits + 1 /\ edits \in Nat
      BY <1>0, <2>1
    <3>2. Len(r) \in Nat /\ Len(forms_asked) \in Nat /\ MaxRows \in Nat /\ Len(r) + Len(forms_asked) < MaxRows
      BY <1>0, <2>1
    <3>3. Len(forms_asked') = Len(forms_asked) + 1
      BY <2>2
    <3> QED BY <3>1, <3>2, <3>3
  <2>5. forms_page' = [forms_page EXCEPT !.rows = r] /\ r \in Seq(FormRow) /\ \A k \in 1..Len(r) : r[k].at = k
    BY <1>0, <2>3
  <2> QED BY <2>1, <2>2, <2>4, <2>5, RowsFit
<1>9. CASE Forms!Arrives
  <2> DEFINE z == Append(r, [at |-> Head(forms_asked), text |-> Forms!NoText])
             q == Forms!Reindexed(z)
  <2>1. /\ forms_asked # <<>> /\ forms_page' = [forms_page EXCEPT !.rows = q] /\ forms_asked' = Tail(forms_asked)
        /\ edits' = (IF edits = 0 THEN 1 ELSE edits) /\ forms_saved' = forms_saved
    BY <1>9 DEF Forms!Arrives
  <2>2. forms_asked' \in Seq(Nat) /\ Len(forms_asked') = Len(forms_asked) - 1 /\ Head(forms_asked) \in Nat
    BY <1>0, <2>1
  <2>3. [at |-> Head(forms_asked), text |-> Forms!NoText] \in FormRow
    BY <2>2 DEF FormRow
  <2>4. z \in Seq(FormRow) /\ Len(z) = Len(r) + 1
    BY <1>0, <2>3, AppendProperties
  <2> HIDE DEF z
  <2>5. q \in Seq(FormRow) /\ Len(q) = Len(r) + 1 /\ \A k \in 1..Len(q) : q[k].at = k
    BY <2>4, RowsReindexed
  <2> HIDE DEF q
  <2>6. edits' \in Nat /\ edits' > 0 /\ Len(q) + Len(forms_asked') <= MaxRows
    BY <1>0, <2>1, <2>2, <2>5
  <2> QED BY <2>1, <2>2, <2>5, <2>6, RowsFit
<1>10. CASE Forms!Saves
  <2>1. forms_saved' = Forms!Parsed /\ edits' = 0 /\ UNCHANGED <<forms_page, forms_asked>>
    BY <1>10 DEF Forms!Saves
  <2>2. /\ forms_saved' = [key \in Forms!Keys |-> forms_saved'[key]]
        /\ Forms!Given("on")' = forms_page.on /\ Forms!Given("count")' = forms_page.count
        /\ Forms!Given("tags")' = forms_page.tags
        /\ Forms!Given("rows")' = [i \in DOMAIN forms_page.rows |-> forms_page.rows[i].text]
    BY <2>1, SavedIsShown
  <2> DEFINE texts == [i \in DOMAIN r |-> r[i].text]
  <2>3. texts \in Seq(FormTexts \cup {Forms!NoText}) /\ Len(texts) = Len(r)
    <3>1. ASSUME NEW i \in 1..Len(r) PROVE r[i].text \in FormTexts \cup {Forms!NoText}
      <4>1. r[i] \in FormRow
        BY <1>0
      <4> QED BY <4>1 DEF FormRow
    <3> QED BY <3>1, <1>0
  <2>4. SavedTypes'
    <3>1. forms_page.on \in BOOLEAN /\ forms_page.count \in Int /\ forms_page.tags \subseteq FormBoxes
      BY <1>0 DEF FormPage
    <3> HIDE DEF texts
    <3>2. Forms!Given("rows")' = texts /\ Len(texts) <= MaxRows
      BY <1>0, <2>2, <2>3 DEF texts
    <3> QED BY <3>1, <3>2, <2>2, <2>3 DEF SavedTypes
  <2>5. DrawerTypesOK' /\ RowsInPlace'
    BY <1>0, <2>1 DEF DrawerTypesOK, RowsInPlace
  <2> DEFINE s == Forms!Runs'
             p == forms_page
  <2>6. s = [key \in Forms!Keys |-> s[key]] /\ s["on"] = Forms!Given("on")' /\ s["count"] = Forms!Given("count")'
        /\ s["tags"] = Forms!Given("tags")' /\ s["rows"] = Forms!Given("rows")'
    BY DEF Forms!Runs, Forms!Keys
  <2> HIDE DEF s
  <2>7. [on |-> p.on, count |-> p.count, tags |-> p.tags, rows |-> [i \in DOMAIN p.rows |-> p.rows[i].text]] = s
    <3>1. s["on"] = p.on /\ s["count"] = p.count /\ s["tags"] = p.tags
          /\ s["rows"] = [i \in DOMAIN p.rows |-> p.rows[i].text]
      BY <2>2, <2>6
    <3> QED BY <3>1, <2>6, SameSettings
  <2>8. (Forms!Shown = Forms!Runs)'
    BY <2>1, <2>7 DEF Forms!Shown, s
  <2> QED BY <2>4, <2>5, <2>8 DEF FormsInv
<1>11. CASE Forms!Refused \/ UNCHANGED FormsVars
  <2>1. UNCHANGED <<forms_saved, forms_page, forms_asked, edits, forms_stale>>
    BY <1>11 DEF Forms!Refused, Forms!vars, FormsVars
  <2>2. SavedTypes' /\ \A key : Forms!Given(key)' = Forms!Given(key)
    BY <2>1, SavedStays DEF FormsInv
  <2> QED BY <2>1, <2>2 DEF FormsInv, DrawerTypesOK, RowsInPlace, Forms!Shown, Forms!Runs
<1>12. CASE Forms!Toggles
  <2>1. /\ forms_saved' = [forms_saved EXCEPT !["on"] = Forms!Value(~Forms!Given("on"))] /\ forms_stale' = TRUE
        /\ UNCHANGED <<forms_page, forms_asked, edits>>
    BY <1>12 DEF Forms!Toggles
  <2>2. forms_saved = [key \in Forms!Keys |-> forms_saved[key]]
    BY DEF FormsInv, SavedTypes
  <2>3. /\ forms_saved' = [key \in Forms!Keys |-> forms_saved'[key]]
        /\ forms_saved'["on"] = Forms!Value(~Forms!Given("on"))
        /\ \A key \in {"count", "tags", "rows"} : forms_saved'[key] = forms_saved[key]
    BY <2>1, <2>2 DEF Forms!Keys
  <2>4. Forms!Given("on")' = ~Forms!Given("on")
    BY <2>3, FormValues DEF Forms!Given
  <2>5. \A key \in {"count", "tags", "rows"} : Forms!Given(key)' = Forms!Given(key)
    BY <2>3 DEF Forms!Given
  <2>6. SavedTypes'
    BY <2>3, <2>4, <2>5 DEF FormsInv, SavedTypes
  <2> QED BY <2>1, <2>6 DEF FormsInv, DrawerTypesOK, RowsInPlace
<1> QED BY <1>1, <1>2, <1>3, <1>4, <1>5, <1>6, <1>7, <1>8, <1>9, <1>10, <1>11, <1>12 DEF Forms!Next

(* A page just drawn or saved shows what the instance runs with, for a schema whose lists are empty by default: with
   others an emptied list comes back. *)
THEOREM ShownAlwaysSaved == ASSUME FormRows.rows = <<>> PROVE Spec => []ShownIsSaved
<1> DEFINE I == part = "forms" => FormsInv
<1>1. Init => I
  BY FormsInit DEF Init
<1>2. I /\ [Next]_vars => I'
  BY StepOfPart, FormsStep
<1>3. I => ShownIsSaved
  BY DEF FormsInv, ShownIsSaved, Forms!ShownIsSaved
<1> QED BY <1>1, <1>2, <1>3, PTL DEF Spec

-----------------------------------------------------------------------------
(* Inputs.                                                                  *)

Gestures == {"single", "double", "triple", "long"}
Since(t) == inputs_now - t

Classifier == [count : Nat, down : 0..Horizon, lastdown : 0..Horizon, lastup : 0..Horizon, fired : BOOLEAN]

InputTimes ==
  /\ inputs_now \in 0..Horizon
  /\ finger \in [down : BOOLEAN, at : 0..Horizon, held : 0..Horizon]
  /\ contact \in [closed : BOOLEAN, at : 0..Horizon]
  /\ button \in Classifier
  /\ polls \subseteq Nat
InputTypes ==
  /\ kernel \in Seq(BOOLEAN) /\ told \in Seq(Gestures)
  /\ hand \in [shorts : Nat, made : Seq(Gestures), mine : BOOLEAN] /\ opened \in BOOLEAN
MayInv == /\ inputs_may \in [{"presses", "bounces", "strays", "stalls", "motions", "restarts"} -> Nat]
          /\ inputs_may["strays"] = 0 /\ inputs_may["stalls"] = 0
MotionInv == /\ there \in [Sensors -> BOOLEAN] /\ presence \in [Sensors -> BOOLEAN] /\ seen \subseteq Sensors
             /\ Inputs!PresenceIsTrue /\ (~opened => seen = {})

\* The contact's events alternate, the last one is what it is now; what the app takes it to be is what it was before
\* the events that nobody read.
Alternates(events, closed) ==
  \A i \in 1..Len(events) : events[i] = IF i = Len(events) THEN closed ELSE ~events[i + 1]
Before(events, closed) == IF events = <<>> THEN closed ELSE ~Head(events)
Heard == Before(kernel, contact.closed)

\* The contact follows the finger, and what the app hasn't read or told happened just now.
ContactInv ==
  /\ contact.at <= inputs_now /\ finger.at <= inputs_now /\ (finger.down => finger.at > 0)
  /\ contact.closed # finger.down => Since(contact.at) < Bounce /\ Since(finger.at) < Bounce
  /\ kernel # <<>> => opened /\ contact.at = inputs_now /\ Since(finger.at) < Bounce
  /\ Alternates(kernel, contact.closed)
  /\ \A t \in polls : t >= inputs_now

\* Where a gesture is, from the finger to what is told.
Untouched == /\ ~hand.mine /\ hand.shorts = 0 /\ button.count = 0 /\ button.down = Inputs!None /\ told = hand.made
             /\ ~opened => kernel = <<>> /\ polls = {}
             /\ opened => contact.closed = finger.down /\ Len(kernel) <= 1 /\ (finger.down => Since(finger.at) >= Bounce)
PressComing == /\ ~Heard /\ kernel # <<>> /\ finger.at = inputs_now
               /\ button.down = Inputs!None /\ button.count = hand.shorts /\ told = hand.made
               /\ button.count > 0 => Since(button.lastup) >= Bounce
PressHeard == /\ Heard /\ button.down = finger.at
              /\ IF button.fired
                   THEN button.count = 0 /\ told = Append(hand.made, "long") /\ Since(finger.at) >= Long
                   ELSE /\ button.count = hand.shorts /\ told = hand.made
                        /\ Since(finger.at) <= Long /\ finger.at + Long \in polls
PressLost == /\ ~Heard /\ button.down = Inputs!None /\ button.lastdown = finger.at
             /\ button.count = hand.shorts + 1 /\ told = hand.made
             /\ finger.at <= button.lastup /\ button.lastup <= inputs_now /\ finger.at + Long \in polls
Pressed == finger.down /\ (PressComing \/ PressHeard \/ PressLost)

LongComing == /\ Heard /\ Len(kernel) = 1 /\ finger.at = inputs_now /\ button.down = finger.at - finger.held
              /\ IF button.fired THEN button.count = 0 /\ told = hand.made ELSE hand.made = Append(told, "long")
LongDone == ~Heard /\ kernel = <<>> /\ button.down = Inputs!None /\ button.count = 0 /\ told = hand.made
LongReleased == finger.held >= Long /\ hand.shorts = 0 /\ (LongComing \/ LongDone)

ShortComing == /\ Heard /\ button.down = finger.at - finger.held /\ ~button.fired
               /\ hand.shorts = button.count + 1 /\ told = hand.made
ShortHeard == /\ ~Heard /\ button.down = Inputs!None /\ button.lastdown = finger.at - finger.held
              /\ button.count = hand.shorts /\ hand.shorts > 0 /\ told = hand.made
              /\ finger.at <= button.lastup /\ button.lastup < finger.at + Bounce /\ button.lastup <= contact.at
              /\ button.lastup + PressWindow >= inputs_now /\ button.lastup + PressWindow \in polls
ShortTold == /\ ~Heard /\ kernel = <<>> /\ button.down = Inputs!None /\ button.count = 0
             /\ Since(finger.at) >= PressWindow
             /\ IF hand.shorts = 0 THEN told = hand.made
                ELSE Since(finger.at) <= PressWindow + Bounce /\ told = Append(hand.made, Inputs!Kind(hand.shorts))
ShortReleased == finger.held < Long - Bounce /\ (ShortComing \/ ShortHeard \/ ShortTold)
Released == ~finger.down /\ finger.held < finger.at /\ (LongReleased \/ ShortReleased)

Gesture == Untouched \/ (opened /\ hand.mine /\ (Pressed \/ Released))
InputsInv == InputTimes /\ InputTypes /\ MayInv /\ MotionInv /\ ContactInv /\ Gesture
LEMMA InputNumbers == /\ Bounce \in Nat /\ PressWindow \in Nat /\ Long \in Nat /\ Horizon \in Nat /\ Bounce > 1
                      /\ Bounce < PressWindow /\ PressWindow < Long /\ Bounce < Horizon
BY AdminAssumption DEF AdminAssumption, Inputs!InputsAssumption

(* The contact moves: another event, and the app's view is as it was. *)
LEMMA OneMoreEvent ==
  ASSUME NEW events \in Seq(BOOLEAN), NEW closed \in BOOLEAN, Alternates(events, closed)
  PROVE  LET more == Append(events, ~closed)
         IN  /\ more \in Seq(BOOLEAN) /\ Len(more) = Len(events) + 1 /\ more # <<>>
             /\ Alternates(more, ~closed) /\ Before(more, ~closed) = Before(events, closed)
<1> DEFINE more == Append(events, ~closed)
<1>1. /\ more \in Seq(BOOLEAN) /\ Len(more) = Len(events) + 1 /\ more # <<>> /\ more[Len(events) + 1] = ~closed
      /\ \A i \in 1..Len(events) : more[i] = events[i]
  OBVIOUS
<1> HIDE DEF more
<1>2. Alternates(more, ~closed)
  <2> SUFFICES ASSUME NEW i \in 1..Len(more)
               PROVE  more[i] = IF i = Len(more) THEN ~closed ELSE ~more[i + 1]
    BY DEF Alternates
  <2>1. CASE i = Len(more) BY <2>1, <1>1
  <2>2. CASE i = Len(events) /\ i # Len(more)
    <3>1. events[i] = closed BY <2>2, <1>1 DEF Alternates
    <3> QED BY <3>1, <2>2, <1>1
  <2>3. CASE i < Len(events)
    <3>1. events[i] = ~events[i + 1] BY <2>3, <1>1 DEF Alternates
    <3>2. more[i] = events[i] /\ more[i + 1] = events[i + 1] BY <2>3, <1>1
    <3> QED BY <3>1, <3>2, <2>3, <1>1
  <2> QED BY <2>1, <2>2, <2>3, <1>1
<1>3. Before(more, ~closed) = Before(events, closed)
  <2>1. CASE events = <<>>
    <3>1. Head(more) = ~closed BY <2>1, <1>1
    <3> QED BY <3>1, <2>1, <1>1 DEF Before
  <2>2. CASE events # <<>>
    <3>1. Head(more) = Head(events) BY <2>2, <1>1
    <3> QED BY <3>1, <2>2, <1>1 DEF Before
  <2> QED BY <2>1, <2>2
<1> QED BY <1>1, <1>2, <1>3 DEF more

(* The app reads one: it now knows of what came with it. *)
LEMMA OneEventLess ==
  ASSUME NEW events \in Seq(BOOLEAN), NEW closed \in BOOLEAN, Alternates(events, closed), events # <<>>
  PROVE  /\ Tail(events) \in Seq(BOOLEAN) /\ Len(Tail(events)) = Len(events) - 1 /\ Len(events) \in Nat \ {0}
         /\ Tail(events) = <<>> <=> Len(events) = 1
         /\ Alternates(Tail(events), closed) /\ Head(events) \in BOOLEAN
         /\ Before(Tail(events), closed) = Head(events) /\ Before(events, closed) = ~Head(events)
<1> DEFINE rest == Tail(events)
<1>1. rest \in Seq(BOOLEAN) /\ Head(events) \in BOOLEAN BY HeadTailProperties
<1>2. /\ Len(rest) = Len(events) - 1 /\ Len(events) \in Nat \ {0} /\ Head(events) = events[1]
      /\ \A i \in 1..Len(rest) : rest[i] = events[i + 1]
  OBVIOUS
<1> HIDE DEF rest
<1>3. rest = <<>> <=> Len(events) = 1 BY <1>1, <1>2
<1>4. Alternates(rest, closed)
  <2> SUFFICES ASSUME NEW i \in 1..Len(rest)
               PROVE  rest[i] = IF i = Len(rest) THEN closed ELSE ~rest[i + 1]
    BY DEF Alternates
  <2>1. events[i + 1] = IF i + 1 = Len(events) THEN closed ELSE ~events[i + 2] BY <1>2 DEF Alternates
  <2>2. i # Len(rest) => rest[i + 1] = events[i + 2] BY <1>2
  <2> QED BY <2>1, <2>2, <1>2
<1>5. Before(rest, closed) = Head(events)
  <2>1. events[1] = IF 1 = Len(events) THEN closed ELSE ~events[2] BY <1>2 DEF Alternates
  <2>2. rest # <<>> => Head(rest) = events[2] BY <1>1, <1>2
  <2> QED BY <2>1, <2>2, <1>2, <1>3 DEF Before
<1>6. Before(events, closed) = ~Head(events) BY DEF Before
<1> QED BY <1>1, <1>2, <1>3, <1>4, <1>5, <1>6 DEF rest

(* What a scene has none of doesn't happen. *)
LEMMA InputHappens ==
  ASSUME MayInv, NEW what \in {"presses", "bounces", "strays", "stalls", "motions", "restarts"}, Inputs!Happens(what)
  PROVE  MayInv' /\ what # "strays" /\ what # "stalls"
BY DEF MayInv, Inputs!Happens

(* Nothing is unread once the contact has been at rest for as long as it bounces. *)
LEMMA AllRead ==
  ASSUME InputTimes, ContactInv, inputs_now - contact.at >= Bounce
  PROVE  kernel = <<>> /\ Heard = contact.closed
<1>1. contact.at # inputs_now BY InputNumbers DEF InputTimes
<1> QED BY <1>1 DEF ContactInv, Heard, Before

(* A single event is what the contact is now. *)
LEMMA SingleEvent == ASSUME InputTypes, InputTimes, ContactInv, Len(kernel) = 1
                     PROVE  kernel # <<>> /\ Heard = ~contact.closed
<1>1. kernel \in Seq(BOOLEAN) /\ Len(<<>>) = 0 BY DEF InputTypes
<1>2. kernel # <<>>
  <2>1. kernel = <<>> => Len(kernel) = Len(<<>>) OBVIOUS
  <2> QED BY <2>1, <1>1
<1>3. Head(kernel) = kernel[1] BY <1>1, <1>2
<1>4. kernel[1] = contact.closed BY DEF ContactInv, Alternates
<1> QED BY <1>2, <1>3, <1>4 DEF Heard, Before

LEMMA ContactFlips ==
  ASSUME InputTimes, InputTypes, ContactInv, Inputs!Flips, UNCHANGED <<inputs_now, opened>>
  PROVE  /\ contact' = [closed |-> ~contact.closed, at |-> inputs_now] /\ contact' \in [closed : BOOLEAN, at : 0..Horizon]
         /\ contact'.closed = ~contact.closed /\ contact'.at = inputs_now
         /\ kernel' \in Seq(BOOLEAN) /\ Alternates(kernel', contact'.closed)
         /\ opened => kernel' # <<>> /\ Len(kernel') = Len(kernel) + 1 /\ Heard' = Heard
         /\ ~opened => kernel' = <<>> /\ kernel = <<>>
<1>1. /\ contact' = [closed |-> ~contact.closed, at |-> inputs_now] /\ contact' \in [closed : BOOLEAN, at : 0..Horizon]
      /\ contact'.closed = ~contact.closed /\ contact'.at = inputs_now /\ contact.closed \in BOOLEAN
  BY DEF Inputs!Flips, InputTimes
<1>2. CASE opened
  <2>1. kernel' = Append(kernel, ~contact.closed) BY <1>2 DEF Inputs!Flips
  <2>2. kernel \in Seq(BOOLEAN) /\ Alternates(kernel, contact.closed) BY DEF InputTypes, ContactInv
  <2> QED BY <1>1, <1>2, <2>1, <2>2, OneMoreEvent DEF Heard
<1>3. CASE ~opened
  <2>1. kernel' = kernel /\ kernel = <<>> BY <1>3 DEF Inputs!Flips, ContactInv
  <2> QED BY <1>1, <1>3, <2>1 DEF Alternates
<1> QED BY <1>2, <1>3 DEF InputTypes

(* The app takes a closing for a press, or for a bounce of the last release. *)
LEMMA Downs ==
  ASSUME NEW b \in Classifier, inputs_now \in 0..Horizon
  PROVE  LET d == Inputs!Down(b)
         IN  /\ d \in Classifier /\ ~d.fired
             /\ IF b.count > 0 /\ inputs_now - b.lastup < Bounce
                  THEN d.count = b.count - 1 /\ d.down = b.lastdown ELSE d.count = b.count /\ d.down = inputs_now
<1>1. /\ b.count \in Nat /\ b.down \in 0..Horizon /\ b.lastdown \in 0..Horizon /\ b.lastup \in 0..Horizon
      /\ b = [count |-> b.count, down |-> b.down, lastdown |-> b.lastdown, lastup |-> b.lastup, fired |-> b.fired]
  BY DEF Classifier
<1>2. CASE b.count > 0 /\ inputs_now - b.lastup < Bounce
  <2>1. Inputs!Down(b) = [b EXCEPT !.count = b.count - 1, !.down = b.lastdown, !.fired = FALSE] BY <1>2 DEF Inputs!Down
  <2>2. b.count - 1 \in Nat BY <1>1, <1>2
  <2> QED BY <1>1, <1>2, <2>1, <2>2 DEF Classifier
<1>3. CASE ~(b.count > 0 /\ inputs_now - b.lastup < Bounce)
  <2>1. Inputs!Down(b) = [b EXCEPT !.count = b.count, !.down = inputs_now, !.fired = FALSE] BY <1>3 DEF Inputs!Down
  <2> QED BY <1>1, <1>3, <2>1 DEF Classifier
<1> QED BY <1>2, <1>3

(* An opening ends a press: a long one, also one that was told already, or one more short one. *)
LEMMA Ups ==
  ASSUME NEW b \in Classifier, inputs_now \in 0..Horizon, b.down # Inputs!None
  PROVE  LET u == Inputs!Up(b)
         IN  /\ u \in Classifier /\ u.down = Inputs!None /\ u.lastdown = b.down
             /\ b.fired => u.count = b.count /\ Inputs!UpTells(b) = <<>>
             /\ ~b.fired /\ inputs_now - b.down >= Long => u.count = 0 /\ Inputs!UpTells(b) = <<"long">>
             /\ ~b.fired /\ inputs_now - b.down < Long =>
                  u.count = b.count + 1 /\ u.lastup = inputs_now /\ Inputs!UpTells(b) = <<>>
<1> USE InputNumbers
<1>1. /\ b.count \in Nat /\ b.down \in 0..Horizon /\ b.lastdown \in 0..Horizon /\ b.lastup \in 0..Horizon
      /\ b.fired \in BOOLEAN /\ b.count + 1 \in Nat /\ Inputs!None \in 0..Horizon
      /\ b = [count |-> b.count, down |-> b.down, lastdown |-> b.lastdown, lastup |-> b.lastup, fired |-> b.fired]
  BY DEF Classifier, Inputs!None
<1>2. CASE b.fired
  <2>1. /\ Inputs!Up(b) = [count |-> b.count, down |-> Inputs!None, lastdown |-> b.down, lastup |-> b.lastup,
                           fired |-> b.fired]
        /\ Inputs!UpTells(b) = <<>>
    BY <1>1, <1>2 DEF Inputs!Up, Inputs!UpTells
  <2> QED BY <1>1, <1>2, <2>1 DEF Classifier
<1>3. CASE ~b.fired /\ inputs_now - b.down >= Long
  <2>1. /\ Inputs!Up(b) = [count |-> 0, down |-> Inputs!None, lastdown |-> b.down, lastup |-> b.lastup,
                           fired |-> b.fired]
        /\ Inputs!UpTells(b) = <<"long">>
    BY <1>1, <1>3 DEF Inputs!Up, Inputs!UpTells
  <2> QED BY <1>1, <1>3, <2>1 DEF Classifier
<1>4. CASE ~b.fired /\ ~(inputs_now - b.down >= Long)
  <2>1. /\ Inputs!Up(b) = [count |-> b.count + 1, down |-> Inputs!None, lastdown |-> b.down, lastup |-> inputs_now,
                           fired |-> b.fired]
        /\ Inputs!UpTells(b) = <<>>
    BY <1>1, <1>4 DEF Inputs!Up, Inputs!UpTells
  <2> QED BY <1>1, <1>4, <2>1 DEF Classifier
<1> QED BY <1>1, <1>2, <1>3, <1>4

LEMMA PressesStep == ASSUME InputsInv, Inputs!Presses PROVE InputsInv'
<1> USE InputNumbers DEF InputsInv
<1>1. /\ ~finger.down /\ ~contact.closed /\ inputs_now - contact.at >= Bounce /\ Inputs!Happens("presses") /\ Inputs!Flips
      /\ hand.shorts > 0 => Inputs!ClearGap(inputs_now - finger.at)
      /\ UNCHANGED <<inputs_now, button, polls, told, there, presence, seen, opened>>
  BY DEF Inputs!Presses, Inputs!classifier, Inputs!motion, InputTimes
<1>2. /\ finger' \in [down : BOOLEAN, at : 0..Horizon, held : 0..Horizon] /\ finger'.down /\ finger'.at = inputs_now
      /\ hand' \in [shorts : Nat, made : Seq(Gestures), mine : BOOLEAN]
      /\ hand'.shorts = hand.shorts /\ hand'.made = hand.made /\ hand'.mine = opened
  BY DEF Inputs!Presses, InputTimes, InputTypes
<1>3. kernel = <<>> /\ Heard = FALSE BY <1>1, AllRead
<1>4. MayInv' BY <1>1, InputHappens
<1>5. MotionInv' BY <1>1 DEF MotionInv, Inputs!PresenceIsTrue
<1>6. /\ contact' \in [closed : BOOLEAN, at : 0..Horizon] /\ contact'.closed /\ contact'.at = inputs_now
      /\ kernel' \in Seq(BOOLEAN) /\ Alternates(kernel', contact'.closed)
      /\ opened => kernel' # <<>> /\ ~Heard'
      /\ ~opened => kernel' = <<>>
  BY <1>1, <1>3, ContactFlips
<1>7. InputTimes' /\ InputTypes' BY <1>1, <1>2, <1>6 DEF InputTimes, InputTypes
<1>8. ContactInv'
  <2>1. contact'.at <= inputs_now' /\ finger'.at <= inputs_now' /\ (finger'.down => finger'.at > 0)
    BY <1>1, <1>2, <1>6 DEF ContactInv, InputTimes
  <2>2. /\ contact'.closed = finger'.down
        /\ kernel' # <<>> => opened' /\ contact'.at = inputs_now' /\ inputs_now' - finger'.at < Bounce
    BY <1>1, <1>2, <1>6 DEF InputTimes
  <2>3. \A t \in polls' : t >= inputs_now' BY <1>1 DEF ContactInv
  <2> QED BY <2>1, <2>2, <2>3, <1>6 DEF ContactInv, Since
<1>9. Gesture'
  <2>1. CASE Untouched BY <2>1, <1>1, <1>2, <1>3, <1>6 DEF Untouched, Gesture, Pressed, PressComing, InputTypes, Since
  <2>2. CASE opened /\ hand.mine /\ Released
    <3>1. button.down = Inputs!None /\ button.count = hand.shorts /\ told = hand.made
          /\ (button.count > 0 => Since(button.lastup) >= Bounce)
      <4>1. CASE LongReleased BY <4>1, <1>3 DEF LongReleased, LongComing, LongDone
      <4>2. CASE ShortHeard BY <4>2, <1>1 DEF ShortHeard, Since, InputTimes, Classifier
      <4>3. CASE ShortTold BY <4>3, <1>1 DEF ShortTold, Since, InputTimes, InputTypes, Inputs!ClearGap
      <4> QED BY <2>2, <4>1, <4>2, <4>3, <1>3 DEF Released, ShortReleased, ShortComing
    <3> QED BY <3>1, <2>2, <1>1, <1>2, <1>6 DEF Gesture, Pressed, PressComing, Since
  <2> QED BY <1>1, <2>1, <2>2 DEF Gesture, Pressed
<1> QED BY <1>4, <1>5, <1>7, <1>8, <1>9

LEMMA ReleasesStep == ASSUME InputsInv, Inputs!Releases PROVE InputsInv'
<1> USE InputNumbers DEF InputsInv
<1>1. /\ finger.down /\ contact.closed /\ inputs_now - contact.at >= Bounce /\ Inputs!Flips
      /\ Inputs!ClearHold(inputs_now - finger.at)
      /\ UNCHANGED <<inputs_now, button, polls, told, there, presence, seen, opened, inputs_may>>
  BY DEF Inputs!Releases, Inputs!classifier, Inputs!motion
<1>2. /\ finger' \in [down : BOOLEAN, at : 0..Horizon, held : 0..Horizon]
      /\ ~finger'.down /\ finger'.at = inputs_now /\ finger'.held = inputs_now - finger.at /\ finger'.held < finger'.at
  BY DEF Inputs!Releases, InputTimes, ContactInv
<1>3. kernel = <<>> /\ Heard = TRUE BY <1>1, AllRead
<1>4. MayInv' BY <1>1 DEF MayInv
<1>5. MotionInv' BY <1>1 DEF MotionInv, Inputs!PresenceIsTrue
<1>6. /\ contact' \in [closed : BOOLEAN, at : 0..Horizon] /\ ~contact'.closed /\ contact'.at = inputs_now
      /\ kernel' \in Seq(BOOLEAN) /\ Alternates(kernel', contact'.closed)
      /\ opened => kernel' # <<>> /\ Len(kernel') = 1 /\ Heard'
      /\ ~opened => kernel' = <<>>
  <2>1. Len(kernel) = 0 BY <1>3
  <2>2. opened => Len(kernel') = 1 /\ kernel' # <<>> BY <2>1, <1>1, ContactFlips
  <2>3. opened => Heard' = TRUE BY <1>1, <1>3, ContactFlips
  <2> QED BY <2>2, <2>3, <1>1, ContactFlips
<1>7. hand' \in [shorts : Nat, made : Seq(Gestures), mine : BOOLEAN] /\ hand'.mine = hand.mine
  <2>1. "long" \in Gestures BY DEF Gestures
  <2>2. Append(hand.made, "long") \in Seq(Gestures) BY <2>1 DEF InputTypes
  <2>3. CASE ~hand.mine BY <2>3 DEF Inputs!Releases, InputTypes
  <2>4. CASE hand.mine /\ inputs_now - finger.at >= Long BY <2>2, <2>4 DEF Inputs!Releases, InputTypes
  <2>5. CASE hand.mine /\ ~(inputs_now - finger.at >= Long)
    <3>1. hand' = [hand EXCEPT !.shorts = @ + 1] BY <2>5 DEF Inputs!Releases
    <3>2. hand.shorts + 1 \in Nat BY DEF InputTypes
    <3> QED BY <3>1, <3>2 DEF InputTypes
  <2> QED BY <2>3, <2>4, <2>5
<1>8. InputTimes' /\ InputTypes' BY <1>1, <1>2, <1>6, <1>7 DEF InputTimes, InputTypes
<1>9. ContactInv'
  <2>1. contact'.at <= inputs_now' /\ finger'.at <= inputs_now' /\ (finger'.down => finger'.at > 0)
    BY <1>1, <1>2, <1>6 DEF ContactInv, InputTimes
  <2>2. /\ contact'.closed = finger'.down
        /\ kernel' # <<>> => opened' /\ contact'.at = inputs_now' /\ inputs_now' - finger'.at < Bounce
    BY <1>1, <1>2, <1>6 DEF InputTimes
  <2>3. \A t \in polls' : t >= inputs_now' BY <1>1 DEF ContactInv
  <2> QED BY <2>1, <2>2, <2>3, <1>6 DEF ContactInv, Since
<1>10. Gesture'
  <2>1. CASE ~hand.mine
    <3>1. hand' = hand BY <2>1 DEF Inputs!Releases
    <3>2. Untouched BY <2>1 DEF Gesture
    <3>3. Len(kernel') <= 1
      <4>1. CASE opened
        <5>1. Len(kernel') = 1 BY <4>1, <1>6
        <5> QED BY <5>1
      <4>2. CASE ~opened
        <5>1. kernel' = <<>> BY <4>2, <1>6
        <5> QED BY <5>1
      <4> QED BY <4>1, <4>2
    <3> QED BY <2>1, <3>1, <3>2, <3>3, <1>1, <1>2, <1>6 DEF Untouched, Gesture
  <2>2. CASE hand.mine
    <3>1. opened /\ PressHeard BY <2>2, <1>1, <1>3 DEF Gesture, Untouched, Pressed, Released, PressComing, PressLost
    <3>2. CASE finger'.held >= Long
      <4>1. hand'.shorts = 0 /\ hand'.made = Append(hand.made, "long") BY <2>2, <3>2, <1>2 DEF Inputs!Releases, InputTypes
      <4>2. button'.down = finger'.at - finger'.held BY <3>1, <1>1, <1>2 DEF PressHeard, InputTimes
      <4>3. IF button'.fired THEN button'.count = 0 /\ told' = hand'.made ELSE hand'.made = Append(told', "long")
        BY <3>1, <4>1, <1>1 DEF PressHeard
      <4>4. LongComing' BY <3>1, <4>2, <4>3, <1>1, <1>2, <1>6 DEF LongComing
      <4> QED BY <3>1, <3>2, <4>1, <4>4, <1>1, <1>2, <1>7, <2>2 DEF Gesture, Released, LongReleased
    <3>3. CASE finger'.held < Long - Bounce
      <4>1. hand'.shorts = hand.shorts + 1 /\ hand'.made = hand.made BY <2>2, <3>3, <1>2 DEF Inputs!Releases, InputTypes
      <4>2. ShortComing' BY <3>1, <3>3, <4>1, <1>1, <1>2, <1>6 DEF PressHeard, ShortComing, Since, InputTimes, Classifier
      <4> QED BY <3>1, <3>3, <4>2, <1>1, <1>2, <1>7, <2>2 DEF Gesture, Released, ShortReleased
    <3> QED BY <3>2, <3>3, <1>1, <1>2 DEF Inputs!ClearHold
  <2> QED BY <2>1, <2>2
<1> QED BY <1>4, <1>5, <1>8, <1>9, <1>10

LEMMA BouncesStep == ASSUME InputsInv, Inputs!Bounces PROVE InputsInv'
<1> USE InputNumbers DEF InputsInv
<1>1. /\ inputs_now - finger.at < Bounce /\ Inputs!Flips
      /\ UNCHANGED <<inputs_now, finger, hand, button, polls, told, there, presence, seen, opened>>
  BY DEF Inputs!Bounces, Inputs!classifier, Inputs!motion
<1>2. MayInv' /\ (contact.closed = finger.down => ~Inputs!NotCounted)
  <2>1. CASE contact.closed = finger.down
    <3>1. Inputs!Happens(IF Inputs!NotCounted THEN "strays" ELSE "bounces") BY <2>1 DEF Inputs!Bounces
    <3>2. CASE Inputs!NotCounted
      <4>1. Inputs!Happens("strays") BY <3>1, <3>2
      <4> QED BY <4>1, InputHappens
    <3>3. CASE ~Inputs!NotCounted
      <4>1. Inputs!Happens("bounces") BY <3>1, <3>3
      <4> QED BY <3>3, <4>1, InputHappens
    <3> QED BY <3>2, <3>3
  <2>2. CASE contact.closed # finger.down
    <3>1. UNCHANGED inputs_may BY <2>2 DEF Inputs!Bounces
    <3> QED BY <2>2, <3>1 DEF MayInv
  <2> QED BY <2>1, <2>2
<1>3. MotionInv' BY <1>1 DEF MotionInv, Inputs!PresenceIsTrue
<1>4. /\ contact' \in [closed : BOOLEAN, at : 0..Horizon] /\ contact'.at = inputs_now
      /\ kernel' \in Seq(BOOLEAN) /\ Alternates(kernel', contact'.closed)
      /\ opened => kernel' # <<>> /\ (Heard' <=> Heard)
      /\ ~opened => kernel' = <<>>
  BY <1>1, ContactFlips
<1>5. InputTimes' /\ InputTypes' BY <1>1, <1>4 DEF InputTimes, InputTypes
<1>6. ContactInv'
  <2>1. /\ contact'.at <= inputs_now' /\ finger'.at <= inputs_now' /\ (finger'.down => finger'.at > 0)
        /\ inputs_now' - contact'.at < Bounce /\ inputs_now' - finger'.at < Bounce
    BY <1>1, <1>4 DEF ContactInv, InputTimes
  <2>2. kernel' # <<>> => opened' /\ contact'.at = inputs_now' BY <1>1, <1>4
  <2>3. \A t \in polls' : t >= inputs_now' BY <1>1 DEF ContactInv
  <2> QED BY <2>1, <2>2, <2>3, <1>4 DEF ContactInv, Since
<1>7. Gesture'
  <2>1. CASE Untouched
    <3>1. ~opened BY <2>1, <1>1, <1>2 DEF Untouched, Since, Inputs!NotCounted, InputTimes
    <3> QED BY <2>1, <3>1, <1>1, <1>4 DEF Untouched, Gesture
  <2>2. CASE opened /\ hand.mine /\ Pressed
    <3>1. CASE PressComing BY <3>1, <2>2, <1>1, <1>4 DEF PressComing, Since, Pressed, Gesture
    <3>2. CASE PressHeard BY <3>2, <2>2, <1>1, <1>4 DEF PressHeard, Since, Pressed, Gesture
    <3>3. CASE PressLost BY <3>3, <2>2, <1>1, <1>4 DEF PressLost, Pressed, Gesture
    <3> QED BY <2>2, <3>1, <3>2, <3>3 DEF Pressed
  <2>3. CASE opened /\ hand.mine /\ Released
    <3>1. CASE LongReleased
      <4>1. contact.closed # finger.down BY <3>1, <2>3, <1>2 DEF LongReleased, Released, Inputs!NotCounted
      <4>2. CASE LongComing
        <5>1. Len(kernel) = 1 /\ Heard BY <4>2 DEF LongComing
        <5> QED BY <5>1, SingleEvent, <4>1, <2>3 DEF Released, InputTimes
      <4>3. CASE LongDone BY <4>3, <4>1, <2>3 DEF LongDone, Heard, Before, Released, InputTimes
      <4> QED BY <3>1, <4>2, <4>3 DEF LongReleased
    <3>2. CASE ShortComing /\ finger.held < Long - Bounce
      BY <3>2, <2>3, <1>1, <1>4 DEF ShortComing, ShortReleased, Released, Gesture
    <3>3. CASE ShortHeard /\ finger.held < Long - Bounce
      <4>1. button.lastup <= inputs_now BY <3>3 DEF ShortHeard, ContactInv, InputTimes, Classifier
      <4> QED BY <3>3, <4>1, <2>3, <1>1, <1>4 DEF ShortHeard, ShortReleased, Released, Gesture
    <3>4. CASE ShortTold BY <3>4, <1>1 DEF ShortTold, Since, InputTimes
    <3> QED BY <2>3, <3>1, <3>2, <3>3, <3>4 DEF Released, ShortReleased
  <2> QED BY <2>1, <2>2, <2>3 DEF Gesture
<1> QED BY <1>2, <1>3, <1>5, <1>6, <1>7

(* The app reads what the contact did. *)
LEMMA ReadsStep == ASSUME InputsInv, Inputs!Reads PROVE InputsInv'
<1> USE InputNumbers DEF InputsInv
<1>1. /\ kernel # <<>> /\ kernel' = Tail(kernel) /\ opened /\ contact.at = inputs_now /\ Since(finger.at) < Bounce
      /\ UNCHANGED <<inputs_now, finger, contact, hand, there, presence, seen, opened, inputs_may>>
  BY DEF Inputs!Reads, Inputs!contacts, Inputs!motion, ContactInv
<1>2. /\ kernel' \in Seq(BOOLEAN) /\ (kernel' = <<>> <=> Len(kernel) = 1) /\ Alternates(kernel', contact'.closed)
      /\ Len(kernel') = Len(kernel) - 1 /\ Len(kernel) \in Nat \ {0}
      /\ Head(kernel) \in BOOLEAN /\ (Heard' <=> Head(kernel)) /\ (Heard <=> ~Head(kernel))
  <2>1. kernel \in Seq(BOOLEAN) /\ contact.closed \in BOOLEAN /\ Alternates(kernel, contact.closed)
    BY DEF InputTimes, InputTypes, ContactInv
  <2> QED BY <2>1, <1>1, OneEventLess DEF Heard
<1>3. MayInv' /\ MotionInv' BY <1>1 DEF MayInv, MotionInv, Inputs!PresenceIsTrue
<1>4. polls' \subseteq Nat /\ \A t \in polls' : t >= inputs_now'
  <2>1. polls' = polls \cup {inputs_now + Long} \/ polls' = polls \cup {inputs_now + PressWindow} BY DEF Inputs!Reads
  <2>2. \A t \in polls : t \in Nat /\ t >= inputs_now BY DEF InputTimes, ContactInv
  <2>3. inputs_now' = inputs_now /\ inputs_now \in Nat BY <1>1 DEF InputTimes
  <2> QED BY <2>1, <2>2, <2>3
<1>5. ContactInv'
  <2>1. /\ contact'.at <= inputs_now' /\ finger'.at <= inputs_now' /\ (finger'.down => finger'.at > 0)
        /\ contact'.closed # finger'.down => inputs_now' - contact'.at < Bounce /\ inputs_now' - finger'.at < Bounce
        /\ kernel' # <<>> => opened' /\ contact'.at = inputs_now' /\ inputs_now' - finger'.at < Bounce
    BY <1>1 DEF ContactInv, Since
  <2> QED BY <2>1, <1>2, <1>4 DEF ContactInv, Since
<1>6. CASE ~Heard
  <2>1. /\ button' = Inputs!Down(button) /\ polls' = polls \cup {inputs_now + Long} /\ told' = told /\ Heard'
    BY <1>2, <1>6 DEF Inputs!Reads
  <2>2. \/ PressComing /\ Pressed /\ hand.mine
        \/ PressLost /\ Pressed /\ hand.mine
        \/ ShortHeard /\ Released /\ hand.mine /\ finger.held < Long - Bounce
    <3>1. ~Untouched
      <4>1. SUFFICES ASSUME Untouched PROVE FALSE OBVIOUS
      <4>2. ~finger.down /\ ~contact.closed BY <4>1, <1>1 DEF Untouched, Since, InputTimes
      <4>3. Len(kernel) <= 1 /\ Len(kernel) \in Nat \ {0} BY <4>1, <1>1, <1>2 DEF Untouched
      <4>4. Len(kernel) = 1 BY <4>3
      <4> QED BY <4>2, <4>4, <1>6, SingleEvent
    <3> QED BY <3>1, <1>1, <1>6
         DEF Gesture, Pressed, Released, LongReleased, ShortReleased, PressHeard, LongComing, LongDone, ShortComing, ShortTold
  <2>3. CASE PressComing /\ Pressed /\ hand.mine
    <3>1. /\ button'.count = button.count /\ button'.down = inputs_now /\ ~button'.fired
          /\ button' \in Classifier
      <4>1. ~(button.count > 0 /\ inputs_now - button.lastup < Bounce)
        BY <2>3 DEF PressComing, Since, InputTimes, Classifier
      <4> QED BY <4>1, <2>1, Downs DEF InputTimes
    <3>2. PressHeard' BY <3>1, <2>1, <2>3, <1>1 DEF PressHeard, PressComing, Since, InputTimes
    <3> QED BY <3>1, <3>2, <2>1, <2>3, <1>1, <1>2, <1>3, <1>4, <1>5 DEF InputTimes, InputTypes, Gesture, Pressed
  <2>4. CASE PressLost /\ Pressed /\ hand.mine
    <3>1. /\ button'.count = button.count - 1 /\ button'.down = button.lastdown /\ ~button'.fired
          /\ button' \in Classifier
      <4>1. button.count > 0 /\ inputs_now - button.lastup < Bounce
        BY <2>4, <1>1 DEF PressLost, Since, InputTimes, InputTypes, Classifier
      <4> QED BY <4>1, <2>1, Downs DEF InputTimes
    <3>2. PressHeard' BY <3>1, <2>1, <2>4, <1>1 DEF PressHeard, PressLost, Since, InputTimes, InputTypes
    <3> QED BY <3>1, <3>2, <2>1, <2>4, <1>1, <1>2, <1>3, <1>4, <1>5 DEF InputTimes, InputTypes, Gesture, Pressed
  <2>5. CASE ShortHeard /\ Released /\ hand.mine /\ finger.held < Long - Bounce
    <3>1. /\ button'.count = button.count - 1 /\ button'.down = button.lastdown /\ ~button'.fired
          /\ button' \in Classifier
      <4>1. button.count > 0 /\ inputs_now - button.lastup < Bounce
        BY <2>5, <1>1 DEF ShortHeard, Since, InputTimes, InputTypes, Classifier
      <4> QED BY <4>1, <2>1, Downs DEF InputTimes
    <3>2. ShortComing' BY <3>1, <2>1, <2>5, <1>1 DEF ShortHeard, ShortComing, InputTimes, InputTypes
    <3> QED BY <3>1, <3>2, <2>1, <2>5, <1>1, <1>2, <1>3, <1>4, <1>5
         DEF InputTimes, InputTypes, Gesture, Released, ShortReleased
  <2> QED BY <2>2, <2>3, <2>4, <2>5
<1>7. CASE Heard
  <2>1. /\ button' = Inputs!Up(button) /\ polls' = polls \cup {inputs_now + PressWindow} /\ ~Heard'
        /\ told' = told \o Inputs!UpTells(button)
    BY <1>2, <1>7 DEF Inputs!Reads
  <2>2. told \o <<>> = told /\ told \o <<"long">> = Append(told, "long") /\ Append(told, "long") \in Seq(Gestures)
    BY DEF InputTypes, Gestures
  <2>3. CASE Untouched
    <3>1. button' = button /\ told' = told BY <2>1, <2>2, <2>3 DEF Inputs!Up, Inputs!UpTells, Untouched
    <3>2. Len(kernel) <= 1 BY <2>3, <1>1 DEF Untouched
    <3>3. Len(kernel') <= 1
      <4>1. Len(kernel') = Len(kernel) - 1 /\ Len(kernel) \in Nat BY <1>2
      <4> QED BY <4>1, <3>2
    <3> QED BY <3>1, <3>3, <2>1, <2>3, <1>1, <1>2, <1>3, <1>4, <1>5
         DEF InputTimes, InputTypes, Gesture, Untouched, Since
  <2>4. CASE PressHeard /\ Pressed /\ hand.mine
    <3>1. /\ button'.count = button.count + 1 /\ button'.down = Inputs!None /\ button'.lastdown = finger.at
          /\ button'.lastup = inputs_now
          /\ button' \in Classifier /\ told' = told
      <4>1. button.down # Inputs!None /\ ~button.fired /\ inputs_now - button.down < Long /\ button.down = finger.at
        BY <2>4, <1>1 DEF PressHeard, Pressed, ContactInv, Since, InputTimes, Inputs!None
      <4> QED BY <4>1, <2>1, <2>2, Ups DEF InputTimes
    <3>2. PressLost' BY <3>1, <2>1, <2>4, <1>1 DEF PressHeard, PressLost, Since, ContactInv, InputTimes
    <3> QED BY <3>1, <3>2, <2>4, <1>1, <1>2, <1>3, <1>4, <1>5 DEF InputTimes, InputTypes, Gesture, Pressed
  <2>5. CASE LongComing /\ LongReleased /\ Released /\ hand.mine
    <3>1. /\ button'.count = 0 /\ button'.down = Inputs!None /\ told' = hand.made /\ told' \in Seq(Gestures)
          /\ button' \in Classifier
      <4>1. button.down # Inputs!None /\ inputs_now - button.down >= Long
        BY <2>5 DEF LongComing, LongReleased, Released, Inputs!None, InputTimes
      <4>2. CASE button.fired BY <4>1, <4>2, <2>1, <2>2, <2>5, Ups DEF LongComing, InputTimes, InputTypes
      <4>3. CASE ~button.fired BY <4>1, <4>3, <2>1, <2>2, <2>5, Ups DEF LongComing, InputTimes
      <4> QED BY <4>2, <4>3
    <3>2. kernel' = <<>> BY <1>2, <2>5 DEF LongComing
    <3> QED BY <3>1, <3>2, <2>1, <2>5, <1>1, <1>2, <1>3, <1>4, <1>5
         DEF InputTimes, InputTypes, Gesture, Released, LongReleased, LongDone
  <2>6. CASE ShortComing /\ Released /\ hand.mine /\ finger.held < Long - Bounce
    <3>1. /\ button'.count = button.count + 1 /\ button'.down = Inputs!None /\ button'.lastdown = finger.at - finger.held
          /\ button'.lastup = inputs_now
          /\ button' \in Classifier /\ told' = told
      <4>1. /\ button.down # Inputs!None /\ ~button.fired /\ button.down = finger.at - finger.held
            /\ inputs_now - button.down < Long
        BY <2>6, <1>1 DEF ShortComing, Released, Since, InputTimes, Inputs!None
      <4> QED BY <4>1, <2>1, <2>2, Ups DEF InputTimes
    <3>2. /\ finger.at <= inputs_now /\ inputs_now < finger.at + Bounce /\ inputs_now + PressWindow >= inputs_now
          /\ hand.shorts > 0 /\ hand.shorts = button'.count
      BY <3>1, <2>6, <1>1 DEF ShortComing, Since, ContactInv, InputTimes, InputTypes, Classifier
    <3>3. button'.lastup <= contact'.at /\ button'.lastup + PressWindow \in polls' BY <3>1, <2>1, <1>1 DEF InputTimes
    <3>4. told' = hand'.made /\ finger'.at = finger.at /\ finger'.held = finger.held /\ hand'.shorts = hand.shorts
          /\ inputs_now' = inputs_now
      BY <3>1, <2>6, <1>1 DEF ShortComing
    <3>5. ShortHeard' BY <3>1, <3>2, <3>3, <3>4, <2>1 DEF ShortHeard
    <3> QED BY <3>1, <3>5, <2>6, <1>1, <1>2, <1>3, <1>4, <1>5
         DEF InputTimes, InputTypes, Gesture, Released, ShortReleased
  <2> QED BY <2>3, <2>4, <2>5, <2>6, <1>7
       DEF Gesture, Pressed, PressComing, PressLost, Released, LongReleased, LongDone, ShortReleased, ShortHeard, ShortTold
<1> QED BY <1>6, <1>7

(* A timer: a long press is told while the button is held, short ones once no other can follow. *)
LEMMA PollsStep == ASSUME InputsInv, Inputs!Polls PROVE InputsInv'
<1> USE InputNumbers DEF InputsInv
<1>1. /\ kernel = <<>> /\ Heard = contact.closed /\ inputs_now \in polls /\ polls' = polls \ {inputs_now}
      /\ UNCHANGED <<inputs_now, finger, contact, hand, kernel, there, presence, seen, opened, inputs_may>>
  <2>1. PICK t \in polls : t <= inputs_now /\ polls' = polls \ {t} BY DEF Inputs!Polls
  <2>2. t = inputs_now BY <2>1 DEF InputTimes, ContactInv
  <2> QED BY <2>1, <2>2 DEF Inputs!Polls, Inputs!contacts, Inputs!motion, Heard, Before
<1>2. MayInv' /\ MotionInv' BY <1>1 DEF MayInv, MotionInv, Inputs!PresenceIsTrue
<1>3. Heard' = Heard BY <1>1 DEF Heard
<1>4. ContactInv' BY <1>1 DEF ContactInv, Since
<1>5. CASE Inputs!HeldLong
  <2>0. ~Inputs!Finished BY <1>5 DEF Inputs!HeldLong, Inputs!Finished
  <2>1. button' = [button EXCEPT !.fired = TRUE, !.count = 0] /\ told' = Append(told, "long")
    BY <1>5, <2>0 DEF Inputs!Polls
  <2>2. /\ button' \in Classifier /\ button'.fired /\ button'.count = 0 /\ button'.down = button.down
        /\ button'.lastdown = button.lastdown /\ button'.lastup = button.lastup
    BY <2>1 DEF InputTimes, Classifier
  <2>3. told' \in Seq(Gestures) BY <2>1 DEF InputTypes, Gestures
  <2>4. Pressed /\ PressHeard /\ hand.mine /\ opened
    <3>1. button.down # Inputs!None /\ ~button.fired /\ inputs_now - button.down >= Long BY <1>5 DEF Inputs!HeldLong
    <3>2. ~(Released /\ ShortComing /\ finger.held < Long - Bounce)
      BY <3>1, <1>1 DEF Released, ShortComing, ContactInv, Since, InputTimes
    <3> QED BY <3>1, <3>2, <1>1 DEF Gesture, Untouched, Pressed, PressComing, PressLost, Released, LongReleased,
         LongComing, LongDone, ShortReleased, ShortHeard, ShortTold
  <2>5. PressHeard' BY <2>1, <2>2, <2>4, <1>1, <1>3, <1>5 DEF PressHeard, Inputs!HeldLong, Since
  <2> QED BY <2>2, <2>3, <2>4, <2>5, <1>1, <1>2, <1>4 DEF Gesture, Pressed, InputTimes, InputTypes
<1>6. CASE ~Inputs!HeldLong /\ Inputs!Finished
  <2>1. button' = [button EXCEPT !.count = 0] /\ told' = Append(told, Inputs!Kind(button.count))
    BY <1>6 DEF Inputs!Polls
  <2>2. /\ button' \in Classifier /\ button'.count = 0 /\ button'.down = button.down
    BY <2>1 DEF InputTimes, Classifier
  <2>3. told' \in Seq(Gestures) BY <2>1 DEF InputTypes, Gestures, Inputs!Kind
  <2>4. button.down = Inputs!None /\ button.count > 0 /\ inputs_now - button.lastup >= PressWindow
    BY <1>6 DEF Inputs!Finished
  <2>5. Released /\ ShortHeard /\ finger.held < Long - Bounce /\ hand.mine /\ opened
    <3>1. ~(Pressed /\ PressHeard) BY <2>4 DEF Pressed, PressHeard, ContactInv, Inputs!None
    <3>2. ~(Pressed /\ PressLost) BY <2>4, <1>1 DEF Pressed, PressLost, ContactInv, Since, InputTimes, Classifier
    <3>3. ~(Released /\ ShortComing) BY <2>4 DEF Released, ShortComing, Inputs!None, InputTimes
    <3> QED BY <2>4, <3>1, <3>2, <3>3, <1>1 DEF Gesture, Untouched, Pressed, PressComing, Released, LongReleased,
         LongComing, LongDone, ShortReleased, ShortTold
  <2>6. Since(finger.at) >= PressWindow /\ Since(finger.at) <= PressWindow + Bounce
    BY <2>4, <2>5 DEF ShortHeard, Since, InputTimes, Classifier
  <2>7. ShortTold' BY <2>1, <2>2, <2>4, <2>5, <2>6, <1>1, <1>3 DEF ShortHeard, ShortTold, Since
  <2> QED BY <2>2, <2>3, <2>5, <2>7, <1>1, <1>2, <1>4 DEF Gesture, Released, ShortReleased, InputTimes, InputTypes
<1>7. CASE ~Inputs!HeldLong /\ ~Inputs!Finished
  <2>1. UNCHANGED <<button, told>> BY <1>7 DEF Inputs!Polls
  <2>2. CASE Untouched BY <2>1, <2>2, <1>1, <1>2, <1>4 DEF Untouched, Gesture, InputTimes, InputTypes, Since
  <2>3. CASE opened /\ hand.mine /\ Pressed
    <3>1. ~PressComing BY <1>1 DEF PressComing
    <3>2. CASE PressHeard
      <4>1. ~button.fired => Since(finger.at) # Long
        BY <3>2, <2>3, <1>7 DEF PressHeard, Pressed, ContactInv, Since, Inputs!HeldLong, Inputs!None, InputTimes
      <4>2. ~button.fired => finger.at + Long # inputs_now BY <4>1 DEF Since, InputTimes
      <4>3. PressHeard' BY <3>2, <4>2, <2>1, <1>1, <1>3 DEF PressHeard, Since
      <4> QED BY <4>3, <2>1, <2>3, <1>1, <1>2, <1>4 DEF Gesture, Pressed, InputTimes, InputTypes
    <3>3. CASE PressLost
      <4>0. Since(finger.at) < Bounce BY <3>3, <2>3, <1>1 DEF PressLost, Pressed, ContactInv
      <4>1. finger.at + Long # inputs_now BY <4>0 DEF Since, InputTimes
      <4>2. PressLost' BY <3>3, <4>1, <2>1, <1>1, <1>3 DEF PressLost
      <4> QED BY <4>2, <2>1, <2>3, <1>1, <1>2, <1>4 DEF Gesture, Pressed, InputTimes, InputTypes
    <3> QED BY <3>1, <3>2, <3>3, <2>3 DEF Pressed
  <2>4. CASE opened /\ hand.mine /\ Released
    <3>1. CASE LongReleased
      <4>1. LongReleased' BY <3>1, <2>1, <1>1, <1>3 DEF LongReleased, LongComing, LongDone
      <4> QED BY <4>1, <2>1, <2>4, <1>1, <1>2, <1>4 DEF Gesture, Released, InputTimes, InputTypes
    <3>2. CASE ShortReleased /\ ~ShortHeard
      <4>1. ShortReleased' BY <3>2, <2>1, <1>1, <1>3 DEF ShortReleased, ShortComing, ShortTold, Since
      <4> QED BY <4>1, <2>1, <2>4, <1>1, <1>2, <1>4 DEF Gesture, Released, InputTimes, InputTypes
    <3>3. CASE ShortReleased /\ ShortHeard
      <4>1. button.lastup + PressWindow # inputs_now
        BY <3>3, <1>7 DEF ShortHeard, Inputs!Finished, InputTimes, InputTypes, Classifier
      <4>2. ShortHeard' BY <3>3, <4>1, <2>1, <1>1, <1>3 DEF ShortHeard
      <4> QED BY <3>3, <4>2, <2>1, <2>4, <1>1, <1>2, <1>4 DEF Gesture, Released, ShortReleased, InputTimes, InputTypes
    <3> QED BY <3>1, <3>2, <3>3, <2>4 DEF Released
  <2> QED BY <2>2, <2>3, <2>4 DEF Gesture
<1> QED BY <1>5, <1>6, <1>7

(* Time passes once all is read and no timer is due. *)
LEMMA PassesStep == ASSUME InputsInv, Inputs!Passes PROVE InputsInv'
<1> USE InputNumbers DEF InputsInv
<1>1. /\ inputs_now' = inputs_now + 1 /\ inputs_now' \in 0..Horizon
      /\ contact.closed # finger.down => inputs_now' - contact.at < Bounce /\ inputs_now' - finger.at < Bounce
      /\ UNCHANGED <<finger, contact, kernel, button, polls, told, there, presence, seen, opened>>
  BY DEF Inputs!Passes, InputTimes, Inputs!classifier, Inputs!motion
<1>2. kernel = <<>> /\ (\A t \in polls : t > inputs_now) /\ UNCHANGED inputs_may
  <2>1. ~Inputs!Due
    <3>1. SUFFICES ASSUME Inputs!Due PROVE FALSE OBVIOUS
    <3>2. Inputs!Happens("stalls") BY <3>1 DEF Inputs!Passes
    <3> QED BY <3>2, InputHappens
  <2> QED BY <2>1 DEF Inputs!Due, Inputs!Passes, InputTimes
<1>3. Heard = contact.closed /\ Heard' = Heard BY <1>1, <1>2 DEF Heard, Before
<1>4. MayInv' /\ MotionInv' BY <1>1, <1>2 DEF MayInv, MotionInv, Inputs!PresenceIsTrue
<1>5. InputTimes' BY <1>1 DEF InputTimes
<1>6. ContactInv'
  <2>1. contact'.at <= inputs_now' /\ finger'.at <= inputs_now' /\ (finger'.down => finger'.at > 0)
    BY <1>1 DEF ContactInv, InputTimes
  <2>2. \A t \in polls' : t >= inputs_now' BY <1>1, <1>2 DEF InputTimes
  <2>3. Alternates(kernel', contact'.closed) BY <1>1 DEF ContactInv
  <2> QED BY <2>1, <2>2, <2>3, <1>1, <1>2 DEF ContactInv, Since
<1>7. CASE ~finger.down /\ hand.shorts > 0 /\ inputs_now - finger.at >= PressWindow + Bounce
  <2>1. hand' = [hand EXCEPT !.shorts = 0, !.made = Append(@, Inputs!Kind(hand.shorts))] BY <1>7 DEF Inputs!Passes
  <2>2. Append(hand.made, Inputs!Kind(hand.shorts)) \in Seq(Gestures) BY DEF InputTypes, Gestures, Inputs!Kind
  <2>3. /\ hand' \in [shorts : Nat, made : Seq(Gestures), mine : BOOLEAN] /\ hand'.shorts = 0 /\ hand'.mine = hand.mine
        /\ hand'.made = Append(hand.made, Inputs!Kind(hand.shorts))
    BY <2>1, <2>2 DEF InputTypes
  <2>4. opened /\ hand.mine /\ Released /\ finger.held < Long - Bounce /\ ShortTold
    <3>1. ~(Released /\ ShortComing) BY <1>3, <1>7 DEF Released, ShortComing, ContactInv, Since, InputTimes
    <3>2. ~ShortHeard
      <4>1. SUFFICES ASSUME ShortHeard PROVE FALSE OBVIOUS
      <4>2. button.lastup + PressWindow > inputs_now BY <4>1, <1>2 DEF ShortHeard
      <4> QED BY <4>1, <4>2, <1>7 DEF ShortHeard, InputTimes, Classifier
    <3> QED BY <3>1, <3>2, <1>7 DEF Gesture, Untouched, Pressed, Released, LongReleased, ShortReleased, InputTypes
  <2>5. ShortTold'
    <3>1. told' = hand'.made /\ Since(finger.at)' >= PressWindow
      BY <2>3, <2>4, <1>1, <1>7 DEF ShortTold, Since, InputTimes
    <3> QED BY <3>1, <2>3, <2>4, <1>1, <1>3 DEF ShortTold
  <2> QED BY <2>3, <2>4, <2>5, <1>1, <1>4, <1>5, <1>6 DEF Gesture, Released, ShortReleased, InputTypes
<1>8. CASE ~(~finger.down /\ hand.shorts > 0 /\ inputs_now - finger.at >= PressWindow + Bounce)
  <2>1. UNCHANGED hand BY <1>8 DEF Inputs!Passes
  <2>2. InputTypes' BY <2>1, <1>1 DEF InputTypes
  <2>3. CASE Untouched BY <2>1, <2>2, <2>3, <1>1, <1>2, <1>4, <1>5, <1>6 DEF Untouched, Gesture, Since, InputTimes
  <2>4. CASE opened /\ hand.mine /\ Pressed
    <3>1. CASE PressHeard
      <4>1. ~button.fired => finger.at + Long > inputs_now BY <3>1, <1>2 DEF PressHeard
      <4>2. button.fired => Since(finger.at)' >= Long BY <3>1, <1>1 DEF PressHeard, Since, InputTimes
      <4>3. ~button.fired => Since(finger.at)' <= Long BY <4>1, <1>1 DEF Since, InputTimes
      <4>4. PressHeard' BY <3>1, <4>2, <4>3, <2>1, <1>1, <1>3 DEF PressHeard
      <4> QED BY <4>4, <2>1, <2>2, <2>4, <1>1, <1>4, <1>5, <1>6 DEF Gesture, Pressed
    <3>2. CASE PressLost
      <4>1. PressLost' BY <3>2, <2>1, <1>1, <1>3 DEF PressLost, InputTimes, Classifier
      <4> QED BY <4>1, <2>1, <2>2, <2>4, <1>1, <1>4, <1>5, <1>6 DEF Gesture, Pressed
    <3> QED BY <3>1, <3>2, <2>4, <1>2 DEF Pressed, PressComing
  <2>5. CASE opened /\ hand.mine /\ Released
    <3>1. CASE LongReleased /\ LongDone
      <4>1. LongReleased' BY <3>1, <2>1, <1>1, <1>3 DEF LongReleased, LongDone
      <4> QED BY <4>1, <2>1, <2>2, <2>5, <1>1, <1>4, <1>5, <1>6 DEF Gesture, Released
    <3>2. CASE finger.held < Long - Bounce /\ ShortComing
      <4>1. ShortComing' BY <3>2, <2>1, <1>1, <1>3 DEF ShortComing
      <4> QED BY <3>2, <4>1, <2>1, <2>2, <2>5, <1>1, <1>4, <1>5, <1>6 DEF Gesture, Released, ShortReleased
    <3>3. CASE finger.held < Long - Bounce /\ ShortHeard
      <4>1. button.lastup + PressWindow > inputs_now BY <3>3, <1>2 DEF ShortHeard
      <4>2. button.lastup + PressWindow >= inputs_now' BY <4>1, <1>1 DEF InputTimes, Classifier
      <4>3. ShortHeard' BY <3>3, <4>2, <2>1, <1>1, <1>3 DEF ShortHeard
      <4> QED BY <3>3, <4>3, <2>1, <2>2, <2>5, <1>1, <1>4, <1>5, <1>6 DEF Gesture, Released, ShortReleased
    <3>4. CASE finger.held < Long - Bounce /\ ShortTold
      <4>1. /\ Since(finger.at)' >= PressWindow
            /\ hand.shorts = 0 \/ Since(finger.at)' <= PressWindow + Bounce
        BY <3>4, <2>1, <2>5, <1>1, <1>8 DEF ShortTold, Since, InputTimes, InputTypes, Released
      <4>2. ShortTold' BY <3>4, <4>1, <2>1, <1>1, <1>3 DEF ShortTold
      <4> QED BY <3>4, <4>2, <2>1, <2>2, <2>5, <1>1, <1>4, <1>5, <1>6 DEF Gesture, Released, ShortReleased
    <3>5. ~LongComing
      <4>1. LongComing => FALSE BY <1>2, SingleEvent DEF LongComing
      <4> QED BY <4>1
    <3> QED BY <3>1, <3>2, <3>3, <3>4, <3>5, <2>5 DEF Released, LongReleased, ShortReleased
  <2> QED BY <2>3, <2>4, <2>5 DEF Gesture
<1> QED BY <1>7, <1>8

(* Nothing of the button. *)
LEMMA ButtonKeeps ==
  ASSUME InputsInv, UNCHANGED <<inputs_now, finger, contact, hand, kernel, button, polls, told, opened>>
  PROVE  InputTimes' /\ InputTypes' /\ ContactInv' /\ Gesture'
BY DEF InputsInv, InputTimes, InputTypes, ContactInv, Gesture, Untouched, Pressed, PressComing, PressHeard, PressLost,
       Released, LongReleased, LongComing, LongDone, ShortReleased, ShortComing, ShortHeard, ShortTold, Heard, Since

LEMMA SensesStep == ASSUME InputsInv, NEW s \in Sensors, Inputs!Senses(s) PROVE InputsInv'
<1> USE DEF InputsInv
<1>1. /\ Inputs!Happens("motions") /\ there' = [there EXCEPT ![s] = ~@]
      /\ UNCHANGED <<inputs_now, finger, contact, hand, kernel, button, polls, told, opened>>
  BY DEF Inputs!Senses, Inputs!contacts, Inputs!classifier
<1>2. MayInv' BY <1>1, InputHappens
<1>3. MotionInv'
  <2>1. CASE opened
    <3>1. presence' = [presence EXCEPT ![s] = there'[s]] /\ seen' = seen \cup {s} BY <2>1 DEF Inputs!Senses
    <3>2. /\ there' \in [Sensors -> BOOLEAN] /\ presence' \in [Sensors -> BOOLEAN] /\ seen' \subseteq Sensors
          /\ \A o \in Sensors : there'[o] = IF o = s THEN ~there[o] ELSE there[o]
          /\ \A o \in Sensors : presence'[o] = IF o = s THEN there'[o] ELSE presence[o]
      BY <3>1, <1>1 DEF MotionInv
    <3>3. \A o \in seen' : presence'[o] = there'[o] BY <3>1, <3>2 DEF MotionInv, Inputs!PresenceIsTrue
    <3> QED BY <3>2, <3>3, <2>1, <1>1 DEF MotionInv, Inputs!PresenceIsTrue
  <2>2. CASE ~opened
    <3>1. UNCHANGED <<presence, seen>> BY <2>2 DEF Inputs!Senses
    <3>2. seen = {} BY <2>2 DEF Gesture, MotionInv
    <3> QED BY <3>1, <3>2, <1>1 DEF MotionInv, Inputs!PresenceIsTrue
  <2> QED BY <2>1, <2>2
<1> QED BY <1>1, <1>2, <1>3, ButtonKeeps

LEMMA OpensStep == ASSUME InputsInv, Inputs!Opens PROVE InputsInv'
<1> USE InputNumbers DEF InputsInv
<1>1. /\ ~opened /\ inputs_now - finger.at >= Bounce /\ opened'
      /\ UNCHANGED <<inputs_now, finger, contact, hand, kernel, button, polls, told, there, presence, seen, inputs_may>>
  BY DEF Inputs!Opens, Inputs!contacts, Inputs!classifier, Inputs!motion
<1>2. MayInv' /\ MotionInv' BY <1>1 DEF MayInv, MotionInv, Inputs!PresenceIsTrue
<1>3. InputTimes' /\ InputTypes' /\ ContactInv'
  BY <1>1 DEF InputTimes, InputTypes, ContactInv, Since
<1>4. Untouched /\ kernel = <<>> /\ Len(<<>>) = 0 BY <1>1 DEF Gesture, Untouched
<1>5. contact.closed = finger.down BY <1>1 DEF ContactInv, Since, InputTimes
<1>6. Len(kernel') <= 1 BY <1>4, <1>1
<1>7. Untouched' BY <1>1, <1>4, <1>5, <1>6 DEF Untouched, Since
<1> QED BY <1>2, <1>3, <1>7 DEF Gesture

LEMMA RestartsStep == ASSUME InputsInv, Inputs!Restarts PROVE InputsInv'
<1> USE InputNumbers DEF InputsInv
<1>1. /\ Inputs!Happens("restarts") /\ ~opened' /\ opened' \in BOOLEAN
      /\ kernel' = <<>> /\ button' = Inputs!NewClassifier /\ polls' = {}
      /\ presence' = [s \in Sensors |-> FALSE] /\ seen' = {} /\ hand' = [Inputs!NewHand EXCEPT !.made = told]
      /\ UNCHANGED <<inputs_now, finger, contact, told, there>>
  BY DEF Inputs!Restarts
<1>2. MayInv' BY <1>1, InputHappens
<1>3. MotionInv' BY <1>1 DEF MotionInv, Inputs!PresenceIsTrue
<1>4. /\ button' \in Classifier /\ button'.count = 0 /\ button'.down = Inputs!None
      /\ hand' \in [shorts : Nat, made : Seq(Gestures), mine : BOOLEAN]
      /\ hand'.shorts = 0 /\ hand'.made = told /\ ~hand'.mine
  <2>1. button' \in Classifier /\ button'.count = 0 /\ button'.down = Inputs!None
    BY <1>1 DEF Inputs!NewClassifier, Inputs!None, Classifier
  <2>2. hand' = [shorts |-> 0, made |-> told, mine |-> FALSE] BY <1>1 DEF Inputs!NewHand
  <2> QED BY <2>1, <2>2 DEF InputTypes
<1>5. kernel' \in Seq(BOOLEAN) /\ Alternates(kernel', contact'.closed) BY <1>1 DEF Alternates
<1>6. InputTimes' /\ InputTypes' BY <1>1, <1>4, <1>5 DEF InputTimes, InputTypes
<1>7. ContactInv' BY <1>1, <1>5 DEF ContactInv, Since
<1>8. Untouched' BY <1>1, <1>4 DEF Untouched
<1> QED BY <1>2, <1>3, <1>6, <1>7, <1>8 DEF Gesture

LEMMA InputsStep == ASSUME InputsInv, [Inputs!Next]_InputsVars PROVE InputsInv'
<1>1. CASE UNCHANGED InputsVars
  BY <1>1, ButtonKeeps DEF InputsVars, InputsInv, MayInv, MotionInv, Inputs!PresenceIsTrue
<1>2. CASE Inputs!Next
  BY <1>2, PressesStep, ReleasesStep, BouncesStep, ReadsStep, PollsStep, PassesStep, SensesStep, OpensStep, RestartsStep
     DEF Inputs!Next
<1> QED BY <1>1, <1>2

LEMMA InputsStarts ==
  ASSUME Inputs!Init, \A m \in InputScenes : m["strays"] = 0 /\ m["stalls"] = 0
  PROVE  InputsInv
<1> USE InputNumbers
<1>1. MayInv BY AdminAssumption DEF AdminAssumption, Inputs!InputsAssumption, Inputs!Init, MayInv
<1>2. MotionInv BY DEF Inputs!Init, MotionInv, Inputs!PresenceIsTrue
<1>3. InputTimes BY DEF Inputs!Init, InputTimes, Classifier, Inputs!NewClassifier, Inputs!None
<1>4. InputTypes
  <2>1. kernel = <<>> /\ told = <<>> /\ opened = FALSE BY DEF Inputs!Init
  <2>2. hand = [shorts |-> 0, made |-> <<>>, mine |-> FALSE] BY DEF Inputs!Init, Inputs!NewHand
  <2>3. <<>> \in Seq(Gestures) /\ <<>> \in Seq(BOOLEAN) OBVIOUS
  <2> QED BY <2>1, <2>2, <2>3 DEF InputTypes
<1>5. ContactInv BY DEF Inputs!Init, ContactInv, Alternates, Since, Inputs!None
<1>6. Untouched BY DEF Inputs!Init, Untouched, Inputs!NewHand, Inputs!NewClassifier, Inputs!None
<1> QED BY <1>1, <1>2, <1>3, <1>4, <1>5, <1>6 DEF InputsInv, Gesture

LEMMA InputsTold == ASSUME InputsInv PROVE Inputs!GesturesAsMade
<1> USE InputNumbers DEF InputsInv
<1>1. Inputs!TypeOK BY DEF Inputs!TypeOK, InputTimes, MotionInv, Classifier
<1>2. Inputs!PresenceIsTrue BY DEF MotionInv
<1>3. ASSUME Inputs!Quiet PROVE told = hand.made
  <2>1. /\ ~finger.down /\ kernel = <<>> /\ hand.shorts = 0 /\ inputs_now - finger.at > PressWindow + Bounce
    BY <1>3 DEF Inputs!Quiet, Inputs!Due
  <2>2. ~contact.closed BY <2>1 DEF ContactInv, Since, InputTimes
  <2>3. ~Heard BY <2>1, <2>2 DEF Heard, Before
  <2> QED BY <2>1, <2>3 DEF Gesture, Untouched, Pressed, Released, LongReleased, LongComing, LongDone, ShortReleased,
       ShortComing, ShortHeard, ShortTold
<1> QED BY <1>1, <1>2, <1>3 DEF Inputs!GesturesAsMade

(* Each gesture is told once, of its own kind and in order, whatever the contact bounces, the times, the number of
   presses and the restarts, where no release bounces that counts as no short press and the app reads before the
   clock's next tick: with such a release or an app that stalls it isn't so. *)
THEOREM GesturesAlwaysAsMade ==
  ASSUME \A m \in InputScenes : m["strays"] = 0 /\ m["stalls"] = 0
  PROVE  Spec => []GesturesAsMade
<1> DEFINE I == part = "inputs" => InputsInv
<1>1. Init => I
  BY InputsStarts DEF Init
<1>2. I /\ [Next]_vars => I'
  BY StepOfPart, InputsStep
<1>3. I => GesturesAsMade
  BY InputsTold DEF GesturesAsMade
<1> QED BY <1>1, <1>2, <1>3, PTL DEF Spec

-----------------------------------------------------------------------------
(* What one wrote nobody else undoes.                                       *)

\* A slot whose request goes on or ends takes a step of that request itself (no other step touches it while
\* the core is up).
LEMMA OwnStep ==
  ASSUME SettingsInv, [Settings!Next]_SettingsVars, NEW t \in {t1, t2}, settings_task[t] # Settings!NoTask,
         settings_task'[t] # settings_task[t], phase = "up", phase' = "up"
  PROVE  \/ Settings!SetupSaves(t) \/ Settings!ChangeSaves(t) \/ Settings!RecoverSaves(t) \/ Settings!SshSaves(t)
         \/ Settings!WireSaves(t) \/ Settings!RestoreSaves(t) \/ settings_cache' = settings_cache
  <1>1. settings_task \in [{t1, t2} -> SlotTask]
    BY DEF SettingsInv, RequestTypes
  <1>2. ~UNCHANGED settings_task
    OBVIOUS
  <1>3. ASSUME NEW u \in {t1, t2}, u # t PROVE ~(\E r : settings_task' = [settings_task EXCEPT ![u] = r])
    BY <1>1, <1>3
  <1>4. ~Settings!Cut /\ ~Settings!Start /\ ~Settings!UseLastGoodCopy
    BY DEF Settings!Cut, Settings!Start, Settings!UseLastGoodCopy
  <1>5. ~Settings!Break /\ ~Settings!Uninstall /\ ~Settings!CreateBackup /\ ~(UNCHANGED SettingsVars)
    BY <1>2 DEF Settings!Break, Settings!Uninstall, Settings!CreateBackup, SettingsVars
  <1>6. /\ ~Settings!SaveGlobals /\ ~Settings!SaveBrightness /\ ~Settings!CreateToken /\ ~Settings!RemoveToken
        /\ \A i \in {i1, i2} : ~Settings!SaveInstance(i) /\ ~Settings!RemoveInstance(i)
        /\ \A s \in SUBSET {i1, i2} : ~Settings!SaveMqtt(s)
    BY <1>2 DEF Settings!SaveGlobals, Settings!SaveBrightness, Settings!CreateToken, Settings!RemoveToken,
       Settings!SaveInstance, Settings!RemoveInstance, Settings!SaveMqtt, Settings!SaveNow
  <1>7. PICK u \in {t1, t2} : Settings!Waits(u)
    BY <1>4, <1>5, <1>6 DEF Settings!Next
  <1>8. u = t
    <2>1. SUFFICES ASSUME u # t PROVE FALSE
      OBVIOUS
    <2>2. CASE Settings!SignInBegins(u) \/ Settings!SshBegins(u) \/ Settings!RestoreBegins(u)
               \/ Settings!WireBegins(u)
      BY <1>2, <1>3, <2>1, <2>2 DEF Settings!SignInBegins, Settings!SshBegins, Settings!RestoreBegins,
         Settings!WireBegins, Settings!Begins
    <2>3. CASE \/ Settings!SetupSaves(u) \/ Settings!ChangeSaves(u) \/ Settings!RecoverSaves(u)
               \/ Settings!ApplySshFails(u) \/ Settings!SshSaves(u) \/ Settings!WireSaves(u)
      BY <1>3, <2>1, <2>3 DEF Settings!SetupSaves, Settings!ChangeSaves, Settings!RecoverSaves,
         Settings!ApplySshFails, Settings!SshSaves, Settings!WireSaves, Settings!Ends
    <2>4. CASE Settings!HelperWrites(u)
      BY <1>1, <2>1, <2>4 DEF Settings!HelperWrites
    <2>5. CASE Settings!RestoreInstalls(u)
      BY <1>1, <2>1, <2>5 DEF Settings!RestoreInstalls, Settings!Ends
    <2>6. CASE Settings!RestoreSaves(u)
      BY <1>1, <2>1, <2>6 DEF Settings!RestoreSaves
    <2>7. CASE Settings!RestoreEnds(u)
      BY <1>3, <2>1, <2>7 DEF Settings!RestoreEnds, Settings!Ends
    <2> QED
      BY <1>7, <2>2, <2>3, <2>4, <2>5, <2>6, <2>7 DEF Settings!Waits
  <1>9. ~Settings!SignInBegins(t) /\ ~Settings!SshBegins(t) /\ ~Settings!RestoreBegins(t) /\ ~Settings!WireBegins(t)
    BY <1>2 DEF Settings!SignInBegins, Settings!SshBegins, Settings!RestoreBegins, Settings!WireBegins,
       Settings!Begins
  <1>10. Settings!ApplySshFails(t) \/ Settings!HelperWrites(t) \/ Settings!RestoreInstalls(t)
         => settings_cache' = settings_cache
    BY DEF Settings!ApplySshFails, Settings!HelperWrites, Settings!RestoreInstalls, Settings!files
  <1>11. Settings!RestoreEnds(t) => settings_cache' = settings_cache
    BY DEF Settings!RestoreEnds
  <1> QED
    BY <1>7, <1>8, <1>9, <1>10, <1>11 DEF Settings!Waits

\* ... which saves what its request is about, and what a wiring and SSH have from before their wait.
LEMMA SavesOnlyOwn == ASSUME SettingsInv, [Settings!Next]_SettingsVars PROVE Settings!SavesOwn
  <1>1. SUFFICES ASSUME NEW t \in {t1, t2}, settings_task[t] # Settings!NoTask, settings_task'[t] # settings_task[t],
                        phase = "up", phase' = "up", NEW p \in DOMAIN Settings!Default \ Settings!Own(t)
                 PROVE  \/ settings_cache'[p] = settings_cache[p]
                        \/ p \in Settings!FromBefore(t) /\ settings_cache'[p] = settings_task[t].cfg[p]
    BY DEF Settings!SavesOwn, Settings!Saving
  <1>2. settings_cache \in Settings!Config /\ settings_task[t].id \in Settings!Codes
        /\ settings_task[t].cfg \in Settings!Config
    BY <1>1, Held
  <1>3. p \in DOMAIN Settings!Default
    BY <1>1
  <1>4. CASE Settings!SetupSaves(t) /\ settings_cache.auth # Settings!NoAuth
    BY <1>4 DEF Settings!SetupSaves, Settings!files
  <1>5. CASE (Settings!SetupSaves(t) /\ settings_cache.auth = Settings!NoAuth) \/ Settings!RecoverSaves(t)
    <2> DEFINE a == [pw |-> settings_task[t].id, code |-> settings_task[t].id]
    <2>1. settings_cache' = [settings_cache EXCEPT !.auth = a]
      BY <1>5 DEF Settings!SetupSaves, Settings!RecoverSaves, Settings!Save
    <2>2. Sets(settings_cache, "auth", [settings_cache EXCEPT !.auth = a])
      BY <1>2, SetsAuth
    <2>3. Settings!Own(t) = {"auth"}
      BY <1>5 DEF Settings!Own, Settings!SetupSaves, Settings!RecoverSaves, Settings!At
    <2> QED
      BY <1>1, <2>1, <2>2, <2>3 DEF Sets
  <1>6. CASE Settings!ChangeSaves(t)
    <2>1. settings_cache' = [settings_cache EXCEPT !.auth.pw = settings_task[t].id]
      BY <1>6 DEF Settings!ChangeSaves, Settings!Save
    <2>2. Sets(settings_cache, "auth", [settings_cache EXCEPT !.auth.pw = settings_task[t].id])
      BY <1>2, SetsPassword
    <2>3. Settings!Own(t) = {"auth"}
      BY <1>6 DEF Settings!Own, Settings!ChangeSaves, Settings!At
    <2> QED
      BY <1>1, <2>1, <2>2, <2>3 DEF Sets
  <1>7. CASE Settings!SshSaves(t)
    <2>1. /\ settings_cache' = [settings_cache EXCEPT !.ssh = settings_task[t].cfg.ssh,
             !.bright = settings_task[t].cfg.bright]
          /\ Settings!Own(t) = {"ssh"} /\ Settings!FromBefore(t) = {"bright"}
      BY <1>7 DEF Settings!SshSaves, Settings!Save, Settings!Own, Settings!FromBefore, Settings!At
    <2> QED
      BY <1>1, <1>2, <2>1, DefaultConfig DEF Settings!Config
  <1>8. CASE Settings!WireSaves(t)
    <2>1. Settings!FromBefore(t) = DOMAIN Settings!Default /\ settings_cache' = settings_task[t].cfg
      BY <1>8 DEF Settings!WireSaves, Settings!Save, Settings!FromBefore, Settings!At
    <2> QED
      BY <1>3, <2>1
  <1>9. CASE Settings!RestoreSaves(t)
    <2>1. settings_task[t].kind = "restore" /\ settings_cache' = Settings!KeepSecrets(settings_task[t].cfg,
          settings_cache)
      BY <1>9 DEF Settings!RestoreSaves, Settings!At, Settings!Save
    <2>2. Settings!Own(t) = IF settings_task[t].cfg.auth = Settings!NoAuth THEN DOMAIN Settings!Default \ {"auth"}
          ELSE DOMAIN Settings!Default
      BY <2>1 DEF Settings!Own
    <2>3. settings_task[t].cfg.auth = Settings!NoAuth /\ p = "auth"
      BY <1>1, <2>2
    <2>5. settings_cache' = [settings_task[t].cfg EXCEPT !.auth = settings_cache.auth]
      BY <2>1, <2>3 DEF Settings!KeepSecrets
    <2>6. "auth" \in DOMAIN settings_task[t].cfg
      BY <1>2 DEF Settings!Config
    <2> QED
      BY <2>3, <2>5, <2>6
  <1> QED
    BY <1>1, <1>4, <1>5, <1>6, <1>7, <1>8, <1>9, OwnStep

\* A start whose file doesn't read loads a copy that was saved.
LEMMA StartsFromCopy == ASSUME SettingsInv, [Settings!Next]_SettingsVars PROVE Settings!UsesGoodCopy
  <1>1. SUFFICES ASSUME phase # "up", phase' = "up", ~settings_scene.repair_cut,
                        trusted # {} PROVE settings_cache' \in trusted
    BY DEF Settings!UsesGoodCopy
  <1>2. FilesOfTypes /\ CopyInv
    BY DEF SettingsInv
  <1>3. Settings!Start \/ Settings!UseLastGoodCopy
    <2>1. ~Settings!Cut /\ ~Settings!Break /\ ~Settings!Uninstall /\ ~Settings!CreateBackup
          /\ ~(UNCHANGED SettingsVars)
      BY <1>1 DEF Settings!Cut, Settings!Break, Settings!Uninstall, Settings!CreateBackup, SettingsVars
    <2>2. /\ ~Settings!SaveGlobals /\ ~Settings!SaveBrightness /\ ~Settings!CreateToken /\ ~Settings!RemoveToken
          /\ \A i \in {i1, i2} : ~Settings!SaveInstance(i) /\ ~Settings!RemoveInstance(i)
          /\ \A s \in SUBSET {i1, i2} : ~Settings!SaveMqtt(s)
      BY <1>1 DEF Settings!SaveGlobals, Settings!SaveBrightness, Settings!CreateToken, Settings!RemoveToken,
         Settings!SaveInstance, Settings!RemoveInstance, Settings!SaveMqtt, Settings!SaveNow
    <2>3. ASSUME NEW u \in {t1, t2} PROVE ~Settings!Waits(u)
      BY <1>1 DEF Settings!Waits, Settings!SignInBegins, Settings!SshBegins, Settings!RestoreBegins,
         Settings!WireBegins, Settings!SetupSaves, Settings!ChangeSaves, Settings!RecoverSaves,
         Settings!ApplySshFails, Settings!SshSaves, Settings!WireSaves, Settings!HelperWrites,
         Settings!RestoreInstalls, Settings!RestoreSaves, Settings!RestoreEnds, Settings!At
    <2> QED
      BY <2>1, <2>2, <2>3 DEF Settings!Next
  <1>4. CASE Settings!Start
    <2>1. ~(file = Absent /\ phase = "down") /\ phase = "down"
      BY <1>1, <1>2, <1>4 DEF Settings!Start, CopyInv
    <2>2. Settings!Readable(file) /\ settings_cache' = file
      BY <1>1, <1>4, <2>1 DEF Settings!Start
    <2> QED
      BY <1>1, <1>2, <2>2, Readable DEF CopyInv, FilesOfTypes
  <1>5. CASE Settings!UseLastGoodCopy
    <2>1. bak \in trusted /\ bak \in Settings!Config
      BY <1>1, <1>2 DEF CopyInv
    <2>2. settings_cache' = bak
      BY <1>5, <2>1, Readable DEF Settings!UseLastGoodCopy, Settings!Save
    <2> QED
      BY <2>1, <2>2
  <1> QED
    BY <1>3, <1>4, <1>5

\* No step on the module files puts a file where one is.
FolderInv == DOMAIN folder = Files!Numbers
(* The folder's names stay, and no step puts a file where one is. *)
LEMMA FolderStep == ASSUME FolderInv, [Files!Next]_FilesVars PROVE FolderInv' /\ Files!ReplacesNone
  <1>1. \/ UNCHANGED folder \/ \E n \in Files!Numbers : folder' = [folder EXCEPT ![n] = Files!Nothing]
        \/ \E n, x : folder[n] = Files!Nothing /\ folder' = [folder EXCEPT ![n] = x]
    BY DEF Files!Next, FilesVars, Files!Uploads, Files!Links, Files!NextName, Files!Unlinks, Files!StoresThumb,
       Files!DeletesThumb, Files!Cuts, Files!Deletes, Files!ModulePuts
  <1> QED
    BY <1>1 DEF FolderInv, Files!ReplacesNone

\* Only the owner's change lets go of what the crash guard paused.
LEMMA OwnerLetsGoStep == ASSUME GuardInv, [CrashGuard!Next]_CrashGuardVars PROVE CrashGuard!OwnerLetsGo
  <1>1. level \in 0..3 /\ changes \in Nat
    BY GuardConstants DEF GuardInv, HeldTypes, CountTypes
  <1>2. CASE UNCHANGED <<level, paused>>
    BY <1>1, <1>2 DEF CrashGuard!OwnerLetsGo
  <1>3. CASE CrashGuard!Changes
    BY <1>1, <1>3 DEF CrashGuard!OwnerLetsGo, CrashGuard!Changes
  <1>4. CASE CrashGuard!PageCrashed
    <2>1. CASE CrashGuard!Due /\ level < 3
      <3>1. CrashGuard!NextStep \in (level + 1)..3
        BY <1>1, <2>1, StepUp
      <3>2. level' = CrashGuard!NextStep /\ paused \subseteq paused'
        BY <1>4, <2>1, GuardConstants DEF CrashGuard!PageCrashed
      <3> QED
        BY <1>1, <3>1, <3>2 DEF CrashGuard!OwnerLetsGo
    <2>2. CASE ~(CrashGuard!Due /\ level < 3)
      BY <1>2, <1>4, <2>2, GuardConstants DEF CrashGuard!PageCrashed
    <2> QED
      BY <2>1, <2>2
  <1>5. CrashGuard!PageLoaded \/ CrashGuard!ReloadsModules \/ CrashGuard!CoreRestarts \/ CrashGuard!Tick
          \/ CrashGuard!ShowAgain => CrashGuard!OwnerLetsGo
    BY <1>2, <1>3, <1>4 DEF CrashGuard!PageLoaded, CrashGuard!ReloadsModules, CrashGuard!CoreRestarts,
       CrashGuard!Tick,
       CrashGuard!ShowAgain, CrashGuard!guard
  <1>6. \A n \in Guarded : CrashGuard!VideoPlays(n) \/ CrashGuard!Save(n) \/ CrashGuard!RemoveInstance(n)
                             \/ CrashGuard!Toggle(n) => CrashGuard!OwnerLetsGo
    BY <1>2, <1>3 DEF CrashGuard!VideoPlays, CrashGuard!Save, CrashGuard!RemoveInstance, CrashGuard!Toggle,
       CrashGuard!guard
  <1>7. \A s \in SUBSET Guarded : CrashGuard!Installed(s) => CrashGuard!OwnerLetsGo
    BY <1>3 DEF CrashGuard!Installed
  <1>8. PageActs \/ UNCHANGED CrashGuardVars => CrashGuard!OwnerLetsGo
    BY <1>2, PageActsOnly DEF CrashGuardVars
  <1> QED
    BY <1>5, <1>6, <1>7, <1>8, GuardCases

(* A request that waited leaves at its save what others saved meanwhile, but for what a wiring and SSH loaded before
   their wait and put back; no start takes the defaults when a saved copy reads, no upload replaces a file, and only
   the owner shows again what the guard paused (the routes above, store, after_crash). *)
THEOREM OthersAlwaysKept == Spec => OthersKept
  <1> DEFINE Inv == /\ part = "settings" => SettingsInv
                    /\ part = "files" => FolderInv
                    /\ part = "guard" => GuardInv
             Step == /\ part = "settings" => Settings!SavesOwn /\ Settings!UsesGoodCopy
                     /\ part = "files" => Files!ReplacesNone
                     /\ part = "guard" => CrashGuard!OwnerLetsGo
  <1>1. Init => Inv
    BY SettingsInit, GuardInit DEF Init, Files!Init, FolderInv
  <1>2. Inv /\ [Next]_vars => Inv' /\ Step
    BY StepOfPart, SettingsStep, SavesOnlyOwn, StartsFromCopy, FolderStep, GuardStep, OwnerLetsGoStep
  <1>3. Inv /\ [Next]_vars => [Step]_vars
    BY <1>2
  <1> QED
    BY <1>1, <1>2, <1>3, PTL DEF Spec, OthersKept

(* A step below the top is one that pauses something that wasn't paused. *)
LEMMA NextStepPauses == ASSUME level \in 0..2, CrashGuard!NextStep # 3 PROVE CrashGuard!NewAt(CrashGuard!NextStep) # {}
  <1> DEFINE S == {s \in (level + 1)..3 : s = 3 \/ CrashGuard!NewAt(s) # {}}
  <1>1. S # {} /\ S \subseteq Nat
    <2>1. 3 \in S
      OBVIOUS
    <2> QED
      BY <2>1
  <1>2. CrashGuard!Min(S) \in S
    BY <1>1, SmallestThere
  <1>3. CrashGuard!NextStep = CrashGuard!Min(S)
    BY GuardConstants DEF CrashGuard!NextStep
  <1> QED
    BY <1>2, <1>3

LEMMA PausesStep == ASSUME GuardInv, [CrashGuard!Next]_CrashGuardVars PROVE CrashGuard!PausesSomething
  <1>1. level \in 0..3 /\ changes \in Nat
    BY GuardConstants DEF GuardInv, HeldTypes, CountTypes
  <1>2. CASE level' = level \/ level' = 0
    BY <1>1, <1>2 DEF CrashGuard!PausesSomething
  <1>3. CASE CrashGuard!PageCrashed
    <2>1. CASE CrashGuard!Due /\ level < 3
      <3>1. level' = CrashGuard!NextStep /\ paused' = paused \cup CrashGuard!NewAt(CrashGuard!NextStep)
        BY <1>3, <2>1, GuardConstants DEF CrashGuard!PageCrashed
      <3>2. CrashGuard!NewAt(CrashGuard!NextStep) \cap paused = {}
        BY DEF CrashGuard!NewAt
      <3>3. CrashGuard!NextStep # 3 => paused' # paused
        BY <1>1, <2>1, <3>1, <3>2, NextStepPauses
      <3> QED
        BY <3>1, <3>3, GuardConstants DEF CrashGuard!PausesSomething
    <2>2. CASE ~(CrashGuard!Due /\ level < 3)
      BY <1>2, <1>3, <2>2, GuardConstants DEF CrashGuard!PageCrashed
    <2> QED
      BY <2>1, <2>2
  <1>4. CrashGuard!PageLoaded \/ CrashGuard!ReloadsModules \/ CrashGuard!CoreRestarts \/ CrashGuard!Tick
          \/ CrashGuard!ShowAgain => CrashGuard!PausesSomething
    BY <1>2, <1>3 DEF CrashGuard!PageLoaded, CrashGuard!ReloadsModules, CrashGuard!CoreRestarts, CrashGuard!Tick,
       CrashGuard!ShowAgain, CrashGuard!StartsOver, CrashGuard!guard
  <1>5. \A n \in Guarded : CrashGuard!VideoPlays(n) \/ CrashGuard!Save(n) \/ CrashGuard!RemoveInstance(n)
                             \/ CrashGuard!Toggle(n) => CrashGuard!PausesSomething
    BY <1>2 DEF CrashGuard!VideoPlays, CrashGuard!Save, CrashGuard!RemoveInstance, CrashGuard!Toggle,
       CrashGuard!Release, CrashGuard!StartsOver, CrashGuard!guard
  <1>6. \A s \in SUBSET Guarded : CrashGuard!Installed(s) => CrashGuard!PausesSomething
    BY <1>2 DEF CrashGuard!Installed, CrashGuard!guard
  <1>7. PageActs \/ UNCHANGED CrashGuardVars => CrashGuard!PausesSomething
    BY <1>2, PageActsOnly DEF CrashGuardVars
  <1> QED
    BY <1>4, <1>5, <1>6, <1>7, GuardCases

(* No crash is spent on a step that changes nothing: each step below the last pauses an instance that was not paused
   (the first part of StepsHelp, for any modules, layers and videos: after_crash, to_pause). *)
THEOREM StepsAlwaysPause == Spec => [][part = "guard" => CrashGuard!PausesSomething]_vars
  <1> DEFINE Inv == part = "guard" => GuardInv
             Step == part = "guard" => CrashGuard!PausesSomething
  <1>1. Init => Inv
    BY GuardInit DEF Init
  <1>2. Inv /\ [Next]_vars => Inv' /\ Step
    BY StepOfPart, GuardStep, PausesStep
  <1>3. Inv /\ [Next]_vars => [Step]_vars
    BY <1>2
  <1> QED
    BY <1>1, <1>2, <1>3, PTL DEF Spec
=============================================================================
