-------------------------------- MODULE Files --------------------------------
(***************************************************************************)
(* The files the owner uploads for a module (files.py): written by the core *)
(* in a folder that the module's own process reads and may change, each     *)
(* with a small copy for the admin page.                                    *)
(***************************************************************************)
EXTENDS Naturals, Sequences, FiniteSets

CONSTANTS Photos,     \* what is uploaded
          Names,      \* the names a photo's own may become: name, name-2, ... in their order
          MaxFiles,   \* the setting's max_files
          Scenes      \* of a behaviour: whether small copies are sent, whether writing one may fail, how often the
                      \* power is cut or the core ends

VARIABLES folder,   \* files/<key>: what each name holds
          thumbs,   \* files/.thumbs/<key>: of which photo the small copy is
          half,     \* temporary files: .upload-...
          task,     \* the request the core is in the middle of
          todo,     \* photos not uploaded yet, each with a small copy or without
          scene

vars == <<folder, thumbs, half, task, todo, scene>>

Nothing == "nothing"
Own == "own"  \* a file the module put there itself

FilesAssumption ==
  /\ Photos \cap {Nothing, Own} = {} /\ Len(Names) \in Nat \ {0} /\ MaxFiles \in Nat
  /\ Scenes \subseteq [thumbs : SUBSET BOOLEAN, fails : BOOLEAN, cuts : Nat]

NoTask == [op |-> "none", photo |-> Nothing, thumb |-> FALSE, name |-> 0]
Numbers == 1..Len(Names)

Init == /\ folder = [n \in Numbers |-> Nothing] /\ thumbs = [n \in Numbers |-> Nothing] /\ half = {} /\ task = NoTask
        /\ todo = Photos /\ scene \in Scenes

-----------------------------------------------------------------------------
(* upload_file. Its part after the form is read awaits nothing: one request *)
(* at a time, but the module's process goes on, and the core may end.        *)

Listed == {n \in Numbers : folder[n] # Nothing}
\* list_files and max_files, then _write_temporary.
Uploads(photo, thumb) ==
  /\ task = NoTask /\ thumb \in scene.thumbs /\ photo \in todo /\ todo' = todo \ {photo} /\ Cardinality(Listed) < MaxFiles
  /\ task' = [op |-> "writes", photo |-> photo, thumb |-> thumb, name |-> 1] /\ half' = half \cup {photo}
  /\ UNCHANGED <<folder, thumbs, scene>>
\* store: the first name that link doesn't find there.
Links_Replaces ==  \* (mutant) the name was free when the folder was listed
  /\ task.op = "writes" /\ folder' = [folder EXCEPT ![task.name] = task.photo] /\ task' = [task EXCEPT !.op = "linked"]
  /\ UNCHANGED <<thumbs, half, todo, scene>>
Links ==
  /\ task.op = "writes" /\ folder[task.name] = Nothing
  /\ folder' = [folder EXCEPT ![task.name] = task.photo] /\ task' = [task EXCEPT !.op = "linked"]
  /\ UNCHANGED <<thumbs, half, todo, scene>>
NextName == /\ task.op = "writes" /\ folder[task.name] # Nothing
            /\ task' = IF task.name = Len(Names) THEN NoTask ELSE [task EXCEPT !.name = @ + 1]
            /\ half' = IF task.name = Len(Names) THEN half \ {task.photo} ELSE half
            /\ UNCHANGED <<folder, thumbs, todo, scene>>
Unlinks == /\ task.op = "linked" /\ half' = half \ {task.photo}
           /\ task' = IF task.thumb THEN [task EXCEPT !.op = "thumb"] ELSE NoTask
           /\ UNCHANGED <<folder, thumbs, todo, scene>>
\* store_thumb: replaced whole, whatever was there. A failure is logged: the page shows the photo itself.
StoresThumb == /\ task.op = "thumb" /\ task' = NoTask
               /\ \/ thumbs' = [thumbs EXCEPT ![task.name] = task.photo]
                  \/ scene.fails /\ UNCHANGED thumbs
               /\ UNCHANGED <<folder, half, todo, scene>>

-----------------------------------------------------------------------------
(* delete_file, the module, and the core's end.                            *)

Deletes(n) == /\ task = NoTask /\ folder[n] # Nothing /\ folder' = [folder EXCEPT ![n] = Nothing]
              /\ task' = [NoTask EXCEPT !.op = "deleted", !.name = n] /\ UNCHANGED <<thumbs, half, todo, scene>>
DeletesThumb_Kept ==  \* (mutant) the small copy stays
  /\ task.op = "deleted" /\ task' = NoTask /\ UNCHANGED <<folder, thumbs, half, todo, scene>>
DeletesThumb ==
  /\ task.op = "deleted" /\ task' = NoTask /\ thumbs' = [thumbs EXCEPT ![task.name] = Nothing]
  /\ UNCHANGED <<folder, half, todo, scene>>

\* The folder is the instance's once it has started.
ModulePuts(n) == folder[n] = Nothing /\ folder' = [folder EXCEPT ![n] = Own] /\ UNCHANGED <<thumbs, half, task, todo, scene>>
Cuts == scene.cuts > 0 /\ task # NoTask /\ scene' = [scene EXCEPT !.cuts = @ - 1] /\ task' = NoTask /\ UNCHANGED <<folder, thumbs, half, todo>>

Next == \/ \E photo \in Photos, thumb \in BOOLEAN : Uploads(photo, thumb)
        \/ Links \/ NextName \/ Unlinks \/ StoresThumb \/ DeletesThumb \/ Cuts
        \/ \E n \in Numbers : Deletes(n) \/ ModulePuts(n)
Spec == Init /\ [][Next]_vars

-----------------------------------------------------------------------------
(* What must hold.                                                         *)

\* "An existing file is never replaced", the module's own neither, though it may put one there at any moment (store).
ReplacesNone == \A n \in Numbers : folder[n] # Nothing => folder'[n] \in {folder[n], Nothing}

\* The page shows the photo it lists: a small copy is of the file of its name, whatever was deleted and uploaded again.
ThumbIsOwn == \A n \in Numbers : folder[n] \in Photos /\ thumbs[n] # Nothing /\ task.name # n => thumbs[n] = folder[n]
=============================================================================
