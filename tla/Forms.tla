-------------------------------- MODULE Forms --------------------------------
(***************************************************************************)
(* A module's settings form: drawn from its schema and what is saved        *)
(* (forms.py, schema_form.html), edited in the drawer (admin.js), posted as *)
(* flat fields, read back, typed, checked and saved (modules/routes.py), and *)
(* given to the instance with its defaults (modules/defaults.py). The schema *)
(* has a switch, a number, a list of choices and a list of rows.            *)
(***************************************************************************)
EXTENDS Integers, Sequences, SequencesExt, FiniteSets

CONSTANTS Boxes,      \* of the checkbox list
          Texts,        \* of a row's field
          Default,      \* the schema's defaults: [on, count, tags, rows]
          Maximum,      \* of the number
          MaxRows, MaxEdits  \* bounds: rows on the page, edits between two saves

VARIABLES saved,  \* the settings of the instance: a value or Unset by key
          page,   \* the drawer: [on, count, tags, rows: <<[at, text], ...>>], a row's index being in its fields' names
          asked,  \* rows asked for with Add (add-array-item) and not there yet: their indexes
          edits,  \* edits since the page was drawn or saved
          stale   \* the settings were changed elsewhere since

vars == <<saved, page, asked, edits, stale>>

Unset == [unset |-> TRUE]
Blank == -1  \* an empty number box
NoText == ""  \* an empty field's, and the hidden placeholder's
Keys == {"on", "count", "tags", "rows"}

\* The defaults are of the schema's types; no choice is the hidden placeholder.
FormsAssumption ==
  /\ Maximum \in Nat /\ MaxRows \in Nat /\ MaxEdits \in Nat /\ IsFiniteSet(Boxes) /\ NoText \notin Boxes
  /\ Default.on \in BOOLEAN /\ Default.count \in Int /\ Default.tags \subseteq Boxes
  /\ Default.rows \in Seq(Texts) /\ Len(Default.rows) <= MaxRows

Value(v) == [is |-> v]
Given(key) == IF saved[key] = Unset THEN Default[key] ELSE saved[key].is

\* render_schema_form: what is saved, or else the schema's default.
Draws == [on |-> Given("on"), count |-> Given("count"), tags |-> Given("tags"),
          rows |-> [i \in DOMAIN Given("rows") |-> [at |-> i, text |-> Given("rows")[i]]]]
\* with_defaults: what the instance is started with.
Runs == [key \in Keys |-> Given(key)]
Shown == [on |-> page.on, count |-> page.count, tags |-> page.tags, rows |-> [i \in DOMAIN page.rows |-> page.rows[i].text]]

Init == /\ saved = [key \in Keys |-> Unset] /\ page = Draws /\ asked = <<>> /\ edits = 0 /\ stale = FALSE

Edits(next) == edits < MaxEdits /\ edits' = edits + 1 /\ page' = next /\ UNCHANGED <<saved, stale>>

-----------------------------------------------------------------------------
(* The drawer.                                                             *)

Opens == edits > 0 /\ page' = Draws /\ asked' = <<>> /\ edits' = 0 /\ stale' = FALSE /\ UNCHANGED saved
Switches == Edits([page EXCEPT !.on = ~@]) /\ UNCHANGED asked
Types == (\E count \in {Blank, 1, Maximum + 1} : Edits([page EXCEPT !.count = count])) /\ UNCHANGED asked
Ticks == (\E choice \in Boxes : Edits([page EXCEPT !.tags = (@ \ {choice}) \cup ({choice} \ @)])) /\ UNCHANGED asked
Fills == (\E i \in DOMAIN page.rows, text \in Texts : Edits([page EXCEPT !.rows[i].text = text])) /\ UNCHANGED asked

\* reindexArrayContainer: each row takes its new place in the names of its fields.
Reindexed(rows) == [i \in DOMAIN rows |-> [rows[i] EXCEPT !.at = i]]
\* moveArrayItem, the Remove button, and Add: its index is the number of rows when it is pressed.
Moves == /\ \E i \in 2..Len(page.rows) : Edits([page EXCEPT !.rows = Reindexed([@ EXCEPT ![i] = page.rows[i - 1], ![i - 1] = page.rows[i]])])
         /\ UNCHANGED asked
Removes == (\E i \in DOMAIN page.rows : Edits([page EXCEPT !.rows = Reindexed(RemoveAt(@, i))])) /\ UNCHANGED asked
Adds == /\ Len(page.rows) + Len(asked) < MaxRows /\ Edits(page) /\ asked' = Append(asked, Len(page.rows) + 1)
Arrives_AsAsked ==  \* (mutant) the row that comes keeps the index it was asked with
  /\ asked # <<>> /\ page' = [page EXCEPT !.rows = Append(@, [at |-> Head(asked), text |-> NoText])] /\ asked' = Tail(asked)
  /\ edits' = IF edits = 0 THEN 1 ELSE edits
  /\ UNCHANGED <<saved, stale>>
Arrives ==
  /\ asked # <<>> /\ page' = [page EXCEPT !.rows = Reindexed(Append(@, [at |-> Head(asked), text |-> NoText]))] /\ asked' = Tail(asked)
  /\ edits' = IF edits = 0 THEN 1 ELSE edits
  /\ UNCHANGED <<saved, stale>>

-----------------------------------------------------------------------------
(* Save: what is posted, read back.                                        *)

\* The fields in the page's order: a switch has a hidden "false" before it, a list of choices a hidden NoText.
\* read_form: a name posted again makes a list of its values.
PostedSwitch == <<"false">> \o (IF page.on THEN <<"true">> ELSE <<>>)
PostedBoxes == <<NoText>> \o SetToSeq(page.tags)
\* The n-th of a set of places.
Nth(places, n) == CHOOSE x \in places : Cardinality({y \in places : y < x}) = n - 1
PostedAt(at) == LET rows == {i \in DOMAIN page.rows : page.rows[i].at = at}
                IN  [n \in 1..Cardinality(rows) |-> page.rows[Nth(rows, n)].text]

\* _merge_repeated_form_values: one text, or the list without the hidden placeholder.
Merged(texts) == IF Len(texts) = 1 THEN texts[1] ELSE SelectSeq(texts, LAMBDA text : text # NoText)
\* parse_flat_form_data and clean_nested_structures: the rows by their indexes, without the gaps. No field, no key.
ParsedRows == LET ats == {at \in 1..MaxRows : PostedAt(at) # <<>>}
              IN  [i \in 1..Cardinality(ats) |-> Merged(PostedAt(Nth(ats, i)))]
\* cast_values_by_schema: the types of the schema.
Parsed == [on |-> Value("true" \in Range(PostedSwitch)), count |-> Value(page.count),
           tags |-> Value(Range(PostedBoxes) \ {NoText}), rows |-> IF ParsedRows = <<>> THEN Unset ELSE Value(ParsedRows)]

\* validate_config (an integer) and check_setting_rules (its maximum), both before anything is saved. A blank number stays text.
Passes(settings) == settings.count.is \in 0..Maximum
Saves == /\ edits > 0 /\ Passes(Parsed) /\ saved' = Parsed /\ edits' = 0 /\ stale' = FALSE /\ UNCHANGED <<page, asked>>
\* The 400's text is shown, the page stays as it is.
Refused == edits > 0 /\ ~Passes(Parsed) /\ UNCHANGED vars
\* set_instances_enabled: the switch of the list of modules, or MQTT's.
Toggles == ~stale /\ saved' = [saved EXCEPT !["on"] = Value(~Given("on"))] /\ stale' = TRUE /\ UNCHANGED <<page, asked, edits>>

Next == \/ Opens \/ Switches \/ Types \/ Ticks \/ Fills \/ Moves \/ Removes \/ Adds \/ Arrives \/ Saves \/ Refused \/ Toggles
Spec == Init /\ [][Next]_vars

-----------------------------------------------------------------------------
(* What must hold.                                                         *)

\* A page just drawn or saved shows what the instance runs with: every row, in its place, and what was unticked or
\* removed stays so. A row that was asked for twice or moved meanwhile doesn't mix with another.
ShownIsSaved == edits = 0 /\ ~stale /\ asked = <<>> => Shown = Runs
=============================================================================
