------------------------------ MODULE PageBuilder ------------------------------
(***************************************************************************)
(* The storefront's page builder (app/dev/page-builder): a page of the     *)
(* browser that edits a list of sections, and the server action that       *)
(* checks them and writes them, with the plugins they need, into           *)
(* landing-page.config.json.  The file can be edited by hand, too.         *)
(***************************************************************************)
EXTENDS Integers, Sequences, FiniteSets, SequencesExt

CONSTANTS Blocks,         \* the kinds of section there are
          Unreadable,     \* those whose fields cannot be read: edited as raw JSON
          Plugins,        \* the plugins there are
          RequiredPlugin, \* the plugins (one or none) that a block requires
          MaxSections,    \* how long a page gets
          MaxIds          \* how many sections are made

ASSUME BuilderAssumption ==
  /\ Unreadable \subseteq Blocks
  /\ RequiredPlugin \in [Blocks -> SUBSET Plugins]
  /\ MaxSections \in Nat /\ MaxIds \in Nat /\ MaxSections <= MaxIds

VARIABLES
  broken,       \* a save failed: the framework shows its error page instead
  sections,     \* the page's sections, each with its localId
  idCounter,    \* the last localId that was given
  saveErrors,   \* the errors of the last save, by position
  saveSuccess,  \* "Saved" is on display
  saving,       \* the save under way
  config,       \* landing-page.config.json
  editedSince,  \* history: the page was edited while its save was under way
  retyped       \* history: raw JSON has given a section another localId

builderVars ==
  <<broken, sections, idCounter, saveErrors, saveSuccess, saving, config, editedSince, retyped>>
outcome == <<broken, saveErrors, saving, config>>
editor == <<sections, idCounter, retyped>>

\* complete: every field that the block's schema requires has a value of its kind.
Content == [block : Blocks, complete : BOOLEAN]
Section == [id : 1 .. MaxIds, block : Blocks, complete : BOOLEAN]
Config == [sections : Seq(Content), plugins : SUBSET Plugins]
NotSaving == [phase |-> "no", sections |-> << >>, plugins |-> {}, errors |-> {}]

Ids == {sections[i].id : i \in DOMAIN sections}
Complete(b) == IF b \in Unreadable THEN {TRUE} ELSE BOOLEAN
\* findIndex: the first section with the id.
IndexOf(id) == CHOOSE i \in DOMAIN sections :
                 sections[i].id = id /\ \A j \in 1 .. i - 1 : sections[j].id # id
\* filter: the sections with another id, in their order.
Nth(positions, k) == CHOOSE i \in positions : Cardinality({j \in positions : j <= i}) = k
Without(id) ==
  LET kept == {i \in DOMAIN sections : sections[i].id # id}
  IN  [k \in 1 .. Cardinality(kept) |-> sections[Nth(kept, k)]]
toConfigSections(page) == [i \in DOMAIN page |-> [block |-> page[i].block, complete |-> page[i].complete]]
Required(page) == UNION {RequiredPlugin[page[i].block] : i \in DOMAIN page}
\* Fault: plugins that are enabled by hand are taken to be enough.
mergePluginsFault(existing, page) == IF existing # {} THEN existing ELSE Required(page)
\* Adds what the sections require, and never removes anything.
mergePlugins(existing, page) == existing \cup Required(page)
validateAllSections(page) == {[index |-> i, block |-> page[i].block] : i \in {j \in DOMAIN page : ~page[j].complete}}
----------------------------------------------------------------------------
\* Fault: the note of success stays.
EditedFault(page) ==
  /\ ~broken
  /\ sections' = page
  /\ UNCHANGED saveSuccess
  /\ editedSince' = (editedSince \/ saving # NotSaving)
  /\ UNCHANGED outcome

\* Every edit takes the note of success away; the errors stay.
Edited(page) ==
  /\ ~broken
  /\ sections' = page
  /\ saveSuccess' = FALSE
  /\ editedSince' = (editedSince \/ saving # NotSaving)
  /\ UNCHANGED outcome

\* A new section has the default values of its fields: empty texts, which a required
\* field does not accept, or values that are complete.
addBlock(b) ==
  /\ Len(sections) < MaxSections /\ idCounter < MaxIds
  /\ idCounter' = idCounter + 1
  /\ \E c \in Complete(b) : Edited(Append(sections, [id |-> idCounter + 1, block |-> b, complete |-> c]))
  /\ UNCHANGED retyped

removeBlock(id) == Edited(Without(id)) /\ UNCHANGED <<idCounter, retyped>>

\* The arrow is disabled at either end.
moveBlock(id, direction) ==
  LET i == IndexOf(id)
      j == i + direction
  IN  /\ j \in DOMAIN sections
      /\ Edited([sections EXCEPT ![i] = sections[j], ![j] = sections[i]])
      /\ UNCHANGED <<idCounter, retyped>>

\* The dragged section goes before the one it is dropped on, as this is counted once the
\* dragged one is gone.
reorderByDrag(dragged, target) ==
  LET rest == Without(dragged)
      before == CHOOSE i \in DOMAIN rest :
                  rest[i].id = target /\ \A j \in 1 .. i - 1 : rest[j].id # target
  IN  /\ dragged # target
      /\ Edited(InsertAt(rest, before, sections[IndexOf(dragged)]))
      /\ UNCHANGED <<idCounter, retyped>>

updateFieldValue(id) ==
  /\ sections[IndexOf(id)].block \notin Unreadable
  /\ \E c \in BOOLEAN : Edited([i \in DOMAIN sections |->
       IF sections[i].id = id THEN [sections[i] EXCEPT !.complete = c] ELSE sections[i]])
  /\ UNCHANGED <<idCounter, retyped>>

\* The JSON text replaces all of the section that it names, its block and its localId too.
replaceSectionProps(id, b, newId) ==
  /\ sections[IndexOf(id)].block \in Unreadable
  /\ \E c \in Complete(b) : Edited([i \in DOMAIN sections |->
       IF sections[i].id = id THEN [id |-> newId, block |-> b, complete |-> c] ELSE sections[i]])
  /\ retyped' = (retyped \/ newId # id)
  /\ UNCHANGED idCounter

\* The save button is disabled while a save is under way.
handleSave ==
  /\ ~broken /\ saving = NotSaving
  /\ saving' = [NotSaving EXCEPT !.phase = "sent", !.sections = toConfigSections(sections)]
  /\ saveErrors' = {} /\ saveSuccess' = FALSE
  /\ editedSince' = FALSE
  /\ UNCHANGED <<broken, editor, config>>

\* The server action: errors are the answer, or the file is read ...
Validate ==
  LET errors == validateAllSections(saving.sections) IN
  /\ saving.phase = "sent"
  /\ saving' = IF errors # {}
               THEN [saving EXCEPT !.phase = "refused", !.errors = errors]
               ELSE [saving EXCEPT !.phase = "read", !.plugins = config.plugins]
  /\ UNCHANGED <<broken, editor, saveErrors, saveSuccess, config, editedSince>>

\* ... and replaced, whole, by a rename.
WriteConfig ==
  /\ saving.phase = "read"
  /\ config' = [sections |-> saving.sections,
                plugins |-> mergePlugins(saving.plugins, saving.sections)]
  /\ saving' = [saving EXCEPT !.phase = "written"]
  /\ UNCHANGED <<broken, editor, saveErrors, saveSuccess, editedSince>>

SaveAnswered ==
  /\ saving.phase \in {"refused", "written"}
  /\ saving' = NotSaving
  /\ saveSuccess' = (saving.phase = "written")
  /\ saveErrors' = saving.errors
  /\ UNCHANGED <<broken, editor, config, editedSince>>

\* The request, the work on the file or the answer fails.  Nothing catches it: the page
\* is replaced by an error page, and its edits are gone.
SaveFails ==
  /\ saving # NotSaving
  /\ saving' = NotSaving
  /\ broken' = TRUE /\ saveSuccess' = FALSE
  /\ UNCHANGED <<editor, saveErrors, config, editedSince>>

\* The page is loaded anew, from the file.
loadBuilderData ==
  /\ saving = NotSaving
  /\ sections' = [i \in DOMAIN config.sections |->
                    [id |-> i, block |-> config.sections[i].block, complete |-> config.sections[i].complete]]
  /\ idCounter' = Len(config.sections)
  /\ broken' = FALSE /\ saveErrors' = {} /\ saveSuccess' = FALSE
  /\ editedSince' = FALSE /\ retyped' = FALSE
  /\ UNCHANGED <<saving, config>>

\* A plugin that the page does not need is turned on, or off, in the file.
EditByHand(p) ==
  /\ p \notin Required(config.sections)
  /\ config' = [config EXCEPT !.plugins = IF p \in @ THEN @ \ {p} ELSE @ \cup {p}]
  /\ UNCHANGED <<broken, editor, saveErrors, saveSuccess, saving, editedSince>>

BuilderInit ==
  /\ broken = FALSE
  /\ sections = << >> /\ idCounter = 0
  /\ saveErrors = {} /\ saveSuccess = FALSE
  /\ saving = NotSaving
  /\ config = [sections |-> << >>, plugins |-> {}]
  /\ editedSince = FALSE /\ retyped = FALSE

BuilderNext ==
  \/ \E b \in Blocks : addBlock(b)
  \/ \E id \in Ids : removeBlock(id) \/ updateFieldValue(id) \/ moveBlock(id, -1) \/ moveBlock(id, 1)
  \/ \E id, target \in Ids : reorderByDrag(id, target)
  \/ \E id \in Ids, b \in Blocks, newId \in 1 .. idCounter : replaceSectionProps(id, b, newId)
  \/ handleSave \/ Validate \/ WriteConfig \/ SaveAnswered \/ SaveFails \/ loadBuilderData
  \/ \E p \in Plugins : EditByHand(p)
----------------------------------------------------------------------------
\* Local ids tell the sections of a page apart, so that an edit reaches one of them and a
\* drag loses none; raw JSON that brings a localId along breaks it.
IdsDistinct ==
  \/ retyped
  \/ \A i, j \in DOMAIN sections : sections[i].id = sections[j].id => i = j

\* The file enables every plugin that one of its sections requires.
PluginsCoverSections == Required(config.sections) \subseteq config.plugins

BuilderTypeOK ==
  /\ broken \in BOOLEAN
  /\ sections \in Seq(Section) /\ Len(sections) <= MaxSections
  /\ idCounter \in 0 .. MaxIds /\ \A i \in DOMAIN sections : sections[i].id <= idCounter
  /\ IdsDistinct
  /\ saveSuccess \in BOOLEAN /\ editedSince \in BOOLEAN /\ retyped \in BOOLEAN
  /\ saving.phase \in {"no", "sent", "read", "written", "refused"}
  /\ config \in Config /\ PluginsCoverSections

\* "Saved" is on display only while the file holds the page, as long as the page was not
\* edited during the save (the answer would bring the note back).
SavedMeansSaved ==
  saveSuccess /\ ~editedSince => config.sections = toConfigSections(sections)
==============================================================================
