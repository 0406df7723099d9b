------------------------------ MODULE DeskWords ------------------------------
(***************************************************************************)
(* The words in which the pages of the two web applications are described. *)
(* A page (or one section of a page that has several) is a desk: a record  *)
(* of the lists it shows, the panels (forms, dialogs, inline editors) it   *)
(* opens, the calls its handlers send to the backend and the buttons that  *)
(* start them.  Desks.tla is the machine that runs a desk.                 *)
(*                                                                         *)
(* One row stands for the data.  A column is a group of the row's fields   *)
(* that the code treats alike:                                             *)
(*   active, flag   switches (is_active, show_on_homepage, a status)       *)
(*   text           fields that are always sent as typed                   *)
(*   note           optional fields, of which some handlers leave out an   *)
(*                  empty one (`x || undefined`)                           *)
(*   number         a quantity the backend changes on its own              *)
(***************************************************************************)
EXTENDS Naturals, FiniteSets

Columns == {"active", "flag", "text", "note", "number"}

\* Where the value of a column in a request comes from:
\*   "typed"    the panel's field, also when it is empty
\*   "filled"   the panel's field, left out of the request when it is empty
\*   "flipped"  the opposite of the value in the list
\*   "on"/"off" a constant of the handler
\*   "reversed" none: the backend takes the opposite of its own value
\*   "added"    a difference: the backend adds it to its own value
Origins == {"typed", "filled", "flipped", "on", "off", "reversed", "added"}

(***************************************************************************)
(* A call: what the request does to the row ("other": nothing) and what it *)
(* carries; when the page offers it: which columns must be 0 (needs) or 1  *)
(* (wants), whether the backend checks the former too (checked: a decision *)
(* that was made stays made), whether it waits for the lists to be loaded, *)
(* for there to be no row (absent), and for a value other than the one on  *)
(* display (differs); whether the page itself may refuse what was typed    *)
(* (validates); what the handler does at once (takes messages away, shuts  *)
(* panels), when it succeeds (asks for lists again, patches its own copy,  *)
(* closes, opens, empties or fills panels, takes messages away, leaves the *)
(* page), and when it fails (the messages it shows, the panels it drops);  *)
(* after which of the two the button is enabled again; and the mutation or *)
(* flag it shares with other calls (via).  A call that opens a panel fills *)
(* it with the row it fetched.                                             *)
(***************************************************************************)
Call == [does |-> "change", sends |-> << >>, needs |-> {}, wants |-> {}, checked |-> FALSE,
         loaded |-> FALSE, absent |-> FALSE, differs |-> FALSE, validates |-> FALSE,
         starts |-> {}, shuts |-> {},
         refetches |-> {}, patches |-> "no", closes |-> {}, opens |-> {}, empties |-> {},
         fills |-> {}, clears |-> {}, leaves |-> FALSE,
         reports |-> {}, drops |-> {}, frees |-> {"ok", "failed"}, via |-> "own"]

(***************************************************************************)
(* A panel: what its fields hold.  "row": the row as displayed when the    *)
(* panel opens; "call": the row as fetched by the call that opens it;      *)
(* "once": the row as it first appeared; "sync": the row whenever a list   *)
(* brings new data; "load": the row whenever a list was loaded; "none":    *)
(* the fields of a new row, or none.  Which panels opening it shuts and    *)
(* which messages it takes away; which messages Cancel takes away, whether *)
(* Cancel empties the panel, and whether it is disabled while the panel's  *)
(* own calls are pending; and whether the panel stands open from the       *)
(* start, without Cancel.                                                  *)
(***************************************************************************)
Panel == [fills |-> "none", shuts |-> {}, cleans |-> {}, cancels |-> {},
          empties |-> FALSE, held |-> FALSE, stays |-> FALSE]

\* A button is in the list or in a panel, and disabled while one of some mutations (those
\* named like a call, or by `via`) is pending.
Button(place, waits) == [in |-> place, waits |-> waits]

\* A list is kept by react-query under a key ("cached") or by the page ("kept").  The
\* rows with the buttons come from one of them; turns: it has pages, filters or a search.
Desk(lists, rows, turns, panels, buttons, handlers) ==
  [name |-> "", lists |-> lists, rows |-> rows, turns |-> turns, panels |-> panels,
   buttons |-> buttons, calls |-> handlers]

\* Many pages: one cached list, named like its key.
Page(key, turns, panels, buttons, handlers) ==
  Desk([l \in {key} |-> "cached"], key, turns, panels, buttons, handlers)

NoPanels == << >>
NoButtons == << >>
NoCalls == << >>
----------------------------------------------------------------------------
\* Calls and panels that many pages have.
Changed(key) == [Call EXCEPT !.refetches = {key}]
Deleted(key) == [Changed(key) EXCEPT !.does = "delete"]
Toggle(key, column) == [Changed(key) EXCEPT !.sends = [f \in {column} |-> "flipped"]]
Created(key, form) ==
  [Changed(key) EXCEPT !.does = "create", !.closes = {form}, !.clears = {"error"},
                       !.reports = {"error"}]
Edited(key, editor, sends) ==
  [Changed(key) EXCEPT !.sends = sends, !.closes = {editor}, !.clears = {"error"},
                       !.reports = {"error"}]
\* A decision about a row whose status is still open (active = 0).
Decided(key, sends) ==
  [Changed(key) EXCEPT !.sends = sends, !.needs = {"active"}, !.checked = TRUE]
Form == Panel
Editor == [Panel EXCEPT !.fills = "row"]
Dialog == Editor
Standing(fills) == [Panel EXCEPT !.fills = fills, !.stays = TRUE]

\* A page that is only a form.
Submitted == [Call EXCEPT !.does = "other", !.starts = {"error"}, !.reports = {"error"}]
FormPage(call) ==
  Desk(NoCalls, "none", FALSE, [form |-> Standing("none")], [submit |-> Button("form", {"submit"})],
       [submit |-> call])
==============================================================================
