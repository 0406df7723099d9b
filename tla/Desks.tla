-------------------------------- MODULE Desks --------------------------------
(***************************************************************************)
(* One person at one desk: a page of the admin panel, or an account page   *)
(* of the storefront, with its lists, panels and buttons (DeskWords), the  *)
(* requests it has in flight, and the one row they are about, which other  *)
(* people may change.  Requests are served, and answers arrive, in any     *)
(* order.  What a page does differently from other pages is in its         *)
(* description; what they share is here.                                   *)
(*                                                                         *)
(* Lists kept by react-query ("cached"): invalidating a key that is on     *)
(* screen drops the answer it waits for and asks again, except that a      *)
(* first load is left to finish.  Lists the page loads itself ("kept"):    *)
(* each load is on its own, and the answer that comes last stays.          *)
(***************************************************************************)
EXTENDS DeskWords

CONSTANTS DeskNames,     \* the desks that are looked at
          Description(_),   \* the record that describes a desk
          MaxPresses,    \* how many buttons are pressed
          MaxEvents      \* how often something else happens (a change by somebody else,
                         \* a focused window, another page of the list)
CONSTANTS Racing,        \* columns in which calls of one page may overtake one another,
          Unset,         \* columns that a person cannot empty,
          Unrefreshed,   \* lists that a change on the page does not reach, and
          Lingering,     \* messages that outlive a success,
          Stale,         \* and editors that keep old values, each per desk,
          Resubmitted    \* and desks with forms that can be submitted twice: the pages
                         \* whose code is like that are named by who uses this module

Bit == {0, 1}
Free == 2           \* nothing this person did says what the column must be
Facts == Columns \cup {"here"}
Rows == [Facts -> Bit]
NotLoaded == [c \in Facts |-> Free]
Unread == NotLoaded
CallIds == 1 .. MaxPresses
ReadIds == 1 .. MaxPresses + MaxEvents + 1
Empty == [c \in Columns |-> 0]
NewRow == [f \in Facts |-> IF f = "here" THEN 1 ELSE 0]
NoCall == [name |-> "none", phase |-> "none", sent |-> << >>]

VARIABLES
  desk,     \* the record that describes the desk
  left,     \* the person went on to another page: nothing that still arrives matters
  row,      \* the backend's row; row["here"] = 0 when there is none
  gone,     \* the row was deleted: the id never comes back
  shown,    \* the row as each list displays it
  reads,    \* loads in flight: the list, and the answer once the backend read it
  late,     \* lists that may display an older answer (see Restart)
  open,     \* the open panels
  typed,    \* what the fields of each panel hold
  errors,   \* the messages on display
  due,      \* the calls whose last answer was a failure
  calls,    \* the calls in flight
  busy,     \* the mutations that count as pending
  asked,    \* the value this person's calls want each column to have, or Free
  pressed,  \* how many buttons were pressed
  events    \* how often something else happened

backend == <<row, gone>>
screen == <<shown, reads, late>>
panels == <<open, typed, errors, due>>
requests == <<calls, busy, asked>>
counts == <<pressed, events>>
vars == <<desk, left, backend, screen, panels, requests, counts>>

----------------------------------------------------------------------------
(***************************************************************************)
(* What the descriptions d of the desks keep to, wherever the tables above *)
(* do not say otherwise.                                                   *)
(***************************************************************************)
Listed(table, n) == IF n \in DOMAIN table THEN table[n] ELSE {}
ViaOf(d, c) == IF d.calls[c].via = "own" THEN c ELSE d.calls[c].via
Sent(d, c) == DOMAIN d.calls[c].sends
Place(d, c) == d.buttons[c].in
Changes(d, f) == {c \in DOMAIN d.calls : d.calls[c].does = "change" /\ f \in Sent(d, c)}

\* A call sends columns, and what it takes from a panel or from the display is there.
WellMade(d) ==
  \A c \in DOMAIN d.calls :
    /\ c # "none" /\ d.calls[c].leaves \in BOOLEAN
    /\ d.calls[c].needs \subseteq Columns
    /\ d.calls[c].opens \subseteq {p \in DOMAIN d.panels : d.panels[p].fills = "call"}
    /\ \A f \in Sent(d, c) :
         /\ f \in Columns
         /\ d.calls[c].sends[f] \in Origins
         /\ d.calls[c].sends[f] \in {"typed", "filled"} => Place(d, c) \in DOMAIN d.panels
         /\ d.calls[c].sends[f] \in {"flipped", "reversed"} =>
              /\ d.calls[c].does = "change"
              /\ \/ Place(d, c) = "list"
                 \/ d.panels[Place(d, c)].fills \in {"once", "sync", "load"}

\* Every button of a mutation is disabled while the mutation is pending, and calls whose
\* buttons wait for one another's mutations are never in flight together.
Locked(d, v) == \A c \in DOMAIN d.calls : ViaOf(d, c) = v => v \in d.buttons[c].waits
Apart(d, a, b) ==
  /\ Locked(d, ViaOf(d, a)) /\ ViaOf(d, a) \in d.buttons[b].waits
  /\ Locked(d, ViaOf(d, b)) /\ ViaOf(d, b) \in d.buttons[a].waits

\* Two calls of which it does not matter which comes first, and two decisions of which the
\* backend carries out only one.
SameConstant(d, a, b, f) == d.calls[a].sends[f] = d.calls[b].sends[f] /\ d.calls[a].sends[f] \in {"on", "off"}
Exclusive(d, a, b) ==
  /\ d.calls[a].checked /\ d.calls[b].checked
  /\ \E g \in d.calls[a].needs \cap d.calls[b].needs :
       /\ g \in Sent(d, a) \cap Sent(d, b)
       /\ d.calls[a].sends[g] = "on" /\ d.calls[b].sends[g] = "on"

ColumnsKeptApart(n, d) ==
  \A f \in Columns \ Listed(Racing, n) :
    \A a, b \in Changes(d, f) : Apart(d, a, b) \/ SameConstant(d, a, b, f) \/ Exclusive(d, a, b)

\* The backend turns a value around only where the table of races says so, and only blank
\* forms leave empty fields out.
MeaningsSent(n, d) ==
  \A f \in Columns : \A c \in Changes(d, f) :
    /\ d.calls[c].sends[f] = "reversed" => f \in Listed(Racing, n)
    /\ d.calls[c].sends[f] = "filled" =>
         f \in Listed(Unset, n) \/ d.panels[Place(d, c)].fills = "none"

\* What a checked decision needs to be open, changes can only close.
DecisionsStay(d) ==
  \A c \in DOMAIN d.calls : d.calls[c].checked =>
    \A g \in d.calls[c].needs : \A b \in Changes(d, g) : d.calls[b].sends[g] = "on"

\* A success takes away the message of its own failure, or the press did before it.
MessagesTaken(n, d) ==
  \A c \in DOMAIN d.calls : \A e \in d.calls[c].reports \ Listed(Lingering, n) :
    \/ e \in d.calls[c].clears
    \/ d.calls[c].leaves
    \/ e \in d.calls[c].starts /\ Locked(d, ViaOf(d, c))

FormsWait(n, d) ==
  n \in Resubmitted \/ \A c \in DOMAIN d.calls : d.calls[c].does = "create" => Locked(d, ViaOf(d, c))

\* A change reloads the lists of its page, unless the page patches its own copy, is left, or
\* only adds to columns nobody sets.
Patching(d) == \E c \in DOMAIN d.calls : d.calls[c].patches # "no"
ListsReloaded(n, d) ==
  \A c \in DOMAIN d.calls :
    \/ d.calls[c].does = "other" \/ d.calls[c].leaves \/ d.calls[c].patches # "no"
    \/ DOMAIN d.lists \ Listed(Unrefreshed, n) \subseteq d.calls[c].refetches
    \/ /\ d.calls[c].does = "change"
       /\ \A f \in Sent(d, c) : \A b \in Changes(d, f) : d.calls[b].sends[f] = "added"

\* A page that patches its own copy of a list loads that list once, and patches it with every
\* change, whose button it shows next to the row, or in a panel that shows the row or was
\* opened where the row was (ShowsRow).  Calls that change a column wait for each other, and
\* a new row is asked for when the copy is there, or while nothing else is under way.  The
\* pages that do otherwise only change columns of the tables of exceptions.
Editing(d) ==
  {p \in DOMAIN d.panels : ~d.panels[p].stays
                          /\ \E c \in DOMAIN d.calls : d.calls[c].does = "change" /\ Place(d, c) = p}
ShowsRow(d, p) ==
  \/ p = "list"
  \/ /\ p \in DOMAIN d.panels
     /\ IF d.panels[p].stays THEN d.panels[p].fills \in {"once", "sync", "load"}
        ELSE \/ d.panels[p].fills # "none"
             \/ \E c \in DOMAIN d.calls : Place(d, c) = p /\ d.calls[c].needs \cup d.calls[c].wants # {}
PatchesWell(d, c) ==
  LET C == d.calls[c] IN
  /\ d.rows \notin C.refetches
  /\ C.does \in {"change", "create", "delete"} <=> C.patches # "no"
  /\ C.patches \in {"no", "after"} \/ (C.patches = "before" /\ C.does = "change" /\ Place(d, c) = "list")
  /\ C.does = "change" => ShowsRow(d, Place(d, c))
  /\ C.does = "delete" \/ C.opens # {} => Place(d, c) = "list"
  /\ C.opens # {} => C.does = "other"
  /\ C.does = "create" => C.loaded \/ \A b \in DOMAIN d.calls : Apart(d, c, b)
CopyKept(n, d) ==
  /\ DOMAIN d.lists = {d.rows} /\ d.lists[d.rows] = "kept" /\ ~d.turns /\ "list" \notin DOMAIN d.panels
  /\ \A c \in DOMAIN d.calls : PatchesWell(d, c)
  /\ \A f \in Columns \ (Listed(Racing, n) \cup Listed(Unset, n)) :
       \A a, b \in Changes(d, f) :
         Apart(d, a, b) /\ d.calls[a].sends[f] \in {"typed", "flipped", "on", "off"}
OnlyExceptions(n, d) ==
  \A c \in DOMAIN d.calls :
    /\ d.calls[c].does \notin {"create", "delete"}
    /\ d.calls[c].does = "change" => Sent(d, c) \subseteq Listed(Racing, n) \cup Listed(Unset, n)

\* An editor of a row that opens and closes is filled when it opens.
EditorsFilled(n, d) ==
  \A p \in DOMAIN d.panels \ Listed(Stale, n) :
    d.panels[p].stays \/ d.panels[p].fills \notin {"once", "sync"}

\* Every answer enables the buttons of its mutation again, unless the page is left.
ButtonsFreed(d) ==
  \A c \in DOMAIN d.calls : "failed" \in d.calls[c].frees /\ ("ok" \in d.calls[c].frees \/ d.calls[c].leaves)

ASSUME BoundsAssumption == MaxPresses \in Nat /\ MaxEvents \in Nat
ASSUME DescriptionAssumption == \A n \in DeskNames : Description(n).name = n /\ WellMade(Description(n))
ASSUME LocksAssumption ==
  \A n \in DeskNames : FormsWait(n, Description(n)) /\ ColumnsKeptApart(n, Description(n))
ASSUME MeaningAssumption ==
  \A n \in DeskNames : MeaningsSent(n, Description(n)) /\ DecisionsStay(Description(n))
ASSUME ReloadAssumption == \A n \in DeskNames : ListsReloaded(n, Description(n))
ASSUME CopyAssumption ==
  \A n \in DeskNames :
    Patching(Description(n)) => CopyKept(n, Description(n)) \/ OnlyExceptions(n, Description(n))
ASSUME MessageAssumption == \A n \in DeskNames : MessagesTaken(n, Description(n))
ASSUME ButtonsAssumption == \A n \in DeskNames : ButtonsFreed(Description(n))
ASSUME EditorAssumption == \A n \in DeskNames : EditorsFilled(n, Description(n))
----------------------------------------------------------------------------
D == desk
Lists == DOMAIN D.lists
Panels == DOMAIN D.panels
Calls == DOMAIN D.calls

Filled(p) == D.panels[p].fills
Displayed == D.rows \in Lists /\ shown[D.rows]["here"] = 1
DisplayedRow == shown[D.rows]
CallsIn(p) == {c \in Calls : D.buttons[c].in = p}
SentBy(c) == Sent(D, c)
Via(c) == ViaOf(D, c)
Mutations == {Via(c) : c \in Calls}
FieldsOf(p) ==
  {f \in Columns : \E c \in CallsIn(p) : f \in SentBy(c) /\ D.calls[c].sends[f] \in {"typed", "filled"}}
ReadsOf(l) == {r \in reads : r.list = l}
Copied(p, r) == [c \in Columns |-> IF c \in FieldsOf(p) THEN r[c] ELSE 0]
Load(l, i) == [list |-> l, id |-> i, answer |-> Unread]
NewId(l, on) == CHOOSE i \in ReadIds : \A r \in on : r.list = l => r.id # i
AsksAgain(on, again) == reads' = on \cup {Load(l, NewId(l, on)) : l \in again}
----------------------------------------------------------------------------
(***************************************************************************)
(* Asking for lists again.  A read of a cached list that is already on     *)
(* screen is dropped; the others run on, and a list with a read that runs  *)
(* on may end up with an answer older than the change it was reloaded for. *)
(***************************************************************************)
RunsOn(r, ls) == r.list \in ls => D.lists[r.list] = "kept" \/ shown[r.list] = NotLoaded

\* Fault: a list that is being read is not asked for again.
RestartFault(ls, patched) ==
  /\ reads' = reads \cup {Load(l, 1) : l \in {k \in ls : ReadsOf(k) = {}}}
  /\ late' = late
Restart(ls, patched) ==
  LET on == {r \in reads : RunsOn(r, ls)}
      overtaken == {l \in ls : \E r \in on : r.list = l}
      again == {l \in ls : D.lists[l] = "kept" \/ l \notin overtaken}
  IN  /\ AsksAgain(on, again)
      /\ late' = (late \ ls) \cup overtaken \cup {r.list : r \in {q \in on : q.list \in patched}}

\* The backend reads the row for a load.
Answer(r) ==
  /\ ~left
  /\ r.answer = Unread
  /\ reads' = (reads \ {r}) \cup {[r EXCEPT !.answer = row]}
  /\ UNCHANGED <<desk, left, backend, shown, late, panels, requests, counts>>

\* The answer arrives.  Equal data keeps its identity, so that the effect which fills a
\* form from the list only runs when something changed.
Install(r) ==
  /\ ~left
  /\ r.answer # Unread
  /\ reads' = reads \ {r}
  /\ shown' = [shown EXCEPT ![r.list] = r.answer]
  /\ typed' = [p \in Panels |->
                 IF \/ Filled(p) = "sync" /\ shown[r.list] # r.answer
                    \/ Filled(p) = "load"
                    \/ Filled(p) = "once" /\ shown[r.list]["here"] # 1 /\ r.answer["here"] = 1
                 THEN Copied(p, r.answer) ELSE typed[p]]
  /\ UNCHANGED <<desk, left, backend, late, open, errors, due, requests, counts>>

\* A load fails for good (after the retry): the list keeps what it shows.
LoseRead(r) ==
  /\ ~left
  /\ reads' = reads \ {r}
  /\ late' = late \cup {r.list}
  /\ UNCHANGED <<desk, left, backend, shown, panels, requests, counts>>

\* The window gets the focus after the 30 seconds for which an answer counts as fresh.
Refocus(l) ==
  /\ ~left
  /\ events < MaxEvents
  /\ D.lists[l] = "cached"
  /\ ReadsOf(l) = {}
  /\ Restart({l}, {})
  /\ events' = events + 1
  /\ UNCHANGED <<desk, left, backend, shown, panels, requests, pressed>>

\* Another page of the list, another filter or search: another key, or another load next
\* to those that still run.
Turn ==
  /\ ~left
  /\ D.turns
  /\ events < MaxEvents
  /\ LET kept == {r \in reads : D.lists[r.list] = "kept"}
     IN  /\ AsksAgain(kept, Lists)
         /\ late' = {r.list : r \in kept}
  /\ shown' = [l \in Lists |-> IF D.lists[l] = "kept" THEN shown[l] ELSE NotLoaded]
  /\ events' = events + 1
  /\ UNCHANGED <<desk, left, backend, panels, requests, pressed>>
----------------------------------------------------------------------------
\* What happens in the panels after the last press has no effect that is looked at.
Active == pressed < MaxPresses

AlwaysOpen == {p \in Panels : D.panels[p].stays}

\* The displayed row is one to which the page offers the call.
Suits(c) ==
  /\ \A f \in D.calls[c].needs : Displayed /\ DisplayedRow[f] = 0
  /\ \A f \in D.calls[c].wants : Displayed /\ DisplayedRow[f] = 1

\* Fault: an editor that opens keeps what was typed into it before.
OpenedFault(p) == typed[p]
Opened(p) == IF Filled(p) = "row" THEN Copied(p, DisplayedRow) ELSE typed[p]

OpenPanel(p) ==
  LET P == D.panels[p] IN
  /\ ~left
  /\ Active
  /\ p \notin open
  /\ ~P.stays
  /\ P.fills # "call"
  /\ P.fills # "none" => Displayed
  /\ \A c \in CallsIn(p) : Suits(c)
  /\ open' = (open \ P.shuts) \cup {p}
  /\ typed' = [typed EXCEPT ![p] = Opened(p)]
  /\ errors' = errors \ P.cleans
  /\ UNCHANGED <<desk, left, backend, screen, due, requests, counts>>

Cancel(p) ==
  LET P == D.panels[p] IN
  /\ ~left
  /\ Active
  /\ p \in open
  /\ ~P.stays
  /\ P.held => {Via(c) : c \in CallsIn(p)} \cap busy = {}
  /\ open' = open \ {p}
  /\ typed' = IF P.empties THEN [typed EXCEPT ![p] = Empty] ELSE typed
  /\ errors' = errors \ P.cancels
  /\ UNCHANGED <<desk, left, backend, screen, due, requests, counts>>

Type(p, f) ==
  /\ ~left
  /\ Active
  /\ p \in open
  /\ f \in FieldsOf(p)
  /\ typed' = [typed EXCEPT ![p][f] = 1 - @]
  /\ UNCHANGED <<desk, left, backend, screen, open, errors, due, requests, counts>>
----------------------------------------------------------------------------
\* What the handler puts into the request.
Value(c, f) ==
  CASE D.calls[c].sends[f] \in {"typed", "filled"} -> typed[D.buttons[c].in][f]
    [] D.calls[c].sends[f] \in {"flipped", "reversed"} -> 1 - DisplayedRow[f]
    [] D.calls[c].sends[f] \in {"on", "added"} -> 1
    [] D.calls[c].sends[f] = "off" -> 0

\* Fault: every empty field is left out.
LeftOutFault(c, f) == D.calls[c].sends[f] \in {"typed", "filled"} /\ Value(c, f) = 0
LeftOut(c, f) == D.calls[c].sends[f] = "filled" /\ Value(c, f) = 0
Request(c) == [f \in {g \in SentBy(c) : ~LeftOut(c, g)} |-> Value(c, f)]

\* What the person means the row to hold afterwards: whoever empties a field that showed
\* the row's value means to empty it, whoever leaves a blank field blank means nothing.
Prefilled(p) == Filled(p) # "none"
Means(c, f) ==
  /\ D.calls[c].does = "change"
  /\ f \in SentBy(c)
  /\ D.calls[c].sends[f] # "added"
  /\ LeftOut(c, f) => Prefilled(D.buttons[c].in)

Offered(c) ==
  /\ IF D.buttons[c].in = "list"
     THEN D.calls[c].does = "create" \/ (D.calls[c].does = "other" /\ D.calls[c].opens = {}) \/ Displayed
     ELSE /\ D.buttons[c].in \in open
          /\ Filled(D.buttons[c].in) \in {"once", "sync", "load"} => Displayed
  /\ D.buttons[c].in \in {"list"} \cup AlwaysOpen => Suits(c)
  /\ D.calls[c].opens \cap open = {}
  /\ D.calls[c].absent => ~Displayed
  /\ D.calls[c].loaded => \A l \in Lists : shown[l] # NotLoaded
  /\ D.calls[c].differs => \E f \in SentBy(c) : Value(c, f) # DisplayedRow[f]

\* A page that patches its own copy of a list puts the sent values, or the backend's
\* answer, into it, before or after the backend has them.
Patched(c, sent) ==
  [l \in Lists |->
     IF l \in D.calls[c].refetches THEN shown[l]
     ELSE CASE D.calls[c].does = "delete" -> [f \in Facts |-> 0]
            [] D.calls[c].does = "create" -> IF "here" \in DOMAIN sent THEN sent ELSE shown[l]
            [] D.calls[c].does = "change" /\ shown[l]["here"] = 1 ->
                 [f \in Facts |-> IF f \in DOMAIN sent THEN sent[f] ELSE shown[l][f]]
            [] OTHER -> shown[l]]

\* The button is not disabled; pressing it takes messages away.
\* Faults: a button that waits for nothing, and a press that leaves the messages.
EnabledFault(c) == TRUE
Enabled(c) == D.buttons[c].waits \cap busy = {}
BegunFault(c) == errors
Begun(c) == errors \ D.calls[c].starts

Press(c) ==
  /\ ~left
  /\ pressed < MaxPresses
  /\ Offered(c)
  /\ Enabled(c)
  /\ pressed' = pressed + 1
  /\ calls' = [calls EXCEPT ![pressed + 1] = [name |-> c, phase |-> "sent", sent |-> Request(c)]]
  /\ busy' = busy \cup {Via(c)}
  /\ asked' = [f \in Facts |-> IF f \in Columns /\ Means(c, f) THEN Value(c, f)
                               ELSE IF f \in SentBy(c) /\ D.calls[c].sends[f] = "added" THEN Free
                               ELSE asked[f]]
  /\ errors' = Begun(c)
  /\ open' = open \ D.calls[c].shuts
  /\ IF D.calls[c].patches = "before"
     THEN shown' = Patched(c, Request(c)) /\ late' = late \cup {r.list : r \in reads}
     ELSE UNCHANGED <<shown, late>>
  /\ UNCHANGED <<desk, left, backend, reads, typed, due, events>>

\* The page refuses what was typed: a message, and no request.
Refuse(c) ==
  /\ ~left
  /\ Active
  /\ D.calls[c].validates
  /\ Offered(c)
  /\ Enabled(c)
  /\ errors' = Begun(c) \cup D.calls[c].reports
  /\ due' = due \cup {c}
  /\ UNCHANGED <<desk, left, backend, screen, open, typed, requests, counts>>

CallOf(k) == D.calls[calls[k].name]

\* Fault: a deleted row comes back under its old id.
ServeCreateFault(k) ==
  LET ours == row["here"] = 0
  IN  /\ CallOf(k).does = "create"
      /\ row' = IF ours THEN NewRow ELSE row
      /\ asked' = IF ours THEN [f \in Facts |-> IF f = "here" THEN 1 ELSE Free] ELSE asked
      /\ UNCHANGED gone

\* The backend carries a call out: a new row (one other than ours, if ours exists or
\* existed), new values, no row any more, or something that leaves the row alone.
ServeCreate(k) ==
  LET ours == row["here"] = 0 /\ ~gone
  IN  /\ CallOf(k).does = "create"
      /\ row' = IF ours THEN NewRow ELSE row
      /\ asked' = IF ours THEN [f \in Facts |-> IF f = "here" THEN 1 ELSE Free] ELSE asked
      /\ UNCHANGED gone

ServeChange(k) ==
  /\ CallOf(k).does = "change"
  /\ row["here"] = 1
  /\ CallOf(k).checked => \A f \in CallOf(k).needs : row[f] = 0
  /\ row' = [f \in Facts |-> IF f \notin DOMAIN calls[k].sent THEN row[f]
                             ELSE IF CallOf(k).sends[f] \in {"reversed", "added"} THEN 1 - row[f]
                             ELSE calls[k].sent[f]]
  /\ UNCHANGED <<asked, gone>>

ServeDelete(k) ==
  /\ CallOf(k).does = "delete"
  /\ row["here"] = 1
  /\ row' = [f \in Facts |-> 0]
  /\ gone' = TRUE
  /\ asked' = [f \in Facts |-> IF f = "here" THEN 0 ELSE Free]

ServeOther(k) ==
  /\ CallOf(k).does = "other"
  /\ CallOf(k).opens # {} => row["here"] = 1
  /\ UNCHANGED <<row, gone, asked>>

Serve(k) ==
  /\ ~left
  /\ calls[k].phase = "sent"
  /\ ServeCreate(k) \/ ServeChange(k) \/ ServeDelete(k) \/ ServeOther(k)
  /\ LET returned == CallOf(k).opens # {} \/ (CallOf(k).does = "create" /\ row' # row)
     IN  calls' = [calls EXCEPT ![k].phase = "done", ![k].sent = IF returned THEN row' ELSE @]
  /\ UNCHANGED <<desk, left, screen, panels, busy, counts>>

\* A mutation is pending until the latest of its calls is answered.
\* Fault: a failure leaves the button disabled.
Overtaken(k) == \E j \in k + 1 .. MaxPresses : calls[j] # NoCall /\ Via(calls[j].name) = Via(calls[k].name)
FreedFault(k, how) == IF how = "ok" /\ ~Overtaken(k) THEN busy \ {Via(calls[k].name)} ELSE busy
Freed(k, how) ==
  IF how \in CallOf(k).frees /\ ~Overtaken(k) THEN busy \ {Via(calls[k].name)} ELSE busy
Answered(k) == calls' = [calls EXCEPT ![k] = NoCall]

\* The answer to a call arrives and the handler goes on.
Succeed(k) ==
  LET C == CallOf(k) IN
  /\ ~left
  /\ calls[k].phase = "done"
  /\ Answered(k)
  /\ busy' = Freed(k, "ok")
  /\ open' = (open \ C.closes) \cup C.opens
  /\ typed' = [p \in Panels |->
                 IF p \in C.empties THEN Empty
                 ELSE IF p \in C.opens THEN Copied(p, calls[k].sent)
                 ELSE IF p = D.buttons[calls[k].name].in
                      THEN [f \in Columns |-> IF f \in C.fills THEN 1 ELSE typed[p][f]]
                      ELSE typed[p]]
  /\ errors' = errors \ C.clears
  /\ due' = due \ {calls[k].name}
  /\ left' = C.leaves
  /\ shown' = IF C.patches = "after" THEN Patched(calls[k].name, calls[k].sent) ELSE shown
  /\ Restart(C.refetches \cap Lists, IF C.patches = "after" THEN Lists ELSE {})
  /\ UNCHANGED <<desk, backend, asked, counts>>

\* An error answer (404 when the row is gone, 4xx and 5xx for reasons of the backend's
\* own), or none at all: then the backend may have done it all the same.
Fail(k) ==
  /\ ~left
  /\ calls[k].phase # "none"
  /\ Answered(k)
  /\ busy' = Freed(k, "failed")
  /\ errors' = errors \cup CallOf(k).reports
  /\ open' = open \ CallOf(k).drops
  /\ due' = due \cup {calls[k].name}
  /\ asked' = [f \in Facts |-> IF CallOf(k).does \in {"create", "delete"} \/ f \in SentBy(calls[k].name)
                               THEN Free ELSE asked[f]]
  /\ UNCHANGED <<desk, left, backend, screen, typed, counts>>

\* Somebody else changes a column that this page can change too, or deletes the row.
Elsewhere(f) ==
  /\ ~left
  /\ events < MaxEvents
  /\ row["here"] = 1
  /\ events' = events + 1
  /\ IF f = "here"
     THEN row' = [g \in Facts |-> 0] /\ gone' = TRUE /\ asked' = [g \in Facts |-> Free]
     ELSE /\ \E c \in Calls : f \in SentBy(c)
          /\ row[f] = 0 \/ \A c \in Calls : D.calls[c].checked => f \notin D.calls[c].needs
          /\ row' = [row EXCEPT ![f] = 1 - @]
          /\ asked' = [asked EXCEPT ![f] = Free]
          /\ UNCHANGED gone
  /\ UNCHANGED <<desk, left, screen, panels, calls, busy, pressed>>
----------------------------------------------------------------------------
Init ==
  /\ \E d \in DeskNames : desk = Description(d)
  /\ left = FALSE
  /\ row \in {[f \in Facts |-> 0], NewRow}
  /\ gone = FALSE
  /\ shown = [l \in Lists |-> NotLoaded]
  /\ reads = {Load(l, 1) : l \in Lists}
  /\ late = {}
  /\ open = {p \in Panels : D.panels[p].stays}
  /\ typed = [p \in Panels |-> Empty]
  /\ errors = {}
  /\ due = {}
  /\ calls = [k \in CallIds |-> NoCall]
  /\ busy = {}
  /\ asked = [f \in Facts |-> Free]
  /\ pressed = 0
  /\ events = 0

\* What the browser, the network and the backend do on their own.
Progress ==
  \/ \E r \in reads : Answer(r) \/ Install(r) \/ LoseRead(r)
  \/ \E k \in CallIds : Serve(k) \/ Succeed(k) \/ Fail(k)

\* What people do.
Person ==
  \/ \E l \in Lists : Refocus(l)
  \/ Turn
  \/ \E p \in Panels : OpenPanel(p) \/ Cancel(p)
  \/ \E p \in Panels, f \in Columns : Type(p, f)
  \/ \E c \in Calls : Press(c) \/ Refuse(c)
  \/ \E f \in Facts : Elsewhere(f)

Next == Progress \/ Person

Spec == Init /\ [][Next]_vars

\* The network and the backend go on; people need not.
FairSpec == Spec /\ WF_vars(Progress)
----------------------------------------------------------------------------
Quiet == \A k \in CallIds : calls[k] = NoCall
Known(table) == Listed(table, desk.name)
Excepted == Known(Racing) \cup Known(Unset)

DeskTypeOK ==
  /\ desk.name \in DeskNames
  /\ left \in BOOLEAN /\ gone \in BOOLEAN
  /\ row \in Rows
  /\ gone => row["here"] = 0
  /\ shown \in [Lists -> Rows \cup {NotLoaded}]
  /\ \A r \in reads : r.list \in Lists /\ r.id \in ReadIds /\ r.answer \in Rows \cup {Unread}
  /\ late \subseteq Lists /\ open \subseteq Panels
  /\ typed \in [Panels -> [Columns -> Bit]]
  /\ due \subseteq Calls /\ busy \subseteq Mutations
  /\ asked \in [Facts -> Bit \cup {Free}]
  /\ pressed \in 0 .. MaxPresses /\ events \in 0 .. MaxEvents

\* When everything this person asked for was answered, each column of the row has the
\* value of the last button pressed about it, whatever order the requests were served
\* in: the disabled buttons keep requests about one column apart, and the request holds
\* what the person meant (an emptied field is not left out).
LastClickWins ==
  Quiet => \A f \in Facts \ Excepted : asked[f] # Free => row[f] = asked[f]

\* A list that waits for nothing shows what this person changed: each change reloads
\* every list of its page, and a reload that started earlier does not come back later.
OwnWritesShown ==
  Quiet /\ ~left =>
    \A l \in Lists \ (late \cup Known(Unrefreshed)), f \in Facts \ Excepted :
      ReadsOf(l) = {} /\ shown[l] # NotLoaded /\ asked[f] # Free => shown[l][f] = asked[f]

\* A message on display is about an attempt that failed and was not repeated with success.
NoStaleMessage ==
  Quiet /\ ~left => errors \ Known(Lingering) \subseteq UNION {D.calls[c].reports : c \in due}

\* Every button that was disabled for a request is enabled again, also after a failure.
ControlsComeBack == []<>(left \/ busy = {})

\* No form is submitted again while the row it makes is under way: the button waits.
SubmittedOnce ==
  \A j, k \in CallIds :
    j # k /\ calls[j] # NoCall /\ calls[j].name = calls[k].name /\ CallOf(j).does = "create"
      => desk.name \in Resubmitted

\* An editor that opens shows the row as the list does, not what was typed before.
OpensFresh ==
  [][\A p \in Panels \ Known(Stale) :
       p \in open' \ open /\ Filled(p) \in {"row", "once", "sync"}
         => typed'[p] = Copied(p, DisplayedRow)]_vars
==============================================================================
