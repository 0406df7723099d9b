----------------------------- MODULE DesksProofs -----------------------------
(***************************************************************************)
(* What holds at every desk whose description keeps to the rules of        *)
(* Desks.tla, however many buttons are pressed.                            *)
(***************************************************************************)
EXTENDS Desks, TLAPS, FiniteSetTheorems

Unanswered == {k \in CallIds : calls[k] # NoCall}

\* The calls are calls of this desk.  What a call carries are values of columns, those
\* that its handler sends, until the backend answers with the row.
Carried(q) ==
  /\ \A f \in DOMAIN q.sent : f \in Facts /\ q.sent[f] \in Bit
  /\ "here" \in DOMAIN q.sent => q.sent \in Rows
  /\ q.phase = "done" /\ D.calls[q.name].opens # {} => q.sent \in Rows
  /\ q.phase = "sent" => DOMAIN q.sent \subseteq SentBy(q.name)
  /\ q.phase = "sent" =>
       \A f \in SentBy(q.name) :
         /\ f \in DOMAIN q.sent \/ D.calls[q.name].sends[f] = "filled"
         /\ D.calls[q.name].sends[f] = "on" => q.sent[f] = 1
         /\ D.calls[q.name].sends[f] = "off" => q.sent[f] = 0
IsCall(q) ==
  /\ q = [name |-> q.name, phase |-> q.phase, sent |-> q.sent]
  /\ q.name \in Calls
  /\ q.phase \in {"sent", "done"}
  /\ Carried(q)
CallsOK == \A k \in CallIds : calls[k] = NoCall \/ (k <= pressed /\ IsCall(calls[k]))

\* Every answer that a list waits for was asked for by the page, a call or an event.
Ids(l) == {r.id : r \in ReadsOf(l)}
ReadsCounted ==
  \A l \in Lists : Cardinality(Ids(l)) + Cardinality(Unanswered) <= 1 + pressed + events

DeskInv ==
  /\ DeskTypeOK
  /\ desk = Description(desk.name)
  /\ \A r \in reads : r = [list |-> r.list, id |-> r.id, answer |-> r.answer]
  /\ calls = [k \in CallIds |-> calls[k]]
  /\ CallsOK

LocksInv ==
  \A k \in Unanswered :
    /\ Locked(D, Via(calls[k].name)) => Via(calls[k].name) \in busy
    /\ \A j \in Unanswered \ {k} : ~Apart(D, calls[j].name, calls[k].name)

Outstanding(f) ==
  {k \in CallIds : calls[k].phase = "sent" /\ CallOf(k).does = "change" /\ f \in DOMAIN calls[k].sent}
Doomed(k) == CallOf(k).checked /\ \E g \in CallOf(k).needs : row[g] = 1
Carries(k, f) == CallOf(k).sends[f] # "added" /\ calls[k].sent[f] = asked[f]

ValueKept(f) ==
  \/ asked[f] = Free
  \/ \E k \in Outstanding(f) : Doomed(k) \/ Carries(k, f)
  \/ Outstanding(f) = {} /\ row[f] = asked[f]
ValuesInv ==
  /\ \A f \in Columns \ Excepted : ValueKept(f)
  /\ asked["here"] = Free \/ row["here"] = asked["here"]

Excuses(c, e) ==
  /\ c \in due
  /\ e \in D.calls[c].reports
  /\ \/ e \in D.calls[c].clears
     \/ D.calls[c].leaves
     \/ \A k \in Unanswered : calls[k].name # c
MessagesInv == ~left => \A e \in errors \ Known(Lingering) : \E c \in Calls : Excuses(c, e)

\* While a call that may change a fact is in flight, nobody knows what the lists will show.
\* Otherwise a list that need not be older shows what was asked for, or will.
Touches(k, f) ==
  /\ calls[k] # NoCall
  /\ \/ CallOf(k).does \in {"create", "delete"}
     \/ CallOf(k).does = "change" /\ f \in SentBy(calls[k].name)
Untouched(f) == \A k \in CallIds : ~Touches(k, f)
UpToDate(l, f) ==
  /\ \A r \in ReadsOf(l) : r.answer # Unread => r.answer[f] = asked[f]
  /\ ReadsOf(l) = {} /\ shown[l] # NotLoaded => shown[l][f] = asked[f]
Judged == Lists \ (late \cup Known(Unrefreshed))
ShownInv ==
  ~left => \A l \in Judged, f \in Facts \ Excepted : asked[f] # Free /\ Untouched(f) => UpToDate(l, f)
AddedOnly(f) == \A b \in Changes(D, f) : D.calls[b].sends[f] = "added"
AddedInv == \A f \in Columns : AddedOnly(f) => asked[f] = Free
----------------------------------------------------------------------------
\* A desk is one of the descriptions, and keeps to their rules.
LEMMA DeskRules ==
  ASSUME DeskInv
  PROVE  /\ WellMade(D)
         /\ FormsWait(desk.name, D) /\ ColumnsKeptApart(desk.name, D)
         /\ MeaningsSent(desk.name, D) /\ DecisionsStay(D)
         /\ MessagesTaken(desk.name, D) /\ EditorsFilled(desk.name, D)
         /\ ListsReloaded(desk.name, D) /\ ButtonsFreed(D)
BY DescriptionAssumption, LocksAssumption, MeaningAssumption, MessageAssumption, EditorAssumption,
   ReloadAssumption, ButtonsAssumption
   DEF DeskInv, DeskTypeOK, D

\* The values of columns are 0 and 1, and a list that was not loaded shows neither.
LEMMA BitValues == 0 \in Bit /\ 1 \in Bit /\ Free \notin Bit /\ \A b \in Bit : 1 - b \in Bit
BY DEF Bit, Free

\* Columns and "here" are the facts of a row.
LEMMA FactNames == Columns \subseteq Facts /\ "here" \in Facts /\ "here" \notin Columns
BY DEF Facts, Columns

\* A list that shows a row was loaded.
LEMMA ShownIsRow ==
  ASSUME NEW r \in Rows \cup {NotLoaded}, r["here"] = 1
  PROVE  r \in Rows
BY FactNames DEF Rows, NotLoaded, Free, Bit

\* A row that was not read is not a row.
LEMMA NotLoadedIsNoRow == NotLoaded \notin Rows
<1>1. NotLoaded["here"] = Free
  BY FactNames DEF NotLoaded
<1> QED
  BY <1>1, FactNames, BitValues DEF Rows

\* Rows that are written down: none, and a new one.
LEMMA PlainRows == [f \in Facts |-> 0] \in Rows /\ NewRow \in Rows
BY BitValues DEF Rows, NewRow

\* What a panel copies from a row, and an empty panel, are values of columns.
LEMMA PanelValues ==
  /\ \A p : \A r \in Rows : Copied(p, r) \in [Columns -> Bit]
  /\ Empty \in [Columns -> Bit]
BY BitValues, FactNames DEF Copied, Empty, Rows

\* The row that a page displays is a row.
LEMMA DisplayedIsRow ==
  ASSUME DeskInv, Displayed
  PROVE  DisplayedRow \in Rows
BY ShownIsRow DEF DeskInv, DeskTypeOK, Displayed, DisplayedRow

\* What a handler puts into a request is the value of a column.
LEMMA ValueIsBit ==
  ASSUME DeskInv, NEW c \in Calls, NEW f \in SentBy(c), Offered(c)
  PROVE  Value(c, f) \in Bit
<1> DEFINE s == D.calls[c].sends[f]
<1>1. f \in Columns /\ f \in Facts /\ s \in Origins
  BY DeskRules, FactNames DEF WellMade, Calls, SentBy
<1>2. CASE s \in {"typed", "filled"}
  <2>1. Place(D, c) \in Panels
    BY <1>2, DeskRules DEF WellMade, Calls, SentBy, Panels
  <2>2. typed[Place(D, c)] \in [Columns -> Bit]
    BY <2>1 DEF DeskInv, DeskTypeOK
  <2> QED
    BY <1>1, <1>2, <2>2 DEF Value, Place
<1>3. CASE s \in {"flipped", "reversed"}
  <2>1. D.calls[c].does = "change"
        /\ (Place(D, c) = "list" \/ D.panels[Place(D, c)].fills \in {"once", "sync", "load"})
    BY <1>3, DeskRules DEF WellMade, Calls, SentBy
  <2>2. Displayed
    BY <2>1 DEF Offered, Place, Filled
  <2>3. DisplayedRow[f] \in Bit
    BY <2>2, <1>1, DisplayedIsRow DEF Rows
  <2>4. Value(c, f) = 1 - DisplayedRow[f]
    BY <1>3 DEF Value
  <2> QED
    BY <2>3, <2>4, BitValues
<1>4. CASE s \in {"on", "added", "off"}
  BY <1>4, BitValues DEF Value
<1> QED
  BY <1>1, <1>2, <1>3, <1>4 DEF Origins
----------------------------------------------------------------------------
\* There is a number for another read, when not all are taken.
LEMMA NumberLeft ==
  ASSUME NEW S \in SUBSET ReadIds, Cardinality(S) <= MaxPresses + MaxEvents
  PROVE  \E i \in ReadIds : i \notin S
<1>1. IsFiniteSet(ReadIds) /\ Cardinality(ReadIds) = MaxPresses + MaxEvents + 1
  <2>1. 1 \in Int /\ MaxPresses + MaxEvents + 1 \in Int /\ 1 <= MaxPresses + MaxEvents + 1
    BY BoundsAssumption
  <2> QED
    BY <2>1, FS_Interval, BoundsAssumption DEF ReadIds
<1>2. SUFFICES ASSUME S = ReadIds PROVE FALSE
  OBVIOUS
<1> QED
  BY <1>1, <1>2, BoundsAssumption

\* The numbers of the reads of a list are numbers of reads.
LEMMA IdsAreNumbers ==
  ASSUME DeskInv, NEW l
  PROVE  Ids(l) \in SUBSET ReadIds /\ IsFiniteSet(Ids(l)) /\ Cardinality(Ids(l)) \in Nat
<1>1. Ids(l) \in SUBSET ReadIds
  BY DEF DeskInv, DeskTypeOK, Ids, ReadsOf
<1>2. IsFiniteSet(ReadIds)
  BY FS_Interval, BoundsAssumption DEF ReadIds
<1> QED
  BY <1>1, <1>2, FS_Subset, FS_CardinalityType

\* Asking for lists again keeps the reads as they should be, and adds at most one to those
\* of each list.
LEMMA AskingAgain ==
  ASSUME DeskInv, desk' = desk,
         NEW on \in SUBSET reads, NEW again \in SUBSET Lists, AsksAgain(on, again),
         \A l \in again : Cardinality(Ids(l)) <= MaxPresses + MaxEvents
  PROVE  /\ \A r \in reads' : r.list \in Lists /\ r.id \in ReadIds /\ r.answer \in Rows \cup {Unread}
         /\ \A r \in reads' : r = [list |-> r.list, id |-> r.id, answer |-> r.answer]
         /\ \A l \in Lists : Cardinality(Ids(l)') <= Cardinality(Ids(l)) + 1
<1> USE DEF AsksAgain
<1>1. ASSUME NEW l \in again PROVE NewId(l, on) \in ReadIds
  <2>1. PICK i \in ReadIds : i \notin Ids(l)
    BY IdsAreNumbers, NumberLeft
  <2>2. \A r \in on : r.list = l => r.id # i
    BY <2>1 DEF Ids, ReadsOf
  <2> QED
    BY <2>2 DEF NewId
<1>2. \A l \in again : Load(l, NewId(l, on)) = [list |-> l, id |-> NewId(l, on), answer |-> Unread]
  BY DEF Load
<1>3. \A r \in on : r.list \in Lists /\ r.id \in ReadIds /\ r.answer \in Rows \cup {Unread}
                  /\ r = [list |-> r.list, id |-> r.id, answer |-> r.answer]
  BY DEF DeskInv, DeskTypeOK
<1>4. ASSUME NEW r \in reads'
      PROVE  /\ r.list \in Lists /\ r.id \in ReadIds /\ r.answer \in Rows \cup {Unread}
             /\ r = [list |-> r.list, id |-> r.id, answer |-> r.answer]
  BY <1>1, <1>2, <1>3
<1>5. ASSUME NEW l \in Lists
      PROVE  Cardinality(Ids(l)') <= Cardinality(Ids(l)) + 1
  <2> DEFINE S == Ids(l) \cup {NewId(l, on)}
  <2>1. Ids(l)' \subseteq S
    BY <1>2 DEF Ids, ReadsOf
  <2>2. IsFiniteSet(S) /\ Cardinality(S) <= Cardinality(Ids(l)) + 1
    BY IdsAreNumbers, FS_AddElement
  <2> QED
    BY <2>1, <2>2, IdsAreNumbers, FS_Subset, FS_CardinalityType
<1> QED
  BY <1>4, <1>5

\* Reloading lists, likewise.
LEMMA Restarting ==
  ASSUME DeskInv, desk' = desk,
         NEW ls \in SUBSET Lists, NEW patched \in SUBSET Lists, Restart(ls, patched),
         \A l \in ls : Cardinality(Ids(l)) <= MaxPresses + MaxEvents
  PROVE  /\ \A r \in reads' : r.list \in Lists /\ r.id \in ReadIds /\ r.answer \in Rows \cup {Unread}
         /\ \A r \in reads' : r = [list |-> r.list, id |-> r.id, answer |-> r.answer]
         /\ \A l \in Lists : Cardinality(Ids(l)') <= Cardinality(Ids(l)) + 1
         /\ late' \subseteq Lists
<1> DEFINE on == {r \in reads : RunsOn(r, ls)}
           overtaken == {l \in ls : \E r \in on : r.list = l}
           again == {l \in ls : D.lists[l] = "kept" \/ l \notin overtaken}
<1>1. AsksAgain(on, again)
  BY DEF Restart
<1>2. late' = (late \ ls) \cup overtaken \cup {r.list : r \in {q \in on : q.list \in patched}}
  BY DEF Restart
<1>3. late' \subseteq Lists
  BY <1>2 DEF DeskInv, DeskTypeOK
<1> QED
  BY <1>1, <1>3, AskingAgain
----------------------------------------------------------------------------
\* The invariant in four parts: what is on the screen, the backend, the panels, and the
\* requests.
ReadOK(r) ==
  /\ r.list \in Lists /\ r.id \in ReadIds /\ r.answer \in Rows \cup {Unread}
  /\ r = [list |-> r.list, id |-> r.id, answer |-> r.answer]
ScreenOK ==
  /\ shown \in [Lists -> Rows \cup {NotLoaded}]
  /\ \A r \in reads : ReadOK(r)
  /\ late \subseteq Lists
BackendOK ==
  /\ row \in Rows
  /\ gone \in BOOLEAN
  /\ gone => row["here"] = 0
  /\ asked \in [Facts -> Bit \cup {Free}]
PanelsOK ==
  /\ open \subseteq Panels
  /\ typed \in [Panels -> [Columns -> Bit]]
  /\ due \subseteq Calls
RequestsOK ==
  /\ left \in BOOLEAN
  /\ busy \subseteq Mutations
  /\ pressed \in 0 .. MaxPresses /\ events \in 0 .. MaxEvents
  /\ calls = [k \in CallIds |-> calls[k]]
  /\ CallsOK
DeskKnown == desk.name \in DeskNames /\ desk = Description(desk.name)

\* The four parts are the invariant.
LEMMA InParts == DeskInv <=> DeskKnown /\ ScreenOK /\ BackendOK /\ PanelsOK /\ RequestsOK
BY DEF DeskInv, DeskTypeOK, DeskKnown, ScreenOK, ReadOK, BackendOK, PanelsOK, RequestsOK

\* The same after a step.
LEMMA InPartsAfter ==
  ASSUME DeskKnown', ScreenOK', BackendOK', PanelsOK', RequestsOK' PROVE DeskInv'
BY DEF DeskInv, DeskTypeOK, DeskKnown, ScreenOK, ReadOK, BackendOK, PanelsOK, RequestsOK

\* A step that leaves a part alone keeps it.
LEMMA DeskStays ==
  ASSUME DeskKnown, desk' = desk PROVE DeskKnown'
BY DEF DeskKnown
LEMMA ScreenStays ==
  ASSUME ScreenOK, desk' = desk, UNCHANGED screen PROVE ScreenOK'
BY DEF ScreenOK, ReadOK, screen, Lists, D
LEMMA BackendStays ==
  ASSUME BackendOK, UNCHANGED <<backend, asked>> PROVE BackendOK'
BY DEF BackendOK, backend
LEMMA PanelsStay ==
  ASSUME PanelsOK, desk' = desk, UNCHANGED <<open, typed, due>> PROVE PanelsOK'
BY DEF PanelsOK, Panels, Calls, D
LEMMA RequestsStay ==
  ASSUME RequestsOK, desk' = desk, UNCHANGED <<calls, busy>>, left' \in BOOLEAN,
         pressed' \in pressed .. MaxPresses, events' \in 0 .. MaxEvents
  PROVE  RequestsOK'
<1>1. pressed' \in 0 .. MaxPresses /\ pressed <= pressed' /\ pressed \in Nat /\ pressed' \in Nat
  BY BoundsAssumption DEF RequestsOK
<1>2. CallsOK'
  BY <1>1 DEF RequestsOK, CallsOK, IsCall, Carried, Calls, SentBy, D, CallIds
<1>3. busy' \subseteq Mutations'
  BY DEF RequestsOK, Mutations, Via, Calls, D
<1>4. calls' = [k \in CallIds |-> calls'[k]]
  BY DEF RequestsOK, CallIds
<1> QED
  BY <1>1, <1>2, <1>3, <1>4 DEF RequestsOK, CallIds

\* The number of unanswered calls.
LEMMA UnansweredCounted == IsFiniteSet(Unanswered) /\ Cardinality(Unanswered) \in Nat
<1>1. IsFiniteSet(CallIds)
  BY FS_Interval, BoundsAssumption DEF CallIds
<1>2. Unanswered \subseteq CallIds
  BY DEF Unanswered
<1> QED
  BY <1>1, <1>2, FS_Subset, FS_CardinalityType

\* Reads stay counted when none is added, or one more event is.
LEMMA CountsStay ==
  ASSUME DeskInv, ReadsCounted, UNCHANGED <<desk, calls>>, pressed' = pressed,
         \/ events' = events /\ \A l \in Lists : Cardinality(Ids(l)') <= Cardinality(Ids(l))
         \/ events' = events + 1 /\ \A l \in Lists : Cardinality(Ids(l)') <= Cardinality(Ids(l)) + 1,
         \A l \in Lists : Cardinality(Ids(l)') \in Nat
  PROVE  ReadsCounted'
<1>1. Unanswered' = Unanswered
  BY DEF Unanswered, CallIds
<1>2. pressed \in Nat /\ events \in Nat
  BY BoundsAssumption DEF DeskInv, DeskTypeOK
<1>3. \A l \in Lists : Cardinality(Ids(l)) \in Nat
  BY IdsAreNumbers
<1>4. Lists' = Lists
  BY DEF Lists, D
<1> SUFFICES ASSUME NEW l \in Lists
            PROVE Cardinality(Ids(l)') + Cardinality(Unanswered)
                    <= 1 + pressed' + events'
  BY <1>1, <1>4 DEF ReadsCounted
<1>5. Cardinality(Ids(l)) + Cardinality(Unanswered) <= 1 + pressed + events
  BY DEF ReadsCounted
<1> QED
  BY <1>2, <1>3, <1>5, UnansweredCounted

\* The numbers of the reads after a step.
LEMMA IdsAfter ==
  ASSUME ScreenOK', NEW l PROVE IsFiniteSet(Ids(l)') /\ Cardinality(Ids(l)') \in Nat
<1>1. Ids(l)' \in SUBSET ReadIds
  BY DEF ScreenOK, ReadOK, Ids, ReadsOf, ReadIds
<1>2. IsFiniteSet(ReadIds)
  BY FS_Interval, BoundsAssumption DEF ReadIds
<1> QED
  BY <1>1, <1>2, FS_Subset, FS_CardinalityType

\* A read that goes away, or is answered, adds no number.
LEMMA FewerReads ==
  ASSUME DeskInv, ScreenOK', \A l \in Lists : Ids(l)' \subseteq Ids(l)
  PROVE  \A l \in Lists : Cardinality(Ids(l)') <= Cardinality(Ids(l))
BY IdsAreNumbers, FS_Subset

\* The backend reads the row for a load.
LEMMA AnswerKeeps ==
  ASSUME DeskInv, ReadsCounted, NEW r \in reads, Answer(r)
  PROVE  DeskInv' /\ ReadsCounted'
<1> USE DEF Answer
<1>1. ReadOK(r) /\ row \in Rows
  BY InParts DEF ScreenOK, BackendOK
<1>2. [r EXCEPT !.answer = row] = [list |-> r.list, id |-> r.id, answer |-> row]
  BY <1>1 DEF ReadOK
<1>3. ScreenOK'
  BY <1>1, <1>2, InParts DEF ScreenOK, ReadOK, Lists, D
<1>4. DeskInv'
  BY <1>3, InParts, InPartsAfter, DeskStays, BackendStays, PanelsStay, RequestsStay
     DEF panels, requests, counts, backend, RequestsOK
<1>5. \A l \in Lists : Ids(l)' \subseteq Ids(l)
  BY <1>1, <1>2 DEF Ids, ReadsOf
<1> QED
  BY <1>3, <1>4, <1>5, FewerReads, IdsAfter, CountsStay DEF requests, counts

\* An answer arrives.
LEMMA InstallKeeps ==
  ASSUME DeskInv, ReadsCounted, NEW r \in reads, Install(r)
  PROVE  DeskInv' /\ ReadsCounted'
<1> USE DEF Install
<1>1. ReadOK(r) /\ r.answer \in Rows
  BY InParts DEF ScreenOK, ReadOK
<1>2. ScreenOK'
  BY <1>1, InParts DEF ScreenOK, ReadOK, Lists, D
<1>3. PanelsOK'
  <2>1. \A p \in Panels : Copied(p, r.answer) \in [Columns -> Bit] /\ typed[p] \in [Columns -> Bit]
    BY <1>1, PanelValues, InParts DEF PanelsOK
  <2>2. typed' \in [Panels -> [Columns -> Bit]]
    BY <2>1
  <2> QED
    BY <2>2, InParts DEF PanelsOK, Panels, Calls, D
<1>4. DeskInv'
  BY <1>2, <1>3, InParts, InPartsAfter, DeskStays, BackendStays, RequestsStay
     DEF requests, counts, backend, RequestsOK
<1>5. \A l \in Lists : Ids(l)' \subseteq Ids(l)
  BY DEF Ids, ReadsOf
<1> QED
  BY <1>2, <1>4, <1>5, FewerReads, IdsAfter, CountsStay DEF requests, counts

\* A load fails.
LEMMA LoseReadKeeps ==
  ASSUME DeskInv, ReadsCounted, NEW r \in reads, LoseRead(r)
  PROVE  DeskInv' /\ ReadsCounted'
<1> USE DEF LoseRead
<1>1. ScreenOK'
  BY InParts DEF ScreenOK, ReadOK, Lists, D
<1>2. DeskInv'
  BY <1>1, InParts, InPartsAfter, DeskStays, BackendStays, PanelsStay, RequestsStay
     DEF requests, counts, backend, panels, RequestsOK
<1>3. \A l \in Lists : Ids(l)' \subseteq Ids(l)
  BY DEF Ids, ReadsOf
<1> QED
  BY <1>1, <1>2, <1>3, FewerReads, IdsAfter, CountsStay DEF requests, counts

\* The window gets the focus.
LEMMA RefocusKeeps ==
  ASSUME DeskInv, ReadsCounted, NEW l \in Lists, Refocus(l)
  PROVE  DeskInv' /\ ReadsCounted'
<1> USE DEF Refocus
<1>1. Cardinality(Ids(l)) <= MaxPresses + MaxEvents
  <2>1. Ids(l) = {}
    BY DEF Ids
  <2> QED
    BY <2>1, FS_EmptySet, BoundsAssumption
<1>2. /\ \A r \in reads' : r.list \in Lists /\ r.id \in ReadIds /\ r.answer \in Rows \cup {Unread}
      /\ \A r \in reads' : r = [list |-> r.list, id |-> r.id, answer |-> r.answer]
      /\ \A k \in Lists : Cardinality(Ids(k)') <= Cardinality(Ids(k)) + 1
      /\ late' \subseteq Lists
  BY <1>1, Restarting
<1>3. ScreenOK'
  BY <1>2, InParts DEF ScreenOK, ReadOK, Lists, D
<1>4. events \in Nat /\ pressed \in 0 .. MaxPresses /\ events' \in 0 .. MaxEvents
  BY InParts, BoundsAssumption DEF RequestsOK
<1>5. DeskInv'
  BY <1>3, <1>4, InParts, InPartsAfter, DeskStays, BackendStays, PanelsStay, RequestsStay, BoundsAssumption
     DEF requests, backend, panels, RequestsOK
<1> QED
  BY <1>2, <1>3, <1>5, IdsAfter, CountsStay DEF requests

\* Another page of the list.
LEMMA TurnKeeps ==
  ASSUME DeskInv, ReadsCounted, Turn
  PROVE  DeskInv' /\ ReadsCounted'
<1> USE DEF Turn
<1> DEFINE kept == {r \in reads : D.lists[r.list] = "kept"}
<1>1. AsksAgain(kept, Lists)
  OBVIOUS
<1>2. events \in Nat /\ events < MaxEvents /\ pressed \in 0 .. MaxPresses /\ events' \in 0 .. MaxEvents
  BY InParts, BoundsAssumption DEF RequestsOK
<1>3. \A l \in Lists : Cardinality(Ids(l)) <= MaxPresses + MaxEvents
  BY <1>2, IdsAreNumbers, UnansweredCounted, BoundsAssumption DEF ReadsCounted
<1>4. /\ \A r \in reads' : r.list \in Lists /\ r.id \in ReadIds /\ r.answer \in Rows \cup {Unread}
      /\ \A r \in reads' : r = [list |-> r.list, id |-> r.id, answer |-> r.answer]
      /\ \A l \in Lists : Cardinality(Ids(l)') <= Cardinality(Ids(l)) + 1
  BY <1>1, <1>3, AskingAgain
<1>5. ScreenOK'
  BY <1>4, InParts DEF ScreenOK, ReadOK, Lists, D
<1>6. DeskInv'
  BY <1>2, <1>5, InParts, InPartsAfter, DeskStays, BackendStays, PanelsStay, RequestsStay
     DEF requests, backend, panels, RequestsOK
<1> QED
  BY <1>4, <1>5, <1>6, IdsAfter, CountsStay DEF requests

\* Steps that only concern the panels.
LEMMA PanelStep ==
  ASSUME DeskInv, ReadsCounted, PanelsOK', UNCHANGED <<desk, left, backend, screen, requests, counts>>
  PROVE  DeskInv' /\ ReadsCounted'
<1>1. ScreenOK'
  BY InParts, ScreenStays
<1>2. DeskInv'
  BY <1>1, InParts, InPartsAfter, DeskStays, BackendStays, RequestsStay
     DEF requests, counts, backend, RequestsOK
<1>3. \A l \in Lists : Ids(l)' \subseteq Ids(l)
  BY DEF Ids, ReadsOf, screen
<1> QED
  BY <1>1, <1>2, <1>3, FewerReads, IdsAfter, CountsStay DEF requests, counts

\* A panel is opened.
LEMMA OpenPanelKeeps ==
  ASSUME DeskInv, ReadsCounted, NEW p \in Panels, OpenPanel(p)
  PROVE  DeskInv' /\ ReadsCounted'
<1> USE DEF OpenPanel
<1>1. Opened(p) \in [Columns -> Bit]
  <2>1. CASE Filled(p) = "row"
    <3>1. Displayed
      BY <2>1 DEF Filled
    <3> QED
      BY <2>1, <3>1, DisplayedIsRow, PanelValues DEF Opened
  <2>2. CASE Filled(p) # "row"
    BY <2>2, InParts DEF Opened, PanelsOK
  <2> QED
    BY <2>1, <2>2
<1>2. PanelsOK'
  BY <1>1, InParts DEF PanelsOK, Panels, Calls, D
<1> QED
  BY <1>2, PanelStep

\* A panel is cancelled.
LEMMA CancelKeeps ==
  ASSUME DeskInv, ReadsCounted, NEW p \in Panels, Cancel(p)
  PROVE  DeskInv' /\ ReadsCounted'
<1> USE DEF Cancel
<1>1. PanelsOK'
  BY PanelValues, InParts DEF PanelsOK, Panels, Calls, D
<1> QED
  BY <1>1, PanelStep

\* Somebody types.
LEMMA TypeKeeps ==
  ASSUME DeskInv, ReadsCounted, NEW p \in Panels, NEW f \in Columns, Type(p, f)
  PROVE  DeskInv' /\ ReadsCounted'
<1> USE DEF Type
<1>1. typed[p] \in [Columns -> Bit] /\ 1 - typed[p][f] \in Bit
  BY BitValues, InParts DEF PanelsOK
<1>2. [typed[p] EXCEPT ![f] = 1 - @] \in [Columns -> Bit]
  BY <1>1
<1>3. typed' = [typed EXCEPT ![p] = [typed[p] EXCEPT ![f] = 1 - @]]
  BY InParts DEF PanelsOK
<1>4. PanelsOK'
  BY <1>2, <1>3, InParts DEF PanelsOK, Panels, Calls, D
<1> QED
  BY <1>4, PanelStep

\* The page refuses what was typed.
LEMMA RefuseKeeps ==
  ASSUME DeskInv, ReadsCounted, NEW c \in Calls, Refuse(c)
  PROVE  DeskInv' /\ ReadsCounted'
<1> USE DEF Refuse
<1>1. PanelsOK'
  BY InParts DEF PanelsOK, Panels, Calls, D
<1> QED
  BY <1>1, PanelStep

\* A request is one of its call.
LEMMA RequestIsCarried ==
  ASSUME DeskInv, NEW c \in Calls, Offered(c)
  PROVE  IsCall([name |-> c, phase |-> "sent", sent |-> Request(c)])
<1> DEFINE q == [name |-> c, phase |-> "sent", sent |-> Request(c)]
<1>1. \A f \in DOMAIN Request(c) : f \in SentBy(c) /\ Request(c)[f] = Value(c, f)
  BY DEF Request
<1>2. \A f \in SentBy(c) : f \in Facts /\ f # "here" /\ Value(c, f) \in Bit
  BY ValueIsBit, DeskRules, FactNames DEF WellMade, Calls, SentBy
<1>3. ASSUME NEW f \in SentBy(c)
      PROVE  /\ f \in DOMAIN Request(c) \/ D.calls[c].sends[f] = "filled"
             /\ D.calls[c].sends[f] = "on" => Request(c)[f] = 1
             /\ D.calls[c].sends[f] = "off" => Request(c)[f] = 0
  BY <1>1 DEF Value, Request, LeftOut
<1>4. q.name = c /\ q.phase = "sent" /\ q.sent = Request(c)
  OBVIOUS
<1> HIDE DEF q
<1>5. Carried(q)
  BY <1>1, <1>2, <1>3, <1>4 DEF Carried
<1> QED
  BY <1>4, <1>5 DEF IsCall, q

\* What a page puts into its own copy of a list is a row.
LEMMA PatchedIsRow ==
  ASSUME DeskInv, NEW c \in Calls, NEW sent,
         \A f \in DOMAIN sent : f \in Facts /\ sent[f] \in Bit,
         "here" \in DOMAIN sent => sent \in Rows
  PROVE  Patched(c, sent) \in [Lists -> Rows \cup {NotLoaded}]
<1>1. ASSUME NEW l \in Lists
      PROVE  Patched(c, sent)[l] \in Rows \cup {NotLoaded}
  <2>1. shown[l] \in Rows \cup {NotLoaded}
    BY InParts DEF ScreenOK
  <2>2. [f \in Facts |-> 0] \in Rows
    BY PlainRows
  <2>3. ASSUME shown[l]["here"] = 1
        PROVE  [f \in Facts |-> IF f \in DOMAIN sent THEN sent[f] ELSE shown[l][f]] \in Rows
    <3>1. shown[l] \in Rows
      BY <2>1, <2>3, ShownIsRow
    <3> QED
      BY <3>1 DEF Rows
  <2> QED
    BY <2>1, <2>2, <2>3 DEF Patched
<1> QED
  BY <1>1 DEF Patched

\* A button is pressed.
LEMMA PressKeeps ==
  ASSUME DeskInv, ReadsCounted, NEW c \in Calls, Press(c)
  PROVE  DeskInv' /\ ReadsCounted'
<1> USE DEF Press
<1> DEFINE q == [name |-> c, phase |-> "sent", sent |-> Request(c)]
<1>1. IsCall(q)
  BY RequestIsCarried
<1>2. pressed \in Nat /\ pressed + 1 \in CallIds /\ pressed' \in 0 .. MaxPresses /\ pressed' = pressed + 1
      /\ events \in Nat
  BY InParts, BoundsAssumption DEF RequestsOK, CallIds
<1>3. ScreenOK'
  <2>1. CASE D.calls[c].patches = "before"
    <3>1. Carried(q)
      BY <1>1 DEF IsCall
    <3>2. Patched(c, Request(c)) \in [Lists -> Rows \cup {NotLoaded}]
      BY <3>1, PatchedIsRow DEF Carried
    <3> QED
      BY <2>1, <3>2, InParts DEF ScreenOK, ReadOK, Lists, D
  <2>2. CASE D.calls[c].patches # "before"
    BY <2>2, InParts, ScreenStays DEF screen
  <2> QED
    BY <2>1, <2>2
<1>4. BackendOK'
  <2>1. \A f \in Facts : asked[f] \in Bit \cup {Free}
    BY InParts DEF BackendOK
  <2>2. \A f \in Facts : Means(c, f) => Value(c, f) \in Bit
    BY ValueIsBit DEF Means
  <2> QED
    BY <2>1, <2>2, InParts DEF BackendOK, backend
<1>5. PanelsOK'
  BY InParts DEF PanelsOK, Panels, Calls, D
<1>6. RequestsOK'
  <2>1. calls = [k \in CallIds |-> calls[k]]
    BY InParts DEF RequestsOK
  <2>2. calls' = [k \in CallIds |-> calls'[k]]
    BY <2>1 DEF CallIds
  <2>3. \A k \in CallIds : calls'[k] = IF k = pressed + 1 THEN q ELSE calls[k]
    BY <1>2, <2>1
  <2> HIDE DEF q
  <2>4. CallsOK'
    BY <1>1, <1>2, <2>3, InParts
       DEF RequestsOK, CallsOK, IsCall, Carried, Calls, SentBy, D, CallIds
  <2>5. busy' \subseteq Mutations'
    BY InParts DEF RequestsOK, Mutations, Via, Calls, D
  <2> QED
    BY <1>2, <2>2, <2>4, <2>5, InParts DEF RequestsOK
<1>7. DeskInv'
  BY <1>3, <1>4, <1>5, <1>6, InParts, InPartsAfter, DeskStays
<1>8. ReadsCounted'
  <2>1. Unanswered' \subseteq Unanswered \cup {pressed + 1}
    BY InParts DEF Unanswered, RequestsOK, CallIds
  <2>2. /\ IsFiniteSet(Unanswered \cup {pressed + 1})
        /\ \/ Cardinality(Unanswered \cup {pressed + 1}) = Cardinality(Unanswered)
           \/ Cardinality(Unanswered \cup {pressed + 1}) = Cardinality(Unanswered) + 1
    BY UnansweredCounted, FS_AddElement
  <2>3. Cardinality(Unanswered \cup {pressed + 1}) <= Cardinality(Unanswered) + 1
    BY <2>2, UnansweredCounted
  <2>4. Cardinality(Unanswered') <= Cardinality(Unanswered) + 1 /\ Cardinality(Unanswered') \in Nat
    BY <2>1, <2>2, <2>3, UnansweredCounted, FS_Subset, FS_CardinalityType
  <2>5. \A l : Ids(l)' = Ids(l)
    BY DEF Ids, ReadsOf
  <2>6. Lists' = Lists
    BY DEF Lists, D
  <2> SUFFICES ASSUME NEW l \in Lists
              PROVE Cardinality(Ids(l)) + Cardinality(Unanswered') <= 1 + pressed' + events'
    BY <2>5, <2>6 DEF ReadsCounted
  <2>7. Cardinality(Ids(l)) + Cardinality(Unanswered) <= 1 + pressed + events
    BY DEF ReadsCounted
  <2> QED
    BY <1>2, <2>4, <2>7, IdsAreNumbers, UnansweredCounted
<1> QED
  BY <1>7, <1>8

\* A call in flight is one of the desk's calls.
LEMMA CallInFlight ==
  ASSUME DeskInv, NEW k \in CallIds, calls[k].phase # "none" \/ calls[k] # NoCall
  PROVE  IsCall(calls[k]) /\ calls[k].name \in Calls /\ calls[k] # NoCall /\ k <= pressed
<1>1. calls[k] = NoCall \/ (k <= pressed /\ IsCall(calls[k]))
  BY DEF DeskInv, CallsOK
<1>2. calls[k] = NoCall => calls[k].phase = "none"
  BY DEF NoCall
<1>3. calls[k] # NoCall
  BY <1>2
<1> QED
  BY <1>1, <1>3 DEF IsCall

\* The record of a call that was carried out.
LEMMA DoneCall ==
  ASSUME NEW q, NEW new, q = [name |-> q.name, phase |-> q.phase, sent |-> q.sent]
  PROVE  [[q EXCEPT !.phase = "done"] EXCEPT !.sent = new]
           = [name |-> q.name, phase |-> "done", sent |-> new]
<1>1. \A n, p, s : [[name |-> n, phase |-> p, sent |-> s] EXCEPT !.phase = "done"]
                   = [name |-> n, phase |-> "done", sent |-> s]
  OBVIOUS
<1>2. \A n, p, s : [[name |-> n, phase |-> p, sent |-> s] EXCEPT !.sent = new]
                   = [name |-> n, phase |-> p, sent |-> new]
  OBVIOUS
<1>3. [q EXCEPT !.phase = "done"] = [name |-> q.name, phase |-> "done", sent |-> q.sent]
  <2>1. PICK n, p, s : q = [name |-> n, phase |-> p, sent |-> s] /\ n = q.name /\ s = q.sent
    OBVIOUS
  <2> QED
    BY <1>1, <2>1
<1>4. [[name |-> q.name, phase |-> "done", sent |-> q.sent] EXCEPT !.sent = new]
        = [name |-> q.name, phase |-> "done", sent |-> new]
  BY <1>2, Zenon
<1> QED
  BY <1>3, <1>4, Zenon

\* The backend carries out a call.
LEMMA ServeKeeps ==
  ASSUME DeskInv, ReadsCounted, NEW k \in CallIds, Serve(k)
  PROVE  DeskInv' /\ ReadsCounted'
<1> USE DEF Serve
<1>1. IsCall(calls[k]) /\ calls[k].name \in Calls /\ k <= pressed /\ Carried(calls[k])
  BY CallInFlight DEF IsCall
<1>2. BackendOK'
  <2>1. row \in Rows /\ gone \in BOOLEAN /\ (gone => row["here"] = 0) /\ asked \in [Facts -> Bit \cup {Free}]
    BY InParts DEF BackendOK
  <2>2. CASE ServeCreate(k)
    <3>1. row' \in Rows
      BY <2>1, <2>2, PlainRows DEF ServeCreate
    <3>2. gone => row' = row
      BY <2>2 DEF ServeCreate
    <3>3. asked' \in [Facts -> Bit \cup {Free}]
      BY <2>1, <2>2, BitValues DEF ServeCreate
    <3> QED
      BY <2>1, <2>2, <3>1, <3>2, <3>3 DEF ServeCreate, BackendOK
  <2>3. CASE ServeChange(k)
    <3>1. row' \in Rows
      BY <1>1, <2>1, <2>3, BitValues DEF ServeChange, Carried, Rows
    <3>2. ~gone
      BY <2>1, <2>3 DEF ServeChange
    <3> QED
      BY <2>1, <2>3, <3>1, <3>2 DEF ServeChange, BackendOK
  <2>4. CASE ServeDelete(k)
    <3>1. row' \in Rows /\ row'["here"] = 0
      BY <2>4, PlainRows, FactNames DEF ServeDelete
    <3>2. asked' \in [Facts -> Bit \cup {Free}]
      BY <2>4, BitValues DEF ServeDelete
    <3> QED
      BY <2>4, <3>1, <3>2 DEF ServeDelete, BackendOK
  <2>5. CASE ServeOther(k)
    BY <2>1, <2>5 DEF ServeOther, BackendOK
  <2> QED
    BY <2>2, <2>3, <2>4, <2>5
<1>3. PICK q : /\ calls' = [calls EXCEPT ![k] = q]
               /\ q = [name |-> calls[k].name, phase |-> "done", sent |-> q.sent]
               /\ q.sent = row' \/ q.sent = calls[k].sent
               /\ CallOf(k).opens # {} => q.sent = row'
  <2> DEFINE returned == CallOf(k).opens # {} \/ (CallOf(k).does = "create" /\ row' # row)
             new == IF returned THEN row' ELSE calls[k].sent
             q == [name |-> calls[k].name, phase |-> "done", sent |-> new]
  <2>1. calls' = [[calls EXCEPT ![k] = [calls[k] EXCEPT !.phase = "done"]]
                    EXCEPT ![k] = [[calls[k] EXCEPT !.phase = "done"] EXCEPT !.sent = new]]
    BY InParts DEF RequestsOK
  <2>2. [[calls[k] EXCEPT !.phase = "done"] EXCEPT !.sent = new] = q
    BY <1>1, DoneCall DEF IsCall
  <2>3. calls' = [calls EXCEPT ![k] = q]
    BY <2>1, <2>2
  <2>4. q.sent = new
    OBVIOUS
  <2> QED
    BY <2>3, <2>4
<1>4. IsCall(q)'
  <2>1. q.name = calls[k].name /\ q.phase = "done"
    BY <1>3
  <2>2. row' \in Rows
    BY <1>2 DEF BackendOK
  <2>3. \A f \in DOMAIN q.sent : f \in Facts /\ q.sent[f] \in Bit
    BY <1>1, <1>3, <2>2 DEF Carried, Rows
  <2>4. "here" \in DOMAIN q.sent => q.sent \in Rows
    BY <1>1, <1>3, <2>2 DEF Carried
  <2>5. CallOf(k).opens # {} => q.sent \in Rows
    BY <1>3, <2>2
  <2>6. Carried(q)
    BY <2>1, <2>3, <2>4, <2>5 DEF Carried, CallOf
  <2>7. IsCall(q)
    BY <1>1, <1>3, <2>1, <2>6 DEF IsCall
  <2> QED
    BY <2>7 DEF IsCall, Carried, SentBy, Calls, D
<1>5. RequestsOK'
  <2>1. calls = [j \in CallIds |-> calls[j]]
    BY InParts DEF RequestsOK
  <2>2. calls' = [j \in CallIds |-> calls'[j]]
    BY <1>3, <2>1 DEF CallIds
  <2>3. \A j \in CallIds : calls'[j] = IF j = k THEN q ELSE calls[j]
    BY <1>3, <2>1
  <2>4. ASSUME NEW j \in CallIds PROVE (calls[j] = NoCall \/ (j <= pressed /\ IsCall(calls[j])))'
    <3>1. CASE j = k
      BY <1>1, <1>4, <2>3, <3>1 DEF counts
    <3>2. CASE j # k
      BY <2>3, <3>2, InParts, ZenonT(40) DEF RequestsOK, CallsOK, IsCall, Carried, Calls, SentBy, D, counts
    <3> QED
      BY <3>1, <3>2
  <2>5. CallsOK'
    BY <2>4 DEF CallsOK, CallIds
  <2>6. busy' \subseteq Mutations'
    BY InParts DEF RequestsOK, Mutations, Via, Calls, D
  <2> QED
    BY <2>2, <2>5, <2>6, InParts DEF RequestsOK, counts
<1>6. ScreenOK'
  BY InParts, ScreenStays
<1>7. DeskInv'
  BY <1>2, <1>5, <1>6, InParts, InPartsAfter, DeskStays, PanelsStay DEF panels
<1>8. ReadsCounted'
  <2>1. Unanswered' = Unanswered
    <3>1. calls[k] # NoCall
      BY CallInFlight
    <3>2. q # NoCall
      BY <1>3 DEF NoCall
    <3> QED
      BY <1>3, <3>1, <3>2, InParts DEF Unanswered, RequestsOK, CallIds
  <2>2. \A l : Ids(l)' = Ids(l)
    BY DEF Ids, ReadsOf, screen
  <2>3. Lists' = Lists
    BY DEF Lists, D
  <2> QED
    BY <2>1, <2>2, <2>3 DEF ReadsCounted, counts
<1> QED
  BY <1>7, <1>8

\* A call that was answered is one less.
LEMMA AnsweredKeeps ==
  ASSUME DeskInv, ReadsCounted, NEW k \in CallIds, calls[k].phase # "none", Answered(k),
         desk' = desk, left' \in BOOLEAN, UNCHANGED counts, busy' \subseteq busy
  PROVE  RequestsOK' /\ Cardinality(Unanswered) = Cardinality(Unanswered') + 1
<1> USE DEF Answered
<1>1. calls = [j \in CallIds |-> calls[j]]
  BY InParts DEF RequestsOK
<1>2. calls' = [j \in CallIds |-> calls'[j]]
  BY <1>1 DEF CallIds
<1>3. \A j \in CallIds : calls'[j] = IF j = k THEN NoCall ELSE calls[j]
  BY <1>1
<1>4. CallsOK'
  BY <1>3, InParts DEF RequestsOK, CallsOK, IsCall, Carried, Calls, SentBy, D, counts, CallIds
<1>5. RequestsOK'
  BY <1>2, <1>4, InParts DEF RequestsOK, Mutations, Via, Calls, D, counts
<1>6. k \in Unanswered
  BY CallInFlight DEF Unanswered
<1>7. Unanswered' = Unanswered \ {k}
  BY <1>3 DEF Unanswered, CallIds
<1>8. Cardinality(Unanswered') = Cardinality(Unanswered) - 1
  BY <1>6, <1>7, UnansweredCounted, FS_RemoveElement
<1> QED
  BY <1>5, <1>8, UnansweredCounted

\* A mutation is freed, or not.
LEMMA FreedIsLess ==
  ASSUME NEW k, NEW how PROVE Freed(k, how) \subseteq busy
BY DEF Freed

\* The answer to a call arrives.
LEMMA SucceedKeeps ==
  ASSUME DeskInv, ReadsCounted, NEW k \in CallIds, Succeed(k)
  PROVE  DeskInv' /\ ReadsCounted'
<1> DEFINE C == CallOf(k)
<1>1. IsCall(calls[k]) /\ calls[k].name \in Calls /\ Carried(calls[k]) /\ calls[k].phase = "done"
  BY CallInFlight DEF IsCall, Succeed
<1>2. RequestsOK' /\ Cardinality(Unanswered) = Cardinality(Unanswered') + 1
  <2>1. C.leaves \in BOOLEAN
    BY <1>1, DeskRules DEF WellMade, Calls, CallOf
  <2> QED
    BY <1>1, <2>1, AnsweredKeeps, FreedIsLess DEF Succeed
<1>3. /\ \A r \in reads' : r.list \in Lists /\ r.id \in ReadIds /\ r.answer \in Rows \cup {Unread}
      /\ \A r \in reads' : r = [list |-> r.list, id |-> r.id, answer |-> r.answer]
      /\ \A l \in Lists : Cardinality(Ids(l)') <= Cardinality(Ids(l)) + 1
      /\ late' \subseteq Lists
  <2> DEFINE ls == C.refetches \cap Lists
             patched == IF C.patches = "after" THEN Lists ELSE {}
  <2>1. Restart(ls, patched) /\ desk' = desk
    BY DEF Succeed
  <2>2. ls \in SUBSET Lists /\ patched \in SUBSET Lists
    OBVIOUS
  <2>3. pressed \in 0 .. MaxPresses /\ events \in 0 .. MaxEvents
    BY InParts DEF RequestsOK
  <2>4. IsFiniteSet(Unanswered') /\ Cardinality(Unanswered') \in Nat
    <3>1. Unanswered' \subseteq Unanswered
      BY InParts DEF Succeed, Answered, Unanswered, CallIds, RequestsOK
    <3> QED
      BY <3>1, UnansweredCounted, FS_Subset, FS_CardinalityType
  <2>5. \A l \in Lists : Cardinality(Ids(l)) <= MaxPresses + MaxEvents
    BY <1>2, <2>3, <2>4, IdsAreNumbers, BoundsAssumption DEF ReadsCounted
  <2> HIDE DEF ls, patched
  <2> QED
    BY <2>1, <2>2, <2>5, Restarting
<1>4. ScreenOK'
  <2>1. Patched(calls[k].name, calls[k].sent) \in [Lists -> Rows \cup {NotLoaded}]
    BY <1>1, PatchedIsRow DEF Carried
  <2>2. shown' \in [Lists -> Rows \cup {NotLoaded}]
    BY <2>1, InParts DEF Succeed, ScreenOK
  <2> QED
    BY <1>3, <2>2 DEF Succeed, ScreenOK, ReadOK, Lists, D
<1>5. PanelsOK'
  <2>1. C.opens \subseteq Panels
    BY <1>1, DeskRules DEF WellMade, Calls, CallOf, Panels
  <2>2. ASSUME NEW p \in Panels PROVE typed'[p] \in [Columns -> Bit]
    <3>1. typed[p] \in [Columns -> Bit]
      BY InParts DEF PanelsOK
    <3>2. p \in C.opens => Copied(p, calls[k].sent) \in [Columns -> Bit]
      BY <1>1, PanelValues DEF Carried, CallOf
    <3>3. [f \in Columns |-> IF f \in C.fills THEN 1 ELSE typed[p][f]] \in [Columns -> Bit]
      BY <3>1, BitValues
    <3> QED
      BY <3>1, <3>2, <3>3, PanelValues DEF Succeed
  <2>3. typed' \in [Panels -> [Columns -> Bit]]
    BY <2>2 DEF Succeed
  <2> QED
    BY <2>1, <2>3, InParts DEF Succeed, PanelsOK, Panels, Calls, D
<1>6. DeskInv'
  BY <1>2, <1>4, <1>5, InParts, InPartsAfter, DeskStays, BackendStays DEF Succeed
<1>7. ReadsCounted'
  <2>1. pressed' = pressed /\ events' = events /\ pressed \in Nat /\ events \in Nat
    BY InParts, BoundsAssumption DEF RequestsOK, Succeed, counts
  <2>2. Cardinality(Unanswered') \in Int
    <3>1. Unanswered' \subseteq Unanswered
      BY InParts DEF Succeed, Answered, Unanswered, CallIds, RequestsOK
    <3> QED
      BY <3>1, UnansweredCounted, FS_Subset, FS_CardinalityType
  <2>3. Lists' = Lists
    BY DEF Succeed, Lists, D
  <2> SUFFICES ASSUME NEW l \in Lists
              PROVE Cardinality(Ids(l)') + Cardinality(Unanswered') <= 1 + pressed' + events'
    BY <2>3 DEF ReadsCounted
  <2>4. Cardinality(Ids(l)) + Cardinality(Unanswered) <= 1 + pressed + events
    BY DEF ReadsCounted
  <2> QED
    BY <1>2, <1>3, <1>4, <2>1, <2>2, <2>4, IdsAreNumbers, IdsAfter
<1> QED
  BY <1>6, <1>7

\* Steps that leave the lists and their reads alone, and no more calls unanswered.
LEMMA ReadsStay ==
  ASSUME DeskInv, ReadsCounted, UNCHANGED <<desk, reads, pressed>>, events' >= events, events' \in Nat,
         Cardinality(Unanswered') <= Cardinality(Unanswered), Cardinality(Unanswered') \in Int
  PROVE  ReadsCounted'
<1>1. pressed \in Nat /\ events \in Nat
  BY InParts, BoundsAssumption DEF RequestsOK
<1>2. Lists' = Lists /\ \A l : Ids(l)' = Ids(l)
  BY DEF Lists, D, Ids, ReadsOf
<1> SUFFICES ASSUME NEW l \in Lists
            PROVE Cardinality(Ids(l)) + Cardinality(Unanswered') <= 1 + pressed' + events'
  BY <1>2 DEF ReadsCounted
<1>3. Cardinality(Ids(l)) + Cardinality(Unanswered) <= 1 + pressed + events
  BY DEF ReadsCounted
<1> QED
  BY <1>1, <1>3, IdsAreNumbers, UnansweredCounted

\* A call fails.
LEMMA FailKeeps ==
  ASSUME DeskInv, ReadsCounted, NEW k \in CallIds, Fail(k)
  PROVE  DeskInv' /\ ReadsCounted'
<1> USE DEF Fail
<1>1. IsCall(calls[k]) /\ calls[k].name \in Calls
  BY CallInFlight
<1>2. RequestsOK' /\ Cardinality(Unanswered) = Cardinality(Unanswered') + 1
  BY <1>1, AnsweredKeeps, FreedIsLess, InParts DEF RequestsOK
<1>3. BackendOK'
  BY InParts DEF BackendOK, backend
<1>4. PanelsOK'
  BY <1>1, InParts DEF PanelsOK, Panels, Calls, D
<1>5. DeskInv'
  BY <1>2, <1>3, <1>4, InParts, InPartsAfter, DeskStays, ScreenStays
<1>6. Cardinality(Unanswered') \in Int
  <2>1. Unanswered' \subseteq Unanswered
    BY InParts DEF Answered, Unanswered, CallIds, RequestsOK
  <2> QED
    BY <2>1, UnansweredCounted, FS_Subset, FS_CardinalityType
<1>7. events \in Nat
  BY InParts, BoundsAssumption DEF RequestsOK
<1> QED
  BY <1>2, <1>5, <1>6, <1>7, ReadsStay, UnansweredCounted DEF screen, counts

\* Somebody else changes the row, or deletes it.
LEMMA ElsewhereKeeps ==
  ASSUME DeskInv, ReadsCounted, NEW f \in Facts, Elsewhere(f)
  PROVE  DeskInv' /\ ReadsCounted'
<1> USE DEF Elsewhere
<1>1. BackendOK'
  <2>1. row \in Rows /\ gone \in BOOLEAN /\ (gone => row["here"] = 0) /\ asked \in [Facts -> Bit \cup {Free}]
    BY InParts DEF BackendOK
  <2>2. CASE f = "here"
    BY <2>2, PlainRows, FactNames DEF BackendOK
  <2>3. CASE f # "here"
    <3>1. row' \in Rows
      BY <2>1, <2>3, BitValues DEF Rows
    <3>2. ~gone
      BY <2>1
    <3> QED
      BY <2>1, <2>3, <3>1, <3>2 DEF BackendOK
  <2> QED
    BY <2>2, <2>3
<1>2. events \in Nat /\ events' \in 0 .. MaxEvents /\ pressed \in 0 .. MaxPresses
  BY InParts, BoundsAssumption DEF RequestsOK
<1>3. DeskInv'
  BY <1>1, <1>2, InParts, InPartsAfter, DeskStays, ScreenStays, PanelsStay, RequestsStay, BoundsAssumption
     DEF panels, RequestsOK
<1>4. Unanswered' = Unanswered
  BY DEF Unanswered, CallIds
<1> QED
  BY <1>2, <1>3, <1>4, ReadsStay, UnansweredCounted DEF screen

\* A desk that was just opened.
LEMMA DeskStart == Init => DeskInv /\ ReadsCounted
<1> SUFFICES ASSUME Init PROVE DeskInv /\ ReadsCounted
  OBVIOUS
<1> USE DEF Init
<1>1. DeskKnown
  BY DescriptionAssumption DEF DeskKnown
<1>2. \A l : Load(l, 1) = [list |-> l, id |-> 1, answer |-> Unread]
  BY DEF Load
<1>3. 1 \in ReadIds
  BY BoundsAssumption DEF ReadIds
<1>4. ScreenOK
  BY <1>2, <1>3 DEF ScreenOK, ReadOK
<1>5. BackendOK
  BY PlainRows DEF BackendOK
<1>6. PanelsOK
  BY PanelValues DEF PanelsOK
<1>7. RequestsOK
  <2>1. \A k \in CallIds : calls[k] = NoCall
    OBVIOUS
  <2>2. CallsOK
    BY <2>1 DEF CallsOK
  <2>3. calls = [k \in CallIds |-> calls[k]]
    BY <2>1
  <2>4. pressed \in 0 .. MaxPresses /\ events \in 0 .. MaxEvents
    BY BoundsAssumption
  <2> QED
    BY <2>2, <2>3, <2>4 DEF RequestsOK
<1>8. ReadsCounted
  <2>1. Unanswered = {}
    BY DEF Unanswered
  <2>2. \A l : Ids(l) \subseteq {1}
    BY <1>2 DEF Ids, ReadsOf
  <2>3. IsFiniteSet({1}) /\ Cardinality({1}) = 1
    BY FS_Singleton
  <2>4. \A l : Cardinality(Ids(l)) <= 1 /\ Cardinality(Ids(l)) \in Nat
    BY <2>2, <2>3, FS_Subset, FS_CardinalityType
  <2> QED
    BY <2>1, <2>4, FS_EmptySet DEF ReadsCounted
<1> QED
  BY <1>1, <1>4, <1>5, <1>6, <1>7, <1>8, InParts

\* Every step keeps the desk in order.
LEMMA DeskStep ==
  ASSUME DeskInv, ReadsCounted, [Next]_vars
  PROVE  DeskInv' /\ ReadsCounted'
<1>1. CASE Progress
  BY <1>1, AnswerKeeps, InstallKeeps, LoseReadKeeps, ServeKeeps, SucceedKeeps, FailKeeps DEF Progress
<1>2. CASE Person
  BY <1>2, RefocusKeeps, TurnKeeps, OpenPanelKeeps, CancelKeeps, TypeKeeps, PressKeeps, RefuseKeeps,
     ElsewhereKeeps DEF Person
<1>3. CASE UNCHANGED vars
  BY <1>3, PanelStep, InParts, PanelsStay DEF vars, panels
<1> QED
  BY <1>1, <1>2, <1>3 DEF Next

\* Every variable of a desk has a value of its kind, and the reads in flight never run out
\* of numbers, however many buttons are pressed.
THEOREM DeskTypes == Spec => []DeskTypeOK
<1>1. DeskInv /\ ReadsCounted => DeskTypeOK
  BY DEF DeskInv
<1> QED
  BY <1>1, DeskStart, DeskStep, PTL DEF Spec
----------------------------------------------------------------------------
\* Two calls of one mutation whose buttons all wait for it are kept apart.
LEMMA SameMutationApart ==
  ASSUME NEW a \in Calls, NEW b \in Calls, Via(a) = Via(b), Locked(D, Via(a))
  PROVE  Apart(D, a, b)
BY DEF Apart, Locked, Via, Calls

\* The locks hold while the same calls are in flight.
LEMMA LocksStay ==
  ASSUME LocksInv, desk' = desk, busy' = busy,
         \A k \in CallIds : /\ calls'[k] # NoCall <=> calls[k] # NoCall
                            /\ calls[k] # NoCall => calls'[k].name = calls[k].name
  PROVE  LocksInv'
<1>1. Unanswered' = Unanswered
  BY DEF Unanswered, CallIds
<1>2. \A k \in Unanswered : calls'[k].name = calls[k].name
  BY DEF Unanswered
<1> QED
  BY <1>1, <1>2 DEF LocksInv, Via, D

\* A press takes the lock, which was free.
LEMMA PressLocks ==
  ASSUME DeskInv, LocksInv, NEW c \in Calls, Press(c)
  PROVE  LocksInv'
<1> USE DEF Press
<1> DEFINE k0 == pressed + 1
<1>1. k0 \in CallIds /\ calls = [k \in CallIds |-> calls[k]]
  BY InParts, BoundsAssumption DEF RequestsOK, CallIds
<1>2. \A k \in CallIds : calls'[k] = IF k = k0 THEN [name |-> c, phase |-> "sent", sent |-> Request(c)] ELSE calls[k]
  BY <1>1
<1>3. calls'[k0].name = c
  BY <1>1, <1>2
<1>4. \A k \in Unanswered' : k = k0 \/ (k \in Unanswered /\ calls'[k].name = calls[k].name)
  BY <1>2 DEF Unanswered, CallIds
<1>5. \A k \in Unanswered : Locked(D, Via(calls[k].name)) => Via(calls[k].name) \notin D.buttons[c].waits
  BY DEF LocksInv, Enabled
<1>6. ASSUME NEW k \in Unanswered'
      PROVE  Locked(D, Via(calls'[k].name)) => Via(calls'[k].name) \in busy'
  BY <1>3, <1>4 DEF LocksInv
<1>7. ASSUME NEW k \in Unanswered', NEW j \in Unanswered' \ {k}
      PROVE  ~Apart(D, calls'[j].name, calls'[k].name)
  <2>1. CASE k = k0
    <3>1. j \in Unanswered /\ calls'[j].name = calls[j].name
      BY <1>4, <2>1
    <3> QED
      BY <1>3, <1>5, <2>1, <3>1 DEF Apart, Via
  <2>2. CASE j = k0
    <3>1. k \in Unanswered /\ calls'[k].name = calls[k].name
      BY <1>4, <2>2
    <3> QED
      BY <1>3, <1>5, <2>2, <3>1 DEF Apart, Via
  <2>3. CASE k # k0 /\ j # k0
    <3>1. k \in Unanswered /\ calls'[k].name = calls[k].name /\ j \in Unanswered /\ calls'[j].name = calls[j].name
      BY <1>4, <2>3
    <3> QED
      BY <3>1 DEF LocksInv
  <2> QED
    BY <2>1, <2>2, <2>3
<1> QED
  BY <1>6, <1>7 DEF LocksInv, Via, D

\* An answer gives back the lock of its own call only.
LEMMA AnswerUnlocks ==
  ASSUME DeskInv, LocksInv, NEW k \in CallIds, calls[k].phase # "none", Answered(k), desk' = desk,
         NEW how, busy' = Freed(k, how)
  PROVE  LocksInv'
<1>1. k \in Unanswered /\ calls[k].name \in Calls
  BY CallInFlight DEF Unanswered
<1>2. \A j \in CallIds : calls'[j] = IF j = k THEN NoCall ELSE calls[j]
  BY InParts DEF RequestsOK, Answered
<1>3. Unanswered' = Unanswered \ {k}
  BY <1>2 DEF Unanswered, CallIds
<1>4. ASSUME NEW j \in Unanswered', Locked(D, Via(calls[j].name))
      PROVE  Via(calls[j].name) \in busy'
  <2>1. j \in Unanswered /\ j # k /\ calls[j].name \in Calls
    BY <1>3, CallInFlight DEF Unanswered
  <2>2. Via(calls[j].name) # Via(calls[k].name)
    BY <1>1, <1>4, <2>1, SameMutationApart DEF LocksInv
  <2> QED
    BY <1>4, <2>1, <2>2 DEF LocksInv, Freed
<1>5. \A j \in Unanswered' : calls'[j].name = calls[j].name
  BY <1>2, <1>3 DEF Unanswered
<1> QED
  BY <1>3, <1>4, <1>5 DEF LocksInv, Via, D

\* Every step keeps the locks.
LEMMA LocksStep ==
  ASSUME DeskInv, ReadsCounted, LocksInv, [Next]_vars
  PROVE  LocksInv'
<1>1. ASSUME UNCHANGED <<desk, requests>> PROVE LocksInv'
  BY <1>1, LocksStay DEF requests
<1>2. ASSUME NEW k \in CallIds, Serve(k) PROVE LocksInv'
  <2>1. calls[k] # NoCall /\ calls[k].name \in Calls /\ calls[k].name # "none" /\ IsCall(calls[k])
    BY <1>2, CallInFlight, DeskRules DEF Serve, WellMade, Calls
  <2>2. PICK new : calls' = [calls EXCEPT ![k].phase = "done", ![k].sent = new]
    BY <1>2 DEF Serve
  <2>3. calls'[k] = [[calls[k] EXCEPT !.phase = "done"] EXCEPT !.sent = new]
        /\ \A j \in CallIds \ {k} : calls'[j] = calls[j]
    BY <2>2, InParts DEF RequestsOK
  <2>4. calls'[k] = [name |-> calls[k].name, phase |-> "done", sent |-> new]
    BY <2>1, <2>3, DoneCall DEF IsCall
  <2>5. calls'[k].name = calls[k].name /\ calls'[k] # NoCall
    BY <2>1, <2>4 DEF NoCall
  <2> QED
    BY <1>2, <2>1, <2>3, <2>5, LocksStay DEF Serve
<1>3. ASSUME NEW k \in CallIds, Succeed(k) PROVE LocksInv'
  BY <1>3, AnswerUnlocks DEF Succeed
<1>4. ASSUME NEW k \in CallIds, Fail(k) PROVE LocksInv'
  BY <1>4, AnswerUnlocks DEF Fail
<1>5. ASSUME NEW f \in Facts, Elsewhere(f) PROVE LocksInv'
  BY <1>5, LocksStay DEF Elsewhere
<1>6. CASE Progress
  BY <1>1, <1>2, <1>3, <1>4, <1>6 DEF Progress, Answer, Install, LoseRead
<1>7. CASE Person
  <2>1. ASSUME NEW c \in Calls, Press(c) PROVE LocksInv'
    BY <2>1, PressLocks
  <2> QED
    BY <1>1, <1>5, <1>7, <2>1 DEF Person, Refocus, Turn, OpenPanel, Cancel, Type, Refuse
<1>8. CASE UNCHANGED vars
  BY <1>1, <1>8 DEF vars
<1> QED
  BY <1>6, <1>7, <1>8 DEF Next

\* The locks at a desk that was just opened.
LEMMA LocksStart == Init => LocksInv
BY DEF Init, LocksInv, Unanswered

\* No form is submitted again while the row it makes is under way, at any desk whose forms
\* wait for their mutation (`disabled={mutation.isPending}`).
THEOREM FormsSubmittedOnce == Spec => []SubmittedOnce
<1>1. ASSUME DeskInv, LocksInv PROVE SubmittedOnce
  <2> SUFFICES ASSUME NEW j \in CallIds, NEW k \in CallIds, j # k, calls[j] # NoCall,
                      calls[j].name = calls[k].name, CallOf(j).does = "create"
               PROVE  desk.name \in Resubmitted
    BY DEF SubmittedOnce
  <2> DEFINE c == calls[j].name
  <2>1. c \in Calls /\ c # "none"
    BY <1>1, CallInFlight, DeskRules DEF WellMade, Calls
  <2>2. calls[k] # NoCall
    BY <2>1 DEF NoCall
  <2>3. ~Apart(D, c, c)
    BY <1>1, <2>2 DEF LocksInv, Unanswered
  <2>4. ~Locked(D, Via(c))
    BY <2>1, <2>3, SameMutationApart
  <2> QED
    BY <1>1, <2>1, <2>4, DeskRules DEF FormsWait, CallOf, Calls, Via
<1>2. DeskInv /\ ReadsCounted /\ LocksInv => SubmittedOnce
  BY <1>1
<1> QED
  BY <1>2, DeskStart, DeskStep, LocksStart, LocksStep, PTL DEF Spec
----------------------------------------------------------------------------
\* Messages stay excused while the same attempts are due and no other calls are in flight.
LEMMA MessagesStay ==
  ASSUME MessagesInv, desk' = desk, left' = left, due' = due, errors' \subseteq errors,
         \A k \in Unanswered' : k \in Unanswered /\ calls'[k].name = calls[k].name
  PROVE  MessagesInv'
<1> SUFFICES ASSUME ~left, NEW e \in errors \ Known(Lingering)
            PROVE  \E c \in Calls : Excuses(c, e)'
  BY DEF MessagesInv, Known, Calls, D
<1>1. PICK c \in Calls : Excuses(c, e)
  BY DEF MessagesInv
<1>2. Excuses(c, e)'
  BY <1>1 DEF Excuses, D
<1> QED
  BY <1>2

\* The message of a call, when nothing of the call is in flight, is excused by it.
LEMMA OwnMessage ==
  ASSUME DeskInv, NEW c \in Calls, NEW e \in D.calls[c].reports \ Known(Lingering)
  PROVE  \/ e \in D.calls[c].clears
         \/ D.calls[c].leaves
         \/ e \in D.calls[c].starts /\ Locked(D, Via(c))
BY DeskRules DEF MessagesTaken, Known, Calls, Via

\* A press takes away the messages that its success would leave.
LEMMA PressMessages ==
  ASSUME DeskInv, MessagesInv, NEW c \in Calls, Press(c)
  PROVE  MessagesInv'
<1> USE DEF Press
<1> DEFINE k0 == pressed + 1
<1>1. calls = [k \in CallIds |-> calls[k]] /\ k0 \in CallIds
  BY InParts, BoundsAssumption DEF RequestsOK, CallIds
<1>2. \A k \in CallIds : calls'[k] = IF k = k0 THEN [name |-> c, phase |-> "sent", sent |-> Request(c)] ELSE calls[k]
  BY <1>1
<1>3. \A k \in Unanswered' : calls'[k].name = c \/ (k \in Unanswered /\ calls'[k].name = calls[k].name)
  BY <1>2 DEF Unanswered, CallIds
<1> SUFFICES ASSUME NEW e \in errors', e \notin Known(Lingering)
            PROVE  \E b \in Calls : Excuses(b, e)'
  BY DEF MessagesInv, Known, Calls, D
<1>4. e \in errors /\ e \notin D.calls[c].starts
  BY DEF Begun
<1>5. PICK b \in Calls : Excuses(b, e)
  BY <1>4 DEF MessagesInv
<1>6. CASE b = c
  <2>1. e \in D.calls[c].clears \/ D.calls[c].leaves
    BY <1>4, <1>5, <1>6, OwnMessage DEF Excuses
  <2> QED
    BY <1>5, <1>6, <2>1 DEF Excuses, D
<1>7. CASE b # c
  BY <1>3, <1>5, <1>7 DEF Excuses, D
<1> QED
  BY <1>6, <1>7

\* A refusal shows messages of a call that is not in flight.
LEMMA RefuseMessages ==
  ASSUME DeskInv, LocksInv, MessagesInv, NEW c \in Calls, Refuse(c)
  PROVE  MessagesInv'
<1> USE DEF Refuse
<1>1. Unanswered' = Unanswered /\ \A k : calls'[k].name = calls[k].name
  BY DEF requests, Unanswered, CallIds
<1> SUFFICES ASSUME NEW e \in errors', e \notin Known(Lingering)
            PROVE  \E b \in Calls : Excuses(b, e)'
  BY DEF MessagesInv, Known, Calls, D
<1>2. CASE e \in D.calls[c].reports
  <2>1. \/ e \in D.calls[c].clears
        \/ D.calls[c].leaves
        \/ Locked(D, Via(c))
    BY <1>2, OwnMessage
  <2>2. ASSUME Locked(D, Via(c)) PROVE \A k \in Unanswered : calls[k].name # c
    <3>1. Via(c) \in D.buttons[c].waits
      BY <2>2 DEF Locked, Via, Calls
    <3>2. Via(c) \notin busy
      BY <3>1 DEF Enabled
    <3> QED
      BY <2>2, <3>2 DEF LocksInv
  <2>3. Excuses(c, e)'
    BY <1>1, <1>2, <2>1, <2>2 DEF Excuses, D
  <2> QED
    BY <2>3
<1>3. CASE e \notin D.calls[c].reports
  <2>1. PICK b \in Calls : Excuses(b, e)
    BY <1>3 DEF MessagesInv, Begun
  <2>2. Excuses(b, e)'
    BY <1>1, <2>1 DEF Excuses, D
  <2> QED
    BY <2>2
<1> QED
  BY <1>2, <1>3

\* A call that is answered leaves the others.
LEMMA OthersInFlight ==
  ASSUME DeskInv, NEW k \in CallIds, calls[k].phase # "none", Answered(k)
  PROVE  /\ k \in Unanswered /\ calls[k].name \in Calls
         /\ Unanswered' = Unanswered \ {k}
         /\ \A j \in Unanswered' : calls'[j].name = calls[j].name
<1>1. \A j \in CallIds : calls'[j] = IF j = k THEN NoCall ELSE calls[j]
  BY InParts DEF RequestsOK, Answered
<1>2. k \in Unanswered /\ calls[k].name \in Calls
  BY CallInFlight DEF Unanswered
<1> QED
  BY <1>1, <1>2 DEF Unanswered, CallIds

\* A success leaves only messages that others excuse.
LEMMA SucceedMessages ==
  ASSUME DeskInv, MessagesInv, NEW k \in CallIds, Succeed(k)
  PROVE  MessagesInv'
<1> USE DEF Succeed
<1> DEFINE c == calls[k].name
<1>1. /\ k \in Unanswered /\ c \in Calls
      /\ Unanswered' = Unanswered \ {k}
      /\ \A j \in Unanswered' : calls'[j].name = calls[j].name
  BY OthersInFlight
<1> SUFFICES ASSUME ~left', NEW e \in errors', e \notin Known(Lingering)
            PROVE  \E b \in Calls : Excuses(b, e)'
  BY DEF MessagesInv, Known, Calls, D
<1>2. e \in errors /\ e \notin D.calls[c].clears /\ ~D.calls[c].leaves
  BY DEF CallOf
<1>3. PICK b \in Calls : Excuses(b, e)
  BY <1>2 DEF MessagesInv
<1>4. b # c
  BY <1>1, <1>2, <1>3 DEF Excuses
<1>5. Excuses(b, e)'
  BY <1>1, <1>3, <1>4 DEF Excuses, D
<1> QED
  BY <1>5

\* A failure shows messages of its own call, of which nothing else is in flight when the
\* press had taken them away.
LEMMA FailMessages ==
  ASSUME DeskInv, LocksInv, MessagesInv, NEW k \in CallIds, Fail(k)
  PROVE  MessagesInv'
<1> USE DEF Fail
<1>1. PICK c : c = calls[k].name
  OBVIOUS
<1>2. /\ k \in Unanswered /\ c \in Calls
      /\ Unanswered' = Unanswered \ {k}
      /\ \A j \in Unanswered' : calls'[j].name = calls[j].name
  BY <1>1, OthersInFlight
<1> SUFFICES ASSUME NEW e \in errors', e \notin Known(Lingering)
            PROVE  \E b \in Calls : Excuses(b, e)'
  BY DEF MessagesInv, Known, Calls, D
<1>3. CASE e \in D.calls[c].reports
  <2>1. \/ e \in D.calls[c].clears
        \/ D.calls[c].leaves
        \/ Locked(D, Via(c))
    BY <1>2, <1>3, OwnMessage
  <2>2. ASSUME Locked(D, Via(c)) PROVE \A j \in Unanswered \ {k} : calls[j].name # c
    <3>1. Apart(D, c, c)
      BY <1>2, <2>2, SameMutationApart
    <3> QED
      BY <1>1, <1>2, <3>1 DEF LocksInv
  <2>3. Excuses(c, e)'
    BY <1>2, <1>3, <1>1, <2>1, <2>2 DEF Excuses, D
  <2> QED
    BY <1>2, <2>3
<1>4. CASE e \notin D.calls[c].reports
  <2>1. PICK b \in Calls : Excuses(b, e)
    BY <1>4, <1>1 DEF MessagesInv, CallOf
  <2>2. Excuses(b, e)'
    BY <1>2, <2>1 DEF Excuses, D
  <2> QED
    BY <2>2
<1> QED
  BY <1>3, <1>4

\* A call keeps its name when it is carried out, and stays in flight.
LEMMA ServedInFlight ==
  ASSUME DeskInv, NEW k \in CallIds, Serve(k)
  PROVE  /\ Unanswered' = Unanswered
         /\ \A j \in CallIds : calls'[j].name = calls[j].name
         /\ \A j \in CallIds \ {k} : calls'[j] = calls[j]
         /\ calls'[k].phase = "done"
         /\ calls'[k].sent = IF CallOf(k).opens # {} \/ (CallOf(k).does = "create" /\ row' # row)
                             THEN row' ELSE calls[k].sent
<1> DEFINE new == IF CallOf(k).opens # {} \/ (CallOf(k).does = "create" /\ row' # row)
                  THEN row' ELSE calls[k].sent
<1>1. calls[k] # NoCall /\ IsCall(calls[k])
  BY CallInFlight DEF Serve
<1>2. calls' = [[calls EXCEPT ![k] = [calls[k] EXCEPT !.phase = "done"]]
                  EXCEPT ![k] = [[calls[k] EXCEPT !.phase = "done"] EXCEPT !.sent = new]]
  BY InParts DEF RequestsOK, Serve
<1> HIDE DEF new
<1>3. calls'[k] = [[calls[k] EXCEPT !.phase = "done"] EXCEPT !.sent = new]
      /\ \A j \in CallIds \ {k} : calls'[j] = calls[j]
  BY <1>2, InParts DEF RequestsOK
<1>4. calls'[k] = [name |-> calls[k].name, phase |-> "done", sent |-> new]
  BY <1>1, <1>3, DoneCall DEF IsCall
<1>5. calls'[k] # NoCall
  BY <1>4 DEF NoCall
<1>6. Unanswered' = Unanswered
  BY <1>1, <1>3, <1>5 DEF Unanswered, CallIds
<1> QED
  BY <1>3, <1>4, <1>6 DEF new

\* Every step keeps the messages excused.
LEMMA MessagesStep ==
  ASSUME DeskInv, ReadsCounted, LocksInv, MessagesInv, [Next]_vars
  PROVE  MessagesInv'
<1>1. ASSUME UNCHANGED <<desk, left, due, requests>>, errors' \subseteq errors PROVE MessagesInv'
  <2>1. Unanswered' = Unanswered /\ \A k : calls'[k].name = calls[k].name
    BY <1>1 DEF requests, Unanswered, CallIds
  <2> QED
    BY <1>1, <2>1, MessagesStay
<1>2. ASSUME NEW k \in CallIds, Serve(k) PROVE MessagesInv'
  <2>1. \A j \in Unanswered' : j \in Unanswered /\ calls'[j].name = calls[j].name
    BY <1>2, ServedInFlight DEF Unanswered
  <2> QED
    BY <1>2, <2>1, MessagesStay DEF Serve, panels
<1>3. ASSUME NEW f \in Facts, Elsewhere(f) PROVE MessagesInv'
  <2>1. Unanswered' = Unanswered /\ \A k : calls'[k].name = calls[k].name
    BY <1>3 DEF Elsewhere, Unanswered, CallIds
  <2> QED
    BY <1>3, <2>1, MessagesStay DEF Elsewhere, panels
<1>4. CASE Progress
  BY <1>1, <1>2, <1>4, SucceedMessages, FailMessages DEF Progress, Answer, Install, LoseRead, panels
<1>5. CASE Person
  BY <1>1, <1>3, <1>5, PressMessages, RefuseMessages
     DEF Person, Refocus, Turn, OpenPanel, Cancel, Type, panels
<1>6. CASE UNCHANGED vars
  BY <1>1, <1>6 DEF vars, panels
<1> QED
  BY <1>4, <1>5, <1>6 DEF Next

\* At a desk that was just opened there are none.
LEMMA MessagesStart == Init => MessagesInv
BY DEF Init, MessagesInv

\* A message on display is about an attempt that failed and was not repeated with success,
\* at any desk where the press or the success takes the message of the call away
\* (`setError(null)`, in the handler or in onSuccess).
THEOREM MessagesAreCurrent == Spec => []NoStaleMessage
<1>1. MessagesInv /\ DeskInv => NoStaleMessage
  BY DEF MessagesInv, NoStaleMessage, Excuses
<1> QED
  BY <1>1, DeskStart, DeskStep, LocksStart, LocksStep, MessagesStart, MessagesStep, PTL DEF Spec
----------------------------------------------------------------------------
\* An editor that opens shows the row as the list does, at any desk whose editors are
\* filled when they open (`setEditForm(...)` in the handler that opens them).
THEOREM EditorsOpenFresh == Spec => OpensFresh
<1>1. ASSUME DeskInv, [Next]_vars,
             NEW p \in Panels \ Known(Stale), p \in open' \ open, Filled(p) \in {"row", "once", "sync"}
      PROVE  typed'[p] = Copied(p, DisplayedRow)
  <2>1. ASSUME NEW q \in Panels, OpenPanel(q) PROVE typed'[p] = Copied(p, DisplayedRow)
    <3>1. p = q /\ ~D.panels[p].stays
      BY <1>1, <2>1 DEF OpenPanel
    <3>2. Filled(p) = "row"
      BY <1>1, <3>1, DeskRules DEF EditorsFilled, Known, Panels, Filled
    <3>3. typed \in [Panels -> [Columns -> Bit]]
      BY <1>1, InParts DEF PanelsOK
    <3> QED
      BY <2>1, <3>1, <3>2, <3>3 DEF OpenPanel, Opened
  <2>2. ASSUME NEW k \in CallIds, Succeed(k) PROVE FALSE
    <3>1. p \in CallOf(k).opens /\ calls[k].name \in Calls
      BY <1>1, <2>2, CallInFlight DEF Succeed
    <3>2. Filled(p) = "call"
      BY <1>1, <3>1, DeskRules DEF WellMade, CallOf, Calls, Filled
    <3> QED
      BY <1>1, <3>2
  <2>3. CASE Progress
    BY <1>1, <2>2, <2>3 DEF Progress, Answer, Install, LoseRead, Serve, Fail, panels
  <2>4. CASE Person
    BY <1>1, <2>1, <2>4 DEF Person, Refocus, Turn, Cancel, Type, Press, Refuse, Elsewhere, panels
  <2>5. CASE UNCHANGED vars
    BY <1>1, <2>5 DEF vars, panels
  <2> QED
    BY <1>1, <2>3, <2>4, <2>5 DEF Next
<1>2. DeskInv /\ [Next]_vars =>
        [\A p \in Panels \ Known(Stale) :
           p \in open' \ open /\ Filled(p) \in {"row", "once", "sync"}
             => typed'[p] = Copied(p, DisplayedRow)]_vars
  BY <1>1
<1> QED
  BY <1>2, DeskStart, DeskStep, PTL DEF Spec, OpensFresh
----------------------------------------------------------------------------
\* Two calls in flight that change a column differently are decisions of which the backend
\* carries out one only.
LEMMA OutstandingPair ==
  ASSUME DeskInv, LocksInv, NEW f \in Columns \ Excepted,
         NEW j \in Outstanding(f), NEW k \in Outstanding(f), j # k
  PROVE  \/ SameConstant(D, calls[j].name, calls[k].name, f)
         \/ Exclusive(D, calls[j].name, calls[k].name)
<1>1. \A i \in Outstanding(f) : i \in CallIds /\ calls[i].name \in Changes(D, f) /\ i \in Unanswered
  <2> TAKE i \in Outstanding(f)
  <2>1. i \in CallIds /\ calls[i].phase = "sent" /\ CallOf(i).does = "change" /\ f \in DOMAIN calls[i].sent
    BY DEF Outstanding
  <2>2. IsCall(calls[i]) /\ calls[i].name \in Calls /\ calls[i] # NoCall
    BY <2>1, CallInFlight
  <2> QED
    BY <2>1, <2>2 DEF IsCall, Carried, Changes, SentBy, Calls, CallOf, Unanswered
<1>2. ~Apart(D, calls[j].name, calls[k].name)
  BY <1>1 DEF LocksInv
<1>3. f \in Columns \ Listed(Racing, desk.name)
  BY DEF Excepted, Known
<1> QED
  BY <1>1, <1>2, <1>3, DeskRules DEF ColumnsKeptApart

\* Values are kept by what neither changes the row nor sends anything.
LEMMA ValuesStay ==
  ASSUME ValuesInv, UNCHANGED <<desk, row, asked, calls>> PROVE ValuesInv'
BY DEF ValuesInv, ValueKept, Outstanding, Doomed, Carries, CallOf, D, Excepted, Known, CallIds

\* A column that asks for the same, with the same calls in flight about it.
LEMMA ValueStays ==
  ASSUME NEW f \in Columns, ValueKept(f), desk' = desk, row'[f] = row[f], asked'[f] = asked[f],
         Outstanding(f)' = Outstanding(f),
         \A k \in Outstanding(f) : calls'[k] = calls[k] /\ (Doomed(k) => Doomed(k)')
  PROVE  ValueKept(f)'
BY DEF ValueKept, Carries, CallOf, D

\* A press.
LEMMA PressValues ==
  ASSUME DeskInv, ValuesInv, NEW c \in Calls, Press(c)
  PROVE  ValuesInv'
<1> USE DEF Press
<1>0. PICK k0 : k0 = pressed + 1
  OBVIOUS
<1>1. calls = [k \in CallIds |-> calls[k]] /\ k0 \in CallIds /\ pressed \in Nat
  BY <1>0, InParts, BoundsAssumption DEF RequestsOK, CallIds
<1>2. \A k \in CallIds : calls'[k] = IF k = k0 THEN [name |-> c, phase |-> "sent", sent |-> Request(c)] ELSE calls[k]
  BY <1>0, <1>1
<1>3. calls'[k0].name = c /\ calls'[k0].phase = "sent" /\ calls'[k0].sent = Request(c)
  BY <1>1, <1>2
<1>4. calls[k0] = NoCall /\ calls[k0].phase = "none"
  <2>1. ~(k0 <= pressed)
    BY <1>0, <1>1
  <2> QED
    BY <1>1, <2>1 DEF DeskInv, CallsOK, NoCall
<1>5. row' = row /\ desk' = desk
  BY DEF backend
<1>6. \A f \in SentBy(c) : f \in Columns
  BY DeskRules DEF WellMade, Calls, SentBy
<1>7. ASSUME NEW f \in Columns \ Excepted PROVE ValueKept(f)'
  <2>1. f \in Facts
    BY FactNames
  <2>2. CASE Means(c, f)
    <3>1. D.calls[c].does = "change" /\ f \in SentBy(c) /\ D.calls[c].sends[f] # "added"
      BY <2>2 DEF Means
    <3>2. ~LeftOut(c, f)
      <4> SUFFICES ASSUME LeftOut(c, f) PROVE FALSE
        OBVIOUS
      <4>1. D.calls[c].sends[f] = "filled" /\ Filled(D.buttons[c].in) # "none"
        BY <2>2 DEF Means, LeftOut, Prefilled
      <4>2. f \in Listed(Unset, desk.name)
        BY <3>1, <4>1, DeskRules DEF MeaningsSent, Changes, Filled, Place, SentBy, Calls
      <4> QED
        BY <4>2 DEF Excepted, Known
    <3>3. f \in DOMAIN Request(c) /\ Request(c)[f] = Value(c, f)
      BY <3>1, <3>2 DEF Request
    <3>4. asked'[f] = Value(c, f)
      BY <2>1, <2>2
    <3>5. k0 \in Outstanding(f)' /\ Carries(k0, f)'
      BY <1>1, <1>3, <1>5, <3>1, <3>3, <3>4 DEF Outstanding, Carries, CallOf, D, CallIds
    <3> QED
      BY <3>5 DEF ValueKept
  <2>3. CASE ~Means(c, f) /\ f \in SentBy(c) /\ D.calls[c].sends[f] = "added"
    <3>1. asked'[f] = Free
      BY <2>1, <2>3
    <3> QED
      BY <3>1 DEF ValueKept
  <2>4. CASE ~Means(c, f) /\ ~(f \in SentBy(c) /\ D.calls[c].sends[f] = "added")
    <3>1. asked'[f] = asked[f]
      BY <2>1, <2>4
    <3>2. ~(D.calls[c].does = "change" /\ f \in DOMAIN Request(c))
      BY <2>4 DEF Means, Request
    <3>3. Outstanding(f)' = Outstanding(f)
      BY <1>2, <1>3, <1>4, <1>5, <3>2 DEF Outstanding, CallOf, D, CallIds
    <3>4. \A k \in Outstanding(f) : calls'[k] = calls[k] /\ (Doomed(k) => Doomed(k)')
      BY <1>2, <1>4, <1>5 DEF Outstanding, Doomed, CallOf, D
    <3> QED
      BY <1>5, <3>1, <3>3, <3>4, ValueStays DEF ValuesInv
  <2> QED
    BY <2>2, <2>3, <2>4
<1>8. asked'["here"] = asked["here"]
  BY <1>6, FactNames
<1> QED
  BY <1>5, <1>7, <1>8 DEF ValuesInv, Excepted, Known

\* What closed a decision keeps it closed.
LEMMA DoomedStays ==
  ASSUME DeskInv, NEW k \in CallIds, NEW j \in CallIds \ {k}, Serve(k), ServeChange(k),
         calls[j].phase = "sent", Doomed(j)
  PROVE  Doomed(j)'
<1>1. calls'[j] = calls[j] /\ desk' = desk
  BY ServedInFlight DEF Serve
<1>2. calls[j].name \in Calls /\ calls[k].name \in Calls /\ Carried(calls[k]) /\ calls[k].phase = "sent"
  BY CallInFlight DEF Serve, IsCall
<1>3. PICK g \in CallOf(j).needs : row[g] = 1
  BY DEF Doomed
<1>4. g \in Columns /\ g \in Facts
  BY <1>2, DeskRules, FactNames DEF WellMade, CallOf, Calls
<1>5. row'[g] = 1
  <2>1. CASE g \in DOMAIN calls[k].sent
    <3>1. calls[k].name \in Changes(D, g) /\ g \in SentBy(calls[k].name)
      BY <1>2, <2>1 DEF Carried, Changes, SentBy, Calls, ServeChange, CallOf
    <3>2. CallOf(k).sends[g] = "on"
      BY <1>2, <1>3, <3>1, DeskRules DEF DecisionsStay, Doomed, CallOf, Calls
    <3>3. calls[k].sent[g] = 1
      BY <1>2, <3>1, <3>2 DEF Carried, CallOf
    <3> QED
      BY <1>4, <2>1, <3>2, <3>3 DEF ServeChange
  <2>2. CASE g \notin DOMAIN calls[k].sent
    BY <1>3, <1>4, <2>2 DEF ServeChange
  <2> QED
    BY <2>1, <2>2
<1> QED
  BY <1>1, <1>3, <1>5 DEF Doomed, CallOf, D

\* A change is carried out.
LEMMA ChangeValues ==
  ASSUME DeskInv, LocksInv, ValuesInv, NEW k \in CallIds, Serve(k), ServeChange(k)
  PROVE  ValuesInv'
<1>1. /\ IsCall(calls[k]) /\ calls[k].name \in Calls /\ Carried(calls[k]) /\ calls[k].phase = "sent"
      /\ desk' = desk /\ asked' = asked
  BY CallInFlight DEF Serve, ServeChange, IsCall
<1>2. \A j \in CallIds \ {k} : calls'[j] = calls[j]
  BY ServedInFlight
<1>3. calls'[k].phase = "done"
  BY ServedInFlight
<1>4. DOMAIN calls[k].sent \subseteq SentBy(calls[k].name) /\ SentBy(calls[k].name) \subseteq Columns
  BY <1>1, DeskRules DEF Carried, WellMade, SentBy, Calls
<1>5. ASSUME NEW f \in Columns \ Excepted PROVE ValueKept(f)'
  <2>1. f \in Facts /\ ValueKept(f)
    BY FactNames DEF ValuesInv
  <2>2. Outstanding(f)' = Outstanding(f) \ {k}
    BY <1>1, <1>2, <1>3 DEF Outstanding, CallOf, D, CallIds
  <2>3. CASE f \notin DOMAIN calls[k].sent
    <3>1. k \notin Outstanding(f) /\ row'[f] = row[f]
      BY <2>1, <2>3 DEF Outstanding, ServeChange
    <3>2. \A j \in Outstanding(f) : calls'[j] = calls[j] /\ (Doomed(j) => Doomed(j)')
      BY <1>2, <3>1, DoomedStays DEF Outstanding
    <3> QED
      BY <1>1, <2>1, <2>2, <3>1, <3>2, ValueStays
  <2>4. CASE f \in DOMAIN calls[k].sent
    <3> SUFFICES ASSUME asked[f] # Free PROVE ValueKept(f)'
      BY <1>1 DEF ValueKept
    <3>1. k \in Outstanding(f)
      BY <1>1, <2>4 DEF Outstanding, ServeChange
    <3>2. ~Doomed(k)
      BY BitValues DEF Doomed, ServeChange
    <3>3. PICK i \in Outstanding(f) : Doomed(i) \/ Carries(i, f)
      BY <2>1, <3>1 DEF ValueKept
    <3>4. CASE i # k
      <4>1. i \in Outstanding(f)' /\ calls'[i] = calls[i] /\ i \in CallIds /\ calls[i].phase = "sent"
        BY <1>2, <2>2, <3>4 DEF Outstanding
      <4>2. Doomed(i)' \/ Carries(i, f)'
        BY <1>1, <3>3, <3>4, <4>1, DoomedStays DEF Carries, CallOf, D
      <4> QED
        BY <4>1, <4>2 DEF ValueKept
    <3>5. CASE i = k
      <4>1. Carries(k, f)
        BY <3>2, <3>3, <3>5
      <4>2. calls[k].name \in Changes(D, f)
        BY <1>1, <1>4, <2>4 DEF Changes, SentBy, Calls, ServeChange, CallOf
      <4>3. CallOf(k).sends[f] # "reversed" /\ CallOf(k).sends[f] # "added"
        BY <4>1, <4>2, DeskRules DEF MeaningsSent, Carries, CallOf, Excepted, Known
      <4>4. row'[f] = asked[f]
        BY <2>1, <2>4, <4>1, <4>3 DEF ServeChange, Carries
      <4>5. CASE Outstanding(f) = {k}
        BY <1>1, <2>2, <4>4, <4>5 DEF ValueKept
      <4>6. CASE Outstanding(f) # {k}
        <5>1. PICK j \in Outstanding(f) : j # k
          BY <3>1, <4>6
        <5>2. j \in CallIds /\ calls[j].phase = "sent" /\ calls'[j] = calls[j] /\ j \in Outstanding(f)'
              /\ f \in DOMAIN calls[j].sent
          BY <1>2, <2>2, <5>1 DEF Outstanding
        <5>3. Carried(calls[j]) /\ calls[j].name \in Calls
          BY <5>2, CallInFlight DEF IsCall
        <5>4. CASE SameConstant(D, calls[j].name, calls[k].name, f)
          <6>1. calls[j].sent[f] = calls[k].sent[f] /\ CallOf(j).sends[f] # "added"
            BY <1>1, <1>4, <2>4, <5>2, <5>3, <5>4 DEF SameConstant, Carried, CallOf
          <6>2. Carries(j, f)'
            BY <1>1, <4>1, <5>2, <6>1 DEF Carries, CallOf, D
          <6> QED
            BY <5>2, <6>2 DEF ValueKept
        <5>5. CASE Exclusive(D, calls[j].name, calls[k].name)
          <6>1. PICK g \in CallOf(j).needs : CallOf(j).checked /\ g \in SentBy(calls[k].name) /\ CallOf(k).sends[g] = "on"
            BY <5>5 DEF Exclusive, CallOf, SentBy
          <6>2. g \in DOMAIN calls[k].sent /\ calls[k].sent[g] = 1 /\ g \in Facts
            BY <1>1, <1>4, <6>1, FactNames DEF Carried, CallOf
          <6>3. row'[g] = 1
            BY <6>1, <6>2 DEF ServeChange
          <6>4. Doomed(j)'
            BY <1>1, <5>2, <6>1, <6>3 DEF Doomed, CallOf, D
          <6> QED
            BY <5>2, <6>4 DEF ValueKept
        <5> QED
          BY <5>1, <5>4, <5>5, <3>1, OutstandingPair
      <4> QED
        BY <4>5, <4>6
    <3> QED
      BY <3>4, <3>5
  <2> QED
    BY <2>3, <2>4
<1>6. row'["here"] = row["here"]
  BY <1>4, FactNames DEF ServeChange
<1> QED
  BY <1>1, <1>5, <1>6 DEF ValuesInv, Excepted, Known

\* Any other request is carried out: a new row and a deletion forget what was asked before.
LEMMA ServeValues ==
  ASSUME DeskInv, LocksInv, ValuesInv, NEW k \in CallIds, Serve(k)
  PROVE  ValuesInv'
<1>1. calls[k].phase = "sent" /\ desk' = desk
  BY DEF Serve
<1>2. \A j \in CallIds \ {k} : calls'[j] = calls[j]
  BY ServedInFlight
<1>3. calls'[k].phase = "done"
  BY ServedInFlight
<1>4. ASSUME CallOf(k).does # "change", row' = row, asked' = asked
      PROVE  ValuesInv'
  <2>1. ASSUME NEW f \in Columns \ Excepted PROVE ValueKept(f)'
    <3>1. k \notin Outstanding(f)
      BY <1>4 DEF Outstanding
    <3>2. Outstanding(f)' = Outstanding(f)
      BY <1>1, <1>2, <1>3, <3>1 DEF Outstanding, CallOf, D, CallIds
    <3>3. \A j \in Outstanding(f) : calls'[j] = calls[j] /\ (Doomed(j) => Doomed(j)')
      BY <1>1, <1>2, <1>4, <3>1 DEF Outstanding, Doomed, CallOf, D
    <3> QED
      BY <1>1, <1>4, <3>2, <3>3, ValueStays DEF ValuesInv
  <2> QED
    BY <1>1, <1>4, <2>1 DEF ValuesInv, Excepted, Known
<1>5. ASSUME \A f \in Columns : asked'[f] = Free, row'["here"] = asked'["here"]
      PROVE  ValuesInv'
  BY <1>5 DEF ValuesInv, ValueKept
<1>6. CASE ServeCreate(k)
  <2>1. CASE row["here"] = 0 /\ ~gone
    <3>1. row' = NewRow /\ asked' = [f \in Facts |-> IF f = "here" THEN 1 ELSE Free]
      BY <1>6, <2>1 DEF ServeCreate
    <3> QED
      BY <1>5, <3>1, FactNames DEF NewRow
  <2>2. CASE ~(row["here"] = 0 /\ ~gone)
    BY <1>4, <1>6, <2>2 DEF ServeCreate
  <2> QED
    BY <2>1, <2>2
<1>7. CASE ServeDelete(k)
  BY <1>5, <1>7, FactNames DEF ServeDelete
<1>8. CASE ServeOther(k)
  BY <1>4, <1>8 DEF ServeOther
<1>9. CASE ServeChange(k)
  BY <1>9, ChangeValues
<1> QED
  BY <1>6, <1>7, <1>8, <1>9 DEF Serve

\* An answer to a call.
LEMMA SucceedValues ==
  ASSUME DeskInv, ValuesInv, NEW k \in CallIds, Succeed(k)
  PROVE  ValuesInv'
<1>1. calls[k].phase = "done" /\ desk' = desk /\ row' = row /\ asked' = asked
  BY DEF Succeed, backend
<1>2. \A j \in CallIds : calls'[j] = IF j = k THEN NoCall ELSE calls[j]
  BY InParts DEF RequestsOK, Succeed, Answered
<1>3. ASSUME NEW f \in Columns \ Excepted PROVE ValueKept(f)'
  <2>1. Outstanding(f)' = Outstanding(f) /\ k \notin Outstanding(f)
    BY <1>1, <1>2 DEF Outstanding, CallOf, D, CallIds, NoCall
  <2>2. \A j \in Outstanding(f) : calls'[j] = calls[j] /\ (Doomed(j) => Doomed(j)')
    BY <1>1, <1>2, <2>1 DEF Outstanding, Doomed, CallOf, D
  <2> QED
    BY <1>1, <2>1, <2>2, ValueStays DEF ValuesInv
<1> QED
  BY <1>1, <1>3 DEF ValuesInv, Excepted, Known

\* A failure: nobody knows whether what was sent is in the row.
LEMMA FailValues ==
  ASSUME DeskInv, ValuesInv, NEW k \in CallIds, Fail(k)
  PROVE  ValuesInv'
<1>1. calls[k].phase # "none" /\ desk' = desk /\ row' = row
  BY DEF Fail, backend
<1>2. \A j \in CallIds : calls'[j] = IF j = k THEN NoCall ELSE calls[j]
  BY InParts DEF RequestsOK, Fail, Answered
<1>3. Carried(calls[k]) /\ calls[k].name \in Calls
  BY <1>1, CallInFlight DEF IsCall
<1>4. \A f \in Facts : asked'[f] = Free \/ asked'[f] = asked[f]
  BY DEF Fail
<1>5. ASSUME NEW f \in Columns \ Excepted PROVE ValueKept(f)'
  <2>1. f \in Facts
    BY FactNames
  <2>2. CASE asked'[f] = Free
    BY <2>2 DEF ValueKept
  <2>3. CASE asked'[f] # Free
    <3>1. f \notin SentBy(calls[k].name) /\ asked'[f] = asked[f]
      BY <2>1, <2>3 DEF Fail
    <3>2. k \notin Outstanding(f)
      BY <1>3, <3>1 DEF Outstanding, Carried
    <3>3. Outstanding(f)' = Outstanding(f)
      BY <1>1, <1>2, <3>2 DEF Outstanding, CallOf, D, CallIds, NoCall
    <3>4. \A j \in Outstanding(f) : calls'[j] = calls[j] /\ (Doomed(j) => Doomed(j)')
      BY <1>1, <1>2, <3>2 DEF Outstanding, Doomed, CallOf, D
    <3> QED
      BY <1>1, <3>1, <3>3, <3>4, ValueStays DEF ValuesInv
  <2> QED
    BY <2>2, <2>3
<1>6. asked'["here"] = Free \/ row'["here"] = asked'["here"]
  BY <1>1, <1>4, FactNames DEF ValuesInv
<1> QED
  BY <1>1, <1>5, <1>6 DEF ValuesInv, Excepted, Known

\* Somebody else changes the row, or deletes it.
LEMMA ElsewhereValues ==
  ASSUME DeskInv, ValuesInv, NEW e \in Facts, Elsewhere(e)
  PROVE  ValuesInv'
<1>1. desk' = desk /\ calls' = calls /\ row \in Rows /\ asked \in [Facts -> Bit \cup {Free}]
  BY InParts DEF Elsewhere, BackendOK
<1>2. CASE e = "here"
  <2>1. \A f \in Facts : asked'[f] = Free
    BY <1>2 DEF Elsewhere
  <2> QED
    BY <2>1, FactNames DEF ValuesInv, ValueKept
<1>3. CASE e # "here"
  <2>1. /\ row[e] = 0 \/ \A c \in Calls : D.calls[c].checked => e \notin D.calls[c].needs
        /\ asked'[e] = Free
        /\ \A f \in Facts \ {e} : row'[f] = row[f] /\ asked'[f] = asked[f]
    BY <1>1, <1>3 DEF Elsewhere, Rows
  <2>2. ASSUME NEW j \in CallIds, calls[j].phase = "sent", Doomed(j)
        PROVE  Doomed(j)'
    <3>1. calls[j].name \in Calls
      BY <2>2, CallInFlight
    <3>2. PICK g \in CallOf(j).needs : row[g] = 1 /\ CallOf(j).checked
      BY <2>2 DEF Doomed
    <3>3. g # e
      BY <2>1, <3>1, <3>2 DEF CallOf
    <3>4. g \in Facts
      BY <3>1, <3>2, DeskRules, FactNames DEF WellMade, CallOf, Calls
    <3> QED
      BY <1>1, <2>1, <3>2, <3>3, <3>4 DEF Doomed, CallOf, D
  <2>3. ASSUME NEW f \in Columns \ Excepted PROVE ValueKept(f)'
    <3>1. f \in Facts
      BY FactNames
    <3>2. CASE f = e
      BY <2>1, <3>2 DEF ValueKept
    <3>3. CASE f # e
      <4>1. Outstanding(f)' = Outstanding(f)
        BY <1>1 DEF Outstanding, CallOf, D, CallIds
      <4>2. \A j \in Outstanding(f) : calls'[j] = calls[j] /\ (Doomed(j) => Doomed(j)')
        BY <1>1, <2>2 DEF Outstanding
      <4> QED
        BY <1>1, <2>1, <3>1, <3>3, <4>1, <4>2, ValueStays DEF ValuesInv
    <3> QED
      BY <3>2, <3>3
  <2>4. row'["here"] = row["here"] /\ asked'["here"] = asked["here"]
    BY <1>3, <2>1, FactNames
  <2> QED
    BY <1>1, <2>3, <2>4 DEF ValuesInv, Excepted, Known
<1> QED
  BY <1>2, <1>3

\* Every step keeps the values.
LEMMA ValuesStep ==
  ASSUME DeskInv, LocksInv, ValuesInv, [Next]_vars
  PROVE  ValuesInv'
<1>1. ASSUME UNCHANGED <<desk, backend, requests>> PROVE ValuesInv'
  BY <1>1, ValuesStay DEF backend, requests
<1>2. CASE Progress
  BY <1>1, <1>2, ServeValues, SucceedValues, FailValues DEF Progress, Answer, Install, LoseRead
<1>3. CASE Person
  BY <1>1, <1>3, PressValues, ElsewhereValues DEF Person, Refocus, Turn, OpenPanel, Cancel, Type, Refuse
<1>4. CASE UNCHANGED vars
  BY <1>1, <1>4 DEF vars
<1> QED
  BY <1>2, <1>3, <1>4 DEF Next

\* The values at a desk that was just opened.
LEMMA ValuesStart == Init => ValuesInv
<1> SUFFICES ASSUME Init PROVE ValuesInv
  OBVIOUS
<1>1. \A f \in Facts : asked[f] = Free
  BY DEF Init
<1> QED
  BY <1>1, FactNames DEF ValuesInv, ValueKept

\* When everything was answered, each column holds the value of the last button pressed
\* about it, in whatever order the backend served the requests.
THEOREM LastClickHolds == Spec => []LastClickWins
<1>1. ASSUME ValuesInv PROVE LastClickWins
  <2> SUFFICES ASSUME Quiet, NEW f \in Facts \ Excepted, asked[f] # Free
               PROVE  row[f] = asked[f]
    BY DEF LastClickWins
  <2>1. Outstanding(f) = {}
    BY DEF Outstanding, Quiet, NoCall
  <2>2. CASE f = "here"
    BY <1>1, <2>2 DEF ValuesInv
  <2>3. CASE f # "here"
    BY <1>1, <2>1, <2>3 DEF ValuesInv, ValueKept, Facts
  <2> QED
    BY <2>2, <2>3
<1>2. Init => DeskInv /\ ReadsCounted /\ LocksInv /\ ValuesInv
  BY DeskStart, LocksStart, ValuesStart
<1>3. DeskInv /\ ReadsCounted /\ LocksInv /\ ValuesInv /\ [Next]_vars
        => DeskInv' /\ ReadsCounted' /\ LocksInv' /\ ValuesInv'
  BY DeskStep, LocksStep, ValuesStep
<1> QED
  BY <1>1, <1>2, <1>3, PTL DEF Spec
----------------------------------------------------------------------------
\* With no call about it in flight, a fact is what was asked for.
LEMMA RowIsAsked ==
  ASSUME DeskInv, ValuesInv, NEW f \in Facts \ Excepted, asked[f] # Free, Untouched(f)
  PROVE  row[f] = asked[f]
<1>1. CASE f = "here"
  BY <1>1 DEF ValuesInv
<1>2. CASE f # "here"
  <2>1. Outstanding(f) = {}
    <3> SUFFICES ASSUME NEW k \in Outstanding(f) PROVE FALSE
      OBVIOUS
    <3>1. k \in CallIds /\ calls[k].phase = "sent" /\ CallOf(k).does = "change" /\ f \in DOMAIN calls[k].sent
      BY DEF Outstanding
    <3>2. IsCall(calls[k]) /\ calls[k] # NoCall
      BY <3>1, CallInFlight
    <3>3. f \in SentBy(calls[k].name)
      BY <3>1, <3>2 DEF IsCall, Carried
    <3> QED
      BY <3>1, <3>2, <3>3 DEF Untouched, Touches
  <2> QED
    BY <1>2, <2>1 DEF ValuesInv, ValueKept, Facts
<1> QED
  BY <1>1, <1>2

\* A list that was asked for again waits for an answer that the backend has still to give,
\* or may be older.
LEMMA Reloaded ==
  ASSUME DeskInv, desk' = desk, NEW ls \in SUBSET Lists, NEW patched \in SUBSET Lists,
         Restart(ls, patched), NEW l \in Lists \ late'
  PROVE  /\ l \in ls => ReadsOf(l)' # {} /\ \A r \in ReadsOf(l)' : r.answer = Unread
         /\ l \notin ls => ReadsOf(l)' = ReadsOf(l) /\ l \notin late
<1> DEFINE on == {r \in reads : RunsOn(r, ls)}
           overtaken == {k \in ls : \E r \in on : r.list = k}
           again == {k \in ls : D.lists[k] = "kept" \/ k \notin overtaken}
<1>1. reads' = on \cup {Load(k, NewId(k, on)) : k \in again}
  BY DEF Restart, AsksAgain
<1>2. late' = (late \ ls) \cup overtaken \cup {r.list : r \in {q \in on : q.list \in patched}}
  BY DEF Restart
<1>3. \A k, i : Load(k, i).list = k /\ Load(k, i).answer = Unread
  BY DEF Load
<1>4. ASSUME l \in ls
      PROVE  ReadsOf(l)' # {} /\ \A r \in ReadsOf(l)' : r.answer = Unread
  <2>1. l \notin overtaken /\ l \in again
    BY <1>2, <1>4
  <2>2. Load(l, NewId(l, on)) \in ReadsOf(l)'
    BY <1>1, <1>3, <2>1 DEF ReadsOf
  <2>3. \A r \in ReadsOf(l)' : r \notin on
    BY <1>4, <2>1 DEF ReadsOf
  <2>4. ASSUME NEW r \in ReadsOf(l)' PROVE r.answer = Unread
    <3>1. r \in reads' /\ r \notin on
      BY <2>3 DEF ReadsOf
    <3>2. PICK k \in again : r = Load(k, NewId(k, on))
      BY <1>1, <3>1
    <3> QED
      BY <1>3, <3>2
  <2> QED
    BY <2>2, <2>4
<1>5. ASSUME l \notin ls
      PROVE  ReadsOf(l)' = ReadsOf(l) /\ l \notin late
  <2>1. \A r \in ReadsOf(l) : r \in on
    BY <1>5 DEF ReadsOf, RunsOn
  <2>2. \A k \in again : Load(k, NewId(k, on)).list # l
    BY <1>3, <1>5
  <2> QED
    BY <1>1, <1>2, <1>5, <2>1, <2>2 DEF ReadsOf
<1> QED
  BY <1>4, <1>5

\* An unread answer is all that a list waits for: it is not wrong.
LEMMA WaitingIsUpToDate ==
  ASSUME NEW l, NEW f, ReadsOf(l)' # {}, \A r \in ReadsOf(l)' : r.answer = Unread
  PROVE  UpToDate(l, f)'
BY DEF UpToDate, Unread

\* What the lists show is kept by what touches neither them, nor what was asked for, nor
\* the calls.
LEMMA ShownStays ==
  ASSUME ShownInv, UNCHANGED <<desk, left, shown, reads, asked>>, late \subseteq late',
         \A f \in Facts : Untouched(f)' => Untouched(f)
  PROVE  ShownInv'
BY DEF ShownInv, Judged, UpToDate, ReadsOf, Excepted, Known, Lists, D

\* Another page of the list.
LEMMA TurnShown ==
  ASSUME DeskInv, ShownInv, Turn
  PROVE  ShownInv'
<1> DEFINE kept == {r \in reads : D.lists[r.list] = "kept"}
<1>1. reads' = kept \cup {Load(k, NewId(k, kept)) : k \in Lists} /\ late' = {r.list : r \in kept} /\ desk' = desk
  BY DEF Turn, AsksAgain
<1>2. \A k, i : Load(k, i).list = k /\ Load(k, i).answer = Unread
  BY DEF Load
<1>3. ASSUME NEW l \in Lists, l \notin late', NEW f PROVE UpToDate(l, f)'
  <2>1. \A r \in ReadsOf(l)' : r \notin kept
    BY <1>1, <1>3 DEF ReadsOf
  <2>2. ASSUME NEW r \in ReadsOf(l)' PROVE r.answer = Unread
    <3>1. r \in reads' /\ r \notin kept
      BY <2>1 DEF ReadsOf
    <3>2. PICK k \in Lists : r = Load(k, NewId(k, kept))
      BY <1>1, <3>1
    <3> QED
      BY <1>2, <3>2
  <2>3. Load(l, NewId(l, kept)) \in ReadsOf(l)'
    BY <1>1, <1>2 DEF ReadsOf
  <2> QED
    BY <2>2, <2>3, WaitingIsUpToDate
<1> QED
  BY <1>1, <1>3 DEF ShownInv, Judged, Lists, D

\* The window gets the focus.
LEMMA RefocusShown ==
  ASSUME DeskInv, ShownInv, NEW k \in Lists, Refocus(k)
  PROVE  ShownInv'
<1>1. Restart({k}, {}) /\ UNCHANGED <<desk, left, shown, asked, calls>>
  BY DEF Refocus, backend, requests
<1>2. ASSUME NEW l \in Lists \ late', NEW f, l \notin Known(Unrefreshed), f \in Facts \ Excepted,
             ~left, asked[f] # Free, Untouched(f)
      PROVE  UpToDate(l, f)'
  <2>1. CASE l = k
    BY <1>1, <2>1, Reloaded, WaitingIsUpToDate
  <2>2. CASE l # k
    <3>1. l \notin {k} => ReadsOf(l)' = ReadsOf(l) /\ l \notin late
      BY <1>1, <1>2, Reloaded, Zenon
    <3>2. ReadsOf(l)' = ReadsOf(l) /\ l \notin late
      BY <2>2, <3>1
    <3>3. UpToDate(l, f)
      BY <1>2, <3>2 DEF ShownInv, Judged
    <3> QED
      BY <1>1, <3>2, <3>3 DEF UpToDate
  <2> QED
    BY <2>1, <2>2
<1>3. \A f : Untouched(f)' <=> Untouched(f)
  BY <1>1 DEF Untouched, Touches, CallOf, SentBy, D
<1> QED
  BY <1>1, <1>2, <1>3 DEF ShownInv, Judged, Excepted, Known, Lists, D

\* The backend answers a load with the row, which is what was asked for.
LEMMA AnswerShown ==
  ASSUME DeskInv, ValuesInv, ShownInv, NEW r \in reads, Answer(r)
  PROVE  ShownInv'
<1>1. /\ UNCHANGED <<desk, left, shown, late, asked, calls>>
      /\ reads' = (reads \ {r}) \cup {[r EXCEPT !.answer = row]}
      /\ ReadOK(r) /\ row \in Rows
  BY InParts DEF Answer, backend, requests, ScreenOK, BackendOK
<1>2. /\ [r EXCEPT !.answer = row].list = r.list
      /\ [r EXCEPT !.answer = row].answer = row
  BY <1>1 DEF ReadOK
<1>3. ASSUME NEW l \in Judged, NEW f \in Facts \ Excepted, ~left, asked[f] # Free, Untouched(f)
      PROVE  UpToDate(l, f)'
  <2>1. UpToDate(l, f) /\ row[f] = asked[f]
    BY <1>3, RowIsAsked DEF ShownInv
  <2>2. ASSUME NEW q \in ReadsOf(l)', q.answer # Unread
        PROVE  q.answer[f] = asked[f]
    <3>1. CASE q = [r EXCEPT !.answer = row]
      BY <1>2, <2>1, <3>1
    <3>2. CASE q # [r EXCEPT !.answer = row]
      <4>1. q \in ReadsOf(l)
        BY <1>1, <3>2 DEF ReadsOf
      <4> QED
        BY <2>1, <2>2, <4>1 DEF UpToDate
    <3> QED
      BY <3>1, <3>2
  <2>3. ReadsOf(l)' = {} => ReadsOf(l) = {}
    BY <1>1, <1>2 DEF ReadsOf
  <2> QED
    BY <1>1, <2>1, <2>2, <2>3 DEF UpToDate, Unread
<1>4. \A f : Untouched(f)' <=> Untouched(f)
  BY <1>1 DEF Untouched, Touches, CallOf, SentBy, D
<1> QED
  BY <1>1, <1>3, <1>4 DEF ShownInv, Judged, Excepted, Known, Lists, D

\* The answer is put on display.
LEMMA InstallShown ==
  ASSUME DeskInv, ShownInv, NEW r \in reads, Install(r)
  PROVE  ShownInv'
<1>1. /\ UNCHANGED <<desk, left, late, asked, calls>>
      /\ reads' = reads \ {r} /\ shown' = [shown EXCEPT ![r.list] = r.answer] /\ r.answer # Unread
      /\ r.list \in Lists /\ shown \in [Lists -> Rows \cup {NotLoaded}]
  BY InParts DEF Install, backend, requests, ScreenOK, ReadOK
<1>2. ASSUME NEW l \in Judged, NEW f \in Facts \ Excepted, ~left, asked[f] # Free, Untouched(f)
      PROVE  UpToDate(l, f)'
  <2>1. UpToDate(l, f)
    BY <1>2 DEF ShownInv
  <2>2. \A q \in ReadsOf(l)' : q \in ReadsOf(l)
    BY <1>1 DEF ReadsOf
  <2>3. CASE l = r.list
    <3>1. shown'[l] = r.answer /\ r \in ReadsOf(l)
      BY <1>1, <2>3 DEF ReadsOf
    <3> QED
      BY <1>1, <2>1, <2>2, <3>1 DEF UpToDate, Unread
  <2>4. CASE l # r.list
    <3>1. shown'[l] = shown[l] /\ ReadsOf(l)' = ReadsOf(l)
      BY <1>1, <2>4 DEF ReadsOf
    <3> QED
      BY <1>1, <2>1, <3>1 DEF UpToDate
  <2> QED
    BY <2>3, <2>4
<1>3. \A f : Untouched(f)' <=> Untouched(f)
  BY <1>1 DEF Untouched, Touches, CallOf, SentBy, D
<1> QED
  BY <1>1, <1>2, <1>3 DEF ShownInv, Judged, Excepted, Known, Lists, D

\* A load fails: its list may be older from now on.
LEMMA LoseReadShown ==
  ASSUME DeskInv, ShownInv, NEW r \in reads, LoseRead(r)
  PROVE  ShownInv'
<1>1. /\ UNCHANGED <<desk, left, shown, asked, calls>>
      /\ reads' = reads \ {r} /\ late' = late \cup {r.list}
  BY DEF LoseRead, backend, requests
<1>2. ASSUME NEW l \in Judged, l # r.list, NEW f, UpToDate(l, f)
      PROVE  UpToDate(l, f)'
  <2>1. ReadsOf(l)' = ReadsOf(l)
    BY <1>1, <1>2 DEF ReadsOf
  <2> QED
    BY <1>1, <1>2, <2>1 DEF UpToDate
<1>3. \A f : Untouched(f)' <=> Untouched(f)
  BY <1>1 DEF Untouched, Touches, CallOf, SentBy, D
<1> QED
  BY <1>1, <1>2, <1>3 DEF ShownInv, Judged, Excepted, Known, Lists, D

\* A press: what was asked for about a fact changes only by a call that touches it.
LEMMA PressShown ==
  ASSUME DeskInv, ShownInv, NEW c \in Calls, Press(c), D.calls[c].patches = "no"
  PROVE  ShownInv'
<1>1. /\ UNCHANGED <<desk, left, shown, late, reads>>
      /\ calls' = [calls EXCEPT ![pressed + 1] = [name |-> c, phase |-> "sent", sent |-> Request(c)]]
  BY DEF Press
<1>0. PICK k0 : k0 = pressed + 1
  OBVIOUS
<1>2. calls = [k \in CallIds |-> calls[k]] /\ k0 \in CallIds /\ pressed \in Nat
  BY <1>0, InParts, BoundsAssumption DEF RequestsOK, CallIds, Press
<1>3. calls[k0] = NoCall
  <2>1. ~(k0 <= pressed)
    BY <1>0, <1>2
  <2> QED
    BY <1>2, <2>1 DEF DeskInv, CallsOK
<1>4. /\ calls'[k0].name = c /\ calls'[k0].phase = "sent"
      /\ \A k \in CallIds \ {k0} : calls'[k] = calls[k]
  BY <1>0, <1>1, <1>2
<1>5. calls'[k0] # NoCall
  BY <1>4 DEF NoCall
<1>6. ASSUME NEW f \in Facts, Untouched(f)'
      PROVE  Untouched(f) /\ asked'[f] \in {asked[f], Free}
  <2>1. ~Touches(k0, f)'
    BY <1>2, <1>6 DEF Untouched, CallIds
  <2>2. ~(D.calls[c].does = "change" /\ f \in SentBy(c))
    BY <1>1, <1>4, <1>5, <2>1 DEF Touches, CallOf, SentBy, D
  <2>3. asked'[f] \in {asked[f], Free}
    BY <2>2 DEF Press, Means
  <2>4. \A k \in CallIds : ~Touches(k, f)
    BY <1>1, <1>3, <1>4, <1>6 DEF Untouched, Touches, CallOf, SentBy, D, CallIds
  <2> QED
    BY <2>3, <2>4 DEF Untouched
<1> QED
  BY <1>1, <1>6 DEF ShownInv, Judged, UpToDate, ReadsOf, Excepted, Known, Lists, D

\* The backend carries out a call, which stays in flight.
LEMMA ServeShown ==
  ASSUME DeskInv, ShownInv, NEW k \in CallIds, Serve(k)
  PROVE  ShownInv'
<1>1. UNCHANGED <<desk, left, shown, late, reads>>
  BY DEF Serve, screen
<1>2. Unanswered' = Unanswered /\ \A j \in CallIds : calls'[j].name = calls[j].name
  BY ServedInFlight
<1>3. \A f : Untouched(f)' <=> Untouched(f)
  BY <1>1, <1>2 DEF Untouched, Touches, Unanswered, CallOf, SentBy, D, CallIds
<1>4. k \in Unanswered
  BY CallInFlight DEF Serve, Unanswered
<1>5. \A f : Untouched(f) => asked' = asked
  BY <1>4 DEF Serve, ServeCreate, ServeChange, ServeDelete, ServeOther, Untouched, Touches, Unanswered
<1> QED
  BY <1>1, <1>3, <1>5 DEF ShownInv, Judged, UpToDate, ReadsOf, Excepted, Known, Lists, D

\* A call that fails leaves nothing asked for that it might have changed.
LEMMA FailShown ==
  ASSUME DeskInv, ShownInv, NEW k \in CallIds, Fail(k)
  PROVE  ShownInv'
<1>1. UNCHANGED <<desk, left, shown, late, reads>>
  BY DEF Fail, screen
<1>2. \A j \in CallIds : calls'[j] = IF j = k THEN NoCall ELSE calls[j]
  BY InParts DEF RequestsOK, Fail, Answered
<1>3. ASSUME NEW f \in Facts, Untouched(f)', asked'[f] # Free
      PROVE  Untouched(f) /\ asked'[f] = asked[f]
  <2>1. asked'[f] = asked[f] /\ ~Touches(k, f)
    BY <1>3 DEF Fail, Touches
  <2>2. \A j \in CallIds \ {k} : ~Touches(j, f)
    BY <1>1, <1>2, <1>3 DEF Untouched, Touches, CallOf, SentBy, D, CallIds
  <2> QED
    BY <2>1, <2>2 DEF Untouched
<1> QED
  BY <1>1, <1>3 DEF ShownInv, Judged, UpToDate, ReadsOf, Excepted, Known, Lists, D

\* Somebody else: what this person asked for no longer counts.
LEMMA ElsewhereShown ==
  ASSUME DeskInv, ShownInv, NEW e \in Facts, Elsewhere(e)
  PROVE  ShownInv'
<1>1. UNCHANGED <<desk, left, shown, late, reads, calls>>
  BY DEF Elsewhere, screen
<1>2. \A f \in Facts : asked'[f] \in {asked[f], Free}
  <2>1. asked \in [Facts -> Bit \cup {Free}]
    BY InParts DEF BackendOK
  <2> QED
    BY <2>1 DEF Elsewhere
<1>3. \A f : Untouched(f)' <=> Untouched(f)
  BY <1>1 DEF Untouched, Touches, CallOf, SentBy, D
<1> QED
  BY <1>1, <1>2, <1>3 DEF ShownInv, Judged, UpToDate, ReadsOf, Excepted, Known, Lists, D

\* A success reloads the lists, unless nothing was asked for that they might show wrongly.
LEMMA SucceedShown ==
  ASSUME DeskInv, ShownInv, AddedInv, NEW k \in CallIds, Succeed(k), CallOf(k).patches = "no"
  PROVE  ShownInv'
<1>1. /\ UNCHANGED <<desk, shown, asked>> /\ left' = CallOf(k).leaves /\ ~left
      /\ Restart(CallOf(k).refetches \cap Lists, {})
  BY DEF Succeed, backend
<1>2. \A j \in CallIds : calls'[j] = IF j = k THEN NoCall ELSE calls[j]
  BY InParts DEF RequestsOK, Succeed, Answered
<1>3. calls[k].name \in Calls
  BY CallInFlight DEF Succeed
<1>4. PICK ls \in SUBSET Lists : ls = CallOf(k).refetches \cap Lists
  OBVIOUS
<1>5. \A l \in Lists \ late' :
        /\ l \in ls => ReadsOf(l)' # {} /\ \A r \in ReadsOf(l)' : r.answer = Unread
        /\ l \notin ls => ReadsOf(l)' = ReadsOf(l) /\ l \notin late
  <2>1. Restart(ls, {}) /\ {} \in SUBSET Lists
    BY <1>1, <1>4
  <2> QED
    BY <1>1, <2>1, Reloaded, Zenon
<1>6. ASSUME NEW l \in Lists \ late', l \notin Known(Unrefreshed), NEW f \in Facts \ Excepted,
             ~left', asked[f] # Free, Untouched(f)'
      PROVE  UpToDate(l, f)'
  <2>1. CASE l \in CallOf(k).refetches
    <3>1. l \in ls
      BY <1>4, <2>1
    <3> QED
      BY <1>5, <1>6, <3>1, WaitingIsUpToDate
  <2>2. CASE l \notin CallOf(k).refetches
    <3>1. l \notin ls
      BY <1>4, <2>2
    <3>2. ReadsOf(l)' = ReadsOf(l) /\ l \notin late
      BY <1>5, <1>6, <3>1
    <3>3. ~Touches(k, f)
      <4>1. \/ CallOf(k).does = "other"
            \/ CallOf(k).does = "change" /\ \A g \in SentBy(calls[k].name) : AddedOnly(g)
        BY <1>1, <1>3, <1>6, <2>2, DeskRules DEF ListsReloaded, CallOf, Calls, Lists, Known, SentBy, AddedOnly
      <4>2. \A g \in SentBy(calls[k].name) : g \in Columns
        BY <1>3, DeskRules DEF WellMade, SentBy, Calls
      <4> QED
        BY <1>6, <4>1, <4>2 DEF AddedInv, Touches
    <3>4. \A j \in CallIds \ {k} : ~Touches(j, f)
      BY <1>1, <1>2, <1>6 DEF Untouched, Touches, CallOf, SentBy, D, CallIds
    <3>5. UpToDate(l, f)
      BY <1>1, <1>6, <3>2, <3>3, <3>4 DEF ShownInv, Judged, Untouched
    <3> QED
      BY <1>1, <3>2, <3>5 DEF UpToDate
  <2> QED
    BY <2>1, <2>2
<1> QED
  BY <1>1, <1>6 DEF ShownInv, Judged, Excepted, Known, Lists, D

\* Nothing is asked for of columns to which calls only add.
LEMMA AddedStep ==
  ASSUME DeskInv, AddedInv, [Next]_vars
  PROVE  AddedInv'
<1>1. desk' = desk
  BY DEF Next, Progress, Person, Answer, Install, LoseRead, Serve, Succeed, Fail, Refocus, Turn,
         OpenPanel, Cancel, Type, Press, Refuse, Elsewhere, vars
<1>2. ASSUME NEW c \in Calls, Press(c), NEW f \in Columns, AddedOnly(f)
      PROVE  asked'[f] = Free
  <2>1. asked[f] = Free /\ f \in Facts
    BY <1>2, FactNames DEF AddedInv
  <2>2. ~Means(c, f)
    BY <1>2 DEF Means, AddedOnly, Changes, SentBy, Calls
  <2> QED
    BY <1>2, <2>1, <2>2 DEF Press
<1>3. ASSUME NEW k \in CallIds, Serve(k) \/ Fail(k)
      PROVE  \A f \in Columns : asked'[f] \in {asked[f], Free}
  BY <1>3, FactNames DEF Serve, Fail, ServeCreate, ServeChange, ServeDelete, ServeOther
<1>4. ASSUME NEW e \in Facts, Elsewhere(e)
      PROVE  \A f \in Columns : asked'[f] \in {asked[f], Free}
  <2>1. asked \in [Facts -> Bit \cup {Free}]
    BY InParts DEF BackendOK
  <2> QED
    BY <1>4, <2>1, FactNames DEF Elsewhere
<1>5. ASSUME NEW f \in Columns, AddedOnly(f) PROVE asked'[f] = Free
  <2>1. asked[f] = Free
    BY <1>5 DEF AddedInv
  <2>2. CASE UNCHANGED asked
    BY <2>1, <2>2
  <2> QED
    BY <1>2, <1>3, <1>4, <1>5, <2>1, <2>2
       DEF Next, Progress, Person, Answer, Install, LoseRead, Succeed, Refocus, Turn,
           OpenPanel, Cancel, Type, Refuse, vars, requests
<1> QED
  BY <1>1, <1>5 DEF AddedInv, AddedOnly, Changes, D

\* Every step keeps the lists up to date, at a desk that does not patch its own copy.
LEMMA ShownStep ==
  ASSUME DeskInv, ValuesInv, AddedInv, ShownInv, ~Patching(D), [Next]_vars
  PROVE  ShownInv'
<1>1. \A c \in Calls : D.calls[c].patches = "no"
  BY DEF Patching, Calls
<1>2. \A k \in CallIds : calls[k].phase # "none" => CallOf(k).patches = "no"
  BY <1>1, CallInFlight DEF CallOf
<1>3. ASSUME UNCHANGED <<desk, left, shown, reads, late, asked, calls>> PROVE ShownInv'
  BY <1>3, ShownStays DEF Untouched, Touches, CallOf, SentBy, D
<1>4. ASSUME NEW k \in CallIds, Succeed(k) PROVE ShownInv'
  BY <1>2, <1>4, SucceedShown DEF Succeed
<1>5. CASE Progress
  BY <1>4, <1>5, AnswerShown, InstallShown, LoseReadShown, ServeShown, FailShown DEF Progress
<1>6. CASE Person
  BY <1>1, <1>3, <1>6, RefocusShown, TurnShown, PressShown, ElsewhereShown
     DEF Person, OpenPanel, Cancel, Type, Refuse, backend, screen, requests
<1>7. CASE UNCHANGED vars
  BY <1>3, <1>7 DEF vars, screen, requests
<1> QED
  BY <1>5, <1>6, <1>7 DEF Next
----------------------------------------------------------------------------
\* A desk that patches its own copy of its list of rows (CopyKept): the row in the copy;
\* whether the row is there or was; the calls that are about a row, and those that made it.
KeptDesk == CopyKept(desk.name, D)
Copy == shown[D.rows]
Existed == row["here"] = 1 \/ gone
OfRow(c) == D.calls[c].does \in {"change", "delete"} \/ D.calls[c].opens # {}
RowCall(k) == calls[k] # NoCall /\ OfRow(calls[k].name)
Made(k) == calls[k] # NoCall /\ CallOf(k).does = "create" /\ "here" \in DOMAIN calls[k].sent
EditorOpen == open \cap Editing(D) # {}
RowAbout == EditorOpen \/ \E k \in CallIds : RowCall(k)
Ordinary == Columns \ Excepted
SetBy(k, f) == calls[k] # NoCall /\ CallOf(k).does = "change" /\ f \in DOMAIN calls[k].sent

\* No copy, answer, editor or call is about a row that never was.
RowExisted ==
  \/ Copy["here"] = 1
  \/ \E r \in reads : r.answer["here"] = 1
  \/ RowAbout
  \/ \E k \in CallIds : Made(k)
  => Existed

\* The copy is loaded once, and a patch next to the load makes it one that may be older.
LoadedOnce ==
  /\ \A r, s \in reads : r = s
  /\ D.rows \notin late /\ Copy # NotLoaded => reads = {}

\* Whatever is about the row started where the copy shows it.
RowSeen == D.rows \notin late /\ RowAbout => Copy["here"] = 1 \/ gone

\* What the calls carry, and what that says of the backend and the copy.
CallsCarry ==
  \A k \in CallIds :
    /\ calls[k].phase = "done" /\ CallOf(k).does = "delete" => gone
    /\ calls[k] # NoCall /\ CallOf(k).does = "change" => DOMAIN calls[k].sent \subseteq SentBy(calls[k].name)
    /\ Made(k) => calls[k].sent = NewRow
    /\ calls[k] # NoCall /\ CallOf(k).does = "create" /\ CallOf(k).loaded => Copy # NotLoaded

\* The answer with the new row overtakes nothing that is about the row.
MadeAlone ==
  \A k \in CallIds : Made(k) =>
    /\ \A j \in CallIds : Made(j) => j = k
    /\ D.rows \notin late =>
         /\ asked["here"] \in {1, Free} /\ \A f \in Ordinary : asked[f] = Free
         /\ \A j \in CallIds : ~RowCall(j)
         /\ CallOf(k).loaded => Copy["here"] # 1 /\ ~EditorOpen

\* Of a deleted row nothing is asked for but by calls that will fail.
NothingAskedOfGone ==
  gone => \A f \in Ordinary : asked[f] = Free \/ \E k \in CallIds : SetBy(k, f) /\ calls[k].phase = "sent"
CallsCarryAsked ==
  \A k \in CallIds : \A f \in Ordinary : SetBy(k, f) => asked[f] \in {calls[k].sent[f], Free}

\* What is asked for is in the copy, or an answer that will patch it is under way (or the
\* call is about a deleted row, and will fail).
Owed(k, f) == SetBy(k, f) /\ (CallOf(k).patches = "after" \/ (gone /\ calls[k].phase = "sent"))
CopyShows(f) == reads = {} /\ Copy[f] = asked[f]
ColumnsShown ==
  D.rows \notin late =>
    \A f \in Ordinary : asked[f] = Free \/ CopyShows(f) \/ \E k \in CallIds : Owed(k, f)
RowShown ==
  D.rows \notin late =>
    \/ asked["here"] = Free
    \/ CopyShows("here")
    \/ \E k \in CallIds : Made(k) /\ asked["here"] = 1
    \/ \E k \in CallIds : calls[k].phase = "done" /\ CallOf(k).does = "delete" /\ asked["here"] = 0

CopyInv ==
  /\ RowExisted /\ LoadedOnce /\ RowSeen
  /\ CallsCarry /\ MadeAlone /\ NothingAskedOfGone /\ CallsCarryAsked
  /\ ColumnsShown /\ RowShown

\* What the rules say of such a desk.
LEMMA KeptRules ==
  ASSUME DeskInv, KeptDesk
  PROVE  /\ Lists = {D.rows} /\ D.lists[D.rows] = "kept" /\ ~D.turns /\ "list" \notin Panels
         /\ \A c \in Calls : PatchesWell(D, c)
         /\ \A f \in Ordinary : \A a, b \in Changes(D, f) :
              Apart(D, a, b) /\ D.calls[a].sends[f] \in {"typed", "flipped", "on", "off"}
         /\ Ordinary \subseteq Facts /\ "here" \notin Ordinary
         /\ Copy \in Rows \cup {NotLoaded}
<1>1. Ordinary = Columns \ (Listed(Racing, desk.name) \cup Listed(Unset, desk.name))
  BY DEF Ordinary, Excepted, Known
<1>2. Copy \in Rows \cup {NotLoaded}
  BY InParts DEF KeptDesk, CopyKept, ScreenOK, Copy, Lists
<1> QED
  BY <1>1, <1>2, FactNames DEF KeptDesk, CopyKept, Lists, Panels, Calls

\* What only the description of the desk decides stays.
LEMMA SameDesk ==
  ASSUME desk' = desk
  PROVE  /\ D' = D /\ Ordinary' = Ordinary /\ KeptDesk' = KeptDesk
         /\ Calls' = Calls /\ Lists' = Lists
         /\ \A c : OfRow(c)' = OfRow(c) /\ SentBy(c)' = SentBy(c)
BY DEF D, Ordinary, Excepted, Known, KeptDesk, Calls, Lists, OfRow, SentBy

\* A call that no step concerned.
LEMMA CallStays ==
  ASSUME desk' = desk, NEW j \in CallIds, calls'[j] = calls[j]
  PROVE  /\ RowCall(j)' = RowCall(j) /\ Made(j)' = Made(j) /\ CallOf(j)' = CallOf(j)
         /\ \A f : SetBy(j, f)' = SetBy(j, f)
BY SameDesk DEF RowCall, Made, CallOf, SetBy, CallIds

\* The same of all calls, while none changes.
LEMMA SameCalls ==
  ASSUME UNCHANGED <<desk, calls>>
  PROVE  /\ D' = D /\ Ordinary' = Ordinary /\ \A c : SentBy(c)' = SentBy(c)
         /\ \A k \in CallIds : /\ RowCall(k)' = RowCall(k) /\ Made(k)' = Made(k) /\ CallOf(k)' = CallOf(k)
                               /\ \A f : SetBy(k, f)' = SetBy(k, f)
BY SameDesk, CallStays

\* A call that was answered is about nothing any more.
LEMMA CallOver ==
  ASSUME NEW k \in CallIds, calls'[k] = NoCall
  PROVE  ~RowCall(k)' /\ ~Made(k)' /\ calls'[k].phase = "none" /\ \A f : ~SetBy(k, f)'
BY DEF RowCall, Made, SetBy, NoCall, CallIds

\* What a patch makes of the copy.
LEMMA PatchedCopy ==
  ASSUME DeskInv, KeptDesk, NEW c \in Calls, NEW sent
  PROVE  /\ D.calls[c].does = "delete" => Patched(c, sent)[D.rows] = [f \in Facts |-> 0]
         /\ D.calls[c].does = "create" =>
              Patched(c, sent)[D.rows] = IF "here" \in DOMAIN sent THEN sent ELSE Copy
         /\ D.calls[c].does = "change" /\ Copy["here"] # 1 => Patched(c, sent)[D.rows] = Copy
         /\ D.calls[c].does = "change" /\ Copy["here"] = 1 =>
              \A f \in Facts : Patched(c, sent)[D.rows][f] = IF f \in DOMAIN sent THEN sent[f] ELSE Copy[f]
<1>1. D.rows \in Lists /\ D.rows \notin D.calls[c].refetches
  BY KeptRules DEF PatchesWell
<1> DEFINE P == Patched(c, sent)[D.rows]
<1>2. P = CASE D.calls[c].does = "delete" -> [f \in Facts |-> 0]
            [] D.calls[c].does = "create" -> IF "here" \in DOMAIN sent THEN sent ELSE shown[D.rows]
            [] D.calls[c].does = "change" /\ shown[D.rows]["here"] = 1 ->
                 [f \in Facts |-> IF f \in DOMAIN sent THEN sent[f] ELSE shown[D.rows][f]]
            [] OTHER -> shown[D.rows]
  BY <1>1 DEF Patched
<1> HIDE DEF P
<1>3. /\ D.calls[c].does = "delete" => P = [f \in Facts |-> 0]
      /\ D.calls[c].does = "create" => P = IF "here" \in DOMAIN sent THEN sent ELSE shown[D.rows]
      /\ D.calls[c].does = "change" /\ shown[D.rows]["here"] = 1
           => P = [f \in Facts |-> IF f \in DOMAIN sent THEN sent[f] ELSE shown[D.rows][f]]
      /\ D.calls[c].does = "change" /\ shown[D.rows]["here"] # 1 => P = shown[D.rows]
  BY <1>2
<1> QED
  BY <1>3 DEF P, Copy

\* Two calls that set a column are not in flight together.
LEMMA OneSetter ==
  ASSUME DeskInv, KeptDesk, LocksInv, CallsCarry, NEW f \in Ordinary, NEW j \in CallIds, NEW k \in CallIds,
         SetBy(j, f), SetBy(k, f)
  PROVE  j = k
<1>1. ASSUME NEW i \in CallIds, SetBy(i, f) PROVE calls[i].name \in Changes(D, f) /\ i \in Unanswered
  BY <1>1, CallInFlight DEF SetBy, CallsCarry, Changes, CallOf, Calls, SentBy, Unanswered
<1>2. Apart(D, calls[j].name, calls[k].name)
  BY <1>1, KeptRules
<1> QED
  BY <1>1, <1>2 DEF LocksInv

\* Nothing that a call, a patch or an answer depends on changes.
LEMMA CopyStays ==
  ASSUME CopyInv, UNCHANGED <<desk, row, gone, shown, reads, late, asked, calls>>, EditorOpen' => EditorOpen
  PROVE  CopyInv'
<1>1. D' = D /\ Copy' = Copy /\ Ordinary' = Ordinary /\ Existed' = Existed
  BY SameDesk DEF Copy, Existed
<1>2. \A k \in CallIds : /\ RowCall(k)' = RowCall(k) /\ Made(k)' = Made(k) /\ CallOf(k)' = CallOf(k)
                         /\ \A f : SetBy(k, f)' = SetBy(k, f)
  BY SameCalls
<1>3. RowAbout' => RowAbout
  BY <1>2 DEF RowAbout
<1>4. /\ \A k \in CallIds : \A f : Owed(k, f)' <=> Owed(k, f)
      /\ \A f : (CopyShows(f)' <=> CopyShows(f)) /\ asked'[f] = asked[f]
      /\ D'.rows = D.rows /\ late' = late
  BY <1>1, <1>2 DEF Owed, CopyShows
<1>5. \A c : SentBy(c)' = SentBy(c)
  BY SameCalls
<1>6. RowExisted' /\ LoadedOnce' /\ RowSeen'
  BY <1>1, <1>2, <1>3 DEF CopyInv, RowExisted, LoadedOnce, RowSeen
<1>7. CallsCarry'
  BY <1>1, <1>2, <1>5 DEF CopyInv, CallsCarry
<1>8. MadeAlone'
  BY <1>1, <1>2 DEF CopyInv, MadeAlone
<1>9. NothingAskedOfGone' /\ CallsCarryAsked'
  BY <1>1, <1>2 DEF CopyInv, NothingAskedOfGone, CallsCarryAsked
<1>10. ColumnsShown'
  BY <1>1, <1>4 DEF CopyInv, ColumnsShown
<1>11. RowShown'
  BY <1>1, <1>2, <1>4 DEF CopyInv, RowShown
<1> QED
  BY <1>6, <1>7, <1>8, <1>9, <1>10, <1>11 DEF CopyInv

\* A panel opens: one about the row only where the row is.
LEMMA OpenPanelCopy ==
  ASSUME DeskInv, KeptDesk, CopyInv, NEW p \in Panels, OpenPanel(p)
  PROVE  CopyInv'
<1>1. UNCHANGED <<desk, row, gone, shown, reads, late, asked, calls>> /\ open' = (open \ D.panels[p].shuts) \cup {p}
  BY DEF OpenPanel, backend, screen, requests
<1>2. CASE p \notin Editing(D)
  <2>1. EditorOpen' => EditorOpen
    BY <1>1, <1>2, SameDesk DEF EditorOpen
  <2> QED
    BY <1>1, <2>1, CopyStays
<1>3. CASE p \in Editing(D)
  <2>1. Copy["here"] = 1
    <3>1. PICK c \in Calls : D.calls[c].does = "change" /\ Place(D, c) = p
      BY <1>3 DEF Editing, Calls
    <3>2. ShowsRow(D, p)
      BY <3>1, KeptRules DEF PatchesWell
    <3>3. p # "list" /\ ~D.panels[p].stays
      BY KeptRules DEF OpenPanel
    <3>4. CASE D.panels[p].fills # "none"
      BY <3>4 DEF OpenPanel, Displayed, Copy
    <3>5. CASE \E b \in Calls : Place(D, b) = p /\ D.calls[b].needs \cup D.calls[b].wants # {}
      <4>1. PICK b \in Calls : Place(D, b) = p /\ D.calls[b].needs \cup D.calls[b].wants # {}
        BY <3>5
      <4>2. Suits(b)
        BY <4>1 DEF OpenPanel, CallsIn, Place
      <4> QED
        BY <4>1, <4>2 DEF Suits, Displayed, Copy
    <3> QED
      BY <3>2, <3>3, <3>4, <3>5 DEF ShowsRow, Calls
  <2>2. Existed
    BY <2>1 DEF CopyInv, RowExisted
  <2>3. D' = D /\ Copy' = Copy /\ Ordinary' = Ordinary /\ Existed' = Existed
    BY <1>1, SameDesk DEF Copy, Existed
  <2>4. \A k \in CallIds : /\ RowCall(k)' = RowCall(k) /\ Made(k)' = Made(k) /\ CallOf(k)' = CallOf(k)
                           /\ \A f : SetBy(k, f)' = SetBy(k, f)
    BY <1>1, SameCalls
  <2>5. \A c : SentBy(c)' = SentBy(c)
    BY <1>1, SameCalls
  <2>6. RowExisted' /\ LoadedOnce' /\ RowSeen'
    BY <1>1, <2>1, <2>2, <2>3 DEF CopyInv, RowExisted, LoadedOnce, RowSeen
  <2>7. CallsCarry'
    BY <1>1, <2>3, <2>4, <2>5 DEF CopyInv, CallsCarry
  <2>8. MadeAlone'
    BY <1>1, <2>1, <2>3, <2>4 DEF CopyInv, MadeAlone
  <2>9. /\ \A k \in CallIds : \A f : Owed(k, f)' <=> Owed(k, f)
        /\ \A f : (CopyShows(f)' <=> CopyShows(f)) /\ asked'[f] = asked[f]
        /\ D'.rows = D.rows /\ late' = late
    BY <1>1, <2>3, <2>4 DEF Owed, CopyShows
  <2>10. NothingAskedOfGone' /\ CallsCarryAsked'
    BY <1>1, <2>3, <2>4 DEF CopyInv, NothingAskedOfGone, CallsCarryAsked
  <2>11. ColumnsShown'
    BY <2>3, <2>9 DEF CopyInv, ColumnsShown
  <2>12. RowShown'
    BY <1>1, <2>4, <2>9 DEF CopyInv, RowShown
  <2> QED
    BY <2>6, <2>7, <2>8, <2>10, <2>11, <2>12 DEF CopyInv
<1> QED
  BY <1>2, <1>3

\* The backend reads the row for the load.
LEMMA AnswerCopy ==
  ASSUME DeskInv, KeptDesk, CopyInv, NEW r \in reads, Answer(r)
  PROVE  CopyInv'
<1>1. /\ UNCHANGED <<desk, row, gone, shown, late, open, asked, calls>>
      /\ reads' = (reads \ {r}) \cup {[r EXCEPT !.answer = row]}
  BY DEF Answer, backend, panels, requests
<1>2. [r EXCEPT !.answer = row].answer = row
  BY InParts DEF ScreenOK, ReadOK
<1>3. /\ D' = D /\ Copy' = Copy /\ Ordinary' = Ordinary /\ Existed' = Existed
      /\ EditorOpen' = EditorOpen /\ \A c : SentBy(c)' = SentBy(c)
  BY <1>1, SameCalls DEF Copy, Existed, EditorOpen
<1>4. \A k \in CallIds : /\ RowCall(k)' = RowCall(k) /\ Made(k)' = Made(k) /\ CallOf(k)' = CallOf(k)
                         /\ \A f : SetBy(k, f)' = SetBy(k, f)
  BY <1>1, SameCalls
<1>5. RowAbout' = RowAbout
  BY <1>3, <1>4 DEF RowAbout
<1>6. RowExisted'
  <2>1. \A q \in reads' : q \in reads \/ q.answer = row
    BY <1>1, <1>2
  <2> QED
    BY <1>1, <1>3, <1>4, <1>5, <2>1 DEF CopyInv, RowExisted, Existed
<1>7. LoadedOnce'
  <2>1. \A q, s \in reads' : q = s
    BY <1>1 DEF CopyInv, LoadedOnce
  <2>2. D.rows \in late \/ Copy = NotLoaded
    BY DEF CopyInv, LoadedOnce
  <2> QED
    BY <1>1, <1>3, <2>1, <2>2 DEF LoadedOnce
<1>8. RowSeen' /\ CallsCarry'
  BY <1>1, <1>3, <1>4, <1>5 DEF CopyInv, RowSeen, CallsCarry
<1>9. MadeAlone'
  BY <1>1, <1>3, <1>4 DEF CopyInv, MadeAlone
<1>10. NothingAskedOfGone' /\ CallsCarryAsked'
  BY <1>1, <1>3, <1>4 DEF CopyInv, NothingAskedOfGone, CallsCarryAsked
<1>11. /\ \A k \in CallIds : \A f : Owed(k, f)' <=> Owed(k, f)
       /\ \A f : ~CopyShows(f) /\ asked'[f] = asked[f]
       /\ D'.rows = D.rows /\ late' = late
  BY <1>1, <1>3, <1>4 DEF Owed, CopyShows
<1>12. ColumnsShown'
  BY <1>3, <1>11 DEF CopyInv, ColumnsShown
<1>13. RowShown'
  BY <1>1, <1>4, <1>11 DEF CopyInv, RowShown
<1> QED
  BY <1>6, <1>7, <1>8, <1>9, <1>10, <1>12, <1>13 DEF CopyInv

\* The answer is put on display: it is the first, or the copy may be older from now on.
LEMMA InstallCopy ==
  ASSUME DeskInv, KeptDesk, CopyInv, NEW r \in reads, Install(r)
  PROVE  CopyInv'
<1>1. /\ UNCHANGED <<desk, row, gone, late, open, asked, calls>>
      /\ reads' = reads \ {r} /\ shown' = [shown EXCEPT ![r.list] = r.answer] /\ r.answer # Unread
  BY DEF Install, backend, requests
<1>2. Copy' = r.answer
  BY <1>1, KeptRules, InParts DEF Copy, D, ScreenOK, ReadOK
<1>3. /\ D' = D /\ Ordinary' = Ordinary /\ Existed' = Existed
      /\ EditorOpen' = EditorOpen /\ \A c : SentBy(c)' = SentBy(c)
  BY <1>1, SameCalls DEF Existed, EditorOpen
<1>4. \A k \in CallIds : /\ RowCall(k)' = RowCall(k) /\ Made(k)' = Made(k) /\ CallOf(k)' = CallOf(k)
                         /\ \A f : SetBy(k, f)' = SetBy(k, f)
  BY <1>1, SameCalls
<1>5. RowAbout' = RowAbout
  BY <1>3, <1>4 DEF RowAbout
<1>6. D.rows \notin late => Copy = NotLoaded /\ Copy["here"] # 1
  BY FactNames DEF CopyInv, LoadedOnce, NotLoaded, Free
<1>7. RowExisted'
  BY <1>1, <1>2, <1>3, <1>4, <1>5 DEF CopyInv, RowExisted, Existed
<1>8. reads' = {}
  BY <1>1 DEF CopyInv, LoadedOnce
<1>9. LoadedOnce' /\ RowSeen'
  BY <1>1, <1>3, <1>5, <1>6, <1>8 DEF CopyInv, LoadedOnce, RowSeen
<1>10. CallsCarry'
  BY <1>1, <1>2, <1>3, <1>4 DEF CopyInv, CallsCarry, Unread
<1>11. MadeAlone'
  <2>1. ASSUME NEW k \in CallIds, Made(k), D.rows \notin late PROVE ~CallOf(k).loaded
    BY <1>6, <2>1 DEF CopyInv, CallsCarry, Made
  <2> QED
    BY <1>1, <1>3, <1>4, <2>1 DEF CopyInv, MadeAlone
<1>12. NothingAskedOfGone' /\ CallsCarryAsked'
  BY <1>1, <1>3, <1>4 DEF CopyInv, NothingAskedOfGone, CallsCarryAsked
<1>13. /\ \A k \in CallIds : \A f : Owed(k, f)' <=> Owed(k, f)
       /\ \A f : ~CopyShows(f) /\ asked'[f] = asked[f]
       /\ D'.rows = D.rows /\ late' = late
  BY <1>1, <1>3, <1>4 DEF Owed, CopyShows
<1>14. ColumnsShown'
  BY <1>3, <1>13 DEF CopyInv, ColumnsShown
<1>15. RowShown'
  BY <1>1, <1>4, <1>13 DEF CopyInv, RowShown
<1> QED
  BY <1>7, <1>9, <1>10, <1>11, <1>12, <1>14, <1>15 DEF CopyInv

\* The load fails: the copy may be older from now on.
LEMMA LoseReadCopy ==
  ASSUME DeskInv, KeptDesk, CopyInv, NEW r \in reads, LoseRead(r)
  PROVE  CopyInv'
<1>1. /\ UNCHANGED <<desk, row, gone, shown, open, asked, calls>>
      /\ reads' = reads \ {r} /\ late' = late \cup {r.list}
  BY DEF LoseRead, backend, panels, requests
<1>2. D.rows \in late'
  BY <1>1, KeptRules, InParts DEF ScreenOK, ReadOK
<1>3. /\ D' = D /\ Copy' = Copy /\ Ordinary' = Ordinary /\ Existed' = Existed
      /\ EditorOpen' = EditorOpen /\ \A c : SentBy(c)' = SentBy(c)
  BY <1>1, SameCalls DEF Copy, Existed, EditorOpen
<1>4. \A k \in CallIds : /\ RowCall(k)' = RowCall(k) /\ Made(k)' = Made(k) /\ CallOf(k)' = CallOf(k)
                         /\ \A f : SetBy(k, f)' = SetBy(k, f)
  BY <1>1, SameCalls
<1>5. RowAbout' = RowAbout
  BY <1>3, <1>4 DEF RowAbout
<1>6. RowExisted' /\ LoadedOnce' /\ RowSeen'
  BY <1>1, <1>2, <1>3, <1>4, <1>5 DEF CopyInv, RowExisted, LoadedOnce, RowSeen
<1>7. CallsCarry' /\ MadeAlone'
  BY <1>1, <1>2, <1>3, <1>4 DEF CopyInv, CallsCarry, MadeAlone
<1>8. NothingAskedOfGone' /\ CallsCarryAsked'
  BY <1>1, <1>3, <1>4 DEF CopyInv, NothingAskedOfGone, CallsCarryAsked
<1>9. ColumnsShown' /\ RowShown'
  BY <1>2, <1>3 DEF ColumnsShown, RowShown
<1> QED
  BY <1>6, <1>7, <1>8, <1>9 DEF CopyInv

\* Somebody else changes a column, of which nothing is asked any more, or deletes the row.
LEMMA ElsewhereCopy ==
  ASSUME DeskInv, KeptDesk, CopyInv, NEW e \in Facts, Elsewhere(e)
  PROVE  CopyInv'
<1>1. UNCHANGED <<desk, shown, reads, late, open, calls>> /\ row["here"] = 1
  BY DEF Elsewhere, screen, panels
<1>2. /\ Existed' /\ Existed /\ (gone => gone')
      /\ \A f \in Facts : asked'[f] = Free \/ (asked'[f] = asked[f] /\ gone' = gone)
  <2>1. row \in Rows /\ asked \in [Facts -> Bit \cup {Free}]
    BY InParts DEF BackendOK
  <2>2. CASE e = "here"
    BY <1>1, <2>2 DEF Elsewhere, Existed
  <2>3. CASE e # "here"
    BY <1>1, <2>1, <2>3, FactNames DEF Elsewhere, Existed, Rows
  <2> QED
    BY <2>2, <2>3
<1>3. /\ D' = D /\ Copy' = Copy /\ Ordinary' = Ordinary
      /\ EditorOpen' = EditorOpen /\ \A c : SentBy(c)' = SentBy(c)
  BY <1>1, SameCalls DEF Copy, EditorOpen
<1>4. \A k \in CallIds : /\ RowCall(k)' = RowCall(k) /\ Made(k)' = Made(k) /\ CallOf(k)' = CallOf(k)
                         /\ \A f : SetBy(k, f)' = SetBy(k, f)
  BY <1>1, SameCalls
<1>5. RowAbout' = RowAbout /\ Ordinary \subseteq Facts
  BY <1>3, <1>4, KeptRules DEF RowAbout
<1>6. RowExisted' /\ LoadedOnce' /\ RowSeen'
  BY <1>1, <1>2, <1>3, <1>5 DEF CopyInv, RowExisted, LoadedOnce, RowSeen
<1>7. CallsCarry'
  BY <1>1, <1>2, <1>3, <1>4 DEF CopyInv, CallsCarry
<1>8. MadeAlone'
  BY <1>1, <1>2, <1>3, <1>4, <1>5, FactNames DEF CopyInv, MadeAlone
<1>9. NothingAskedOfGone'
  BY <1>1, <1>2, <1>3, <1>4, <1>5 DEF CopyInv, NothingAskedOfGone
<1>10. CallsCarryAsked'
  BY <1>1, <1>2, <1>3, <1>4, <1>5 DEF CopyInv, CallsCarryAsked
<1>11. /\ \A k \in CallIds : \A f : Owed(k, f) => Owed(k, f)'
       /\ \A f \in Facts : asked'[f] = Free \/ (CopyShows(f)' = CopyShows(f) /\ asked'[f] = asked[f])
       /\ D'.rows = D.rows /\ late' = late
  BY <1>1, <1>2, <1>3, <1>4 DEF Owed, CopyShows
<1>12. ColumnsShown'
  BY <1>3, <1>5, <1>11 DEF CopyInv, ColumnsShown
<1>13. RowShown'
  BY <1>1, <1>4, <1>11, FactNames DEF CopyInv, RowShown
<1> QED
  BY <1>6, <1>7, <1>8, <1>9, <1>10, <1>12, <1>13 DEF CopyInv

\* A call fails: nothing is asked for any more that it was about.
LEMMA FailCopy ==
  ASSUME DeskInv, KeptDesk, CopyInv, NEW k \in CallIds, Fail(k)
  PROVE  CopyInv'
<1>1. UNCHANGED <<desk, row, gone, shown, reads, late>> /\ open' \subseteq open
  BY DEF Fail, backend, screen
<1>2. \A j \in CallIds : calls'[j] = IF j = k THEN NoCall ELSE calls[j]
  BY InParts DEF RequestsOK, Fail, Answered
<1>3. \A f \in Facts : \/ asked'[f] = Free
                       \/ /\ asked'[f] = asked[f] /\ f \notin SentBy(calls[k].name)
                          /\ CallOf(k).does \notin {"create", "delete"}
  BY DEF Fail
<1>4. /\ D' = D /\ Copy' = Copy /\ Ordinary' = Ordinary /\ Existed' = Existed
      /\ \A c : SentBy(c)' = SentBy(c)
  BY <1>1, SameDesk DEF Copy, Existed
<1>5. /\ EditorOpen' => EditorOpen
      /\ Ordinary \subseteq Facts
  BY <1>1, <1>4, KeptRules DEF EditorOpen
<1>6. \A j \in CallIds : j # k =>
        /\ RowCall(j)' = RowCall(j) /\ Made(j)' = Made(j) /\ CallOf(j)' = CallOf(j) /\ calls'[j] = calls[j]
        /\ \A f : SetBy(j, f)' = SetBy(j, f)
  BY <1>1, <1>2, CallStays
<1>7. ~RowCall(k)' /\ ~Made(k)' /\ calls'[k].phase = "none" /\ calls'[k] = NoCall /\ \A f : ~SetBy(k, f)'
  BY <1>2, CallOver
<1>8. RowAbout' => RowAbout
  BY <1>5, <1>6, <1>7 DEF RowAbout
<1>9. RowExisted' /\ LoadedOnce' /\ RowSeen'
  BY <1>1, <1>4, <1>6, <1>7, <1>8 DEF CopyInv, RowExisted, LoadedOnce, RowSeen
<1>10. CallsCarry'
  BY <1>1, <1>4, <1>6, <1>7 DEF CopyInv, CallsCarry
<1>11. MadeAlone'
  BY <1>1, <1>3, <1>4, <1>5, <1>6, <1>7, FactNames DEF CopyInv, MadeAlone
<1>12. \A f \in Ordinary : asked'[f] # Free => asked'[f] = asked[f] /\ ~SetBy(k, f)
  BY <1>3, <1>5 DEF CopyInv, CallsCarry, SetBy
<1>13. NothingAskedOfGone'
  BY <1>1, <1>4, <1>6, <1>12 DEF CopyInv, NothingAskedOfGone
<1>14. CallsCarryAsked'
  BY <1>4, <1>6, <1>7, <1>12 DEF CopyInv, CallsCarryAsked
<1>15. /\ \A j \in CallIds : \A f : j # k /\ Owed(j, f) => Owed(j, f)'
       /\ \A f : asked'[f] = asked[f] /\ CopyShows(f) => CopyShows(f)'
       /\ D'.rows = D.rows /\ late' = late
  BY <1>1, <1>4, <1>6 DEF Owed, CopyShows
<1>16. ColumnsShown'
  BY <1>4, <1>12, <1>15 DEF CopyInv, ColumnsShown, Owed
<1>17. RowShown'
  <2> SUFFICES ASSUME D.rows \notin late, asked'["here"] # Free
               PROVE  \/ CopyShows("here")'
                      \/ \E j \in CallIds : Made(j)' /\ asked'["here"] = 1
                      \/ \E j \in CallIds : calls'[j].phase = "done" /\ CallOf(j)'.does = "delete" /\ asked'["here"] = 0
    BY <1>15 DEF RowShown
  <2>1. asked'["here"] = asked["here"] /\ CallOf(k).does \notin {"create", "delete"}
    BY <1>3, FactNames
  <2> QED
    BY <1>6, <1>15, <2>1 DEF CopyInv, RowShown, Made
<1> QED
  BY <1>9, <1>10, <1>11, <1>13, <1>14, <1>16, <1>17 DEF CopyInv

\* What being carried out leaves of a call.
LEMMA ServedCalls ==
  ASSUME DeskInv, KeptDesk, CopyInv, NEW k \in CallIds, Serve(k)
  PROVE  /\ UNCHANGED <<desk, shown, reads, late, open>>
         /\ D' = D /\ Copy' = Copy /\ Ordinary' = Ordinary /\ EditorOpen' = EditorOpen
         /\ \A c : SentBy(c)' = SentBy(c)
         /\ RowAbout' = RowAbout
         /\ calls[k] # NoCall /\ calls'[k] # NoCall /\ calls[k].phase = "sent" /\ calls'[k].phase = "done"
         /\ calls'[k].name = calls[k].name /\ ~Made(k)
         /\ CallOf(k).does # "other" => CallOf(k).opens = {}
         /\ \A j \in CallIds : RowCall(j)' = RowCall(j) /\ CallOf(j)' = CallOf(j) /\ \A f : SetBy(j, f)' = SetBy(j, f)
         /\ \A j \in CallIds : j # k => Made(j)' = Made(j) /\ calls'[j] = calls[j]
<1>1. UNCHANGED <<desk, shown, reads, late, open>> /\ calls[k].phase = "sent"
  BY DEF Serve, screen, panels
<1>2. /\ D' = D /\ Copy' = Copy /\ Ordinary' = Ordinary /\ EditorOpen' = EditorOpen
      /\ \A c : SentBy(c)' = SentBy(c)
  BY <1>1, SameDesk DEF Copy, EditorOpen
<1>3. calls[k] # NoCall /\ calls[k].name \in Calls /\ Carried(calls[k])
  BY <1>1, CallInFlight DEF IsCall
<1>4. /\ calls'[k].phase = "done" /\ calls'[k].name = calls[k].name
      /\ \A j \in CallIds : j # k => calls'[j] = calls[j]
      /\ calls'[k].sent = IF CallOf(k).opens # {} \/ (CallOf(k).does = "create" /\ row' # row)
                          THEN row' ELSE calls[k].sent
  BY ServedInFlight
<1>5. calls'[k] # NoCall
  BY <1>4 DEF NoCall
<1>6. CallOf(k)' = CallOf(k) /\ RowCall(k)' = RowCall(k)
  BY <1>2, <1>3, <1>4, <1>5 DEF CallOf, RowCall, OfRow
<1>7. CallOf(k).does # "other" => CallOf(k).opens = {}
  BY <1>3, KeptRules DEF PatchesWell, CallOf
<1>8. \A f : SetBy(k, f)' = SetBy(k, f)
  BY <1>3, <1>4, <1>5, <1>6, <1>7 DEF SetBy
<1>9. ~Made(k)
  <2>1. SentBy(calls[k].name) \subseteq Columns
    BY <1>3, DeskRules DEF WellMade, SentBy, Calls
  <2> QED
    BY <1>1, <1>3, <2>1, FactNames DEF Made, Carried
<1>10. \A j \in CallIds : j # k =>
         /\ RowCall(j)' = RowCall(j) /\ Made(j)' = Made(j) /\ CallOf(j)' = CallOf(j)
         /\ \A f : SetBy(j, f)' = SetBy(j, f)
  BY <1>1, <1>4, CallStays
<1>11. \A j \in CallIds : RowCall(j)' = RowCall(j) /\ CallOf(j)' = CallOf(j) /\ \A f : SetBy(j, f)' = SetBy(j, f)
  BY <1>6, <1>8, <1>10
<1>12. RowAbout' = RowAbout
  BY <1>2, <1>11 DEF RowAbout
<1> QED
  BY <1>1, <1>2, <1>3, <1>4, <1>5, <1>7, <1>9, <1>10, <1>11, <1>12

\* A call that neither makes nor deletes the page's row is carried out.
LEMMA ServeOthersCopy ==
  ASSUME DeskInv, KeptDesk, CopyInv, NEW k \in CallIds, Serve(k),
         UNCHANGED <<asked, gone>>, Existed' = Existed, ~Made(k)',
         CallOf(k).does # "delete", CallOf(k).does = "change" => ~gone
  PROVE  CopyInv'
<1>1. /\ UNCHANGED <<reads, late, asked, gone>>
      /\ D' = D /\ Copy' = Copy /\ Ordinary' = Ordinary /\ EditorOpen' = EditorOpen
      /\ \A c : SentBy(c)' = SentBy(c)
      /\ RowAbout' = RowAbout
  BY ServedCalls
<1>2. calls[k] # NoCall /\ calls'[k] # NoCall /\ calls[k].phase = "sent" /\ calls'[k].phase = "done"
      /\ calls'[k].name = calls[k].name /\ ~Made(k)
  BY ServedCalls
<1>3. \A j \in CallIds : RowCall(j)' = RowCall(j) /\ CallOf(j)' = CallOf(j) /\ \A f : SetBy(j, f)' = SetBy(j, f)
  BY ServedCalls
<1>4. \A j \in CallIds : (Made(j)' <=> Made(j)) /\ (j # k => calls'[j] = calls[j])
  BY <1>2, ServedCalls
<1>5. RowExisted' /\ LoadedOnce' /\ RowSeen'
  BY <1>1, <1>4 DEF CopyInv, RowExisted, LoadedOnce, RowSeen
<1>6. CallsCarry'
  <2> SUFFICES ASSUME NEW j \in CallIds
               PROVE  /\ calls'[j].phase = "done" /\ CallOf(j)'.does = "delete" => gone'
                      /\ calls'[j] # NoCall /\ CallOf(j)'.does = "change" => DOMAIN calls'[j].sent \subseteq SentBy(calls[j].name)'
                      /\ Made(j)' => calls'[j].sent = NewRow
                      /\ calls'[j] # NoCall /\ CallOf(j)'.does = "create" /\ CallOf(j)'.loaded => Copy' # NotLoaded
    BY DEF CallsCarry
  <2>1. CASE j # k
    BY <1>1, <1>3, <1>4, <2>1 DEF CopyInv, CallsCarry
  <2>2. CASE j = k
    <3>1. CallOf(k).does = "change" => calls'[k].sent = calls[k].sent
      BY ServedInFlight, ServedCalls
    <3> QED
      BY <1>1, <1>2, <1>3, <1>4, <2>2, <3>1 DEF CopyInv, CallsCarry
  <2> QED
    BY <2>1, <2>2
<1>7. MadeAlone'
  BY <1>1, <1>3, <1>4 DEF CopyInv, MadeAlone
<1>8. NothingAskedOfGone'
  <2>1. ASSUME gone PROVE \A f : ~SetBy(k, f)
    BY <2>1 DEF SetBy
  <2> QED
    BY <1>1, <1>3, <1>4, <2>1 DEF CopyInv, NothingAskedOfGone
<1>9. CallsCarryAsked'
  <2>1. \A f : SetBy(k, f) => calls'[k].sent = calls[k].sent
    BY ServedInFlight, ServedCalls DEF SetBy
  <2> QED
    BY <1>1, <1>3, <1>4, <2>1 DEF CopyInv, CallsCarryAsked
<1>10. \A j \in CallIds : \A f : Owed(j, f) => Owed(j, f)'
  BY <1>1, <1>3, <1>4 DEF Owed, SetBy
<1>11. /\ \A f : (CopyShows(f)' <=> CopyShows(f)) /\ asked'[f] = asked[f]
       /\ D'.rows = D.rows /\ late' = late
  BY <1>1 DEF CopyShows
<1>12. ColumnsShown'
  BY <1>1, <1>10, <1>11 DEF CopyInv, ColumnsShown
<1>13. RowShown'
  BY <1>2, <1>3, <1>4, <1>11 DEF CopyInv, RowShown
<1> QED
  BY <1>5, <1>6, <1>7, <1>8, <1>9, <1>12, <1>13 DEF CopyInv

\* The page's row is made: nothing was about it before.
LEMMA ServeMadeCopy ==
  ASSUME DeskInv, KeptDesk, CopyInv, NEW k \in CallIds, Serve(k), ServeCreate(k), row["here"] = 0, ~gone
  PROVE  CopyInv'
<1>1. /\ UNCHANGED <<reads, late>>
      /\ D' = D /\ Copy' = Copy /\ Ordinary' = Ordinary /\ EditorOpen' = EditorOpen
      /\ \A c : SentBy(c)' = SentBy(c)
      /\ RowAbout' = RowAbout
  BY ServedCalls
<1>2. calls'[k] # NoCall /\ calls[k] # NoCall /\ calls'[k].phase = "done" /\ calls'[k].name = calls[k].name
  BY ServedCalls
<1>3. \A j \in CallIds : RowCall(j)' = RowCall(j) /\ CallOf(j)' = CallOf(j) /\ \A f : SetBy(j, f)' = SetBy(j, f)
  BY ServedCalls
<1>4. \A j \in CallIds : j # k => Made(j)' = Made(j) /\ calls'[j] = calls[j]
  BY ServedCalls
<1>5. /\ CallOf(k).does = "create" /\ row' = NewRow /\ gone' = gone
      /\ asked' = [f \in Facts |-> IF f = "here" THEN 1 ELSE Free]
  BY DEF ServeCreate
<1>6. row' # row /\ NewRow["here"] = 1
  BY <1>5, FactNames DEF NewRow
<1>7. calls'[k].sent = NewRow
  BY <1>5, <1>6, ServedInFlight
<1>8. Made(k)'
  BY <1>2, <1>3, <1>5, <1>7, FactNames DEF Made, NewRow
<1>9. Copy["here"] # 1 /\ ~RowAbout /\ \A j \in CallIds : ~Made(j)
  BY DEF CopyInv, RowExisted, Existed
<1>10. asked'["here"] = 1 /\ \A f \in Ordinary : asked'[f] = Free
  BY <1>5, KeptRules, FactNames
<1>11. RowExisted' /\ LoadedOnce' /\ RowSeen'
  BY <1>1, <1>5, <1>6, <1>9 DEF CopyInv, RowExisted, Existed, LoadedOnce, RowSeen
<1>12. CallsCarry'
  BY <1>1, <1>2, <1>3, <1>4, <1>5, <1>7 DEF CopyInv, CallsCarry
<1>13. MadeAlone'
  BY <1>1, <1>3, <1>4, <1>9, <1>10 DEF MadeAlone, RowAbout
<1>14. NothingAskedOfGone' /\ CallsCarryAsked' /\ ColumnsShown'
  BY <1>1, <1>10 DEF NothingAskedOfGone, CallsCarryAsked, ColumnsShown
<1>15. RowShown'
  BY <1>8, <1>10 DEF RowShown
<1> QED
  BY <1>11, <1>12, <1>13, <1>14, <1>15 DEF CopyInv

\* The page's row is deleted.
LEMMA ServeDeleteCopy ==
  ASSUME DeskInv, KeptDesk, CopyInv, NEW k \in CallIds, Serve(k), ServeDelete(k)
  PROVE  CopyInv'
<1>1. /\ UNCHANGED <<reads, late>>
      /\ D' = D /\ Copy' = Copy /\ Ordinary' = Ordinary /\ EditorOpen' = EditorOpen
      /\ \A c : SentBy(c)' = SentBy(c)
      /\ RowAbout' = RowAbout
  BY ServedCalls
<1>2. calls'[k] # NoCall /\ calls[k] # NoCall /\ calls'[k].phase = "done" /\ calls'[k].name = calls[k].name
  BY ServedCalls
<1>3. \A j \in CallIds : RowCall(j)' = RowCall(j) /\ CallOf(j)' = CallOf(j) /\ \A f : SetBy(j, f)' = SetBy(j, f)
  BY ServedCalls
<1>4. \A j \in CallIds : j # k => Made(j)' = Made(j) /\ calls'[j] = calls[j]
  BY ServedCalls
<1>5. /\ CallOf(k).does = "delete" /\ gone'
      /\ asked' = [f \in Facts |-> IF f = "here" THEN 0 ELSE Free]
  BY DEF ServeDelete
<1>6. RowCall(k) /\ ~Made(k)'
  BY <1>2, <1>3, <1>5 DEF RowCall, OfRow, CallOf, Made
<1>7. asked'["here"] = 0 /\ \A f \in Ordinary : asked'[f] = Free
  BY <1>5, KeptRules, FactNames
<1>8. RowExisted' /\ LoadedOnce' /\ RowSeen'
  BY <1>1, <1>5 DEF CopyInv, RowExisted, Existed, LoadedOnce, RowSeen
<1>9. CallsCarry'
  BY <1>1, <1>2, <1>3, <1>4, <1>5, <1>6 DEF CopyInv, CallsCarry
<1>10. MadeAlone'
  BY <1>1, <1>4, <1>6 DEF CopyInv, MadeAlone
<1>11. NothingAskedOfGone' /\ CallsCarryAsked' /\ ColumnsShown'
  BY <1>1, <1>7 DEF NothingAskedOfGone, CallsCarryAsked, ColumnsShown
<1>12. RowShown'
  BY <1>2, <1>3, <1>5, <1>7 DEF RowShown
<1> QED
  BY <1>8, <1>9, <1>10, <1>11, <1>12 DEF CopyInv

\* The backend carries out a call.
LEMMA ServeCopy ==
  ASSUME DeskInv, KeptDesk, CopyInv, NEW k \in CallIds, Serve(k)
  PROVE  CopyInv'
<1>1. ~Made(k) /\ (CallOf(k).does # "other" => CallOf(k).opens = {})
      /\ CallOf(k)' = CallOf(k) /\ calls'[k] # NoCall /\ calls[k] # NoCall
  BY ServedCalls
<1>2. calls'[k].sent = IF CallOf(k).opens # {} \/ (CallOf(k).does = "create" /\ row' # row)
                       THEN row' ELSE calls[k].sent
  BY ServedInFlight
<1>3. CASE ServeCreate(k)
  <2>1. CASE row["here"] = 0 /\ ~gone
    BY <1>3, <2>1, ServeMadeCopy
  <2>2. CASE ~(row["here"] = 0 /\ ~gone)
    <3>1. UNCHANGED <<row, asked, gone>> /\ CallOf(k).does = "create"
      BY <1>3, <2>2 DEF ServeCreate
    <3>2. ~Made(k)' /\ Existed' = Existed
      BY <1>1, <1>2, <3>1 DEF Made, Existed
    <3> QED
      BY <3>1, <3>2, ServeOthersCopy
  <2> QED
    BY <2>1, <2>2
<1>4. CASE ServeChange(k)
  <2>1. UNCHANGED <<asked, gone>> /\ CallOf(k).does = "change" /\ row["here"] = 1 /\ ~gone
    BY <1>4, InParts DEF ServeChange, BackendOK
  <2>2. "here" \notin DOMAIN calls[k].sent
    <3>1. calls[k].name \in Calls
      BY <1>1, CallInFlight
    <3>2. SentBy(calls[k].name) \subseteq Columns
      BY <3>1, DeskRules DEF WellMade, SentBy, Calls
    <3> QED
      BY <1>1, <2>1, <3>2, FactNames DEF CopyInv, CallsCarry
  <2>3. row'["here"] = 1
    BY <1>4, <2>1, <2>2, FactNames DEF ServeChange
  <2>4. ~Made(k)' /\ Existed' = Existed
    BY <1>1, <2>1, <2>3 DEF Made, Existed
  <2> QED
    BY <2>1, <2>4, ServeOthersCopy
<1>5. CASE ServeDelete(k)
  BY <1>5, ServeDeleteCopy
<1>6. CASE ServeOther(k)
  <2>1. UNCHANGED <<row, asked, gone>> /\ CallOf(k).does = "other"
    BY <1>6 DEF ServeOther
  <2>2. ~Made(k)' /\ Existed' = Existed
    BY <1>1, <2>1 DEF Made, Existed
  <2> QED
    BY <2>1, <2>2, ServeOthersCopy
<1> QED
  BY <1>3, <1>4, <1>5, <1>6 DEF Serve

\* What an answer that arrives changes.
LEMMA Succeeded ==
  ASSUME DeskInv, KeptDesk, CopyInv, NEW k \in CallIds, Succeed(k)
  PROVE  /\ UNCHANGED <<desk, row, gone, asked, reads>> /\ late \subseteq late'
         /\ D' = D /\ Ordinary' = Ordinary /\ Existed' = Existed /\ \A c : SentBy(c)' = SentBy(c)
         /\ \A j \in CallIds : j # k =>
              /\ RowCall(j)' = RowCall(j) /\ Made(j)' = Made(j) /\ CallOf(j)' = CallOf(j) /\ calls'[j] = calls[j]
              /\ \A f : SetBy(j, f)' = SetBy(j, f)
         /\ ~RowCall(k)' /\ ~Made(k)' /\ calls'[k].phase = "none" /\ calls'[k] = NoCall /\ \A f : ~SetBy(k, f)'
         /\ calls[k].phase = "done" /\ calls[k] # NoCall /\ calls[k].name \in Calls /\ PatchesWell(D, calls[k].name)
         /\ CallOf(k).patches = "after" => Copy' = Patched(calls[k].name, calls[k].sent)[D.rows]
         /\ CallOf(k).patches = "after" /\ D.rows \notin late' => reads = {}
         /\ CallOf(k).patches # "after" => Copy' = Copy
         /\ EditorOpen' => EditorOpen \/ CallOf(k).opens # {}
<1>1. /\ UNCHANGED <<desk, row, gone, asked>> /\ calls[k].phase = "done"
      /\ open' = (open \ CallOf(k).closes) \cup CallOf(k).opens
      /\ shown' = IF CallOf(k).patches = "after" THEN Patched(calls[k].name, calls[k].sent) ELSE shown
      /\ Restart(CallOf(k).refetches \cap Lists, IF CallOf(k).patches = "after" THEN Lists ELSE {})
  BY DEF Succeed, backend
<1>2. \A j \in CallIds : calls'[j] = IF j = k THEN NoCall ELSE calls[j]
  BY InParts DEF RequestsOK, Succeed, Answered
<1>3. calls[k] # NoCall /\ calls[k].name \in Calls /\ PatchesWell(D, calls[k].name)
  BY <1>1, CallInFlight, KeptRules
<1>4. CallOf(k).refetches \cap Lists = {}
  BY <1>3, KeptRules DEF PatchesWell, CallOf
<1>5. /\ \A r \in reads : RunsOn(r, {})
      /\ {r \in reads : RunsOn(r, {})} = reads
  BY DEF RunsOn
<1>6. reads' = reads
  <2>1. AsksAgain(reads, {})
    BY <1>1, <1>4, <1>5 DEF Restart
  <2> QED
    BY <2>1 DEF AsksAgain
<1>7. late' = late \cup {r.list : r \in {q \in reads : q.list \in IF CallOf(k).patches = "after" THEN Lists ELSE {}}}
  BY <1>1, <1>4, <1>5 DEF Restart
<1>8. CallOf(k).patches = "after" /\ D.rows \notin late' => reads = {}
  <2>1. \A r \in reads : r.list = D.rows /\ r.list \in Lists
    BY KeptRules, InParts DEF ScreenOK, ReadOK
  <2> QED
    BY <1>7, <2>1
<1>9. /\ D' = D /\ Ordinary' = Ordinary /\ Existed' = Existed /\ \A c : SentBy(c)' = SentBy(c)
  BY <1>1, SameDesk DEF Existed
<1>10. \A j \in CallIds : j # k =>
         /\ RowCall(j)' = RowCall(j) /\ Made(j)' = Made(j) /\ CallOf(j)' = CallOf(j) /\ calls'[j] = calls[j]
         /\ \A f : SetBy(j, f)' = SetBy(j, f)
  BY <1>1, <1>2, CallStays
<1>11. ~RowCall(k)' /\ ~Made(k)' /\ calls'[k].phase = "none" /\ calls'[k] = NoCall /\ \A f : ~SetBy(k, f)'
  BY <1>2, CallOver
<1>12. EditorOpen' => EditorOpen \/ CallOf(k).opens # {}
  BY <1>1, <1>9 DEF EditorOpen
<1>13. /\ CallOf(k).patches = "after" => Copy' = Patched(calls[k].name, calls[k].sent)[D.rows]
       /\ CallOf(k).patches # "after" => Copy' = Copy
  BY <1>1, <1>9 DEF Copy
<1> QED
  BY <1>1, <1>3, <1>6, <1>7, <1>8, <1>9, <1>10, <1>11, <1>12, <1>13

\* An answer that leaves the copy as it is, and was owed nothing that is not shown.
LEMMA SucceedSameCopy ==
  ASSUME DeskInv, KeptDesk, CopyInv, NEW k \in CallIds, Succeed(k),
         Copy' = Copy, ~Made(k), CallOf(k).does # "delete",
         \A f \in Ordinary : D.rows \notin late /\ Owed(k, f) => asked[f] = Free
  PROVE  CopyInv'
<1>1. /\ UNCHANGED <<row, gone, asked, reads>> /\ late \subseteq late'
      /\ D' = D /\ Ordinary' = Ordinary /\ Existed' = Existed /\ \A c : SentBy(c)' = SentBy(c)
  BY Succeeded
<1>2. \A j \in CallIds : j # k =>
        /\ RowCall(j)' = RowCall(j) /\ Made(j)' = Made(j) /\ CallOf(j)' = CallOf(j) /\ calls'[j] = calls[j]
        /\ \A f : SetBy(j, f)' = SetBy(j, f)
  BY Succeeded
<1>3. ~RowCall(k)' /\ ~Made(k)' /\ calls'[k].phase = "none" /\ calls'[k] = NoCall /\ \A f : ~SetBy(k, f)'
  BY Succeeded
<1>4. calls[k].phase = "done" /\ calls[k] # NoCall
  BY Succeeded
<1>5. EditorOpen' => EditorOpen \/ RowCall(k)
  BY <1>4, Succeeded DEF RowCall, OfRow, CallOf
<1>6. RowAbout' => RowAbout
  BY <1>2, <1>3, <1>5 DEF RowAbout
<1>7. RowExisted' /\ LoadedOnce' /\ RowSeen'
  BY <1>1, <1>2, <1>3, <1>6 DEF CopyInv, RowExisted, LoadedOnce, RowSeen
<1>8. CallsCarry'
  BY <1>1, <1>2, <1>3 DEF CopyInv, CallsCarry
<1>9. MadeAlone'
  BY <1>1, <1>2, <1>3, <1>5 DEF CopyInv, MadeAlone
<1>10. NothingAskedOfGone'
  BY <1>1, <1>2, <1>4 DEF CopyInv, NothingAskedOfGone
<1>11. CallsCarryAsked'
  BY <1>1, <1>2, <1>3 DEF CopyInv, CallsCarryAsked
<1>12. /\ \A j \in CallIds : \A f : j # k /\ Owed(j, f) => Owed(j, f)'
       /\ \A f : (CopyShows(f)' <=> CopyShows(f)) /\ asked'[f] = asked[f]
       /\ D'.rows = D.rows
  BY <1>1, <1>2 DEF Owed, CopyShows
<1>13. ColumnsShown'
  BY <1>1, <1>12 DEF CopyInv, ColumnsShown
<1>14. RowShown'
  BY <1>1, <1>2, <1>12 DEF CopyInv, RowShown
<1> QED
  BY <1>7, <1>8, <1>9, <1>10, <1>11, <1>13, <1>14 DEF CopyInv

\* The copy gets the values that were sent.
LEMMA SucceedChangeCopy ==
  ASSUME DeskInv, KeptDesk, LocksInv, CopyInv, NEW k \in CallIds, Succeed(k),
         CallOf(k).does = "change", CallOf(k).patches = "after"
  PROVE  CopyInv'
<1>1. /\ UNCHANGED <<row, gone, asked, reads>> /\ late \subseteq late'
      /\ D' = D /\ Ordinary' = Ordinary /\ Existed' = Existed /\ \A c : SentBy(c)' = SentBy(c)
  BY Succeeded
<1>2. \A j \in CallIds : j # k =>
        /\ RowCall(j)' = RowCall(j) /\ Made(j)' = Made(j) /\ CallOf(j)' = CallOf(j) /\ calls'[j] = calls[j]
        /\ \A f : SetBy(j, f)' = SetBy(j, f)
  BY Succeeded
<1>3. ~RowCall(k)' /\ ~Made(k)' /\ calls'[k].phase = "none" /\ calls'[k] = NoCall /\ \A f : ~SetBy(k, f)'
  BY Succeeded
<1>4. calls[k].phase = "done" /\ calls[k] # NoCall /\ calls[k].name \in Calls
  BY Succeeded
<1>5. CallOf(k).opens = {} /\ RowCall(k) /\ RowAbout /\ ~Made(k)
  BY <1>4, Succeeded DEF PatchesWell, CallOf, RowCall, OfRow, RowAbout, Made
<1>6. EditorOpen' => EditorOpen
  BY <1>5, Succeeded
<1>7. D.rows \notin late' => reads = {} /\ D.rows \notin late
  BY <1>1, Succeeded
<1>8. "here" \notin DOMAIN calls[k].sent
  <2>1. SentBy(calls[k].name) \subseteq Columns
    BY <1>4, DeskRules DEF WellMade, SentBy, Calls
  <2> QED
    BY <1>4, <2>1, FactNames DEF CopyInv, CallsCarry
<1>9. CASE Copy["here"] # 1
  <2>1. Copy' = Copy
    BY <1>4, <1>9, Succeeded, PatchedCopy DEF CallOf
  <2>2. ASSUME NEW f \in Ordinary, D.rows \notin late, Owed(k, f) PROVE asked[f] = Free
    <3>1. gone /\ SetBy(k, f)
      BY <1>5, <1>9, <2>2 DEF CopyInv, RowSeen, Owed
    <3>2. ASSUME NEW j \in CallIds, SetBy(j, f), calls[j].phase = "sent" PROVE FALSE
      <4>1. j = k
        BY <3>1, <3>2, OneSetter DEF CopyInv
      <4> QED
        BY <1>4, <3>2, <4>1
    <3> QED
      BY <3>1, <3>2 DEF CopyInv, NothingAskedOfGone
  <2> QED
    BY <1>5, <2>1, <2>2, SucceedSameCopy
<1>10. CASE Copy["here"] = 1
  <2>1. \A f \in Facts : Copy'[f] = IF f \in DOMAIN calls[k].sent THEN calls[k].sent[f] ELSE Copy[f]
    BY <1>4, <1>10, Succeeded, PatchedCopy DEF CallOf
  <2>2. Copy'["here"] = 1 /\ Copy' # NotLoaded
    BY <1>8, <1>10, <2>1, FactNames DEF NotLoaded, Free
  <2>3. RowAbout' => RowAbout
    BY <1>5
  <2>4. RowExisted' /\ LoadedOnce' /\ RowSeen'
    BY <1>1, <1>2, <1>3, <1>5, <1>7, <2>2 DEF CopyInv, RowExisted, LoadedOnce, RowSeen
  <2>5. CallsCarry'
    BY <1>1, <1>2, <1>3, <2>2 DEF CopyInv, CallsCarry
  <2>6. MadeAlone'
    BY <1>1, <1>2, <1>3, <1>5, <1>7 DEF CopyInv, MadeAlone
  <2>7. NothingAskedOfGone'
    BY <1>1, <1>2, <1>4 DEF CopyInv, NothingAskedOfGone
  <2>8. CallsCarryAsked'
    BY <1>1, <1>2, <1>3 DEF CopyInv, CallsCarryAsked
  <2>9. \A j \in CallIds : \A f : j # k /\ Owed(j, f) => Owed(j, f)'
    BY <1>1, <1>2 DEF Owed
  <2>10. ASSUME NEW f \in Ordinary, D.rows \notin late'
         PROVE  asked'[f] = Free \/ CopyShows(f)' \/ \E j \in CallIds : Owed(j, f)'
    <3>1. f \in Facts
      BY KeptRules
    <3>2. CASE f \in DOMAIN calls[k].sent
      <4>1. SetBy(k, f)
        BY <1>4, <3>2 DEF SetBy
      <4>2. asked[f] \in {calls[k].sent[f], Free}
        BY <4>1 DEF CopyInv, CallsCarryAsked
      <4> QED
        BY <1>1, <1>7, <2>1, <2>10, <3>1, <3>2, <4>2 DEF CopyShows
    <3>3. CASE f \notin DOMAIN calls[k].sent
      <4>1. ~Owed(k, f)
        BY <3>3 DEF Owed, SetBy
      <4>2. asked[f] = Free \/ CopyShows(f) \/ \E j \in CallIds : Owed(j, f)
        BY <1>7, <2>10 DEF CopyInv, ColumnsShown
      <4>3. CopyShows(f) => CopyShows(f)'
        BY <1>1, <2>1, <3>1, <3>3 DEF CopyShows
      <4> QED
        BY <1>1, <2>9, <4>1, <4>2, <4>3
    <3> QED
      BY <3>2, <3>3
  <2>11. ColumnsShown'
    BY <1>1, <2>10 DEF ColumnsShown
  <2>12. CopyShows("here") => CopyShows("here")'
    BY <1>1, <1>10, <2>2 DEF CopyShows
  <2>13. RowShown'
    BY <1>1, <1>2, <1>5, <1>7, <2>12 DEF CopyInv, RowShown
  <2> QED
    BY <2>4, <2>5, <2>6, <2>7, <2>8, <2>11, <2>13 DEF CopyInv
<1> QED
  BY <1>9, <1>10

\* The copy gets the row that was made.
LEMMA SucceedMadeCopy ==
  ASSUME DeskInv, KeptDesk, CopyInv, NEW k \in CallIds, Succeed(k), Made(k)
  PROVE  CopyInv'
<1>1. /\ UNCHANGED <<row, gone, asked, reads>> /\ late \subseteq late'
      /\ D' = D /\ Ordinary' = Ordinary /\ Existed' = Existed /\ \A c : SentBy(c)' = SentBy(c)
  BY Succeeded
<1>2. \A j \in CallIds : j # k =>
        /\ RowCall(j)' = RowCall(j) /\ Made(j)' = Made(j) /\ CallOf(j)' = CallOf(j) /\ calls'[j] = calls[j]
        /\ \A f : SetBy(j, f)' = SetBy(j, f)
  BY Succeeded
<1>3. ~RowCall(k)' /\ ~Made(k)' /\ calls'[k].phase = "none" /\ calls'[k] = NoCall /\ \A f : ~SetBy(k, f)'
  BY Succeeded
<1>4. calls[k].phase = "done" /\ calls[k] # NoCall /\ calls[k].name \in Calls /\ CallOf(k).does = "create"
  BY Succeeded DEF Made
<1>5. CallOf(k).patches = "after" /\ CallOf(k).opens = {}
  BY <1>4, Succeeded DEF PatchesWell, CallOf
<1>6. EditorOpen' => EditorOpen
  BY <1>5, Succeeded
<1>7. D.rows \notin late' => reads = {} /\ D.rows \notin late
  BY <1>1, <1>5, Succeeded
<1>8. Copy' = NewRow
  BY <1>4, <1>5, Succeeded, PatchedCopy DEF CallOf, Made, CopyInv, CallsCarry
<1>9. NewRow["here"] = 1 /\ NewRow # NotLoaded
  BY FactNames DEF NewRow, NotLoaded, Free
<1>10. RowAbout' => RowAbout
  BY <1>2, <1>3, <1>6 DEF RowAbout
<1>11. Existed
  BY DEF CopyInv, RowExisted
<1>12. RowExisted' /\ LoadedOnce' /\ RowSeen'
  BY <1>1, <1>7, <1>8, <1>9, <1>11 DEF CopyInv, RowExisted, LoadedOnce, RowSeen
<1>13. CallsCarry'
  BY <1>1, <1>2, <1>3, <1>8, <1>9 DEF CopyInv, CallsCarry
<1>14. \A j \in CallIds : ~Made(j)'
  BY <1>2, <1>3 DEF CopyInv, MadeAlone
<1>15. MadeAlone'
  BY <1>14 DEF MadeAlone
<1>16. NothingAskedOfGone'
  BY <1>1, <1>2, <1>4 DEF CopyInv, NothingAskedOfGone
<1>17. CallsCarryAsked'
  BY <1>1, <1>2, <1>3 DEF CopyInv, CallsCarryAsked
<1>18. D.rows \notin late' => asked["here"] \in {1, Free} /\ \A f \in Ordinary : asked[f] = Free
  BY <1>7 DEF CopyInv, MadeAlone
<1>19. ColumnsShown'
  BY <1>1, <1>18 DEF ColumnsShown
<1>20. RowShown'
  BY <1>1, <1>7, <1>8, <1>9, <1>18 DEF RowShown, CopyShows
<1> QED
  BY <1>12, <1>13, <1>15, <1>16, <1>17, <1>19, <1>20 DEF CopyInv

\* The row leaves the copy.
LEMMA SucceedDeleteCopy ==
  ASSUME DeskInv, KeptDesk, ValuesInv, CopyInv, NEW k \in CallIds, Succeed(k), CallOf(k).does = "delete"
  PROVE  CopyInv'
<1>1. /\ UNCHANGED <<row, gone, asked, reads>> /\ late \subseteq late'
      /\ D' = D /\ Ordinary' = Ordinary /\ Existed' = Existed /\ \A c : SentBy(c)' = SentBy(c)
  BY Succeeded
<1>2. \A j \in CallIds : j # k =>
        /\ RowCall(j)' = RowCall(j) /\ Made(j)' = Made(j) /\ CallOf(j)' = CallOf(j) /\ calls'[j] = calls[j]
        /\ \A f : SetBy(j, f)' = SetBy(j, f)
  BY Succeeded
<1>3. ~RowCall(k)' /\ ~Made(k)' /\ calls'[k].phase = "none" /\ calls'[k] = NoCall /\ \A f : ~SetBy(k, f)'
  BY Succeeded
<1>4. calls[k].phase = "done" /\ calls[k] # NoCall /\ calls[k].name \in Calls
  BY Succeeded
<1>5. CallOf(k).patches = "after" /\ CallOf(k).opens = {} /\ RowCall(k)
  BY <1>4, Succeeded DEF PatchesWell, CallOf, RowCall, OfRow
<1>6. EditorOpen' => EditorOpen
  BY <1>5, Succeeded
<1>7. D.rows \notin late' => reads = {} /\ D.rows \notin late
  BY <1>1, <1>5, Succeeded
<1>8. Copy' = [f \in Facts |-> 0]
  BY <1>4, <1>5, Succeeded, PatchedCopy DEF CallOf
<1>9. Copy'["here"] = 0 /\ Copy' # NotLoaded
  BY <1>8, FactNames DEF NotLoaded, Free
<1>10. gone /\ row["here"] = 0
  BY <1>4, InParts DEF CopyInv, CallsCarry, BackendOK
<1>11. RowExisted' /\ LoadedOnce' /\ RowSeen'
  BY <1>1, <1>7, <1>10 DEF RowExisted, Existed, CopyInv, LoadedOnce, RowSeen
<1>12. CallsCarry'
  BY <1>1, <1>2, <1>3, <1>9 DEF CopyInv, CallsCarry
<1>13. MadeAlone'
  BY <1>2, <1>1, <1>3, <1>5, <1>7 DEF CopyInv, MadeAlone
<1>14. NothingAskedOfGone'
  BY <1>1, <1>2, <1>4 DEF CopyInv, NothingAskedOfGone
<1>15. CallsCarryAsked'
  BY <1>1, <1>2, <1>3 DEF CopyInv, CallsCarryAsked
<1>16. ASSUME NEW f \in Ordinary
       PROVE  asked'[f] = Free \/ \E j \in CallIds : Owed(j, f)'
  <2>1. asked[f] = Free \/ \E j \in CallIds : SetBy(j, f) /\ calls[j].phase = "sent"
    BY <1>10 DEF CopyInv, NothingAskedOfGone
  <2>2. ASSUME NEW j \in CallIds, SetBy(j, f), calls[j].phase = "sent" PROVE Owed(j, f)'
    <3>1. j # k
      BY <1>4, <2>2
    <3> QED
      BY <1>1, <1>2, <1>10, <2>2, <3>1 DEF Owed
  <2> QED
    BY <1>1, <2>1, <2>2
<1>17. ColumnsShown'
  BY <1>1, <1>16 DEF ColumnsShown
<1>18. asked["here"] = Free \/ asked["here"] = 0
  BY <1>10 DEF ValuesInv
<1>19. RowShown'
  BY <1>1, <1>7, <1>9, <1>18 DEF RowShown, CopyShows
<1> QED
  BY <1>11, <1>12, <1>13, <1>14, <1>15, <1>17, <1>19 DEF CopyInv

\* An answer arrives.
LEMMA SucceedCopy ==
  ASSUME DeskInv, KeptDesk, LocksInv, ValuesInv, CopyInv, NEW k \in CallIds, Succeed(k)
  PROVE  CopyInv'
<1>1. calls[k].phase = "done" /\ calls[k] # NoCall /\ calls[k].name \in Calls /\ PatchesWell(D, calls[k].name)
  BY Succeeded
<1>2. CASE Made(k)
  BY <1>2, SucceedMadeCopy
<1>3. CASE CallOf(k).does = "delete"
  BY <1>3, SucceedDeleteCopy
<1>4. CASE CallOf(k).does = "change" /\ CallOf(k).patches = "after"
  BY <1>4, SucceedChangeCopy
<1>5. CASE ~Made(k) /\ CallOf(k).does = "create"
  <2>1. Copy' = Copy
    <3>1. CallOf(k).patches = "after"
      BY <1>1, <1>5 DEF PatchesWell, CallOf
    <3> QED
      BY <1>1, <1>5, <3>1, Succeeded, PatchedCopy DEF Made, CallOf
  <2>2. \A f : ~Owed(k, f)
    BY <1>5 DEF Owed, SetBy
  <2> QED
    BY <1>5, <2>1, <2>2, SucceedSameCopy
<1>6. CASE CallOf(k).does \notin {"create", "delete"} /\ CallOf(k).patches # "after"
  <2>1. Copy' = Copy /\ ~Made(k)
    BY <1>6, Succeeded DEF Made
  <2>2. \A f : ~Owed(k, f)
    BY <1>1, <1>6 DEF Owed
  <2> QED
    BY <1>6, <2>1, <2>2, SucceedSameCopy
<1>7. CallOf(k).does \notin {"create", "delete", "change"} => CallOf(k).patches # "after"
  BY <1>1 DEF PatchesWell, CallOf
<1> QED
  BY <1>2, <1>3, <1>4, <1>5, <1>6, <1>7

\* A button about the row is pressed where the row is.
LEMMA PressedWhereRowIs ==
  ASSUME DeskInv, KeptDesk, NEW c \in Calls, Press(c), OfRow(c)
  PROVE  Copy["here"] = 1 \/ EditorOpen
<1>1. Offered(c) /\ PatchesWell(D, c)
  BY KeptRules DEF Press
<1>2. Displayed => Copy["here"] = 1
  BY DEF Displayed, Copy
<1>3. CASE D.calls[c].does = "delete" \/ D.calls[c].opens # {}
  <2>1. D.buttons[c].in = "list" /\ D.calls[c].does # "create"
    BY <1>1, <1>3 DEF PatchesWell, Place
  <2> QED
    BY <1>1, <1>2, <1>3, <2>1 DEF Offered
<1>4. CASE D.calls[c].does = "change"
  <2>1. ShowsRow(D, Place(D, c))
    BY <1>1, <1>4 DEF PatchesWell
  <2>2. CASE Place(D, c) = "list"
    BY <1>1, <1>2, <1>4, <2>2 DEF Offered, Place
  <2>3. CASE Place(D, c) # "list" /\ Place(D, c) \in Panels /\ D.panels[Place(D, c)].stays
    <3>1. Filled(Place(D, c)) \in {"once", "sync", "load"}
      BY <2>1, <2>3 DEF ShowsRow, Filled, Panels
    <3> QED
      BY <1>1, <1>2, <2>3, <3>1 DEF Offered, Place
  <2>4. CASE Place(D, c) # "list" /\ Place(D, c) \in Panels /\ ~D.panels[Place(D, c)].stays
    <3>1. Place(D, c) \in Editing(D)
      BY <1>4, <2>4 DEF Editing, Panels, Calls
    <3>2. Place(D, c) \in open
      BY <1>1, <2>4 DEF Offered, Place
    <3> QED
      BY <3>1, <3>2 DEF EditorOpen
  <2> QED
    BY <2>1, <2>2, <2>3, <2>4 DEF ShowsRow, Panels
<1> QED
  BY <1>3, <1>4 DEF OfRow

\* What a press changes.
LEMMA Pressed ==
  ASSUME DeskInv, KeptDesk, LocksInv, CopyInv, NEW c \in Calls, Press(c), NEW k \in CallIds, k = pressed + 1
  PROVE  /\ UNCHANGED <<desk, row, gone, reads>>
         /\ D' = D /\ Ordinary' = Ordinary /\ Existed' = Existed /\ \A b : SentBy(b)' = SentBy(b)
         /\ EditorOpen' => EditorOpen
         /\ \A j \in CallIds : j # k =>
              /\ RowCall(j)' = RowCall(j) /\ Made(j)' = Made(j) /\ CallOf(j)' = CallOf(j) /\ calls'[j] = calls[j]
              /\ \A f : SetBy(j, f)' = SetBy(j, f)
         /\ calls[k] = NoCall
         /\ calls'[k] = [name |-> c, phase |-> "sent", sent |-> Request(c)]
         /\ CallOf(k)' = D.calls[c] /\ ~Made(k)' /\ (RowCall(k)' <=> OfRow(c))
         /\ asked'["here"] = asked["here"]
         /\ \A f \in Ordinary : ~SetBy(k, f)' => asked'[f] \in {asked[f], Free}
         /\ \A f \in Ordinary : SetBy(k, f)' =>
              asked'[f] = Request(c)[f] /\ \A j \in CallIds : j # k => ~SetBy(j, f)
<1> USE DEF Press
<1>1. UNCHANGED <<desk, row, gone, reads>> /\ open' \subseteq open
  BY DEF backend
<1>2. calls = [j \in CallIds |-> calls[j]] /\ pressed \in Nat
  BY InParts, BoundsAssumption DEF RequestsOK
<1>3. \A j \in CallIds : calls'[j] = IF j = k THEN [name |-> c, phase |-> "sent", sent |-> Request(c)] ELSE calls[j]
  BY <1>2
<1>4. calls[k] = NoCall
  <2>1. ~(k <= pressed)
    BY <1>2
  <2> QED
    BY <2>1 DEF DeskInv, CallsOK
<1>5. /\ D' = D /\ Ordinary' = Ordinary /\ Existed' = Existed /\ (\A b : SentBy(b)' = SentBy(b))
      /\ (EditorOpen' => EditorOpen)
  BY <1>1, SameDesk DEF Existed, EditorOpen
<1>6. \A j \in CallIds : j # k =>
        /\ RowCall(j)' = RowCall(j) /\ Made(j)' = Made(j) /\ CallOf(j)' = CallOf(j) /\ calls'[j] = calls[j]
        /\ \A f : SetBy(j, f)' = SetBy(j, f)
  BY <1>1, <1>3, CallStays
<1>7. /\ calls'[k] = [name |-> c, phase |-> "sent", sent |-> Request(c)]
      /\ calls'[k].name = c /\ calls'[k].sent = Request(c) /\ calls'[k].phase = "sent"
  BY <1>3
<1>8. calls'[k] # NoCall
  BY <1>7 DEF NoCall
<1>9. SentBy(c) \subseteq Columns /\ DOMAIN Request(c) \subseteq SentBy(c)
  BY DeskRules DEF WellMade, SentBy, Calls, Request
<1>10. CallOf(k)' = D.calls[c] /\ ~Made(k)' /\ (RowCall(k)' <=> OfRow(c))
  <2>1. CallOf(k)' = D.calls[c]
    BY <1>5, <1>7 DEF CallOf
  <2>2. ~Made(k)'
    BY <1>7, <1>9, FactNames DEF Made
  <2>3. RowCall(k)' <=> OfRow(c)
    BY <1>5, <1>7, <1>8 DEF RowCall, OfRow
  <2> QED
    BY <2>1, <2>2, <2>3
<1>11. asked'["here"] = asked["here"]
  BY <1>9, FactNames DEF Means
<1>12. \A f : SetBy(k, f)' <=> D.calls[c].does = "change" /\ f \in DOMAIN Request(c)
  BY <1>7, <1>8, <1>10 DEF SetBy
<1>13. ASSUME NEW f \in Ordinary, D.calls[c].does = "change", f \in SentBy(c)
       PROVE  f \in DOMAIN Request(c) /\ asked'[f] = Request(c)[f]
  <2>1. c \in Changes(D, f) /\ f \in Columns /\ f \in Facts
    BY <1>9, <1>13, FactNames DEF Changes, SentBy, Calls
  <2>2. D.calls[c].sends[f] \in {"typed", "flipped", "on", "off"}
    BY <2>1, KeptRules
  <2>3. ~LeftOut(c, f)
    BY <2>2 DEF LeftOut
  <2>4. f \in DOMAIN Request(c) /\ Request(c)[f] = Value(c, f)
    BY <1>13, <2>3 DEF Request
  <2>5. Means(c, f)
    BY <1>13, <2>2, <2>3 DEF Means
  <2> QED
    BY <2>1, <2>4, <2>5
<1>14. ASSUME NEW f \in Ordinary, ~SetBy(k, f)' PROVE asked'[f] \in {asked[f], Free}
  <2>1. f \in Facts
    BY KeptRules
  <2>2. ~Means(c, f)
    BY <1>12, <1>13, <1>14 DEF Means
  <2> QED
    BY <2>1, <2>2
<1>15. ASSUME NEW f \in Ordinary, SetBy(k, f)', NEW j \in CallIds, j # k, SetBy(j, f) PROVE FALSE
  <2>1. c \in Changes(D, f)
    BY <1>9, <1>12, <1>15 DEF Changes, SentBy, Calls
  <2>2. calls[j].name \in Changes(D, f) /\ j \in Unanswered
    BY <1>15, CallInFlight DEF SetBy, CopyInv, CallsCarry, Changes, CallOf, Calls, SentBy, Unanswered
  <2>3. Apart(D, calls[j].name, c)
    BY <2>1, <2>2, KeptRules
  <2>4. LocksInv'
    BY PressLocks
  <2>5. j \in Unanswered' /\ k \in Unanswered'
    BY <1>3, <1>8, <1>15, <2>2 DEF Unanswered, CallIds
  <2>6. ~Apart(D', calls'[j].name, calls'[k].name)
    BY <1>15, <2>4, <2>5 DEF LocksInv
  <2> QED
    BY <1>5, <1>6, <1>7, <1>15, <2>3, <2>6
<1>16. \A f \in Ordinary : SetBy(k, f)' => asked'[f] = Request(c)[f] /\ \A j \in CallIds : j # k => ~SetBy(j, f)
  BY <1>9, <1>12, <1>13, <1>15
<1> QED
  BY <1>1, <1>4, <1>5, <1>6, <1>7, <1>10, <1>11, <1>14, <1>16

\* What a press does to the copy: nothing, or the patch of a row that is there.
LEMMA PressedCopy ==
  ASSUME DeskInv, KeptDesk, NEW c \in Calls, Press(c)
  PROVE  /\ late \subseteq late'
         /\ (Copy'["here"] = 1 <=> Copy["here"] = 1) /\ Copy'["here"] = Copy["here"]
         /\ Copy # NotLoaded => Copy' # NotLoaded
         /\ \/ D.calls[c].patches # "before" /\ Copy' = Copy /\ late' = late
            \/ /\ D.calls[c].patches = "before" /\ D.calls[c].does = "change"
               /\ D.rows \notin late' => reads = {}
               /\ \A f \in Facts : Copy'[f] = IF f \in DOMAIN Request(c) THEN Request(c)[f] ELSE Copy[f]
<1> USE DEF Press
<1>1. D' = D /\ PatchesWell(D, c)
  BY KeptRules DEF D
<1>2. CASE D.calls[c].patches # "before"
  <2>1. Copy' = Copy /\ late' = late
    BY <1>1, <1>2 DEF Copy
  <2> QED
    BY <1>2, <2>1
<1>3. CASE D.calls[c].patches = "before"
  <2>1. D.calls[c].does = "change" /\ D.buttons[c].in = "list"
    BY <1>1, <1>3 DEF PatchesWell, Place
  <2>2. D.calls[c].opens = {} /\ Offered(c)
    BY <1>1, <2>1 DEF PatchesWell
  <2>3. Copy["here"] = 1
    BY <2>1, <2>2 DEF Offered, Displayed, Copy
  <2>4. Copy' = Patched(c, Request(c))[D.rows] /\ late' = late \cup {r.list : r \in reads}
    BY <1>1, <1>3 DEF Copy
  <2>5. \A f \in Facts : Copy'[f] = IF f \in DOMAIN Request(c) THEN Request(c)[f] ELSE Copy[f]
    BY <2>1, <2>3, <2>4, PatchedCopy
  <2>6. "here" \notin DOMAIN Request(c)
    BY DeskRules, FactNames DEF WellMade, SentBy, Calls, Request
  <2>7. Copy'["here"] = 1 /\ Copy' # NotLoaded
    BY <2>3, <2>5, <2>6, FactNames DEF NotLoaded, Free
  <2>8. D.rows \notin late' => reads = {}
    <3>1. \A r \in reads : r.list = D.rows
      BY KeptRules, InParts DEF ScreenOK, ReadOK
    <3> QED
      BY <2>4, <3>1
  <2> QED
    BY <1>3, <2>1, <2>3, <2>4, <2>5, <2>7, <2>8
<1> QED
  BY <1>2, <1>3

\* While a row is being made, no button about a row is pressed.
LEMMA MadeUndisturbed ==
  ASSUME DeskInv, KeptDesk, LocksInv, CopyInv, NEW c \in Calls, Press(c),
         NEW k \in CallIds, Made(k), D.rows \notin late
  PROVE  ~OfRow(c)
<1> SUFFICES ASSUME OfRow(c) PROVE FALSE
  OBVIOUS
<1>1. Copy["here"] = 1 \/ EditorOpen
  BY PressedWhereRowIs
<1>2. ~CallOf(k).loaded
  BY <1>1 DEF CopyInv, MadeAlone
<1>3. calls[k] # NoCall /\ calls[k].name \in Calls /\ CallOf(k).does = "create"
  BY CallInFlight DEF Made
<1>4. Apart(D, calls[k].name, c)
  BY <1>2, <1>3, KeptRules DEF PatchesWell, CallOf, Calls
<1>5. PICK i : i = pressed + 1
  OBVIOUS
<1>6. i \in CallIds
  BY <1>5, InParts, BoundsAssumption DEF RequestsOK, CallIds, Press
<1>7. /\ D' = D /\ calls[i] = NoCall /\ calls'[i] = [name |-> c, phase |-> "sent", sent |-> Request(c)]
      /\ \A j \in CallIds : j # i => calls'[j] = calls[j]
  BY <1>5, <1>6, Pressed
<1>8. calls'[i] # NoCall /\ calls'[i].name = c
  BY <1>7 DEF NoCall
<1>9. k # i /\ k \in Unanswered' /\ i \in Unanswered' /\ calls'[k] = calls[k]
  BY <1>3, <1>6, <1>7, <1>8 DEF Unanswered, CallIds
<1>10. ~Apart(D', calls'[k].name, calls'[i].name)
  BY <1>9, PressLocks DEF LocksInv
<1> QED
  BY <1>4, <1>7, <1>8, <1>9, <1>10

\* A button is pressed.
LEMMA PressCopy ==
  ASSUME DeskInv, KeptDesk, LocksInv, CopyInv, NEW c \in Calls, Press(c)
  PROVE  CopyInv'
<1>0. PICK k : k = pressed + 1
  OBVIOUS
<1>1. k \in CallIds
  BY <1>0, InParts, BoundsAssumption DEF RequestsOK, CallIds, Press
<1>2. /\ UNCHANGED <<row, gone, reads>>
      /\ D' = D /\ Ordinary' = Ordinary /\ Existed' = Existed /\ \A b : SentBy(b)' = SentBy(b)
      /\ EditorOpen' => EditorOpen
  BY <1>0, <1>1, Pressed
<1>3. \A j \in CallIds : j # k =>
        /\ RowCall(j)' = RowCall(j) /\ Made(j)' = Made(j) /\ CallOf(j)' = CallOf(j) /\ calls'[j] = calls[j]
        /\ \A f : SetBy(j, f)' = SetBy(j, f)
  BY <1>0, <1>1, Pressed
<1>4. /\ calls[k] = NoCall
      /\ calls'[k] = [name |-> c, phase |-> "sent", sent |-> Request(c)]
      /\ CallOf(k)' = D.calls[c] /\ ~Made(k)' /\ (RowCall(k)' <=> OfRow(c))
  BY <1>0, <1>1, Pressed
<1>5. /\ calls'[k].name = c /\ calls'[k].phase = "sent" /\ calls'[k].sent = Request(c)
      /\ calls[k].phase = "none" /\ ~RowCall(k) /\ ~Made(k) /\ \A f : ~SetBy(k, f)
  BY <1>4 DEF NoCall, RowCall, Made, SetBy
<1>6. asked'["here"] = asked["here"]
  BY <1>0, <1>1, Pressed
<1>7. \A f \in Ordinary : ~SetBy(k, f)' => asked'[f] \in {asked[f], Free}
  BY <1>0, <1>1, Pressed
<1>8. \A f \in Ordinary : SetBy(k, f)' =>
        asked'[f] = Request(c)[f] /\ \A j \in CallIds : j # k => ~SetBy(j, f)
  BY <1>0, <1>1, Pressed
<1>9. /\ late \subseteq late' /\ Copy'["here"] = Copy["here"]
      /\ Copy # NotLoaded => Copy' # NotLoaded
  BY PressedCopy
<1>10. \/ D.calls[c].patches # "before" /\ Copy' = Copy /\ late' = late
       \/ /\ D.calls[c].patches = "before" /\ D.calls[c].does = "change"
          /\ D.rows \notin late' => reads = {}
          /\ \A f \in Facts : Copy'[f] = IF f \in DOMAIN Request(c) THEN Request(c)[f] ELSE Copy[f]
  BY PressedCopy
<1>11. OfRow(c) => Copy["here"] = 1 \/ EditorOpen
  BY PressedWhereRowIs
<1>12. PatchesWell(D, c) /\ Offered(c) /\ Ordinary \subseteq Facts
  BY KeptRules DEF Press
<1>13. RowAbout' => RowAbout \/ Copy["here"] = 1
  BY <1>2, <1>3, <1>4, <1>11 DEF RowAbout
<1>14. RowExisted'
  BY <1>2, <1>3, <1>4, <1>9, <1>13 DEF CopyInv, RowExisted
<1>15. LoadedOnce'
  <2>1. \A r, s \in reads' : r = s
    BY <1>2 DEF CopyInv, LoadedOnce
  <2>2. D.rows \notin late' /\ Copy' # NotLoaded => reads = {}
    BY <1>10 DEF CopyInv, LoadedOnce
  <2> QED
    BY <1>2, <2>1, <2>2 DEF LoadedOnce
<1>16. RowSeen'
  BY <1>2, <1>9, <1>13 DEF CopyInv, RowSeen
<1>17. CallsCarry'
  <2>1. DOMAIN Request(c) \subseteq SentBy(c)
    BY DEF Request
  <2>2. D.calls[c].does = "create" /\ D.calls[c].loaded => Copy # NotLoaded
    BY <1>12, KeptRules DEF Offered, Copy
  <2>3. ASSUME NEW j \in CallIds
        PROVE  /\ calls'[j].phase = "done" /\ CallOf(j)'.does = "delete" => gone'
               /\ calls'[j] # NoCall /\ CallOf(j)'.does = "change" => DOMAIN calls'[j].sent \subseteq SentBy(calls[j].name)'
               /\ Made(j)' => calls'[j].sent = NewRow
               /\ calls'[j] # NoCall /\ CallOf(j)'.does = "create" /\ CallOf(j)'.loaded => Copy' # NotLoaded
    <3>1. CASE j # k
      BY <1>2, <1>3, <1>9, <3>1 DEF CopyInv, CallsCarry
    <3>2. CASE j = k
      BY <1>2, <1>4, <1>5, <1>9, <2>1, <2>2, <3>2
    <3> QED
      BY <3>1, <3>2
  <2> QED
    BY <2>3 DEF CallsCarry
<1>18. MadeAlone'
  <2> SUFFICES ASSUME NEW i \in CallIds, Made(i)'
               PROVE  /\ \A j \in CallIds : Made(j)' => j = i
                      /\ D.rows \notin late' =>
                           /\ asked'["here"] \in {1, Free} /\ \A f \in Ordinary : asked'[f] = Free
                           /\ \A j \in CallIds : ~RowCall(j)'
                           /\ CallOf(i)'.loaded => Copy'["here"] # 1 /\ ~EditorOpen'
    BY <1>2 DEF MadeAlone
  <2>1. i # k /\ Made(i) /\ CallOf(i)' = CallOf(i)
    BY <1>3, <1>4
  <2>2. \A j \in CallIds : Made(j)' => j = i
    BY <1>3, <1>4, <2>1 DEF CopyInv, MadeAlone
  <2>3. ASSUME D.rows \notin late'
        PROVE  /\ asked'["here"] \in {1, Free} /\ \A f \in Ordinary : asked'[f] = Free
               /\ \A j \in CallIds : ~RowCall(j)'
               /\ CallOf(i)'.loaded => Copy'["here"] # 1 /\ ~EditorOpen'
    <3>1. D.rows \notin late
      BY <1>9, <2>3
    <3>2. ~OfRow(c)
      BY <2>1, <3>1, MadeUndisturbed
    <3>3. \A f : ~SetBy(k, f)'
      BY <1>4, <3>2 DEF SetBy, OfRow
    <3> QED
      BY <1>2, <1>3, <1>4, <1>6, <1>7, <1>9, <2>1, <3>1, <3>2, <3>3 DEF CopyInv, MadeAlone
  <2> QED
    BY <2>2, <2>3
<1>19. NothingAskedOfGone'
  <2> SUFFICES ASSUME gone, NEW f \in Ordinary
               PROVE  asked'[f] = Free \/ \E j \in CallIds : SetBy(j, f)' /\ calls'[j].phase = "sent"
    BY <1>2 DEF NothingAskedOfGone
  <2>1. CASE SetBy(k, f)'
    BY <1>1, <1>5, <2>1
  <2>2. CASE ~SetBy(k, f)'
    <3>1. asked'[f] = Free \/ asked'[f] = asked[f]
      BY <1>7, <2>2
    <3>2. asked[f] = Free \/ \E j \in CallIds : SetBy(j, f) /\ calls[j].phase = "sent"
      BY DEF CopyInv, NothingAskedOfGone
    <3> QED
      BY <1>3, <1>5, <3>1, <3>2
  <2> QED
    BY <2>1, <2>2
<1>20. CallsCarryAsked'
  <2> SUFFICES ASSUME NEW j \in CallIds, NEW f \in Ordinary, SetBy(j, f)'
               PROVE  asked'[f] \in {calls'[j].sent[f], Free}
    BY <1>2 DEF CallsCarryAsked
  <2>1. CASE j = k
    BY <1>5, <1>8, <2>1
  <2>2. CASE j # k
    <3>1. SetBy(j, f) /\ ~SetBy(k, f)' /\ calls'[j] = calls[j]
      BY <1>3, <1>8, <2>2
    <3> QED
      BY <1>7, <3>1 DEF CopyInv, CallsCarryAsked
  <2> QED
    BY <2>1, <2>2
<1>21. \A j \in CallIds : \A f : Owed(j, f) => Owed(j, f)'
  BY <1>2, <1>3, <1>5 DEF Owed
<1>22. ColumnsShown'
  <2> SUFFICES ASSUME D.rows \notin late', NEW f \in Ordinary
               PROVE  asked'[f] = Free \/ CopyShows(f)' \/ \E j \in CallIds : Owed(j, f)'
    BY <1>2 DEF ColumnsShown
  <2>1. D.rows \notin late /\ f \in Facts
    BY <1>9, <1>12
  <2>2. CASE SetBy(k, f)'
    <3>1. D.calls[c].does = "change" /\ f \in DOMAIN Request(c) /\ asked'[f] = Request(c)[f]
      BY <1>4, <1>5, <1>8, <2>2 DEF SetBy
    <3>2. CASE D.calls[c].patches = "before"
      BY <1>2, <1>10, <2>1, <3>1, <3>2 DEF CopyShows
    <3>3. CASE D.calls[c].patches # "before"
      <4>1. D.calls[c].patches = "after"
        BY <1>12, <3>1, <3>3 DEF PatchesWell
      <4> QED
        BY <1>1, <1>4, <2>2, <4>1 DEF Owed
    <3> QED
      BY <3>2, <3>3
  <2>3. CASE ~SetBy(k, f)'
    <3>1. asked'[f] = Free \/ asked'[f] = asked[f]
      BY <1>7, <2>3
    <3>2. asked[f] = Free \/ CopyShows(f) \/ \E j \in CallIds : Owed(j, f)
      BY <2>1 DEF CopyInv, ColumnsShown
    <3>3. Copy'[f] = Copy[f]
      <4>1. calls'[k] # NoCall
        BY <1>4 DEF NoCall
      <4>2. ~(D.calls[c].does = "change" /\ f \in DOMAIN Request(c))
        BY <1>4, <1>5, <2>3, <4>1 DEF SetBy
      <4> QED
        BY <1>10, <2>1, <4>2
    <3>4. CopyShows(f) /\ asked'[f] = asked[f] => CopyShows(f)'
      BY <1>2, <3>3 DEF CopyShows
    <3> QED
      BY <1>21, <3>1, <3>2, <3>4
  <2> QED
    BY <2>2, <2>3
<1>23. RowShown'
  <2>1. CopyShows("here") => CopyShows("here")'
    BY <1>2, <1>6, <1>9 DEF CopyShows
  <2>2. \A j \in CallIds : Made(j) => Made(j)'
    BY <1>3, <1>5
  <2>3. \A j \in CallIds : calls[j].phase = "done" => calls'[j].phase = "done" /\ CallOf(j)' = CallOf(j)
    BY <1>3, <1>5
  <2>4. D.rows \notin late' => D.rows \notin late
    BY <1>9
  <2> QED
    BY <1>2, <1>6, <2>1, <2>2, <2>3, <2>4 DEF CopyInv, RowShown
<1> QED
  BY <1>14, <1>15, <1>16, <1>17, <1>18, <1>19, <1>20, <1>22, <1>23 DEF CopyInv

\* A desk that was just opened.
LEMMA CopyStart == Init /\ KeptDesk => CopyInv
<1> SUFFICES ASSUME Init, KeptDesk PROVE CopyInv
  OBVIOUS
<1>1. D.rows \in Lists /\ DeskInv
  BY DeskStart, KeptRules
<1>2. Copy = NotLoaded
  BY <1>1 DEF Init, Copy
<1>3. NotLoaded["here"] # 1 /\ \A l : Load(l, 1).answer["here"] # 1
  BY FactNames DEF NotLoaded, Unread, Free, Load
<1>4. \A r \in reads : r = Load(D.rows, 1) /\ r.answer["here"] # 1
  BY <1>1, <1>3, KeptRules DEF Init
<1>5. \A k \in CallIds : calls[k] = NoCall /\ calls[k].phase = "none"
  BY DEF Init, NoCall
<1>6. ~EditorOpen
  BY DEF Init, EditorOpen, Editing, Panels
<1>7. \A k \in CallIds : ~RowCall(k) /\ ~Made(k) /\ \A f : ~SetBy(k, f)
  BY <1>5 DEF RowCall, Made, SetBy
<1>8. \A f \in Facts : asked[f] = Free
  BY DEF Init
<1>9. \A f \in Ordinary : asked[f] = Free
  BY <1>1, <1>8, KeptRules
<1>10. RowExisted /\ LoadedOnce /\ RowSeen
  BY <1>2, <1>3, <1>4, <1>6, <1>7 DEF RowExisted, LoadedOnce, RowSeen, RowAbout
<1>11. CallsCarry /\ MadeAlone
  BY <1>5, <1>7 DEF CallsCarry, MadeAlone
<1>12. NothingAskedOfGone /\ CallsCarryAsked /\ ColumnsShown
  BY <1>7, <1>9 DEF NothingAskedOfGone, CallsCarryAsked, ColumnsShown
<1>13. RowShown
  BY <1>8, FactNames DEF RowShown
<1> QED
  BY <1>10, <1>11, <1>12, <1>13 DEF CopyInv

\* Every step keeps the copy.
LEMMA CopyStep ==
  ASSUME DeskInv, KeptDesk, ReadsCounted, LocksInv, ValuesInv, CopyInv, [Next]_vars
  PROVE  CopyInv'
<1>1. ASSUME UNCHANGED <<desk, row, gone, shown, reads, late, asked, calls>>, open' \subseteq open PROVE CopyInv'
  <2>1. EditorOpen' => EditorOpen
    BY <1>1, SameDesk DEF EditorOpen
  <2> QED
    BY <1>1, <2>1, CopyStays
<1>2. CASE Progress
  BY <1>2, AnswerCopy, InstallCopy, LoseReadCopy, ServeCopy, SucceedCopy, FailCopy DEF Progress
<1>3. ASSUME NEW l \in Lists, Refocus(l) PROVE FALSE
  BY <1>3, KeptRules DEF Refocus
<1>4. ~Turn
  BY KeptRules DEF Turn
<1>5. ASSUME NEW p \in Panels, Cancel(p) PROVE CopyInv'
  BY <1>1, <1>5 DEF Cancel, backend, screen, requests
<1>6. ASSUME NEW p \in Panels, NEW f \in Columns, Type(p, f) PROVE CopyInv'
  BY <1>1, <1>6 DEF Type, backend, screen, requests
<1>7. ASSUME NEW c \in Calls, Refuse(c) PROVE CopyInv'
  BY <1>1, <1>7 DEF Refuse, backend, screen, requests
<1>8. CASE Person
  BY <1>3, <1>4, <1>5, <1>6, <1>7, <1>8, OpenPanelCopy, PressCopy, ElsewhereCopy DEF Person
<1>9. CASE UNCHANGED vars
  BY <1>1, <1>9 DEF vars, backend, screen, panels, requests
<1> QED
  BY <1>2, <1>8, <1>9 DEF Next

\* The desks whose calls only change columns of the tables of exceptions ask for nothing else.
NothingAsked == asked["here"] = Free /\ \A f \in Ordinary : asked[f] = Free

LEMMA NothingAskedStep ==
  ASSUME DeskInv, OnlyExceptions(desk.name, D), NothingAsked, [Next]_vars
  PROVE  NothingAsked'
<1>1. desk' = desk
  BY DEF Next, Progress, Person, Answer, Install, LoseRead, Serve, Succeed, Fail, Refocus, Turn,
         OpenPanel, Cancel, Type, Press, Refuse, Elsewhere, vars
<1>2. Ordinary \subseteq Facts /\ "here" \in Facts /\ Ordinary' = Ordinary
  BY <1>1, SameDesk, FactNames DEF Ordinary
<1>3. ASSUME NEW c \in Calls, Press(c)
      PROVE  asked'["here"] \in {asked["here"], Free} /\ \A f \in Ordinary : asked'[f] \in {asked[f], Free}
  <2>1. SentBy(c) \subseteq Columns /\ (D.calls[c].does = "change" => SentBy(c) \subseteq Excepted)
    BY DeskRules DEF WellMade, OnlyExceptions, SentBy, Calls, Excepted, Known
  <2>2. "here" \notin Columns /\ \A f \in Ordinary : ~Means(c, f)
    BY <2>1, FactNames DEF Means, Ordinary
  <2> QED
    BY <1>2, <1>3, <2>1, <2>2 DEF Press
<1>4. ASSUME NEW k \in CallIds, Serve(k) PROVE asked' = asked
  <2>1. CallOf(k).does \notin {"create", "delete"}
    BY <1>4, CallInFlight DEF Serve, OnlyExceptions, CallOf, Calls
  <2> QED
    BY <1>4, <2>1 DEF Serve, ServeCreate, ServeChange, ServeDelete, ServeOther
<1>5. ASSUME NEW k \in CallIds, Fail(k) PROVE \A f \in Facts : asked'[f] \in {asked[f], Free}
  BY <1>5 DEF Fail
<1>6. ASSUME NEW e \in Facts, Elsewhere(e) PROVE \A f \in Facts : asked'[f] \in {asked[f], Free}
  <2>1. asked \in [Facts -> Bit \cup {Free}]
    BY InParts DEF BackendOK
  <2> QED
    BY <1>6, <2>1 DEF Elsewhere
<1>7. asked'["here"] \in {asked["here"], Free} /\ \A f \in Ordinary : asked'[f] \in {asked[f], Free}
  BY <1>2, <1>3, <1>4, <1>5, <1>6
     DEF Next, Progress, Person, Answer, Install, LoseRead, Succeed, Refocus, Turn,
         OpenPanel, Cancel, Type, Refuse, vars, requests
<1> QED
  BY <1>2, <1>7 DEF NothingAsked

\* A list that waits for nothing shows what this person changed: each change reloads the
\* lists of its page, and no answer that is older than the change comes after the reload
\* (`onSuccess: invalidateQueries`), or it patches the page's own copy (`setRows(prev =>
\* prev.map(...))`), which a load from before the change no longer overwrites.
THEOREM OwnWritesAreShown == Spec => []OwnWritesShown
<1> DEFINE Inv == /\ DeskInv /\ ReadsCounted /\ LocksInv /\ ValuesInv /\ AddedInv
                  /\ ~Patching(D) => ShownInv
                  /\ KeptDesk => CopyInv
                  /\ OnlyExceptions(desk.name, D) => NothingAsked
<1>1. Init => Inv
  <2> SUFFICES ASSUME Init PROVE Inv
    OBVIOUS
  <2>1. \A f \in Facts : asked[f] = Free
    BY DEF Init
  <2>2. AddedInv /\ ShownInv /\ NothingAsked
    BY <2>1, FactNames DEF AddedInv, ShownInv, NothingAsked, Ordinary
  <2> QED
    BY <2>2, DeskStart, LocksStart, ValuesStart, CopyStart
<1>2. Inv /\ [Next]_vars => Inv'
  <2> SUFFICES ASSUME Inv, [Next]_vars PROVE Inv'
    OBVIOUS
  <2>1. DeskInv' /\ ReadsCounted' /\ LocksInv' /\ ValuesInv' /\ AddedInv'
    BY DeskStep, LocksStep, ValuesStep, AddedStep
  <2>2. desk' = desk
    BY DEF Next, Progress, Person, Answer, Install, LoseRead, Serve, Succeed, Fail, Refocus, Turn,
           OpenPanel, Cancel, Type, Press, Refuse, Elsewhere, vars
  <2>3. ~Patching(D)' => ShownInv'
    BY <2>2, ShownStep DEF D, Patching
  <2>4. KeptDesk' => CopyInv'
    BY <2>2, SameDesk, CopyStep
  <2>5. OnlyExceptions(desk.name, D)' => NothingAsked'
    BY <2>2, NothingAskedStep DEF D, OnlyExceptions
  <2> QED
    BY <2>1, <2>3, <2>4, <2>5
<1>3. Inv => OwnWritesShown
  <2> SUFFICES ASSUME Inv, Quiet, ~left,
                      NEW l \in Lists \ (late \cup Known(Unrefreshed)), NEW f \in Facts \ Excepted,
                      ReadsOf(l) = {}, shown[l] # NotLoaded, asked[f] # Free
               PROVE  shown[l][f] = asked[f]
    BY DEF OwnWritesShown
  <2>1. \A k \in CallIds : calls[k] = NoCall /\ calls[k].phase = "none"
    BY DEF Quiet, NoCall
  <2>2. f \in Ordinary \/ f = "here"
    BY DEF Ordinary, Facts
  <2>3. CASE ~Patching(D)
    <3>1. Untouched(f)
      BY <2>1 DEF Untouched, Touches
    <3> QED
      BY <2>3, <3>1 DEF ShownInv, Judged, UpToDate
  <2>4. CASE KeptDesk
    <3>1. l = D.rows /\ CopyInv
      BY <2>4, KeptRules
    <3>2. \A k \in CallIds : ~Made(k) /\ \A g : ~Owed(k, g)
      BY <2>1 DEF Made, Owed, SetBy
    <3>3. CopyShows(f)
      <4>1. CASE f \in Ordinary
        BY <3>1, <3>2, <4>1 DEF CopyInv, ColumnsShown
      <4>2. CASE f = "here"
        BY <2>1, <3>1, <3>2, <4>2 DEF CopyInv, RowShown
      <4> QED
        BY <2>2, <4>1, <4>2
    <3> QED
      BY <3>1, <3>3 DEF CopyShows, Copy
  <2>5. CASE OnlyExceptions(desk.name, D)
    BY <2>2, <2>5 DEF NothingAsked
  <2>6. ~Patching(D) \/ KeptDesk \/ OnlyExceptions(desk.name, D)
    BY CopyAssumption DEF DeskInv, DeskTypeOK, KeptDesk, D
  <2> QED
    BY <2>3, <2>4, <2>5, <2>6
<1> QED
  BY <1>1, <1>2, <1>3, PTL DEF Spec
----------------------------------------------------------------------------
\* What is pending waits for an answer.
PendingIsAwaited ==
  ~left => \A v \in busy : \E k \in CallIds : calls[k] # NoCall /\ Via(calls[k].name) = v

\* It stays so while the same calls are in flight.
LEMMA PendingStays ==
  ASSUME PendingIsAwaited, desk' = desk, left' = left, busy' = busy,
         \A k \in CallIds : /\ calls'[k] # NoCall <=> calls[k] # NoCall
                            /\ calls[k] # NoCall => calls'[k].name = calls[k].name
  PROVE  PendingIsAwaited'
BY DEF PendingIsAwaited, Via, D, CallIds

\* A press adds the call that its mutation waits for.
LEMMA PressPending ==
  ASSUME DeskInv, PendingIsAwaited, NEW c \in Calls, Press(c)
  PROVE  PendingIsAwaited'
<1>1. PICK k0 : k0 = pressed + 1
  OBVIOUS
<1>2. calls = [k \in CallIds |-> calls[k]] /\ k0 \in CallIds
  BY <1>1, InParts, BoundsAssumption DEF RequestsOK, CallIds, Press
<1>3. \A k \in CallIds : calls'[k] = IF k = k0 THEN [name |-> c, phase |-> "sent", sent |-> Request(c)] ELSE calls[k]
  BY <1>1, <1>2 DEF Press
<1>4. calls'[k0].name = c /\ calls'[k0] # NoCall
  BY <1>2, <1>3 DEF NoCall
<1>5. ~left /\ ~left' /\ busy' = busy \cup {Via(c)} /\ desk' = desk
  BY DEF Press
<1>6. ASSUME NEW v \in busy'
      PROVE  \E k \in CallIds : calls'[k] # NoCall /\ Via(calls'[k].name) = v
  <2>1. CASE v = Via(c)
    BY <1>2, <1>4, <2>1
  <2>2. CASE v # Via(c)
    <3>1. PICK k \in CallIds : calls[k] # NoCall /\ Via(calls[k].name) = v
      BY <1>5, <1>6, <2>2 DEF PendingIsAwaited
    <3>2. CASE k = k0
      <4>1. ~(k0 <= pressed)
        BY <1>1, InParts, BoundsAssumption DEF RequestsOK
      <4> QED
        BY <3>1, <3>2, <4>1 DEF DeskInv, CallsOK
    <3>3. CASE k # k0
      BY <1>3, <3>1, <3>3
    <3> QED
      BY <3>2, <3>3
  <2> QED
    BY <2>1, <2>2
<1> QED
  BY <1>5, <1>6 DEF PendingIsAwaited, Via, D, CallIds

\* An answer ends the waiting for its own call, unless a later call of the mutation goes on.
LEMMA AnswerPending ==
  ASSUME DeskInv, PendingIsAwaited, NEW k \in CallIds, calls[k].phase # "none", Answered(k), desk' = desk,
         ~left, NEW how \in {"ok", "failed"}, busy' = Freed(k, how),
         how = "ok" => left' = CallOf(k).leaves
  PROVE  PendingIsAwaited'
<1>1. calls[k].name \in Calls
  BY CallInFlight
<1>2. \A j \in CallIds : calls'[j] = IF j = k THEN NoCall ELSE calls[j]
  BY InParts DEF RequestsOK, Answered
<1>3. ASSUME NEW v \in busy', ~left'
      PROVE  \E j \in CallIds : calls'[j] # NoCall /\ Via(calls'[j].name) = v
  <2>1. PICK i \in CallIds : calls[i] # NoCall /\ Via(calls[i].name) = v
    BY <1>3 DEF PendingIsAwaited, Freed
  <2>2. CASE i # k
    BY <1>2, <2>1, <2>2
  <2>3. CASE i = k
    <3>1. how \in CallOf(k).frees
      BY <1>1, <1>3, DeskRules DEF ButtonsFreed, CallOf, Calls
    <3>2. Overtaken(k)
      BY <1>3, <2>1, <2>3, <3>1 DEF Freed
    <3>3. PICK j \in k + 1 .. MaxPresses : calls[j] # NoCall /\ Via(calls[j].name) = Via(calls[k].name)
      BY <3>2 DEF Overtaken
    <3>4. j \in CallIds /\ j # k
      BY BoundsAssumption DEF CallIds
    <3> QED
      BY <1>2, <2>1, <2>3, <3>3, <3>4
  <2> QED
    BY <2>2, <2>3
<1> QED
  BY <1>3 DEF PendingIsAwaited, Via, D, CallIds

\* No button stays disabled for an answer that was given: whatever counts as pending has a
\* call in flight, also after failures and with several calls of one mutation.  It is the
\* safety half of ControlsComeBack.
THEOREM NothingPendsInVain == Spec => []PendingIsAwaited
<1>1. Init => DeskInv /\ ReadsCounted /\ PendingIsAwaited
  <2>1. Init => busy = {}
    BY DEF Init
  <2> QED
    BY <2>1, DeskStart DEF PendingIsAwaited
<1>2. ASSUME DeskInv, ReadsCounted, PendingIsAwaited, [Next]_vars PROVE PendingIsAwaited'
  <2>1. ASSUME UNCHANGED <<desk, left, requests>> PROVE PendingIsAwaited'
    BY <1>2, <2>1, PendingStays DEF requests
  <2>2. ASSUME NEW k \in CallIds, Serve(k) PROVE PendingIsAwaited'
    <3>1. Unanswered' = Unanswered /\ \A j \in CallIds : calls'[j].name = calls[j].name
      BY <1>2, <2>2, ServedInFlight
    <3> QED
      BY <1>2, <2>2, <3>1, PendingStays DEF Serve, Unanswered, CallIds
  <2>3. ASSUME NEW k \in CallIds, Succeed(k) PROVE PendingIsAwaited'
    BY <1>2, <2>3, AnswerPending DEF Succeed
  <2>4. ASSUME NEW k \in CallIds, Fail(k) PROVE PendingIsAwaited'
    BY <1>2, <2>4, AnswerPending DEF Fail
  <2>5. ASSUME NEW f \in Facts, Elsewhere(f) PROVE PendingIsAwaited'
    BY <1>2, <2>5, PendingStays DEF Elsewhere
  <2>6. CASE Progress
    BY <2>1, <2>2, <2>3, <2>4, <2>6 DEF Progress, Answer, Install, LoseRead
  <2>7. CASE Person
    <3>1. ASSUME NEW c \in Calls, Press(c) PROVE PendingIsAwaited'
      BY <1>2, <3>1, PressPending
    <3> QED
      BY <2>1, <2>5, <2>7, <3>1 DEF Person, Refocus, Turn, OpenPanel, Cancel, Type, Refuse
  <2>8. CASE UNCHANGED vars
    BY <2>1, <2>8 DEF vars
  <2> QED
    BY <1>2, <2>6, <2>7, <2>8 DEF Next
<1> QED
  BY <1>1, <1>2, DeskStep, PTL DEF Spec
==============================================================================
