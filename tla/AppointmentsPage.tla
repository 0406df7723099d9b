--------------------------- MODULE AppointmentsPage ---------------------------
(***************************************************************************)
(* The page on which a customer moves or cancels an appointment            *)
(* (app/account/appointments/page.tsx): a list, a panel that asks for the  *)
(* details of one appointment and then for free times, and a dialog.       *)
(***************************************************************************)
EXTENDS Naturals, Sequences, FiniteSets, LoadedList, SequencesExt

CONSTANTS Appts, MoveDays,
          MaxPanels,     \* how many details may be asked for together
          MaxMoves       \* how often the customer opens, changes or picks something

ASSUME AppointmentsAssumption == MoveDays # {} /\ MaxPanels \in Nat /\ MaxMoves \in Nat

Tomorrow == CHOOSE d \in MoveDays : TRUE

VARIABLES
  alive,             \* the backend's appointments that can still be moved
  listed,            \* those among them that the page knows of
  loading, loads,    \* the list is loaded, and for whom: "page", "move" or "cancel"
  loadError,
  rescheduleId, rescheduleDetail, rescheduleDate,
  detailLoading, detailError,
  details,           \* the appointments whose details are asked for, the oldest first
  rescheduleSlots,   \* asks: [appt, day, opens]; opens: the panel waits for it
  moving,            \* the move under way, with what was on display at the press
  cancelId, cancelling,
  moves,
  moved              \* history: an appointment got a time that was not offered for it

panel == <<rescheduleId, rescheduleDetail, rescheduleDate, detailLoading, detailError, details, rescheduleSlots>>
list == <<listed, loading, loads, loadError>>
dialog == <<cancelId, cancelling>>
apptVars == <<alive, list, panel, moving, dialog, moves, moved>>

NotMoving == [phase |-> "no", appt |-> Nothing, detail |-> Nothing, day |-> Tomorrow, asOffered |-> TRUE]
Shown(a) == ~loading /\ ~loadError /\ a \in listed
Act == moves < MaxMoves /\ moves' = moves + 1
For(a, d) == [appt |-> a, day |-> d, opens |-> FALSE]
Room == Len(details) + Len(rescheduleSlots.asks) < MaxPanels
----------------------------------------------------------------------------
\* Try again.
reloadAppointments ==
  /\ ~loading /\ loadError /\ "page" \notin loads
  /\ loading' = TRUE /\ loadError' = FALSE /\ loads' = loads \cup {"page"}
  /\ UNCHANGED <<alive, listed, panel, moving, dialog, moves, moved>>

\* The first answer ends the wait of all.  A move or a cancellation ends with its own load.
AppointmentsLoaded(l) ==
  /\ l \in loads
  /\ loads' = loads \ {l} /\ loading' = FALSE
  /\ \/ listed' = alive /\ UNCHANGED loadError
     \/ listed' = {} /\ loadError' = TRUE
  /\ moving' = IF l = "move" THEN NotMoving ELSE moving
  /\ cancelling' = IF l = "cancel" THEN Nothing ELSE cancelling
  /\ UNCHANGED <<alive, panel, cancelId, moves, moved>>

\* The row's button opens the panel, or asks again in a panel with an error.
openReschedule(a) ==
  /\ Shown(a) /\ (rescheduleId # a \/ (detailError /\ ~detailLoading)) /\ Act /\ Room
  /\ rescheduleId' = a /\ rescheduleDetail' = Nothing /\ rescheduleDate' = Tomorrow
  /\ detailLoading' = TRUE /\ detailError' = FALSE
  /\ details' = Append(details, a)
  /\ rescheduleSlots' = [Cleared(rescheduleSlots) EXCEPT !.failed = FALSE, !.last = Nothing]
  /\ UNCHANGED <<alive, list, moving, dialog, moved>>

\* The details of whichever appointment are put on display, and the free times of their
\* provider are asked for.
DetailLoaded(i) ==
  LET a == details[i]
      asked == Asked(rescheduleSlots, [For(a, Tomorrow) EXCEPT !.opens = TRUE])
  IN
  /\ details' = RemoveAt(details, i)
  /\ rescheduleDetail' = a
  /\ rescheduleSlots' = IF a = rescheduleId /\ rescheduleDate = Tomorrow THEN asked
                        ELSE [asked EXCEPT !.last = Nothing]
  /\ UNCHANGED <<alive, list, rescheduleId, rescheduleDate, detailLoading, detailError, moving, dialog, moves, moved>>

DetailFails(i) ==
  /\ details' = RemoveAt(details, i)
  /\ detailError' = TRUE /\ detailLoading' = FALSE
  /\ UNCHANGED <<alive, list, rescheduleId, rescheduleDetail, rescheduleDate, rescheduleSlots, moving, dialog, moves, moved>>

\* An error empties the list of times.
RescheduleSlotsLoaded(i) ==
  /\ rescheduleSlots' \in {Answered(rescheduleSlots, i), AnsweredEmpty(rescheduleSlots, i),
                           Unanswered(Cleared(rescheduleSlots), i)}
  /\ detailLoading' = (detailLoading /\ ~rescheduleSlots.asks[i].opens)
  /\ UNCHANGED <<alive, list, rescheduleId, rescheduleDetail, rescheduleDate, detailError, details, moving, dialog, moves, moved>>

Closed == rescheduleId' = Nothing /\ rescheduleDetail' = Nothing /\ rescheduleSlots' = Cleared(rescheduleSlots)
closeReschedule ==
  /\ rescheduleId # Nothing /\ Shown(rescheduleId) /\ Closed
  /\ UNCHANGED <<alive, list, rescheduleDate, detailLoading, detailError, details, moving, dialog, moves, moved>>

PanelShown == rescheduleId # Nothing /\ Shown(rescheduleId)
              /\ ~detailLoading /\ ~detailError /\ rescheduleDetail # Nothing
Reask(d) == Room /\ rescheduleSlots' = Asked(rescheduleSlots, For(rescheduleDetail, d))

changeRescheduleDate(d) ==
  /\ PanelShown /\ d # rescheduleDate /\ Act
  /\ rescheduleDate' = d /\ Reask(d)
  /\ UNCHANGED <<alive, list, rescheduleId, rescheduleDetail, detailLoading, detailError, details, moving, dialog, moved>>

reloadRescheduleSlots ==
  /\ PanelShown /\ rescheduleSlots.failed /\ ~rescheduleSlots.busy /\ Reask(rescheduleDate)
  /\ UNCHANGED <<alive, list, rescheduleId, rescheduleDetail, rescheduleDate, detailLoading, detailError, details, moving, dialog, moves, moved>>
----------------------------------------------------------------------------
\* The times wait for the answer, the panel and the rows do not.
pickRescheduleSlot ==
  LET about == rescheduleSlots.about IN
  /\ PanelShown /\ Visible(rescheduleSlots) /\ moving = NotMoving /\ Act
  /\ moving' = [phase |-> "sent", appt |-> rescheduleId, detail |-> rescheduleDetail, day |-> rescheduleDate,
                asOffered |-> rescheduleSlots.late \/ rescheduleDetail # rescheduleId
                              \/ (about.appt = rescheduleId /\ about.day = rescheduleDate)]
  /\ UNCHANGED <<alive, list, panel, dialog, moved>>

\* reschedule_appointment moves it, finds the time taken, or refuses.
MoveServed ==
  /\ moving.phase = "sent"
  /\ \/ /\ moving.appt \in alive
        /\ moving' = [moving EXCEPT !.phase = "made"] /\ moved' = (moved \/ ~moving.asOffered)
     \/ moving' \in {[moving EXCEPT !.phase = "taken"], [moving EXCEPT !.phase = "refused"]} /\ UNCHANGED moved
  /\ UNCHANGED <<alive, list, panel, dialog, moves>>

\* After a move, whichever panel is open is closed and the list is loaded.
MoveMade ==
  /\ moving.phase = "made"
  /\ Closed
  /\ moving' = [NotMoving EXCEPT !.phase = "reloading"]
  /\ loading' = TRUE /\ loadError' = FALSE /\ loads' = loads \cup {"move"}
  /\ UNCHANGED <<alive, listed, rescheduleDate, detailLoading, detailError, details, dialog, moves, moved>>

\* A time that is taken has the times of what was on display at the press asked for again.
MoveTaken ==
  /\ moving.phase = "taken" /\ Room
  /\ rescheduleSlots' = Reasked(rescheduleSlots, For(moving.detail, moving.day))
  /\ moving' = NotMoving
  /\ UNCHANGED <<alive, list, rescheduleId, rescheduleDetail, rescheduleDate, detailLoading, detailError, details, dialog, moves, moved>>

MoveFails ==
  /\ moving.phase \in {"sent", "made", "refused"}
  /\ moving' = NotMoving
  /\ UNCHANGED <<alive, list, panel, dialog, moves, moved>>
----------------------------------------------------------------------------
openCancel(a) ==
  /\ Shown(a) /\ cancelId = Nothing /\ Act
  /\ cancelId' = a
  /\ UNCHANGED <<alive, list, panel, moving, cancelling, moved>>

closeCancel ==
  /\ cancelId # Nothing /\ ~loading
  /\ cancelId' = Nothing
  /\ UNCHANGED <<alive, list, panel, moving, cancelling, moves, moved>>

confirmCancel ==
  /\ cancelId # Nothing /\ ~loading /\ cancelling = Nothing
  /\ cancelling' = cancelId
  /\ UNCHANGED <<alive, list, panel, moving, cancelId, moves, moved>>

\* cancel_appointment, and its answer: the dialog that is open is closed.
CancelServed ==
  /\ cancelling # Nothing /\ "cancel" \notin loads
  /\ cancelling \in alive
  /\ alive' = alive \ {cancelling}
  /\ cancelId' = Nothing
  /\ loading' = TRUE /\ loadError' = FALSE /\ loads' = loads \cup {"cancel"}
  /\ UNCHANGED <<listed, panel, moving, cancelling, moves, moved>>

\* Refused, or no answer; what was asked may have been done.
CancelFails ==
  /\ cancelling # Nothing /\ "cancel" \notin loads
  /\ alive' \in {alive, alive \ {cancelling}}
  /\ cancelling' = Nothing
  /\ UNCHANGED <<list, panel, moving, cancelId, moves, moved>>

\* The shop completes or cancels an appointment.
ClosedByShop(a) ==
  /\ a \in alive /\ Act
  /\ alive' = alive \ {a}
  /\ UNCHANGED <<list, panel, moving, dialog, moved>>

ApptInit ==
  /\ alive = Appts /\ listed = {} /\ loading = TRUE /\ loads = {"page"} /\ loadError = FALSE
  /\ rescheduleId = Nothing /\ rescheduleDetail = Nothing /\ rescheduleDate = Tomorrow
  /\ detailLoading = FALSE /\ detailError = FALSE /\ details = << >>
  /\ rescheduleSlots = NewList
  /\ moving = NotMoving /\ cancelId = Nothing /\ cancelling = Nothing
  /\ moves = 0 /\ moved = FALSE

ApptNext ==
  \/ reloadAppointments \/ \E l \in loads : AppointmentsLoaded(l)
  \/ \E a \in Appts : openReschedule(a) \/ openCancel(a) \/ ClosedByShop(a)
  \/ \E i \in DOMAIN details : DetailLoaded(i) \/ DetailFails(i)
  \/ \E i \in DOMAIN rescheduleSlots.asks : RescheduleSlotsLoaded(i)
  \/ \E d \in MoveDays : changeRescheduleDate(d)
  \/ closeReschedule \/ reloadRescheduleSlots
  \/ pickRescheduleSlot \/ MoveServed \/ MoveMade \/ MoveTaken \/ MoveFails
  \/ closeCancel \/ confirmCancel \/ CancelServed \/ CancelFails
----------------------------------------------------------------------------
ApptTypeOK ==
  /\ listed \subseteq Appts /\ alive \subseteq Appts /\ {loading, loadError} \subseteq BOOLEAN /\ loads \subseteq {"page", "move", "cancel"}
  /\ rescheduleId \in Appts \cup {Nothing} /\ rescheduleDetail \in Appts \cup {Nothing}
  /\ rescheduleDate \in MoveDays /\ detailLoading \in BOOLEAN /\ detailError \in BOOLEAN
  /\ Len(details) + Len(rescheduleSlots.asks) <= MaxPanels
  /\ moving.phase \in {"no", "sent", "made", "taken", "refused", "reloading"}
  /\ moving.phase = "reloading" <=> "move" \in loads
  /\ cancelId \in Appts \cup {Nothing} /\ cancelling \in Appts \cup {Nothing}
  /\ moves \in 0 .. MaxMoves /\ moved \in BOOLEAN

\* An appointment is moved to a time that was offered for itself and for the day on
\* display, when the panel holds its details and the times came in answer to what the panel
\* asked for last.  As on the booking page, an answer that is overtaken is not covered: the
\* details and the times of the panel that was open before may come and be picked from.
MovedAsOffered == ~moved
==============================================================================
