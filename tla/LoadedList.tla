------------------------------ MODULE LoadedList ------------------------------
(***************************************************************************)
(* A list that a storefront page asks the backend for, each time about     *)
(* something else, without cancelling what it asked before: loadServices,  *)
(* loadProviders and loadSlots of app/book/page.tsx and                    *)
(* loadRescheduleSlots of app/account/appointments/page.tsx.               *)
(***************************************************************************)
EXTENDS Sequences, SequencesExt

Nothing == << >>    \* null, or an empty list

\* about: what the items on hand were asked about; asks: what was asked and not answered
\* yet, the oldest first; last: history, what a choice asked for last; late: history, the
\* items on hand came when something else had been asked for last.
NewList == [about |-> Nothing, busy |-> FALSE, failed |-> FALSE, asks |-> << >>, last |-> Nothing, late |-> FALSE]

Cleared(list) == [list EXCEPT !.about = Nothing, !.late = FALSE]
Asked(list, ask) == [list EXCEPT !.busy = TRUE, !.failed = FALSE, !.asks = Append(@, ask), !.last = ask]
\* Asked again by an answer, about what was chosen when that was asked for.
Reasked(list, ask) == [Asked(list, ask) EXCEPT !.last = list.last]

\* The first answer ends the wait for all of them, and whichever comes last stays.  An
\* error keeps the list hidden until it is asked for again.
Answered(list, i) ==
  [list EXCEPT !.about = list.asks[i], !.late = list.asks[i] # list.last, !.busy = FALSE, !.asks = RemoveAt(@, i)]
AnsweredEmpty(list, i) == [Cleared(list) EXCEPT !.busy = FALSE, !.asks = RemoveAt(@, i)]
Unanswered(list, i) == [list EXCEPT !.failed = TRUE, !.busy = FALSE, !.asks = RemoveAt(@, i)]

Visible(list) == ~list.busy /\ ~list.failed /\ list.about # Nothing
==============================================================================
