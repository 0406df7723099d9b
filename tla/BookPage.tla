------------------------------- MODULE BookPage -------------------------------
(***************************************************************************)
(* The storefront's booking page (app/book/page.tsx): a service, one of    *)
(* its providers, a day and one of the free times of that day are chosen   *)
(* in four steps, and then booked.                                         *)
(***************************************************************************)
EXTENDS Naturals, Sequences, LoadedList

CONSTANTS Services, Providers, Days,
          MaxAsks,         \* how many loads of one list may be under way
          MaxChoices       \* how many choices are made

ASSUME BookAssumption ==
  /\ Days # {} /\ Nothing \notin Services \cup Providers
  /\ MaxAsks \in Nat \ {0} /\ MaxChoices \in Nat

Steps == <<"service", "provider", "slot", "details">>
Today == CHOOSE d \in Days : TRUE

VARIABLES
  step,
  service, provider, day,  \* what is chosen
  slot,                    \* the chosen time, known by what its list was about
  services, providers, slots,
  booking,                 \* the booking under way, with what was chosen at the press
  confirmed,               \* the page shows the confirmation
  offeredFor,              \* history: the service that the chosen provider was offered for
  blind,                   \* history: choices made in a list that came late
  choices,
  misled                   \* history: a booking was made of what had not been offered for it

chosen == <<step, service, provider, day, slot, offeredFor, blind, choices>>
lists == <<services, providers, slots>>
bookVars == <<chosen, lists, booking, confirmed, misled>>

SlotsOf(s, p, d) == [service |-> s, provider |-> p, day |-> d]
Chosen == SlotsOf(service, provider, day)
NotBooking == Nothing
All == <<"all">>
AsOffered ==
  /\ offeredFor = service \/ "provider" \in blind
  /\ slot = Chosen \/ "slot" \in blind
On(name) == step = name /\ ~confirmed
Choice == choices < MaxChoices /\ choices' = choices + 1
Free(list) == Len(list.asks) < MaxAsks
----------------------------------------------------------------------------
\* Try again, of each of the lists.
reloadServices ==
  /\ On("service") /\ services.failed /\ ~services.busy /\ Free(services)
  /\ services' = Asked(services, All)
  /\ UNCHANGED <<chosen, providers, slots, booking, confirmed, misled>>

reloadProviders ==
  /\ On("provider") /\ providers.failed /\ ~providers.busy /\ Free(providers) /\ service # Nothing
  /\ providers' = Asked(providers, service)
  /\ UNCHANGED <<chosen, services, slots, booking, confirmed, misled>>

reloadSlots ==
  /\ On("slot") /\ slots.failed /\ ~slots.busy /\ Free(slots) /\ provider # Nothing
  /\ slots' = Asked(slots, Chosen)
  /\ UNCHANGED <<chosen, services, providers, booking, confirmed, misled>>

selectService(s) ==
  /\ Choice
  /\ On("service") /\ Visible(services) /\ Free(providers)
  /\ step' = "provider" /\ service' = s /\ provider' = Nothing /\ slot' = Nothing
  /\ slots' = Cleared(slots)
  /\ providers' = Asked(Cleared(providers), s)
  /\ offeredFor' = Nothing /\ blind' = {}
  /\ UNCHANGED <<day, services, booking, confirmed, misled>>

selectProvider(p) ==
  /\ Choice
  /\ On("provider") /\ Visible(providers) /\ Free(slots)
  /\ step' = "slot" /\ provider' = p /\ slot' = Nothing
  /\ slots' = Asked(Cleared(slots), SlotsOf(service, p, day))
  /\ offeredFor' = providers.about
  /\ blind' = IF providers.late THEN {"provider"} ELSE {}
  /\ UNCHANGED <<service, day, services, providers, booking, confirmed, misled>>

selectSlot ==
  /\ Choice
  /\ On("slot") /\ Visible(slots)
  /\ step' = "details" /\ slot' = slots.about
  /\ blind' = (blind \ {"slot"}) \cup (IF slots.late THEN {"slot"} ELSE {})
  /\ UNCHANGED <<service, provider, day, offeredFor, lists, booking, confirmed, misled>>

\* Fault: the free times are asked for of the day that the page still holds.
changeDateFault(d) ==
  /\ Choice
  /\ On("slot") /\ d # day /\ Free(slots)
  /\ day' = d /\ slot' = Nothing
  /\ slots' = IF provider # Nothing THEN Asked(slots, SlotsOf(service, provider, day)) ELSE slots
  /\ UNCHANGED <<step, service, provider, offeredFor, blind, services, providers, booking, confirmed, misled>>

changeDate(d) ==
  /\ Choice
  /\ On("slot") /\ d # day /\ Free(slots)
  /\ day' = d /\ slot' = Nothing
  /\ slots' = IF provider # Nothing THEN Asked(slots, SlotsOf(service, provider, d)) ELSE slots
  /\ UNCHANGED <<step, service, provider, offeredFor, blind, services, providers, booking, confirmed, misled>>

\* The stepper leads back, and keeps what was chosen; forward, only a choice does.
goBackTo(target) ==
  /\ Choice
  /\ ~confirmed
  /\ \E i, j \in DOMAIN Steps : Steps[i] = target /\ Steps[j] = step /\ i < j
  /\ step' = target
  /\ UNCHANGED <<service, provider, day, slot, offeredFor, blind, lists, booking, confirmed, misled>>
----------------------------------------------------------------------------
\* The details are shown when everything is chosen; the button waits for its answer.
handleBook ==
  /\ On("details") /\ Nothing \notin {service, provider, slot} /\ booking = NotBooking
  /\ booking' = [phase |-> "sent", about |-> Chosen, asOffered |-> AsOffered]
  /\ UNCHANGED <<chosen, lists, confirmed, misled>>

\* create_appointment makes the booking, finds the slot taken, or refuses for another reason.
BookServed ==
  /\ booking # NotBooking /\ booking.phase = "sent"
  /\ \/ booking' = [booking EXCEPT !.phase = "made"] /\ misled' = (misled \/ ~booking.asOffered)
     \/ booking' \in {[booking EXCEPT !.phase = "taken"], [booking EXCEPT !.phase = "refused"]}
        /\ UNCHANGED misled
  /\ UNCHANGED <<chosen, lists, confirmed>>

\* A slot that is no longer available is taken back, and the times of what was chosen at
\* the press are asked for, whatever is chosen by now.
BookAnswered ==
  /\ booking # NotBooking /\ booking.phase \in {"made", "taken", "refused"}
  /\ booking' = NotBooking
  /\ confirmed' = (confirmed \/ booking.phase = "made")
  /\ IF booking.phase = "taken"
     THEN /\ Free(slots)
          /\ slot' = Nothing /\ step' = "slot"
          /\ slots' = Reasked(slots, booking.about)
     ELSE UNCHANGED <<slot, step, slots>>
  /\ UNCHANGED <<service, provider, day, offeredFor, blind, services, providers, choices, misled>>

BookLost ==
  /\ booking # NotBooking
  /\ booking' = NotBooking
  /\ UNCHANGED <<chosen, lists, confirmed, misled>>

resetBooking ==
  /\ confirmed
  /\ confirmed' = FALSE /\ step' = "service"
  /\ service' = Nothing /\ provider' = Nothing /\ slot' = Nothing /\ day' = Today
  /\ slots' = Cleared(slots) /\ providers' = Cleared(providers)
  /\ offeredFor' = Nothing /\ blind' = {}
  /\ UNCHANGED <<services, booking, choices, misled>>
----------------------------------------------------------------------------
ServicesLoaded(i) ==
  /\ services' \in {Answered(services, i), AnsweredEmpty(services, i), Unanswered(services, i)}
  /\ UNCHANGED <<chosen, providers, slots, booking, confirmed, misled>>

ProvidersLoaded(i) ==
  /\ providers' \in {Answered(providers, i), AnsweredEmpty(providers, i), Unanswered(providers, i)}
  /\ UNCHANGED <<chosen, services, slots, booking, confirmed, misled>>

\* An error empties this list.
SlotsLoaded(i) ==
  /\ slots' \in {Answered(slots, i), AnsweredEmpty(slots, i), Unanswered(Cleared(slots), i)}
  /\ UNCHANGED <<chosen, services, providers, booking, confirmed, misled>>

BookInit ==
  /\ step = "service" /\ service = Nothing /\ provider = Nothing /\ slot = Nothing /\ day = Today
  /\ services = Asked(NewList, All) /\ providers = NewList /\ slots = NewList
  /\ booking = NotBooking /\ confirmed = FALSE
  /\ offeredFor = Nothing /\ blind = {} /\ choices = 0 /\ misled = FALSE

BookNext ==
  \/ reloadServices \/ reloadProviders \/ reloadSlots
  \/ \E s \in Services : selectService(s)
  \/ \E p \in Providers : selectProvider(p)
  \/ selectSlot
  \/ \E d \in Days : changeDate(d)
  \/ \E i \in 1 .. 3 : goBackTo(Steps[i])
  \/ handleBook \/ BookServed \/ BookAnswered \/ BookLost \/ resetBooking
  \/ \E i \in DOMAIN services.asks : ServicesLoaded(i)
  \/ \E i \in DOMAIN providers.asks : ProvidersLoaded(i)
  \/ \E i \in DOMAIN slots.asks : SlotsLoaded(i)
----------------------------------------------------------------------------
BookTypeOK ==
  /\ step \in {"service", "provider", "slot", "details"}
  /\ service \in Services \cup {Nothing} /\ provider \in Providers \cup {Nothing} /\ day \in Days
  /\ \A i \in 1 .. 3 : Len(lists[i].asks) <= MaxAsks /\ {lists[i].busy, lists[i].failed, lists[i].late} \subseteq BOOLEAN
  /\ confirmed \in BOOLEAN /\ misled \in BOOLEAN /\ choices \in 0 .. MaxChoices /\ blind \subseteq {"provider", "slot"}

\* What is booked was offered for what the page shows as chosen: the provider in answer to
\* a load for the service, the time in answer to a load for the service, the provider and
\* the day.  This is about what is asked and taken back when a choice changes; the page does
\* nothing about an answer that comes when something else was asked for last, and whoever
\* chooses in a list that came so is not covered.
BookedAsOffered == ~misled
==============================================================================
