------------------------------ MODULE OpenSlots ------------------------------
(***************************************************************************)
(* The bookable starts of one provider and one appointment type             *)
(* (plugins/scheduling, compute_open_slots): weekly windows, less the timed *)
(* blocks of a date, plus its extra windows, cut into steps of the type's   *)
(* duration, less what overlaps a live appointment.  Admins edit the rows   *)
(* it reads, and appointments come and go.                                  *)
(*                                                                          *)
(* Days are consecutive integers.  A time of day and a moment are counted   *)
(* in ticks: Minute ticks to the minute, DayLength minutes to the day.      *)
(***************************************************************************)
EXTENDS Integers, Sequences, SequencesExt

CONSTANTS
    Days,       \* the dates that can be asked for
    Weekday,    \* date.weekday()
    Times,      \* the times of day that windows may start and end at
    Durations,  \* the durations, in minutes, a type may be given
    Moments,    \* <<start, end>> of the appointments that may be booked
    Minute, DayLength,
    MaxWindows, MaxExceptions   \* bound the rows of the two tables

NoTime == -1

Windows == {w \in Times \X Times : w[1] < w[2]}

AvailabilityCreate == [weekday : {Weekday[d] : d \in Days}, time : Windows]

\* A block has both times or, for the whole day, neither; an extra window both.
ExceptionCreate ==
    [date : Days, is_available : BOOLEAN, time : Windows]
    \cup [date : Days, is_available : {FALSE}, time : {<<NoTime, NoTime>>}]

ASSUME OpenSlotsAssumption ==
    /\ Days \subseteq Int
    /\ Minute \in Nat \ {0} /\ DayLength \in Nat \ {0}
    /\ Weekday \in [Days -> 0..6]
    /\ Times \subseteq 0..(DayLength * Minute - 1)
    /\ Durations \subseteq Nat \ {0}
    /\ \A m \in Moments : m \in Int \X Int /\ m[1] < m[2]
    /\ MaxWindows \in Nat /\ MaxExceptions \in Nat

VARIABLES
    availability,  \* ProviderAvailability rows
    exceptions,    \* AvailabilityException rows
    live,          \* the provider's appointments that are not cancelled
    duration       \* AppointmentType.duration_minutes

slotsVars == <<availability, exceptions, live, duration>>

SlotsInit ==
    /\ availability = <<>> /\ exceptions = <<>>
    /\ live = {}
    /\ duration \in Durations

-----------------------------------------------------------------------------
(* compute_open_slots.  A definition marked "Fault" is a seeded bug that     *)
(* replaces the definition after it, to show that a property would notice.  *)

_time_to_min(t) == t \div Minute

\* What a block leaves of one window.
remains(w, block) ==
    IF block[2] <= w[1] \/ block[1] >= w[2] THEN {w}
    ELSE {p \in {<<w[1], block[1]>>, <<block[2], w[2]>>} : p[1] < p[2]}

_subtract_window(windows, block) == UNION {remains(w, block) : w \in windows}

in_minutes(time) == <<_time_to_min(time[1]), _time_to_min(time[2])>>

whole_day_blocked(d) ==
    \E e \in ToSet(exceptions) : e.date = d /\ ~e.is_available /\ e.time[1] = NoTime

blocks(e, d) == e.date = d /\ ~e.is_available /\ e.time[1] # NoTime

extras(d) == {in_minutes(e.time) : e \in {x \in ToSet(exceptions) : x.date = d /\ x.is_available}}

weekly(d) == {in_minutes(a.time) : a \in {x \in ToSet(availability) : x.weekday = Weekday[d]}}

\* Fault: a block cuts the weekly windows as they were before the earlier blocks.
cutFault(windows, d) ==
    LET left[i \in 0..Len(exceptions)] ==
            IF i = 0 THEN windows
            ELSE IF blocks(exceptions[i], d)
                 THEN _subtract_window(windows, in_minutes(exceptions[i].time))
                 ELSE left[i - 1]
    IN left[Len(exceptions)]

\* The loop over the timed blocks of the date.
cut(windows, d) ==
    LET left[i \in 0..Len(exceptions)] ==
            IF i = 0 THEN windows
            ELSE IF blocks(exceptions[i], d)
                 THEN _subtract_window(left[i - 1], in_minutes(exceptions[i].time))
                 ELSE left[i - 1]
    IN left[Len(exceptions)]

windows_of(d) ==
    IF whole_day_blocked(d) THEN {}
    ELSE cut(weekly(d), d) \cup extras(d)

at(d, t) == (d * DayLength + t) * Minute

\* The starts, in minutes, that a window offers.
steps(w) == {t \in w[1]..(w[2] - duration) : (t - w[1]) % duration = 0}

\* Fault: an appointment that began on the day before is not loaded.
appointmentsFault(from, to) == {m \in live : m[1] < at(to + 1, 0) /\ m[1] >= at(from, 0)}

\* The appointments that touch the range of dates.
appointments(from, to) == {m \in live : m[1] < at(to + 1, 0) /\ m[2] > at(from, 0)}

conflict(d, t, appts) == \E m \in appts : at(d, t) < m[2] /\ at(d, t + duration) > m[1]

compute_open_slots(from, to) ==
    UNION {{at(d, t) : t \in {x \in UNION {steps(w) : w \in windows_of(d)} :
                                 ~conflict(d, x, appointments(from, to))}} :
              d \in {x \in Days : from <= x /\ x <= to}}

-----------------------------------------------------------------------------
(* The rows it reads.                                                       *)

add_availability(a) ==
    /\ Len(availability) < MaxWindows
    /\ availability' = Append(availability, a)
    /\ UNCHANGED <<exceptions, live, duration>>

delete_availability(i) ==
    /\ availability' = RemoveAt(availability, i)
    /\ UNCHANGED <<exceptions, live, duration>>

\* Fault: start and end are stored the wrong way round.
add_exceptionFault(e) ==
    /\ Len(exceptions) < MaxExceptions
    /\ exceptions' = Append(exceptions, [e EXCEPT !.time = <<e.time[2], e.time[1]>>])
    /\ UNCHANGED <<availability, live, duration>>

add_exception(e) ==
    /\ Len(exceptions) < MaxExceptions
    /\ exceptions' = Append(exceptions, e)
    /\ UNCHANGED <<availability, live, duration>>

delete_exception(i) ==
    /\ exceptions' = RemoveAt(exceptions, i)
    /\ UNCHANGED <<availability, live, duration>>

update_appointment_type(n) ==
    /\ duration' = n
    /\ UNCHANGED <<availability, exceptions, live>>

\* An appointment is written, at any time: the windows are not consulted.
Book(m) ==
    /\ \A n \in live : n[1] # m[1]
    /\ live' = live \cup {m}
    /\ UNCHANGED <<availability, exceptions, duration>>

\* An appointment is cancelled or moved away.
Free(m) ==
    /\ live' = live \ {m}
    /\ UNCHANGED <<availability, exceptions, duration>>

SlotsNext ==
    \/ \E a \in AvailabilityCreate : add_availability(a)
    \/ \E i \in DOMAIN availability : delete_availability(i)
    \/ \E e \in ExceptionCreate : add_exception(e)
    \/ \E i \in DOMAIN exceptions : delete_exception(i)
    \/ \E n \in Durations \ {duration} : update_appointment_type(n)
    \/ \E m \in Moments \ live : Book(m)
    \/ \E m \in live : Free(m)

SlotsSpec == SlotsInit /\ [][SlotsNext]_slotsVars

-----------------------------------------------------------------------------
\* Stored windows end after they begin, a block has both times or neither, and the
\* tables keep their bounds.
SlotsTypeOK ==
    /\ availability \in Seq(AvailabilityCreate) /\ Len(availability) <= MaxWindows
    /\ exceptions \in Seq(ExceptionCreate) /\ Len(exceptions) <= MaxExceptions
    /\ live \subseteq Moments
    /\ duration \in Durations

Ranges == {r \in Days \X Days : r[1] <= r[2]}

\* The runs that blocks leave free in a window, all at once and in no order: they
\* begin with the window or behind a block, and end with it or before a block.  A
\* window that has no minute of its own is kept unless it lies inside a block.
FreeRuns(w, bs) ==
    {p \in ({w[1]} \cup {x[2] : x \in bs}) \X ({w[2]} \cup {x[1] : x \in bs}) :
        /\ w[1] <= p[1] /\ p[2] <= w[2]
        /\ p[1] < p[2] \/ p = w
        /\ \A x \in bs : x[2] <= p[1] \/ p[2] <= x[1]}

BlockedTimes(d) == {in_minutes(e.time) : e \in {x \in ToSet(exceptions) : blocks(x, d)}}

WeeklyRuns(d) == UNION {FreeRuns(w, BlockedTimes(d)) : w \in weekly(d)}

\* What should be offered on a date.
Runs(d) == IF whole_day_blocked(d) THEN {} ELSE WeeklyRuns(d) \cup extras(d)

\* Cutting windows block by block, whatever the order of the rows, and loading only
\* the appointments of the range offers exactly the steps of the free runs that no
\* live appointment touches; two rows for the same time offer it once.
OffersExactlyTheFreeSteps ==
    \A r \in Ranges :
        compute_open_slots(r[1], r[2]) =
            {at(x[1], x[2]) : x \in {y \in (r[1]..r[2]) \X (0..DayLength) :
                /\ y[1] \in Days
                /\ \E w \in Runs(y[1]) : y[2] \in steps(w)
                /\ ~conflict(y[1], y[2], live)}}

\* A slot that is offered would pass the overlap check of create_appointment, also
\* when an appointment began before the first date asked for or ends after the last.
OfferedSlotsAreBookable ==
    \A r \in Ranges : \A s \in compute_open_slots(r[1], r[2]) :
        \A m \in live : ~(m[1] < s + duration * Minute /\ m[2] > s)
=============================================================================
