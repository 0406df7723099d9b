---------------------------- MODULE Appointments ----------------------------
(***************************************************************************)
(* Appointment booking (plugins/scheduling): create, reschedule, change     *)
(* status and cancel, by admins, customers and guests, with the two guards  *)
(* against double booking: the overlap check under the provider's row lock, *)
(* and the unique index on (provider_id, start_at) of the live rows.        *)
(*                                                                          *)
(* A booking or reschedule is three steps.  Begin... loads rows and makes   *)
(* the checks on them; CheckSlot is with_for_update and _has_overlap;       *)
(* Commit... is the flush of the appointment and the commit.  On PostgreSQL *)
(* the row lock is kept from CheckSlot to the commit.  On SQLite it is a    *)
(* no-op, but a booking that first inserts a Client row holds the write     *)
(* lock of the database from that flush on, so from CheckSlot at the latest.*)
(***************************************************************************)
EXTENDS Integers, FiniteSets

CONSTANTS
    Requests,   \* request slots: the requests in flight at one time
    ApptIds,    \* the appointments that can be booked
    Providers,
    Types,      \* active appointment types
    Offers,     \* <<provider, type>>: active and offered
    Duration,   \* AppointmentType.duration_minutes
    Starts,     \* the start times that may be asked for
    Now,        \* only an admin books before it
    Users,      \* registered customers
    Guest,      \* a client without an account, and who books as one
    Admin,
    RowLocks    \* with_for_update locks (PostgreSQL) or is a no-op (SQLite)

\* AppointmentStatus; an id that was not booked yet is "absent".
AppointmentStatus == {"requested", "confirmed", "completed", "cancelled", "no_show"}

Slot == [provider : Providers, type : Types, client : Users \cup {Guest},
         booked_by : {"admin", "self", "guest"}, from : Int, to : Int]

ASSUME AppointmentsAssumption ==
    /\ Providers # {} /\ Types # {}
    /\ Offers \subseteq Providers \X Types
    /\ Duration \in [Types -> Nat \ {0}]
    /\ Starts \subseteq Int
    /\ Now \in Int
    /\ Guest \notin Users
    /\ Admin \notin Users \cup {Guest}
    /\ RowLocks \in BOOLEAN

VARIABLES
    status,   \* Appointment.status
    slot,     \* the other columns of the appointment
    clients,  \* how many Client rows name the user
    req       \* what each request in flight has loaded

vars == <<status, slot, clients, req>>

Idle == [op |-> "idle"]

\* A request for a slot has a step; "new" says that it inserts a Client row.
\* A reschedule keeps the start it loaded, a status change the status.
Request ==
    {Idle}
    \cup [op : {"create"}, step : {"loaded", "checked"}, slot : Slot, new : BOOLEAN]
    \cup [op : {"reschedule"}, step : {"loaded", "checked"}, slot : Slot,
          new : {FALSE}, appt : ApptIds, old : Int]
    \cup [op : {"status"}, step : {"loaded"}, appt : ApptIds,
          to : AppointmentStatus]

\* The columns of a row that does not exist.
NoSlot == [provider |-> CHOOSE p \in Providers : TRUE, type |-> CHOOSE t \in Types : TRUE,
           client |-> Guest, booked_by |-> "admin", from |-> 0, to |-> 0]

Init ==
    /\ status = [a \in ApptIds |-> "absent"]
    /\ slot = [a \in ApptIds |-> NoSlot]
    /\ clients = [u \in Users |-> 0]
    /\ req = [r \in Requests |-> Idle]

-----------------------------------------------------------------------------
(* The rules.  A definition marked "Fault" is a seeded bug that replaces the *)
(* definition after it, to show that a property would notice.               *)

\* Fault: a cancelled appointment can be confirmed again.
TransitionsFault ==
    [requested |-> {"confirmed", "cancelled", "no_show"},
     confirmed |-> {"completed", "cancelled", "no_show"},
     completed |-> {}, cancelled |-> {"confirmed"}, no_show |-> {}]

\* _APPOINTMENT_TRANSITIONS
Transitions ==
    [requested |-> {"confirmed", "cancelled", "no_show"},
     confirmed |-> {"completed", "cancelled", "no_show"},
     completed |-> {}, cancelled |-> {}, no_show |-> {}]

is_terminal(s) == Transitions[s] = {}

CancellableStatuses == {"requested", "confirmed"}

Live(a) == status[a] \notin {"absent", "cancelled"}

Open(a) == status[a] \in CancellableStatuses

overlaps(s, t) == s.provider = t.provider /\ s.from < t.to /\ t.from < s.to

\* Fault: only a start inside the other appointment counts.
has_overlapFault(s, others) ==
    \E a \in others : /\ Live(a) /\ slot[a].provider = s.provider
                      /\ slot[a].from <= s.from /\ s.from < slot[a].to

has_overlap(s, others) == \E a \in others : Live(a) /\ overlaps(slot[a], s)

\* Fault: the index is left out.
start_is_freeFault(a, s) == TRUE

\* The partial unique index.
start_is_free(a, s) ==
    \A b \in ApptIds \ {a} : Live(b) => slot[b].provider # s.provider \/ slot[b].from # s.from

checked(r) == req[r] # Idle /\ req[r].step = "checked"

\* Fault: with_for_update is forgotten.
row_lock_is_freeFault(r) == TRUE

\* Of two requests for one provider the second waits for the first to end.
row_lock_is_free(r) ==
    RowLocks => \A q \in Requests \ {r} :
                    checked(q) => req[q].slot.provider # req[r].slot.provider

\* Fault: the new Client is not flushed before the overlap check.
holds_write_lockFault(r) == FALSE

\* The Client row was flushed and its transaction is open.
holds_write_lock(r) == ~RowLocks /\ checked(r) /\ req[r].new

write_lock_is_free(r) == \A q \in Requests \ {r} : ~holds_write_lock(q)

may_choose(by, start) == by = Admin \/ start >= Now

may_change(by, a) == by = Admin \/ (by \in Users /\ slot[a].client = by)

Role(by) == IF by = Admin THEN "admin" ELSE IF by = Guest THEN "guest" ELSE "self"

\* Fault: the end of a moved appointment is not computed again.
movedFault(s, start) == [s EXCEPT !.from = start]

moved(s, start) == [s EXCEPT !.from = start, !.to = start + Duration[s.type]]

-----------------------------------------------------------------------------
(* create_appointment                                                       *)

\* Whose Client row the booking names, and whether it has to be inserted.  A
\* user with two rows cannot be resolved (scalar_one_or_none raises).
client_of(by, client, new) ==
    \/ by = Admin /\ (client # Guest => clients[client] > 0) /\ ~new
    \/ by = Guest /\ client = Guest /\ new
    \/ by \in Users /\ client = by /\ clients[by] <= 1 /\ (new <=> clients[by] = 0)

booking(by, offer, client, start) ==
    [provider |-> offer[1], type |-> offer[2], client |-> client,
     booked_by |-> Role(by), from |-> start, to |-> start + Duration[offer[2]]]

BeginCreate(r) ==
    /\ req[r] = Idle
    /\ \E by \in Users \cup {Guest, Admin}, offer \in Offers, start \in Starts,
          client \in Users \cup {Guest}, new \in BOOLEAN :
          /\ may_choose(by, start)
          /\ client_of(by, client, new)
          /\ req' = [req EXCEPT ![r] =
                [op |-> "create", step |-> "loaded", new |-> new,
                 slot |-> booking(by, offer, client, start)]]
    /\ UNCHANGED <<status, slot, clients>>

\* The provider row is locked and the slot is checked against the live rows.
CheckSlot(r, others) ==
    /\ req[r] # Idle /\ req[r].step = "loaded"
    /\ row_lock_is_free(r)
    /\ req[r].new => write_lock_is_free(r)
    /\ ~has_overlap(req[r].slot, others)
    /\ req' = [req EXCEPT ![r].step = "checked"]
    /\ UNCHANGED <<status, slot, clients>>

CheckNewSlot(r) == req[r].op = "create" /\ CheckSlot(r, ApptIds)

CommitCreate(r, a) ==
    /\ checked(r) /\ req[r].op = "create"
    /\ write_lock_is_free(r)
    /\ status[a] = "absent"
    /\ start_is_free(a, req[r].slot)
    /\ status' = [status EXCEPT ![a] = "confirmed"]
    /\ slot' = [slot EXCEPT ![a] = req[r].slot]
    /\ clients' = [u \in Users |->
                      IF req[r].new /\ req[r].slot.client = u THEN clients[u] + 1
                                                              ELSE clients[u]]
    /\ req' = [req EXCEPT ![r] = Idle]

-----------------------------------------------------------------------------
(* reschedule_appointment                                                   *)

BeginReschedule(r, a) ==
    /\ req[r] = Idle
    /\ status[a] # "absent" /\ ~is_terminal(status[a])
    /\ \E by \in Users \cup {Admin}, start \in Starts :
          /\ may_change(by, a)
          /\ may_choose(by, start)
          /\ req' = [req EXCEPT ![r] =
                [op |-> "reschedule", step |-> "loaded", new |-> FALSE, appt |-> a,
                 slot |-> moved(slot[a], start), old |-> slot[a].from]]
    /\ UNCHANGED <<status, slot, clients>>

\* The appointment itself does not count as an overlap.
CheckMove(r) == req[r].op = "reschedule" /\ CheckSlot(r, ApptIds \ {req[r].appt})

\* An UPDATE is sent when a column changed; on SQLite the loaded start is naive
\* and never equal to the new one.  The row's status is not looked at again.
CommitReschedule(r) ==
    LET a == req[r].appt
        changed == req[r].slot.from # req[r].old \/ ~RowLocks
    IN /\ checked(r) /\ req[r].op = "reschedule"
       /\ write_lock_is_free(r)
       /\ changed /\ Live(a) => start_is_free(a, req[r].slot)
       /\ slot' = IF changed THEN [slot EXCEPT ![a] = req[r].slot] ELSE slot
       /\ req' = [req EXCEPT ![r] = Idle]
       /\ UNCHANGED <<status, clients>>

-----------------------------------------------------------------------------
(* change_status, cancel_appointment                                        *)

LoadForStatus(r, a, to) ==
    /\ req[r] = Idle
    /\ req' = [req EXCEPT ![r] = [op |-> "status", step |-> "loaded", appt |-> a, to |-> to]]
    /\ UNCHANGED <<status, slot, clients>>

\* Only admins; asking for the status it has changes nothing.
BeginChangeStatus(r, a) ==
    /\ status[a] # "absent"
    /\ \E to \in Transitions[status[a]] : LoadForStatus(r, a, to)

\* By an admin or the customer whose appointment it is.
BeginCancel(r, a) ==
    /\ Open(a)
    /\ LoadForStatus(r, a, "cancelled")

\* The UPDATE carries the status alone; the index applies to a row that it
\* takes out of "cancelled".
CommitStatus(r) ==
    LET a == req[r].appt
    IN /\ req[r].op = "status"
       /\ write_lock_is_free(r)
       /\ req[r].to # "cancelled" => start_is_free(a, slot[a])
       /\ status' = [status EXCEPT ![a] = req[r].to]
       /\ req' = [req EXCEPT ![r] = Idle]
       /\ UNCHANGED <<slot, clients>>

\* A conflict, a violated index, a busy database or any other exception.
Rollback(r) ==
    /\ req[r] # Idle
    /\ req' = [req EXCEPT ![r] = Idle]
    /\ UNCHANGED <<status, slot, clients>>

-----------------------------------------------------------------------------
Next == \E r \in Requests :
    \/ BeginCreate(r) \/ CheckNewSlot(r)
    \/ CheckMove(r) \/ CommitReschedule(r)
    \/ CommitStatus(r)
    \/ Rollback(r)
    \/ \E a \in ApptIds :
          \/ CommitCreate(r, a)
          \/ BeginReschedule(r, a)
          \/ BeginChangeStatus(r, a)
          \/ BeginCancel(r, a)

Spec == Init /\ [][Next]_vars

-----------------------------------------------------------------------------
\* Rows keep their types, and a booked appointment lasts as long as its type
\* says, also after it was moved.
TypeOK ==
    /\ status \in [ApptIds -> AppointmentStatus \cup {"absent"}]
    /\ slot \in [ApptIds -> Slot]
    /\ \A a \in ApptIds :
          status[a] # "absent" => slot[a].to = slot[a].from + Duration[slot[a].type]
    /\ clients \in [Users -> Nat]
    /\ req \in [Requests -> Request]

\* create_appointment's comment: two concurrent bookings "can't both pass the
\* overlap check before either has inserted" - no provider has two open
\* appointments at one time, whoever books, moves or closes them.
NoDoubleBooking ==
    \A a, b \in ApptIds : a # b /\ Open(a) /\ Open(b) => ~overlaps(slot[a], slot[b])

\* Whatever the locks do, the index keeps two live appointments of a provider
\* from starting together: bookings, moves and late status writes included.
LiveStartsDiffer ==
    \A a, b \in ApptIds :
        a # b /\ Live(a) /\ Live(b) /\ slot[a].provider = slot[b].provider
            => slot[a].from # slot[b].from

\* A guest's booking never lands on an open appointment, not even on SQLite: the
\* flush of the guest's Client row holds the write lock over the overlap check.
GuestLandsOnFreeSlot ==
    [][\A a, b \in ApptIds :
          status[a] = "absent" /\ status'[a] # "absent" /\ slot'[a].booked_by = "guest"
             /\ Open(b) => ~overlaps(slot[b], slot'[a])]_vars

\* An appointment that was completed, missed or cancelled is never open again,
\* however stale the row a status change was decided on.
ClosedStaysClosed ==
    [][\A a \in ApptIds : status[a] # "absent" /\ ~Open(a) => ~Open(a)']_vars

\* get_or_create_client_for_user: a customer resolves to one Client row.
OneClientPerUser == \A u \in Users : clients[u] <= 1

-----------------------------------------------------------------------------
(* The refinement mapping to Calendar: the open appointments are its diary. *)

Interval(s) == [provider |-> s.provider, from |-> s.from, to |-> s.to]

Diary == [a \in {b \in ApptIds : Open(b)} |-> Interval(slot[a])]

Closed == {a \in ApptIds : status[a] # "absent" /\ ~Open(a)}

Booked == INSTANCE Calendar WITH diary <- Diary, closed <- Closed

\* With row locks, booking, moving and closing appointments is a calendar: each
\* request, however its steps interleave with others, is one step of the diary.
ImplementsCalendar == Booked!Spec
=============================================================================
