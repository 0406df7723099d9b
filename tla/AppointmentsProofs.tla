------------------------- MODULE AppointmentsProofs -------------------------
(***************************************************************************)
(* Proofs of the safety properties of Appointments, for every number of     *)
(* requests, appointments, providers and types.                             *)
(***************************************************************************)
EXTENDS Appointments, TLAPS

Closing == {"completed", "cancelled", "no_show"}

OnTime(s) == s.to = s.from + Duration[s.type]

\* create_appointment confirms at once: no row is ever only requested.
NeverRequested == \A a \in ApptIds : status[a] # "requested"

\* What a request in flight knows: it holds rows that exist, a reschedule keeps
\* the provider of its appointment, and a status change closes.
LoadedRows ==
    \A r \in Requests :
        /\ req[r] # Idle /\ req[r].op = "create" =>
              /\ OnTime(req[r].slot)
              /\ req[r].slot.booked_by = "guest" => req[r].new
        /\ req[r] # Idle /\ req[r].op = "reschedule" =>
              /\ OnTime(req[r].slot)
              /\ status[req[r].appt] # "absent"
              /\ req[r].slot.provider = slot[req[r].appt].provider
              /\ req[r].slot.booked_by = slot[req[r].appt].booked_by
        /\ req[r] # Idle /\ req[r].op = "status" =>
              status[req[r].appt] # "absent" /\ req[r].to \in Closing

\* The appointments a request in flight compares its slot with.
Others(r) == IF req[r].op = "reschedule" THEN ApptIds \ {req[r].appt} ELSE ApptIds

\* A lock is kept from the overlap check to the commit.
Locked(r) == checked(r) /\ (RowLocks \/ req[r].new)

\* While the lock is kept, the answer of the overlap check stays true.
CheckedSlots ==
    \A r \in Requests : Locked(r) =>
        \A a \in Others(r) : Open(a) => ~overlaps(slot[a], req[r].slot)

\* One request at a time has a provider's row locked.
OneHolder ==
    RowLocks => \A q, r \in Requests :
        q # r /\ checked(q) /\ checked(r) => req[q].slot.provider # req[r].slot.provider

IInv ==
    /\ TypeOK
    /\ NeverRequested
    /\ LoadedRows
    /\ CheckedSlots
    /\ OneHolder
    /\ RowLocks => NoDoubleBooking
    /\ LiveStartsDiffer

-----------------------------------------------------------------------------
(* A request that has just loaded its rows, or ended, holds nothing: the     *)
(* rows stay, and no request newly counts as checked.                        *)

\* The initial state satisfies the invariant: nothing is booked.
LEMMA InitInv == Init => IInv
  <1> SUFFICES ASSUME Init PROVE IInv
    OBVIOUS
  <1>1. NoSlot \in Slot
    BY AppointmentsAssumption DEF NoSlot, Slot
  <1>2. TypeOK
    BY <1>1 DEF Init, TypeOK, Request, Idle
  <1>3. \A r \in Requests : req[r] = Idle /\ ~checked(r) /\ ~Locked(r)
    BY DEF Init, checked, Locked
  <1>4. NeverRequested /\ LoadedRows /\ CheckedSlots /\ OneHolder
    BY <1>3 DEF Init, NeverRequested, LoadedRows, CheckedSlots, OneHolder
  <1>5. \A a \in ApptIds : ~Open(a) /\ ~Live(a)
    BY DEF Init, Open, Live, CancellableStatuses
  <1>6. NoDoubleBooking /\ LiveStartsDiffer
    BY <1>5 DEF NoDoubleBooking, LiveStartsDiffer
  <1> QED BY <1>2, <1>4, <1>6 DEF IInv

\* A step that leaves the rows alone and puts an unchecked, well-formed request
\* (or none) in one slot keeps the invariant.
LEMMA LoadKeepsInv ==
  ASSUME IInv, NEW r \in Requests, NEW new \in Request,
         UNCHANGED <<status, slot, clients>>,
         req' = [req EXCEPT ![r] = new],
         new # Idle => new.step = "loaded",
         new # Idle /\ new.op = "create" =>
             OnTime(new.slot) /\ (new.slot.booked_by = "guest" => new.new),
         new # Idle /\ new.op = "reschedule" =>
             /\ OnTime(new.slot) /\ status[new.appt] # "absent"
             /\ new.slot.provider = slot[new.appt].provider
             /\ new.slot.booked_by = slot[new.appt].booked_by,
         new # Idle /\ new.op = "status" =>
             status[new.appt] # "absent" /\ new.to \in Closing
  PROVE  IInv'
  <1>1. req \in [Requests -> Request]
    BY DEF IInv, TypeOK
  <1>2. req'[r] = new /\ \A q \in Requests \ {r} : req'[q] = req[q]
    BY <1>1
  <1>3. TypeOK'
    BY <1>1 DEF IInv, TypeOK
  <1>4. LoadedRows'
    BY <1>2 DEF IInv, LoadedRows, OnTime
  <1>5. \A q \in Requests : checked(q)' => q # r /\ checked(q)
    BY <1>2 DEF checked
  <1>6. CheckedSlots'
    <2> SUFFICES ASSUME NEW q \in Requests, Locked(q)'
                 PROVE  (\A a \in Others(q) : Open(a) => ~overlaps(slot[a], req[q].slot))'
      BY DEF CheckedSlots
    <2>1. q # r /\ checked(q) /\ req'[q] = req[q]
      BY <1>2, <1>5 DEF Locked
    <2>2. Locked(q)
      BY <2>1 DEF Locked
    <2>3. \A a \in Others(q) : Open(a) => ~overlaps(slot[a], req[q].slot)
      BY <2>2 DEF IInv, CheckedSlots
    <2> QED BY <2>1, <2>3 DEF Others, Open, overlaps
  <1>7. OneHolder'
    BY <1>2, <1>5 DEF IInv, OneHolder
  <1>8. NeverRequested' /\ (RowLocks => NoDoubleBooking)' /\ LiveStartsDiffer'
    BY DEF IInv, NeverRequested, NoDoubleBooking, LiveStartsDiffer, Open, Live, overlaps
  <1> QED BY <1>3, <1>4, <1>6, <1>7, <1>8 DEF IInv

\* Whose row the booking names is a client, and a guest's is always inserted.
LEMMA BeginCreateInv == ASSUME IInv, NEW r \in Requests, BeginCreate(r) PROVE IInv'
  <1> DEFINE n(by, offer, client, start, new) ==
                 [op |-> "create", step |-> "loaded", new |-> new,
                  slot |-> booking(by, offer, client, start)]
  <1>1. PICK by \in Users \cup {Guest, Admin}, offer \in Offers, start \in Starts,
             client \in Users \cup {Guest}, new \in BOOLEAN :
             client_of(by, client, new) /\ req' = [req EXCEPT ![r] = n(by, offer, client, start, new)]
    BY Zenon DEF BeginCreate
  <1> DEFINE s == booking(by, offer, client, start)
             m == n(by, offer, client, start, new)
  <1>2. offer[1] \in Providers /\ offer[2] \in Types /\ Duration[offer[2]] \in Nat /\ start \in Int
    BY AppointmentsAssumption
  <1>3. Role(by) \in {"admin", "self", "guest"} /\ (Role(by) = "guest" => by = Guest)
    BY DEF Role
  <1>4. s \in Slot
    BY <1>2, <1>3 DEF Slot, booking
  <1>5. m \in Request
    BY <1>4 DEF Request
  <1>6. OnTime(s) /\ (s.booked_by = "guest" => new)
    BY <1>1, <1>3, AppointmentsAssumption DEF OnTime, client_of, booking
  <1>7. m.op = "create" /\ m.step = "loaded" /\ m.slot = s /\ m.new = new
    OBVIOUS
  <1>8. UNCHANGED <<status, slot, clients>> /\ req' = [req EXCEPT ![r] = m]
    BY <1>1 DEF BeginCreate
  <1> HIDE DEF m, s
  <1> QED BY <1>5, <1>6, <1>7, <1>8, LoadKeepsInv

\* A moved slot lasts as long as its type says and keeps the other columns.
LEMMA MovedSlot ==
  ASSUME NEW s \in Slot, NEW start \in Int
  PROVE  /\ moved(s, start) \in Slot /\ OnTime(moved(s, start))
         /\ moved(s, start).provider = s.provider
         /\ moved(s, start).booked_by = s.booked_by
         /\ moved(s, start).from = start
  <1> DEFINE d == Duration[s.type]
             t == start + d
  <1>1. d \in Nat /\ t \in Int
    BY AppointmentsAssumption DEF Slot
  <1>2. moved(s, start) = [s EXCEPT !.from = start, !.to = t]
    BY DEF moved
  <1> HIDE DEF t
  <1>3. /\ moved(s, start) \in Slot
        /\ moved(s, start).provider = s.provider /\ moved(s, start).type = s.type
        /\ moved(s, start).booked_by = s.booked_by
        /\ moved(s, start).from = start /\ moved(s, start).to = t
    BY <1>1, <1>2 DEF Slot
  <1> QED BY <1>3 DEF OnTime, t

\* A move keeps the columns that a reschedule does not write.
LEMMA BeginRescheduleInv ==
  ASSUME IInv, NEW r \in Requests, NEW a \in ApptIds, BeginReschedule(r, a)
  PROVE  IInv'
  <1>1. PICK start \in Starts :
             req' = [req EXCEPT ![r] =
                [op |-> "reschedule", step |-> "loaded", new |-> FALSE, appt |-> a,
                 slot |-> moved(slot[a], start), old |-> slot[a].from]]
    BY DEF BeginReschedule
  <1> DEFINE s == moved(slot[a], start)
             n == [op |-> "reschedule", step |-> "loaded", new |-> FALSE, appt |-> a,
                   slot |-> s, old |-> slot[a].from]
  <1>2. slot[a] \in Slot /\ start \in Int
    BY AppointmentsAssumption DEF IInv, TypeOK
  <1>4. /\ s \in Slot /\ OnTime(s)
        /\ s.provider = slot[a].provider /\ s.booked_by = slot[a].booked_by
    BY <1>2, MovedSlot
  <1>5. n \in Request
    BY <1>2, <1>4 DEF Request, Slot
  <1>6. n.op = "reschedule" /\ n.step = "loaded" /\ n.slot = s /\ n.appt = a
    OBVIOUS
  <1>7. /\ UNCHANGED <<status, slot, clients>> /\ req' = [req EXCEPT ![r] = n]
        /\ status[a] # "absent"
    BY <1>1 DEF BeginReschedule
  <1> HIDE DEF n, s
  <1> QED BY <1>4, <1>5, <1>6, <1>7, LoadKeepsInv

\* Status changes only close: no row is "requested".
LEMMA LoadForStatusInv ==
  ASSUME IInv, NEW r \in Requests, NEW a \in ApptIds, NEW to \in Closing,
         status[a] # "absent", LoadForStatus(r, a, to)
  PROVE  IInv'
  <1> DEFINE n == [op |-> "status", step |-> "loaded", appt |-> a, to |-> to]
  <1>1. n \in Request /\ n.op = "status" /\ n.step = "loaded" /\ n.appt = a /\ n.to = to
    BY DEF Request, AppointmentStatus, Closing
  <1>2. UNCHANGED <<status, slot, clients>> /\ req' = [req EXCEPT ![r] = n]
    BY DEF LoadForStatus
  <1> HIDE DEF n
  <1> QED BY <1>1, <1>2, LoadKeepsInv

\* Loading a row for a status change keeps the invariant.
LEMMA BeginStatusInv ==
  ASSUME IInv, NEW r \in Requests, NEW a \in ApptIds,
         BeginChangeStatus(r, a) \/ BeginCancel(r, a)
  PROVE  IInv'
  <1>1. status[a] \in AppointmentStatus \cup {"absent"} /\ status[a] # "requested"
    BY DEF IInv, TypeOK, NeverRequested
  <1>2. CASE BeginChangeStatus(r, a)
    <2>1. PICK to \in Transitions[status[a]] : LoadForStatus(r, a, to)
      BY <1>2 DEF BeginChangeStatus
    <2>2. to \in Closing /\ status[a] # "absent"
      BY <1>1, <1>2 DEF BeginChangeStatus, Transitions, AppointmentStatus, Closing
    <2> QED BY <2>1, <2>2, LoadForStatusInv
  <1>3. CASE BeginCancel(r, a)
    BY <1>3, LoadForStatusInv DEF BeginCancel, Open, CancellableStatuses, Closing
  <1> QED BY <1>2, <1>3

\* A rolled back request writes nothing and frees its locks.
LEMMA RollbackInv == ASSUME IInv, NEW r \in Requests, Rollback(r) PROVE IInv'
  <1>1. Idle \in Request
    BY DEF Request
  <1> QED BY <1>1, LoadKeepsInv DEF Rollback

-----------------------------------------------------------------------------
(* The overlap check takes the lock, and the commits use it.                *)

\* The answer of the check is true when the lock is taken, and on PostgreSQL
\* nobody else has the provider's row.
LEMMA CheckSlotInv ==
  ASSUME IInv, NEW r \in Requests, CheckNewSlot(r) \/ CheckMove(r)
  PROVE  IInv'
  <1>1. CheckSlot(r, Others(r))
    BY DEF CheckNewSlot, CheckMove, Others
  <1>2. /\ req[r] # Idle /\ req[r].op \in {"create", "reschedule"}
        /\ req' = [req EXCEPT ![r].step = "checked"]
        /\ UNCHANGED <<status, slot, clients>>
    BY <1>1 DEF CheckSlot, CheckNewSlot, CheckMove
  <1>3. req \in [Requests -> Request]
    BY DEF IInv, TypeOK
  <1>4. req[r] \in Request /\ req[r] \notin {Idle}
    BY <1>2, <1>3
  <1>5. /\ [req[r] EXCEPT !.step = "checked"] \in Request \ {Idle}
        /\ [req[r] EXCEPT !.step = "checked"].slot = req[r].slot
        /\ [req[r] EXCEPT !.step = "checked"].op = req[r].op
        /\ [req[r] EXCEPT !.step = "checked"].new = req[r].new
        /\ req[r].op = "reschedule" => [req[r] EXCEPT !.step = "checked"].appt = req[r].appt
    BY <1>2, <1>4 DEF Request, Idle
  <1>6. /\ req'[r] = [req[r] EXCEPT !.step = "checked"]
        /\ \A q \in Requests \ {r} : req'[q] = req[q]
    BY <1>2, <1>3
  <1>7. /\ req'[r] # Idle /\ req'[r].slot = req[r].slot /\ req'[r].op = req[r].op
        /\ req'[r].new = req[r].new
        /\ req[r].op = "reschedule" => req'[r].appt = req[r].appt
    BY <1>5, <1>6
  <1>8. TypeOK'
    BY <1>2, <1>3, <1>5 DEF IInv, TypeOK
  <1>9. LoadedRows'
    BY <1>2, <1>6, <1>7 DEF IInv, LoadedRows, OnTime
  <1>10. CheckedSlots'
    <2> SUFFICES ASSUME NEW q \in Requests, Locked(q)'
                 PROVE  (\A a \in Others(q) : Open(a) => ~overlaps(slot[a], req[q].slot))'
      BY DEF CheckedSlots
    <2>1. CASE q = r
      <3>1. \A a \in Others(r) : Live(a) => ~overlaps(slot[a], req[r].slot)
        BY <1>1 DEF CheckSlot, has_overlap
      <3>2. \A a \in ApptIds : Open(a) => Live(a)
        BY DEF Open, Live, CancellableStatuses
      <3>3. Others(q)' = Others(r) /\ Others(r) \subseteq ApptIds
        BY <1>7, <2>1 DEF Others
      <3> QED BY <1>2, <1>7, <2>1, <3>1, <3>2, <3>3 DEF Open, overlaps
    <2>2. CASE q # r
      <3>1. Locked(q) /\ req'[q] = req[q]
        BY <1>6, <2>2 DEF Locked, checked
      <3>2. \A a \in Others(q) : Open(a) => ~overlaps(slot[a], req[q].slot)
        BY <3>1 DEF IInv, CheckedSlots
      <3> QED BY <1>2, <3>1, <3>2 DEF Others, Open, overlaps
    <2> QED BY <2>1, <2>2
  <1>11. OneHolder'
    <2> SUFFICES ASSUME RowLocks, NEW p \in Requests, NEW q \in Requests, p # q,
                        checked(p)', checked(q)'
                 PROVE  req'[p].slot.provider # req'[q].slot.provider
      BY DEF OneHolder
    <2>1. \A x \in Requests \ {r} : checked(x)' => checked(x) /\ req'[x] = req[x]
      BY <1>6 DEF checked
    <2>2. \A x \in Requests \ {r} : checked(x) => req[x].slot.provider # req[r].slot.provider
      BY <1>1 DEF CheckSlot, row_lock_is_free
    <2> QED BY <1>7, <2>1, <2>2 DEF IInv, OneHolder
  <1>12. NeverRequested' /\ (RowLocks => NoDoubleBooking)' /\ LiveStartsDiffer'
    BY <1>2 DEF IInv, NeverRequested, NoDoubleBooking, LiveStartsDiffer, Open, Live, overlaps
  <1> QED BY <1>8, <1>9, <1>10, <1>11, <1>12 DEF IInv

\* Overlap does not depend on the order of the two slots.
LEMMA OverlapSymmetric ==
  ASSUME NEW s, NEW t, overlaps(s, t) PROVE overlaps(t, s)
  BY DEF overlaps

\* A request that ends leaves the lock to nobody: the others keep what they have.
LEMMA OthersKeepLocks ==
  ASSUME IInv, NEW r \in Requests, req' = [req EXCEPT ![r] = Idle]
  PROVE  /\ req'[r] = Idle
         /\ \A q \in Requests \ {r} : req'[q] = req[q]
         /\ \A q \in Requests : checked(q)' => q # r /\ checked(q) /\ req'[q] = req[q]
         /\ \A q \in Requests : Locked(q)' => q # r /\ Locked(q) /\ req'[q] = req[q]
         /\ req' \in [Requests -> Request]
         /\ OneHolder'
  <1>1. req \in [Requests -> Request] /\ Idle \in Request
    BY DEF IInv, TypeOK, Request
  <1>2. req'[r] = Idle /\ \A q \in Requests \ {r} : req'[q] = req[q]
    BY <1>1
  <1>3. \A q \in Requests : checked(q)' => q # r /\ checked(q) /\ req'[q] = req[q]
    BY <1>2 DEF checked
  <1>4. \A q \in Requests : Locked(q)' => q # r /\ Locked(q) /\ req'[q] = req[q]
    BY <1>3 DEF Locked
  <1>5. OneHolder'
    BY <1>3 DEF IInv, OneHolder
  <1> QED BY <1>1, <1>2, <1>3, <1>4, <1>5

\* Writing a slot that was checked under a lock disturbs no other checked slot:
\* on PostgreSQL the others are for other providers, on SQLite nobody else holds
\* the write lock.
LEMMA WriteRespectsChecks ==
  ASSUME IInv, NEW r \in Requests, checked(r), write_lock_is_free(r),
         NEW q \in Requests, q # r, Locked(q)
  PROVE  ~overlaps(req[r].slot, req[q].slot)
  <1>1. CASE RowLocks
    <2>1. req[q].slot.provider # req[r].slot.provider
      BY <1>1 DEF IInv, OneHolder, Locked
    <2> QED BY <2>1 DEF overlaps
  <1>2. CASE ~RowLocks
    BY <1>2 DEF write_lock_is_free, holds_write_lock, Locked
  <1> QED BY <1>1, <1>2

\* A committed booking fills a row that nobody refers to yet.
LEMMA CommitCreateInv ==
  ASSUME IInv, NEW r \in Requests, NEW a \in ApptIds, CommitCreate(r, a)
  PROVE  IInv'
  <1> USE DEF CommitCreate
  <1>1. /\ checked(r) /\ req[r] # Idle /\ req[r].op = "create" /\ write_lock_is_free(r)
        /\ req[r] \in Request /\ req[r].slot \in Slot /\ OnTime(req[r].slot)
        /\ Others(r) = ApptIds
    <2>1. req[r] \in Request
      BY DEF IInv, TypeOK
    <2> QED BY <2>1 DEF checked, Request, Idle, IInv, LoadedRows, Others
  <1>2. /\ status' = [status EXCEPT ![a] = "confirmed"]
        /\ slot' = [slot EXCEPT ![a] = req[r].slot]
        /\ req' = [req EXCEPT ![r] = Idle]
    OBVIOUS
  <1>3. /\ status'[a] = "confirmed" /\ slot'[a] = req[r].slot
        /\ \A b \in ApptIds \ {a} : status'[b] = status[b] /\ slot'[b] = slot[b]
    BY <1>2 DEF IInv, TypeOK
  <1>4. \A b \in ApptIds \ {a} : Open(b)' = Open(b) /\ Live(b)' = Live(b)
    BY <1>3 DEF Open, Live
  <1>5. TypeOK'
    <2>1. status' \in [ApptIds -> AppointmentStatus \cup {"absent"}] /\ slot' \in [ApptIds -> Slot]
      BY <1>1, <1>2 DEF IInv, TypeOK, AppointmentStatus
    <2>2. \A b \in ApptIds :
             status'[b] # "absent" => slot'[b].to = slot'[b].from + Duration[slot'[b].type]
      BY <1>1, <1>3 DEF IInv, TypeOK, OnTime
    <2>3. \A u \in Users : clients'[u] \in Nat
      BY DEF IInv, TypeOK
    <2>4. clients' \in [Users -> Nat]
      BY <2>3
    <2> QED BY <1>2, <2>1, <2>2, <2>4, OthersKeepLocks DEF TypeOK
  <1>6. LoadedRows'
    <2> SUFFICES ASSUME NEW q \in Requests, req'[q] # Idle
                 PROVE  (/\ req[q].op = "create" =>
                               /\ OnTime(req[q].slot)
                               /\ req[q].slot.booked_by = "guest" => req[q].new
                         /\ req[q].op = "reschedule" =>
                               /\ OnTime(req[q].slot)
                               /\ status[req[q].appt] # "absent"
                               /\ req[q].slot.provider = slot[req[q].appt].provider
                               /\ req[q].slot.booked_by = slot[req[q].appt].booked_by
                         /\ req[q].op = "status" =>
                               status[req[q].appt] # "absent" /\ req[q].to \in Closing)'
      BY DEF LoadedRows
    <2>1. q # r /\ req'[q] = req[q] /\ req[q] \in Request
      BY <1>2, OthersKeepLocks DEF IInv, TypeOK
    <2>2. CASE req[q].op = "create"
      BY <2>1, <2>2 DEF IInv, LoadedRows, OnTime
    <2>3. CASE req[q].op \in {"reschedule", "status"}
      <3>1. req[q].appt \in ApptIds /\ req[q].appt # a
        BY <2>1, <2>3 DEF IInv, LoadedRows, Request, Idle
      <3> QED BY <1>3, <2>1, <2>3, <3>1 DEF IInv, LoadedRows, OnTime
    <2> QED BY <2>1, <2>2, <2>3
  <1>7. CheckedSlots'
    <2> SUFFICES ASSUME NEW q \in Requests, Locked(q)', NEW b \in Others(q)', Open(b)'
                 PROVE  ~overlaps(slot'[b], req'[q].slot)
      BY DEF CheckedSlots, overlaps
    <2>1. q # r /\ Locked(q) /\ req'[q] = req[q]
      BY <1>2, OthersKeepLocks
    <2>2. b \in Others(q) /\ b \in ApptIds
      BY <2>1 DEF Others
    <2>3. CASE b = a
      BY <1>1, <1>3, <2>1, <2>3, WriteRespectsChecks
    <2>4. CASE b # a
      BY <1>3, <1>4, <2>1, <2>2, <2>4 DEF IInv, CheckedSlots
    <2> QED BY <2>3, <2>4
  <1>8. RowLocks => NoDoubleBooking'
    <2> SUFFICES ASSUME RowLocks, NEW b \in ApptIds, NEW c \in ApptIds, b # c,
                        Open(b)', Open(c)'
                 PROVE  ~overlaps(slot'[b], slot'[c])
      BY DEF NoDoubleBooking, overlaps
    <2>1. \A d \in ApptIds : Open(d) => ~overlaps(slot[d], req[r].slot)
      BY <1>1 DEF IInv, CheckedSlots, Locked
    <2>2. \A d \in ApptIds : Open(d) => ~overlaps(req[r].slot, slot[d])
      BY <2>1, OverlapSymmetric
    <2> QED BY <1>3, <1>4, <2>1, <2>2 DEF IInv, NoDoubleBooking
  <1>9. LiveStartsDiffer'
    BY <1>3, <1>4 DEF IInv, LiveStartsDiffer, start_is_free
  <1>10. NeverRequested'
    BY <1>3 DEF IInv, NeverRequested
  <1> QED BY <1>2, <1>5, <1>6, <1>7, <1>8, <1>9, <1>10, OthersKeepLocks DEF IInv

\* A committed move keeps the provider, and lands on the slot that was checked.
LEMMA CommitRescheduleInv ==
  ASSUME IInv, NEW r \in Requests, CommitReschedule(r)
  PROVE  IInv'
  <1> DEFINE a == req[r].appt
             changed == req[r].slot.from # req[r].old \/ ~RowLocks
  <1>1. /\ checked(r) /\ req[r] # Idle /\ req[r].op = "reschedule" /\ write_lock_is_free(r)
        /\ a \in ApptIds /\ req[r].slot \in Slot /\ OnTime(req[r].slot)
        /\ req[r].slot.provider = slot[a].provider
        /\ req[r].slot.booked_by = slot[a].booked_by
        /\ Others(r) = ApptIds \ {a}
    <2>1. req[r] \in Request
      BY DEF IInv, TypeOK
    <2> QED BY <2>1 DEF CommitReschedule, checked, Request, Idle, IInv, LoadedRows, Others
  <1>2. /\ req' = [req EXCEPT ![r] = Idle]
        /\ UNCHANGED <<status, clients>>
        /\ changed /\ Live(a) => start_is_free(a, req[r].slot)
        /\ slot' = IF changed THEN [slot EXCEPT ![a] = req[r].slot] ELSE slot
    BY DEF CommitReschedule
  <1>3. /\ slot'[a] \in {slot[a], req[r].slot}
        /\ Live(a) /\ slot'[a] # slot[a] => start_is_free(a, req[r].slot)
        /\ \A b \in ApptIds \ {a} : slot'[b] = slot[b]
    BY <1>1, <1>2 DEF IInv, TypeOK
  <1> HIDE DEF changed
  <1>4. \A b \in ApptIds : Open(b)' = Open(b) /\ Live(b)' = Live(b)
    BY <1>2 DEF Open, Live
  <1>5. TypeOK'
    <2>1. slot' \in [ApptIds -> Slot]
      BY <1>1, <1>2 DEF IInv, TypeOK
    <2>2. \A b \in ApptIds :
             status'[b] # "absent" => slot'[b].to = slot'[b].from + Duration[slot'[b].type]
      BY <1>1, <1>2, <1>3 DEF IInv, TypeOK, OnTime
    <2> QED BY <1>2, <2>1, <2>2, OthersKeepLocks DEF IInv, TypeOK
  <1>6. \A b \in ApptIds : slot'[b].provider = slot[b].provider /\ slot'[b].booked_by = slot[b].booked_by
    BY <1>1, <1>3
  <1>7. LoadedRows'
    <2> SUFFICES ASSUME NEW q \in Requests, req'[q] # Idle
                 PROVE  (/\ req[q].op = "create" =>
                               /\ OnTime(req[q].slot)
                               /\ req[q].slot.booked_by = "guest" => req[q].new
                         /\ req[q].op = "reschedule" =>
                               /\ OnTime(req[q].slot)
                               /\ status[req[q].appt] # "absent"
                               /\ req[q].slot.provider = slot[req[q].appt].provider
                               /\ req[q].slot.booked_by = slot[req[q].appt].booked_by
                         /\ req[q].op = "status" =>
                               status[req[q].appt] # "absent" /\ req[q].to \in Closing)'
      BY DEF LoadedRows
    <2>1. q # r /\ req'[q] = req[q] /\ req[q] \in Request
      BY <1>2, OthersKeepLocks DEF IInv, TypeOK
    <2>2. req[q].op = "reschedule" => req[q].appt \in ApptIds
      BY <2>1 DEF Request, Idle
    <2> QED BY <1>2, <1>6, <2>1, <2>2 DEF IInv, LoadedRows, OnTime
  <1>8. CheckedSlots'
    <2> SUFFICES ASSUME NEW q \in Requests, Locked(q)', NEW b \in Others(q)', Open(b)'
                 PROVE  ~overlaps(slot'[b], req'[q].slot)
      BY DEF CheckedSlots, overlaps
    <2>1. q # r /\ Locked(q) /\ req'[q] = req[q]
      BY <1>2, OthersKeepLocks
    <2>2. b \in Others(q) /\ b \in ApptIds /\ Open(b)
      BY <1>4, <2>1 DEF Others
    <2>3. CASE slot'[b] = slot[b]
      BY <2>1, <2>2, <2>3 DEF IInv, CheckedSlots
    <2>4. CASE slot'[b] = req[r].slot
      BY <1>1, <2>1, <2>4, WriteRespectsChecks
    <2> QED BY <1>3, <2>2, <2>3, <2>4
  <1>9. RowLocks => NoDoubleBooking'
    <2> SUFFICES ASSUME RowLocks, NEW b \in ApptIds, NEW c \in ApptIds, b # c,
                        Open(b)', Open(c)'
                 PROVE  ~overlaps(slot'[b], slot'[c])
      BY DEF NoDoubleBooking, overlaps
    <2>1. \A d \in ApptIds \ {a} : Open(d) => ~overlaps(slot[d], req[r].slot)
      BY <1>1 DEF IInv, CheckedSlots, Locked
    <2>2. \A d \in ApptIds \ {a} : Open(d) => ~overlaps(req[r].slot, slot[d])
      BY <2>1, OverlapSymmetric
    <2>3. ~overlaps(slot[b], slot[c])
      BY <1>4 DEF IInv, NoDoubleBooking
    <2> QED BY <1>3, <1>4, <2>1, <2>2, <2>3
  <1>10. LiveStartsDiffer'
    <2> SUFFICES ASSUME NEW b \in ApptIds, NEW c \in ApptIds, b # c, Live(b), Live(c),
                        slot[b].provider = slot[c].provider
                 PROVE  slot'[b].from # slot'[c].from
      BY <1>4, <1>6 DEF LiveStartsDiffer
    <2>1. slot[b].from # slot[c].from
      BY DEF IInv, LiveStartsDiffer
    <2> QED BY <1>1, <1>3, <2>1 DEF start_is_free
  <1>11. NeverRequested'
    BY <1>2 DEF IInv, NeverRequested
  <1> QED BY <1>2, <1>5, <1>7, <1>8, <1>9, <1>10, <1>11, OthersKeepLocks DEF IInv

\* A status change, however stale, closes its appointment.
LEMMA CommitStatusCloses ==
  ASSUME IInv, NEW r \in Requests, CommitStatus(r)
  PROVE  \E a \in ApptIds :
            /\ a = req[r].appt /\ status[a] # "absent"
            /\ status'[a] = req[r].to /\ req[r].to \in Closing
            /\ \A b \in ApptIds \ {a} : status'[b] = status[b]
            /\ \A b \in ApptIds : Open(b)' => Open(b)
            /\ ~Open(a)'
  <1>1. req[r] \in Request /\ req[r] # Idle /\ req[r].op = "status"
    BY DEF IInv, TypeOK, CommitStatus, Idle
  <1>2. req[r].appt \in ApptIds
    BY <1>1 DEF Request, Idle
  <1>3. status[req[r].appt] # "absent" /\ req[r].to \in Closing
    BY <1>1 DEF IInv, LoadedRows
  <1>4. PICK a \in ApptIds : a = req[r].appt
    BY <1>2
  <1>5. status'[a] = req[r].to /\ \A b \in ApptIds \ {a} : status'[b] = status[b]
    BY <1>4 DEF CommitStatus, IInv, TypeOK
  <1>6. ~Open(a)'
    BY <1>3, <1>4, <1>5 DEF Open, CancellableStatuses, Closing
  <1>7. \A b \in ApptIds : Open(b)' => Open(b)
    BY <1>5, <1>6 DEF Open
  <1> QED BY <1>3, <1>4, <1>5, <1>6, <1>7

\* A committed status change keeps the invariant: it moves nothing.
LEMMA CommitStatusInv ==
  ASSUME IInv, NEW r \in Requests, CommitStatus(r)
  PROVE  IInv'
  <1>2. PICK a \in ApptIds :
            /\ a = req[r].appt /\ status[a] # "absent"
            /\ status'[a] = req[r].to /\ req[r].to \in Closing
            /\ \A b \in ApptIds \ {a} : status'[b] = status[b]
            /\ \A b \in ApptIds : Open(b)' => Open(b)
    BY CommitStatusCloses
  <1>1. /\ req' = [req EXCEPT ![r] = Idle]
        /\ UNCHANGED <<slot, clients>>
        /\ req[r].to # "cancelled" => start_is_free(a, slot[a])
        /\ status' = [status EXCEPT ![a] = req[r].to]
    BY <1>2 DEF CommitStatus
  <1>3. TypeOK'
    BY <1>1, <1>2, OthersKeepLocks DEF IInv, TypeOK, Closing, AppointmentStatus
  <1>4. LoadedRows'
    <2>1. \A b \in ApptIds : status[b] # "absent" => status'[b] # "absent"
      BY <1>2 DEF Closing
    <2> SUFFICES ASSUME NEW q \in Requests, req'[q] # Idle
                 PROVE  (/\ req[q].op = "create" =>
                               /\ OnTime(req[q].slot)
                               /\ req[q].slot.booked_by = "guest" => req[q].new
                         /\ req[q].op = "reschedule" =>
                               /\ OnTime(req[q].slot)
                               /\ status[req[q].appt] # "absent"
                               /\ req[q].slot.provider = slot[req[q].appt].provider
                               /\ req[q].slot.booked_by = slot[req[q].appt].booked_by
                         /\ req[q].op = "status" =>
                               status[req[q].appt] # "absent" /\ req[q].to \in Closing)'
      BY DEF LoadedRows
    <2>2. q # r /\ req'[q] = req[q] /\ req[q] \in Request
      BY <1>1, OthersKeepLocks DEF IInv, TypeOK
    <2>3. req[q].op \in {"reschedule", "status"} => req[q].appt \in ApptIds
      BY <2>2 DEF Request, Idle
    <2> QED BY <1>1, <2>1, <2>2, <2>3 DEF IInv, LoadedRows, OnTime
  <1>5. CheckedSlots'
    <2> SUFFICES ASSUME NEW q \in Requests, Locked(q)', NEW b \in Others(q)', Open(b)'
                 PROVE  ~overlaps(slot'[b], req'[q].slot)
      BY DEF CheckedSlots, overlaps
    <2>1. q # r /\ Locked(q) /\ req'[q] = req[q]
      BY <1>1, OthersKeepLocks
    <2>2. b \in Others(q) /\ b \in ApptIds
      BY <2>1 DEF Others
    <2> QED BY <1>1, <1>2, <2>1, <2>2 DEF IInv, CheckedSlots
  <1>6. RowLocks => NoDoubleBooking'
    BY <1>1, <1>2 DEF IInv, NoDoubleBooking, overlaps
  <1>7. LiveStartsDiffer'
    <2>1. \A b \in ApptIds \ {a} : Live(b)' = Live(b)
      BY <1>2 DEF Live
    <2>2. Live(a)' => start_is_free(a, slot[a])
      BY <1>1, <1>2 DEF Live
    <2> QED BY <1>1, <1>2, <2>1, <2>2 DEF IInv, LiveStartsDiffer, start_is_free
  <1>8. NeverRequested'
    BY <1>2 DEF IInv, NeverRequested, Closing
  <1> QED BY <1>1, <1>3, <1>4, <1>5, <1>6, <1>7, <1>8, OthersKeepLocks DEF IInv

-----------------------------------------------------------------------------
(* The theorems.                                                            *)

\* Every step keeps the invariant.
LEMMA NextInv == IInv /\ [Next]_vars => IInv'
  <1> SUFFICES ASSUME IInv, [Next]_vars PROVE IInv'
    OBVIOUS
  <1>1. ASSUME NEW r \in Requests, BeginCreate(r) PROVE IInv'
    BY <1>1, BeginCreateInv
  <1>2. ASSUME NEW r \in Requests, CheckNewSlot(r) \/ CheckMove(r) PROVE IInv'
    BY <1>2, CheckSlotInv
  <1>3. ASSUME NEW r \in Requests, NEW a \in ApptIds, CommitCreate(r, a) PROVE IInv'
    BY <1>3, CommitCreateInv
  <1>4. ASSUME NEW r \in Requests, NEW a \in ApptIds, BeginReschedule(r, a) PROVE IInv'
    BY <1>4, BeginRescheduleInv
  <1>5. ASSUME NEW r \in Requests, CommitReschedule(r) PROVE IInv'
    BY <1>5, CommitRescheduleInv
  <1>6. ASSUME NEW r \in Requests, NEW a \in ApptIds,
               BeginChangeStatus(r, a) \/ BeginCancel(r, a)
        PROVE IInv'
    BY <1>6, BeginStatusInv
  <1>7. ASSUME NEW r \in Requests, CommitStatus(r) PROVE IInv'
    BY <1>7, CommitStatusInv
  <1>8. ASSUME NEW r \in Requests, Rollback(r) PROVE IInv'
    BY <1>8, RollbackInv
  <1>9. CASE UNCHANGED vars
    BY <1>9 DEF vars, IInv, TypeOK, NeverRequested, LoadedRows, OnTime, CheckedSlots, Others,
                Locked, checked, OneHolder, NoDoubleBooking, LiveStartsDiffer, Open, Live,
                overlaps
  <1> QED
    BY <1>1, <1>2, <1>3, <1>4, <1>5, <1>6, <1>7, <1>8, <1>9 DEF Next

\* The strengthened invariant holds in every reachable state, on both databases.
THEOREM BookingInvariance == Spec => []IInv
  BY InitInv, NextInv, PTL DEF Spec

\* Rows keep their types and appointments their length.
THEOREM BookingTypeCorrect == Spec => []TypeOK
  <1>1. IInv => TypeOK
    BY DEF IInv
  <1> QED BY <1>1, BookingInvariance, PTL

\* If the provider's row lock locks, no provider is booked twice at one time: the
\* overlap check is made under the lock that the insert and the move keep.
THEOREM LockedBookingsNeverOverlap ==
  ASSUME RowLocks
  PROVE  Spec => []NoDoubleBooking
  <1>1. IInv => NoDoubleBooking
    BY DEF IInv
  <1> QED BY <1>1, BookingInvariance, PTL

\* With or without row locks, two live appointments never start together.
THEOREM StartsDiffer == Spec => []LiveStartsDiffer
  <1>1. IInv => LiveStartsDiffer
    BY DEF IInv
  <1> QED BY <1>1, BookingInvariance, PTL

\* Which rows a step touches: one is booked, one is moved, one is closed, or the
\* rows stay as they are.
LEMMA RowsOfStep ==
  ASSUME IInv, [Next]_vars
  PROVE  \/ \E r \in Requests, a \in ApptIds : CommitCreate(r, a)
         \/ \E r \in Requests : CommitReschedule(r) \/ CommitStatus(r)
         \/ UNCHANGED <<status, slot>>
  BY DEF Next, vars, BeginCreate, CheckNewSlot, CheckMove, CheckSlot, Rollback,
         BeginReschedule, BeginChangeStatus, BeginCancel, LoadForStatus

\* What a booking does to the rows.
LEMMA BookedRow ==
  ASSUME IInv, NEW r \in Requests, NEW a \in ApptIds, CommitCreate(r, a)
  PROVE  /\ status[a] = "absent" /\ status'[a] = "confirmed" /\ slot'[a] = req[r].slot
         /\ \A b \in ApptIds \ {a} : status'[b] = status[b] /\ slot'[b] = slot[b]
         /\ checked(r)
         /\ req[r].slot.booked_by = "guest" => req[r].new
         /\ \A b \in ApptIds : Locked(r) /\ Open(b) => ~overlaps(slot[b], slot'[a])
  <1>1. req[r] # Idle /\ req[r].op = "create" /\ checked(r)
    BY DEF CommitCreate, checked
  <1>2. /\ status[a] = "absent" /\ status'[a] = "confirmed" /\ slot'[a] = req[r].slot
        /\ \A b \in ApptIds \ {a} : status'[b] = status[b] /\ slot'[b] = slot[b]
    BY DEF CommitCreate, IInv, TypeOK
  <1>3. req[r].slot.booked_by = "guest" => req[r].new
    BY <1>1 DEF IInv, LoadedRows
  <1>4. \A b \in ApptIds : Locked(r) /\ Open(b) => ~overlaps(slot[b], slot'[a])
    BY <1>1, <1>2 DEF IInv, CheckedSlots, Others
  <1> QED BY <1>1, <1>2, <1>3, <1>4

\* A guest's booking lands on a free slot on both databases.
THEOREM GuestsAreSerialised == Spec => GuestLandsOnFreeSlot
  <1> DEFINE Lands == \A a, b \in ApptIds :
          status[a] = "absent" /\ status'[a] # "absent" /\ slot'[a].booked_by = "guest"
             /\ Open(b) => ~overlaps(slot[b], slot'[a])
  <1>1. ASSUME IInv, [Next]_vars PROVE Lands
    <2> SUFFICES ASSUME NEW a \in ApptIds, NEW b \in ApptIds,
                        status[a] = "absent", status'[a] # "absent",
                        slot'[a].booked_by = "guest", Open(b)
                 PROVE  ~overlaps(slot[b], slot'[a])
      OBVIOUS
    <2>1. CASE \E r \in Requests, c \in ApptIds : CommitCreate(r, c)
      <3>1. PICK r \in Requests, c \in ApptIds : CommitCreate(r, c)
        BY <2>1
      <3>2. c = a
        BY <1>1, <3>1, BookedRow
      <3>3. Locked(r)
        BY <1>1, <3>1, <3>2, BookedRow DEF Locked
      <3> QED BY <1>1, <3>1, <3>2, <3>3, BookedRow
    <2>2. CASE \E r \in Requests : CommitReschedule(r)
      BY <2>2 DEF CommitReschedule
    <2>3. CASE \E r \in Requests : CommitStatus(r)
      BY <1>1, <2>3, CommitStatusCloses
    <2>4. CASE UNCHANGED <<status, slot>>
      BY <2>4
    <2> QED BY <1>1, <2>1, <2>2, <2>3, <2>4, RowsOfStep
  <1>2. ASSUME IInv, [Next]_vars PROVE [Lands]_vars
    BY <1>1, <1>2
  <1> QED BY <1>2, BookingInvariance, PTL DEF Spec, GuestLandsOnFreeSlot

\* A closed appointment is never open again.
THEOREM ClosedIsFinal == Spec => ClosedStaysClosed
  <1> DEFINE Stays == \A a \in ApptIds : status[a] # "absent" /\ ~Open(a) => ~Open(a)'
  <1>1. ASSUME IInv, [Next]_vars PROVE Stays
    <2>1. CASE \E r \in Requests, a \in ApptIds : CommitCreate(r, a)
      BY <1>1, <2>1, BookedRow DEF Open
    <2>2. CASE \E r \in Requests : CommitReschedule(r)
      BY <2>2 DEF CommitReschedule, Open
    <2>3. CASE \E r \in Requests : CommitStatus(r)
      BY <1>1, <2>3, CommitStatusCloses
    <2>4. CASE UNCHANGED <<status, slot>>
      BY <2>4 DEF Open
    <2> QED BY <1>1, <2>1, <2>2, <2>3, <2>4, RowsOfStep
  <1>2. ASSUME IInv, [Next]_vars PROVE [Stays]_vars
    BY <1>1, <1>2
  <1> QED BY <1>2, BookingInvariance, PTL DEF Spec, ClosedStaysClosed

-----------------------------------------------------------------------------
(* With row locks, Appointments implements Calendar.                        *)

\* With nothing booked the diary is empty.
LEMMA InitDiary == Init => Booked!Init
  <1> SUFFICES ASSUME Init PROVE Booked!Init
    OBVIOUS
  <1>1. {b \in ApptIds : Open(b)} = {} /\ Closed = {}
    BY DEF Init, Open, CancellableStatuses, Closed
  <1> QED BY <1>1 DEF Booked!Init, Diary

\* Every step of the requests is a step of the diary or leaves it alone.
LEMMA StepDiary ==
  ASSUME RowLocks, IInv, IInv', [Next]_vars
  PROVE  [Booked!Next]_(Booked!vars)
  <1>1. /\ \A a \in DOMAIN Diary : a \in ApptIds /\ Open(a) /\ Diary[a] = Interval(slot[a])
        /\ \A a \in ApptIds : Open(a) => a \in DOMAIN Diary
    BY DEF Diary
  <1>2. /\ \A a \in DOMAIN Diary' : a \in ApptIds /\ Open(a)' /\ Diary'[a] = Interval(slot'[a])
        /\ \A a \in ApptIds : Open(a)' => a \in DOMAIN Diary'
    BY DEF Diary
  <1>3. \A a, b \in DOMAIN Diary' : a # b => Booked!Disjoint(Diary'[a], Diary'[b])
    <2> SUFFICES ASSUME NEW a \in DOMAIN Diary', NEW b \in DOMAIN Diary', a # b
                 PROVE  Booked!Disjoint(Diary'[a], Diary'[b])
      OBVIOUS
    <2>1. ~overlaps(slot'[a], slot'[b])
      BY <1>2 DEF IInv, NoDoubleBooking, overlaps
    <2>2. slot'[a] \in Slot /\ slot'[b] \in Slot
      BY <1>2 DEF IInv, TypeOK
    <2> QED BY <1>2, <2>1, <2>2 DEF overlaps, Slot, Interval, Booked!Disjoint
  <1>4. CASE \E r \in Requests, a \in ApptIds : CommitCreate(r, a)
    <2>1. PICK r \in Requests, a \in ApptIds : CommitCreate(r, a)
      BY <1>4
    <2>2. /\ status[a] = "absent" /\ status'[a] = "confirmed"
          /\ \A b \in ApptIds \ {a} : status'[b] = status[b] /\ slot'[b] = slot[b]
      BY <2>1, BookedRow
    <2>3. \A b \in ApptIds \ {a} : Open(b)' = Open(b)
      BY <2>2 DEF Open
    <2>4. ~Open(a) /\ Open(a)'
      BY <2>2 DEF Open, CancellableStatuses
    <2>5. DOMAIN Diary' = DOMAIN Diary \cup {a} /\ a \notin DOMAIN Diary
      BY <1>1, <1>2, <2>3, <2>4
    <2>6. \A b \in DOMAIN Diary : Diary'[b] = Diary[b]
      BY <1>1, <1>2, <2>2, <2>5
    <2>7. Closed' = Closed /\ a \notin Closed
      BY <2>2, <2>3, <2>4 DEF Closed
    <2>8. Booked!Book(a)
      BY <1>3, <2>5, <2>6, <2>7 DEF Booked!Book, Booked!Keep, Booked!Free
    <2> QED BY <2>8 DEF Booked!Next
  <1>5. CASE \E r \in Requests : CommitReschedule(r)
    <2>1. PICK r \in Requests : CommitReschedule(r)
      BY <1>5
    <2>2. PICK a \in ApptIds : a = req[r].appt
      <3>1. req[r] \in Request /\ req[r] # Idle /\ req[r].op = "reschedule"
        BY <2>1 DEF IInv, TypeOK, CommitReschedule, checked
      <3>2. req[r].appt \in ApptIds
        BY <3>1 DEF Request, Idle
      <3> QED BY <3>2
    <2>3. status' = status /\ \A b \in ApptIds \ {a} : slot'[b] = slot[b]
      BY <2>1, <2>2 DEF CommitReschedule, IInv, TypeOK
    <2>4. \A b \in ApptIds : Open(b)' = Open(b)
      BY <2>3 DEF Open
    <2>5. DOMAIN Diary' = DOMAIN Diary /\ Closed' = Closed
      BY <1>1, <1>2, <2>3, <2>4 DEF Closed
    <2>6. \A b \in DOMAIN Diary \ {a} : Diary'[b] = Diary[b]
      BY <1>1, <1>2, <2>3, <2>5
    <2>7. CASE a \in DOMAIN Diary
      <3>1. Booked!Move(a)
        BY <1>3, <2>5, <2>6, <2>7 DEF Booked!Move, Booked!Keep, Booked!Free
      <3> QED BY <3>1 DEF Booked!Next
    <2>8. CASE a \notin DOMAIN Diary
      <3>1. Diary' = Diary
        BY <2>5, <2>6, <2>8 DEF Diary
      <3> QED BY <2>5, <3>1 DEF Booked!vars
    <2> QED BY <2>7, <2>8
  <1>6. CASE \E r \in Requests : CommitStatus(r)
    <2>1. PICK r \in Requests : CommitStatus(r)
      BY <1>6
    <2>2. PICK a \in ApptIds :
             /\ status[a] # "absent" /\ status'[a] \in Closing
             /\ \A b \in ApptIds \ {a} : status'[b] = status[b]
             /\ ~Open(a)'
      BY <2>1, CommitStatusCloses
    <2>3. slot' = slot
      BY <2>1 DEF CommitStatus
    <2>4. \A b \in ApptIds \ {a} : Open(b)' = Open(b)
      BY <2>2 DEF Open
    <2>5. DOMAIN Diary' = DOMAIN Diary \ {a}
      BY <1>1, <1>2, <2>2, <2>4
    <2>6. \A b \in DOMAIN Diary \ {a} : Diary'[b] = Diary[b]
      BY <1>1, <1>2, <2>3, <2>5
    <2>7. Closed' = Closed \cup {a}
      BY <2>2, <2>4 DEF Closed, Closing
    <2>8. CASE Open(a)
      <3>1. Booked!Close(a)
        BY <1>1, <2>5, <2>6, <2>7, <2>8 DEF Booked!Close, Booked!Keep
      <3> QED BY <3>1 DEF Booked!Next
    <2>9. CASE ~Open(a)
      <3>1. a \notin DOMAIN Diary /\ a \in Closed
        BY <1>1, <2>2, <2>9 DEF Closed
      <3>2. Diary' = Diary /\ Closed' = Closed
        BY <2>5, <2>6, <2>7, <3>1 DEF Diary
      <3> QED BY <3>2 DEF Booked!vars
    <2> QED BY <2>8, <2>9
  <1>7. CASE UNCHANGED <<status, slot>>
    BY <1>7 DEF Booked!vars, Diary, Closed, Open
  <1> QED BY <1>4, <1>5, <1>6, <1>7, RowsOfStep

\* If the row lock locks, requests are steps of a diary without double bookings,
\* from which nothing that was closed returns.
THEOREM LockedBookingIsACalendar ==
  ASSUME RowLocks
  PROVE  Spec => ImplementsCalendar
  <1>1. ASSUME IInv, IInv', [Next]_vars PROVE [Booked!Next]_(Booked!vars)
    BY <1>1, StepDiary
  <1> QED BY <1>1, InitDiary, BookingInvariance, PTL DEF Spec, ImplementsCalendar, Booked!Spec
=============================================================================
