---------------------------- MODULE AdminScheduling ----------------------------
(***************************************************************************)
(* Pages of the admin panel about bookings, as desks (DeskWords): the      *)
(* week, appointments, availability, clients and their journals, the       *)
(* providers, and the types of appointment.                                *)
(***************************************************************************)
EXTENDS DeskWords, TLC

\* The agenda of a week: a list with a week and a provider to choose.
Agenda == Page("week", TRUE, NoPanels, NoButtons, NoCalls)

(***************************************************************************)
(* Appointments: active is having ended (completed, cancelled, no-show),   *)
(* text being confirmed, flag being cancelled, number the time.  All calls *)
(* share one message; the new time is asked for with prompt().             *)
(***************************************************************************)
AppointmentSaved(sends) ==
  [Decided("appointments", sends) EXCEPT !.clears = {"action"}, !.reports = {"action"}]
UpdateStatus(sends) == [AppointmentSaved(sends) EXCEPT !.via = "updateStatus"]
ForwardTransitions ==
  [confirm |-> [UpdateStatus([text |-> "on"]) EXCEPT !.needs = {"active", "text"}],
   end |-> UpdateStatus([active |-> "on"])]
Reschedule == AppointmentSaved([number |-> "flipped"])
CancelAppointment ==
  [AppointmentSaved([active |-> "on", flag |-> "on"]) EXCEPT !.closes = {"cancel"}]

AppointmentsTable ==
  [confirm |-> Button("list", {"updateStatus"}), end |-> Button("list", {"updateStatus"}),
   reschedule |-> Button("list", {})]
AppointmentsDialog == [cancel |-> Button("cancel", {"cancel"})]
AppointmentsFilters == TRUE

Appointments ==
  Page("appointments", AppointmentsFilters, [cancel |-> Dialog],
       AppointmentsTable @@ AppointmentsDialog,
       ForwardTransitions @@ [reschedule |-> Reschedule, cancel |-> CancelAppointment])

\* The form for a new one; the types depend on the provider, the clients on a search.
NewAppointmentCall ==
  [Created("appointments", "form") EXCEPT !.clears = {"create"}, !.reports = {"create"}]
NewAppointmentForm == [form |-> [Form EXCEPT !.cleans = {"create"}, !.cancels = {"create"}]]
ClientSearch == Page("clients", TRUE, NoPanels, NoButtons, NoCalls)
NewAppointment ==
  Page("appointments", FALSE, NewAppointmentForm, [create |-> Button("form", {"create"})],
       [create |-> NewAppointmentCall])
----------------------------------------------------------------------------
\* Weekly hours, and the days that differ; both forms stay open.
Added(key) == [Created(key, "form") EXCEPT !.closes = {}]
HoursCalls == [create |-> Added("availability"), delete |-> Deleted("availability")]
HoursTable == [create |-> Button("form", {"create"}), delete |-> Button("list", {})]
Hours == Page("availability", TRUE, [form |-> Standing("none")], HoursTable, HoursCalls)

ExceptionsCalls ==
  [create |-> [Added("exceptions") EXCEPT !.empties = {"form"}], delete |-> Deleted("exceptions")]
ExceptionsTable == [create |-> Button("form", {"create"}), delete |-> Button("list", {})]
Exceptions ==
  Page("exceptions", TRUE, [form |-> Standing("none")], ExceptionsTable, ExceptionsCalls)
----------------------------------------------------------------------------
\* Clients; the fields of one are filled again whenever new data comes, but opening and
\* cancelling the editor leaves them alone.
ClientsCalls == [create |-> Created("clients", "form")]
ClientsForm == [form |-> [Form EXCEPT !.cleans = {"error"}, !.cancels = {"error"}]]
Clients ==
  Page("clients", TRUE, ClientsForm, [create |-> Button("form", {"create"})], ClientsCalls)

ClientUpdate ==
  [Edited("client", "demographics", [text |-> "typed", active |-> "typed", note |-> "filled"])
     EXCEPT !.clears = {"demo"}, !.reports = {"demo"}]
ClientFields == [Panel EXCEPT !.fills = "sync", !.cancels = {"demo"}]
ClientForm == [demographics |-> ClientFields]
Client ==
  Page("client", FALSE, ClientForm, [update |-> Button("demographics", {"update"})],
       [update |-> ClientUpdate])
ClientAppointments == Page("appointments", FALSE, NoPanels, NoButtons, NoCalls)

JournalCreate ==
  [Created("journal", "note") EXCEPT !.clears = {"note"}, !.reports = {"note"}]
JournalForm == [note |-> [Form EXCEPT !.cleans = {"note"}, !.cancels = {"note"}]]
Journal ==
  Page("journal", FALSE, JournalForm, [create |-> Button("note", {"create"})],
       [create |-> JournalCreate])

\* An entry that is unfolded; unfolding another one closes the editor.
EntryUpdate == Edited("entry", "edit", [text |-> "typed"])
EntryEditor == [edit |-> [Editor EXCEPT !.cleans = {"error"}, !.cancels = {"error"}]]
JournalEntry ==
  Page("entry", TRUE, EntryEditor, [update |-> Button("edit", {"update"})], [update |-> EntryUpdate])
----------------------------------------------------------------------------
\* Providers and appointment types: the editor opens when the whole record was fetched.
StartEdit ==
  [Call EXCEPT !.does = "other", !.opens = {"edit"}, !.clears = {"editError"}]
Filed(key) ==
  [create |-> [Created(key, "form") EXCEPT !.clears = {"createError"}, !.reports = {"createError"}],
   update |-> [Edited(key, "edit", [text |-> "typed", note |-> "filled"])
                 EXCEPT !.clears = {"editError"}, !.reports = {"editError"}],
   delete |-> [Deleted(key) EXCEPT !.closes = {"confirm"}],
   startEdit |-> StartEdit]
FiledForm == [form |-> [Form EXCEPT !.cleans = {"createError"}, !.cancels = {"createError"}]]
FiledEditor ==
  [edit |-> [Panel EXCEPT !.fills = "call", !.cancels = {"editError"}, !.held = TRUE]]

ProvidersCalls == Filed("providers")
ProvidersForm == FiledForm
ProvidersTable ==
  [create |-> Button("form", {"create"}), update |-> Button("edit", {"update"}),
   startEdit |-> Button("list", {})]
ProvidersDialog == [delete |-> Button("confirm", {"delete"})]
Providers ==
  Page("providers", FALSE, ProvidersForm @@ FiledEditor @@ [confirm |-> Dialog],
       ProvidersTable @@ ProvidersDialog, ProvidersCalls)

TypesCalls == Filed("types")
TypesForm == FiledForm
TypesTable ==
  [create |-> Button("form", {"create"}), update |-> Button("edit", {"update"}),
   startEdit |-> Button("list", {})]
TypesDialog == [delete |-> Button("confirm", {"delete"})]
AppointmentTypes ==
  Page("types", FALSE, TypesForm @@ FiledEditor @@ [confirm |-> Dialog],
       TypesTable @@ TypesDialog, TypesCalls)
==============================================================================
