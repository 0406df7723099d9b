---------------------------- MODULE MCScheduling ----------------------------
(* A small instance of Scheduling for TLC.                                  *)
EXTENDS MCAppointments, Scheduling

\* Neighbouring dates fall on different weekdays.
TwoDays == 0..1
DayOfWeek == [d \in TwoDays |-> d]

\* One minute within a date, shorter than a slot, and three across midnight, longer than one.
SomeMoments == {<<2, 4>>, <<8, 14>>}
=============================================================================
