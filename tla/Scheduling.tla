------------------------------ MODULE Scheduling ------------------------------
(***************************************************************************)
(* The two halves of plugins/scheduling: bookings, and the times that are  *)
(* offered.  Offering only reads, and create_appointment decides again by  *)
(* itself, so that neither half waits for the other: half names the one    *)
(* that a behaviour is about.                                              *)
(***************************************************************************)
EXTENDS Appointments, OpenSlots

VARIABLE half

schedulingVars == <<half, vars, slotsVars>>

SchedulingInit ==
  /\ half \in {"bookings", "open slots"}
  /\ Init /\ SlotsInit
  /\ half = "bookings" => duration = CHOOSE n \in Durations : TRUE

SchedulingNext ==
  /\ UNCHANGED half
  /\ \/ half = "bookings" /\ Next /\ UNCHANGED slotsVars
     \/ half = "open slots" /\ SlotsNext /\ UNCHANGED vars

SchedulingSpec == SchedulingInit /\ [][SchedulingNext]_schedulingVars
=============================================================================
