--------------------------- MODULE MCAppointments ---------------------------
(* Small instances of Appointments for TLC.                                 *)
EXTENDS Appointments, TLC

CONSTANTS p1, p2, short, long

\* One provider offers both lengths, the other only the short one.
AllOffers == {<<p1, short>>, <<p1, long>>, <<p2, short>>}
OneProvider == {<<p1, short>>, <<p1, long>>}

Lengths == [t \in {short, long} |-> IF t = short THEN 1 ELSE 2]

Symmetry == Permutations(ApptIds) \cup Permutations(Requests)
=============================================================================
