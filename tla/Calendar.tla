------------------------------ MODULE Calendar ------------------------------
(***************************************************************************)
(* What booking promises a provider, without requests, locks or stale rows: *)
(* a diary in which every appointment that is still to happen has a time of *)
(* its own, and one that was closed never comes back.                       *)
(***************************************************************************)
EXTENDS Integers

CONSTANTS ApptIds

VARIABLES
    diary,  \* the open appointments, each with its provider and time
    closed  \* the appointments that are over or were called off

vars == <<diary, closed>>

Init == diary = [a \in {} |-> 0] /\ closed = {}

Disjoint(i, j) == i.provider # j.provider \/ i.to <= j.from \/ j.to <= i.from

\* The time that a gets is nobody else's.
Free(a) == \A b \in DOMAIN diary' \ {a} : Disjoint(diary'[a], diary'[b])

Keep(appts) == \A b \in appts : diary'[b] = diary[b]

Book(a) ==
    /\ a \notin DOMAIN diary \cup closed
    /\ DOMAIN diary' = DOMAIN diary \cup {a}
    /\ Keep(DOMAIN diary) /\ Free(a)
    /\ UNCHANGED closed

Move(a) ==
    /\ a \in DOMAIN diary
    /\ DOMAIN diary' = DOMAIN diary
    /\ Keep(DOMAIN diary \ {a}) /\ Free(a)
    /\ UNCHANGED closed

Close(a) ==
    /\ a \in DOMAIN diary
    /\ DOMAIN diary' = DOMAIN diary \ {a}
    /\ Keep(DOMAIN diary \ {a})
    /\ closed' = closed \cup {a}

Next == \E a \in ApptIds : Book(a) \/ Move(a) \/ Close(a)

Spec == Init /\ [][Next]_vars
=============================================================================
