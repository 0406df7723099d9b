-------------------------------- MODULE Pages --------------------------------
(***************************************************************************)
(* A tab of either application: the page in it, which is a desk, and the   *)
(* session that its requests are sent in.  Neither reads what the other    *)
(* keeps: whether a request goes through is for the desk one of the        *)
(* answers it may get, and for the session all that it knows of a request. *)
(***************************************************************************)
EXTENDS Desks, Sessions

AtDesk(A) == A /\ UNCHANGED sessionVars
InSession(A) == A /\ UNCHANGED vars

PagesInit == Init /\ SessionInit
PagesNext == AtDesk(Next) \/ InSession(SessionNext)
pagesVars == <<vars, sessionVars>>
PagesSpec == PagesInit /\ [][PagesNext]_pagesVars

\* Every variable has a value of its kind, at the desk and in the session.
PagesTypeOK == DeskTypeOK /\ SessionTypeOK
==============================================================================
