-------------------------- MODULE MCEventCatalogue --------------------------
(* A small instance of EventCatalogue for TLC. *)
EXTENDS EventCatalogue, TLC

CONSTANTS m1, m2, t1

\* One meeting is of a competition that TDB knows, the other is not.
OneKnown == m1 :> t1 @@ m2 :> None
=============================================================================
