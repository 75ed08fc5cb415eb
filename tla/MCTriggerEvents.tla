-------------------------- MODULE MCTriggerEvents --------------------------
(***************************************************************************)
(* Instances of TriggerEvents for TLC.                                     *)
(***************************************************************************)
EXTENDS TriggerEvents

CONSTANTS d1, d2, d3, d4, e1, x, y

\* Four deliveries of one event, of which one has another payload.
MCEventOf == [d \in Deliveries |-> e1]
MCDataOf == [d \in Deliveries |-> IF d = d4 THEN y ELSE x]
=============================================================================
