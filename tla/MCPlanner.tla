------------------------------ MODULE MCPlanner ------------------------------
(* Instances of Planner for TLC.                                           *)
EXTENDS Planner, TLC

CONSTANTS s1, s2, c1, c2

\* An operator may drop the first slot; the clock outlives the last.
SlotsChanged == {{1, 2}, {2}}
\* The clock outlives the last slot.
SlotsThenNone == {1..(MaxTime - 1)}
=============================================================================
