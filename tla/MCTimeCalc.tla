----------------------------- MODULE MCTimeCalc -----------------------------
(***************************************************************************)
(* Instances of TimeCalc for TLC.                                          *)
(***************************************************************************)
EXTENDS TimeCalc

\* None, one, and several slots; the slots are whole seconds of Sub units.
MCCrons == {{}, {3}, {0, 6, 9}, {3, 6, 9}}
=============================================================================
