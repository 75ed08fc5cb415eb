--------------------------- MODULE MCExternalJobs ---------------------------
(***************************************************************************)
(* Instances of ExternalJobs for TLC.                                      *)
(***************************************************************************)
EXTENDS ExternalJobs

CONSTANTS o1, o2, b1, b2

\* The operator moves the work to another runner, which has no lookup URL,
\* and with another body.
MCTargets ==
    {[origin |-> o1, body |-> b1, lookup |-> TRUE],
     [origin |-> o2, body |-> b2, lookup |-> FALSE]}
=============================================================================
