------------------------------ MODULE MCRunner ------------------------------
(***************************************************************************)
(* Instances of Runner for TLC.                                            *)
(***************************************************************************)
EXTENDS Runner

CONSTANTS k1, k2, k3

\* One job that notifies, in either way, and others that only report and so
\* rewrite the table around it.
MCKeys == {k1, k2, k3}
MCOffers == {<<k1, "native">>, <<k1, "webhook">>, <<k2, "plain">>, <<k3, "plain">>}
=============================================================================
