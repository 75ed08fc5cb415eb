----------------------------- MODULE MCRunLedger -----------------------------
(* Instances of RunLedger for TLC: one schedule, a few occurrences.        *)
EXTENDS RunLedger, TLC

CONSTANTS s1, o1, o2, o3

MCScheduleOf == [o \in Occurrences |-> s1]
MCBackoff == [a \in Attempts |-> 1]
Pol(overlap, max, tracked) == [overlap |-> overlap, max |-> max, tracked |-> tracked]

PoliciesReplace == {Pol("replace", 1, FALSE)}
\* An operator who changes overlap policy and target.
PoliciesEdited == {Pol("allow", 2, TRUE), Pol("replace", 2, FALSE)}
\* Room for one occurrence, and an operator who changes overlap policy and target.
PoliciesOneSlot == {Pol("queue_latest", 2, TRUE), Pol("replace", 2, FALSE)}
\* An operator who lowers the capacity under tracked jobs.
PoliciesLowered == {Pol("allow", 2, TRUE), Pol("forbid", 1, TRUE)}

Interchangeable == Permutations(Occurrences)
=============================================================================
