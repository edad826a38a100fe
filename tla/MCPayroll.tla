------------------------------ MODULE MCPayroll ------------------------------
(* Instances of Payroll for TLC.                                           *)
EXTENDS Payroll, TLC

Symmetry == Permutations(Run)

-----------------------------------------------------------------------------
(* History: did every run so far start after the end of the one before?    *)

VARIABLE alone

MCInit == Init /\ alone = TRUE

MCNext ==
    /\ Next
    /\ alone' = (alone /\ Cardinality({r \in Run : run'[r].at \notin {"idle", "done", "failed"}}) <= 1)

MCSpec == MCInit /\ [][MCNext]_<<vars, alone>>

\* FR-5, as long as runs do not overlap: in a year, no employee is matched
\* beyond the cap, also across a new year, a new rule and failed runs.
WithinCapAlone == alone => WithinCap
=============================================================================
