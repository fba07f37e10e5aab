---------------------------- MODULE MCDelegateJob ----------------------------
(* The job lifecycle on small instances.                                   *)
EXTENDS DelegateJob, TLC

\* Two keys of one checkout (a directory and one inside it), or one.
CONSTANTS k1, k2
MCKey == {k1, k2}
MCConflict == MCKey \X MCKey
MCOneKey == {k1}
MCOneConflict == {<<k1, k1>>}

MCSymmetry == Permutations(Job) \cup Permutations({k1, k2})
=============================================================================
