------------------------------ MODULE MCJobQueue ------------------------------
(* Small instances of JobQueue for TLC.                                     *)
EXTENDS JobQueue, TLC

CONSTANTS j1, j2, j3, p1, p2

\* j1 may be retried once, j2 not at all.
MCMaxAttempts == [j \in Jobs |-> IF j = j1 THEN 2 ELSE 1]

\* j2 and j3 have the same max_attempts.
QueueSymmetry == Permutations(Processors) \cup Permutations({j2, j3})
=============================================================================
