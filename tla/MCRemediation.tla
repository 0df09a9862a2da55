---------------------------- MODULE MCRemediation ----------------------------
(* Small instances of Remediation for TLC.                                  *)
EXTENDS Remediation

CONSTANTS r1, r2, w1, w2, a1, a2

\* Each request fits under the threshold alone, both together do not.
MCSavings == [r \in Requests |-> 2]
=============================================================================
