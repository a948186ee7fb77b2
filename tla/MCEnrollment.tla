---------------------------- MODULE MCEnrollment ----------------------------
EXTENDS Enrollment, TLC

CONSTANTS r1, r2, r3, a1, a2

\* r1 and r2 are two attempts of one machine, r3 is another machine's.
MCAgentOf == (r1 :> a1) @@ (r2 :> a1) @@ (r3 :> a2)
=============================================================================
