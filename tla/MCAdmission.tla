----------------------------- MODULE MCAdmission -----------------------------
\* Admission with two Reactors, one divide worker and three messages, the last
\* of which needs no credit.
EXTENDS Admission
CONSTANTS m1, m2, m3, r1, r2, w1
==============================================================================
