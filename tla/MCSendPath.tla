---------------------------- MODULE MCSendPath ----------------------------
(* Small instances of SendPath. *)
EXTENDS SendPath, TLC

CONSTANTS a, b, s1, s2
=============================================================================
