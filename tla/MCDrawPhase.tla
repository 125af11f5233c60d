---------------------------- MODULE MCDrawPhase ----------------------------
(* Two workers, two items, two runs of the phase; o2 is not valid JSON.      *)
EXTENDS DrawPhase

CONSTANTS c1, c2, r1, r2, o1, o2
============================================================================
