------------------------------ MODULE MCASHARun ------------------------------
(* Four candidates, eta 2, three rungs (capacities 2 and 1).  The order of   *)
(* the candidates differs between the rungs, and two of them tie on the first. *)
EXTENDS ASHARun

MCScore == <<<<3, 1, 1, 2>>, <<1, 4, 2, 3>>, <<1, 2, 3, 4>>>>
==============================================================================
