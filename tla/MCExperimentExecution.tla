----------------------- MODULE MCExperimentExecution -----------------------
(* Two workers, two experiments, one resource dimension.  The first          *)
(* experiment asks for the whole budget, so the other one is refused until   *)
(* the first is settled for less; a worker may report more than was asked.   *)
EXTENDS ExperimentExecution, TLC

CONSTANTS e1, e2, w1, w2, cpu

MCRequested == [e \in {e1, e2} |-> [d \in {cpu} |-> IF e = e1 THEN 2 ELSE 1]]
MCLimit == [d \in {cpu} |-> 2]
MCUsages == [{cpu} -> {1, 2}]

WorkerSymmetry == Permutations({w1, w2})
============================================================================
