-------------------------- MODULE MCResourceLedger -------------------------
(* ResourceLedger with three experiments and two dimensions, one capped     *)
(* tightly and one not capped at all (limit 0).                             *)
EXTENDS ResourceLedger

CONSTANTS e1, e2, e3, cpu, gpu

MCRequested == [e \in {e1, e2, e3} |->
                  [d \in {cpu, gpu} |-> IF e \in {e1, e2} THEN 2 ELSE 1]]
MCLimit == [d \in {cpu, gpu} |-> IF d = cpu THEN 4 ELSE 0]
MCUsages == {u \in [{cpu, gpu} -> 0..3] : u[gpu] > 0}
============================================================================
