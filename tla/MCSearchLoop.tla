---------------------------- MODULE MCSearchLoop ----------------------------
(* A control and a root with two replicates; a value better and one worse    *)
(* than the root's; a step that needs two generations costs more than its    *)
(* floor; every EvoX parent mode.                                            *)
EXTENDS SearchLoop

MCFloor == [local |-> 3, structural |-> 3, replicate |-> 1, promote |-> 1]
MCDownstream == [local |-> 1, structural |-> 0, replicate |-> 0, promote |-> 0]
MCResample == [local |-> TRUE, structural |-> FALSE]
MCFirstEvidence ==
  <<[cand |-> 0, rung |-> 1, seed |-> 1, value |-> 1],
    [cand |-> 1, rung |-> 1, seed |-> 1, value |-> 2],
    [cand |-> 1, rung |-> 1, seed |-> 2, value |-> 2]>>
MCParentMode == <<"current", "current", "incumbent">>
==============================================================================
