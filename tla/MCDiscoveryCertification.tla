----------------------- MODULE MCDiscoveryCertification -----------------------
(* Two sessions and three commands over two seeds.  Over seed s1 a run races *)
(* two or three candidates for two places, with trade-offs between two       *)
(* objectives; seed s2 is the baseline alone.                                *)
EXTENDS DiscoveryCertification, TLC

CONSTANTS k1, k2, k3, w1, w2, s1, s2, cost, loss

MCObjectives == {cost, loss}
MCMetricOrder == <<cost, loss>>
MCId == [c \in {k1, k2, k3} |-> CASE c = k1 -> 1 [] c = k2 -> 2 [] c = k3 -> 3]
MCPools == [s \in {s1, s2} |-> IF s = s1 THEN {{k1, k2}, {k1, k2, k3}} ELSE {{k1}}]

Ok(i, j) == [gate |-> "feasible", score |-> [m \in {cost, loss} |-> IF m = cost THEN i ELSE j]]
Bad == [gate |-> "rejected", score |-> [m \in {cost, loss} |-> 0]]

MCVerdicts ==
  [p \in {k1, k2, k3} \X {"G0", "G1", "G2", "G7"} |->
     CASE p[2] = "G0" -> IF p[1] = k3 THEN {Ok(0, 0), Bad} ELSE {Ok(0, 0)}
       [] p[2] = "G1" -> IF p[1] = k1 THEN {Ok(1, 1)}
                         ELSE {Ok(1, 1), Ok(1, 0), Ok(0, 2), Bad}
       [] p[2] = "G2" -> IF p[1] = k1 THEN {Ok(1, 1)} ELSE {Ok(0, 2), Ok(1, 2), Bad}
       [] p[2] = "G7" -> {Ok(1, 1)}]

SessionSymmetry == Permutations({w1, w2})
============================================================================
