--------------------------- MODULE MCPatchPipeline ---------------------------
(* One proposal and two different repairs of it, made by two workers; three  *)
(* calls, so that one may be made again, and one dimension with a budget     *)
(* that some answers exceed.                                                 *)
EXTENDS PatchPipeline, TLC

CONSTANTS g1, g2, g3, tokens, w1, w2

MCRootOf == [g \in {g1, g2, g3} |-> g1]
MCRequested == [g \in {g1, g2, g3} |-> [d \in {tokens} |-> 2]]
MCLimit == [d \in {tokens} |-> 5]
MCSymmetry == Permutations({w1, w2}) \cup Permutations({g2, g3})
MCUsages == {[d \in {tokens} |-> u] : u \in {1, 3}}
==============================================================================
