------------------------ MODULE MCProviderInvocation ------------------------
(* Two callers and four calls of invoke on two requests, which may both be   *)
(* answered with the same response, so that their objects collide.           *)
EXTENDS ProviderInvocation, TLC

CONSTANTS c1, c2, r1, r2, o1

CallerSymmetry == Permutations({c1, c2})
============================================================================
