CONSTANTS
  c1 = c1  c2 = c2  r1 = r1  r2 = r2  o1 = o1  o2 = o2
  Callers = {c1, c2}
  Requests = {r1, r2}
  Responses = {o1, o2}
  Malformed = {o2}
  MaxInvocations = 4
  MaxPhases = 2
SPECIFICATION PhaseSpec
CHECK_DEADLOCK FALSE
INVARIANT ChargesAreJournaled
PROPERTY PhaseEnds
