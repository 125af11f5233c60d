CONSTANTS
  c1 = c1  c2 = c2  r1 = r1  r2 = r2  o1 = o1
  Callers = {c1, c2}
  Requests = {r1, r2}
  Responses = {o1}
  MaxInvocations = 4
SPECIFICATION InvocationSpec
SYMMETRY CallerSymmetry
CHECK_DEADLOCK FALSE
INVARIANT AtMostOnce
INVARIANT JournalIsTruthful
INVARIANT CallersAgree
PROPERTY ResolvedStays
