SPECIFICATION Spec
CONSTANTS
  h1 = h1
  h2 = h2
  h3 = h3
  s1 = s1
  s2 = s2
  Http = {h1, h2, h3}
  Staff = {s1, s2}
  Window = 1
  MaxTime = 1
  MaxCalls = 3
SYMMETRY Interchangeable
INVARIANTS
  TypeOK
  BookedOnceUnlessExcused
  EveryMoveAttributed
PROPERTY
  DecisionsStand
CHECK_DEADLOCK FALSE
