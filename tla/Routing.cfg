SPECIFICATION Spec
CONSTANTS
  r1 = r1  r2 = r2  r3 = r3
  c1 = c1
  None = None
  MaxSize = 3
  Requests = {r1, r2, r3}
  Conversations = {c1}
  RingOrder <- MCRingOrder
SYMMETRY Symmetry
INVARIANTS TypeOK SteadyPreferred EvenTurns
