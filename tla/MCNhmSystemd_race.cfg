\* A failure between the reading of the state and the subscription is not reported.
SPECIFICATION Spec
CONSTANTS
  u1 = u1
  u2 = u2
  Units = {u1}
  Moves <- ServiceMoves
  MaxSignals = 2
  BusFails = FALSE
INVARIANTS
  NoFailureMissed
