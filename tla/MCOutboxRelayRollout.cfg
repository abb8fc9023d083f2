\* Two relays, as while a rolling update of the single replica overlaps two pods.
SPECIFICATION Spec
CONSTANTS
  NEvents = 3
  Cause <- MCCause
  Poison = {2}
  Batch = 2
  MaxAttempts = 2
  Relays = {x1, x2}
  MaxFaults = 1
\* Once every event is delivered the relay only polls an empty outbox.
CHECK_DEADLOCK FALSE
SYMMETRY Symmetry
INVARIANTS
  CauseBeforeEffect
