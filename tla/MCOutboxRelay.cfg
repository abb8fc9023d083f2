\* The deployed relay: one instance, a batch smaller than the backlog.
SPECIFICATION Spec
CONSTANTS
  NEvents = 3
  Cause <- MCCause
  Poison = {2}
  Batch = 2
  MaxAttempts = 2
  Relays = {x1}
  MaxFaults = 2
INVARIANTS
  TypeOK
  PublishedIsStored
  StoredIsCommitted
  CauseBeforeEffect
  OnlyPoisonFails
PROPERTY PublishedIsFinal
\* Once every event is delivered the relay only polls an empty outbox.
CHECK_DEADLOCK FALSE
