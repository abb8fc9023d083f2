\* The same relay with one row per tick: a poison row fills the whole batch.
SPECIFICATION FairSpec
CONSTANTS
  NEvents = 3
  Cause <- MCCause
  Poison = {2}
  Batch = 1
  MaxAttempts = 2
  Relays = {x1}
  MaxFaults = 2
\* Once every event is delivered the relay only polls an empty outbox.
CHECK_DEADLOCK FALSE
PROPERTY CommittedIsDelivered
