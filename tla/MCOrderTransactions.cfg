\* One order, two racing requests, every call an owner or a staff member can make.
SPECIFICATION Spec
CONSTANTS
  Orders = {o1}
  Requests = {r1, r2}
  Users = {"owner", "staff"}
SYMMETRY Symmetry
INVARIANTS
  TypeOK
  TrailReplays
  ColumnsMatchTrail
  BoardedOncePaid
  AnnouncedOnce
  MoneyMovedByOwner
  WritesAreCurrent
PROPERTIES
  ImplementsOrderBook
