\* With fairness every request ends. No symmetry: it is unsound for liveness.
SPECIFICATION FairSpec
CONSTANTS
  Orders = {o1}
  Requests = {r1, r2}
  Users = {"owner"}
PROPERTIES
  RequestsFinish
