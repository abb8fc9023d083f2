SPECIFICATION FairSpec
CONSTANTS
  o1 = o1
  c1 = c1
  c2 = c2
  pla = pla
  petg = petg
  Orders = {o1}
  Cards = {c1, c2}
  Materials = {pla, petg}
  OrderOf <- MCOrderOf
  Lines <- CrossedLines
  LotMaterial <- MCLotMaterial
  LotQty <- MCLotQty
  ScrapQtys = {}
  DropTargets = {"NEED_PRINT", "PRINTING"}
  Requests = {r1, r2}
PROPERTY RequestsFinish
\* Without scrap requests nothing is left to do once the order is cancelled
\* before it was paid: the system may stop.
CHECK_DEADLOCK FALSE
