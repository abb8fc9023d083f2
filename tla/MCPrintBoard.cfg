SPECIFICATION Spec
CONSTANTS
  o1 = o1
  c1 = c1
  c2 = c2
  pla = pla
  petg = petg
  Orders = {o1}
  Cards = {c1, c2}
  Materials = {pla, petg}
  OrderOf <- MCOrderOf
  Lines <- CrossedLines
  LotMaterial <- MCLotMaterial
  LotQty <- MCLotQty
  ScrapQtys = {2}
  DropTargets = {"NEED_PRINT", "PRINTING", "PACKING"}
  Requests = {r1, r2}
SYMMETRY Symmetry
INVARIANTS
  TypeOK
  NoOverdraw
  DrawnOnce
  LedgerExplainsStock
  OldestLotFirst
  PrintingWasClaimed
PROPERTIES
  ShortOnlyWhenEmpty
  OnlyAllowedEdges
