SPECIFICATION Spec
CONSTANTS
  p1 = p1
  p2 = p2
  p3 = p3
  c1 = c1
  c2 = c2
  c3 = c3
  r1 = r1
  r2 = r2
  m1 = m1
  k1 = k1
  n1 = n1
  n2 = n2
  kg = kg
  piece = piece
  noCode = noCode
  noUnit = noUnit
  noName = noName
  NoCode = noCode
  NoUnit = noUnit
  NoName = noName
  NoProduct = NoProduct
  NoCategory = NoCategory
  NoMaster = NoMaster
  WholeUnits = {piece}
  Requests = {r1, r2}
  MaxRequests = 2
  Products = {p1, p2, p3}
  Categories = {c1, c2, c3}
  MaxTime = 3
  Codes = {k1}
  Units = {kg, piece}
  Names = {n1, n2}
  MasterName = n1
  Masters = {m1}
  MasterUnit = kg
  Fields = {"sellingPrice", "category"}
  OtherFields = {"aliases"}
  Patches <- MCPatches
  Drafts <- MCDrafts
  Files <- MCFiles
SYMMETRY MCSymmetry
INVARIANTS TypeOK LogHoldsTheRows BatchFitsTheIndex
PROPERTIES EditsRespectNewer NothingDropped StockKeepsItsUnit NoTwins ImportKeepsItsWord
CHECK_DEADLOCK FALSE
