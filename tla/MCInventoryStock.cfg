SPECIFICATION LiveSpec
CONSTANTS
  o1 = o1
  o2 = o2
  p1 = p1
  p2 = p2
  t1 = t1
  t2 = t2
  Order = {o1, o2}
  Product = {p1, p2}
  Basket <- TwoBaskets
  Stock <- TwoStocks
  rank <- TwoRanks
  Task = {t1, t2}
  Limits <- LimitsStock
  NoTask = NoTask
INVARIANTS
  ReservedIsBacked
  OrderedLocking
  StockFollowsSaga
PROPERTIES
  ImplementsLedger
  CallsReturn
CHECK_DEADLOCK FALSE
