CONSTANTS
  o1 = o1
  o2 = o2
  l1 = l1
  v1 = v1
  p1 = p1
  p2 = p2
  p3 = p3
  Orders = {o1, o2}
  Listings = {l1}
  Vendors = {v1}
  Payments = {p1, p3}
  Workers = {w1}
  NoOrder = NoOrder
  NoPayment = NoPayment
  Qty <- MCQty
  MaxQty = 2
  SellerOf <- MCSellerOf
  OrderOf <- MCOrderOf
  Exact <- MCExact
  StockLevels = {3}
  MaxCrashes = 0
  CancelWhileCreating = TRUE
SPECIFICATION Spec
INVARIANTS HoldsCovered
