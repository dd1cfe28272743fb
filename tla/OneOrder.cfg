CONSTANTS
  o1 = o1
  o2 = o2
  l1 = l1
  v1 = v1
  p1 = p1
  p2 = p2
  p3 = p3
  Orders = {o1}
  Listings = {l1}
  Vendors = {v1}
  Payments = {p1, p2}
  Workers = {w1, w2}
  NoOrder = NoOrder
  NoPayment = NoPayment
  Qty <- OneQty
  MaxQty = 2
  SellerOf <- MCSellerOf
  OrderOf <- OneOrderOf
  Exact <- MCExact
  StockLevels = {0, 1}
  MaxCrashes = 1
  CancelWhileCreating = FALSE
SPECIFICATION SweptSpec
INVARIANTS MoneyRecorded FlaggedHoldsPayment
PROPERTIES PaymentWriteOnce HoldReleased CaptureAccounted
