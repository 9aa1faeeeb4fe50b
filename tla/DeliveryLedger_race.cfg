SPECIFICATION Spec
CONSTANTS
  Passes = {p1}
  Quantity = 2
  Received <- SameReceived
  Deliveries = {d1, d2, d3}
  Returns = {t1}
  Slots = {s1, s2, s3}
  Ops = {"create", "catchUp", "draft", "cancel", "return"}
  None = None
  MaxQty = 2
  MaxRequests = 3
INVARIANTS
  TypeOK
  NeverOversold
SYMMETRY Ids
CHECK_DEADLOCK FALSE
