SPECIFICATION Spec
CONSTANTS
  Passes = {p1}
  Quantity = 2
  Received <- SameReceived
  Deliveries = {d1, d2}
  Returns = {t1}
  Slots = {s1, s2}
  Ops = {"create", "draft", "catchUp", "activate", "correct", "cancel", "return", "resend", "status", "crash"}
  None = None
  MaxQty = 2
  MaxRequests = 4
INVARIANTS
  SequentiallySound
  StatusKeepsUp
  CancelledPassUnused
PROPERTY CorrectionIsFresh
SYMMETRY Ids
CHECK_DEADLOCK FALSE
