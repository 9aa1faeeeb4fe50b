SPECIFICATION Spec
CONSTANTS
  l1 = l1
  n1 = n1
  n2 = n2
  d1 = d1
  d2 = d2
  k1 = k1
  s1 = s1
  s2 = s2
  None = None
  Keep = Keep
  Laundries = {l1}
  MainLaundry = l1
  BillNumbers = {n1}
  PassNumbers = {n1, n2}
  Cells <- FourDays
  Payloads <- SomePayloads
  PassRefs <- SomePassRefs
  Keys = {k1}
  Slots = {s1, s2}
  Ops = {"save", "confirm", "cancel", "pass", "sheet", "edit", "crash"}
  MaxRequests = 3
INVARIANTS
  TypeOK
  ReservedIsShown
  NumbersUsedOnce
  RecordsAreShown
PROPERTY ConfirmedForGood
SYMMETRY Same
CHECK_DEADLOCK FALSE
