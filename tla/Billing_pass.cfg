SPECIFICATION Spec
CONSTANTS
  king = king
  queen = queen
  Lines = {king, queen}
  Deliveries = {d1, d2}
  Adjustments = {a1, a2}
  Slots = {s1, s2}
  Cashiers = {c1}
  Bills = {b1, b2}
  r1 = r1
  r2 = r2
  Rows = {r1, r2}
  Entries <- SomeEntries
  None = None
  MaxQty = 2
  FirstItems <- TwoAndRewash
  Papers <- SomePapers
  Loads <- SomeLoads
  Corrections <- SomeCorrections
  MaxRequests = 4
INVARIANTS
  TypeOK
  CorrectionsStand
  AppliedOnce
  PassCoversBills
  CorrectionsReachBills
SYMMETRY Ids
CHECK_DEADLOCK FALSE
