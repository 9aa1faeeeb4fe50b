SPECIFICATION Spec
CONSTANTS
  Bills = {b1, b2}
  Slots = {s1, s2}
  NoBill = NoBill
  Prices = {3, 4}
  MaxLines = 2
  Orders <- OneItemOf3
  Charges <- SomeCharges
  Amounts = {2, 4}
  Entered <- SomeEntered
  Patches <- SomePatches
  Papers <- SomePapers
  MaxRequests = 3
INVARIANTS
  TypeOK
  BooksBalance
  PaidIsBacked
PROPERTY LockHolds
SYMMETRY Ids
CHECK_DEADLOCK FALSE
