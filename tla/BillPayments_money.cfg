SPECIFICATION Spec
CONSTANTS
  Payments = {p1, p2}
  Keys = {k1}
  Slots = {s1, s2}
  None = None
  Amounts = {2}
  Totals = {1, 3}
  MaxTries = 2
  Ops = {"pay", "reverse", "edit", "resync", "cancel", "status", "fail", "crash"}
  MaxRequests = 3
INVARIANTS
  TypeOK
  MoneyConserved
  NeverOverpaid
  BalanceAddsUp
  StatusIsEarned
  KeyUsedOnce
PROPERTY PaymentsRespectCancellation
SYMMETRY Ids
CHECK_DEADLOCK FALSE
