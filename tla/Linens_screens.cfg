SPECIFICATION Spec
CONSTANTS
  Linens = {l1, l2}
  Slots = {s1, s2}
  Screens = {v1}
  None = None
  Laundry = Laundry
  Actions = {"complete_wash", "ready"}
  Edits = {"AT_CLIENT"}
  Batches <- Pairs
  QueueMax = 2
  MaxChannels = 1
  MaxRequests = 2
INVARIANTS
  TypeOK
  WashesCounted
  NeverSilentlyStale
SYMMETRY Ids
CHECK_DEADLOCK FALSE
