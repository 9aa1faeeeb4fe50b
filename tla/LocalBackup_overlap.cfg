SPECIFICATION BackupSpec
CONSTANTS
  Records = {r1}
  Handlers = {h1, h2}
  Admins = {k1, k2}
  Kinds = {"create", "set", "replace", "delete"}
  Faults = {"handlerCrash"}
  Workers = {}
  NoWorker = NoWorker
  MaxAttempts = 1
  MaxWrites = 2
  MaxFaults = 1
INVARIANT
  BackupMatches
PROPERTY OneRunFollows
SYMMETRY Slots
VIEW Seen
