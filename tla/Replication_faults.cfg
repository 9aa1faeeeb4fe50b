SPECIFICATION FairSpec
CONSTANTS
  Records = {r1}
  Handlers = {h1}
  Workers = {w1, w2}
  NoWorker = NoWorker
  h1 = h1
  h2 = h2
  h3 = h3
  w1 = w1
  w2 = w2
  Kinds = {"create", "set", "replace", "bumpReplace", "delete", "silent"}
  Faults = {"handlerCrash", "workerCrash", "heartbeatLost"}
  MaxAttempts = 2
  MaxWrites = 2
  MaxFaults = 1
PROPERTY QueueDrains
CHECK_DEADLOCK FALSE
