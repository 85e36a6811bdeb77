\* One submission and three deliveries, every fault the code recovers from.
CONSTANTS
  Nil = Nil
  Sub = {s1}
  Lease = {l1, l2, l3}
  Worker = {w1}
  Sweeper = {k1}
  Verdict = {"ACCEPTED", "WRONG_ANSWER"}
  Concurrency = 2
  Faults = {"worker", "net", "fetch", "mark"}
SPECIFICATION Spec
SYMMETRY Symm
INVARIANTS TypeOK NotLost GivesUpAfterTwo AtMostTwoDeliveries
PROPERTIES VerdictFinal
CHECK_DEADLOCK FALSE
