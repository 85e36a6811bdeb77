\* One submission and the deliveries it can have, with the faults the code recovers from.
CONSTANTS
  Nil = Nil
  Sub = {s1}
  Lease = {l1, l2}
  Worker = {w1}
  Sweeper = {k1}
  Verdict = {"ACCEPTED"}
  Concurrency = 1
  Faults = {"worker", "net", "fetch", "mark"}
SPECIFICATION FairSpec
PROPERTIES EventuallyJudged
CHECK_DEADLOCK FALSE
