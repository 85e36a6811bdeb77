\* The API may fail to answer an ingest.
CONSTANTS
  Nil = Nil
  Sub = {s1}
  Lease = {l1}
  Worker = {w1}
  Sweeper = {k1}
  Verdict = {"ACCEPTED"}
  Concurrency = 1
  Faults = {"ingest"}
SPECIFICATION FairSpec
PROPERTIES JudgingEnds
CHECK_DEADLOCK FALSE
