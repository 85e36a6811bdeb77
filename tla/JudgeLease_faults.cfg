\* Every fault at once, the ones a submission may be lost to included.
CONSTANTS
  Nil = Nil
  Sub = {s1}
  Lease = {l1, l2}
  Worker = {w1}
  Sweeper = {k1, k2}
  Verdict = {"ACCEPTED"}
  Concurrency = 2
  Faults = {"worker", "net", "fetch", "mark", "ingest", "queue", "interchanger", "ttl"}
SPECIFICATION Spec
SYMMETRY Symm
INVARIANTS Bookkeeping
CHECK_DEADLOCK FALSE
