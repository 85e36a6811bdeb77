\* Two submissions, deliveries shared between them, two sweeps that overlap.
CONSTANTS
  Nil = Nil
  Sub = {s1, s2}
  Lease = {l1, l2}
  Worker = {w1}
  Sweeper = {k1, k2}
  Verdict = {"ACCEPTED"}
  Concurrency = 2
  Faults = {"mark", "ingest"}
SPECIFICATION Spec
SYMMETRY Symm
INVARIANTS SoleCarrier
PROPERTIES ImplementsContract
CHECK_DEADLOCK FALSE
