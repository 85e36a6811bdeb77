---------------------------- MODULE MCJudgeLease ----------------------------
(***************************************************************************)
(* Instances of JudgeLease for TLC.                                        *)
(***************************************************************************)
EXTENDS JudgeLease, TLC

\* Submissions, leases, sweeps and workers are interchangeable: no definition
\* names one. Only the runs without liveness use it.
Symm == Permutations(Sub) \cup Permutations(Lease) \cup Permutations(Sweeper)
          \cup Permutations(Worker)
=============================================================================
