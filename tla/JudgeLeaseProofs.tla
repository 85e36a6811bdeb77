--------------------------- MODULE JudgeLeaseProofs ---------------------------
(***************************************************************************)
(* Theorems about JudgeLease, for any numbers of submissions, leases,      *)
(* workers and overlapping sweeps.                                         *)
(***************************************************************************)
EXTENDS JudgeLease, TLAPS

LEMMA TypeInit == Init => TypeOK
  BY NilAssumption DEF Init, TypeOK, MaxAttempts, NotFinal, FinalStatus, PC, LeaseOnePC,
     ResultPC, IdleSweep, SweepPC

LEMMA TypeStep == TypeOK /\ [Next]_vars => TypeOK'
<1> SUFFICES ASSUME TypeOK, [Next]_vars PROVE TypeOK'
  OBVIOUS
<1> USE VerdictAssumption, NilAssumption
        DEF TypeOK, MaxAttempts, NotFinal, FinalStatus, PC, LeaseOnePC, ResultPC, SweepPC,
            subVars, leaseVars
<1>1. ASSUME NEW s \in Sub, ApiStep(s) PROVE TypeOK'
  <2>1. CASE CreateInsert(s)
    BY <2>1 DEF CreateInsert
  <2>2. CASE CreateEnqueue(s)
    BY <2>2 DEF CreateEnqueue
  <2>3. CASE CreateAborts(s)
    BY <2>3 DEF CreateAborts
  <2>4. CASE DeleteSubmission(s)
    BY <2>4 DEF DeleteSubmission
  <2>5. CASE AttemptKeyExpires(s)
    BY <2>5 DEF AttemptKeyExpires
  <2>6. QED
    BY <1>1, <2>1, <2>2, <2>3, <2>4, <2>5 DEF ApiStep
<1>2. ASSUME NEW l \in Lease, NEW w \in Worker, NEW s \in Sub, LeaseTake(l, w, s)
      PROVE TypeOK'
  BY <1>2 DEF LeaseTake
<1>3. ASSUME NEW l \in Lease, LeaseStep(l) PROVE TypeOK'
  <2>1. CASE FetchPayload(l)
    BY <2>1 DEF FetchPayload, NextAttempt
  <2>2. CASE FetchFindsNothing(l)
    BY <2>2 DEF FetchFindsNothing, GiveBackId
  <2>3. CASE FetchFails(l)
    BY <2>3 DEF FetchFails, GiveBackId
  <2>4. CASE StoreLease(l)
    BY <2>4 DEF StoreLease
  <2>5. CASE StoreAttempt(l)
    BY <2>5 DEF StoreAttempt
  <2>6. CASE MarkJudging(l)
    BY <2>6 DEF MarkJudging, SetJudging
  <2>7. CASE MarkFails(l)
    BY <2>7 DEF MarkFails, SetJudging
  <2>8. CASE WorkerDiscards(l) \/ ResultLost(l) \/ ResultAbandoned(l)
    BY <2>8 DEF WorkerDiscards, ResultLost, ResultAbandoned
  <2>18. CASE HeartbeatErrors(l)
    BY <2>18 DEF HeartbeatErrors
  <2>9. CASE Elapse(l)
    <3>1. key' = key
      BY <2>9, Zenon DEF Elapse, KeptAfterExpiry
    <3>2. QED
      BY <2>9, <3>1 DEF Elapse
  <2>10. CASE HeartbeatRead(l)
    <3>1. CASE key[l]
      BY <2>10, <3>1 DEF HeartbeatRead
    <3>2. CASE ~key[l]
      BY <2>10, <3>2 DEF HeartbeatRead
    <3>3. QED
      BY <3>1, <3>2
  <2>11. CASE HeartbeatWrite(l)
    <3>1. CASE ~StillAlive(l)
      BY <2>11, <3>1 DEF HeartbeatWrite
    <3>2. CASE StillAlive(l)
      <4>1. /\ key' = [key EXCEPT ![l] = TRUE]
            /\ overdue' = [overdue EXCEPT ![l] = FALSE]
            /\ hb' = [hb EXCEPT ![l] = "idle"]
            /\ UNCHANGED <<revoked, subVars, pc, sub, attempt, owner, verdict>>
        BY <2>11, <3>2, Zenon DEF HeartbeatWrite
      <4>2. sweep' = [k \in Sweeper |->
                       IF sweep[k].lease = l /\ sweep[k].pc = "read"
                       THEN [sweep[k] EXCEPT !.stale = TRUE] ELSE sweep[k]]
        BY <2>11, <3>2, Zenon DEF HeartbeatWrite
      <4>3. /\ sweep' \in [Sweeper -> [pc : SweepPC, lease : Lease \cup {Nil}, stale : BOOLEAN]]
            /\ \A k \in Sweeper : sweep'[k].pc # "idle" => sweep'[k].lease \in Lease
        <5>1. ASSUME NEW k \in Sweeper
              PROVE  /\ sweep'[k] \in [pc : SweepPC, lease : Lease \cup {Nil}, stale : BOOLEAN]
                     /\ sweep'[k].pc = sweep[k].pc
                     /\ sweep'[k].lease = sweep[k].lease
          <6>1. sweep[k] \in [pc : SweepPC, lease : Lease \cup {Nil}, stale : BOOLEAN]
            OBVIOUS
          <6>2. sweep'[k] \in {sweep[k], [sweep[k] EXCEPT !.stale = TRUE]}
            BY <4>2, Zenon
          <6>3. QED
            BY <6>1, <6>2
        <5>2. sweep' = [k \in Sweeper |-> sweep'[k]]
          BY <4>2
        <5>3. QED
          BY <5>1, <5>2
      <4>4. QED
        BY <4>1, <4>3
    <3>3. QED
      BY <3>1, <3>2
  <2>17. CASE LeaseKeyExpires(l)
    BY <2>17 DEF LeaseKeyExpires
  <2>12. CASE ConsumeLease(l)
    BY <2>12 DEF ConsumeLease, OwnsLease
  <2>13. CASE IngestResult(l)
    BY <2>13 DEF IngestResult, Settle
  <2>14. CASE IngestFails(l)
    BY <2>14 DEF IngestFails, Settle
  <2>15. CASE ForgetAttempt(l)
    BY <2>15 DEF ForgetAttempt
  <2>16. QED
    BY <1>3, <2>1, <2>2, <2>3, <2>4, <2>5, <2>6, <2>7, <2>8, <2>9, <2>10, <2>11, <2>12,
       <2>13, <2>14, <2>15, <2>17, <2>18 DEF LeaseStep
<1>4. ASSUME NEW l \in Lease, NEW v \in Verdict, WorkerReports(l, v) PROVE TypeOK'
  BY <1>4 DEF WorkerReports
<1>5. ASSUME NEW w \in Worker, WorkerStep(w) PROVE TypeOK'
  <2>1. CASE Deliver(w)
    BY <2>1 DEF Deliver, Granted
  <2>2. CASE RequestLost(w)
    BY <2>2 DEF RequestLost
  <2>3. CASE WorkerCrashes(w)
    BY <2>3 DEF WorkerCrashes
  <2>4. QED
    BY <1>5, <2>1, <2>2, <2>3 DEF WorkerStep
<1>6. ASSUME NEW k \in Sweeper, SweepStep(k) PROVE TypeOK'
  <2>1. CASE SweepSkip(k)
    BY <2>1 DEF SweepSkip, IdleSweep
  <2>2. CASE SweepDelete(k)
    BY <2>2 DEF SweepDelete, IdleSweep, OwnsLease
  <2>3. CASE Requeue(k)
    <3>1. waiting' = [waiting EXCEPT ![sub[sweep[k].lease]] = @ + 1]
      BY <2>3, Zenon DEF Requeue, Requeued
    <3>2. waiting' \in [Sub -> Nat]
      <4> DEFINE s == sub[sweep[k].lease]
      <4>1. s \in Sub => waiting[s] + 1 \in Nat
        OBVIOUS
      <4>2. \A r \in Sub : waiting'[r] = IF r = s THEN waiting[s] + 1 ELSE waiting[r]
        BY <3>1
      <4>3. waiting' = [r \in Sub |-> waiting'[r]]
        BY <3>1
      <4> HIDE DEF s
      <4>4. QED
        BY <4>1, <4>2, <4>3
    <3>3. QED
      BY <2>3, <3>2 DEF Requeue, IdleSweep
  <2>4. CASE RequeueFails(k)
    BY <2>4 DEF RequeueFails, IdleSweep
  <2>5. CASE GiveUp(k)
    BY <2>5 DEF GiveUp, Settle
  <2>6. CASE SweepForget(k)
    BY <2>6 DEF SweepForget, IdleSweep
  <2>7. QED
    BY <1>6, <2>1, <2>2, <2>3, <2>4, <2>5, <2>6 DEF SweepStep
<1>7. ASSUME NEW k \in Sweeper, NEW l \in Lease, SweepRead(k, l) PROVE TypeOK'
  BY <1>7 DEF SweepRead
<1>8. CASE InterchangerCrashes
  BY <1>8 DEF InterchangerCrashes, IdleSweep
<1>9. CASE UNCHANGED vars
  BY <1>9 DEF vars
<1>10. QED
  BY <1>1, <1>2, <1>3, <1>4, <1>5, <1>6, <1>7, <1>8, <1>9 DEF Next

\* Every variable keeps its type; a lease in use names a submission, and one
\* whose result is on its way carries a verdict.
THEOREM TypeCorrect == Spec => []TypeOK
  BY TypeInit, TypeStep, PTL DEF Spec

-----------------------------------------------------------------------------
(***************************************************************************)
(* A verdict is final.                                                     *)
(***************************************************************************)

\* The compare-and-set of the ingest and of markJudging leaves final rows alone.
LEMMA FinalRowsKept ==
  ASSUME TypeOK, NEW r \in Sub, status[r] \in FinalStatus, NEW s
  PROVE  /\ \A v : Settle(s, v)[r] = status[r]
         /\ SetJudging(s)[r] = status[r]
  BY VerdictAssumption DEF TypeOK, Settle, SetJudging, FinalStatus, NotFinal

LEMMA VerdictStep ==
  ASSUME TypeOK, Next, NEW r \in Sub, status[r] \in FinalStatus
  PROVE  status'[r] \in {status[r], "GONE"}
<1>1. ASSUME NEW s \in Sub, ApiStep(s) PROVE status'[r] \in {status[r], "GONE"}
  <2>1. CASE CreateInsert(s)
    BY <2>1, VerdictAssumption DEF CreateInsert, TypeOK, FinalStatus, NotFinal
  <2>2. CASE DeleteSubmission(s)
    BY <2>2 DEF DeleteSubmission, TypeOK
  <2>3. QED
    BY <1>1, <2>1, <2>2 DEF ApiStep, CreateEnqueue, CreateAborts, AttemptKeyExpires
<1>2. ASSUME NEW l \in Lease, LeaseStep(l) PROVE status'[r] \in {status[r], "GONE"}
  <2>1. CASE MarkJudging(l) \/ MarkFails(l)
    BY <2>1, FinalRowsKept DEF MarkJudging, MarkFails
  <2>2. CASE IngestResult(l) \/ IngestFails(l)
    BY <2>2, FinalRowsKept DEF IngestResult, IngestFails
  <2>3. CASE ~(MarkJudging(l) \/ MarkFails(l) \/ IngestResult(l) \/ IngestFails(l))
    <3>1. UNCHANGED status
      BY <1>2, <2>3, Zenon
         DEF LeaseStep, FetchPayload, FetchFindsNothing, FetchFails, StoreLease, StoreAttempt,
             WorkerDiscards, ResultLost, ResultAbandoned, HeartbeatErrors, Elapse,
             HeartbeatRead, HeartbeatWrite, ConsumeLease, ForgetAttempt, LeaseKeyExpires, subVars
    <3>2. QED
      BY <3>1
  <2>4. QED
    BY <2>1, <2>2, <2>3
<1>3. ASSUME NEW k \in Sweeper, SweepStep(k) PROVE status'[r] \in {status[r], "GONE"}
  <2>1. CASE GiveUp(k)
    BY <2>1, FinalRowsKept DEF GiveUp
  <2>2. QED
    BY <1>3, <2>1 DEF SweepStep, SweepSkip, SweepDelete, Requeue, RequeueFails, SweepForget, subVars
<1>4. CASE \E l \in Lease, w \in Worker, s \in Sub : LeaseTake(l, w, s)
  BY <1>4 DEF LeaseTake
<1>5. CASE \E l \in Lease, v \in Verdict : WorkerReports(l, v)
  BY <1>5 DEF WorkerReports, subVars
<1>6. CASE \E w \in Worker : WorkerStep(w)
  BY <1>6 DEF WorkerStep, Deliver, RequestLost, WorkerCrashes, subVars
<1>7. CASE \E k \in Sweeper, l \in Lease : SweepRead(k, l)
  BY <1>7 DEF SweepRead, subVars
<1>8. CASE InterchangerCrashes
  BY <1>8 DEF InterchangerCrashes, subVars
<1>9. QED
  BY <1>1, <1>2, <1>3, <1>4, <1>5, <1>6, <1>7, <1>8 DEF Next

\* Whatever faults happen, a submission that has a verdict keeps it until its
\* row is deleted: neither a redelivery, nor a zombie worker, nor a sweep that
\* gives up overwrites it.
THEOREM VerdictIsFinal == Spec => VerdictFinal
<1>1. TypeOK /\ [Next]_vars
        => [\A s \in Sub : status[s] \in FinalStatus
                             => status'[s] \in {status[s], "GONE"}]_status
  BY VerdictStep DEF vars
<1>2. QED
  BY <1>1, TypeCorrect, PTL DEF Spec, VerdictFinal
=============================================================================
