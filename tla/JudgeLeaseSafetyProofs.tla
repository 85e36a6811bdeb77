------------------------ MODULE JudgeLeaseSafetyProofs ------------------------
(***************************************************************************)
(* JudgeLease: an open submission has a single carrier.  The inductive     *)
(* invariant is TypeOK /\ Bookkeeping; each conjunct of Bookkeeping has    *)
(* its own step lemma.                                                     *)
(***************************************************************************)
EXTENDS JudgeLeaseProofs

LEMMA BookInit == Init => Bookkeeping
<1> SUFFICES ASSUME Init PROVE Bookkeeping
  OBVIOUS
<1> USE NilAssumption DEF Init
<1>1. UnbornRows /\ EarlyLeases
  BY DEF UnbornRows, EarlyLeases
<1>2. SweptLeases /\ OutdatedSweeps
  BY DEF SweptLeases, OutdatedSweeps, IdleSweep
<1>3. \A s \in Sub : ~Open(s)
  BY DEF Open
<1>4. QED
  BY <1>1, <1>2, <1>3 DEF Bookkeeping

-----------------------------------------------------------------------------

LEMMA EarlyStep == TypeOK /\ EarlyLeases /\ [Next]_vars => EarlyLeases'
<1> SUFFICES ASSUME TypeOK, EarlyLeases, [Next]_vars, NEW m \in Lease, pc'[m] \in EarlyPC
             PROVE  ~key'[m] /\ hb'[m] = "idle"
  BY DEF EarlyLeases
<1> USE DEF TypeOK, EarlyLeases, EarlyPC, subVars, leaseVars
<1>1. CASE UNCHANGED <<pc, key, hb>>
  BY <1>1
<1>2. ASSUME NEW l \in Lease, NEW w \in Worker, NEW s \in Sub, LeaseTake(l, w, s)
      PROVE  ~key'[m] /\ hb'[m] = "idle"
  BY <1>2 DEF LeaseTake
<1>3. ASSUME NEW l \in Lease, LeaseStep(l)
      PROVE  ~key'[m] /\ hb'[m] = "idle"
  <2>1. CASE FetchPayload(l) \/ FetchFindsNothing(l) \/ FetchFails(l)
    BY <2>1 DEF FetchPayload, FetchFindsNothing, FetchFails, GiveBackId
  <2>2. CASE StoreLease(l) \/ StoreAttempt(l) \/ MarkJudging(l) \/ MarkFails(l)
    BY <2>2 DEF StoreLease, StoreAttempt, MarkJudging, MarkFails
  <2>3. CASE WorkerDiscards(l) \/ ResultLost(l) \/ ResultAbandoned(l) \/ HeartbeatErrors(l)
    BY <2>3 DEF WorkerDiscards, ResultLost, ResultAbandoned, HeartbeatErrors
  <2>4. CASE Elapse(l)
    BY <2>4 DEF Elapse, KeptAfterExpiry
  <2>5. CASE HeartbeatRead(l)
    BY <2>5 DEF HeartbeatRead
  <2>6. CASE HeartbeatWrite(l)
    BY <2>6 DEF HeartbeatWrite
  <2>7. CASE ConsumeLease(l)
    BY <2>7 DEF ConsumeLease, OwnsLease
  <2>8. CASE IngestResult(l) \/ IngestFails(l) \/ ForgetAttempt(l)
    BY <2>8 DEF IngestResult, IngestFails, ForgetAttempt
  <2>9. CASE LeaseKeyExpires(l)
    BY <2>9 DEF LeaseKeyExpires
  <2>10. QED
    BY <1>3, <2>1, <2>2, <2>3, <2>4, <2>5, <2>6, <2>7, <2>8, <2>9 DEF LeaseStep
<1>4. ASSUME NEW l \in Lease, NEW v \in Verdict, WorkerReports(l, v)
      PROVE  ~key'[m] /\ hb'[m] = "idle"
  BY <1>4 DEF WorkerReports
<1>5. ASSUME NEW w \in Worker, WorkerStep(w)
      PROVE  ~key'[m] /\ hb'[m] = "idle"
  BY <1>5 DEF WorkerStep, Deliver, RequestLost, WorkerCrashes
<1>6. ASSUME NEW k \in Sweeper, SweepDelete(k)
      PROVE  ~key'[m] /\ hb'[m] = "idle"
  BY <1>6 DEF SweepDelete
<1>7. CASE InterchangerCrashes
  BY <1>7 DEF InterchangerCrashes, LeaseOnePC, ResultPC
<1>8. ASSUME NEW s \in Sub, ApiStep(s) PROVE UNCHANGED <<pc, key, hb>>
  BY <1>8 DEF ApiStep, CreateInsert, CreateEnqueue, CreateAborts, DeleteSubmission,
              AttemptKeyExpires
<1>9. ASSUME NEW k \in Sweeper, SweepStep(k), ~SweepDelete(k) PROVE UNCHANGED <<pc, key, hb>>
  BY <1>9 DEF SweepStep, SweepSkip, Requeue, RequeueFails, GiveUp, SweepForget
<1>10. ASSUME NEW k \in Sweeper, NEW l \in Lease, SweepRead(k, l)
       PROVE  UNCHANGED <<pc, key, hb>>
  BY <1>10 DEF SweepRead
<1>11. CASE UNCHANGED vars
  BY <1>11, <1>1 DEF vars
<1>12. QED
  BY <1>1, <1>2, <1>3, <1>4, <1>5, <1>6, <1>7, <1>8, <1>9, <1>10, <1>11 DEF Next

\* A lease never goes back to where it had no record, once it has one.
LEMMA LateStaysLate ==
  ASSUME TypeOK, [Next]_vars, NEW m \in Lease, pc[m] \notin EarlyPC
  PROVE  pc'[m] \notin EarlyPC
<1> USE DEF TypeOK, EarlyPC, subVars, leaseVars
<1>1. CASE UNCHANGED pc
  BY <1>1
<1>2. ASSUME NEW l \in Lease, NEW w \in Worker, NEW s \in Sub, LeaseTake(l, w, s)
      PROVE  pc'[m] \notin EarlyPC
  BY <1>2 DEF LeaseTake
<1>3. ASSUME NEW l \in Lease, LeaseStep(l) PROVE pc'[m] \notin EarlyPC
  <2>1. CASE FetchPayload(l) \/ FetchFindsNothing(l) \/ FetchFails(l)
    BY <2>1 DEF FetchPayload, FetchFindsNothing, FetchFails, GiveBackId
  <2>2. CASE StoreLease(l) \/ StoreAttempt(l) \/ MarkJudging(l) \/ MarkFails(l)
    BY <2>2 DEF StoreLease, StoreAttempt, MarkJudging, MarkFails
  <2>3. CASE \/ WorkerDiscards(l) \/ ResultLost(l) \/ ResultAbandoned(l)
             \/ HeartbeatErrors(l) \/ ConsumeLease(l)
    BY <2>3 DEF WorkerDiscards, ResultLost, ResultAbandoned, HeartbeatErrors, ConsumeLease
  <2>4. CASE Elapse(l) \/ LeaseKeyExpires(l) \/ HeartbeatRead(l) \/ HeartbeatWrite(l)
    BY <2>4 DEF Elapse, LeaseKeyExpires, HeartbeatRead, HeartbeatWrite
  <2>5. CASE IngestResult(l) \/ IngestFails(l) \/ ForgetAttempt(l)
    BY <2>5 DEF IngestResult, IngestFails, ForgetAttempt
  <2>6. QED
    BY <1>3, <2>1, <2>2, <2>3, <2>4, <2>5 DEF LeaseStep
<1>4. ASSUME NEW l \in Lease, NEW v \in Verdict, WorkerReports(l, v)
      PROVE  pc'[m] \notin EarlyPC
  BY <1>4 DEF WorkerReports
<1>5. ASSUME NEW w \in Worker, WorkerStep(w) PROVE pc'[m] \notin EarlyPC
  BY <1>5 DEF WorkerStep, Deliver, RequestLost, WorkerCrashes
<1>6. CASE InterchangerCrashes
  BY <1>6 DEF InterchangerCrashes
<1>7. ASSUME NEW s \in Sub, ApiStep(s) PROVE UNCHANGED pc
  BY <1>7 DEF ApiStep, CreateInsert, CreateEnqueue, CreateAborts, DeleteSubmission,
              AttemptKeyExpires
<1>8. ASSUME NEW k \in Sweeper, SweepStep(k) PROVE UNCHANGED pc
  BY <1>8 DEF SweepStep, SweepSkip, SweepDelete, Requeue, RequeueFails, GiveUp, SweepForget
<1>9. ASSUME NEW k \in Sweeper, NEW l \in Lease, SweepRead(k, l) PROVE UNCHANGED pc
  BY <1>9 DEF SweepRead
<1>10. CASE UNCHANGED vars
  BY <1>10, <1>1 DEF vars
<1>11. QED
  BY <1>1, <1>2, <1>3, <1>4, <1>5, <1>6, <1>7, <1>8, <1>9, <1>10 DEF Next

\* What the actions that touch a sweep leave of it.
LEMMA SweepMoves ==
  ASSUME TypeOK, [Next]_vars, NEW k \in Sweeper, sweep'[k].pc # "idle"
  PROVE  \/ /\ sweep[k].pc # "idle"
            /\ sweep'[k].lease = sweep[k].lease
         \/ key[sweep'[k].lease]
<1> USE DEF TypeOK, IdleSweep, subVars, leaseVars
<1>1. CASE UNCHANGED sweep
  BY <1>1
<1>2. ASSUME NEW l \in Lease, HeartbeatWrite(l), ~UNCHANGED sweep
      PROVE  sweep'[k].pc = sweep[k].pc /\ sweep'[k].lease = sweep[k].lease
  <2>1. sweep' = [j \in Sweeper |->
                    IF sweep[j].lease = l /\ sweep[j].pc = "read"
                    THEN [sweep[j] EXCEPT !.stale = TRUE] ELSE sweep[j]]
    BY <1>2, Zenon DEF HeartbeatWrite
  <2>2. sweep'[k] \in {sweep[k], [sweep[k] EXCEPT !.stale = TRUE]}
    BY <2>1, Zenon
  <2>3. sweep[k] \in [pc : SweepPC, lease : Lease \cup {Nil}, stale : BOOLEAN]
    OBVIOUS
  <2>4. QED
    BY <2>2, <2>3
<1>3. ASSUME NEW j \in Sweeper, SweepStep(j)
      PROVE  sweep[k].pc # "idle" /\ sweep'[k].lease = sweep[k].lease
  <2>1. CASE SweepSkip(j) \/ Requeue(j) \/ RequeueFails(j) \/ SweepForget(j)
    BY <2>1 DEF SweepSkip, Requeue, RequeueFails, SweepForget
  <2>2. CASE SweepDelete(j)
    BY <2>2 DEF SweepDelete
  <2>3. CASE GiveUp(j)
    BY <2>3 DEF GiveUp
  <2>4. QED
    BY <1>3, <2>1, <2>2, <2>3 DEF SweepStep
<1>4. ASSUME NEW j \in Sweeper, NEW l \in Lease, SweepRead(j, l)
      PROVE  \/ sweep[k].pc # "idle" /\ sweep'[k].lease = sweep[k].lease
             \/ key[sweep'[k].lease]
  BY <1>4 DEF SweepRead
<1>5. CASE InterchangerCrashes
  BY <1>5 DEF InterchangerCrashes
<1>6. ASSUME NEW s \in Sub, ApiStep(s) PROVE UNCHANGED sweep
  BY <1>6 DEF ApiStep, CreateInsert, CreateEnqueue, CreateAborts, DeleteSubmission,
              AttemptKeyExpires
<1>7. ASSUME NEW l \in Lease, LeaseStep(l), ~HeartbeatWrite(l) PROVE UNCHANGED sweep
  BY <1>7, Zenon
     DEF LeaseStep, FetchPayload, FetchFindsNothing, FetchFails, StoreLease, StoreAttempt,
         MarkJudging, MarkFails, WorkerDiscards, ResultLost, ResultAbandoned,
         HeartbeatErrors, Elapse, HeartbeatRead,
         ConsumeLease, IngestResult, IngestFails, ForgetAttempt, LeaseKeyExpires
<1>8. ASSUME NEW w \in Worker, WorkerStep(w) PROVE UNCHANGED sweep
  BY <1>8 DEF WorkerStep, Deliver, RequestLost, WorkerCrashes
<1>9. CASE UNCHANGED vars
  BY <1>9, <1>1 DEF vars
<1>10. CASE \E l \in Lease, w \in Worker, s \in Sub : LeaseTake(l, w, s)
  BY <1>10, <1>1 DEF LeaseTake
<1>11. CASE \E l \in Lease, v \in Verdict : WorkerReports(l, v)
  BY <1>11, <1>1 DEF WorkerReports
<1>12. QED
  BY <1>1, <1>2, <1>3, <1>4, <1>5, <1>6, <1>7, <1>8, <1>9, <1>10, <1>11 DEF Next

LEMMA SweptStep == TypeOK /\ EarlyLeases /\ SweptLeases /\ [Next]_vars => SweptLeases'
<1> SUFFICES ASSUME TypeOK, EarlyLeases, SweptLeases, [Next]_vars,
                    NEW k \in Sweeper, sweep'[k].pc # "idle"
             PROVE  pc'[sweep'[k].lease] \notin EarlyPC
  BY DEF SweptLeases
<1>1. sweep'[k].lease \in Lease
  BY TypeStep DEF TypeOK
<1>2. pc[sweep'[k].lease] \notin EarlyPC
  BY <1>1, SweepMoves DEF SweptLeases, EarlyLeases
<1>3. QED
  BY <1>1, <1>2, LateStaysLate

LEMMA OutdatedStep == TypeOK /\ OutdatedSweeps /\ [Next]_vars => OutdatedSweeps'
<1> SUFFICES ASSUME TypeOK, OutdatedSweeps, [Next]_vars, NEW k \in Sweeper, sweep'[k].stale
             PROVE  sweep'[k].pc = "read" /\ hb'[sweep'[k].lease] = "idle"
  BY DEF OutdatedSweeps
<1> USE DEF TypeOK, IdleSweep, OutdatedSweeps, subVars, leaseVars
<1>1. CASE UNCHANGED <<sweep, hb>>
  BY <1>1
<1>2. ASSUME NEW l \in Lease, HeartbeatRead(l)
      PROVE  sweep'[k].pc = "read" /\ hb'[sweep'[k].lease] = "idle"
  BY <1>2 DEF HeartbeatRead
<1>3. ASSUME NEW l \in Lease, HeartbeatWrite(l)
      PROVE  sweep'[k].pc = "read" /\ hb'[sweep'[k].lease] = "idle"
  <2>1. hb' = [hb EXCEPT ![l] = "idle"]
    BY <1>3 DEF HeartbeatWrite
  <2>2. CASE UNCHANGED sweep
    BY <2>1, <2>2
  <2>3. CASE ~UNCHANGED sweep
    <3>1. sweep' = [j \in Sweeper |->
                      IF sweep[j].lease = l /\ sweep[j].pc = "read"
                      THEN [sweep[j] EXCEPT !.stale = TRUE] ELSE sweep[j]]
      BY <1>3, <2>3, Zenon DEF HeartbeatWrite
    <3>2. CASE sweep[k].lease = l /\ sweep[k].pc = "read"
      <4>1. sweep'[k] = [sweep[k] EXCEPT !.stale = TRUE]
        BY <3>1, <3>2, Zenon
      <4>2. sweep[k] \in [pc : SweepPC, lease : Lease \cup {Nil}, stale : BOOLEAN]
        OBVIOUS
      <4>3. sweep'[k].pc = "read" /\ sweep'[k].lease = l
        BY <4>1, <4>2, <3>2
      <4>4. QED
        BY <4>3, <2>1
    <3>3. CASE ~(sweep[k].lease = l /\ sweep[k].pc = "read")
      <4>1. sweep'[k] = sweep[k]
        BY <3>1, <3>3, Zenon
      <4>2. QED
        BY <4>1, <2>1
    <3>4. QED
      BY <3>2, <3>3
  <2>4. QED
    BY <2>2, <2>3
<1>4. ASSUME NEW j \in Sweeper, SweepStep(j)
      PROVE  sweep'[k].pc = "read" /\ hb'[sweep'[k].lease] = "idle"
  <2>1. CASE SweepSkip(j) \/ Requeue(j) \/ RequeueFails(j) \/ SweepForget(j)
    <3>1. UNCHANGED hb /\ sweep'[k] \in {sweep[k], IdleSweep}
      BY <2>1, Zenon DEF SweepSkip, Requeue, RequeueFails, SweepForget
    <3>2. sweep'[k] = sweep[k]
      BY <3>1
    <3>3. QED
      BY <3>1, <3>2
  <2>2. CASE SweepDelete(j)
    <3>1. UNCHANGED hb /\ sweep'[k] \in {sweep[k], IdleSweep,
             [pc |-> "giveup", lease |-> sweep[j].lease, stale |-> FALSE],
             [pc |-> "requeue", lease |-> sweep[j].lease, stale |-> FALSE]}
      BY <2>2, Zenon DEF SweepDelete
    <3>2. sweep'[k] = sweep[k]
      BY <3>1
    <3>3. QED
      BY <3>1, <3>2
  <2>3. CASE GiveUp(j)
    BY <2>3 DEF GiveUp
  <2>4. QED
    BY <1>4, <2>1, <2>2, <2>3 DEF SweepStep
<1>5. ASSUME NEW j \in Sweeper, NEW l \in Lease, SweepRead(j, l)
      PROVE  sweep'[k].pc = "read" /\ hb'[sweep'[k].lease] = "idle"
  BY <1>5 DEF SweepRead
<1>6. CASE InterchangerCrashes
  BY <1>6 DEF InterchangerCrashes
<1>7. ASSUME NEW s \in Sub, ApiStep(s) PROVE UNCHANGED <<sweep, hb>>
  BY <1>7 DEF ApiStep, CreateInsert, CreateEnqueue, CreateAborts, DeleteSubmission,
              AttemptKeyExpires
<1>8. ASSUME NEW l \in Lease, LeaseStep(l), ~HeartbeatRead(l), ~HeartbeatWrite(l)
      PROVE  UNCHANGED <<sweep, hb>>
  BY <1>8
     DEF LeaseStep, FetchPayload, FetchFindsNothing, FetchFails, GiveBackId, StoreLease,
         StoreAttempt, MarkJudging, MarkFails, WorkerDiscards, ResultLost,
         ResultAbandoned, HeartbeatErrors, Elapse,
         ConsumeLease, IngestResult, IngestFails, ForgetAttempt, LeaseKeyExpires
<1>9. ASSUME NEW w \in Worker, WorkerStep(w) PROVE UNCHANGED <<sweep, hb>>
  BY <1>9 DEF WorkerStep, Deliver, RequestLost, WorkerCrashes
<1>10. CASE UNCHANGED vars
  BY <1>10, <1>1 DEF vars
<1>11. CASE \E l \in Lease, w \in Worker, s \in Sub : LeaseTake(l, w, s)
  BY <1>11, <1>1 DEF LeaseTake
<1>12. CASE \E l \in Lease, v \in Verdict : WorkerReports(l, v)
  BY <1>12, <1>1 DEF WorkerReports
<1>13. QED
  BY <1>1, <1>2, <1>3, <1>4, <1>5, <1>6, <1>7, <1>8, <1>9, <1>10, <1>11, <1>12 DEF Next

\* A row that is not there yet appears only by CreateInsert, and nothing is done
\* for it before.
LEMMA UnbornStep ==
  TypeOK /\ UnbornRows /\ SweptLeases /\ [Next]_vars => UnbornRows'
<1> SUFFICES ASSUME TypeOK, UnbornRows, SweptLeases, [Next]_vars,
                    NEW r \in Sub, status'[r] = "NONE"
             PROVE  create'[r] = "none" /\ waiting'[r] = 0 /\ \A m \in Lease : sub'[m] # r
  BY DEF UnbornRows
<1> DEFINE Goal == create'[r] = "none" /\ waiting'[r] = 0 /\ \A m \in Lease : sub'[m] # r
<1> USE NilAssumption, VerdictAssumption DEF TypeOK, UnbornRows, subVars, leaseVars
<1>1. CASE UNCHANGED <<status, create, waiting, sub>>
  BY <1>1
<1>2. ASSUME NEW s \in Sub, ApiStep(s) PROVE Goal
  <2>1. CASE CreateInsert(s)
    BY <2>1 DEF CreateInsert
  <2>2. CASE CreateEnqueue(s) \/ CreateAborts(s)
    BY <2>2 DEF CreateEnqueue, CreateAborts
  <2>3. CASE DeleteSubmission(s) \/ AttemptKeyExpires(s)
    BY <2>3 DEF DeleteSubmission, AttemptKeyExpires
  <2>4. QED
    BY <1>2, <2>1, <2>2, <2>3 DEF ApiStep
<1>3. ASSUME NEW l \in Lease, NEW w \in Worker, NEW s \in Sub, LeaseTake(l, w, s) PROVE Goal
  BY <1>3 DEF LeaseTake
<1>4. ASSUME NEW l \in Lease, LeaseStep(l) PROVE Goal
  <2>1. CASE FetchPayload(l) \/ StoreLease(l) \/ StoreAttempt(l)
    BY <2>1 DEF FetchPayload, StoreLease, StoreAttempt
  <2>2. CASE FetchFindsNothing(l) \/ FetchFails(l)
    BY <2>2 DEF FetchFindsNothing, FetchFails, GiveBackId
  <2>3. CASE MarkJudging(l) \/ MarkFails(l)
    BY <2>3 DEF MarkJudging, MarkFails, SetJudging
  <2>4. CASE IngestResult(l) \/ IngestFails(l)
    BY <2>4 DEF IngestResult, IngestFails, Settle, NotFinal
  <2>5. QED
    BY <1>4, <1>1, <2>1, <2>2, <2>3, <2>4, Zenon
       DEF LeaseStep, WorkerDiscards, ResultLost, ResultAbandoned, HeartbeatErrors, Elapse,
           HeartbeatRead, HeartbeatWrite,
           ConsumeLease, ForgetAttempt, LeaseKeyExpires
<1>5. ASSUME NEW k \in Sweeper, SweepStep(k) PROVE Goal
  <2>1. CASE Requeue(k)
    <3>1. sub[sweep[k].lease] # r
      <4>1. status[r] = "NONE" /\ sweep[k].lease \in Lease
        BY <2>1 DEF Requeue
      <4>2. QED
        BY <4>1
    <3>2. waiting'[r] = waiting[r]
      BY <2>1, <3>1 DEF Requeue, Requeued
    <3>3. QED
      BY <2>1, <3>2 DEF Requeue
  <2>2. CASE GiveUp(k)
    BY <2>2 DEF GiveUp, Settle
  <2>3. QED
    BY <1>1, <1>5, <2>1, <2>2 DEF SweepStep, SweepSkip, SweepDelete, RequeueFails, SweepForget
<1>6. CASE \E l \in Lease, v \in Verdict : WorkerReports(l, v)
  BY <1>6, <1>1 DEF WorkerReports
<1>7. ASSUME NEW w \in Worker, WorkerStep(w) PROVE Goal
  BY <1>7, <1>1 DEF WorkerStep, Deliver, RequestLost, WorkerCrashes
<1>8. CASE \E k \in Sweeper, l \in Lease : SweepRead(k, l)
  BY <1>8, <1>1 DEF SweepRead
<1>9. CASE InterchangerCrashes
  BY <1>9, <1>1 DEF InterchangerCrashes
<1>10. CASE UNCHANGED vars
  BY <1>10, <1>1 DEF vars
<1>11. QED
  BY <1>2, <1>3, <1>4, <1>5, <1>6, <1>7, <1>8, <1>9, <1>10 DEF Next

-----------------------------------------------------------------------------
(***************************************************************************)
(* One holder at a time.  Most steps take holders away from a submission   *)
(* or leave them; six hand it from its one holder to another.              *)
(***************************************************************************)

Shrinks(r) ==
  /\ waiting'[r] = waiting[r]
  /\ create'[r] = "inserted" => create[r] = "inserted"
  /\ Holding(r)' \subseteq Holding(r)
  /\ Reclaimers(r)' \subseteq Reclaimers(r)

LEMMA ShrinkKeeps == ASSUME NEW r, OneHolder(r), Shrinks(r) PROVE OneHolder(r)'
<1>1. waiting'[r] = waiting[r] /\ (create'[r] = "inserted" => create[r] = "inserted")
  BY DEF Shrinks
<1>2. Holding(r)' \subseteq Holding(r) /\ Reclaimers(r)' \subseteq Reclaimers(r)
  BY DEF Shrinks
<1> DEFINE H == Holding(r)  R == Reclaimers(r)  HP == Holding(r)'  RP == Reclaimers(r)'
<1>3. /\ waiting[r] <= 1
      /\ create[r] = "inserted" => waiting[r] = 0
      /\ create[r] = "inserted" \/ waiting[r] > 0 => H = {} /\ R = {}
      /\ \A l, m \in H : l = m
      /\ \A j, k \in R : j = k
      /\ H = {} \/ R = {}
  BY DEF OneHolder
<1>4. HP \subseteq H /\ RP \subseteq R
  BY <1>2
<1>5. SUFFICES /\ waiting'[r] <= 1
               /\ create'[r] = "inserted" => waiting'[r] = 0
               /\ create'[r] = "inserted" \/ waiting'[r] > 0 => HP = {} /\ RP = {}
               /\ \A l, m \in HP : l = m
               /\ \A j, k \in RP : j = k
               /\ HP = {} \/ RP = {}
  BY DEF OneHolder
<1> HIDE DEF H, R, HP, RP
<1>6. QED
  BY <1>1, <1>3, <1>4

LEMMA OneHolderApi ==
  ASSUME TypeOK, Bookkeeping, NEW r \in Sub, Open(r)', NEW s \in Sub, ApiStep(s)
  PROVE  OneHolder(r)'
<1>1. UNCHANGED <<leaseVars, sweep>> /\ Holding(r)' = Holding(r)
      /\ Reclaimers(r)' = Reclaimers(r)
  BY DEF ApiStep, CreateInsert, CreateEnqueue, CreateAborts, DeleteSubmission,
         AttemptKeyExpires, leaseVars, Holding, InHand, Reclaimers
<1>2. CASE CreateInsert(r)
  <2>1. waiting'[r] = 0 /\ \A l \in Lease : sub[l] # r
    BY <1>2 DEF CreateInsert, Bookkeeping, UnbornRows
  <2>2. Holding(r) = {} /\ Reclaimers(r) = {}
    BY <2>1 DEF Holding, Reclaimers, TypeOK
  <2>3. QED
    BY <1>1, <2>1, <2>2 DEF OneHolder
<1>3. CASE CreateEnqueue(r)
  <2>1. Open(r) /\ create[r] = "inserted"
    BY <1>3 DEF CreateEnqueue, Open
  <2>2. waiting[r] = 0 /\ Holding(r) = {} /\ Reclaimers(r) = {}
    BY <2>1 DEF Bookkeeping, OneHolder
  <2>3. waiting'[r] = 1 /\ create'[r] = "queued"
    BY <1>3, <2>2 DEF CreateEnqueue, TypeOK
  <2>4. QED
    BY <1>1, <2>2, <2>3 DEF OneHolder
<1>4. CASE ~CreateInsert(r) /\ ~CreateEnqueue(r)
  <2>1. Open(r) /\ waiting'[r] = waiting[r]
        /\ (create'[r] = "inserted" => create[r] = "inserted")
    BY <1>4 DEF ApiStep, CreateInsert, CreateEnqueue, CreateAborts, DeleteSubmission,
                AttemptKeyExpires, TypeOK, Open
  <2>2. Shrinks(r)
    BY <1>1, <2>1 DEF Shrinks
  <2>3. QED
    BY <2>1, <2>2, ShrinkKeeps DEF Bookkeeping
<1>5. QED
  BY <1>2, <1>3, <1>4

LEMMA OneHolderTake ==
  ASSUME TypeOK, Bookkeeping, NEW r \in Sub, Open(r)',
         NEW l \in Lease, NEW w \in Worker, NEW s \in Sub, LeaseTake(l, w, s)
  PROVE  OneHolder(r)'
<1>1. Open(r) /\ UNCHANGED <<create, key, overdue, hb, sweep>>
  BY DEF LeaseTake, Open
<1>2. pc[l] = "free" /\ pc' = [pc EXCEPT ![l] = "taken"] /\ sub' = [sub EXCEPT ![l] = s]
      /\ waiting[s] > 0 /\ waiting' = [waiting EXCEPT ![s] = @ - 1]
  BY DEF LeaseTake
<1>3. Reclaimers(r)' \subseteq Reclaimers(r)
  <2>1. ASSUME NEW k \in Reclaimers(r)' PROVE k \in Reclaimers(r)
    <3>1. k \in Sweeper /\ sweep[k].pc # "idle" /\ sweep[k].pc \in {"requeue", "giveup"}
          /\ sub'[sweep[k].lease] = r
      BY <1>1, <2>1 DEF Reclaimers
    <3>2. sweep[k].lease # l
      BY <3>1, <1>2 DEF Bookkeeping, SweptLeases, EarlyPC
    <3>3. QED
      BY <3>1, <3>2, <1>2 DEF Reclaimers, TypeOK
  <2>2. QED
    BY <2>1
<1>4. Holding(r)' \subseteq Holding(r) \cup {l} /\ (s # r => l \notin Holding(r)')
  BY <1>1, <1>2 DEF Holding, InHand, TypeOK
<1>5. CASE s = r
  <2>1. waiting[r] = 1 /\ create[r] # "inserted" /\ Holding(r) = {} /\ Reclaimers(r) = {}
    BY <1>1, <1>2, <1>5 DEF Bookkeeping, OneHolder, TypeOK
  <2>2. waiting'[r] = 0 /\ create'[r] # "inserted"
    BY <1>1, <1>2, <1>5, <2>1 DEF TypeOK
  <2>3. QED
    BY <1>3, <1>4, <2>1, <2>2 DEF OneHolder
<1>6. CASE s # r
  <2>1. waiting'[r] = waiting[r]
    BY <1>2, <1>6 DEF TypeOK
  <2>2. Shrinks(r)
    BY <1>1, <1>3, <1>4, <1>6, <2>1 DEF Shrinks
  <2>3. QED
    BY <1>1, <2>2, ShrinkKeeps DEF Bookkeeping
<1>7. QED
  BY <1>5, <1>6

\* A step that neither opens rows, nor moves jobs or reclaiming sweeps, nor
\* makes a lease a holder that was none.
LEMMA NoNewHolder ==
  ASSUME TypeOK, Bookkeeping, NEW r \in Sub, Open(r), UNCHANGED <<create, waiting>>,
         Holding(r)' \subseteq Holding(r), Reclaimers(r)' \subseteq Reclaimers(r)
  PROVE  OneHolder(r)'
<1>1. Shrinks(r)
  BY DEF Shrinks
<1>2. QED
  BY <1>1, ShrinkKeeps DEF Bookkeeping

\* A heartbeat may outdate what a sweep has read, never move a sweep.
LEMMA HeartbeatLeavesSweeps ==
  ASSUME TypeOK, NEW l \in Lease, HeartbeatWrite(l)
  PROVE  \A k \in Sweeper : sweep'[k].pc = sweep[k].pc /\ sweep'[k].lease = sweep[k].lease
<1>1. CASE UNCHANGED sweep
  BY <1>1
<1>2. CASE ~UNCHANGED sweep
  <2>1. sweep' = [k \in Sweeper |->
                    IF sweep[k].lease = l /\ sweep[k].pc = "read"
                    THEN [sweep[k] EXCEPT !.stale = TRUE] ELSE sweep[k]]
    BY <1>2, Zenon DEF HeartbeatWrite
  <2>2. ASSUME NEW k \in Sweeper
        PROVE  sweep'[k].pc = sweep[k].pc /\ sweep'[k].lease = sweep[k].lease
    <3>1. sweep'[k] \in {sweep[k], [sweep[k] EXCEPT !.stale = TRUE]}
      BY <2>1, Zenon
    <3>2. sweep[k] \in [pc : SweepPC, lease : Lease \cup {Nil}, stale : BOOLEAN]
      BY DEF TypeOK
    <3>3. QED
      BY <3>1, <3>2
  <2>3. QED
    BY <2>2
<1>3. QED
  BY <1>1, <1>2

LEMMA OneHolderLease ==
  ASSUME TypeOK, Bookkeeping, NEW r \in Sub, Open(r)', NEW l \in Lease, LeaseStep(l)
  PROVE  OneHolder(r)'
<1> USE DEF subVars, leaseVars
<1>1. CASE FetchPayload(l) \/ StoreLease(l) \/ StoreAttempt(l)
  <2>1. Open(r) /\ UNCHANGED <<create, waiting>> /\ Reclaimers(r)' = Reclaimers(r)
    BY <1>1 DEF FetchPayload, StoreLease, StoreAttempt, Open, Reclaimers
  <2>2. Holding(r)' \subseteq Holding(r)
    BY <1>1 DEF FetchPayload, StoreLease, StoreAttempt, Holding, InHand, TypeOK,
                Bookkeeping, EarlyLeases, EarlyPC
  <2>3. QED
    BY <2>1, <2>2, NoNewHolder
<1>2. CASE FetchFindsNothing(l)
  <2>1. Open(r) /\ UNCHANGED <<create, waiting>>
    BY <1>2 DEF FetchFindsNothing, Open
  <2>2. Holding(r)' \subseteq Holding(r) /\ Reclaimers(r)' \subseteq Reclaimers(r)
    BY <1>2, NilAssumption DEF FetchFindsNothing, GiveBackId, Holding, InHand, Reclaimers, TypeOK
  <2>3. QED
    BY <2>1, <2>2, NoNewHolder
<1>3. CASE FetchFails(l)
  <2>1. Open(r) /\ UNCHANGED create /\ pc[l] = "taken"
    BY <1>3 DEF FetchFails, Open
  <2>2. Holding(r)' \subseteq Holding(r) \ {l} /\ Reclaimers(r)' \subseteq Reclaimers(r)
    BY <1>3, NilAssumption DEF FetchFails, GiveBackId, Holding, InHand, Reclaimers, TypeOK
  <2>3. CASE sub[l] = r
    <3>1. l \in Holding(r)
      BY <2>1, <2>3 DEF Holding, InHand
    <3>2. Reclaimers(r) = {} /\ Holding(r) \ {l} = {} /\ waiting[r] = 0 /\ create[r] # "inserted"
      BY <2>1, <3>1 DEF Bookkeeping, OneHolder, TypeOK
    <3>3. waiting'[r] \in {0, 1}
      BY <1>3, <2>3, <3>2 DEF FetchFails, TypeOK
    <3>4. QED
      BY <2>1, <2>2, <3>2, <3>3 DEF OneHolder
  <2>4. CASE sub[l] # r
    <3>1. waiting'[r] = waiting[r]
      BY <1>3, <2>4 DEF FetchFails, TypeOK
    <3>2. Shrinks(r)
      BY <2>1, <2>2, <3>1 DEF Shrinks
    <3>3. QED
      BY <2>1, <3>2, ShrinkKeeps DEF Bookkeeping
  <2>5. QED
    BY <2>3, <2>4
<1>4. CASE MarkJudging(l) \/ MarkFails(l)
  <2>1. Open(r) /\ UNCHANGED <<create, waiting>> /\ Reclaimers(r)' = Reclaimers(r)
    BY <1>4 DEF MarkJudging, MarkFails, SetJudging, Open, Reclaimers, TypeOK
  <2>2. Holding(r)' \subseteq Holding(r)
    BY <1>4 DEF MarkJudging, MarkFails, Holding, InHand, TypeOK
  <2>3. QED
    BY <2>1, <2>2, NoNewHolder
<1>5. CASE \/ WorkerDiscards(l) \/ ResultLost(l) \/ ResultAbandoned(l)
           \/ HeartbeatErrors(l) \/ LeaseKeyExpires(l)
  <2>1. Open(r) /\ UNCHANGED <<create, waiting>> /\ Reclaimers(r)' = Reclaimers(r)
    BY <1>5 DEF WorkerDiscards, ResultLost, ResultAbandoned, HeartbeatErrors,
                LeaseKeyExpires, Open, Reclaimers
  <2>2. Holding(r)' \subseteq Holding(r)
    BY <1>5 DEF WorkerDiscards, ResultLost, ResultAbandoned, HeartbeatErrors,
                LeaseKeyExpires, Holding, InHand, TypeOK
  <2>3. QED
    BY <2>1, <2>2, NoNewHolder
<1>6. CASE Elapse(l)
  <2>1. Open(r) /\ UNCHANGED <<create, waiting>> /\ Reclaimers(r)' = Reclaimers(r)
    BY <1>6 DEF Elapse, Open, Reclaimers
  <2>2. \A m \in Lease : key'[m] => key[m]
    BY <1>6 DEF Elapse, KeptAfterExpiry, TypeOK
  <2>3. Holding(r)' \subseteq Holding(r)
    BY <1>6, <2>2 DEF Elapse, Holding, InHand, TypeOK
  <2>4. QED
    BY <2>1, <2>3, NoNewHolder
<1>7. CASE HeartbeatRead(l)
  <2>1. Open(r) /\ UNCHANGED <<create, waiting>> /\ Reclaimers(r)' = Reclaimers(r)
    BY <1>7 DEF HeartbeatRead, Open, Reclaimers
  <2>2. Holding(r)' \subseteq Holding(r)
    BY <1>7 DEF HeartbeatRead, Holding, InHand, TypeOK
  <2>3. QED
    BY <2>1, <2>2, NoNewHolder
<1>8. CASE HeartbeatWrite(l)
  <2>1. Open(r) /\ UNCHANGED <<create, waiting, pc, sub>>
    BY <1>8 DEF HeartbeatWrite, Open
  <2>2. \A k \in Sweeper : sweep'[k].pc = sweep[k].pc /\ sweep'[k].lease = sweep[k].lease
    BY <1>8, HeartbeatLeavesSweeps
  <2>3. Reclaimers(r)' \subseteq Reclaimers(r)
    BY <2>1, <2>2 DEF Reclaimers
  <2>4. Holding(r)' \subseteq Holding(r)
    BY <1>8 DEF HeartbeatWrite, StillAlive, Holding, InHand, TypeOK
  <2>5. QED
    BY <2>1, <2>3, <2>4, NoNewHolder
<1>9. CASE ConsumeLease(l)
  <2>1. Open(r) /\ UNCHANGED <<create, waiting>> /\ Reclaimers(r)' = Reclaimers(r)
    BY <1>9 DEF ConsumeLease, Open, Reclaimers
  <2>2. Holding(r)' \subseteq Holding(r)
    BY <1>9 DEF ConsumeLease, Holding, InHand, TypeOK
  <2>3. QED
    BY <2>1, <2>2, NoNewHolder
<1>10. CASE IngestResult(l) \/ IngestFails(l) \/ ForgetAttempt(l)
  <2>1. Open(r)
    BY <1>10, VerdictAssumption
       DEF IngestResult, IngestFails, ForgetAttempt, Open, Settle, TypeOK, NotFinal
  <2>2. UNCHANGED <<create, waiting>> /\ Reclaimers(r)' = Reclaimers(r)
    BY <1>10 DEF IngestResult, IngestFails, ForgetAttempt, Reclaimers
  <2>3. Holding(r)' \subseteq Holding(r)
    BY <1>10 DEF IngestResult, IngestFails, ForgetAttempt, Holding, InHand, TypeOK
  <2>4. QED
    BY <2>1, <2>2, <2>3, NoNewHolder
<1>11. QED
  BY <1>1, <1>2, <1>3, <1>4, <1>5, <1>6, <1>7, <1>8, <1>9, <1>10 DEF LeaseStep

LEMMA OneHolderWorker ==
  ASSUME TypeOK, Bookkeeping, NEW r \in Sub, Open(r)',
         \/ \E l \in Lease, v \in Verdict : WorkerReports(l, v)
         \/ \E w \in Worker : WorkerStep(w)
         \/ InterchangerCrashes
  PROVE  OneHolder(r)'
<1>1. Open(r) /\ UNCHANGED <<create, waiting>>
  BY DEF WorkerReports, WorkerStep, Deliver, RequestLost, WorkerCrashes, InterchangerCrashes,
         Open, subVars
<1>2. Reclaimers(r)' \subseteq Reclaimers(r)
  BY DEF WorkerReports, WorkerStep, Deliver, RequestLost, WorkerCrashes, InterchangerCrashes,
         Reclaimers, IdleSweep
<1>3. Holding(r)' \subseteq Holding(r)
  <2>1. CASE \E l \in Lease, v \in Verdict : WorkerReports(l, v)
    BY <2>1 DEF WorkerReports, Holding, InHand, TypeOK
  <2>2. CASE \E w \in Worker : WorkerStep(w)
    BY <2>2 DEF WorkerStep, Deliver, RequestLost, WorkerCrashes, Holding, InHand, TypeOK
  <2>3. CASE InterchangerCrashes
    BY <2>3 DEF InterchangerCrashes, Holding, InHand, TypeOK
  <2>4. QED
    BY <2>1, <2>2, <2>3
<1>4. QED
  BY <1>1, <1>2, <1>3, NoNewHolder

LEMMA OneHolderDelete ==
  ASSUME TypeOK, Bookkeeping, NEW r \in Sub, Open(r)', NEW k \in Sweeper, SweepDelete(k)
  PROVE  OneHolder(r)'
<1> DEFINE l == sweep[k].lease
<1>1. /\ sweep[k].pc = "read" /\ (overdue[l] \/ sweep[k].stale)
      /\ key' = [key EXCEPT ![l] = FALSE]
      /\ UNCHANGED <<status, create, waiting, pc, sub, overdue, hb>>
      /\ \A j \in Sweeper : j # k => sweep'[j] = sweep[j]
      /\ ~key[l] => sweep'[k] = IdleSweep
      /\ key[l] => sweep'[k].lease = l
  BY DEF SweepDelete, OwnsLease, TypeOK, subVars
<1>2. l \in Lease
  BY <1>1 DEF TypeOK
<1>3. Open(r)
  BY <1>1 DEF Open
<1> HIDE DEF l
<1>4. hb[l] = "idle" \/ overdue[l]
  BY <1>1 DEF Bookkeeping, OutdatedSweeps, l
<1>5. Holding(r)' \subseteq Holding(r) \ {l}
  <2>1. ASSUME NEW m \in Holding(r)' PROVE m \in Holding(r) /\ m # l
    <3>1. m \in Lease /\ sub[m] = r
          /\ (key'[m] \/ pc[m] \in {"taken", "fetched"} \/ (hb[m] = "read" /\ ~overdue[m]))
      BY <1>1, <2>1 DEF Holding, InHand
    <3>2. key'[m] => key[m] /\ m # l
      BY <1>1, <1>2, <3>1 DEF TypeOK
    <3>3. pc[l] \notin {"taken", "fetched"}
      BY <1>1 DEF Bookkeeping, SweptLeases, EarlyPC, l
    <3>4. QED
      BY <1>4, <3>1, <3>2, <3>3 DEF Holding, InHand
  <2>2. QED
    BY <2>1
<1>6. \A j \in Reclaimers(r)' : j # k => j \in Reclaimers(r)
  BY <1>1 DEF Reclaimers
<1>7. k \in Reclaimers(r)' => key[l] /\ sub[l] = r
  BY <1>1 DEF Reclaimers, IdleSweep
<1>8. CASE k \in Reclaimers(r)'
  <2>1. l \in Holding(r)
    BY <1>2, <1>7, <1>8 DEF Holding, InHand
  <2>2. Reclaimers(r) = {} /\ Holding(r) \ {l} = {} /\ waiting[r] = 0 /\ create[r] # "inserted"
    BY <1>3, <2>1 DEF Bookkeeping, OneHolder, TypeOK
  <2>3. Reclaimers(r)' \subseteq {k} /\ Holding(r)' = {}
    BY <1>5, <1>6, <2>2
  <2>4. QED
    BY <1>1, <2>2, <2>3 DEF OneHolder
<1>9. CASE k \notin Reclaimers(r)'
  BY <1>1, <1>3, <1>5, <1>6, <1>9, NoNewHolder
<1>10. QED
  BY <1>8, <1>9

LEMMA OneHolderRequeue ==
  ASSUME TypeOK, Bookkeeping, NEW r \in Sub, Open(r)', NEW k \in Sweeper, Requeue(k)
  PROVE  OneHolder(r)'
<1> DEFINE s == sub[sweep[k].lease]
<1>1. /\ sweep[k].pc = "requeue"
      /\ waiting' = [waiting EXCEPT ![s] = @ + 1]
      /\ sweep' = [sweep EXCEPT ![k] = IdleSweep]
      /\ UNCHANGED <<status, create, leaseVars>>
  BY DEF Requeue, Requeued
<1>2. Open(r) /\ Holding(r)' = Holding(r)
  BY <1>1 DEF Open, Holding, InHand, leaseVars
<1>3. Reclaimers(r)' \subseteq Reclaimers(r) \ {k}
  BY <1>1 DEF Reclaimers, leaseVars, IdleSweep, TypeOK
<1>4. CASE s = r
  <2>1. k \in Reclaimers(r)
    BY <1>1, <1>4 DEF Reclaimers
  <2>2. Holding(r) = {} /\ Reclaimers(r) \ {k} = {} /\ waiting[r] = 0 /\ create[r] # "inserted"
    BY <1>2, <2>1 DEF Bookkeeping, OneHolder, TypeOK
  <2>3. waiting'[r] = 1
    BY <1>1, <1>4, <2>2 DEF TypeOK
  <2>4. QED
    BY <1>1, <1>2, <1>3, <2>2, <2>3 DEF OneHolder
<1>5. CASE s # r
  <2>1. waiting'[r] = waiting[r]
    BY <1>1, <1>5 DEF TypeOK
  <2>2. Shrinks(r)
    BY <1>1, <1>2, <1>3, <2>1 DEF Shrinks
  <2>3. QED
    BY <1>2, <2>2, ShrinkKeeps DEF Bookkeeping
<1>6. QED
  BY <1>4, <1>5

LEMMA OneHolderSweep ==
  ASSUME TypeOK, Bookkeeping, NEW r \in Sub, Open(r)', NEW k \in Sweeper,
         SweepStep(k) \/ \E l \in Lease : SweepRead(k, l)
  PROVE  OneHolder(r)'
<1>1. CASE SweepDelete(k) \/ Requeue(k)
  BY <1>1, OneHolderDelete, OneHolderRequeue
<1>2. CASE ~SweepDelete(k) /\ ~Requeue(k)
  <2>1. UNCHANGED <<create, waiting, leaseVars>>
    BY <1>2 DEF SweepStep, SweepSkip, RequeueFails, GiveUp, SweepForget, SweepRead, subVars
  <2>2. Open(r)
    BY <1>2, VerdictAssumption
       DEF SweepStep, SweepSkip, RequeueFails, GiveUp, SweepForget, SweepRead, subVars,
           Open, Settle, TypeOK, NotFinal
  <2>3. \A j \in Sweeper : sweep'[j].pc \in {"requeue", "giveup"} => sweep'[j] = sweep[j]
    BY <1>2 DEF SweepStep, SweepSkip, RequeueFails, GiveUp, SweepForget, SweepRead, IdleSweep,
                TypeOK
  <2>4. Holding(r)' = Holding(r) /\ Reclaimers(r)' \subseteq Reclaimers(r)
    BY <2>1, <2>3 DEF Holding, InHand, Reclaimers, leaseVars
  <2>5. QED
    BY <2>1, <2>2, <2>4, NoNewHolder
<1>3. QED
  BY <1>1, <1>2

LEMMA BookStep == TypeOK /\ Bookkeeping /\ [Next]_vars => Bookkeeping'
<1> SUFFICES ASSUME TypeOK, Bookkeeping, [Next]_vars PROVE Bookkeeping'
  OBVIOUS
<1>1. UnbornRows' /\ EarlyLeases' /\ SweptLeases' /\ OutdatedSweeps'
  BY UnbornStep, EarlyStep, SweptStep, OutdatedStep DEF Bookkeeping
<1>2. ASSUME NEW r \in Sub, Open(r)' PROVE OneHolder(r)'
  <2>1. CASE Next
    BY <1>2, <2>1, OneHolderApi, OneHolderTake, OneHolderLease, OneHolderWorker, OneHolderSweep
       DEF Next
  <2>2. CASE UNCHANGED vars
    <3>1. Open(r) /\ OneHolder(r)' = OneHolder(r)
      BY <1>2, <2>2 DEF vars, Open, OneHolder, Holding, InHand, Reclaimers
    <3>2. QED
      BY <3>1 DEF Bookkeeping
  <2>3. QED
    BY <2>1, <2>2
<1>3. QED
  BY <1>1, <1>2 DEF Bookkeeping

THEOREM BookkeepingHolds == Spec => []Bookkeeping
  BY TypeCorrect, BookInit, BookStep, PTL DEF Spec

LEMMA OneHolderIsSole ==
  ASSUME NEW s \in Sub, waiting \in [Sub -> Nat], OneHolder(s),
         NEW c \in Carriers(s), NEW d \in Carriers(s)
  PROVE  c = d
<1> DEFINE L == {l \in Lease : sub[l] = s /\ InHand(l)}
<1>1. L \subseteq Holding(s)
  BY DEF Holding
<1>2. \A x \in Carriers(s) :
        \/ x = <<"create", s>> /\ create[s] = "inserted"
        \/ x = <<"job", 1>> /\ waiting[s] > 0
        \/ \E l \in Holding(s) : x = <<"lease", l>>
        \/ \E k \in Reclaimers(s) : x = <<"sweep", k>>
  <2>1. 1..waiting[s] \subseteq {1} /\ (1..waiting[s] # {} => waiting[s] > 0)
    BY DEF OneHolder
  <2> HIDE DEF L
  <2>2. Carriers(s) = {<<"create", x>> : x \in {y \in {s} : create[y] = "inserted"}}
           \cup {<<"job", i>> : i \in 1..waiting[s]}
           \cup {<<"lease", l>> : l \in L}
           \cup {<<"sweep", k>> : k \in Reclaimers(s)}
    BY DEF Carriers, L
  <2>3. QED
    BY <1>1, <2>1, <2>2
<1>3. QED
  BY <1>2 DEF OneHolder

\* Whatever faults happen, a submission without a verdict has at most one
\* carrier: no interleaving of overlapping sweeps, heartbeats, late results and
\* redeliveries makes two of them entitled to judge it.
THEOREM SingleCarrier == Spec => []SoleCarrier
<1>1. TypeOK /\ Bookkeeping => SoleCarrier
  BY OneHolderIsSole DEF TypeOK, Bookkeeping, SoleCarrier
<1>2. QED
  BY <1>1, TypeCorrect, BookkeepingHolds, PTL
=============================================================================
