------------------------ MODULE JudgeLeaseContractProofs ------------------------
(***************************************************************************)
(* JudgeLease implements JudgeContract, whatever faults happen, and what   *)
(* it promises of attempts: INTERNAL_ERROR needs two deliveries, and an    *)
(* open submission has no third.                                           *)
(***************************************************************************)
EXTENDS JudgeLeaseSafetyProofs, FiniteSetTheorems

(***************************************************************************)
(* A submission whose job was never put on the queue is in nobody's hands. *)
(***************************************************************************)

Unqueued ==
  \A s \in Sub : create[s] # "queued" => waiting[s] = 0 /\ \A l \in Lease : sub[l] # s

LEMMA UnqueuedInit == Init => Unqueued
  BY NilAssumption DEF Init, Unqueued

LEMMA UnqueuedStep == TypeOK /\ UnbornRows /\ Unqueued /\ [Next]_vars => Unqueued'
<1> SUFFICES ASSUME TypeOK, UnbornRows, Unqueued, [Next]_vars,
                    NEW r \in Sub, create'[r] # "queued"
             PROVE  waiting'[r] = 0 /\ \A m \in Lease : sub'[m] # r
  BY DEF Unqueued
<1> DEFINE Goal == waiting'[r] = 0 /\ \A m \in Lease : sub'[m] # r
<1> USE NilAssumption DEF TypeOK, UnbornRows, Unqueued, subVars, leaseVars
<1>1. CASE UNCHANGED <<create, waiting, sub>>
  BY <1>1
<1>2. ASSUME NEW s \in Sub, ApiStep(s) PROVE Goal
  <2>1. CASE CreateInsert(s) \/ CreateEnqueue(s) \/ CreateAborts(s)
    BY <2>1 DEF CreateInsert, CreateEnqueue, CreateAborts
  <2>2. CASE DeleteSubmission(s) \/ AttemptKeyExpires(s)
    BY <2>2 DEF DeleteSubmission, AttemptKeyExpires
  <2>3. QED
    BY <1>2, <2>1, <2>2 DEF ApiStep
<1>3. ASSUME NEW l \in Lease, NEW w \in Worker, NEW s \in Sub, LeaseTake(l, w, s) PROVE Goal
  BY <1>3 DEF LeaseTake
<1>4. ASSUME NEW l \in Lease, LeaseStep(l) PROVE Goal
  <2>1. CASE FetchFindsNothing(l)
    BY <2>1 DEF FetchFindsNothing, GiveBackId
  <2>2. CASE FetchFails(l)
    <3>1. UNCHANGED create /\ pc[l] = "taken" /\ sub[l] \in Sub /\ sub[l] # r
      BY <2>2 DEF FetchFails
    <3>2. waiting'[r] = waiting[r] /\ \A m \in Lease : sub'[m] \in {sub[m], Nil}
      BY <2>2, <3>1 DEF FetchFails, GiveBackId
    <3>3. QED
      BY <3>1, <3>2
  <2>3. CASE ~FetchFindsNothing(l) /\ ~FetchFails(l)
    BY <1>4, <1>1, <2>3, Zenon
       DEF LeaseStep, FetchPayload, StoreLease, StoreAttempt, MarkJudging, MarkFails,
           WorkerDiscards, ResultLost, ResultAbandoned, HeartbeatErrors, Elapse,
           HeartbeatRead, HeartbeatWrite, ConsumeLease, IngestResult, IngestFails,
           ForgetAttempt, LeaseKeyExpires
  <2>4. QED
    BY <2>1, <2>2, <2>3
<1>5. ASSUME NEW k \in Sweeper, SweepStep(k) PROVE Goal
  <2>1. CASE Requeue(k)
    <3>1. UNCHANGED <<create, sub>> /\ sub[sweep[k].lease] # r
      BY <2>1 DEF Requeue
    <3>2. waiting'[r] = waiting[r]
      BY <2>1, <3>1 DEF Requeue, Requeued
    <3>3. QED
      BY <3>1, <3>2
  <2>2. CASE ~Requeue(k)
    BY <1>1, <1>5, <2>2 DEF SweepStep, SweepSkip, SweepDelete, RequeueFails, GiveUp, SweepForget
  <2>3. QED
    BY <2>1, <2>2
<1>6. CASE \E l \in Lease, v \in Verdict : WorkerReports(l, v)
  BY <1>6, <1>1 DEF WorkerReports
<1>7. ASSUME NEW w \in Worker, WorkerStep(w) PROVE Goal
  BY <1>7, <1>1 DEF WorkerStep, Deliver, RequestLost, WorkerCrashes
<1>8. CASE \E k \in Sweeper, l \in Lease : SweepRead(k, l)
  BY <1>8, <1>1 DEF SweepRead
<1>9. CASE InterchangerCrashes
  BY <1>9, <1>1 DEF InterchangerCrashes
<1>10. CASE UNCHANGED vars
  BY <1>10, <1>1 DEF vars
<1>11. QED
  BY <1>2, <1>3, <1>4, <1>5, <1>6, <1>7, <1>8, <1>9, <1>10 DEF Next

-----------------------------------------------------------------------------
(***************************************************************************)
(* Stages.                                                                 *)
(***************************************************************************)

LEMMA StageCases ==
  ASSUME TypeOK, NEW s \in Sub
  PROVE  /\ status[s] = "NONE" => StageOf(s) = "absent"
         /\ status[s] = "GONE" => StageOf(s) = "gone"
         /\ status[s] \in FinalStatus => StageOf(s) = status[s]
         /\ Open(s) => StageOf(s) = OpenStage(s)
         /\ Open(s) \/ status[s] \in FinalStatus \cup {"NONE", "GONE"}
<1>1. status[s] \in FinalStatus => status[s] \notin NotFinal
  BY VerdictAssumption DEF FinalStatus, NotFinal
<1>2. status[s] \in NotFinal \cup FinalStatus
  BY DEF TypeOK
<1>3. QED
  BY <1>1, <1>2 DEF NotFinal, StageOf, Open

\* The same of the next state.
LEMMA StageCasesNext ==
  ASSUME TypeOK', NEW s \in Sub
  PROVE  /\ status'[s] = "NONE" => StageOf(s)' = "absent"
         /\ status'[s] = "GONE" => StageOf(s)' = "gone"
         /\ status'[s] \in FinalStatus => StageOf(s)' = status'[s]
         /\ Open(s)' => StageOf(s)' = OpenStage(s)'
         /\ Open(s)' \/ status'[s] \in FinalStatus \cup {"NONE", "GONE"}
<1>1. status'[s] \in FinalStatus => status'[s] \notin NotFinal
  BY VerdictAssumption DEF FinalStatus, NotFinal
<1>2. status'[s] \in NotFinal \cup FinalStatus
  BY DEF TypeOK
<1>3. QED
  BY <1>1, <1>2 DEF NotFinal, StageOf, Open

Same(s) == StageOf(s)' = StageOf(s)

\* What the contract lets one submission do, but to fall back.
Moves(s) ==
  \/ StageOf(s) = "absent" /\ StageOf(s)' = "accepted"
  \/ StageOf(s) = "accepted" /\ StageOf(s)' = "queued"
  \/ StageOf(s) = "queued" /\ StageOf(s)' = "delivered"
  \/ StageOf(s) = "delivered" /\ StageOf(s)' \in {"queued", "deciding"}
  \/ StageOf(s) = "deciding" /\ StageOf(s)' \in FinalStatus
  \/ StageOf(s) \notin {"absent", "gone"} /\ StageOf(s)' = "gone"

Falls(s) == StageOf(s) = "deciding" /\ StageOf(s)' \in {"queued", "delivered"}

Stages == [s \in Sub |-> StageOf(s)]

\* A step that moves one submission and leaves the others is one of the contract's.
LEMMA OneMoves ==
  ASSUME NEW s \in Sub, \A r \in Sub : r # s => Same(r), Same(s) \/ Moves(s)
  PROVE  [Contract!Next]_Stages
<1>1. CASE Same(s)
  BY <1>1 DEF Same, Stages
<1>2. ASSUME NEW b, StageOf(s)' = b
      PROVE  Stages' = [Stages EXCEPT ![s] = b] /\ Stages[s] = StageOf(s)
  BY <1>2 DEF Same, Stages
<1> USE DEF Stages, Contract!Next, Contract!Move, Contract!Submit, Contract!Enqueue, Contract!Deliver,
            Contract!HandBack, Contract!StartDeciding, Contract!Withdraw, Contract!Decide,
            Contract!Decided
<1>3. CASE StageOf(s) = "absent" /\ StageOf(s)' = "accepted"
  <2>1. Contract!Submit(s)
    BY <1>2, <1>3
  <2>2. QED
    BY <2>1
<1>4. CASE StageOf(s) = "accepted" /\ StageOf(s)' = "queued"
  <2>1. Contract!Enqueue(s)
    BY <1>2, <1>4
  <2>2. QED
    BY <2>1
<1>5. CASE StageOf(s) = "queued" /\ StageOf(s)' = "delivered"
  <2>1. Contract!Deliver(s)
    BY <1>2, <1>5
  <2>2. QED
    BY <2>1
<1>6. CASE StageOf(s) = "delivered" /\ StageOf(s)' \in {"queued", "deciding"}
  <2>1. Contract!HandBack(s) \/ Contract!StartDeciding(s)
    BY <1>2, <1>6
  <2>2. QED
    BY <2>1
<1>7. CASE StageOf(s) = "deciding" /\ StageOf(s)' \in FinalStatus
  <2>1. PICK v \in Contract!Decided : StageOf(s)' = v
    BY <1>7 DEF FinalStatus
  <2>2. Contract!Decide(s, v)
    BY <1>2, <1>7, <2>1
  <2>3. QED
    BY <2>2
<1>8. CASE StageOf(s) \notin {"absent", "gone"} /\ StageOf(s)' = "gone"
  <2>1. Contract!Withdraw(s)
    BY <1>2, <1>8
  <2>2. QED
    BY <2>1
<1>9. QED
  BY <1>1, <1>3, <1>4, <1>5, <1>6, <1>7, <1>8 DEF Moves

\* A step that leaves submissions or lets them fall back is one too, where it may fail.
LEMMA SomeFall ==
  ASSUME TypeOK', Faults \cap {"ingest", "interchanger"} # {},
         \A s \in Sub : Same(s) \/ Falls(s)
  PROVE  [Contract!Next]_Stages
<1>1. \A s \in Sub : StageOf(s)' \in Contract!Stage \cup Contract!Decided
  BY StageCasesNext DEF OpenStage, Contract!Stage, Contract!Decided, FinalStatus
<1>2. Contract!Falter
  BY <1>1 DEF Contract!Falter, Same, Falls
<1>3. QED
  BY <1>2 DEF Contract!Next

-----------------------------------------------------------------------------
(***************************************************************************)
(* Most steps leave every stage as it is.                                  *)
(***************************************************************************)

\* Nothing of what a submission's stage depends on changes.
LEMMA UntouchedStays ==
  ASSUME TypeOK, TypeOK', NEW r \in Sub,
         status'[r] = status[r] \/ (Open(r) /\ Open(r)'),
         Open(r) => /\ create'[r] = create[r]
                    /\ waiting'[r] > 0 <=> waiting[r] > 0
                    /\ Deciding(r)' <=> Deciding(r)
  PROVE  Same(r)
<1>1. CASE Open(r)
  <2>1. Open(r)'
    BY <1>1 DEF Open
  <2>2. StageOf(r) = OpenStage(r) /\ StageOf(r)' = OpenStage(r)'
    BY <1>1, <2>1, StageCases, StageCasesNext
  <2>3. OpenStage(r)' = OpenStage(r)
    BY <1>1 DEF OpenStage
  <2>4. QED
    BY <2>2, <2>3 DEF Same
<1>2. CASE ~Open(r)
  <2>1. status'[r] = status[r]
    BY <1>2
  <2>2. QED
    BY <1>2, <2>1, StageCases, StageCasesNext DEF Same
<1>3. QED
  BY <1>1, <1>2

\* The results and the sweeps that decide a submission are the same as before.
LEMMA SameDeciders ==
  ASSUME NEW r \in Sub,
         \A l \in Lease : sub'[l] = r /\ pc'[l] = "consumed" <=> sub[l] = r /\ pc[l] = "consumed",
         \A k \in Sweeper : sweep'[k].pc = "giveup" /\ sub'[sweep'[k].lease] = r
                              <=> sweep[k].pc = "giveup" /\ sub[sweep[k].lease] = r
  PROVE  Deciding(r)' <=> Deciding(r)
<1>1. Settling(r)' = Settling(r)
  BY DEF Settling
<1>2. QED
  BY <1>1 DEF Deciding

LEMMA QuietStep ==
  ASSUME TypeOK, TypeOK', UNCHANGED <<create, waiting, sub>>,
         \A r \in Sub : status'[r] = status[r] \/ (Open(r) /\ Open(r)'),
         \A l \in Lease : pc'[l] = "consumed" <=> pc[l] = "consumed",
         \A k \in Sweeper : sweep'[k].pc = "giveup" <=> sweep[k].pc = "giveup",
         \A k \in Sweeper : sweep[k].pc = "giveup" => sweep'[k].lease = sweep[k].lease
  PROVE  [Contract!Next]_Stages
<1>1. ASSUME NEW r \in Sub PROVE Same(r)
  <2>1. Deciding(r)' <=> Deciding(r)
    BY SameDeciders
  <2>2. QED
    BY <2>1, UntouchedStays
<1>2. QED
  BY <1>1 DEF Same, Stages

LEMMA QuietLease ==
  ASSUME TypeOK, TypeOK', NEW l \in Lease,
         \/ FetchPayload(l) \/ StoreLease(l) \/ StoreAttempt(l) \/ MarkJudging(l) \/ MarkFails(l)
         \/ WorkerDiscards(l) \/ ResultLost(l) \/ ResultAbandoned(l) \/ HeartbeatErrors(l)
         \/ Elapse(l) \/ HeartbeatRead(l) \/ ForgetAttempt(l) \/ LeaseKeyExpires(l)
  PROVE  [Contract!Next]_Stages
<1> USE DEF FetchPayload, StoreLease, StoreAttempt, MarkJudging, MarkFails, WorkerDiscards,
            ResultLost, ResultAbandoned, HeartbeatErrors, Elapse, HeartbeatRead,
            ForgetAttempt, LeaseKeyExpires, subVars, leaseVars
<1>1. UNCHANGED <<create, waiting, sub, sweep>>
  OBVIOUS
<1>2. \A r \in Sub : status'[r] = status[r] \/ (Open(r) /\ Open(r)')
  <2>1. status' = status \/ status' = SetJudging(sub[l])
    BY Zenon
  <2>2. QED
    BY <2>1 DEF SetJudging, Open, TypeOK
<1>3. \A m \in Lease : pc'[m] = "consumed" <=> pc[m] = "consumed"
  BY DEF TypeOK
<1>4. QED
  BY <1>1, <1>2, <1>3, QuietStep

LEMMA QuietHeartbeat ==
  ASSUME TypeOK, TypeOK', NEW l \in Lease, HeartbeatWrite(l)
  PROVE  [Contract!Next]_Stages
<1>1. UNCHANGED <<status, create, waiting, pc, sub>>
  BY DEF HeartbeatWrite, subVars
<1>2. QED
  BY <1>1, HeartbeatLeavesSweeps, QuietStep

LEMMA QuietWorker ==
  ASSUME TypeOK, TypeOK',
         \/ \E l \in Lease, v \in Verdict : WorkerReports(l, v)
         \/ \E w \in Worker : WorkerStep(w)
  PROVE  [Contract!Next]_Stages
<1> USE DEF WorkerReports, WorkerStep, Deliver, RequestLost, WorkerCrashes, subVars
<1>1. UNCHANGED <<status, create, waiting, sub, sweep>>
  OBVIOUS
<1>2. \A m \in Lease : pc'[m] = "consumed" <=> pc[m] = "consumed"
  BY DEF TypeOK, Granted
<1>3. QED
  BY <1>1, <1>2, QuietStep

LEMMA QuietSweep ==
  ASSUME TypeOK, TypeOK', NEW k \in Sweeper,
         \/ SweepSkip(k) \/ RequeueFails(k) \/ SweepForget(k)
         \/ \E l \in Lease : SweepRead(k, l)
  PROVE  [Contract!Next]_Stages
<1> USE DEF SweepSkip, RequeueFails, SweepForget, SweepRead, subVars, leaseVars
<1>1. UNCHANGED <<status, create, waiting, sub, pc>>
  OBVIOUS
<1>2. /\ sweep[k].pc # "giveup"
      /\ sweep'[k].pc # "giveup"
      /\ \A j \in Sweeper : j # k => sweep'[j] = sweep[j]
  BY DEF TypeOK, IdleSweep
<1>3. QED
  BY <1>1, <1>2, QuietStep

-----------------------------------------------------------------------------
(***************************************************************************)
(* The steps that move a submission.                                       *)
(***************************************************************************)

LEMMA MovesApi ==
  ASSUME TypeOK, TypeOK', Bookkeeping, Unqueued, NEW s \in Sub, ApiStep(s)
  PROVE  [Contract!Next]_Stages
<1> USE DEF ApiStep, CreateInsert, CreateEnqueue, CreateAborts, DeleteSubmission,
            AttemptKeyExpires, subVars, leaseVars
<1>1. \A r \in Sub : Deciding(r)' <=> Deciding(r)
  <2>1. UNCHANGED <<pc, sub, sweep>>
    OBVIOUS
  <2>2. QED
    BY <2>1 DEF Deciding, Settling
<1>2. \A r \in Sub : r # s => Same(r)
  <2>1. \A r \in Sub : r # s => status'[r] = status[r] /\ create'[r] = create[r]
                                /\ waiting'[r] = waiting[r]
    BY DEF TypeOK
  <2>2. QED
    BY <1>1, <2>1, UntouchedStays
<1>3. CASE CreateInsert(s)
  <2>1. status[s] = "NONE" /\ Open(s)' /\ create'[s] # "queued"
    BY <1>3 DEF TypeOK, Open
  <2>2. Moves(s)
    BY <2>1, StageCases, StageCasesNext DEF OpenStage, Moves
  <2>3. QED
    BY <1>2, <2>2, OneMoves
<1>4. CASE CreateEnqueue(s) /\ Open(s)
  <2>1. create[s] = "inserted" /\ create'[s] = "queued" /\ waiting'[s] > 0 /\ Open(s)'
    BY <1>4 DEF TypeOK, Open
  <2>2. \A l \in Lease : sub[l] # s
    BY <2>1 DEF Unqueued
  <2>3. ~Deciding(s)
    BY <2>2 DEF Deciding, Settling, TypeOK
  <2>4. OpenStage(s) = "accepted" /\ OpenStage(s)' = "queued"
    BY <1>1, <2>1, <2>3 DEF OpenStage
  <2>5. Moves(s)
    BY <1>4, <2>1, <2>4, StageCases, StageCasesNext DEF Moves
  <2>6. QED
    BY <1>2, <2>5, OneMoves
<1>5. CASE CreateEnqueue(s) /\ ~Open(s)
  <2>1. Same(s)
    BY <1>5, UntouchedStays
  <2>2. QED
    BY <1>2, <2>1, OneMoves
<1>6. CASE CreateAborts(s)
  <2>1. UNCHANGED status /\ create[s] # "queued" /\ create'[s] # "queued"
    BY <1>6 DEF TypeOK
  <2>2. Same(s)
    BY <2>1, StageCases, StageCasesNext DEF OpenStage, Open, Same
  <2>3. QED
    BY <1>2, <2>2, OneMoves
<1>7. CASE DeleteSubmission(s)
  <2>1. status[s] \notin {"NONE", "GONE"} /\ status'[s] = "GONE"
    BY <1>7 DEF TypeOK
  <2>2. StageOf(s) \notin {"absent", "gone"}
    BY <2>1, StageCases, StageAssumption DEF OpenStage, Contract!Stage
  <2>3. Moves(s)
    BY <2>1, <2>2, StageCasesNext DEF Moves
  <2>4. QED
    BY <1>2, <2>3, OneMoves
<1>8. CASE AttemptKeyExpires(s)
  <2>1. Same(s)
    BY <1>1, <1>8, UntouchedStays
  <2>2. QED
    BY <1>2, <2>1, OneMoves
<1>9. QED
  BY <1>3, <1>4, <1>5, <1>6, <1>7, <1>8

\* A sweep never decides for a lease whose record is not written yet.
LEMMA EarlyIsNotSwept ==
  ASSUME TypeOK, SweptLeases, NEW l \in Lease, pc[l] \in EarlyPC, NEW k \in Sweeper,
         sweep[k].pc = "giveup"
  PROVE  sweep[k].lease # l
  BY DEF SweptLeases

LEMMA MovesTake ==
  ASSUME TypeOK, TypeOK', Bookkeeping, Unqueued,
         NEW l \in Lease, NEW w \in Worker, NEW s \in Sub, LeaseTake(l, w, s)
  PROVE  [Contract!Next]_Stages
<1>1. /\ UNCHANGED <<status, create, sweep>> /\ pc[l] = "free"
      /\ waiting[s] > 0 /\ waiting' = [waiting EXCEPT ![s] = @ - 1]
      /\ pc' = [pc EXCEPT ![l] = "taken"] /\ sub' = [sub EXCEPT ![l] = s]
  BY DEF LeaseTake
<1>2. \A r \in Sub : Deciding(r)' <=> Deciding(r)
  <2>1. \A k \in Sweeper : sweep[k].pc = "giveup" => sub'[sweep[k].lease] = sub[sweep[k].lease]
    BY <1>1, EarlyIsNotSwept DEF Bookkeeping, EarlyPC, TypeOK
  <2>2. \A m \in Lease : pc'[m] = "consumed" <=> pc[m] = "consumed"
    BY <1>1 DEF TypeOK
  <2>3. \A m \in Lease : pc[m] = "consumed" => sub'[m] = sub[m]
    BY <1>1 DEF TypeOK
  <2>4. QED
    BY <1>1, <2>1, <2>2, <2>3, SameDeciders
<1>3. \A r \in Sub : r # s => Same(r)
  <2>1. \A r \in Sub : r # s => waiting'[r] = waiting[r]
    BY <1>1 DEF TypeOK
  <2>2. QED
    BY <1>1, <1>2, <2>1, UntouchedStays
<1>4. CASE Open(s)
  <2>1. create[s] = "queued" /\ Open(s)'
    BY <1>1, <1>4 DEF Unqueued, Open
  <2>2. waiting[s] = 1
    BY <1>1, <1>4 DEF Bookkeeping, OneHolder, TypeOK
  <2>3. waiting'[s] = 0
    BY <1>1, <2>2 DEF TypeOK
  <2>4. \/ OpenStage(s) = "queued" /\ OpenStage(s)' = "delivered"
        \/ OpenStage(s) = "deciding" /\ OpenStage(s)' = "deciding"
    BY <1>1, <1>2, <2>1, <2>2, <2>3 DEF OpenStage
  <2>5. Same(s) \/ Moves(s)
    BY <1>4, <2>1, <2>4, StageCases, StageCasesNext DEF Same, Moves
  <2>6. QED
    BY <1>3, <2>5, OneMoves
<1>5. CASE ~Open(s)
  <2>1. Same(s)
    BY <1>1, <1>5, UntouchedStays
  <2>2. QED
    BY <1>3, <2>1, OneMoves
<1>6. QED
  BY <1>4, <1>5

\* Giving a lease's id back takes nothing from those who decide.
LEMMA GiveBackDeciders ==
  ASSUME TypeOK, SweptLeases, NEW r \in Sub, NEW l \in Lease, pc[l] = "taken",
         pc' = [pc EXCEPT ![l] = "free"], sub' = [sub EXCEPT ![l] = Nil], UNCHANGED sweep
  PROVE  Deciding(r)' <=> Deciding(r)
<1>1. \A k \in Sweeper : sweep[k].pc = "giveup" => sub'[sweep[k].lease] = sub[sweep[k].lease]
  BY EarlyIsNotSwept DEF EarlyPC, TypeOK
<1>2. \A m \in Lease : pc'[m] = "consumed" <=> pc[m] = "consumed"
  BY DEF TypeOK
<1>3. \A m \in Lease : pc[m] = "consumed" => sub'[m] = sub[m]
  BY DEF TypeOK
<1>4. QED
  BY <1>1, <1>2, <1>3, SameDeciders

LEMMA MovesFetch ==
  ASSUME TypeOK, TypeOK', Bookkeeping, Unqueued, NEW l \in Lease,
         FetchFindsNothing(l) \/ FetchFails(l)
  PROVE  [Contract!Next]_Stages
<1>0. PICK s \in Sub : sub[l] = s
  BY DEF FetchFindsNothing, FetchFails, TypeOK
<1>1. /\ UNCHANGED <<status, create, sweep>> /\ pc[l] = "taken"
      /\ pc' = [pc EXCEPT ![l] = "free"] /\ sub' = [sub EXCEPT ![l] = Nil]
      /\ waiting' = waiting \/ waiting' = [waiting EXCEPT ![s] = @ + 1]
  BY <1>0 DEF FetchFindsNothing, FetchFails, GiveBackId, subVars
<1>2. \A r \in Sub : Deciding(r)' <=> Deciding(r)
  BY <1>1, GiveBackDeciders DEF Bookkeeping
<1>3. \A r \in Sub : r # s => Same(r)
  <2>1. \A r \in Sub : r # s => waiting'[r] = waiting[r]
    BY <1>1 DEF TypeOK
  <2>2. QED
    BY <1>1, <1>2, <2>1, UntouchedStays
<1>4. CASE Open(s) /\ waiting' # waiting
  <2>1. create[s] = "queued" /\ Open(s)'
    BY <1>0, <1>1, <1>4 DEF Unqueued, Open
  <2>2. l \in Holding(s)
    BY <1>0, <1>1 DEF Holding, InHand
  <2>3. waiting[s] = 0
    BY <1>1, <1>4, <2>2 DEF Bookkeeping, OneHolder, TypeOK
  <2>4. waiting'[s] = 1
    BY <1>1, <1>4, <2>3 DEF TypeOK
  <2>5. \/ OpenStage(s) = "delivered" /\ OpenStage(s)' = "queued"
        \/ OpenStage(s) = "deciding" /\ OpenStage(s)' = "deciding"
    BY <1>1, <1>2, <2>1, <2>3, <2>4 DEF OpenStage
  <2>6. Same(s) \/ Moves(s)
    BY <1>1, <1>4, <2>1, <2>5, StageCases, StageCasesNext DEF Same, Moves
  <2>7. QED
    BY <1>1, <1>3, <2>6, OneMoves
<1>5. CASE ~Open(s) \/ waiting' = waiting
  <2>1. Same(s)
    BY <1>1, <1>2, <1>5, UntouchedStays
  <2>2. QED
    BY <1>1, <1>3, <2>1, OneMoves
<1>6. QED
  BY <1>4, <1>5

\* Whoever removes the key of a lease holds its submission: the submission was delivered,
\* and is not anywhere else.
LEMMA OwnerIsDelivered ==
  ASSUME TypeOK, Bookkeeping, Unqueued, NEW l \in Lease, key[l], NEW s \in Sub, sub[l] = s,
         Open(s)
  PROVE  create[s] = "queued" /\ waiting[s] = 0
<1>1. l \in Holding(s)
  BY DEF Holding, InHand
<1>2. QED
  BY <1>1 DEF Bookkeeping, OneHolder, Unqueued, TypeOK

LEMMA MovesConsume ==
  ASSUME TypeOK, TypeOK', Bookkeeping, Unqueued, NEW l \in Lease, ConsumeLease(l)
  PROVE  [Contract!Next]_Stages
<1>0. PICK s \in Sub : sub[l] = s
  BY DEF ConsumeLease, TypeOK
<1>1. /\ UNCHANGED <<status, create, waiting, sub, sweep>> /\ pc[l] = "sent"
      /\ pc' = [pc EXCEPT ![l] = IF key[l] THEN "consumed" ELSE "closed"]
  BY DEF ConsumeLease, OwnsLease, subVars
<1>2. CASE ~key[l]
  <2>1. \A m \in Lease : pc'[m] = "consumed" <=> pc[m] = "consumed"
    BY <1>1, <1>2 DEF TypeOK
  <2>2. QED
    BY <1>1, <2>1, QuietStep
<1>3. CASE key[l]
  <2>1. pc'[l] = "consumed" /\ \A m \in Lease : m # l => pc'[m] = pc[m]
    BY <1>1, <1>3 DEF TypeOK
  <2>2. \A r \in Sub : r # s => (Deciding(r)' <=> Deciding(r))
    BY <1>0, <1>1, <2>1, SameDeciders
  <2>3. \A r \in Sub : r # s => Same(r)
    BY <1>1, <2>2, UntouchedStays
  <2>4. CASE Open(s)
    <3>1. create[s] = "queued" /\ waiting[s] = 0
      BY <1>0, <1>3, <2>4, OwnerIsDelivered
    <3>2. Deciding(s)'
      BY <1>0, <1>1, <2>1 DEF Deciding, Settling
    <3>3. OpenStage(s) \in {"delivered", "deciding"} /\ OpenStage(s)' = "deciding" /\ Open(s)'
      BY <1>1, <2>4, <3>1, <3>2 DEF OpenStage, Open
    <3>4. Same(s) \/ Moves(s)
      BY <1>1, <2>4, <3>3, StageCases, StageCasesNext DEF Same, Moves
    <3>5. QED
      BY <1>1, <2>3, <3>4, OneMoves
  <2>5. CASE ~Open(s)
    <3>1. Same(s)
      BY <1>1, <2>5, UntouchedStays
    <3>2. QED
      BY <1>1, <2>3, <3>1, OneMoves
  <2>6. QED
    BY <2>4, <2>5
<1>4. QED
  BY <1>2, <1>3

\* A decision that is stored: the submission had been handed to whoever decides.
LEMMA DecisionMoves ==
  ASSUME TypeOK, TypeOK', Unqueued, UNCHANGED <<create, waiting>>, NEW s \in Sub,
         NEW v \in FinalStatus, Deciding(s), status' = Settle(s, v),
         \A r \in Sub : r # s => (Deciding(r)' <=> Deciding(r))
  PROVE  [Contract!Next]_Stages
<1>1. \A r \in Sub : r # s => status'[r] = status[r]
  BY DEF Settle, TypeOK
<1>2. \A r \in Sub : r # s => Same(r)
  BY <1>1, UntouchedStays
<1>3. CASE Open(s)
  <2>1. create[s] = "queued"
    <3>1. \E l \in Lease : sub[l] = s
      BY DEF Deciding, Settling, TypeOK
    <3>2. QED
      BY <3>1 DEF Unqueued
  <2>2. StageOf(s) = "deciding"
    BY <1>3, <2>1, StageCases DEF OpenStage
  <2>3. status'[s] = v
    BY <1>3 DEF Settle, Open, TypeOK
  <2>4. Moves(s)
    BY <2>2, <2>3, StageCasesNext DEF Moves
  <2>5. QED
    BY <1>2, <2>4, OneMoves
<1>4. CASE ~Open(s)
  <2>1. status'[s] = status[s]
    BY <1>4 DEF Settle, Open, TypeOK
  <2>2. Same(s)
    BY <1>4, <2>1, UntouchedStays
  <2>3. QED
    BY <1>2, <2>2, OneMoves
<1>5. QED
  BY <1>3, <1>4

\* A decision that is lost: the submission falls back, unless another decides too.
LEMMA FallsOrStays ==
  ASSUME TypeOK, TypeOK', Unqueued, UNCHANGED <<status, create, waiting>>, NEW s \in Sub,
         Deciding(s)' => Deciding(s)
  PROVE  Same(s) \/ Falls(s)
<1>1. CASE ~Open(s) \/ (Deciding(s)' <=> Deciding(s))
  BY <1>1, UntouchedStays
<1>2. CASE Open(s) /\ Deciding(s) /\ ~Deciding(s)'
  <2>1. create[s] = "queued"
    <3>1. \E l \in Lease : sub[l] = s
      BY <1>2 DEF Deciding, Settling, TypeOK
    <3>2. QED
      BY <3>1 DEF Unqueued
  <2>2. Open(s)' /\ OpenStage(s) = "deciding" /\ OpenStage(s)' \in {"queued", "delivered"}
    BY <1>2, <2>1 DEF OpenStage, Open
  <2>3. QED
    BY <1>2, <2>2, StageCases, StageCasesNext DEF Falls
<1>3. QED
  BY <1>1, <1>2

LEMMA MovesIngest ==
  ASSUME TypeOK, TypeOK', Unqueued, NEW l \in Lease, IngestResult(l) \/ IngestFails(l)
  PROVE  [Contract!Next]_Stages
<1>1. PICK s \in Sub : sub[l] = s
  BY DEF IngestResult, IngestFails, TypeOK
<1>2. PICK v \in FinalStatus : verdict[l] = v
  BY DEF IngestResult, IngestFails, TypeOK, FinalStatus
<1>3. /\ UNCHANGED <<create, waiting, sub, sweep>> /\ pc[l] = "consumed" /\ pc'[l] # "consumed"
      /\ \A m \in Lease : m # l => pc'[m] = pc[m]
      /\ status' = Settle(s, v) \/ ("ingest" \in Faults /\ UNCHANGED status)
  BY <1>1, <1>2 DEF IngestResult, IngestFails, TypeOK
<1>4. \A r \in Sub : r # s => (Deciding(r)' <=> Deciding(r))
  BY <1>1, <1>3, SameDeciders
<1>5. Deciding(s)
  BY <1>1, <1>3 DEF Deciding, Settling
<1>6. CASE status' = Settle(s, v)
  BY <1>3, <1>4, <1>5, <1>6, DecisionMoves
<1>7. CASE "ingest" \in Faults /\ UNCHANGED status
  <2>1. \A r \in Sub : Same(r) \/ Falls(r)
    BY <1>3, <1>4, <1>5, <1>7, FallsOrStays
  <2>2. QED
    BY <1>7, <2>1, SomeFall
<1>8. QED
  BY <1>3, <1>6, <1>7

LEMMA MovesDelete ==
  ASSUME TypeOK, TypeOK', Bookkeeping, Unqueued, NEW k \in Sweeper, SweepDelete(k)
  PROVE  [Contract!Next]_Stages
<1>1. PICK l \in Lease : sweep[k].lease = l
  BY DEF SweepDelete, TypeOK
<1>2. /\ UNCHANGED <<status, create, waiting, pc, sub>> /\ sweep[k].pc = "read"
      /\ \A j \in Sweeper : j # k => sweep'[j] = sweep[j]
      /\ sweep'[k].pc = "giveup" => key[l] /\ sweep'[k].lease = l
  BY <1>1 DEF SweepDelete, OwnsLease, IdleSweep, subVars, TypeOK
<1>3. PICK s \in Sub : sub[l] = s
  BY <1>1, <1>2 DEF Bookkeeping, SweptLeases, EarlyPC, TypeOK
<1>4. CASE sweep'[k].pc # "giveup"
  BY <1>2, <1>4, QuietStep
<1>5. CASE sweep'[k].pc = "giveup"
  <2>1. \A r \in Sub : r # s => (Deciding(r)' <=> Deciding(r))
    BY <1>2, <1>3, <1>5, SameDeciders
  <2>2. \A r \in Sub : r # s => Same(r)
    BY <1>2, <2>1, UntouchedStays
  <2>3. CASE Open(s)
    <3>1. create[s] = "queued" /\ waiting[s] = 0
      BY <1>2, <1>3, <1>5, <2>3, OwnerIsDelivered
    <3>2. Deciding(s)'
      BY <1>2, <1>3, <1>5 DEF Deciding
    <3>3. OpenStage(s) \in {"delivered", "deciding"} /\ OpenStage(s)' = "deciding" /\ Open(s)'
      BY <1>2, <2>3, <3>1, <3>2 DEF OpenStage, Open
    <3>4. Same(s) \/ Moves(s)
      BY <2>3, <3>3, StageCases, StageCasesNext DEF Same, Moves
    <3>5. QED
      BY <2>2, <3>4, OneMoves
  <2>4. CASE ~Open(s)
    <3>1. Same(s)
      BY <1>2, <2>4, UntouchedStays
    <3>2. QED
      BY <2>2, <3>1, OneMoves
  <2>5. QED
    BY <2>3, <2>4
<1>6. QED
  BY <1>4, <1>5

LEMMA MovesRequeue ==
  ASSUME TypeOK, TypeOK', Bookkeeping, Unqueued, NEW k \in Sweeper, Requeue(k)
  PROVE  [Contract!Next]_Stages
<1>1. PICK l \in Lease : sweep[k].lease = l
  BY DEF Requeue, TypeOK
<1>2. PICK s \in Sub : sub[l] = s
  BY <1>1 DEF Requeue, Bookkeeping, SweptLeases, EarlyPC, TypeOK
<1>3. /\ UNCHANGED <<status, create, pc, sub>> /\ sweep[k].pc = "requeue"
      /\ waiting' = [waiting EXCEPT ![s] = @ + 1]
      /\ sweep' = [sweep EXCEPT ![k] = IdleSweep]
  BY <1>1, <1>2 DEF Requeue, Requeued, leaseVars
<1>4. \A r \in Sub : Deciding(r)' <=> Deciding(r)
  BY <1>3, SameDeciders DEF IdleSweep, TypeOK
<1>5. \A r \in Sub : r # s => Same(r)
  <2>1. \A r \in Sub : r # s => waiting'[r] = waiting[r]
    BY <1>3 DEF TypeOK
  <2>2. QED
    BY <1>3, <1>4, <2>1, UntouchedStays
<1>6. CASE Open(s)
  <2>1. create[s] = "queued"
    BY <1>2 DEF Unqueued
  <2>2. k \in Reclaimers(s)
    BY <1>1, <1>2, <1>3 DEF Reclaimers
  <2>3. waiting[s] = 0
    BY <1>6, <2>2 DEF Bookkeeping, OneHolder, TypeOK
  <2>4. waiting'[s] = 1 /\ Open(s)'
    BY <1>3, <1>6, <2>3 DEF Open, TypeOK
  <2>5. \/ OpenStage(s) = "delivered" /\ OpenStage(s)' = "queued"
        \/ OpenStage(s) = "deciding" /\ OpenStage(s)' = "deciding"
    BY <1>3, <1>4, <2>1, <2>3, <2>4 DEF OpenStage
  <2>6. Same(s) \/ Moves(s)
    BY <1>6, <2>4, <2>5, StageCases, StageCasesNext DEF Same, Moves
  <2>7. QED
    BY <1>5, <2>6, OneMoves
<1>7. CASE ~Open(s)
  <2>1. Same(s)
    BY <1>3, <1>7, UntouchedStays
  <2>2. QED
    BY <1>5, <2>1, OneMoves
<1>8. QED
  BY <1>6, <1>7

LEMMA MovesGiveUp ==
  ASSUME TypeOK, TypeOK', Bookkeeping, Unqueued, NEW k \in Sweeper, GiveUp(k)
  PROVE  [Contract!Next]_Stages
<1>1. PICK l \in Lease : sweep[k].lease = l
  BY DEF GiveUp, TypeOK
<1>2. PICK s \in Sub : sub[l] = s
  BY <1>1 DEF GiveUp, Bookkeeping, SweptLeases, EarlyPC, TypeOK
<1>3. /\ UNCHANGED <<create, waiting, pc, sub>> /\ sweep[k].pc = "giveup"
      /\ \A j \in Sweeper : j # k => sweep'[j] = sweep[j]
      /\ sweep'[k].pc = "forget"
      /\ status' = Settle(s, "INTERNAL_ERROR") \/ ("ingest" \in Faults /\ UNCHANGED status)
  BY <1>1, <1>2 DEF GiveUp, leaseVars, TypeOK
<1>4. \A r \in Sub : r # s => (Deciding(r)' <=> Deciding(r))
  BY <1>1, <1>2, <1>3, SameDeciders
<1>5. Deciding(s)
  BY <1>1, <1>2, <1>3 DEF Deciding
<1>6. CASE status' = Settle(s, "INTERNAL_ERROR")
  BY <1>3, <1>4, <1>5, <1>6, DecisionMoves DEF FinalStatus
<1>7. CASE "ingest" \in Faults /\ UNCHANGED status
  <2>1. \A r \in Sub : Same(r) \/ Falls(r)
    BY <1>3, <1>4, <1>5, <1>7, FallsOrStays
  <2>2. QED
    BY <1>7, <2>1, SomeFall
<1>8. QED
  BY <1>3, <1>6, <1>7

LEMMA MovesCrash ==
  ASSUME TypeOK, TypeOK', Unqueued, InterchangerCrashes
  PROVE  [Contract!Next]_Stages
<1>1. UNCHANGED <<status, create, waiting>>
  BY DEF InterchangerCrashes, subVars
<1>2. \A r \in Sub : ~Deciding(r)'
  BY DEF InterchangerCrashes, Deciding, Settling, ResultPC, IdleSweep
<1>3. \A r \in Sub : Same(r) \/ Falls(r)
  BY <1>1, <1>2, FallsOrStays
<1>4. QED
  BY <1>3, SomeFall DEF InterchangerCrashes

LEMMA ContractInit == Init => Contract!Init
<1> SUFFICES ASSUME Init PROVE Contract!Init
  OBVIOUS
<1>1. \A s \in Sub : StageOf(s) = "absent"
  BY TypeInit, StageCases DEF Init
<1>2. QED
  BY <1>1 DEF Contract!Init

LEMMA ContractStep ==
  TypeOK /\ TypeOK' /\ Bookkeeping /\ Unqueued /\ [Next]_vars => [Contract!Next]_Stages
<1> SUFFICES ASSUME TypeOK, TypeOK', Bookkeeping, Unqueued, [Next]_vars
             PROVE  [Contract!Next]_Stages
  OBVIOUS
<1>1. CASE UNCHANGED vars
  BY <1>1 DEF vars, Stages, StageOf, OpenStage, Deciding, Settling
<1>2. ASSUME NEW s \in Sub, ApiStep(s) PROVE [Contract!Next]_Stages
  BY <1>2, MovesApi
<1>3. ASSUME NEW l \in Lease, NEW w \in Worker, NEW s \in Sub, LeaseTake(l, w, s)
      PROVE  [Contract!Next]_Stages
  BY <1>3, MovesTake
<1>4. ASSUME NEW l \in Lease, LeaseStep(l) PROVE [Contract!Next]_Stages
  BY <1>4, QuietLease, QuietHeartbeat, MovesFetch, MovesConsume, MovesIngest DEF LeaseStep
<1>5. ASSUME NEW k \in Sweeper, SweepStep(k) \/ \E l \in Lease : SweepRead(k, l)
      PROVE  [Contract!Next]_Stages
  BY <1>5, QuietSweep, MovesDelete, MovesRequeue, MovesGiveUp DEF SweepStep
<1>6. QED
  BY <1>1, <1>2, <1>3, <1>4, <1>5, QuietWorker, MovesCrash DEF Next

\* JudgeLease implements the contract whatever faults happen: interleavings of requests,
\* overlapping sweeps, heartbeats, zombie workers' results and redeliveries never decide a
\* submission that was not handed to whoever decides it, nor hand one out that is decided;
\* and a decision is lost only where the ingest call or the interchanger may fail
\* (lease.service.ts:155-240, judge-ingest.service.ts:50-53).
THEOREM ContractImplemented == Spec => ImplementsContract
<1>1. Spec => [](TypeOK /\ Bookkeeping)
  BY TypeCorrect, BookkeepingHolds, PTL
<1>2. TypeOK /\ Bookkeeping /\ Unqueued /\ [Next]_vars => Unqueued'
  BY UnqueuedStep DEF Bookkeeping
<1>3. Spec => []Unqueued
  BY <1>1, <1>2, UnqueuedInit, PTL DEF Spec
<1>4. QED
  BY <1>1, <1>3, ContractInit, ContractStep, PTL
     DEF Spec, ImplementsContract, Contract!Spec, Stages

-----------------------------------------------------------------------------
(***************************************************************************)
(* Deliveries: what attempt numbers and the attempt key tell of them.      *)
(***************************************************************************)

Deliveries(s) == {l \in Lease : sub[l] = s /\ Issued(l)}

UnfetchedPC == {"free", "taken"}

AttemptsTrue ==
  /\ \A l \in Lease : pc[l] \in UnfetchedPC => attempt[l] = 1
  /\ \A s \in Sub : attemptKey[s] => Deliveries(s) # {}
  /\ \A l \in Lease : attempt[l] = 2 => Deliveries(sub[l]) \ {l} # {}
  /\ \A k \in Sweeper : sweep[k].pc = "giveup" => attempt[sweep[k].lease] = 2

\* A worker reports once.
ReportsOnce ==
  \A l \in Lease : verdict[l] # Nil => pc[l] \in {"sent", "closed", "lost"} \cup ResultPC

LEMMA FetchedStays ==
  ASSUME TypeOK, [Next]_vars, NEW m \in Lease, pc[m] \notin UnfetchedPC
  PROVE  pc'[m] \notin UnfetchedPC /\ sub'[m] = sub[m] /\ attempt'[m] = attempt[m]
<1> USE DEF TypeOK, UnfetchedPC, subVars, leaseVars
<1> DEFINE Goal == pc'[m] \notin UnfetchedPC /\ sub'[m] = sub[m] /\ attempt'[m] = attempt[m]
<1>1. CASE UNCHANGED <<pc, sub, attempt>>
  BY <1>1
<1>2. ASSUME NEW l \in Lease, NEW w \in Worker, NEW s \in Sub, LeaseTake(l, w, s) PROVE Goal
  BY <1>2 DEF LeaseTake
<1>3. ASSUME NEW l \in Lease, LeaseStep(l) PROVE Goal
  <2>1. CASE FetchPayload(l) \/ FetchFindsNothing(l) \/ FetchFails(l)
    BY <2>1 DEF FetchPayload, FetchFindsNothing, FetchFails, GiveBackId
  <2>2. CASE StoreLease(l) \/ StoreAttempt(l) \/ MarkJudging(l) \/ MarkFails(l)
    BY <2>2 DEF StoreLease, StoreAttempt, MarkJudging, MarkFails
  <2>3. CASE \/ WorkerDiscards(l) \/ ResultLost(l) \/ ResultAbandoned(l)
             \/ HeartbeatErrors(l) \/ ConsumeLease(l)
    BY <2>3 DEF WorkerDiscards, ResultLost, ResultAbandoned, HeartbeatErrors, ConsumeLease
  <2>4. CASE Elapse(l) \/ LeaseKeyExpires(l) \/ HeartbeatRead(l) \/ HeartbeatWrite(l)
    BY <2>4 DEF Elapse, LeaseKeyExpires, HeartbeatRead, HeartbeatWrite
  <2>5. CASE IngestResult(l) \/ IngestFails(l) \/ ForgetAttempt(l)
    BY <2>5 DEF IngestResult, IngestFails, ForgetAttempt
  <2>6. QED
    BY <1>3, <2>1, <2>2, <2>3, <2>4, <2>5 DEF LeaseStep
<1>4. ASSUME NEW l \in Lease, NEW v \in Verdict, WorkerReports(l, v) PROVE Goal
  BY <1>4 DEF WorkerReports
<1>5. ASSUME NEW w \in Worker, WorkerStep(w) PROVE Goal
  BY <1>5 DEF WorkerStep, Deliver, RequestLost, WorkerCrashes
<1>6. CASE InterchangerCrashes
  BY <1>6 DEF InterchangerCrashes
<1>7. ASSUME NEW s \in Sub, ApiStep(s) PROVE UNCHANGED <<pc, sub, attempt>>
  BY <1>7 DEF ApiStep, CreateInsert, CreateEnqueue, CreateAborts, DeleteSubmission,
              AttemptKeyExpires
<1>8. ASSUME NEW k \in Sweeper, SweepStep(k) PROVE UNCHANGED <<pc, sub, attempt>>
  BY <1>8 DEF SweepStep, SweepSkip, SweepDelete, Requeue, RequeueFails, GiveUp, SweepForget
<1>9. ASSUME NEW k \in Sweeper, NEW l \in Lease, SweepRead(k, l)
      PROVE  UNCHANGED <<pc, sub, attempt>>
  BY <1>9 DEF SweepRead
<1>10. CASE UNCHANGED vars
  BY <1>10, <1>1 DEF vars
<1>11. QED
  BY <1>1, <1>2, <1>3, <1>4, <1>5, <1>6, <1>7, <1>8, <1>9, <1>10 DEF Next

LEMMA DeliveriesGrow ==
  ASSUME TypeOK, [Next]_vars, NEW s
  PROVE  Deliveries(s) \subseteq Deliveries(s)'
<1>1. ASSUME NEW m \in Deliveries(s) PROVE m \in Deliveries(s)'
  <2>1. m \in Lease /\ sub[m] = s /\ pc[m] \notin EarlyPC
    BY <1>1 DEF Deliveries, Issued
  <2>2. sub'[m] = s /\ pc'[m] \notin EarlyPC
    BY <2>1, FetchedStays, LateStaysLate DEF EarlyPC, UnfetchedPC
  <2>3. QED
    BY <2>1, <2>2 DEF Deliveries, Issued
<1>2. QED
  BY <1>1

\* An attempt number is set once, from the attempt key.
LEMMA AttemptSet ==
  ASSUME TypeOK, [Next]_vars, NEW m \in Lease, attempt'[m] # attempt[m]
  PROVE  FetchPayload(m)
<1> USE DEF TypeOK, subVars, leaseVars
<1>1. ASSUME NEW l \in Lease, LeaseStep(l) PROVE FetchPayload(m)
  <2>1. CASE FetchPayload(l)
    BY <2>1 DEF FetchPayload
  <2>2. CASE ~FetchPayload(l)
    BY <1>1, <2>2
       DEF LeaseStep, FetchFindsNothing, FetchFails, GiveBackId, StoreLease,
           StoreAttempt, MarkJudging, MarkFails, WorkerDiscards, ResultLost,
           ResultAbandoned, HeartbeatErrors, Elapse, HeartbeatRead, HeartbeatWrite,
           ConsumeLease, IngestResult, IngestFails, ForgetAttempt, LeaseKeyExpires
  <2>3. QED
    BY <2>1, <2>2
<1>2. ASSUME NEW s \in Sub, ApiStep(s) PROVE FALSE
  BY <1>2 DEF ApiStep, CreateInsert, CreateEnqueue, CreateAborts, DeleteSubmission,
              AttemptKeyExpires
<1>3. ASSUME NEW k \in Sweeper, SweepStep(k) PROVE FALSE
  BY <1>3 DEF SweepStep, SweepSkip, SweepDelete, Requeue, RequeueFails, GiveUp, SweepForget
<1>4. ASSUME NEW w \in Worker, WorkerStep(w) PROVE FALSE
  BY <1>4 DEF WorkerStep, Deliver, RequestLost, WorkerCrashes
<1>5. QED
  BY <1>1, <1>2, <1>3, <1>4 DEF Next, vars, InterchangerCrashes, SweepRead, WorkerReports, LeaseTake

\* The attempt key of a submission is set by the handler of one of its leases.
LEMMA AttemptKeySet ==
  ASSUME TypeOK, [Next]_vars, NEW s \in Sub, attemptKey'[s], ~attemptKey[s]
  PROVE  \E l \in Lease : StoreAttempt(l) /\ sub[l] = s
<1> USE DEF TypeOK, subVars, leaseVars
<1>1. ASSUME NEW l \in Lease, LeaseStep(l) PROVE StoreAttempt(l) /\ sub[l] = s
  <2>1. CASE StoreAttempt(l)
    BY <2>1 DEF StoreAttempt
  <2>2. CASE ForgetAttempt(l)
    BY <2>2 DEF ForgetAttempt
  <2>3. CASE ~StoreAttempt(l) /\ ~ForgetAttempt(l)
    BY <1>1, <2>3
       DEF LeaseStep, FetchPayload, FetchFindsNothing, FetchFails, GiveBackId, StoreLease,
           MarkJudging, MarkFails, WorkerDiscards, ResultLost,
           ResultAbandoned, HeartbeatErrors, Elapse, HeartbeatRead, HeartbeatWrite,
           ConsumeLease, IngestResult, IngestFails, LeaseKeyExpires
  <2>4. QED
    BY <2>1, <2>2, <2>3
<1>2. ASSUME NEW r \in Sub, ApiStep(r) PROVE FALSE
  BY <1>2 DEF ApiStep, CreateInsert, CreateEnqueue, CreateAborts, DeleteSubmission,
              AttemptKeyExpires
<1>3. ASSUME NEW k \in Sweeper, SweepStep(k) PROVE FALSE
  BY <1>3 DEF SweepStep, SweepSkip, SweepDelete, Requeue, RequeueFails, GiveUp, SweepForget
<1>4. ASSUME NEW w \in Worker, WorkerStep(w) PROVE FALSE
  BY <1>4 DEF WorkerStep, Deliver, RequestLost, WorkerCrashes
<1>5. QED
  BY <1>1, <1>2, <1>3, <1>4 DEF Next, vars, InterchangerCrashes, SweepRead, WorkerReports, LeaseTake

\* A sweep gives up only what it has just read a second attempt of.
LEMMA GiveUpBegins ==
  ASSUME TypeOK, [Next]_vars, NEW k \in Sweeper, sweep'[k].pc = "giveup"
  PROVE  /\ sweep'[k].lease = sweep[k].lease
         /\ \/ sweep[k].pc = "giveup"
            \/ SweepDelete(k) /\ attempt[sweep[k].lease] >= MaxAttempts
<1> USE DEF TypeOK, IdleSweep, subVars, leaseVars
<1> DEFINE Goal == /\ sweep'[k].lease = sweep[k].lease
                   /\ \/ sweep[k].pc = "giveup"
                      \/ SweepDelete(k) /\ attempt[sweep[k].lease] >= MaxAttempts
<1>1. CASE UNCHANGED sweep
  BY <1>1
<1>2. ASSUME NEW l \in Lease, HeartbeatWrite(l) PROVE Goal
  BY <1>2, HeartbeatLeavesSweeps
<1>3. ASSUME NEW j \in Sweeper, SweepStep(j) PROVE Goal
  <2>1. CASE SweepSkip(j) \/ Requeue(j) \/ RequeueFails(j) \/ SweepForget(j)
    BY <2>1 DEF SweepSkip, Requeue, RequeueFails, SweepForget
  <2>2. CASE SweepDelete(j)
    <3>1. CASE j = k
      BY <2>2, <3>1 DEF SweepDelete, GivesUp
    <3>2. CASE j # k
      BY <2>2, <3>2 DEF SweepDelete
    <3>3. QED
      BY <3>1, <3>2
  <2>3. CASE GiveUp(j)
    BY <2>3 DEF GiveUp
  <2>4. QED
    BY <1>3, <2>1, <2>2, <2>3 DEF SweepStep
<1>4. ASSUME NEW j \in Sweeper, NEW l \in Lease, SweepRead(j, l) PROVE Goal
  BY <1>4 DEF SweepRead
<1>5. CASE InterchangerCrashes
  BY <1>5 DEF InterchangerCrashes
<1>6. ASSUME NEW s \in Sub, ApiStep(s) PROVE UNCHANGED sweep
  BY <1>6 DEF ApiStep, CreateInsert, CreateEnqueue, CreateAborts, DeleteSubmission,
              AttemptKeyExpires
<1>7. ASSUME NEW l \in Lease, LeaseStep(l), ~HeartbeatWrite(l) PROVE UNCHANGED sweep
  BY <1>7, Zenon
     DEF LeaseStep, FetchPayload, FetchFindsNothing, FetchFails, StoreLease, StoreAttempt,
         MarkJudging, MarkFails, WorkerDiscards, ResultLost, ResultAbandoned,
         HeartbeatErrors, Elapse, HeartbeatRead,
         ConsumeLease, IngestResult, IngestFails, ForgetAttempt, LeaseKeyExpires
<1>8. ASSUME NEW w \in Worker, WorkerStep(w) PROVE UNCHANGED sweep
  BY <1>8 DEF WorkerStep, Deliver, RequestLost, WorkerCrashes
<1>9. CASE UNCHANGED vars
  BY <1>9, <1>1 DEF vars
<1>10. CASE \E l \in Lease, w \in Worker, s \in Sub : LeaseTake(l, w, s)
  BY <1>10, <1>1 DEF LeaseTake
<1>11. CASE \E l \in Lease, v \in Verdict : WorkerReports(l, v)
  BY <1>11, <1>1 DEF WorkerReports
<1>12. QED
  BY <1>1, <1>2, <1>3, <1>4, <1>5, <1>6, <1>7, <1>8, <1>9, <1>10, <1>11 DEF Next

LEMMA AttemptsInit == Init => AttemptsTrue /\ ReportsOnce
  BY DEF Init, AttemptsTrue, ReportsOnce, IdleSweep

LEMMA AttemptsStep ==
  TypeOK /\ SweptLeases /\ AttemptsTrue /\ [Next]_vars => AttemptsTrue'
<1> SUFFICES ASSUME TypeOK, SweptLeases, AttemptsTrue, [Next]_vars PROVE AttemptsTrue'
  OBVIOUS
<1>1. ASSUME NEW l \in Lease, pc'[l] \in UnfetchedPC PROVE attempt'[l] = 1
  <2>1. pc[l] \in UnfetchedPC
    BY <1>1, FetchedStays
  <2>2. ~FetchPayload(l)
    BY <1>1 DEF FetchPayload, UnfetchedPC, TypeOK
  <2>3. QED
    BY <2>1, <2>2, AttemptSet DEF AttemptsTrue
<1>2. ASSUME NEW s \in Sub, attemptKey'[s] PROVE Deliveries(s)' # {}
  <2>1. CASE attemptKey[s]
    BY <2>1, DeliveriesGrow DEF AttemptsTrue
  <2>2. CASE ~attemptKey[s]
    <3>1. PICK l \in Lease : StoreAttempt(l) /\ sub[l] = s
      BY <1>2, <2>2, AttemptKeySet
    <3>2. l \in Deliveries(s)
      BY <3>1 DEF StoreAttempt, Deliveries, Issued, EarlyPC
    <3>3. QED
      BY <3>2, DeliveriesGrow
  <2>3. QED
    BY <2>1, <2>2
<1>3. ASSUME NEW l \in Lease, attempt'[l] = 2 PROVE Deliveries(sub[l])' \ {l} # {}
  <2>1. CASE attempt[l] = 2
    <3>1. pc[l] \notin UnfetchedPC
      BY <2>1 DEF AttemptsTrue
    <3>2. sub'[l] = sub[l]
      BY <3>1, FetchedStays
    <3>3. Deliveries(sub[l]) \ {l} # {}
      BY <2>1 DEF AttemptsTrue
    <3>4. PICK m \in Lease : m # l /\ sub[m] = sub[l] /\ Issued(m)
      BY <3>3 DEF Deliveries
    <3>5. sub'[m] = sub[m] /\ Issued(m)'
      BY <3>4, FetchedStays, LateStaysLate DEF Issued, EarlyPC, UnfetchedPC
    <3>6. QED
      BY <3>2, <3>4, <3>5 DEF Deliveries
  <2>2. CASE attempt[l] # 2
    <3>1. FetchPayload(l)
      BY <1>3, <2>2, AttemptSet
    <3>2. pc[l] = "taken" /\ attemptKey[sub[l]] /\ UNCHANGED sub /\ sub[l] \in Sub
      BY <1>3, <3>1 DEF FetchPayload, NextAttempt, TypeOK
    <3>3. PICK m \in Lease : sub[m] = sub[l] /\ Issued(m)
      BY <3>2 DEF AttemptsTrue, Deliveries
    <3>4. m # l /\ Issued(m)'
      BY <3>2, <3>3, LateStaysLate DEF Issued, EarlyPC
    <3>5. QED
      BY <3>2, <3>3, <3>4 DEF Deliveries
  <2>3. QED
    BY <2>1, <2>2
<1>4. ASSUME NEW k \in Sweeper, sweep'[k].pc = "giveup" PROVE attempt'[sweep'[k].lease] = 2
  <2>1. PICK l \in Lease : sweep[k].lease = l /\ sweep[k].pc # "idle"
    BY <1>4, GiveUpBegins DEF SweepDelete, TypeOK
  <2>2. attempt[l] = 2
    BY <1>4, <2>1, GiveUpBegins DEF AttemptsTrue, MaxAttempts, TypeOK
  <2>3. pc[l] \notin UnfetchedPC
    BY <2>2 DEF AttemptsTrue
  <2>4. QED
    BY <1>4, <2>1, <2>2, <2>3, GiveUpBegins, FetchedStays
<1>5. QED
  BY <1>1, <1>2, <1>3, <1>4 DEF AttemptsTrue

LEMMA ReportKept ==
  ASSUME TypeOK, ReportsOnce, [Next]_vars, NEW m \in Lease, verdict[m] # Nil
  PROVE  /\ verdict'[m] = verdict[m]
         /\ pc'[m] \in {"sent", "closed", "lost"} \cup ResultPC
<1> USE DEF TypeOK, ReportsOnce, ResultPC, subVars, leaseVars
<1> DEFINE Goal == verdict'[m] = verdict[m] /\ pc'[m] \in {"sent", "closed", "lost"} \cup ResultPC
<1>1. CASE UNCHANGED <<pc, verdict>>
  BY <1>1
<1>2. ASSUME NEW l \in Lease, NEW w \in Worker, NEW s \in Sub, LeaseTake(l, w, s) PROVE Goal
  BY <1>2 DEF LeaseTake
<1>3. ASSUME NEW l \in Lease, LeaseStep(l) PROVE Goal
  <2>1. CASE FetchPayload(l) \/ FetchFindsNothing(l) \/ FetchFails(l)
    BY <2>1 DEF FetchPayload, FetchFindsNothing, FetchFails, GiveBackId
  <2>2. CASE StoreLease(l) \/ StoreAttempt(l) \/ MarkJudging(l) \/ MarkFails(l)
    BY <2>2 DEF StoreLease, StoreAttempt, MarkJudging, MarkFails
  <2>3. CASE \/ WorkerDiscards(l) \/ ResultLost(l) \/ ResultAbandoned(l)
             \/ HeartbeatErrors(l) \/ ConsumeLease(l)
    BY <2>3 DEF WorkerDiscards, ResultLost, ResultAbandoned, HeartbeatErrors, ConsumeLease
  <2>4. CASE Elapse(l) \/ LeaseKeyExpires(l) \/ HeartbeatRead(l) \/ HeartbeatWrite(l)
    BY <2>4 DEF Elapse, LeaseKeyExpires, HeartbeatRead, HeartbeatWrite
  <2>5. CASE IngestResult(l) \/ IngestFails(l) \/ ForgetAttempt(l)
    BY <2>5 DEF IngestResult, IngestFails, ForgetAttempt
  <2>6. QED
    BY <1>3, <2>1, <2>2, <2>3, <2>4, <2>5 DEF LeaseStep
<1>4. ASSUME NEW l \in Lease, NEW v \in Verdict, WorkerReports(l, v) PROVE Goal
  BY <1>4 DEF WorkerReports
<1>5. ASSUME NEW w \in Worker, WorkerStep(w) PROVE Goal
  BY <1>5 DEF WorkerStep, Deliver, RequestLost, WorkerCrashes, Granted
<1>6. CASE InterchangerCrashes
  BY <1>6 DEF InterchangerCrashes
<1>7. ASSUME NEW s \in Sub, ApiStep(s) PROVE UNCHANGED <<pc, verdict>>
  BY <1>7 DEF ApiStep, CreateInsert, CreateEnqueue, CreateAborts, DeleteSubmission,
              AttemptKeyExpires
<1>8. ASSUME NEW k \in Sweeper, SweepStep(k) PROVE UNCHANGED <<pc, verdict>>
  BY <1>8 DEF SweepStep, SweepSkip, SweepDelete, Requeue, RequeueFails, GiveUp, SweepForget
<1>9. ASSUME NEW k \in Sweeper, NEW l \in Lease, SweepRead(k, l)
      PROVE  UNCHANGED <<pc, verdict>>
  BY <1>9 DEF SweepRead
<1>10. CASE UNCHANGED vars
  BY <1>10, <1>1 DEF vars
<1>11. QED
  BY <1>1, <1>2, <1>3, <1>4, <1>5, <1>6, <1>7, <1>8, <1>9, <1>10 DEF Next

LEMMA ReportsStep == TypeOK /\ ReportsOnce /\ [Next]_vars => ReportsOnce'
<1> SUFFICES ASSUME TypeOK, ReportsOnce, [Next]_vars, NEW m \in Lease, verdict'[m] # Nil
             PROVE  pc'[m] \in {"sent", "closed", "lost"} \cup ResultPC
  BY DEF ReportsOnce
<1>1. CASE verdict[m] # Nil
  BY <1>1, ReportKept
<1>2. CASE verdict[m] = Nil
  <2>1. \E l \in Lease, v \in Verdict : WorkerReports(l, v)
    <3>1. verdict' # verdict
      BY <1>2
    <3>2. QED
      BY <3>1, Zenon
         DEF Next, vars, subVars, leaseVars, ApiStep, CreateInsert, CreateEnqueue, CreateAborts,
             DeleteSubmission, AttemptKeyExpires, LeaseTake, LeaseStep, FetchPayload,
             FetchFindsNothing, FetchFails, GiveBackId, StoreLease, StoreAttempt, MarkJudging,
             MarkFails, WorkerDiscards, ResultLost, ResultAbandoned, HeartbeatErrors, Elapse,
             HeartbeatRead, HeartbeatWrite, ConsumeLease, IngestResult, IngestFails,
             ForgetAttempt, LeaseKeyExpires, WorkerStep, Deliver, RequestLost, WorkerCrashes,
             SweepStep, SweepSkip, SweepDelete, Requeue, RequeueFails, GiveUp, SweepForget,
             SweepRead, InterchangerCrashes
  <2>2. PICK l \in Lease, v \in Verdict : WorkerReports(l, v)
    BY <2>1
  <2>3. m = l
    BY <1>2, <2>2 DEF WorkerReports, TypeOK
  <2>4. QED
    BY <2>2, <2>3 DEF WorkerReports, TypeOK
<1>3. QED
  BY <1>1, <1>2

\* Who stores INTERNAL_ERROR: a sweep that gives up, or the result of a worker.
LEMMA WhoGivesUp ==
  ASSUME TypeOK, [Next]_vars, NEW s \in Sub, status'[s] = "INTERNAL_ERROR", status[s] # status'[s]
  PROVE  \/ \E k \in Sweeper : GiveUp(k) /\ sub[sweep[k].lease] = s
         \/ \E l \in Lease : /\ IngestResult(l) \/ IngestFails(l)
                            /\ sub[l] = s /\ verdict[l] = "INTERNAL_ERROR"
<1> USE DEF TypeOK, subVars, leaseVars
<1>1. ASSUME NEW l \in Lease, LeaseStep(l)
      PROVE  /\ IngestResult(l) \/ IngestFails(l)
             /\ sub[l] = s /\ verdict[l] = "INTERNAL_ERROR"
  <2>1. CASE IngestResult(l) \/ IngestFails(l)
    BY <2>1 DEF IngestResult, IngestFails, Settle
  <2>2. CASE MarkJudging(l) \/ MarkFails(l)
    BY <2>2 DEF MarkJudging, MarkFails, SetJudging
  <2>3. CASE ~MarkJudging(l) /\ ~MarkFails(l) /\ ~IngestResult(l) /\ ~IngestFails(l)
    BY <1>1, <2>3
       DEF LeaseStep, FetchPayload, FetchFindsNothing, FetchFails, GiveBackId, StoreLease,
           StoreAttempt, WorkerDiscards, ResultLost,
           ResultAbandoned, HeartbeatErrors, Elapse, HeartbeatRead, HeartbeatWrite,
           ConsumeLease, ForgetAttempt, LeaseKeyExpires
  <2>4. QED
    BY <2>1, <2>2, <2>3
<1>2. ASSUME NEW r \in Sub, ApiStep(r) PROVE FALSE
  BY <1>2 DEF ApiStep, CreateInsert, CreateEnqueue, CreateAborts, DeleteSubmission,
              AttemptKeyExpires
<1>3. ASSUME NEW k \in Sweeper, SweepStep(k) PROVE GiveUp(k) /\ sub[sweep[k].lease] = s
  <2>1. CASE GiveUp(k)
    BY <2>1 DEF GiveUp, Settle
  <2>2. CASE ~GiveUp(k)
    BY <1>3, <2>2 DEF SweepStep, SweepSkip, SweepDelete, Requeue, RequeueFails, SweepForget
  <2>3. QED
    BY <2>1, <2>2
<1>4. ASSUME NEW w \in Worker, WorkerStep(w) PROVE FALSE
  BY <1>4 DEF WorkerStep, Deliver, RequestLost, WorkerCrashes
<1>5. QED
  BY <1>1, <1>2, <1>3, <1>4 DEF Next, vars, InterchangerCrashes, SweepRead, WorkerReports, LeaseTake

LEMMA GivesUpStep ==
  TypeOK /\ SweptLeases /\ AttemptsTrue /\ ReportsOnce /\ GivesUpAfterTwo /\ [Next]_vars
    => GivesUpAfterTwo'
<1> SUFFICES ASSUME TypeOK, SweptLeases, AttemptsTrue, ReportsOnce, GivesUpAfterTwo, [Next]_vars,
                    NEW s \in Sub, status'[s] = "INTERNAL_ERROR"
             PROVE  \/ \E l \in Lease : sub'[l] = s /\ verdict'[l] = "INTERNAL_ERROR"
                    \/ \E l, m \in Lease : /\ l # m /\ sub'[l] = s /\ sub'[m] = s
                                          /\ Issued(l)' /\ Issued(m)'
  BY DEF GivesUpAfterTwo
<1> DEFINE Reported == \E l \in Lease : sub[l] = s /\ verdict[l] = "INTERNAL_ERROR"
           Twice == \E l, m \in Lease : l # m /\ sub[l] = s /\ sub[m] = s /\ Issued(l) /\ Issued(m)
<1>1. Reported \/ Twice
  <2>1. CASE status[s] = "INTERNAL_ERROR"
    BY <2>1 DEF GivesUpAfterTwo
  <2>2. ASSUME NEW k \in Sweeper, GiveUp(k), sub[sweep[k].lease] = s PROVE Twice
    <3>1. PICK l \in Lease : sweep[k].lease = l /\ sweep[k].pc = "giveup"
      BY <2>2 DEF GiveUp, TypeOK
    <3>2. Issued(l) /\ attempt[l] = 2 /\ sub[l] = s
      BY <2>2, <3>1 DEF SweptLeases, AttemptsTrue, Issued
    <3>3. PICK m \in Lease : m # l /\ sub[m] = s /\ Issued(m)
      BY <3>2 DEF AttemptsTrue, Deliveries
    <3>4. QED
      BY <3>2, <3>3
  <2>3. QED
    BY <2>1, <2>2, WhoGivesUp
<1>2. CASE Reported
  <2>1. PICK l \in Lease : sub[l] = s /\ verdict[l] = "INTERNAL_ERROR"
    BY <1>2
  <2>2. verdict[l] # Nil
    BY <2>1, NilAssumption DEF FinalStatus
  <2>3. pc[l] \notin UnfetchedPC
    BY <2>2 DEF ReportsOnce, UnfetchedPC, ResultPC
  <2>4. sub'[l] = s /\ verdict'[l] = "INTERNAL_ERROR"
    BY <2>1, <2>2, <2>3, FetchedStays, ReportKept
  <2>5. QED
    BY <2>4
<1>3. CASE Twice
  <2>1. PICK l \in Lease, m \in Lease :
          l # m /\ sub[l] = s /\ sub[m] = s /\ Issued(l) /\ Issued(m)
    BY <1>3
  <2>2. l \in Deliveries(s)' /\ m \in Deliveries(s)'
    BY <2>1, DeliveriesGrow DEF Deliveries
  <2>3. QED
    BY <2>1, <2>2 DEF Deliveries
<1>4. QED
  BY <1>1, <1>2, <1>3

\* A submission given up without a verdict of a worker has been delivered twice, whatever
\* faults happen: the attempt numbers that the interchanger reads back from the attempt key
\* never run ahead of the deliveries (lease.service.ts:131-132, 203-204).
THEOREM NotGivenUpEarly == Spec => []GivesUpAfterTwo
<1>1. Init => AttemptsTrue /\ ReportsOnce /\ GivesUpAfterTwo
  BY AttemptsInit DEF Init, GivesUpAfterTwo
<1>2. TypeOK /\ Bookkeeping /\ AttemptsTrue /\ ReportsOnce /\ GivesUpAfterTwo /\ [Next]_vars
        => AttemptsTrue' /\ ReportsOnce' /\ GivesUpAfterTwo'
  BY AttemptsStep, ReportsStep, GivesUpStep DEF Bookkeeping
<1>3. QED
  BY <1>1, <1>2, TypeCorrect, BookkeepingHolds, PTL DEF Spec

-----------------------------------------------------------------------------
(***************************************************************************)
(* An open submission is delivered at most twice, as long as the attempt   *)
(* key of the first delivery lives and the interchanger, which writes it   *)
(* after the lease, does.                                                  *)
(***************************************************************************)

KeysHold == Faults \cap {"interchanger", "ttl"} = {}

\* The record of a lease that is only just written is there, and no heartbeat has touched it.
FreshLeases ==
  /\ \A l \in Lease : pc[l] \in LeaseOnePC \cup {"granted"} => hb[l] = "idle"
  /\ \A k \in Sweeper : sweep[k].stale => pc[sweep[k].lease] \notin LeaseOnePC \cup {"granted"}
  /\ \A l \in Lease : pc[l] = "stored" => key[l] /\ ~overdue[l]

LEMMA FreshInit == Init => FreshLeases
  BY DEF Init, FreshLeases, IdleSweep, LeaseOnePC

\* A lease enters leaseOne from nowhere, and goes through it once.
LEMMA LeaseOneMoves ==
  ASSUME TypeOK, [Next]_vars, NEW m \in Lease, pc'[m] \in LeaseOnePC \cup {"granted"}
  PROVE  /\ pc[m] \in {"free", "granted"} \cup LeaseOnePC
         /\ pc'[m] = "stored" => pc[m] = "stored" \/ StoreLease(m)
<1> USE DEF TypeOK, LeaseOnePC, subVars, leaseVars
<1> DEFINE Goal == /\ pc[m] \in {"free", "granted"} \cup LeaseOnePC
                   /\ pc'[m] = "stored" => pc[m] = "stored" \/ StoreLease(m)
<1>1. CASE UNCHANGED pc
  BY <1>1
<1>2. ASSUME NEW l \in Lease, NEW w \in Worker, NEW s \in Sub, LeaseTake(l, w, s) PROVE Goal
  BY <1>2 DEF LeaseTake
<1>3. ASSUME NEW l \in Lease, LeaseStep(l) PROVE Goal
  <2>1. CASE FetchPayload(l) \/ FetchFindsNothing(l) \/ FetchFails(l)
    BY <2>1 DEF FetchPayload, FetchFindsNothing, FetchFails, GiveBackId
  <2>2. CASE StoreLease(l)
    <3>1. CASE l = m
      BY <2>2, <3>1 DEF StoreLease
    <3>2. CASE l # m
      BY <2>2, <3>2 DEF StoreLease
    <3>3. QED
      BY <3>1, <3>2
  <2>3. CASE StoreAttempt(l) \/ MarkJudging(l) \/ MarkFails(l)
    BY <2>3 DEF StoreAttempt, MarkJudging, MarkFails
  <2>4. CASE \/ WorkerDiscards(l) \/ ResultLost(l) \/ ResultAbandoned(l)
             \/ HeartbeatErrors(l) \/ ConsumeLease(l)
    BY <2>4 DEF WorkerDiscards, ResultLost, ResultAbandoned, HeartbeatErrors, ConsumeLease
  <2>5. CASE Elapse(l) \/ LeaseKeyExpires(l) \/ HeartbeatRead(l) \/ HeartbeatWrite(l)
    BY <2>5 DEF Elapse, LeaseKeyExpires, HeartbeatRead, HeartbeatWrite
  <2>6. CASE IngestResult(l) \/ IngestFails(l) \/ ForgetAttempt(l)
    BY <2>6 DEF IngestResult, IngestFails, ForgetAttempt
  <2>7. QED
    BY <1>3, <2>1, <2>2, <2>3, <2>4, <2>5, <2>6 DEF LeaseStep
<1>4. ASSUME NEW l \in Lease, NEW v \in Verdict, WorkerReports(l, v) PROVE Goal
  BY <1>4 DEF WorkerReports
<1>5. ASSUME NEW w \in Worker, WorkerStep(w) PROVE Goal
  BY <1>5 DEF WorkerStep, Deliver, RequestLost, WorkerCrashes
<1>6. CASE InterchangerCrashes
  BY <1>6 DEF InterchangerCrashes
<1>7. ASSUME NEW s \in Sub, ApiStep(s) PROVE UNCHANGED pc
  BY <1>7 DEF ApiStep, CreateInsert, CreateEnqueue, CreateAborts, DeleteSubmission,
              AttemptKeyExpires
<1>8. ASSUME NEW k \in Sweeper, SweepStep(k) PROVE UNCHANGED pc
  BY <1>8 DEF SweepStep, SweepSkip, SweepDelete, Requeue, RequeueFails, GiveUp, SweepForget
<1>9. ASSUME NEW k \in Sweeper, NEW l \in Lease, SweepRead(k, l) PROVE UNCHANGED pc
  BY <1>9 DEF SweepRead
<1>10. CASE UNCHANGED vars
  BY <1>10, <1>1 DEF vars
<1>11. QED
  BY <1>1, <1>2, <1>3, <1>4, <1>5, <1>6, <1>7, <1>8, <1>9, <1>10 DEF Next

\* A heartbeat is under way only where one was read.
LEMMA HeartbeatBegins ==
  ASSUME TypeOK, [Next]_vars, NEW m \in Lease, hb'[m] # "idle"
  PROVE  hb[m] # "idle" \/ HeartbeatRead(m)
<1> USE DEF TypeOK, subVars, leaseVars
<1>1. CASE UNCHANGED hb
  BY <1>1
<1>2. ASSUME NEW l \in Lease, LeaseStep(l) PROVE hb[m] # "idle" \/ HeartbeatRead(m)
  <2>1. CASE HeartbeatRead(l)
    BY <2>1 DEF HeartbeatRead
  <2>2. CASE HeartbeatWrite(l)
    BY <2>2 DEF HeartbeatWrite
  <2>3. CASE ~HeartbeatRead(l) /\ ~HeartbeatWrite(l)
    BY <1>1, <1>2, <2>3
       DEF LeaseStep, FetchPayload, FetchFindsNothing, FetchFails, GiveBackId, StoreLease,
           StoreAttempt, MarkJudging, MarkFails, WorkerDiscards, ResultLost,
           ResultAbandoned, HeartbeatErrors, Elapse,
           ConsumeLease, IngestResult, IngestFails, ForgetAttempt, LeaseKeyExpires
  <2>4. QED
    BY <2>1, <2>2, <2>3
<1>3. CASE InterchangerCrashes
  BY <1>3 DEF InterchangerCrashes
<1>4. ASSUME NEW r \in Sub, ApiStep(r) PROVE UNCHANGED hb
  BY <1>4 DEF ApiStep, CreateInsert, CreateEnqueue, CreateAborts, DeleteSubmission,
              AttemptKeyExpires
<1>5. ASSUME NEW k \in Sweeper, SweepStep(k) PROVE UNCHANGED hb
  BY <1>5 DEF SweepStep, SweepSkip, SweepDelete, Requeue, RequeueFails, GiveUp, SweepForget
<1>6. ASSUME NEW w \in Worker, WorkerStep(w) PROVE UNCHANGED hb
  BY <1>6 DEF WorkerStep, Deliver, RequestLost, WorkerCrashes
<1>7. QED
  BY <1>1, <1>2, <1>3, <1>4, <1>5, <1>6 DEF Next, vars, SweepRead, WorkerReports, LeaseTake

\* What a sweep has read is outdated by a heartbeat's write of the same lease.
LEMMA StaleBegins ==
  ASSUME TypeOK, [Next]_vars, NEW k \in Sweeper, sweep'[k].stale
  PROVE  /\ sweep'[k].lease = sweep[k].lease
         /\ sweep[k].stale \/ (HeartbeatWrite(sweep[k].lease) /\ sweep[k].pc = "read")
<1> USE DEF TypeOK, IdleSweep, subVars, leaseVars
<1> DEFINE Goal == /\ sweep'[k].lease = sweep[k].lease
                   /\ sweep[k].stale \/ (HeartbeatWrite(sweep[k].lease) /\ sweep[k].pc = "read")
<1>1. CASE UNCHANGED sweep
  BY <1>1
<1>2. ASSUME NEW l \in Lease, HeartbeatWrite(l), ~UNCHANGED sweep PROVE Goal
  <2>1. sweep' = [j \in Sweeper |->
                    IF sweep[j].lease = l /\ sweep[j].pc = "read"
                    THEN [sweep[j] EXCEPT !.stale = TRUE] ELSE sweep[j]]
    BY <1>2, Zenon DEF HeartbeatWrite
  <2>2. CASE sweep[k].lease = l /\ sweep[k].pc = "read"
    BY <1>2, <2>2, HeartbeatLeavesSweeps
  <2>3. CASE ~(sweep[k].lease = l /\ sweep[k].pc = "read")
    BY <2>1, <2>3
  <2>4. QED
    BY <2>2, <2>3
<1>3. ASSUME NEW j \in Sweeper, SweepStep(j) PROVE Goal
  <2>1. CASE SweepSkip(j) \/ Requeue(j) \/ RequeueFails(j) \/ SweepForget(j)
    BY <2>1 DEF SweepSkip, Requeue, RequeueFails, SweepForget
  <2>2. CASE SweepDelete(j)
    BY <2>2 DEF SweepDelete
  <2>3. CASE GiveUp(j)
    BY <2>3 DEF GiveUp
  <2>4. QED
    BY <1>3, <2>1, <2>2, <2>3 DEF SweepStep
<1>4. ASSUME NEW j \in Sweeper, NEW l \in Lease, SweepRead(j, l) PROVE Goal
  BY <1>4 DEF SweepRead
<1>5. CASE InterchangerCrashes
  BY <1>5 DEF InterchangerCrashes
<1>6. ASSUME NEW s \in Sub, ApiStep(s) PROVE UNCHANGED sweep
  BY <1>6 DEF ApiStep, CreateInsert, CreateEnqueue, CreateAborts, DeleteSubmission,
              AttemptKeyExpires
<1>7. ASSUME NEW l \in Lease, LeaseStep(l), ~HeartbeatWrite(l) PROVE UNCHANGED sweep
  BY <1>7, Zenon
     DEF LeaseStep, FetchPayload, FetchFindsNothing, FetchFails, StoreLease, StoreAttempt,
         MarkJudging, MarkFails, WorkerDiscards, ResultLost, ResultAbandoned,
         HeartbeatErrors, Elapse, HeartbeatRead,
         ConsumeLease, IngestResult, IngestFails, ForgetAttempt, LeaseKeyExpires
<1>8. ASSUME NEW w \in Worker, WorkerStep(w) PROVE UNCHANGED sweep
  BY <1>8 DEF WorkerStep, Deliver, RequestLost, WorkerCrashes
<1>9. CASE UNCHANGED vars
  BY <1>9, <1>1 DEF vars
<1>10. CASE \E l \in Lease, w \in Worker, s \in Sub : LeaseTake(l, w, s)
  BY <1>10, <1>1 DEF LeaseTake
<1>11. CASE \E l \in Lease, v \in Verdict : WorkerReports(l, v)
  BY <1>11, <1>1 DEF WorkerReports
<1>12. QED
  BY <1>1, <1>2, <1>3, <1>4, <1>5, <1>6, <1>7, <1>8, <1>9, <1>10, <1>11 DEF Next

\* A lease that is running keeps its record, unless a sweep or its result removes it.
LEMMA RecordStays ==
  ASSUME TypeOK, [Next]_vars, NEW m \in Lease, key[m], ~overdue[m],
         pc[m] \in LeaseOnePC,
         \A k \in Sweeper : SweepDelete(k) => sweep[k].lease # m
  PROVE  key'[m] /\ ~overdue'[m]
<1> USE DEF TypeOK, subVars, leaseVars
<1> DEFINE Goal == key'[m] /\ ~overdue'[m]
<1>1. CASE UNCHANGED <<key, overdue>>
  BY <1>1
<1>2. ASSUME NEW l \in Lease, LeaseStep(l) PROVE Goal
  <2>1. CASE StoreLease(l)
    BY <2>1 DEF StoreLease
  <2>2. CASE Elapse(l)
    BY <2>2 DEF Elapse, KeptAfterExpiry, LeaseOnePC
  <2>3. CASE HeartbeatWrite(l)
    BY <2>3 DEF HeartbeatWrite
  <2>4. CASE ConsumeLease(l)
    BY <2>4 DEF ConsumeLease, LeaseOnePC
  <2>5. CASE LeaseKeyExpires(l)
    BY <2>5 DEF LeaseKeyExpires
  <2>6. CASE ~StoreLease(l) /\ ~Elapse(l) /\ ~HeartbeatWrite(l) /\ ~ConsumeLease(l)
             /\ ~LeaseKeyExpires(l)
    BY <1>1, <1>2, <2>6
       DEF LeaseStep, FetchPayload, FetchFindsNothing, FetchFails, GiveBackId,
           StoreAttempt, MarkJudging, MarkFails, WorkerDiscards, ResultLost,
           ResultAbandoned, HeartbeatErrors, HeartbeatRead,
           IngestResult, IngestFails, ForgetAttempt
  <2>7. QED
    BY <2>1, <2>2, <2>3, <2>4, <2>5, <2>6
<1>3. ASSUME NEW k \in Sweeper, SweepStep(k) PROVE Goal
  <2>1. CASE SweepDelete(k)
    BY <2>1 DEF SweepDelete
  <2>2. CASE ~SweepDelete(k)
    BY <1>3, <2>2 DEF SweepStep, SweepSkip, Requeue, RequeueFails, GiveUp, SweepForget
  <2>3. QED
    BY <2>1, <2>2
<1>4. ASSUME NEW r \in Sub, ApiStep(r) PROVE UNCHANGED <<key, overdue>>
  BY <1>4 DEF ApiStep, CreateInsert, CreateEnqueue, CreateAborts, DeleteSubmission,
              AttemptKeyExpires
<1>5. ASSUME NEW w \in Worker, WorkerStep(w) PROVE UNCHANGED <<key, overdue>>
  BY <1>5 DEF WorkerStep, Deliver, RequestLost, WorkerCrashes
<1>6. QED
  BY <1>1, <1>2, <1>3, <1>4, <1>5
     DEF Next, vars, SweepRead, WorkerReports, LeaseTake, InterchangerCrashes

LEMMA FreshStep ==
  TypeOK /\ EarlyLeases /\ SweptLeases /\ OutdatedSweeps /\ FreshLeases /\ [Next]_vars
    => FreshLeases'
<1> SUFFICES ASSUME TypeOK, EarlyLeases, SweptLeases, OutdatedSweeps, FreshLeases, [Next]_vars
             PROVE  FreshLeases'
  OBVIOUS
<1>1. ASSUME NEW l \in Lease, pc'[l] \in LeaseOnePC \cup {"granted"} PROVE hb'[l] = "idle"
  <2>1. pc[l] \in {"free", "granted"} \cup LeaseOnePC
    BY <1>1, LeaseOneMoves
  <2>2. hb[l] = "idle"
    BY <2>1 DEF FreshLeases, EarlyLeases, EarlyPC
  <2>3. ~HeartbeatRead(l)
    BY <2>1 DEF HeartbeatRead, LeaseOnePC
  <2>4. QED
    BY <2>2, <2>3, HeartbeatBegins
<1>2. ASSUME NEW k \in Sweeper, sweep'[k].stale
      PROVE  pc'[sweep'[k].lease] \notin LeaseOnePC \cup {"granted"}
  <2>1. PICK l \in Lease : sweep[k].lease = l /\ sweep'[k].lease = l
    BY <1>2, StaleBegins DEF OutdatedSweeps, TypeOK
  <2>2. pc[l] \notin {"free", "granted"} \cup LeaseOnePC
    <3>1. CASE sweep[k].stale
      BY <2>1, <3>1 DEF FreshLeases, OutdatedSweeps, SweptLeases, EarlyPC
    <3>2. CASE HeartbeatWrite(l)
      BY <3>2 DEF HeartbeatWrite, FreshLeases, EarlyLeases, EarlyPC
    <3>3. QED
      BY <1>2, <2>1, <3>1, <3>2, StaleBegins
  <2>3. QED
    BY <2>1, <2>2, LeaseOneMoves
<1>3. ASSUME NEW l \in Lease, pc'[l] = "stored" PROVE key'[l] /\ ~overdue'[l]
  <2>1. CASE StoreLease(l)
    BY <2>1 DEF StoreLease, TypeOK
  <2>2. CASE pc[l] = "stored"
    <3>1. key[l] /\ ~overdue[l]
      BY <2>2 DEF FreshLeases
    <3>2. \A k \in Sweeper : SweepDelete(k) => sweep[k].lease # l
      BY <2>2, <3>1 DEF SweepDelete, FreshLeases, LeaseOnePC
    <3>3. QED
      BY <2>2, <3>1, <3>2, RecordStays DEF LeaseOnePC
  <2>3. QED
    BY <1>3, <2>1, <2>2, LeaseOneMoves DEF LeaseOnePC
<1>4. QED
  BY <1>1, <1>2, <1>3 DEF FreshLeases

Requeuing(s) == {k \in Sweeper : sweep[k].pc = "requeue" /\ sub[sweep[k].lease] = s}
Forgetting(s) == {k \in Sweeper : sweep[k].pc = "forget" /\ sub[sweep[k].lease] = s}

\* Leases of a submission whose attempt is still to be read, or has been and not stored.
Unfetched(s) == {l \in Lease : sub[l] = s /\ pc[l] = "taken"}
Fetched(s) == {l \in Lease : sub[l] = s /\ pc[l] = "fetched"}

OneDelivery(s) == \A l, m \in Deliveries(s) : l = m

\* May the submission be delivered again.
ComesBack(s) == waiting[s] > 0 \/ Holding(s) # {} \/ Requeuing(s) # {}

DeliveredTwice(s) ==
  /\ \A l, m, n \in Deliveries(s) : l = m \/ m = n \/ l = n
  /\ waiting[s] > 0 \/ Unfetched(s) # {} \/ Fetched(s) # {} \/ Requeuing(s) # {} => OneDelivery(s)
  /\ \A l \in Holding(s) : Issued(l) /\ attempt[l] = 1 => Deliveries(s) = {l}
  /\ \A l \in Fetched(s) : attempt[l] = 1 => Deliveries(s) = {}
  /\ ComesBack(s) /\ Deliveries(s) # {} =>
       attemptKey[s] \/ \E l \in Deliveries(s) : pc[l] = "stored"
  /\ \A l \in Deliveries(s) : pc[l] # "ingested"
  /\ Forgetting(s) # {} => create[s] # "inserted" /\ ~ComesBack(s)

\* What tells the next fetch of a submission that it was delivered before.
KeyKept(r) ==
  \/ attemptKey'[r]
  \/ ~attemptKey[r] /\ \A l \in Deliveries(r) : pc[l] = "stored" => pc'[l] = "stored"

\* A step that brings a submission no nearer to another delivery.
Calm(r) ==
  /\ Deliveries(r)' = Deliveries(r)
  /\ waiting'[r] > 0 => waiting[r] > 0
  /\ create'[r] = "inserted" => create[r] = "inserted"
  /\ Holding(r)' \subseteq Holding(r)
  /\ Requeuing(r)' \subseteq Requeuing(r)
  /\ Unfetched(r)' \subseteq Unfetched(r)
  /\ Fetched(r)' \subseteq Fetched(r)
  /\ \A l \in Deliveries(r) : pc'[l] = "ingested" => pc[l] = "ingested"
  /\ \A l \in Deliveries(r) \cup Fetched(r) : attempt'[l] = attempt[l]
  /\ Forgetting(r)' \subseteq Forgetting(r) \/ (create'[r] # "inserted" /\ ~ComesBack(r)')
  /\ ~ComesBack(r)' \/ KeyKept(r)

LEMMA KeptKey ==
  ASSUME NEW r, Deliveries(r)' = Deliveries(r), KeyKept(r),
         attemptKey[r] \/ \E l \in Deliveries(r) : pc[l] = "stored"
  PROVE  attemptKey'[r] \/ \E l \in Deliveries(r)' : pc'[l] = "stored"
<1>1. SUFFICES ASSUME ~attemptKey'[r] PROVE \E l \in Deliveries(r)' : pc'[l] = "stored"
  OBVIOUS
<1>2. PICK l \in Deliveries(r) : pc[l] = "stored"
  BY <1>1 DEF KeyKept
<1>3. pc'[l] = "stored" /\ l \in Deliveries(r)'
  BY <1>1, <1>2 DEF KeyKept
<1>4. QED
  BY <1>3

LEMMA CalmKeeps ==
  ASSUME NEW r, DeliveredTwice(r), Calm(r)
  PROVE  DeliveredTwice(r)'
<1>1. Deliveries(r)' = Deliveries(r)
  BY DEF Calm
<1>2. \A l, m, n \in Deliveries(r)' : l = m \/ m = n \/ l = n
  BY <1>1 DEF DeliveredTwice
<1>3. waiting'[r] > 0 \/ Unfetched(r)' # {} \/ Fetched(r)' # {} \/ Requeuing(r)' # {}
        => OneDelivery(r)'
  BY <1>1 DEF Calm, DeliveredTwice, OneDelivery
<1>4. ASSUME NEW l \in Holding(r)', Issued(l)', attempt'[l] = 1 PROVE Deliveries(r)' = {l}
  <2>1. l \in Deliveries(r)
    BY <1>1, <1>4 DEF Holding, Deliveries
  <2>2. l \in Holding(r) /\ Issued(l) /\ attempt[l] = 1
    BY <1>4, <2>1 DEF Calm, Deliveries
  <2>3. QED
    BY <1>1, <2>2 DEF DeliveredTwice
<1>5. ASSUME NEW l \in Fetched(r)', attempt'[l] = 1 PROVE Deliveries(r)' = {}
  BY <1>1, <1>5 DEF Calm, DeliveredTwice
<1>6. ComesBack(r)' => ComesBack(r)
  BY DEF Calm, ComesBack
<1>7. ASSUME ComesBack(r)', Deliveries(r)' # {}
      PROVE  attemptKey'[r] \/ \E l \in Deliveries(r)' : pc'[l] = "stored"
  <2>1. attemptKey[r] \/ \E l \in Deliveries(r) : pc[l] = "stored"
    BY <1>1, <1>6, <1>7 DEF DeliveredTwice
  <2>2. KeyKept(r)
    BY <1>7 DEF Calm
  <2>3. QED
    BY <1>1, <2>1, <2>2, KeptKey
<1>8. ASSUME NEW l \in Deliveries(r)' PROVE pc'[l] # "ingested"
  <2>1. l \in Deliveries(r)
    BY <1>1
  <2>2. pc[l] # "ingested"
    BY <2>1 DEF DeliveredTwice
  <2>3. pc'[l] = "ingested" => pc[l] = "ingested"
    BY <2>1 DEF Calm
  <2>4. QED
    BY <2>2, <2>3
<1>9. Forgetting(r)' # {} => create'[r] # "inserted" /\ ~ComesBack(r)'
  BY <1>6 DEF Calm, DeliveredTwice
<1>10. QED
  BY <1>2, <1>3, <1>4, <1>5, <1>7, <1>8, <1>9 DEF DeliveredTwice

\* A step that hands over a submission delivered at most once.
HandsOver(r) ==
  /\ ComesBack(r) /\ OneDelivery(r) /\ KeyKept(r)
  /\ Deliveries(r)' = Deliveries(r)
  /\ \A l \in Holding(r)' : ~Issued(l)'
  /\ \A l \in Fetched(r)' : attempt'[l] = 1 => Deliveries(r) = {}
  /\ \A l \in Deliveries(r) : pc'[l] = "ingested" => pc[l] = "ingested"
  /\ Forgetting(r)' \subseteq Forgetting(r)

LEMMA HandOverKeeps ==
  ASSUME NEW r, DeliveredTwice(r), HandsOver(r)
  PROVE  DeliveredTwice(r)'
<1>1. Deliveries(r)' = Deliveries(r)
  BY DEF HandsOver
<1>2. OneDelivery(r)'
  BY <1>1 DEF HandsOver, OneDelivery
<1>3. \A l, m, n \in Deliveries(r)' : l = m \/ m = n \/ l = n
  BY <1>2 DEF OneDelivery
<1>4. \A l \in Holding(r)' : Issued(l)' /\ attempt'[l] = 1 => Deliveries(r)' = {l}
  BY DEF HandsOver
<1>5. ASSUME NEW l \in Fetched(r)', attempt'[l] = 1 PROVE Deliveries(r)' = {}
  BY <1>1, <1>5 DEF HandsOver
<1>6. Deliveries(r)' # {} => attemptKey'[r] \/ \E l \in Deliveries(r)' : pc'[l] = "stored"
  BY <1>1, KeptKey DEF DeliveredTwice, HandsOver
<1>7. ASSUME NEW l \in Deliveries(r)' PROVE pc'[l] # "ingested"
  <2>1. l \in Deliveries(r)
    BY <1>1
  <2>2. QED
    BY <2>1 DEF DeliveredTwice, HandsOver
<1>8. Forgetting(r)' = {}
  BY DEF DeliveredTwice, HandsOver
<1>9. QED
  BY <1>2, <1>3, <1>4, <1>5, <1>6, <1>7, <1>8 DEF DeliveredTwice

\* Nobody has ever touched the submission.
LEMMA UntouchedTwice ==
  ASSUME TypeOK', NEW r \in Sub, \A l \in Lease : sub'[l] # r
  PROVE  DeliveredTwice(r)'
<1>1. Deliveries(r)' = {} /\ Fetched(r)' = {} /\ Holding(r)' = {} /\ Unfetched(r)' = {}
  BY DEF Deliveries, Fetched, Holding, Unfetched
<1>2. Forgetting(r)' = {} /\ Requeuing(r)' = {}
  <2>1. \A k \in Sweeper : sweep'[k].pc # "idle" => sub'[sweep'[k].lease] # r
    BY DEF TypeOK
  <2>2. QED
    BY <2>1 DEF Forgetting, Requeuing
<1>3. QED
  BY <1>1, <1>2 DEF DeliveredTwice, OneDelivery

\* A row is opened by its insert alone.
LEMMA OpensOnce ==
  ASSUME TypeOK, [Next]_vars, NEW r \in Sub, Open(r)', ~Open(r)
  PROVE  CreateInsert(r)
<1> USE VerdictAssumption DEF TypeOK, Open, NotFinal, subVars, leaseVars
<1>1. ASSUME NEW l \in Lease, LeaseStep(l) PROVE FALSE
  <2>1. CASE IngestResult(l) \/ IngestFails(l)
    BY <2>1 DEF IngestResult, IngestFails, Settle
  <2>2. CASE MarkJudging(l) \/ MarkFails(l)
    BY <2>2 DEF MarkJudging, MarkFails, SetJudging
  <2>3. CASE ~MarkJudging(l) /\ ~MarkFails(l) /\ ~IngestResult(l) /\ ~IngestFails(l)
    BY <1>1, <2>3
       DEF LeaseStep, FetchPayload, FetchFindsNothing, FetchFails, GiveBackId, StoreLease,
           StoreAttempt, WorkerDiscards, ResultLost,
           ResultAbandoned, HeartbeatErrors, Elapse, HeartbeatRead, HeartbeatWrite,
           ConsumeLease, ForgetAttempt, LeaseKeyExpires
  <2>4. QED
    BY <2>1, <2>2, <2>3
<1>2. ASSUME NEW s \in Sub, ApiStep(s) PROVE CreateInsert(r)
  BY <1>2 DEF ApiStep, CreateInsert, CreateEnqueue, CreateAborts, DeleteSubmission,
              AttemptKeyExpires
<1>3. ASSUME NEW k \in Sweeper, SweepStep(k) PROVE FALSE
  <2>1. CASE GiveUp(k)
    BY <2>1 DEF GiveUp, Settle
  <2>2. CASE ~GiveUp(k)
    BY <1>3, <2>2 DEF SweepStep, SweepSkip, SweepDelete, Requeue, RequeueFails, SweepForget
  <2>3. QED
    BY <2>1, <2>2
<1>4. ASSUME NEW w \in Worker, WorkerStep(w) PROVE FALSE
  BY <1>4 DEF WorkerStep, Deliver, RequestLost, WorkerCrashes
<1>5. QED
  BY <1>1, <1>2, <1>3, <1>4 DEF Next, vars, InterchangerCrashes, SweepRead, WorkerReports, LeaseTake

\* A step of a lease touches no other lease, and no other submission than its own.
LEMMA LeaseLocal ==
  ASSUME TypeOK, NEW l \in Lease, LeaseStep(l)
  PROVE  /\ UNCHANGED create
         /\ \A m \in Lease : m # l =>
              /\ pc'[m] = pc[m] /\ sub'[m] = sub[m] /\ attempt'[m] = attempt[m]
              /\ key'[m] = key[m] /\ overdue'[m] = overdue[m] /\ hb'[m] = hb[m]
         /\ sub'[l] \in {sub[l], Nil}
         /\ \A s \in Sub : s # sub[l] =>
              waiting'[s] = waiting[s] /\ attemptKey'[s] = attemptKey[s]
         /\ \A k \in Sweeper : sweep'[k].pc = sweep[k].pc /\ sweep'[k].lease = sweep[k].lease
<1> USE DEF TypeOK, subVars, leaseVars
<1>1. CASE FetchPayload(l) \/ StoreLease(l) \/ StoreAttempt(l)
  BY <1>1 DEF FetchPayload, StoreLease, StoreAttempt
<1>2. CASE FetchFindsNothing(l)
  BY <1>2 DEF FetchFindsNothing, GiveBackId
<1>3. CASE FetchFails(l)
  BY <1>3 DEF FetchFails, GiveBackId
<1>4. CASE MarkJudging(l) \/ MarkFails(l)
  BY <1>4 DEF MarkJudging, MarkFails
<1>5. CASE WorkerDiscards(l) \/ ResultLost(l) \/ ResultAbandoned(l) \/ HeartbeatErrors(l)
  BY <1>5 DEF WorkerDiscards, ResultLost, ResultAbandoned, HeartbeatErrors
<1>6. CASE Elapse(l) \/ HeartbeatRead(l) \/ LeaseKeyExpires(l) \/ ConsumeLease(l)
  BY <1>6 DEF Elapse, HeartbeatRead, LeaseKeyExpires, ConsumeLease
<1>7. CASE HeartbeatWrite(l)
  <2>1. \A k \in Sweeper : sweep'[k].pc = sweep[k].pc /\ sweep'[k].lease = sweep[k].lease
    BY <1>7, HeartbeatLeavesSweeps
  <2>2. QED
    BY <1>7, <2>1 DEF HeartbeatWrite
<1>8. CASE IngestResult(l) \/ IngestFails(l) \/ ForgetAttempt(l)
  BY <1>8 DEF IngestResult, IngestFails, ForgetAttempt
<1>9. QED
  BY <1>1, <1>2, <1>3, <1>4, <1>5, <1>6, <1>7, <1>8 DEF LeaseStep

\* A step of a lease is calm for the submissions of the others.
LEMMA OtherLease ==
  ASSUME TypeOK, NEW r \in Sub, NEW l \in Lease, LeaseStep(l), sub[l] # r
  PROVE  Calm(r)
<1>1. /\ UNCHANGED create /\ waiting'[r] = waiting[r] /\ attemptKey'[r] = attemptKey[r]
      /\ sub'[l] # r
      /\ \A m \in Lease : m # l =>
              /\ pc'[m] = pc[m] /\ sub'[m] = sub[m] /\ attempt'[m] = attempt[m]
              /\ key'[m] = key[m] /\ overdue'[m] = overdue[m] /\ hb'[m] = hb[m]
      /\ \A k \in Sweeper : sweep'[k].pc = sweep[k].pc /\ sweep'[k].lease = sweep[k].lease
  BY LeaseLocal, NilAssumption
<1>2. \A m \in Lease : sub'[m] = r <=> sub[m] = r
  BY <1>1
<1>3. Deliveries(r)' = Deliveries(r)
  BY <1>1 DEF Deliveries, Issued
<1>4. Holding(r)' \subseteq Holding(r)
  BY <1>1 DEF Holding, InHand
<1>5. Unfetched(r)' \subseteq Unfetched(r) /\ Fetched(r)' \subseteq Fetched(r)
  BY <1>1 DEF Unfetched, Fetched
<1>6. \A k \in Sweeper : sweep[k].pc # "idle" =>
        (sub'[sweep'[k].lease] = r => sub[sweep[k].lease] = r)
  BY <1>1, <1>2 DEF TypeOK
<1>7. Requeuing(r)' \subseteq Requeuing(r) /\ Forgetting(r)' \subseteq Forgetting(r)
  BY <1>1, <1>6 DEF Requeuing, Forgetting
<1>8. \A m \in Deliveries(r) \cup Fetched(r) : pc'[m] = pc[m] /\ attempt'[m] = attempt[m]
  BY <1>1 DEF Deliveries, Fetched
<1>9. QED
  BY <1>1, <1>3, <1>4, <1>5, <1>7, <1>8 DEF Calm, KeyKept

\* A step of a lease that stays issued is calm for its own submission.
LEMMA OwnLease ==
  ASSUME TypeOK, NEW r \in Sub, NEW l \in Lease, LeaseStep(l),
         Issued(l), Issued(l)', UNCHANGED <<sub, attempt, waiting>>,
         pc'[l] = "ingested" => pc[l] = "ingested",
         l \in Holding(r)' => l \in Holding(r),
         attemptKey'[r] \/ (attemptKey'[r] = attemptKey[r] /\ pc[l] # "stored")
  PROVE  Calm(r)
<1>1. /\ UNCHANGED create
      /\ \A m \in Lease : m # l =>
              /\ pc'[m] = pc[m]
              /\ key'[m] = key[m] /\ overdue'[m] = overdue[m] /\ hb'[m] = hb[m]
      /\ \A k \in Sweeper : sweep'[k].pc = sweep[k].pc /\ sweep'[k].lease = sweep[k].lease
  BY LeaseLocal
<1>2. Deliveries(r)' = Deliveries(r)
  BY <1>1 DEF Deliveries, Issued
<1>3. Holding(r)' \subseteq Holding(r)
  BY <1>1 DEF Holding, InHand
<1>4. Unfetched(r)' \subseteq Unfetched(r) /\ Fetched(r)' \subseteq Fetched(r)
  BY <1>1 DEF Unfetched, Fetched, Issued, EarlyPC
<1>5. Requeuing(r)' \subseteq Requeuing(r) /\ Forgetting(r)' \subseteq Forgetting(r)
  BY <1>1 DEF Requeuing, Forgetting
<1>6. \A m \in Deliveries(r) : pc'[m] = "ingested" => pc[m] = "ingested"
  BY <1>1 DEF Deliveries
<1>7. KeyKept(r)
  BY <1>1, Zenon DEF KeyKept, Deliveries
<1>8. QED
  BY <1>1, <1>2, <1>3, <1>4, <1>5, <1>6, <1>7 DEF Calm

\* The steps of an issued lease of the submission itself.
LEMMA IssuedLeaseCalm ==
  ASSUME TypeOK, Bookkeeping, FreshLeases, NEW r \in Sub, Open(r), Open(r)', DeliveredTwice(r),
         NEW l \in Lease, sub[l] = r, LeaseStep(l), Issued(l)
  PROVE  Calm(r)
<1> DEFINE Goal == /\ Issued(l)' /\ UNCHANGED <<sub, attempt, waiting>>
                   /\ pc'[l] = "ingested" => pc[l] = "ingested"
                   /\ l \in Holding(r)' => l \in Holding(r)
                   /\ attemptKey'[r] \/ (attemptKey'[r] = attemptKey[r] /\ pc[l] # "stored")
<1> SUFFICES Goal
  BY OwnLease
<1> USE DEF TypeOK, Issued, EarlyPC, Holding, InHand, subVars, leaseVars
<1>1. CASE FetchPayload(l) \/ FetchFindsNothing(l) \/ FetchFails(l) \/ StoreLease(l)
  BY <1>1 DEF FetchPayload, FetchFindsNothing, FetchFails, StoreLease
<1>2. CASE StoreAttempt(l) \/ MarkJudging(l) \/ MarkFails(l)
  BY <1>2 DEF StoreAttempt, MarkJudging, MarkFails
<1>3. CASE WorkerDiscards(l) \/ ResultLost(l) \/ ResultAbandoned(l) \/ HeartbeatErrors(l)
  BY <1>3 DEF WorkerDiscards, ResultLost, ResultAbandoned, HeartbeatErrors, ResultPC
<1>4. CASE Elapse(l)
  BY <1>4 DEF Elapse, KeptAfterExpiry
<1>5. CASE HeartbeatRead(l)
  BY <1>5 DEF HeartbeatRead
<1>6. CASE HeartbeatWrite(l)
  <2>1. pc[l] # "stored"
    BY <1>6 DEF HeartbeatWrite, FreshLeases, LeaseOnePC
  <2>2. QED
    BY <1>6, <2>1 DEF HeartbeatWrite, StillAlive
<1>7. CASE ConsumeLease(l)
  BY <1>7 DEF ConsumeLease
<1>8. CASE IngestResult(l)
  BY <1>8, VerdictAssumption DEF IngestResult, Settle, Open, NotFinal
<1>9. CASE IngestFails(l)
  BY <1>9 DEF IngestFails
<1>10. CASE ForgetAttempt(l)
  BY <1>10 DEF ForgetAttempt, DeliveredTwice, Deliveries
<1>11. CASE LeaseKeyExpires(l)
  <2>1. pc[l] # "stored"
    BY <1>11 DEF LeaseKeyExpires, FreshLeases
  <2>2. QED
    BY <1>11, <2>1 DEF LeaseKeyExpires
<1>12. QED
  BY <1>1, <1>2, <1>3, <1>4, <1>5, <1>6, <1>7, <1>8, <1>9, <1>10, <1>11 DEF LeaseStep

\* The steps of leaseOne for the submission itself, up to the lease's record.
LEMMA EarlyLeaseTwice ==
  ASSUME TypeOK, Bookkeeping, FreshLeases, NEW r \in Sub, Open(r), Open(r)', DeliveredTwice(r),
         NEW l \in Lease, sub[l] = r, LeaseStep(l), ~Issued(l)
  PROVE  DeliveredTwice(r)'
<1>1. /\ UNCHANGED create
      /\ \A m \in Lease : m # l =>
              /\ pc'[m] = pc[m] /\ sub'[m] = sub[m] /\ attempt'[m] = attempt[m]
              /\ key'[m] = key[m] /\ overdue'[m] = overdue[m] /\ hb'[m] = hb[m]
      /\ sub'[l] \in {r, Nil}
      /\ \A k \in Sweeper : sweep'[k].pc = sweep[k].pc /\ sweep'[k].lease = sweep[k].lease
  BY LeaseLocal
<1>2. pc[l] \in {"free", "taken", "fetched"} /\ ~key[l] /\ hb[l] = "idle"
  BY DEF Issued, EarlyPC, Bookkeeping, EarlyLeases
<1>3. FetchPayload(l) \/ FetchFails(l) \/ StoreLease(l)
  BY <1>2 DEF LeaseStep, StoreAttempt, MarkJudging, MarkFails, WorkerDiscards, ResultLost,
              ResultAbandoned, HeartbeatErrors, Elapse, HeartbeatRead, HeartbeatWrite, ConsumeLease,
              IngestResult, IngestFails, ForgetAttempt, LeaseKeyExpires, ResultPC,
              FetchFindsNothing, Open
<1>4. l \in Holding(r) /\ ComesBack(r)
  BY <1>3 DEF FetchPayload, FetchFails, StoreLease, Holding, InHand, ComesBack
<1>5. /\ Holding(r) = {l} /\ Reclaimers(r) = {} /\ waiting[r] = 0
  BY <1>4 DEF Bookkeeping, OneHolder, TypeOK
<1>6. Forgetting(r)' \subseteq Forgetting(r) /\ Requeuing(r)' \subseteq Requeuing(r)
  BY <1>1, <1>2 DEF Forgetting, Requeuing, Bookkeeping, SweptLeases, EarlyPC, TypeOK
<1>7. Requeuing(r) = {} /\ Forgetting(r) = {}
  BY <1>4, <1>5 DEF Requeuing, Reclaimers, DeliveredTwice
<1>8. \A m \in Lease : m # l => m \notin Holding(r)'
  BY <1>1, <1>5 DEF Holding, InHand
<1>9. \A m \in Deliveries(r) : m # l /\ pc'[m] = pc[m]
  BY <1>1 DEF Deliveries
<1>10. Fetched(r)' \subseteq {l} /\ Unfetched(r)' \subseteq {l}
  BY <1>8 DEF Fetched, Unfetched, Holding, InHand
<1>11. CASE FetchPayload(l)
  <2>1. /\ pc[l] = "taken" /\ pc'[l] = "fetched" /\ attempt'[l] = NextAttempt(r)
        /\ UNCHANGED <<sub, attemptKey>>
    BY <1>11 DEF FetchPayload, TypeOK, subVars
  <2>2. OneDelivery(r)
    BY <2>1 DEF DeliveredTwice, Unfetched
  <2>3. Deliveries(r)' = Deliveries(r)
    BY <1>1, <2>1 DEF Deliveries, Issued, EarlyPC
  <2>4. ASSUME attempt'[l] = 1 PROVE Deliveries(r) = {}
    <3>1. ~attemptKey[r]
      BY <2>1, <2>4 DEF NextAttempt
    <3>2. \A m \in Deliveries(r) : pc[m] # "stored"
      <4>1. \A m \in Deliveries(r) : pc[m] = "stored" => m \in Holding(r)
        BY DEF FreshLeases, Deliveries, Holding, InHand
      <4>2. QED
        BY <1>5, <1>9, <4>1
    <3>3. QED
      BY <1>4, <3>1, <3>2 DEF DeliveredTwice
  <2>5. \A m \in Holding(r)' : ~Issued(m)'
    BY <1>8, <2>1 DEF Issued, EarlyPC, Holding
  <2>6. KeyKept(r)
    BY <1>9, <2>1, Zenon DEF KeyKept
  <2>7. HandsOver(r)
    BY <1>4, <1>6, <1>9, <1>10, <2>2, <2>3, <2>4, <2>5, <2>6 DEF HandsOver
  <2>8. QED
    BY <2>7, HandOverKeeps
<1>12. CASE FetchFails(l)
  <2>1. pc[l] = "taken" /\ pc'[l] = "free" /\ sub'[l] = Nil /\ UNCHANGED attemptKey
    BY <1>12 DEF FetchFails, GiveBackId, TypeOK
  <2>2. OneDelivery(r)
    BY <2>1 DEF DeliveredTwice, Unfetched
  <2>3. Deliveries(r)' = Deliveries(r)
    BY <1>1, <2>1, NilAssumption DEF Deliveries, Issued, EarlyPC
  <2>4. Fetched(r)' = {} /\ Holding(r)' = {}
    BY <1>8, <1>10, <2>1, NilAssumption DEF Fetched, Holding
  <2>5. KeyKept(r)
    BY <1>9, <2>1, Zenon DEF KeyKept
  <2>6. HandsOver(r)
    BY <1>4, <1>6, <1>9, <2>2, <2>3, <2>4, <2>5 DEF HandsOver
  <2>7. QED
    BY <2>6, HandOverKeeps
<1>13. CASE StoreLease(l)
  <2>1. /\ pc[l] = "fetched" /\ pc'[l] = "stored" /\ UNCHANGED <<sub, attempt, waiting, attemptKey>>
    BY <1>13 DEF StoreLease, TypeOK, subVars
  <2>2. l \in Fetched(r) /\ OneDelivery(r)
    BY <2>1 DEF DeliveredTwice, Fetched
  <2>3. Deliveries(r)' = Deliveries(r) \cup {l}
    BY <1>1, <2>1 DEF Deliveries, Issued, EarlyPC
  <2>4. \A i, m, n \in Deliveries(r)' : i = m \/ m = n \/ i = n
    BY <2>2, <2>3 DEF OneDelivery
  <2>5. waiting'[r] = 0 /\ Unfetched(r)' = {} /\ Fetched(r)' = {} /\ Requeuing(r)' = {}
        /\ Forgetting(r)' = {}
    BY <1>5, <1>6, <1>7, <1>10, <2>1 DEF Unfetched, Fetched
  <2>6. \A m \in Holding(r)' : Issued(m)' /\ attempt'[m] = 1 => Deliveries(r)' = {m}
    <3>1. attempt[l] = 1 => Deliveries(r) = {}
      BY <2>2 DEF DeliveredTwice
    <3>2. Holding(r)' \subseteq {l}
      BY <1>8 DEF Holding
    <3>3. QED
      BY <2>1, <2>3, <3>1, <3>2
  <2>7. ASSUME NEW m \in Deliveries(r)' PROVE pc'[m] # "ingested"
    BY <1>9, <2>1, <2>3, <2>7 DEF DeliveredTwice
  <2>8. \E m \in Deliveries(r)' : pc'[m] = "stored"
    BY <2>1, <2>3
  <2>9. QED
    BY <2>4, <2>5, <2>6, <2>7, <2>8 DEF DeliveredTwice
<1>14. QED
  BY <1>3, <1>11, <1>12, <1>13

LEMMA TakeTwice ==
  ASSUME TypeOK, Bookkeeping, NEW r \in Sub, Open(r), DeliveredTwice(r),
         NEW l \in Lease, NEW w \in Worker, NEW s \in Sub, LeaseTake(l, w, s)
  PROVE  DeliveredTwice(r)'
<1>1. /\ pc[l] = "free" /\ pc' = [pc EXCEPT ![l] = "taken"] /\ sub' = [sub EXCEPT ![l] = s]
      /\ waiting[s] > 0 /\ waiting' = [waiting EXCEPT ![s] = @ - 1]
      /\ UNCHANGED <<create, attemptKey, attempt, key, overdue, hb, sweep>>
  BY DEF LeaseTake
<1>2. ~key[l] /\ hb[l] = "idle"
  BY <1>1 DEF Bookkeeping, EarlyLeases, EarlyPC
<1>3. Deliveries(r)' = Deliveries(r)
  BY <1>1 DEF Deliveries, Issued, EarlyPC, TypeOK
<1>4. Requeuing(r)' \subseteq Requeuing(r) /\ Forgetting(r)' \subseteq Forgetting(r)
  <2>1. \A k \in Sweeper : sweep[k].pc # "idle" => sweep[k].lease # l /\ sweep[k].lease \in Lease
    BY <1>1 DEF Bookkeeping, SweptLeases, EarlyPC, TypeOK
  <2>2. QED
    BY <1>1, <2>1 DEF Requeuing, Forgetting, TypeOK
<1>5. Fetched(r)' \subseteq Fetched(r)
  BY <1>1 DEF Fetched, TypeOK
<1>6. \A m \in Deliveries(r) : pc'[m] = pc[m]
  BY <1>1 DEF Deliveries, Issued, EarlyPC, TypeOK
<1>7. KeyKept(r)
  BY <1>1, <1>6, Zenon DEF KeyKept
<1>8. CASE s = r
  <2>1. Holding(r) = {} /\ ComesBack(r)
    BY <1>1, <1>8 DEF Bookkeeping, OneHolder, ComesBack
  <2>2. Holding(r)' \subseteq {l}
    BY <1>1, <2>1 DEF Holding, InHand, TypeOK
  <2>3. Fetched(r) = {}
    BY <2>1 DEF Fetched, Holding, InHand
  <2>4. \A m \in Holding(r)' : ~Issued(m)'
    BY <1>1, <2>2 DEF Issued, EarlyPC, TypeOK
  <2>5. OneDelivery(r)
    BY <1>1, <1>8 DEF DeliveredTwice
  <2>6. HandsOver(r)
    BY <1>3, <1>4, <1>5, <1>6, <1>7, <2>1, <2>3, <2>4, <2>5 DEF HandsOver
  <2>7. QED
    BY <2>6, HandOverKeeps
<1>9. CASE s # r
  <2>1. waiting'[r] = waiting[r]
    BY <1>1, <1>9 DEF TypeOK
  <2>2. Holding(r)' \subseteq Holding(r) /\ Unfetched(r)' \subseteq Unfetched(r)
    BY <1>1, <1>2, <1>9 DEF Holding, InHand, Unfetched, TypeOK
  <2>3. Calm(r)
    BY <1>1, <1>3, <1>4, <1>5, <1>6, <1>7, <2>1, <2>2 DEF Calm
  <2>4. QED
    BY <2>3, CalmKeeps
<1>10. QED
  BY <1>8, <1>9

\* A step that moves no lease, and leaves what a submission may be delivered by.
LEMMA StillLeases ==
  ASSUME NEW r, UNCHANGED <<create, attempt, sub, hb, overdue, pc>>,
         waiting'[r] > 0 => waiting[r] > 0,
         \A l \in Lease : key'[l] => key[l],
         Requeuing(r)' \subseteq Requeuing(r),
         Forgetting(r)' \subseteq Forgetting(r) \/ (create'[r] # "inserted" /\ ~ComesBack(r)'),
         ~ComesBack(r)' \/ attemptKey'[r] = attemptKey[r]
  PROVE  Calm(r)
<1>1. Deliveries(r)' = Deliveries(r) /\ Unfetched(r)' = Unfetched(r) /\ Fetched(r)' = Fetched(r)
  BY DEF Deliveries, Issued, Unfetched, Fetched
<1>2. Holding(r)' \subseteq Holding(r)
  BY DEF Holding, InHand
<1>3. ~ComesBack(r)' \/ KeyKept(r)
  BY Zenon DEF KeyKept
<1>4. QED
  BY <1>1, <1>2, <1>3 DEF Calm

LEMMA DeleteTwice ==
  ASSUME TypeOK, Bookkeeping, NEW r \in Sub, Open(r), DeliveredTwice(r),
         NEW k \in Sweeper, SweepDelete(k)
  PROVE  DeliveredTwice(r)'
<1> DEFINE l == sweep[k].lease
<1>1. /\ sweep[k].pc = "read" /\ (overdue[l] \/ sweep[k].stale)
      /\ key' = [key EXCEPT ![l] = FALSE]
      /\ UNCHANGED <<create, waiting, attemptKey, pc, sub, attempt, overdue, hb>>
      /\ \A j \in Sweeper : j # k => sweep'[j] = sweep[j]
      /\ ~key[l] => sweep'[k] = IdleSweep
      /\ key[l] => sweep'[k] = [pc |-> IF GivesUp(l) THEN "giveup" ELSE "requeue",
                                lease |-> l, stale |-> FALSE]
  BY DEF SweepDelete, OwnsLease, TypeOK, subVars
<1>2. l \in Lease /\ Issued(l)
  BY <1>1 DEF TypeOK, Bookkeeping, SweptLeases, Issued
<1>3. hb[l] = "idle" \/ overdue[l]
  BY <1>1 DEF Bookkeeping, OutdatedSweeps
<1> HIDE DEF l
<1>4. \A m \in Lease : key'[m] => key[m] /\ m # l
  BY <1>1, <1>2 DEF TypeOK
<1>5. Forgetting(r)' \subseteq Forgetting(r)
  BY <1>1 DEF Forgetting, IdleSweep
<1>6. Requeuing(r)' \subseteq Requeuing(r) \cup {k}
  BY <1>1 DEF Requeuing
<1>7. CASE k \in Requeuing(r)'
  <2>1. key[l] /\ ~GivesUp(l) /\ sub[l] = r
    BY <1>1, <1>7 DEF Requeuing, IdleSweep
  <2>2. l \in Holding(r) /\ ComesBack(r)
    BY <1>2, <2>1 DEF Holding, InHand, ComesBack
  <2>3. attempt[l] = 1
    BY <1>2, <2>1 DEF GivesUp, MaxAttempts, TypeOK
  <2>4. Deliveries(r) = {l}
    BY <1>2, <2>2, <2>3 DEF DeliveredTwice
  <2>5. Holding(r)' = {}
    <3>1. \A m \in Holding(r) : m = l
      BY <2>2 DEF Bookkeeping, OneHolder
    <3>2. \A m \in Holding(r)' : m \in Holding(r)
      BY <1>1, <1>4 DEF Holding, InHand
    <3>3. l \notin Holding(r)'
      BY <1>1, <1>2, <1>3, <1>4 DEF Holding, InHand, Issued, EarlyPC
    <3>4. QED
      BY <3>1, <3>2, <3>3
  <2>6. Fetched(r)' = {}
    BY <2>5 DEF Fetched, Holding, InHand
  <2>7. Deliveries(r)' = Deliveries(r) /\ OneDelivery(r)
    BY <1>1, <2>4 DEF Deliveries, Issued, OneDelivery
  <2>8. KeyKept(r)
    BY <1>1, Zenon DEF KeyKept
  <2>9. HandsOver(r)
    BY <1>1, <1>5, <2>2, <2>5, <2>6, <2>7, <2>8 DEF HandsOver
  <2>10. QED
    BY <2>9, HandOverKeeps
<1>8. CASE k \notin Requeuing(r)'
  <2>1. Requeuing(r)' \subseteq Requeuing(r)
    BY <1>6, <1>8
  <2>2. Calm(r)
    BY <1>1, <1>4, <1>5, <2>1, StillLeases
  <2>3. QED
    BY <2>2, CalmKeeps
<1>9. QED
  BY <1>7, <1>8

LEMMA RequeueTwice ==
  ASSUME TypeOK, Bookkeeping, NEW r \in Sub, Open(r), DeliveredTwice(r),
         NEW k \in Sweeper, Requeue(k)
  PROVE  DeliveredTwice(r)'
<1>1. PICK s \in Sub : sub[sweep[k].lease] = s
  BY DEF Requeue, TypeOK, Bookkeeping, SweptLeases, EarlyPC
<1>2. /\ sweep[k].pc = "requeue" /\ sweep' = [sweep EXCEPT ![k] = IdleSweep]
      /\ waiting' = [waiting EXCEPT ![s] = @ + 1]
      /\ UNCHANGED <<create, attemptKey, pc, sub, attempt, key, overdue, hb>>
  BY <1>1 DEF Requeue, Requeued, leaseVars
<1>3. Requeuing(r)' \subseteq Requeuing(r) /\ Forgetting(r)' \subseteq Forgetting(r)
  <2>1. sweep'[k].pc = "idle" /\ \A j \in Sweeper : j # k => sweep'[j] = sweep[j]
    BY <1>2 DEF IdleSweep, TypeOK
  <2>2. QED
    BY <1>2, <2>1 DEF Requeuing, Forgetting
<1>4. CASE s = r
  <2>1. k \in Requeuing(r) /\ k \in Reclaimers(r)
    BY <1>1, <1>2, <1>4 DEF Requeuing, Reclaimers
  <2>2. ComesBack(r) /\ OneDelivery(r) /\ Holding(r) = {}
    BY <2>1 DEF ComesBack, DeliveredTwice, Bookkeeping, OneHolder
  <2>3. Holding(r)' = {}
    BY <1>2, <2>2 DEF Holding, InHand
  <2>4. Fetched(r)' = {}
    BY <2>3 DEF Fetched, Holding, InHand
  <2>5. Deliveries(r)' = Deliveries(r)
    BY <1>2 DEF Deliveries, Issued
  <2>6. KeyKept(r)
    BY <1>2, Zenon DEF KeyKept
  <2>7. HandsOver(r)
    BY <1>2, <1>3, <2>2, <2>3, <2>4, <2>5, <2>6 DEF HandsOver
  <2>8. QED
    BY <2>7, HandOverKeeps
<1>5. CASE s # r
  <2>1. waiting'[r] = waiting[r]
    BY <1>2, <1>5 DEF TypeOK
  <2>2. QED
    BY <1>2, <1>3, <2>1, StillLeases, CalmKeeps
<1>6. QED
  BY <1>4, <1>5

LEMMA GiveUpTwice ==
  ASSUME TypeOK, Bookkeeping, NEW r \in Sub, Open(r), DeliveredTwice(r),
         NEW k \in Sweeper, GiveUp(k)
  PROVE  DeliveredTwice(r)'
<1>1. /\ sweep[k].pc = "giveup" /\ sweep' = [sweep EXCEPT ![k].pc = "forget"]
      /\ UNCHANGED <<create, waiting, attemptKey, pc, sub, attempt, key, overdue, hb>>
  BY DEF GiveUp, leaseVars
<1>2. /\ sweep'[k].pc = "forget" /\ sweep'[k].lease = sweep[k].lease
      /\ \A j \in Sweeper : j # k => sweep'[j] = sweep[j]
  BY <1>1 DEF TypeOK
<1>3. Requeuing(r)' \subseteq Requeuing(r)
  BY <1>1, <1>2 DEF Requeuing
<1>4. Forgetting(r)' \subseteq Forgetting(r) \/ (create'[r] # "inserted" /\ ~ComesBack(r)')
  <2>1. CASE sub[sweep[k].lease] = r
    <3>1. k \in Reclaimers(r)
      BY <1>1, <2>1 DEF Reclaimers
    <3>2. Holding(r) = {} /\ waiting[r] = 0 /\ create[r] # "inserted"
          /\ \A j \in Reclaimers(r) : j = k
      BY <3>1 DEF Bookkeeping, OneHolder, TypeOK
    <3>3. Requeuing(r) = {}
      BY <1>1, <3>2 DEF Requeuing, Reclaimers
    <3>4. Holding(r)' = {}
      BY <1>1, <3>2 DEF Holding, InHand
    <3>5. QED
      BY <1>1, <1>3, <3>2, <3>3, <3>4 DEF ComesBack
  <2>2. CASE sub[sweep[k].lease] # r
    BY <1>1, <1>2, <2>2 DEF Forgetting
  <2>3. QED
    BY <2>1, <2>2
<1>5. QED
  BY <1>1, <1>3, <1>4, StillLeases, CalmKeeps

LEMMA ForgetTwice ==
  ASSUME TypeOK, NEW r \in Sub, DeliveredTwice(r), NEW k \in Sweeper, SweepForget(k)
  PROVE  DeliveredTwice(r)'
<1>1. /\ sweep[k].pc = "forget" /\ sweep' = [sweep EXCEPT ![k] = IdleSweep]
      /\ attemptKey' = [attemptKey EXCEPT ![sub[sweep[k].lease]] = FALSE]
      /\ UNCHANGED <<create, waiting, pc, sub, attempt, key, overdue, hb>>
  BY DEF SweepForget, leaseVars
<1>2. Requeuing(r)' \subseteq Requeuing(r) /\ Forgetting(r)' \subseteq Forgetting(r)
  BY <1>1 DEF Requeuing, Forgetting, IdleSweep, TypeOK
<1>3. ~ComesBack(r)' \/ attemptKey'[r] = attemptKey[r]
  <2>1. CASE sub[sweep[k].lease] = r
    <3>1. ~ComesBack(r)
      BY <1>1, <2>1 DEF DeliveredTwice, Forgetting
    <3>2. Holding(r)' = Holding(r)
      BY <1>1 DEF Holding, InHand
    <3>3. QED
      BY <1>1, <1>2, <3>1, <3>2 DEF ComesBack
  <2>2. CASE sub[sweep[k].lease] # r
    BY <1>1, <2>2 DEF TypeOK
  <2>3. QED
    BY <2>1, <2>2
<1>4. QED
  BY <1>1, <1>2, <1>3, StillLeases, CalmKeeps

LEMMA SweepTwice ==
  ASSUME TypeOK, Bookkeeping, NEW r \in Sub, Open(r), DeliveredTwice(r), NEW k \in Sweeper,
         SweepStep(k) \/ \E l \in Lease : SweepRead(k, l)
  PROVE  DeliveredTwice(r)'
<1>1. CASE SweepDelete(k) \/ Requeue(k) \/ GiveUp(k) \/ SweepForget(k)
  BY <1>1, DeleteTwice, RequeueTwice, GiveUpTwice, ForgetTwice
<1>2. CASE SweepSkip(k) \/ RequeueFails(k) \/ \E l \in Lease : SweepRead(k, l)
  <2>1. UNCHANGED <<create, waiting, attemptKey, attempt, sub, hb, overdue, pc, key>>
    BY <1>2 DEF SweepSkip, RequeueFails, SweepRead, subVars, leaseVars
  <2>2. \A j \in Sweeper : sweep'[j].pc \in {"requeue", "forget"} => sweep'[j] = sweep[j]
    BY <1>2 DEF SweepSkip, RequeueFails, SweepRead, IdleSweep, TypeOK
  <2>3. Requeuing(r)' \subseteq Requeuing(r) /\ Forgetting(r)' \subseteq Forgetting(r)
    BY <2>1, <2>2 DEF Requeuing, Forgetting
  <2>4. QED
    BY <2>1, <2>3, StillLeases, CalmKeeps
<1>3. QED
  BY <1>1, <1>2 DEF SweepStep

LEMMA ApiTwice ==
  ASSUME TypeOK, TypeOK', Bookkeeping, Unqueued, KeysHold, NEW r \in Sub,
         Open(r)', Open(r) => DeliveredTwice(r), NEW s \in Sub, ApiStep(s)
  PROVE  DeliveredTwice(r)'
<1>1. UNCHANGED <<leaseVars, sweep>>
  BY DEF ApiStep, CreateInsert, CreateEnqueue, CreateAborts, DeleteSubmission, AttemptKeyExpires
<1>2. CASE CreateInsert(r)
  <2>1. \A l \in Lease : sub'[l] # r
    BY <1>1, <1>2 DEF CreateInsert, Bookkeeping, UnbornRows, leaseVars
  <2>2. QED
    BY <2>1, UntouchedTwice
<1>3. CASE CreateEnqueue(r)
  <2>1. \A l \in Lease : sub'[l] # r
    BY <1>1, <1>3 DEF CreateEnqueue, Unqueued, leaseVars
  <2>2. QED
    BY <2>1, UntouchedTwice
<1>4. CASE ~CreateInsert(r) /\ ~CreateEnqueue(r)
  <2>1. /\ Open(r) /\ waiting'[r] = waiting[r] /\ UNCHANGED attemptKey
        /\ create'[r] = "inserted" => create[r] = "inserted"
    BY <1>4 DEF ApiStep, CreateInsert, CreateEnqueue, CreateAborts, DeleteSubmission,
                AttemptKeyExpires, TypeOK, Open, KeysHold
  <2>2. /\ Deliveries(r)' = Deliveries(r) /\ Unfetched(r)' = Unfetched(r)
        /\ Fetched(r)' = Fetched(r) /\ Holding(r)' = Holding(r)
        /\ Requeuing(r)' = Requeuing(r) /\ Forgetting(r)' = Forgetting(r)
    BY <1>1 DEF leaseVars, Deliveries, Issued, Unfetched, Fetched, Holding, InHand, Requeuing,
                Forgetting
  <2>3. KeyKept(r)
    BY <1>1, <2>1, Zenon DEF KeyKept, leaseVars
  <2>4. Calm(r)
    BY <1>1, <2>1, <2>2, <2>3 DEF Calm, leaseVars
  <2>5. QED
    BY <2>1, <2>4, CalmKeeps
<1>5. QED
  BY <1>2, <1>3, <1>4

LEMMA WorkerTwice ==
  ASSUME TypeOK, NEW r \in Sub, DeliveredTwice(r),
         \/ \E l \in Lease, v \in Verdict : WorkerReports(l, v)
         \/ \E w \in Worker : WorkerStep(w)
  PROVE  DeliveredTwice(r)'
<1>1. UNCHANGED <<create, waiting, attemptKey, sub, attempt, key, overdue, hb, sweep>>
  BY DEF WorkerReports, WorkerStep, Deliver, RequestLost, WorkerCrashes, subVars
<1>2. \A l \in Lease : pc'[l] = pc[l] \/ (pc[l] \in {"granted", "held"} /\ pc'[l] \in {"held", "sent", "lost"})
  BY DEF WorkerReports, WorkerStep, Deliver, Granted, RequestLost, WorkerCrashes, TypeOK
<1>3. Deliveries(r)' = Deliveries(r) /\ Unfetched(r)' \subseteq Unfetched(r)
      /\ Fetched(r)' \subseteq Fetched(r)
  BY <1>1, <1>2 DEF Deliveries, Issued, EarlyPC, Unfetched, Fetched
<1>4. Holding(r)' \subseteq Holding(r)
  BY <1>1, <1>2 DEF Holding, InHand
<1>5. Requeuing(r)' = Requeuing(r) /\ Forgetting(r)' = Forgetting(r)
  BY <1>1 DEF Requeuing, Forgetting
<1>6. \A l \in Lease : /\ pc[l] = "stored" => pc'[l] = "stored"
                       /\ pc'[l] = "ingested" => pc[l] = "ingested"
  BY <1>2
<1>7. KeyKept(r)
  BY <1>1, <1>6, Zenon DEF KeyKept, Deliveries
<1>8. Calm(r)
  BY <1>1, <1>3, <1>4, <1>5, <1>6, <1>7 DEF Calm, Deliveries
<1>9. QED
  BY <1>8, CalmKeeps

LEMMA TwiceStep ==
  ASSUME KeysHold, TypeOK, Bookkeeping, Unqueued, FreshLeases, [Next]_vars,
         NEW r \in Sub, Open(r) => DeliveredTwice(r), Open(r)'
  PROVE  DeliveredTwice(r)'
<1>1. CASE \E s \in Sub : ApiStep(s)
  BY <1>1, TypeStep, ApiTwice
<1>2. CASE ~\E s \in Sub : ApiStep(s)
  <2>1. Open(r) /\ DeliveredTwice(r)
    BY <1>2, OpensOnce DEF ApiStep
  <2>2. ASSUME NEW l \in Lease, LeaseStep(l) PROVE DeliveredTwice(r)'
    <3>1. CASE sub[l] # r
      BY <2>1, <2>2, <3>1, OtherLease, CalmKeeps
    <3>2. CASE sub[l] = r /\ Issued(l)
      BY <2>1, <2>2, <3>2, IssuedLeaseCalm, CalmKeeps
    <3>3. CASE sub[l] = r /\ ~Issued(l)
      BY <2>1, <2>2, <3>3, EarlyLeaseTwice
    <3>4. QED
      BY <3>1, <3>2, <3>3
  <2>3. CASE UNCHANGED vars
    <3>1. Calm(r)
      <4>1. UNCHANGED <<create, attempt, sub, hb, overdue, pc, waiting, key, attemptKey>>
        BY <2>3 DEF vars
      <4>2. Requeuing(r)' = Requeuing(r) /\ Forgetting(r)' = Forgetting(r)
        BY <2>3 DEF vars, Requeuing, Forgetting
      <4>3. QED
        BY <4>1, <4>2, StillLeases
    <3>2. QED
      BY <2>1, <3>1, CalmKeeps
  <2>4. ~InterchangerCrashes
    BY DEF KeysHold, InterchangerCrashes
  <2>5. QED
    BY <1>2, <2>1, <2>2, <2>3, <2>4, TakeTwice, SweepTwice, WorkerTwice DEF Next
<1>3. QED
  BY <1>1, <1>2

\* A set without three distinct members has at most two.
LEMMA NoThree ==
  ASSUME NEW S, \A x, y, z \in S : x = y \/ y = z \/ x = z
  PROVE  Cardinality(S) <= 2
<1>1. CASE S = {}
  BY <1>1, FS_EmptySet
<1>2. ASSUME NEW x \in S PROVE Cardinality(S) <= 2
  <2>1. CASE S = {x}
    <3>1. Cardinality({x}) = 1
      BY FS_Singleton
    <3>2. QED
      BY <2>1, <3>1
  <2>2. ASSUME NEW y \in S, y # x PROVE Cardinality(S) <= 2
    <3>1. S = {x} \cup {y} /\ y \notin {x}
      <4>1. \A z \in S : z = x \/ z = y
        BY <1>2, <2>2
      <4>2. QED
        BY <1>2, <2>2, <4>1
    <3>2. IsFiniteSet({x}) /\ Cardinality({x}) = 1
      BY FS_Singleton
    <3>3. Cardinality({x} \cup {y}) = 1 + 1
      BY <3>1, <3>2, FS_AddElement
    <3>4. QED
      BY <3>1, <3>3
  <2>3. QED
    BY <2>1, <2>2
<1>3. QED
  BY <1>1, <1>2

\* An open submission has been delivered at most twice, while no attempt key expires before its
\* 720 s are over and the interchanger does not die between writing a lease and its attempt key:
\* whatever else is lost, delayed or raced, the second delivery's lease is the last
\* (lease.service.ts:131-132, 155-167, 203-204).
THEOREM NoThirdDelivery == ASSUME KeysHold PROVE Spec => []AtMostTwoDeliveries
<1> DEFINE Twice == \A s \in Sub : Open(s) => DeliveredTwice(s)
<1>1. Init => Unqueued /\ FreshLeases /\ Twice
  BY UnqueuedInit, FreshInit DEF Init, Open
<1>2. TypeOK /\ Bookkeeping /\ Unqueued /\ FreshLeases /\ Twice /\ [Next]_vars
        => Unqueued' /\ FreshLeases' /\ Twice'
  BY UnqueuedStep, FreshStep, TwiceStep DEF Bookkeeping
<1>3. Twice => AtMostTwoDeliveries
  BY NoThree DEF AtMostTwoDeliveries, DeliveredTwice, Deliveries, MaxAttempts
<1> HIDE DEF Twice
<1>4. QED
  BY <1>1, <1>2, <1>3, TypeCorrect, BookkeepingHolds, PTL DEF Spec
=============================================================================
