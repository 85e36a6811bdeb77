------------------------ MODULE JudgeLeaseNotLostProofs ------------------------
(***************************************************************************)
(* JudgeLease: an open submission is never forgotten, as long as calls to  *)
(* the queue and to the ingest endpoint succeed and the interchanger lives.*)
(* Each of those three faults can lose one (see README.md).                *)
(***************************************************************************)
EXTENDS JudgeLeaseSafetyProofs

Recoverable == Faults \cap {"queue", "ingest", "interchanger"} = {}

Alive(l) == InHand(l) \/ pc[l] = "consumed"

AliveFor(s) == {l \in Lease : sub[l] = s /\ Alive(l)}

\* NotLost without the tokens of Carriers.
Kept(s) ==
  \/ create[s] = "inserted" \/ waiting[s] > 0
  \/ AliveFor(s) # {} \/ Reclaimers(s) # {}

LEMMA KeptIsNotLost ==
  ASSUME TypeOK
  PROVE  NotLost <=> \A s \in Sub : Open(s) => Kept(s)
<1> SUFFICES ASSUME NEW s \in Sub PROVE Kept(s) <=> Carriers(s) \cup Settling(s) # {}
  BY DEF NotLost
<1> DEFINE C == {<<"create", x>> : x \in {y \in {s} : create[y] = "inserted"}}
           J == {<<"job", i>> : i \in 1..waiting[s]}
           L == {<<"lease", l>> : l \in {m \in Lease : sub[m] = s /\ InHand(m)}}
           W == {<<"sweep", k>> : k \in Reclaimers(s)}
<1>1. C # {} <=> create[s] = "inserted"
  OBVIOUS
<1>2. J # {} <=> waiting[s] > 0
  <2>1. waiting[s] \in Nat
    BY DEF TypeOK
  <2>2. (1..waiting[s]) # {} <=> waiting[s] > 0
    BY <2>1
  <2>3. QED
    BY <2>2
<1>3. W # {} <=> Reclaimers(s) # {}
  OBVIOUS
<1>4. L \cup Settling(s) # {} <=> AliveFor(s) # {}
  <2>1. L # {} <=> \E m \in Lease : sub[m] = s /\ InHand(m)
    OBVIOUS
  <2>2. Settling(s) # {} <=> \E m \in Lease : sub[m] = s /\ pc[m] = "consumed"
    BY DEF Settling
  <2>3. AliveFor(s) # {} <=> \E m \in Lease : sub[m] = s /\ (InHand(m) \/ pc[m] = "consumed")
    BY DEF AliveFor, Alive
  <2> HIDE DEF L
  <2>4. QED
    BY <2>1, <2>2, <2>3
<1>5. Carriers(s) = C \cup J \cup L \cup W
  BY DEF Carriers
<1> HIDE DEF C, J, L, W
<1>6. QED
  BY <1>1, <1>2, <1>3, <1>4, <1>5 DEF Kept

\* A step that leaves every obligation where it is, or adds to them.
LEMMA KeptGrows ==
  ASSUME NEW r, Kept(r), UNCHANGED <<create, waiting>>,
         AliveFor(r) \subseteq AliveFor(r)', Reclaimers(r) \subseteq Reclaimers(r)'
  PROVE  Kept(r)'
  BY DEF Kept

LEMMA KeptApi ==
  ASSUME Recoverable, TypeOK, NEW r \in Sub, Open(r) => Kept(r), Open(r)',
         NEW s \in Sub, ApiStep(s)
  PROVE  Kept(r)'
<1>1. AliveFor(r)' = AliveFor(r) /\ Reclaimers(r)' = Reclaimers(r)
  BY DEF ApiStep, CreateInsert, CreateEnqueue, CreateAborts, DeleteSubmission,
         AttemptKeyExpires, leaseVars, AliveFor, Alive, InHand, Reclaimers
<1>2. CASE CreateInsert(r)
  BY <1>2 DEF CreateInsert, TypeOK, Kept
<1>3. CASE CreateEnqueue(r)
  <2>1. waiting'[r] > 0
    BY <1>3 DEF CreateEnqueue, TypeOK
  <2>2. QED
    BY <2>1 DEF Kept
<1>4. CASE ~CreateInsert(r) /\ ~CreateEnqueue(r)
  <2>1. Open(r) /\ waiting'[r] = waiting[r] /\ create'[r] = create[r]
    BY <1>4 DEF ApiStep, CreateInsert, CreateEnqueue, CreateAborts, DeleteSubmission,
                AttemptKeyExpires, TypeOK, Open, Recoverable
  <2>2. QED
    BY <1>1, <2>1 DEF Kept
<1>5. QED
  BY <1>2, <1>3, <1>4

LEMMA KeptTake ==
  ASSUME TypeOK, Bookkeeping, NEW r \in Sub, Open(r) => Kept(r), Open(r)',
         NEW l \in Lease, NEW w \in Worker, NEW s \in Sub, LeaseTake(l, w, s)
  PROVE  Kept(r)'
<1>1. /\ Open(r) /\ UNCHANGED <<create, key, sweep>>
      /\ pc[l] = "free" /\ ~key[l]
      /\ pc' = [pc EXCEPT ![l] = "taken"] /\ sub' = [sub EXCEPT ![l] = s]
      /\ waiting' = [waiting EXCEPT ![s] = @ - 1]
  BY DEF LeaseTake, Open, Bookkeeping, EarlyLeases, EarlyPC
<1>2. CASE s = r
  <2>1. l \in AliveFor(r)'
    BY <1>1, <1>2 DEF AliveFor, Alive, InHand, TypeOK
  <2>2. QED
    BY <2>1 DEF Kept
<1>3. CASE s # r
  <2>1. waiting'[r] = waiting[r]
    BY <1>1, <1>3 DEF TypeOK
  <2>2. AliveFor(r) \subseteq AliveFor(r)'
    BY <1>1 DEF AliveFor, Alive, InHand, TypeOK
  <2>3. Reclaimers(r) \subseteq Reclaimers(r)'
    <3>1. ASSUME NEW k \in Reclaimers(r) PROVE sweep[k].lease # l
      BY <1>1, <3>1 DEF Reclaimers, Bookkeeping, SweptLeases, EarlyPC
    <3>2. QED
      BY <1>1, <3>1 DEF Reclaimers, TypeOK
  <2>4. QED
    BY <1>1, <2>1, <2>2, <2>3 DEF Kept
<1>4. QED
  BY <1>2, <1>3

LEMMA KeptLease ==
  ASSUME Recoverable, TypeOK, Bookkeeping, NEW r \in Sub, Open(r) => Kept(r), Open(r)',
         NEW l \in Lease, LeaseStep(l)
  PROVE  Kept(r)'
<1> USE DEF subVars, leaseVars
<1>1. CASE FetchPayload(l) \/ StoreLease(l) \/ StoreAttempt(l)
  <2>1. Open(r) /\ UNCHANGED <<create, waiting>> /\ Reclaimers(r)' = Reclaimers(r)
    BY <1>1 DEF FetchPayload, StoreLease, StoreAttempt, Open, Reclaimers
  <2>2. pc[l] = "stored" => key[l] \/ l \notin AliveFor(r)
    BY DEF AliveFor, Alive, InHand
  <2>3. AliveFor(r) \subseteq AliveFor(r)'
    BY <1>1, <2>2 DEF FetchPayload, StoreLease, StoreAttempt, AliveFor, Alive, InHand, TypeOK
  <2>4. QED
    BY <2>1, <2>3, KeptGrows
<1>2. CASE FetchFindsNothing(l)
  <2>1. Open(r) /\ UNCHANGED <<status, create, waiting, sweep>> /\ sub[l] # r
    BY <1>2 DEF FetchFindsNothing, Open
  <2>2. AliveFor(r) \subseteq AliveFor(r)' /\ Reclaimers(r) \subseteq Reclaimers(r)'
    BY <1>2, <2>1 DEF FetchFindsNothing, GiveBackId, AliveFor, Alive, InHand, Reclaimers, TypeOK
  <2>3. QED
    BY <2>1, <2>2, KeptGrows
<1>3. CASE FetchFails(l)
  <2>1. /\ Open(r) /\ UNCHANGED <<create, sweep, key>> /\ pc[l] = "taken"
        /\ waiting' = [waiting EXCEPT ![sub[l]] = @ + 1]
        /\ pc' = [pc EXCEPT ![l] = "free"] /\ sub' = [sub EXCEPT ![l] = Nil]
    BY <1>3 DEF FetchFails, GiveBackId, Open, Recoverable
  <2>2. CASE sub[l] = r
    <3>1. waiting'[r] > 0
      BY <2>1, <2>2 DEF TypeOK
    <3>2. QED
      BY <3>1 DEF Kept
  <2>3. CASE sub[l] # r
    <3>1. waiting'[r] = waiting[r]
      BY <2>1, <2>3 DEF TypeOK
    <3>2. AliveFor(r) \subseteq AliveFor(r)' /\ Reclaimers(r) \subseteq Reclaimers(r)'
      BY <2>1, <2>3 DEF AliveFor, Alive, InHand, Reclaimers, TypeOK
    <3>3. QED
      BY <2>1, <3>1, <3>2 DEF Kept
  <2>4. QED
    BY <2>2, <2>3
<1>4. CASE MarkJudging(l) \/ MarkFails(l)
  <2>1. Open(r) /\ UNCHANGED <<create, waiting>> /\ Reclaimers(r)' = Reclaimers(r)
    BY <1>4 DEF MarkJudging, MarkFails, SetJudging, Open, Reclaimers, TypeOK
  <2>2. AliveFor(r) \subseteq AliveFor(r)'
    BY <1>4 DEF MarkJudging, MarkFails, AliveFor, Alive, InHand, TypeOK
  <2>3. QED
    BY <2>1, <2>2, KeptGrows
<1>5. CASE \/ WorkerDiscards(l) \/ ResultLost(l) \/ ResultAbandoned(l) \/ HeartbeatErrors(l)
           \/ HeartbeatRead(l)
  <2>1. Open(r) /\ UNCHANGED <<create, waiting>> /\ Reclaimers(r)' = Reclaimers(r)
    BY <1>5 DEF WorkerDiscards, ResultLost, ResultAbandoned, HeartbeatErrors, HeartbeatRead,
                Open, Reclaimers
  <2>2. AliveFor(r) \subseteq AliveFor(r)'
    BY <1>5 DEF WorkerDiscards, ResultLost, ResultAbandoned, HeartbeatErrors, HeartbeatRead,
                AliveFor, Alive, InHand, TypeOK
  <2>3. QED
    BY <2>1, <2>2, KeptGrows
<1>6. CASE Elapse(l)
  <2>1. Open(r) /\ UNCHANGED <<create, waiting>> /\ Reclaimers(r)' = Reclaimers(r)
    BY <1>6 DEF Elapse, Open, Reclaimers
  <2>2. \A m \in Lease : key[m] => key'[m]
    BY <1>6 DEF Elapse, KeptAfterExpiry, TypeOK
  <2>3. AliveFor(r) \subseteq AliveFor(r)'
    BY <1>6, <2>2 DEF Elapse, AliveFor, Alive, InHand, TypeOK
  <2>4. QED
    BY <2>1, <2>3, KeptGrows
<1>7. CASE HeartbeatWrite(l)
  <2>1. Open(r) /\ UNCHANGED <<create, waiting, pc, sub>>
    BY <1>7 DEF HeartbeatWrite, Open
  <2>2. \A m \in Lease : key[m] => key'[m]
    BY <1>7 DEF HeartbeatWrite, TypeOK
  <2>3. AliveFor(r) \subseteq AliveFor(r)'
    BY <2>1, <2>2 DEF AliveFor, Alive, InHand
  <2>4. Reclaimers(r) \subseteq Reclaimers(r)'
    BY <1>7, <2>1, HeartbeatLeavesSweeps DEF Reclaimers
  <2>5. QED
    BY <2>1, <2>3, <2>4, KeptGrows
<1>8. CASE ConsumeLease(l)
  <2>1. Open(r) /\ UNCHANGED <<create, waiting>> /\ Reclaimers(r)' = Reclaimers(r)
    BY <1>8 DEF ConsumeLease, Open, Reclaimers
  <2>2. AliveFor(r) \subseteq AliveFor(r)'
    <3>1. CASE key[l]
      BY <1>8, <3>1 DEF ConsumeLease, OwnsLease, AliveFor, Alive, InHand, TypeOK
    <3>2. CASE ~key[l]
      BY <1>8, <3>2 DEF ConsumeLease, OwnsLease, AliveFor, Alive, InHand, TypeOK
    <3>3. QED
      BY <3>1, <3>2
  <2>3. QED
    BY <2>1, <2>2, KeptGrows
<1>9. CASE IngestResult(l)
  <2>1. sub[l] # r
    BY <1>9, VerdictAssumption DEF IngestResult, Settle, Open, TypeOK, NotFinal
  <2>2. Open(r) /\ UNCHANGED <<create, waiting>> /\ Reclaimers(r)' = Reclaimers(r)
    BY <1>9, <2>1 DEF IngestResult, Settle, Open, Reclaimers, TypeOK
  <2>3. AliveFor(r) \subseteq AliveFor(r)'
    BY <1>9, <2>1 DEF IngestResult, AliveFor, Alive, InHand, TypeOK
  <2>4. QED
    BY <2>2, <2>3, KeptGrows
<1>10. CASE ForgetAttempt(l)
  <2>1. Open(r) /\ UNCHANGED <<create, waiting>> /\ Reclaimers(r)' = Reclaimers(r)
    BY <1>10 DEF ForgetAttempt, Open, Reclaimers
  <2>2. AliveFor(r) \subseteq AliveFor(r)'
    BY <1>10 DEF ForgetAttempt, AliveFor, Alive, InHand, TypeOK
  <2>3. QED
    BY <2>1, <2>2, KeptGrows
<1>11. ~IngestFails(l) /\ ~LeaseKeyExpires(l)
  BY DEF IngestFails, LeaseKeyExpires, Recoverable
<1>12. QED
  BY <1>1, <1>2, <1>3, <1>4, <1>5, <1>6, <1>7, <1>8, <1>9, <1>10, <1>11 DEF LeaseStep

LEMMA KeptSweep ==
  ASSUME Recoverable, TypeOK, NEW r \in Sub, Open(r) => Kept(r), Open(r)',
         NEW k \in Sweeper, SweepStep(k) \/ \E l \in Lease : SweepRead(k, l)
  PROVE  Kept(r)'
<1> USE DEF subVars, leaseVars
<1>1. CASE SweepSkip(k) \/ SweepForget(k) \/ \E l \in Lease : SweepRead(k, l)
  <2>1. Open(r) /\ UNCHANGED <<create, waiting>> /\ AliveFor(r)' = AliveFor(r)
    BY <1>1 DEF SweepSkip, SweepForget, SweepRead, Open, AliveFor, Alive, InHand
  <2>2. Reclaimers(r) \subseteq Reclaimers(r)'
    BY <1>1 DEF SweepSkip, SweepForget, SweepRead, Reclaimers, TypeOK
  <2>3. QED
    BY <2>1, <2>2, KeptGrows
<1>2. CASE SweepDelete(k)
  <2> DEFINE l == sweep[k].lease
  <2>1. /\ Open(r) /\ sweep[k].pc = "read" /\ l \in Lease
        /\ UNCHANGED <<create, waiting, pc, sub>>
        /\ key' = [key EXCEPT ![l] = FALSE]
        /\ \A j \in Sweeper : j # k => sweep'[j] = sweep[j]
        /\ key[l] => sweep'[k].pc \in {"requeue", "giveup"} /\ sweep'[k].lease = l
    BY <1>2 DEF SweepDelete, OwnsLease, Open, TypeOK
  <2> HIDE DEF l
  <2>2. Reclaimers(r) \subseteq Reclaimers(r)'
    BY <2>1 DEF Reclaimers
  <2>3. CASE l \in AliveFor(r) /\ key[l]
    <3>1. k \in Reclaimers(r)'
      BY <2>1, <2>3 DEF Reclaimers, AliveFor
    <3>2. QED
      BY <3>1 DEF Kept
  <2>4. CASE ~(l \in AliveFor(r) /\ key[l])
    <3>1. AliveFor(r) \subseteq AliveFor(r)'
      BY <2>1, <2>4 DEF AliveFor, Alive, InHand, TypeOK
    <3>2. QED
      BY <2>1, <2>2, <3>1, KeptGrows
  <2>5. QED
    BY <2>3, <2>4
<1>3. CASE Requeue(k)
  <2> DEFINE s == sub[sweep[k].lease]
  <2>1. /\ Open(r) /\ UNCHANGED create /\ AliveFor(r)' = AliveFor(r)
        /\ waiting' = [waiting EXCEPT ![s] = @ + 1]
        /\ UNCHANGED sub /\ \A j \in Sweeper : j # k => sweep'[j] = sweep[j]
    BY <1>3 DEF Requeue, Requeued, Open, AliveFor, Alive, InHand, TypeOK
  <2>2. CASE s = r
    <3>1. waiting'[r] > 0
      BY <2>1, <2>2 DEF TypeOK
    <3>2. QED
      BY <3>1 DEF Kept
  <2>3. CASE s # r
    <3>1. waiting'[r] = waiting[r] /\ k \notin Reclaimers(r)
      BY <2>1, <2>3 DEF TypeOK, Reclaimers
    <3>2. Reclaimers(r) \subseteq Reclaimers(r)'
      BY <2>1, <3>1 DEF Reclaimers
    <3>3. QED
      BY <2>1, <3>1, <3>2 DEF Kept
  <2>4. QED
    BY <2>2, <2>3
<1>4. CASE GiveUp(k)
  <2>1. status' = Settle(sub[sweep[k].lease], "INTERNAL_ERROR")
    BY <1>4 DEF GiveUp, Recoverable
  <2>2. sub[sweep[k].lease] # r /\ Open(r)
    BY <2>1 DEF Settle, Open, TypeOK
  <2>3. UNCHANGED <<create, waiting>> /\ AliveFor(r)' = AliveFor(r)
    BY <1>4 DEF GiveUp, AliveFor, Alive, InHand
  <2>4. Reclaimers(r) \subseteq Reclaimers(r)'
    BY <1>4, <2>2 DEF GiveUp, Reclaimers, TypeOK
  <2>5. QED
    BY <2>2, <2>3, <2>4, KeptGrows
<1>5. ~RequeueFails(k)
  BY DEF RequeueFails, Recoverable
<1>6. QED
  BY <1>1, <1>2, <1>3, <1>4, <1>5 DEF SweepStep
LEMMA KeptWorker ==
  ASSUME TypeOK, NEW r \in Sub, Open(r) => Kept(r), Open(r)',
         \/ \E l \in Lease, v \in Verdict : WorkerReports(l, v)
         \/ \E w \in Worker : WorkerStep(w)
  PROVE  Kept(r)'
<1> USE DEF subVars, WorkerStep, WorkerReports, Deliver, RequestLost, WorkerCrashes
<1>1. Open(r) /\ UNCHANGED <<create, waiting, sub, key>> /\ Reclaimers(r)' = Reclaimers(r)
  BY DEF Open, Reclaimers
<1>2. ASSUME NEW l \in Lease, pc[l] \in {"taken", "fetched", "consumed"}
      PROVE  pc'[l] = pc[l]
  BY <1>2 DEF TypeOK, Granted
<1>3. AliveFor(r) \subseteq AliveFor(r)'
  BY <1>1, <1>2 DEF AliveFor, Alive, InHand
<1>4. QED
  BY <1>1, <1>3, KeptGrows

LEMMA KeptInit == Init => \A s \in Sub : Open(s) => Kept(s)
  BY DEF Init, Open

LEMMA KeptStep ==
  ASSUME Recoverable, TypeOK, Bookkeeping, \A s \in Sub : Open(s) => Kept(s), [Next]_vars
  PROVE  \A s \in Sub : Open(s)' => Kept(s)'
<1> SUFFICES ASSUME NEW r \in Sub, Open(r)' PROVE Kept(r)'
  OBVIOUS
<1>1. CASE UNCHANGED vars
  <2>1. Open(r) /\ Kept(r)' = Kept(r)
    BY <1>1 DEF vars, Open, Kept, AliveFor, Alive, InHand, Reclaimers
  <2>2. QED
    BY <2>1
<1>2. ~InterchangerCrashes
  BY DEF InterchangerCrashes, Recoverable
<1>3. QED
  BY <1>1, <1>2, KeptApi, KeptTake, KeptLease, KeptWorker, KeptSweep DEF Next

\* As long as the calls to the queue and to the ingest endpoint succeed and the
\* interchanger lives, whatever the workers, the network and the other calls to
\* the API do, a submission without a verdict is always in somebody's hands.
THEOREM NothingLost ==
  ASSUME Recoverable
  PROVE  Spec => []NotLost
<1> DEFINE AllKept == \A s \in Sub : Open(s) => Kept(s)
<1>1. Init => AllKept
  BY KeptInit
<1>2. TypeOK /\ Bookkeeping /\ AllKept /\ [Next]_vars => AllKept'
  BY KeptStep
<1>3. TypeOK /\ AllKept => NotLost
  BY KeptIsNotLost
<1> HIDE DEF AllKept
<1>4. QED
  BY <1>1, <1>2, <1>3, TypeCorrect, BookkeepingHolds, PTL DEF Spec
=============================================================================
