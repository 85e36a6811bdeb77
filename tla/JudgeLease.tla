----------------------------- MODULE JudgeLease -----------------------------
(***************************************************************************)
(* The judging pipeline of the online judge, from POST /submissions to the *)
(* stored verdict: the API's SubmissionsService and JudgeIngestService,    *)
(* the interchanger's LeaseService (leases in Redis, jobs in BullMQ) and   *)
(* the judge VMs' InterchangerClientService.                               *)
(*                                                                         *)
(* One action is one step between two awaits of a handler, so the handlers *)
(* of leaseOne, heartbeat, submitResult and sweepExpired interleave with   *)
(* each other and with the workers exactly at the calls to Redis and to    *)
(* the API.                                                                *)
(*                                                                         *)
(* Not represented: BullMQ's list of active jobs.  A job leaves it in      *)
(* completeJob, whose errors are swallowed, and no stalled-job check is    *)
(* ever started (the only Worker has autorun: false), so nothing in the    *)
(* system reads it.  The order in which waiting jobs are taken is the      *)
(* subject of a module of its own.                                         *)
(***************************************************************************)
EXTENDS Naturals, FiniteSets

CONSTANTS
  Sub,          \* submissions
  Lease,        \* lease ids, each drawn once by randomUUID
  Worker,       \* judge VMs
  Sweeper,      \* sweeps that may overlap (setInterval does not wait)
  Verdict,      \* verdicts a judge VM reports
  Concurrency,  \* JUDGE_CONCURRENCY of every worker
  Faults,       \* which faults may happen
  Nil           \* no submission, worker, verdict or lease

MaxAttempts == 2

FaultKinds == {
  "worker",        \* a judge VM dies
  "net",           \* a response or a request between judge VM and interchanger is lost
  "fetch",         \* GET /internal/judge/payload fails
  "mark",          \* POST /internal/judge/status fails or is refused
  "ingest",        \* POST /internal/judge/ingest fails or times out
  "queue",         \* a BullMQ call that puts a job on the queue fails
  "interchanger",  \* the interchanger process dies
  "ttl"}           \* the attempt key outlives neither its 720 s nor the lease

FinalStatus == Verdict \cup {"INTERNAL_ERROR"}
NotFinal == {"NONE", "PENDING", "JUDGING", "GONE"}

ASSUME FaultsAssumption == Faults \subseteq FaultKinds
ASSUME VerdictAssumption == Verdict \cap NotFinal = {}
ASSUME NilAssumption == Nil \notin Sub \cup Lease \cup Worker \cup FinalStatus
ASSUME ConcurrencyAssumption == Concurrency \in Nat

VARIABLES
  status,      \* the Submission row: NONE before the insert, GONE once deleted
  create,      \* where SubmissionsService.create stands for a submission
  waiting,     \* jobs of a submission waiting in the queue
  attemptKey,  \* does judge:attempt:<submission> exist in Redis
  pc,          \* the life of a lease: leaseOne, then the worker, then submitResult
  sub,         \* LeaseRecord.submissionId
  attempt,     \* LeaseRecord.attempt
  owner,       \* the worker that receives or holds the lease, Nil once it has lost it
  verdict,     \* the result the worker sends for the lease
  key,         \* does judge:lease:<lease> exist in Redis
  overdue,     \* has LeaseRecord.expiresAt passed
  hb,          \* the heartbeat handler of the lease
  revoked,     \* handle(): the worker has been told the lease is gone
  sweep        \* the sweeps in progress

subVars == <<status, create, waiting, attemptKey>>
leaseVars == <<pc, sub, attempt, owner, verdict, key, overdue, hb, revoked>>
vars == <<status, create, waiting, attemptKey, pc, sub, attempt, owner,
          verdict, key, overdue, hb, revoked, sweep>>

Open(s) == status[s] \in {"PENDING", "JUDGING"}

LeaseOnePC == {"taken", "fetched", "stored", "keyed"}
ResultPC == {"sent", "consumed", "ingested"}
PC == {"free", "granted", "held", "closed", "lost"} \cup LeaseOnePC \cup ResultPC

IdleSweep == [pc |-> "idle", lease |-> Nil, stale |-> FALSE]
SweepPC == {"idle", "read", "requeue", "giveup", "forget"}

TypeOK ==
  /\ status \in [Sub -> NotFinal \cup FinalStatus]
  /\ create \in [Sub -> {"none", "inserted", "queued", "aborted"}]
  /\ waiting \in [Sub -> Nat]
  /\ attemptKey \in [Sub -> BOOLEAN]
  /\ pc \in [Lease -> PC]
  /\ sub \in [Lease -> Sub \cup {Nil}]
  /\ attempt \in [Lease -> 1..MaxAttempts]
  /\ owner \in [Lease -> Worker \cup {Nil}]
  /\ verdict \in [Lease -> Verdict \cup {Nil}]
  /\ key \in [Lease -> BOOLEAN]
  /\ overdue \in [Lease -> BOOLEAN]
  /\ hb \in [Lease -> {"idle", "read"}]
  /\ revoked \in [Lease -> BOOLEAN]
  /\ sweep \in [Sweeper -> [pc : SweepPC, lease : Lease \cup {Nil}, stale : BOOLEAN]]
  /\ \A l \in Lease : pc[l] # "free" => sub[l] \in Sub
  /\ \A l \in Lease : pc[l] \in {"sent", "consumed"} => verdict[l] \in Verdict
  /\ \A k \in Sweeper : sweep[k].pc # "idle" => sweep[k].lease \in Lease

Init ==
  /\ status = [s \in Sub |-> "NONE"]
  /\ create = [s \in Sub |-> "none"]
  /\ waiting = [s \in Sub |-> 0]
  /\ attemptKey = [s \in Sub |-> FALSE]
  /\ pc = [l \in Lease |-> "free"]
  /\ sub = [l \in Lease |-> Nil]
  /\ attempt = [l \in Lease |-> 1]
  /\ owner = [l \in Lease |-> Nil]
  /\ verdict = [l \in Lease |-> Nil]
  /\ key = [l \in Lease |-> FALSE]
  /\ overdue = [l \in Lease |-> FALSE]
  /\ hb = [l \in Lease |-> "idle"]
  /\ revoked = [l \in Lease |-> FALSE]
  /\ sweep = [k \in Sweeper |-> IdleSweep]

(***************************************************************************)
(* The API: SubmissionsService.create, and the places that delete rows.    *)
(***************************************************************************)

CreateInsert(s) ==
  /\ status[s] = "NONE"
  /\ status' = [status EXCEPT ![s] = "PENDING"]
  /\ create' = [create EXCEPT ![s] = "inserted"]
  /\ UNCHANGED <<waiting, attemptKey, leaseVars, sweep>>

CreateEnqueue(s) ==
  /\ create[s] = "inserted"
  /\ create' = [create EXCEPT ![s] = "queued"]
  /\ waiting' = [waiting EXCEPT ![s] = @ + 1]
  /\ UNCHANGED <<status, attemptKey, leaseVars, sweep>>

\* The API dies, or judgeQueue.add throws, after the row is inserted.
CreateAborts(s) ==
  /\ "queue" \in Faults
  /\ create[s] = "inserted"
  /\ create' = [create EXCEPT ![s] = "aborted"]
  /\ UNCHANGED <<status, waiting, attemptKey, leaseVars, sweep>>

\* purgeAccount, and verifyWithSolution on a failed verification.
DeleteSubmission(s) ==
  /\ status[s] \notin {"NONE", "GONE"}
  /\ status' = [status EXCEPT ![s] = "GONE"]
  /\ UNCHANGED <<create, waiting, attemptKey, leaseVars, sweep>>

(***************************************************************************)
(* LeaseService.leaseOne, called in a loop by the worker's lease request.  *)
(* The leases a request has gathered are "granted" until the response      *)
(* reaches the worker.                                                     *)
(***************************************************************************)

Requesting(w) == {l \in Lease : owner[l] = w /\ pc[l] \in LeaseOnePC}
Granted(w) == {l \in Lease : owner[l] = w /\ pc[l] = "granted"}
Busy(w) == Requesting(w) \cup Granted(w)
             \cup {l \in Lease : owner[l] = w /\ pc[l] \in {"held"} \cup ResultPC}

\* getNextJob
LeaseTake(l, w, s) ==
  /\ pc[l] = "free"
  /\ waiting[s] > 0
  /\ Requesting(w) = {}
  /\ Cardinality(Busy(w)) < Concurrency
  /\ waiting' = [waiting EXCEPT ![s] = @ - 1]
  /\ pc' = [pc EXCEPT ![l] = "taken"]
  /\ sub' = [sub EXCEPT ![l] = s]
  /\ owner' = [owner EXCEPT ![l] = w]
  /\ UNCHANGED <<status, create, attemptKey, attempt, verdict, key, overdue, hb, revoked, sweep>>

\* The lease id is drawn only once the payload is there.
GiveBackId(l) ==
  /\ pc' = [pc EXCEPT ![l] = "free"]
  /\ sub' = [sub EXCEPT ![l] = Nil]
  /\ owner' = [owner EXCEPT ![l] = Nil]
  /\ UNCHANGED <<attempt, verdict, key, overdue, hb, revoked>>

\* The attempt is 2 once an earlier delivery has left its key, whoever made it.
NextAttempt_First(s) == 1

NextAttempt_Third(s) == IF attemptKey[s] THEN 3 ELSE 1

NextAttempt(s) == IF attemptKey[s] THEN 2 ELSE 1

\* fetchPayload succeeds, whatever the submission's status, and the attempt
\* key is read.
FetchPayload(l) ==
  /\ pc[l] = "taken"
  /\ status[sub[l]] # "GONE"
  /\ pc' = [pc EXCEPT ![l] = "fetched"]
  /\ attempt' = [attempt EXCEPT ![l] = NextAttempt(sub[l])]
  /\ UNCHANGED <<subVars, sub, owner, verdict, key, overdue, hb, revoked, sweep>>

\* 404: the job is completed as 'gone'.
FetchFindsNothing(l) ==
  /\ pc[l] = "taken"
  /\ status[sub[l]] = "GONE"
  /\ GiveBackId(l)
  /\ UNCHANGED <<subVars, sweep>>

\* The API does not answer: the job goes back to the queue.  If moveToWait
\* fails too the job stays active, where nobody looks for it.
FetchFails(l) ==
  /\ "fetch" \in Faults
  /\ pc[l] = "taken"
  /\ \/ waiting' = [waiting EXCEPT ![sub[l]] = @ + 1]
     \/ "queue" \in Faults /\ UNCHANGED waiting
  /\ GiveBackId(l)
  /\ UNCHANGED <<status, create, attemptKey, sweep>>

StoreLease(l) ==
  /\ pc[l] = "fetched"
  /\ pc' = [pc EXCEPT ![l] = "stored"]
  /\ key' = [key EXCEPT ![l] = TRUE]
  /\ overdue' = [overdue EXCEPT ![l] = FALSE]
  /\ UNCHANGED <<subVars, sub, attempt, owner, verdict, hb, revoked, sweep>>

StoreAttempt(l) ==
  /\ pc[l] = "stored"
  /\ pc' = [pc EXCEPT ![l] = "keyed"]
  /\ attemptKey' = [attemptKey EXCEPT ![sub[l]] = TRUE]
  /\ UNCHANGED <<status, create, waiting, sub, attempt, owner, verdict, key,
                 overdue, hb, revoked, sweep>>

\* JudgeIngestService.markJudging: PENDING becomes JUDGING, nothing else changes.
SetJudging(s) == [status EXCEPT ![s] = IF @ = "PENDING" THEN "JUDGING" ELSE @]

\* A refusal (any answer that is not 200) is only logged.
MarkJudging(l) ==
  /\ pc[l] = "keyed"
  /\ status' \in {SetJudging(sub[l])} \cup (IF "mark" \in Faults THEN {status} ELSE {})
  /\ pc' = [pc EXCEPT ![l] = "granted"]
  /\ UNCHANGED <<create, waiting, attemptKey, sub, attempt, owner, verdict,
                 key, overdue, hb, revoked, sweep>>

\* The call throws: lease() throws, the request answers 500, and every lease
\* it had gathered stays in Redis without a worker.
MarkFails(l) ==
  /\ "mark" \in Faults
  /\ pc[l] = "keyed"
  /\ status' \in {status, SetJudging(sub[l])}
  /\ pc' = [pc EXCEPT ![l] = "lost"]
  /\ owner' = [m \in Lease |->
                 IF m = l \/ m \in Granted(owner[l]) THEN Nil ELSE owner[m]]
  /\ UNCHANGED <<create, waiting, attemptKey, sub, attempt, verdict, key,
                 overdue, hb, revoked, sweep>>

Deliver(w) ==
  /\ Requesting(w) = {}
  /\ Granted(w) # {}
  /\ pc' = [l \in Lease |-> IF l \in Granted(w) THEN "held" ELSE pc[l]]
  /\ UNCHANGED <<subVars, sub, attempt, owner, verdict, key, overdue, hb, revoked, sweep>>

\* The worker gives up on its lease request (30 s), or the response is lost.
\* The handler goes on, for nobody.
RequestLost(w) ==
  /\ "net" \in Faults
  /\ Requesting(w) \cup Granted(w) # {}
  /\ owner' = [l \in Lease |->
                 IF l \in Requesting(w) \cup Granted(w) THEN Nil ELSE owner[l]]
  /\ UNCHANGED <<subVars, pc, sub, attempt, verdict, key, overdue, hb, revoked, sweep>>

(***************************************************************************)
(* The judge VM: InterchangerClientService.handle.                         *)
(***************************************************************************)

\* runner.run returns and no heartbeat has been refused: the result is posted.
WorkerReports(l, v) ==
  /\ pc[l] = "held"
  /\ ~revoked[l]
  /\ pc' = [pc EXCEPT ![l] = "sent"]
  /\ verdict' = [verdict EXCEPT ![l] = v]
  /\ UNCHANGED <<subVars, sub, attempt, owner, key, overdue, hb, revoked, sweep>>

WorkerDiscards(l) ==
  /\ pc[l] = "held"
  /\ revoked[l]
  /\ pc' = [pc EXCEPT ![l] = "closed"]
  /\ UNCHANGED <<subVars, sub, attempt, owner, verdict, key, overdue, hb, revoked, sweep>>

\* A worker restarts with nothing; what it had posted may still arrive.
WorkerCrashes(w) ==
  /\ "worker" \in Faults
  /\ Busy(w) # {}
  /\ pc' = [l \in Lease |-> IF owner[l] = w /\ pc[l] = "held" THEN "lost" ELSE pc[l]]
  /\ owner' = [l \in Lease |-> IF l \in Busy(w) THEN Nil ELSE owner[l]]
  /\ UNCHANGED <<subVars, sub, attempt, verdict, key, overdue, hb, revoked, sweep>>

\* The post of the result never arrives, or run() could not even make its
\* directory and there is none: handle() logs it and forgets the lease.
ResultLost(l) ==
  /\ "net" \in Faults
  /\ pc[l] = "sent"
  /\ pc' = [pc EXCEPT ![l] = "lost"]
  /\ UNCHANGED <<subVars, sub, attempt, owner, verdict, key, overdue, hb, revoked, sweep>>

\* The worker's wait for the answer to its result times out: it takes more work
\* while submitResult goes on.
ResultAbandoned(l) ==
  /\ "net" \in Faults
  /\ pc[l] \in ResultPC
  /\ owner[l] # Nil
  /\ owner' = [owner EXCEPT ![l] = Nil]
  /\ UNCHANGED <<subVars, pc, sub, attempt, verdict, key, overdue, hb, revoked, sweep>>

(***************************************************************************)
(* Time.  A lease lives at least 30 s and a call to the API ends within    *)
(* 20 s, so no lease runs out between StoreLease and the end of leaseOne,  *)
(* nor (once written again by a heartbeat) while its result is ingested.   *)
(***************************************************************************)

\* The Redis key is kept ten minutes past expiresAt, for the sweeper to find.
KeptAfterExpiry_Not(l) == FALSE

KeptAfterExpiry(l) == key[l]

Elapse(l) ==
  /\ pc[l] \in {"granted", "held", "sent", "closed", "lost"}
  /\ key[l] \/ hb[l] = "read"
  /\ ~overdue[l]
  /\ overdue' = [overdue EXCEPT ![l] = TRUE]
  /\ key' = [key EXCEPT ![l] = KeptAfterExpiry(l)]
  /\ UNCHANGED <<subVars, pc, sub, attempt, owner, verdict, hb, revoked, sweep>>

\* The attempt key lives 720 s from the last delivery, and a heartbeat moves a
\* lease's end by 30 s every 10 s without renewing it.
AttemptKeyExpires(s) ==
  /\ "ttl" \in Faults
  /\ attemptKey[s]
  /\ attemptKey' = [attemptKey EXCEPT ![s] = FALSE]
  /\ UNCHANGED <<status, create, waiting, leaseVars, sweep>>

(***************************************************************************)
(* LeaseService.heartbeat.  At most one per lease is in flight: the worker *)
(* sends one every 10 s.                                                   *)
(***************************************************************************)

\* GET.  A second extension inside one sweep's GET-DEL round trip would need
\* two heartbeats within it.
HeartbeatRead(l) ==
  /\ pc[l] = "held"
  /\ hb[l] = "idle"
  /\ ~revoked[l]
  /\ \A k \in Sweeper : ~(sweep[k].lease = l /\ sweep[k].stale)
  /\ IF key[l]
     THEN hb' = [hb EXCEPT ![l] = "read"] /\ UNCHANGED revoked
     ELSE revoked' = [revoked EXCEPT ![l] = TRUE] /\ UNCHANGED hb
  /\ UNCHANGED <<subVars, pc, sub, attempt, owner, verdict, key, overdue, sweep>>

\* An answer other than 410 and 200 (a Redis error, a proxy): the worker takes it
\* for a refusal, though the lease is still its own.
HeartbeatErrors(l) ==
  /\ "net" \in Faults
  /\ pc[l] = "held"
  /\ hb[l] = "idle"
  /\ ~revoked[l]
  /\ revoked' = [revoked EXCEPT ![l] = TRUE]
  /\ UNCHANGED <<subVars, pc, sub, attempt, owner, verdict, key, overdue, hb, sweep>>

StillAlive_Unchecked(l) == TRUE

StillAlive(l) == ~overdue[l]

\* The check of expiresAt and the SET sent in the same tick: it writes the
\* record back even if submitResult has deleted the key since the GET.
HeartbeatWrite(l) ==
  /\ hb[l] = "read"
  /\ hb' = [hb EXCEPT ![l] = "idle"]
  /\ \/ /\ StillAlive(l)
        /\ key' = [key EXCEPT ![l] = TRUE]
        /\ overdue' = [overdue EXCEPT ![l] = FALSE]
        /\ sweep' = [k \in Sweeper |->
                       IF sweep[k].lease = l /\ sweep[k].pc = "read"
                       THEN [sweep[k] EXCEPT !.stale = TRUE] ELSE sweep[k]]
        /\ UNCHANGED revoked
     \/ /\ ~StillAlive(l)
        /\ revoked' = [revoked EXCEPT ![l] = TRUE]
        /\ UNCHANGED <<key, overdue, sweep>>
  /\ UNCHANGED <<subVars, pc, sub, attempt, owner, verdict>>

(***************************************************************************)
(* LeaseService.submitResult, and JudgeIngestService.ingest on the API.    *)
(* The result is the one the worker computed for this lease: the checks    *)
(* against a foreign submission or test case have nothing to refuse.       *)
(***************************************************************************)

\* DEL of the lease key has removed it.
OwnsLease_Always(l) == TRUE

OwnsLease(l) == key[l]

\* GET and DEL: only the request whose DEL removes the key goes on.
ConsumeLease(l) ==
  /\ pc[l] = "sent"
  /\ pc' = [pc EXCEPT ![l] = IF OwnsLease(l) THEN "consumed" ELSE "closed"]
  /\ key' = [key EXCEPT ![l] = FALSE]
  /\ UNCHANGED <<subVars, sub, attempt, owner, verdict, overdue, hb, revoked, sweep>>

\* updateMany where the status is PENDING or JUDGING.
Settle_Overwrite(s, v) == [status EXCEPT ![s] = IF @ = "GONE" THEN @ ELSE v]

Settle(s, v) ==
  [status EXCEPT ![s] = IF @ \in {"PENDING", "JUDGING"} THEN v ELSE @]

IngestResult(l) ==
  /\ pc[l] = "consumed"
  /\ status' = Settle(sub[l], verdict[l])
  /\ pc' = [pc EXCEPT ![l] = "ingested"]
  /\ UNCHANGED <<create, waiting, attemptKey, sub, attempt, owner, verdict,
                 key, overdue, hb, revoked, sweep>>

\* The call throws, before or after the API has committed; submitResult ends
\* there and the worker, told 500, forgets the result.
IngestFails(l) ==
  /\ "ingest" \in Faults
  /\ pc[l] = "consumed"
  /\ status' \in {status, Settle(sub[l], verdict[l])}
  /\ pc' = [pc EXCEPT ![l] = "lost"]
  /\ UNCHANGED <<create, waiting, attemptKey, sub, attempt, owner, verdict,
                 key, overdue, hb, revoked, sweep>>

\* completeJob, then DEL of the attempt key.
ForgetAttempt(l) ==
  /\ pc[l] = "ingested"
  /\ pc' = [pc EXCEPT ![l] = "closed"]
  /\ attemptKey' = [attemptKey EXCEPT ![sub[l]] = FALSE]
  /\ UNCHANGED <<status, create, waiting, sub, attempt, owner, verdict, key,
                 overdue, hb, revoked, sweep>>

(***************************************************************************)
(* LeaseService.sweepExpired, one lease at a time.                         *)
(***************************************************************************)

SweepRead(k, l) ==
  /\ sweep[k].pc = "idle"
  /\ key[l]
  /\ sweep' = [sweep EXCEPT ![k] = [pc |-> "read", lease |-> l, stale |-> FALSE]]
  /\ UNCHANGED <<subVars, leaseVars>>

\* The record it read is not expired.
SweepSkip(k) ==
  /\ sweep[k].pc = "read"
  /\ ~overdue[sweep[k].lease]
  /\ sweep' = [sweep EXCEPT ![k] = IdleSweep]
  /\ UNCHANGED <<subVars, leaseVars>>

GivesUp_TooEarly(l) == attempt[l] <= MaxAttempts

GivesUp(l) == attempt[l] >= MaxAttempts

\* The record it read is expired, though a heartbeat may have written a later
\* expiresAt since the read.  Only the sweep whose DEL removes the key goes on.
SweepDelete(k) ==
  LET l == sweep[k].lease IN
  /\ sweep[k].pc = "read"
  /\ overdue[l] \/ sweep[k].stale
  /\ sweep' = [sweep EXCEPT ![k] =
                 IF ~OwnsLease(l) THEN IdleSweep
                 ELSE [pc |-> IF GivesUp(l) THEN "giveup" ELSE "requeue",
                       lease |-> l, stale |-> FALSE]]
  /\ key' = [key EXCEPT ![l] = FALSE]
  /\ UNCHANGED <<subVars, pc, sub, attempt, owner, verdict, overdue, hb, revoked>>

Requeued_Lost(s) == waiting

Requeued(s) == [waiting EXCEPT ![s] = @ + 1]

\* completeJob on the old job, then a new one.
Requeue(k) ==
  /\ sweep[k].pc = "requeue"
  /\ waiting' = Requeued(sub[sweep[k].lease])
  /\ sweep' = [sweep EXCEPT ![k] = IdleSweep]
  /\ UNCHANGED <<status, create, attemptKey, leaseVars>>

\* queue.add throws: sweepExpired rejects and the error is logged.
RequeueFails(k) ==
  /\ "queue" \in Faults
  /\ sweep[k].pc = "requeue"
  /\ sweep' = [sweep EXCEPT ![k] = IdleSweep]
  /\ UNCHANGED <<subVars, leaseVars>>

\* ingest of INTERNAL_ERROR; a failure of the call is logged and ignored.
GiveUp(k) ==
  /\ sweep[k].pc = "giveup"
  /\ LET settled == Settle(sub[sweep[k].lease], "INTERNAL_ERROR") IN
     status' \in {settled} \cup (IF "ingest" \in Faults THEN {status} ELSE {})
  /\ sweep' = [sweep EXCEPT ![k].pc = "forget"]
  /\ UNCHANGED <<create, waiting, attemptKey, leaseVars>>

\* completeJob, then DEL of the attempt key.
SweepForget(k) ==
  /\ sweep[k].pc = "forget"
  /\ attemptKey' = [attemptKey EXCEPT ![sub[sweep[k].lease]] = FALSE]
  /\ sweep' = [sweep EXCEPT ![k] = IdleSweep]
  /\ UNCHANGED <<status, create, waiting, leaseVars>>

(***************************************************************************)
(* The interchanger dies: its handlers and sweeps are gone, Redis and the  *)
(* workers stay.  If it is down for more than ten minutes the lease keys   *)
(* go too.                                                                 *)
(***************************************************************************)

InterchangerCrashes ==
  /\ "interchanger" \in Faults
  /\ pc' = [l \in Lease |->
              IF pc[l] \in LeaseOnePC \cup {"granted"} \cup ResultPC THEN "lost" ELSE pc[l]]
  /\ hb' = [l \in Lease |-> "idle"]
  /\ sweep' = [k \in Sweeper |-> IdleSweep]
  /\ UNCHANGED <<subVars, sub, attempt, owner, verdict, key, overdue, revoked>>

LeaseKeyExpires(l) ==
  /\ "interchanger" \in Faults
  /\ key[l] /\ overdue[l]
  /\ key' = [key EXCEPT ![l] = FALSE]
  /\ UNCHANGED <<subVars, pc, sub, attempt, owner, verdict, overdue, hb, revoked, sweep>>

-----------------------------------------------------------------------------

ApiStep(s) ==
  \/ CreateInsert(s) \/ CreateEnqueue(s) \/ CreateAborts(s)
  \/ DeleteSubmission(s) \/ AttemptKeyExpires(s)

LeaseStep(l) ==
  \/ FetchPayload(l) \/ FetchFindsNothing(l) \/ FetchFails(l)
  \/ StoreLease(l) \/ StoreAttempt(l) \/ MarkJudging(l) \/ MarkFails(l)
  \/ WorkerDiscards(l) \/ ResultLost(l) \/ ResultAbandoned(l) \/ HeartbeatErrors(l)
  \/ Elapse(l) \/ HeartbeatRead(l) \/ HeartbeatWrite(l)
  \/ ConsumeLease(l) \/ IngestResult(l) \/ IngestFails(l) \/ ForgetAttempt(l)
  \/ LeaseKeyExpires(l)

WorkerStep(w) == Deliver(w) \/ RequestLost(w) \/ WorkerCrashes(w)

SweepStep(k) ==
  \/ SweepSkip(k) \/ SweepDelete(k) \/ Requeue(k) \/ RequeueFails(k)
  \/ GiveUp(k) \/ SweepForget(k)

Next ==
  \/ \E s \in Sub : ApiStep(s)
  \/ \E l \in Lease, w \in Worker, s \in Sub : LeaseTake(l, w, s)
  \/ \E l \in Lease : LeaseStep(l)
  \/ \E l \in Lease, v \in Verdict : WorkerReports(l, v)
  \/ \E w \in Worker : WorkerStep(w)
  \/ \E k \in Sweeper : SweepStep(k)
  \/ \E k \in Sweeper, l \in Lease : SweepRead(k, l)
  \/ InterchangerCrashes

Spec == Init /\ [][Next]_vars

\* The processes run and time passes; the API answers a payload request sooner
\* or later; a run of the sandbox ends.  Faults are never obliged to happen.
Fairness ==
  /\ \A s \in Sub : WF_vars(CreateEnqueue(s))
  /\ \A s \in Sub : SF_vars(\E l \in Lease, w \in Worker : LeaseTake(l, w, s))
  /\ \A s \in Sub : SF_vars(\E l \in Lease : sub[l] = s /\ FetchPayload(l))
  /\ \A l \in Lease :
       /\ WF_vars(FetchPayload(l) \/ FetchFindsNothing(l) \/ FetchFails(l))
       /\ WF_vars(StoreLease(l))
       /\ WF_vars(StoreAttempt(l))
       /\ WF_vars(MarkJudging(l) \/ MarkFails(l))
       /\ WF_vars(WorkerDiscards(l) \/ \E v \in Verdict : WorkerReports(l, v))
       /\ WF_vars(HeartbeatWrite(l))
       /\ WF_vars(Elapse(l))
       /\ WF_vars(ConsumeLease(l))
       /\ WF_vars(IngestResult(l) \/ IngestFails(l))
       /\ WF_vars(ForgetAttempt(l))
  /\ \A w \in Worker : WF_vars(Deliver(w))
  /\ \A k \in Sweeper : WF_vars(SweepStep(k))
  /\ \A l \in Lease :
       SF_vars(\E k \in Sweeper : overdue[l] /\ SweepRead(k, l))

FairSpec == Spec /\ Fairness

-----------------------------------------------------------------------------
(***************************************************************************)
(* Properties.                                                             *)
(***************************************************************************)

\* Who may still judge a submission: the request creating it, a job in the
\* queue, a lease (its handler before the record is written, then its record in
\* Redis), or a sweep reclaiming one.
InHand(l) == key[l] \/ pc[l] \in {"taken", "fetched"}

Reclaimers(s) ==
  {k \in Sweeper : sweep[k].pc \in {"requeue", "giveup"} /\ sub[sweep[k].lease] = s}

Carriers(s) ==
  {<<"create", x>> : x \in {y \in {s} : create[y] = "inserted"}}
    \cup {<<"job", i>> : i \in 1..waiting[s]}
    \cup {<<"lease", l>> : l \in {m \in Lease : sub[m] = s /\ InHand(m)}}
    \cup {<<"sweep", k>> : k \in Reclaimers(s)}

\* The results that have consumed their lease and are about to be ingested.
Settling(s) == {l \in Lease : sub[l] = s /\ pc[l] = "consumed"}

\* A submission without a verdict is never forgotten: something still carries
\* the obligation to judge it, or its result is being stored
\* (lease.service.ts:43-45: a lease that runs out is reclaimed and delivered
\* again, so that no submission stays in JUDGING).
NotLost == \A s \in Sub : Open(s) => Carriers(s) \cup Settling(s) # {}

\* A submission without a verdict is carried once: there is never a second
\* lease, job or sweep beside the one entitled to judge it
\* (lease.service.ts:220-221: only the one whose DEL succeeds handles a lease).
SoleCarrier == \A s \in Sub : Open(s) => \A c, d \in Carriers(s) : c = d

\* A heartbeat that has read a live record will write it back, so its lease may
\* carry its submission again even if the key is deleted meanwhile.
Holding(s) ==
  {l \in Lease : sub[l] = s /\ (InHand(l) \/ (hb[l] = "read" /\ ~overdue[l]))}

EarlyPC == {"free", "taken", "fetched"}

UnbornRows ==
  \A s \in Sub : status[s] = "NONE" =>
    create[s] = "none" /\ waiting[s] = 0 /\ \A l \in Lease : sub[l] # s

EarlyLeases == \A l \in Lease : pc[l] \in EarlyPC => ~key[l] /\ hb[l] = "idle"

SweptLeases ==
  \A k \in Sweeper : sweep[k].pc # "idle" => pc[sweep[k].lease] \notin EarlyPC

OutdatedSweeps ==
  \A k \in Sweeper :
    sweep[k].stale => sweep[k].pc = "read" /\ hb[sweep[k].lease] = "idle"

OneHolder(s) ==
  /\ waiting[s] <= 1
  /\ create[s] = "inserted" => waiting[s] = 0
  /\ create[s] = "inserted" \/ waiting[s] > 0 => Holding(s) = {} /\ Reclaimers(s) = {}
  /\ \A l, m \in Holding(s) : l = m
  /\ \A j, k \in Reclaimers(s) : j = k
  /\ Holding(s) = {} \/ Reclaimers(s) = {}

\* What makes SoleCarrier inductive: a row that does not exist is in nobody's
\* hands, no lease is written, renewed or swept before its record exists, a sweep
\* whose reading a heartbeat has outdated meets no second heartbeat, and a
\* heartbeat about to write has no rival (lease.service.ts:155-167 against 206-240).
Bookkeeping ==
  /\ UnbornRows /\ EarlyLeases /\ SweptLeases /\ OutdatedSweeps
  /\ \A s \in Sub : Open(s) => OneHolder(s)

\* A verdict, once stored, is final: a redelivered lease, a late report of a
\* zombie worker or a sweep never overwrites it (judge-ingest.service.ts:50-53).
VerdictFinal ==
  [][\A s \in Sub : status[s] \in FinalStatus
                      => status'[s] \in {status[s], "GONE"}]_status

Issued(l) == pc[l] \notin EarlyPC

\* INTERNAL_ERROR without a worker reporting it follows two deliveries, never
\* the first expiry (lease.service.ts:203-204).
GivesUpAfterTwo ==
  \A s \in Sub : status[s] = "INTERNAL_ERROR" =>
    \/ \E l \in Lease : sub[l] = s /\ verdict[l] = "INTERNAL_ERROR"
    \/ \E l, m \in Lease : l # m /\ sub[l] = s /\ sub[m] = s /\ Issued(l) /\ Issued(m)

\* A submission still without a verdict has been delivered at most twice
\* (judge-protocol.ts:62: 1 = first delivery, 2 = redelivery, then it is decided).
AtMostTwoDeliveries ==
  \A s \in Sub : Open(s) =>
    Cardinality({l \in Lease : sub[l] = s /\ Issued(l)}) <= MaxAttempts

\* A result of the submission is being ingested, or a sweep is giving it up.
Deciding(s) ==
  \/ Settling(s) # {}
  \/ \E k \in Sweeper : sweep[k].pc = "giveup" /\ sub[sweep[k].lease] = s

OpenStage(s) ==
  IF create[s] # "queued" THEN "accepted"
  ELSE IF Deciding(s) THEN "deciding"
  ELSE IF waiting[s] > 0 THEN "queued"
  ELSE "delivered"

\* The stage a submission has reached, as the contract names it.
StageOf(s) ==
  CASE status[s] = "NONE" -> "absent"
    [] status[s] = "GONE" -> "gone"
    [] status[s] \in FinalStatus -> status[s]
    [] OTHER -> OpenStage(s)

Contract == INSTANCE JudgeContract WITH
  item <- [s \in Sub |-> StageOf(s)],
  Fallible <- Faults \cap {"ingest", "interchanger"} # {}

ASSUME StageAssumption == FinalStatus \cap Contract!Stage = {}

\* A submission moves only as the contract allows: in particular it is decided
\* only by the delivery that holds it, never by a result whose lease has been
\* reclaimed (lease.service.ts:169-172).
ImplementsContract == Contract!Spec

\* A submission that is being judged does not stay so (lease.service.ts:203-204:
\* the sweep keeps a submission from staying in JUDGING for ever).
JudgingEnds == \A s \in Sub : status[s] = "JUDGING" ~> status[s] # "JUDGING"

\* Every submission of a user ends with a verdict, or is deleted.
EventuallyJudged ==
  \A s \in Sub : status[s] = "PENDING" ~> status[s] \in FinalStatus \cup {"GONE"}
=============================================================================
