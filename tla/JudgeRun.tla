------------------------------ MODULE JudgeRun ------------------------------
(***************************************************************************)
(* One submission on a judge worker: JudgeRunnerService, the container it  *)
(* runs each stage in (DockerSandboxService), and the sweep that clears    *)
(* what was left behind (SandboxCleanupService).                           *)
(*                                                                         *)
(* A stage is the compilation or one test case.  A timer is set when the   *)
(* container has been made, not when it has started, and kills it once,    *)
(* which may fail; the output is taken when the container has ended,       *)
(* whether all of it has arrived or not.  The sweep goes by age alone, and *)
(* only while the worker runs.                                             *)
(***************************************************************************)
EXTENDS Naturals, Sequences

CONSTANTS
  MaxTests,   \* bound: test cases
  OrphanAge,  \* MAX_ORPHAN_AGE_MS, in units of time
  SweepEvery  \* SWEEP_INTERVAL_MS

ASSUME JudgeRunAssumption ==
  MaxTests \in Nat /\ OrphanAge \in Nat \ {0, 1} /\ SweepEvery \in Nat \ {0}

VARIABLES
  program,   \* how the program behaves in each stage; the first is its compilation
  stage,     \* the stage in progress
  status,    \* finalStatus; the verdict once the run is over
  pc,        \* what the runner waits for
  up,        \* the worker's process runs
  box,       \* the age of the directory, while there is one: a set of at most one
  container, \* the container of the stage
  left,      \* the ages of containers that were not removed
  sweepIn,   \* time to the next sweep, while the worker runs
  luck,      \* history: in which stages chance had a part, and what its part was
  stuck      \* history: something could not be removed by the last sweep

runVars == <<program, stage, status, pc, up, box, container, left, sweepIn, luck, stuck>>

\* "right", "wrong": what it prints, before it ends by itself; "floods": prints too much.
Behaviour == {"right", "wrong", "crashes", "loops", "floods"}

\* Bound: an age is counted as long as a worker that sweeps may let it grow.
MaxAge == OrphanAge + SweepEvery
Ages == 0..MaxAge
Elder(a) == IF a < MaxAge THEN a + 1 ELSE a

\* "exited" is an exit with code 0, "failed" one with another, a kill included.
\* reason: terminationReason.
Container == [state : {"created", "running", "exited", "failed", "removed"}, age : Ages,
              reason : {"none", "timeout", "output-limit"}]
NoContainer == [state |-> "none"]

\* "timer": it fired although the program would have ended; "output": the last of it had not
\* arrived; "sweep": the directory was taken from under it.
Luck == (1..(MaxTests + 1)) \X {"timer", "output", "sweep"}

Severity == [s \in {"ACCEPTED", "WRONG_ANSWER", "TIME_LIMIT_EXCEEDED", "RUNTIME_ERROR",
                    "COMPILE_ERROR", "INTERNAL_ERROR"} |->
  CASE s = "ACCEPTED" -> 0 [] s = "WRONG_ANSWER" -> 1 [] s = "TIME_LIMIT_EXCEEDED" -> 2
    [] s = "RUNTIME_ERROR" -> 3 [] s = "COMPILE_ERROR" -> 4 [] s = "INTERNAL_ERROR" -> 5]

JudgeRunTypeOK ==
  /\ program \in Seq(Behaviour) /\ Len(program) \in 1..(MaxTests + 1)
  /\ stage \in 1..(MaxTests + 2)
  /\ status \in DOMAIN Severity
  /\ pc \in {"next", "stage", "done", "over", "dead"}
  /\ box \in SUBSET Ages /\ (\A a, b \in box : a = b)
  /\ container = NoContainer \/ container \in Container
  /\ left \in SUBSET Ages
  /\ sweepIn \in 0..SweepEvery
  /\ luck \in SUBSET Luck
  /\ {up, stuck} \subseteq BOOLEAN

\* A language without a compiler is one whose compilation is right.
JudgeRunInit ==
  /\ \E n \in 1..(MaxTests + 1) : program \in [1..n -> Behaviour]
  /\ stage = 1 /\ status = "ACCEPTED" /\ pc = "next" /\ up = TRUE
  /\ box = {0} /\ container = NoContainer /\ left = {}
  /\ sweepIn \in 0..SweepEvery
  /\ luck = {} /\ stuck = FALSE

Lucky(what) == luck' = luck \cup {<<stage, what>>}

-----------------------------------------------------------------------------
(* DockerSandboxService.run()                                              *)

\* The files of the stage are written, the container is made and the timer set.  A file
\* with a new name makes the directory young: the source, the first input.
Create ==
  /\ pc = "next" /\ stage <= Len(program) /\ box # {}
  /\ pc' = "stage"
  /\ box' = IF stage <= 2 THEN {0} ELSE box
  /\ container' = [state |-> "created", age |-> 0, reason |-> "none"]
  /\ UNCHANGED <<program, stage, status, up, left, sweepIn, luck, stuck>>

StartContainer ==
  /\ pc = "stage" /\ container.state = "created"
  /\ container' = [container EXCEPT !.state = "running"]
  /\ UNCHANGED <<program, stage, status, pc, up, box, left, sweepIn, luck, stuck>>

\* It ends by itself, or for want of the files that the sweep has taken.
ProgramEnds ==
  /\ pc = "stage" /\ container.state = "running"
  /\ \/ /\ program[stage] # "loops"
        /\ container' = [container EXCEPT !.state = IF program[stage] = "crashes" THEN "failed" ELSE "exited"]
        /\ luck' = luck
     \/ /\ box = {}
        /\ container' = [container EXCEPT !.state = "failed"]
        /\ Lucky("sweep")
  /\ UNCHANGED <<program, stage, status, pc, up, box, left, sweepIn, stuck>>

\* terminate() acts once.  What has not started, or has ended, is not killed, and the kill
\* of what runs may fail.  The excess of output may be counted after the program's end.
Terminate(reason) ==
  /\ pc = "stage" /\ container # NoContainer /\ container.reason = "none"
  /\ reason = "output-limit" => program[stage] = "floods" /\ container.state \in {"running", "exited"}
  /\ \E state \in {container.state} \cup (IF container.state = "running" THEN {"failed"} ELSE {}) :
       container' = [container EXCEPT !.reason = reason, !.state = state]
  /\ IF reason = "timeout" /\ program[stage] # "loops" THEN Lucky("timer") ELSE luck' = luck
  /\ UNCHANGED <<program, stage, status, pc, up, box, left, sweepIn, stuck>>

-----------------------------------------------------------------------------
(* JudgeRunnerService.run()                                                *)

\* The verdict of a test case from what run() returns: right is what the output at hand says.
StatusOf(c, right) ==
  IF c.reason = "output-limit" THEN "RUNTIME_ERROR"
  ELSE IF c.reason = "timeout" THEN "TIME_LIMIT_EXCEEDED"
  ELSE IF c.state # "exited" THEN "RUNTIME_ERROR"
  ELSE IF ~right THEN "WRONG_ANSWER"
  ELSE "ACCEPTED"

\* The compiler's output is not looked at, only its exit code.
StageStatus(c, right) ==
  IF stage > 1 THEN StatusOf(c, right)
  ELSE IF c.reason = "none" /\ c.state = "exited" THEN "ACCEPTED" ELSE "COMPILE_ERROR"

WorseStatus(a, b) == IF Severity[b] > Severity[a] THEN b ELSE a

Stops_Never(s) == s = "COMPILE_ERROR"

Stops(s) == s # "ACCEPTED"

\* The container that is not removed, as the removal may fail or not be reached.
Remains ==
  IF container = NoContainer \/ container.state = "removed" THEN {} ELSE {container.age}

\* wait() returns.  When all of the output is there, a flood has been noticed and the rest
\* says what it should; when a part is missing it may say anything.  The container is
\* removed, or that fails and it is left; the first failure ends the run.
Collect ==
  /\ pc = "stage" /\ container.state \in {"exited", "failed", "removed"}
  /\ \E right \in BOOLEAN :
       LET s == StageStatus(container, right)
           whole == /\ right = (program[stage] = "right")
                    /\ program[stage] = "floods" => container.reason # "none"
       IN
       /\ status' = WorseStatus(status, s)
       /\ IF Stops(s) THEN pc' = "done" /\ stage' = stage ELSE pc' = "next" /\ stage' = stage + 1
       /\ IF whole THEN luck' = luck ELSE Lucky("output")
  /\ left' \in {left, left \cup Remains}
  /\ container' = NoContainer
  /\ UNCHANGED <<program, up, box, sweepIn, stuck>>

\* The loop is over; the directory is removed, or that fails without a word.
Finish ==
  /\ pc = "done" \/ (pc = "next" /\ stage > Len(program))
  /\ pc' = "over"
  /\ box' \in {box, {}}
  /\ UNCHANGED <<program, stage, status, up, container, left, sweepIn, luck, stuck>>

\* An image that is not allowed, a file or a call of Docker that fails.
RunError ==
  /\ pc \in {"next", "stage"} /\ stage <= Len(program)
  /\ pc' = "over" /\ status' = "INTERNAL_ERROR"
  /\ left' \in {left, left \cup Remains}
  /\ container' = NoContainer
  /\ box' \in {box, {}}
  /\ UNCHANGED <<program, stage, up, sweepIn, luck, stuck>>

\* The worker's process stops, and its timers with it; its container goes on.
WorkerStops ==
  /\ up
  /\ up' = FALSE /\ sweepIn' = 0
  /\ pc' = IF pc = "over" THEN pc ELSE "dead"
  /\ left' = left \cup Remains
  /\ container' = NoContainer
  /\ UNCHANGED <<program, stage, status, box, luck, stuck>>

-----------------------------------------------------------------------------
(* SandboxCleanupService.sweep(), and time.                                *)

FirstSweep_Later == SweepEvery

\* onModuleInit() sweeps before it waits.
FirstSweep == 0

\* It does not know of the run that was cut off.
WorkerStarts ==
  /\ ~up
  /\ up' = TRUE /\ sweepIn' = FirstSweep
  /\ UNCHANGED <<program, stage, status, pc, box, container, left, luck, stuck>>

Spared(a) == a < OrphanAge

\* What is old enough is removed, or that fails; a directory in use ages like any other, and
\* a container that is removed while it runs has ended.
Sweep ==
  /\ up /\ sweepIn = 0
  /\ sweepIn' = SweepEvery
  /\ left' \in {S \in SUBSET left : \A a \in left \ S : ~Spared(a)}
  /\ box' \in {S \in SUBSET box : \A a \in box \ S : ~Spared(a)}
  /\ \/ container' = container
     \/ /\ container # NoContainer /\ ~Spared(container.age)
        /\ container' = [container EXCEPT !.state = "removed"]
  /\ stuck' = (\/ \E a \in left' \cup box' : ~Spared(a)
               \/ container' # NoContainer /\ container'.state # "removed" /\ ~Spared(container'.age))
  /\ UNCHANGED <<program, stage, status, pc, up, luck>>

\* A timer is faster than OrphanAge: only a container that nobody will stop gets so old.
\* While the worker is down, nothing but age happens.
Advance ==
  /\ up => sweepIn > 0
  /\ pc = "next" => box # {} /\ stage <= Len(program) /\ \A a \in box : a < stage
  /\ pc = "stage" => container.age = 0 \/ (container.reason # "none" /\ container.state = "running")
  /\ pc # "done"
  /\ sweepIn' = IF up THEN sweepIn - 1 ELSE 0
  /\ box' = {Elder(a) : a \in box}
  /\ left' = {Elder(a) : a \in left}
  /\ container' = IF container = NoContainer THEN container ELSE [container EXCEPT !.age = Elder(@)]
  /\ UNCHANGED <<program, stage, status, pc, up, luck, stuck>>

JudgeRunNext ==
  \/ Create \/ StartContainer \/ ProgramEnds \/ Terminate("timeout") \/ Terminate("output-limit")
  \/ Collect \/ Finish \/ RunError \/ WorkerStops \/ WorkerStarts \/ Sweep \/ Advance

JudgeRunSpec == JudgeRunInit /\ [][JudgeRunNext]_runVars

-----------------------------------------------------------------------------
(* Properties.                                                             *)

\* What a stage deserves.
Deserves(i) ==
  CASE program[i] = "right" \/ (i = 1 /\ program[i] = "wrong") -> "ACCEPTED"
    [] program[i] # "right" /\ i = 1 /\ program[i] # "wrong" -> "COMPILE_ERROR"
    [] program[i] = "wrong" /\ i > 1 -> "WRONG_ANSWER"
    [] program[i] = "loops" /\ i > 1 -> "TIME_LIMIT_EXCEEDED"
    [] program[i] \in {"crashes", "floods"} /\ i > 1 -> "RUNTIME_ERROR"

\* A stage is passed that deserves it, or one of which the last output was missing: that of
\* a program that ends by itself and in order, never of one that crashes or loops.
PassesEarned(i) ==
  Deserves(i) = "ACCEPTED" \/ (<<i, "output">> \in luck /\ program[i] \in {"wrong", "floods"})

\* The stage that ends the run gets what it deserves, or what chance may turn it into.
EndEarned(i) ==
  \/ status = Deserves(i)
  \/ <<i, "timer">> \in luck /\ program[i] # "loops" /\ status \in {"TIME_LIMIT_EXCEEDED", "COMPILE_ERROR"}
  \/ <<i, "output">> \in luck /\ program[i] \in {"right", "floods"} /\ status = "WRONG_ANSWER"
  \/ <<i, "sweep">> \in luck /\ status \in {"RUNTIME_ERROR", "COMPILE_ERROR"}

\* The verdict is that of the first stage that does not pass, whatever races in it: with the
\* timer, with the last of the output, with the sweep.  A program that crashes or loops is
\* never accepted.  (Without test cases nothing fails, and the verdict is ACCEPTED.)
VerdictIsEarned ==
  pc = "over" /\ status # "INTERNAL_ERROR" =>
    /\ \A i \in DOMAIN program : i < stage => PassesEarned(i)
    /\ IF stage <= Len(program) THEN status # "ACCEPTED" /\ EndEarned(stage) ELSE status = "ACCEPTED"

\* While a worker runs and has swept, nothing that was left behind is older than the sweep
\* takes to find it, however long no worker ran before: not even a container that was started
\* after its timer had fired, or that could not be killed - unless the last sweep could not
\* remove something.
LeftoversAreSwept ==
  up /\ sweepIn > 0 /\ ~stuck =>
    /\ \A a \in left \cup box : a < OrphanAge + SweepEvery
    /\ container # NoContainer /\ container.state # "removed" => container.age < OrphanAge + SweepEvery
=============================================================================
