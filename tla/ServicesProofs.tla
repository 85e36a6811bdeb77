--------------------------- MODULE ServicesProofs ---------------------------
(***************************************************************************)
(* Theorems about the five modules that MCServices checks side by side:    *)
(* JudgeRun, DeployAgent, ProblemSets, SolverRating and LiveVerdict, each  *)
(* for any values of its constants.  They share no state and no lemma.     *)
(***************************************************************************)
EXTENDS MCServices, FiniteSetTheorems, TLAPS

-----------------------------------------------------------------------------
(***************************************************************************)
(* JudgeRun.                                                               *)
(***************************************************************************)

\* The parts of the type invariant that the other arguments use.
LEMMA RunFacts ==
  ASSUME JudgeRunTypeOK
  PROVE  /\ Len(program) \in Nat /\ Len(program) >= 1 /\ DOMAIN program = 1..Len(program)
         /\ \A i \in 1..Len(program) : program[i] \in Behaviour
         /\ Len(program) <= MaxTests + 1 /\ MaxTests \in Nat
         /\ stage \in Nat /\ stage >= 1 /\ sweepIn \in Nat /\ sweepIn <= SweepEvery
         /\ OrphanAge \in Nat /\ OrphanAge >= 2 /\ SweepEvery \in Nat /\ SweepEvery >= 1
         /\ \A a \in left \cup box : a \in Ages
         /\ container # NoContainer => container \in Container /\ container.age \in Ages
  BY JudgeRunAssumption DEF JudgeRunTypeOK, Container

LEMMA AgesAre ==
  /\ MaxAge \in Nat /\ 0 \in Ages /\ MaxAge = OrphanAge + SweepEvery
  /\ \A a \in Ages : a \in Nat /\ Elder(a) \in Ages /\ (a < MaxAge => Elder(a) = a + 1)
  BY JudgeRunAssumption DEF MaxAge, Ages, Elder

\* A container as its fields, and what the actions' EXCEPTs make of it.
LEMMA ContainerMade ==
  ASSUME NEW k \in Container
  PROVE  /\ k # NoContainer /\ k.state \in {"created", "running", "exited", "failed", "removed"}
         /\ k.age \in Ages /\ k.reason \in {"none", "timeout", "output-limit"}
  BY DEF Container, NoContainer

LEMMA StateSet ==
  ASSUME NEW k \in Container, NEW st \in {"created", "running", "exited", "failed", "removed"},
         NEW c, c = [k EXCEPT !.state = st]
  PROVE  c \in Container /\ c.state = st /\ c.reason = k.reason /\ c.age = k.age
  BY DEF Container

LEMMA AgeSet ==
  ASSUME NEW k \in Container, NEW n \in Ages, NEW c, c = [k EXCEPT !.age = n]
  PROVE  c \in Container /\ c.state = k.state /\ c.reason = k.reason /\ c.age = n
  BY DEF Container

Verdict == {"ACCEPTED", "WRONG_ANSWER", "TIME_LIMIT_EXCEEDED", "RUNTIME_ERROR", "COMPILE_ERROR"}

LEMMA StatusHas ==
  /\ Verdict \subseteq DOMAIN Severity /\ "INTERNAL_ERROR" \in DOMAIN Severity
  /\ \A c, right : StageStatus(c, right) \in Verdict
  /\ \A s \in Verdict : WorseStatus("ACCEPTED", s) = s
  BY DEF Verdict, Severity, StageStatus, StatusOf, WorseStatus

-----------------------------------------------------------------------------
(* The invariant.                                                          *)

\* Where the runner is: a stage has its container, between stages there is none.
Placed ==
  /\ pc = "stage" <=> container # NoContainer
  /\ pc \in {"stage", "done"} => stage <= Len(program)
  /\ stage <= Len(program) + 1

\* The bound on an age: what the last sweep spared, and the time since.
Young(a) == a + sweepIn < OrphanAge + SweepEvery

\* While a worker that has swept runs, what was left behind ages until its next sweep.
AgesBounded ==
  up /\ sweepIn > 0 /\ ~stuck =>
    /\ \A a \in left \cup box : Young(a)
    /\ container # NoContainer /\ container.state # "removed" => Young(container.age)

\* A container ends as its program behaves, or as the luck of its stage has it; one that
\* nobody has stopped is too young for the sweep.
EndsAsIs ==
  pc = "stage" =>
    /\ container.reason = "none" => container.age <= 1 /\ container.state # "removed"
    /\ container.state = "exited" => program[stage] \in {"right", "wrong", "floods"}
    /\ container.state = "failed" /\ container.reason = "none" =>
         program[stage] = "crashes" \/ <<stage, "sweep">> \in luck
    /\ container.reason = "timeout" => program[stage] = "loops" \/ <<stage, "timer">> \in luck
    /\ container.reason = "output-limit" => program[stage] = "floods"

\* The stages before the one in progress have been passed, and the one that was not decides.
Passed == \A i \in 1..Len(program) : i < stage => PassesEarned(i)
Decided ==
  /\ pc \in {"next", "stage"} => status = "ACCEPTED" /\ Passed
  /\ pc = "done" => status # "ACCEPTED" /\ Passed /\ EndEarned(stage)
  /\ pc = "over" /\ status # "INTERNAL_ERROR" =>
       Passed /\ IF stage <= Len(program) THEN status # "ACCEPTED" /\ EndEarned(stage) ELSE status = "ACCEPTED"

RunInv == JudgeRunTypeOK /\ Placed /\ AgesBounded /\ EndsAsIs /\ Decided

LEMMA RunInvInit == JudgeRunInit => RunInv
<1> SUFFICES ASSUME JudgeRunInit PROVE RunInv
  OBVIOUS
<1>1. PICK n \in 1..(MaxTests + 1) : program \in [1..n -> Behaviour]
  BY DEF JudgeRunInit
<1>2. program \in Seq(Behaviour) /\ Len(program) = n /\ n \in Nat /\ n >= 1
  BY <1>1, JudgeRunAssumption
<1>3. JudgeRunTypeOK
  <2>1. stage \in 1..(MaxTests + 2) /\ Len(program) \in 1..(MaxTests + 1)
    BY <1>2, JudgeRunAssumption DEF JudgeRunInit
  <2>2. status \in DOMAIN Severity
    BY StatusHas DEF JudgeRunInit, Verdict
  <2> QED
    BY <1>2, AgesAre, <2>1, <2>2 DEF JudgeRunInit, JudgeRunTypeOK
<1>4. Placed /\ EndsAsIs /\ Decided
  BY <1>2 DEF JudgeRunInit, Placed, EndsAsIs, Decided, Passed
<1>5. AgesBounded
  BY JudgeRunAssumption DEF JudgeRunInit, AgesBounded, Young
<1> QED
  BY <1>3, <1>4, <1>5 DEF RunInv

LEMMA RemainsYoung ==
  ASSUME JudgeRunTypeOK, AgesBounded
  PROVE  /\ Remains \subseteq Ages
         /\ up /\ sweepIn > 0 /\ ~stuck => \A a \in Remains : Young(a)
  BY RunFacts DEF Remains, AgesBounded

\* What has been earned stays earned as luck grows.
LEMMA EarnedStays ==
  ASSUME UNCHANGED <<program, stage, status>>, luck \subseteq luck'
  PROVE  (Passed => Passed') /\ (EndEarned(stage) => EndEarned(stage)')
<1>1. \A i : PassesEarned(i) => PassesEarned(i)'
  BY DEF PassesEarned, Deserves
<1>2. EndEarned(stage) => EndEarned(stage)'
  BY DEF EndEarned, Deserves
<1>3. Passed => Passed'
  BY <1>1 DEF Passed
<1> QED
  BY <1>2, <1>3

\* A step of the container alone.
LEMMA ContainerStep ==
  ASSUME RunInv, pc = "stage", NEW k \in Container, container' = k, k.age = container.age,
         container.state = "removed" => k.state = "removed",
         UNCHANGED <<program, stage, status, pc, up, box, left, sweepIn, stuck>>,
         luck' \in SUBSET Luck, luck \subseteq luck', EndsAsIs'
  PROVE  RunInv'
<1>1. k # NoContainer /\ container # NoContainer
  BY ContainerMade DEF RunInv, Placed
<1>2. JudgeRunTypeOK'
  BY DEF RunInv, JudgeRunTypeOK
<1>3. Placed'
  BY <1>1 DEF RunInv, Placed
<1>4. AgesBounded'
  BY <1>1 DEF RunInv, AgesBounded, Young
<1>5. Decided'
  BY EarnedStays DEF RunInv, Decided
<1> QED
  BY <1>2, <1>3, <1>4, <1>5 DEF RunInv

\* A step in which the run stands still: only the sweep and time.
LEMMA StandsStill ==
  ASSUME RunInv, UNCHANGED <<program, stage, status, pc, luck>>, JudgeRunTypeOK', AgesBounded',
         container # NoContainer <=> container' # NoContainer, EndsAsIs'
  PROVE  RunInv'
<1>1. Placed'
  BY DEF RunInv, Placed
<1>2. Decided'
  BY EarnedStays DEF RunInv, Decided
<1> QED
  BY <1>1, <1>2 DEF RunInv

LEMMA LuckHas ==
  ASSUME JudgeRunTypeOK, Placed, pc = "stage", NEW what \in {"timer", "output", "sweep"}, Lucky(what)
  PROVE  luck' \in SUBSET Luck /\ luck \subseteq luck' /\ <<stage, what>> \in luck'
<1>1. stage \in 1..(MaxTests + 1)
  BY RunFacts DEF Placed
<1> QED
  BY <1>1 DEF Lucky, Luck, JudgeRunTypeOK

-----------------------------------------------------------------------------
(* The steps.                                                              *)

LEMMA CreateStep == RunInv /\ Create => RunInv'
<1> SUFFICES ASSUME RunInv, Create PROVE RunInv'
  OBVIOUS
<1> USE DEF RunInv
<1>1. PICK k : k = [state |-> "created", age |-> 0, reason |-> "none"]
  OBVIOUS
<1>2. k \in Container /\ k # NoContainer /\ k.age = 0 /\ k.state = "created" /\ k.reason = "none" /\ container' = k
  BY <1>1, AgesAre DEF Create, Container, NoContainer
<1>3. /\ pc = "next" /\ stage <= Len(program) /\ pc' = "stage" /\ box' \in {box, {0}}
      /\ UNCHANGED <<program, stage, status, up, left, sweepIn, luck, stuck>>
  BY DEF Create
<1>4. JudgeRunTypeOK'
  BY <1>2, <1>3, AgesAre DEF JudgeRunTypeOK
<1>5. Placed'
  BY <1>2, <1>3 DEF Placed
<1>6. AgesBounded'
  <2>1. Young(0)
    BY RunFacts DEF Young
  <2> QED
    BY <1>2, <1>3, <2>1 DEF AgesBounded, Young
<1>7. EndsAsIs'
  BY <1>2, <1>3 DEF EndsAsIs
<1>8. Decided'
  BY <1>3, EarnedStays DEF Decided
<1> QED
  BY <1>4, <1>5, <1>6, <1>7, <1>8

LEMMA StartContainerStep == RunInv /\ StartContainer => RunInv'
<1> SUFFICES ASSUME RunInv, StartContainer PROVE RunInv'
  OBVIOUS
<1>1. container \in Container
  BY RunFacts DEF RunInv, StartContainer, Placed
<1>2. PICK k : k = [container EXCEPT !.state = "running"]
  OBVIOUS
<1>3. k \in Container /\ k.state = "running" /\ k.reason = container.reason /\ k.age = container.age /\ container' = k
  BY <1>1, <1>2, StateSet DEF StartContainer
<1>4. EndsAsIs'
  BY <1>3 DEF StartContainer, RunInv, EndsAsIs
<1> QED
  BY <1>3, <1>4, ContainerStep DEF StartContainer, RunInv, JudgeRunTypeOK

LEMMA ProgramEndsStep == RunInv /\ ProgramEnds => RunInv'
<1> SUFFICES ASSUME RunInv, ProgramEnds PROVE RunInv'
  OBVIOUS
<1>1. /\ container \in Container /\ pc = "stage" /\ container.state = "running" /\ program[stage] \in Behaviour
      /\ UNCHANGED <<program, stage, status, pc, up, box, left, sweepIn, stuck>>
  BY RunFacts DEF RunInv, ProgramEnds, Placed
<1>2. PICK st \in {"exited", "failed"} :
        /\ container' = [container EXCEPT !.state = st]
        /\ \/ /\ program[stage] # "loops" /\ luck' = luck
              /\ st = IF program[stage] = "crashes" THEN "failed" ELSE "exited"
           \/ st = "failed" /\ Lucky("sweep")
  BY DEF ProgramEnds
<1>3. PICK k : k = [container EXCEPT !.state = st]
  OBVIOUS
<1>4. k \in Container /\ k.state = st /\ k.reason = container.reason /\ k.age = container.age /\ container' = k
  BY <1>1, <1>2, <1>3, StateSet
<1>5. /\ luck' \in SUBSET Luck /\ luck \subseteq luck'
      /\ st = "failed" => program[stage] = "crashes" \/ <<stage, "sweep">> \in luck'
      /\ st = "exited" => program[stage] \in {"right", "wrong", "floods"}
  <2>1. CASE luck' = luck /\ program[stage] # "loops" /\ st = IF program[stage] = "crashes" THEN "failed" ELSE "exited"
    BY <1>1, <2>1 DEF RunInv, JudgeRunTypeOK, Behaviour
  <2>2. CASE st = "failed" /\ Lucky("sweep")
    BY <1>1, <2>2, LuckHas DEF RunInv
  <2> QED
    BY <1>2, <2>1, <2>2
<1>6. EndsAsIs'
  BY <1>1, <1>4, <1>5 DEF RunInv, EndsAsIs
<1> QED
  BY <1>1, <1>4, <1>5, <1>6, ContainerStep

LEMMA TerminateStep ==
  ASSUME RunInv, NEW reason \in {"timeout", "output-limit"}, Terminate(reason)
  PROVE  RunInv'
<1>1. /\ container \in Container /\ pc = "stage" /\ container.reason = "none"
      /\ reason = "output-limit" => program[stage] = "floods"
      /\ UNCHANGED <<program, stage, status, pc, up, box, left, sweepIn, stuck>>
  BY RunFacts DEF RunInv, Terminate, Placed
<1>2. PICK st \in {container.state} \cup (IF container.state = "running" THEN {"failed"} ELSE {}) :
        container' = [container EXCEPT !.reason = reason, !.state = st]
  BY Zenon DEF Terminate
<1>3. PICK k : k = [container EXCEPT !.reason = reason, !.state = st]
  OBVIOUS
<1>4. k \in Container /\ k.state = st /\ k.reason = reason /\ k.age = container.age /\ container' = k
  <2>1. st \in {"created", "running", "exited", "failed", "removed"}
    BY <1>1, <1>2, ContainerMade
  <2>2. PICK w : w = container
    OBVIOUS
  <2>3. k = [w EXCEPT !.reason = reason, !.state = st] /\ w \in Container
    BY <1>1, <1>3, <2>2
  <2>4. k \in Container /\ k.state = st /\ k.reason = reason /\ k.age = w.age
    BY <2>1, <2>3 DEF Container
  <2> QED
    BY <1>2, <1>3, <2>2, <2>4
<1>5. /\ luck' \in SUBSET Luck /\ luck \subseteq luck'
      /\ reason = "timeout" => program[stage] = "loops" \/ <<stage, "timer">> \in luck'
  <2>1. CASE luck' = luck /\ (reason = "timeout" => program[stage] = "loops")
    BY <2>1 DEF RunInv, JudgeRunTypeOK
  <2>2. CASE Lucky("timer")
    BY <1>1, <2>2, LuckHas DEF RunInv
  <2> QED
    BY <2>1, <2>2 DEF Terminate
<1>6. EndsAsIs'
  BY <1>1, <1>2, <1>4, <1>5 DEF RunInv, EndsAsIs
<1> QED
  BY <1>1, <1>2, <1>4, <1>5, <1>6, ContainerStep

\* What a stage comes to: it is passed or not, by what it deserves or by the luck it had.
LEMMA StageEarns ==
  ASSUME JudgeRunTypeOK, Placed, EndsAsIs, pc = "stage", container.state \in {"exited", "failed", "removed"},
         NEW right \in BOOLEAN, NEW s, s = StageStatus(container, right), UNCHANGED program,
         NEW whole, whole <=> /\ right = (program[stage] = "right")
                              /\ program[stage] = "floods" => container.reason # "none",
         luck \subseteq luck', ~whole => <<stage, "output">> \in luck', NEW n, n = stage
  PROVE  /\ s = "ACCEPTED" => PassesEarned(n)'
         /\ s # "ACCEPTED" /\ stage' = n /\ status' = s => EndEarned(n)'
<1>1. container \in Container /\ program[n] \in Behaviour /\ container.reason \in {"none", "timeout", "output-limit"}
  BY RunFacts, ContainerMade DEF Placed
<1>2. /\ container.state = "exited" => program[n] \in {"right", "wrong", "floods"}
      /\ container.state # "exited" /\ container.reason = "none" =>
           program[n] = "crashes" \/ <<n, "sweep">> \in luck'
      /\ container.reason = "timeout" => program[n] = "loops" \/ <<n, "timer">> \in luck'
      /\ container.reason = "output-limit" => program[n] = "floods"
  BY DEF EndsAsIs
<1>3. program' = program /\ (program[n] = "floods" /\ container.reason = "none" => <<n, "output">> \in luck')
      /\ (right # (program[n] = "right") => <<n, "output">> \in luck')
  OBVIOUS
<1>4. CASE n = 1
  <2>1. s = IF container.reason = "none" /\ container.state = "exited" THEN "ACCEPTED" ELSE "COMPILE_ERROR"
    BY <1>4 DEF StageStatus
  <2>2. CASE container.reason = "none" /\ container.state = "exited"
    BY <1>2, <1>3, <1>4, <2>1, <2>2 DEF PassesEarned, Deserves
  <2>3. CASE ~(container.reason = "none" /\ container.state = "exited")
    <3>1. \/ program[n] \in {"crashes", "loops", "floods"}
          \/ (<<n, "timer">> \in luck' /\ program[n] # "loops") \/ <<n, "sweep">> \in luck'
      BY <1>1, <1>2, <2>3
    <3>2. program[n] \in {"crashes", "loops", "floods"} => Deserves(n)' = "COMPILE_ERROR"
      BY <1>3, <1>4 DEF Deserves
    <3>3. s = "COMPILE_ERROR"
      BY <2>1, <2>3
    <3> QED
      BY <1>3, <3>1, <3>2, <3>3 DEF EndEarned
  <2> QED
    BY <2>2, <2>3
<1>5. CASE n > 1
  <2>1. s = StatusOf(container, right)
    BY <1>5 DEF StageStatus
  <2>2. CASE container.reason = "output-limit"
    <3>1. s = "RUNTIME_ERROR" /\ Deserves(n)' = "RUNTIME_ERROR"
      BY <1>2, <1>3, <1>5, <2>1, <2>2 DEF StatusOf, Deserves
    <3> QED
      BY <3>1 DEF EndEarned
  <2>3. CASE container.reason = "timeout"
    <3>1. s = "TIME_LIMIT_EXCEEDED" /\ (program[n] = "loops" => Deserves(n)' = "TIME_LIMIT_EXCEEDED")
      BY <1>3, <1>5, <2>1, <2>3 DEF StatusOf, Deserves
    <3> QED
      BY <1>2, <1>3, <2>3, <3>1 DEF EndEarned
  <2>4. CASE container.reason = "none" /\ container.state # "exited"
    <3>1. s = "RUNTIME_ERROR" /\ (program[n] = "crashes" => Deserves(n)' = "RUNTIME_ERROR")
      BY <1>3, <1>5, <2>1, <2>4 DEF StatusOf, Deserves
    <3> QED
      BY <1>2, <2>4, <3>1 DEF EndEarned
  <2>5. CASE container.reason = "none" /\ container.state = "exited" /\ ~right
    <3>1. s = "WRONG_ANSWER" /\ (program[n] = "wrong" => Deserves(n)' = "WRONG_ANSWER")
      BY <1>3, <1>5, <2>1, <2>5 DEF StatusOf, Deserves
    <3> QED
      BY <1>2, <1>3, <2>5, <3>1 DEF EndEarned
  <2>6. CASE container.reason = "none" /\ container.state = "exited" /\ right
    <3>1. s = "ACCEPTED" /\ (program[n] = "right" => Deserves(n)' = "ACCEPTED")
      BY <1>3, <1>5, <2>1, <2>6 DEF StatusOf, Deserves
    <3> QED
      BY <1>2, <1>3, <2>6, <3>1 DEF PassesEarned
  <2> QED
    BY <1>1, <2>2, <2>3, <2>4, <2>5, <2>6
<1> QED
  BY <1>4, <1>5, RunFacts

LEMMA CollectStep == RunInv /\ Collect => RunInv'
<1> SUFFICES ASSUME RunInv, Collect PROVE RunInv'
  OBVIOUS
<1> USE DEF RunInv
<1>1. /\ pc = "stage" /\ container.state \in {"exited", "failed", "removed"}
      /\ left' \in {left, left \cup Remains} /\ container' = NoContainer
      /\ UNCHANGED <<program, up, box, sweepIn, stuck>>
  BY DEF Collect
<1>2. PICK right \in BOOLEAN :
        LET s == StageStatus(container, right)
            whole == /\ right = (program[stage] = "right")
                     /\ program[stage] = "floods" => container.reason # "none"
        IN  /\ status' = WorseStatus(status, s)
            /\ IF Stops(s) THEN pc' = "done" /\ stage' = stage ELSE pc' = "next" /\ stage' = stage + 1
            /\ IF whole THEN luck' = luck ELSE Lucky("output")
  BY DEF Collect
<1>3. PICK s, whole, n : /\ s = StageStatus(container, right) /\ n = stage
                         /\ whole = (/\ right = (program[stage] = "right")
                                     /\ program[stage] = "floods" => container.reason # "none")
  OBVIOUS
<1>4. s \in Verdict /\ status = "ACCEPTED" /\ Passed /\ status' = s
  BY <1>1, <1>2, <1>3, StatusHas DEF Decided
<1>5. n \in 1..Len(program) /\ Len(program) <= MaxTests + 1 /\ MaxTests \in Nat /\ Len(program) \in Nat
  BY <1>1, <1>3, RunFacts DEF Placed
<1>6. \/ s # "ACCEPTED" /\ pc' = "done" /\ stage' = n
      \/ s = "ACCEPTED" /\ pc' = "next" /\ stage' = n + 1
  BY <1>2, <1>3 DEF Stops
<1>7. luck' \in SUBSET Luck /\ luck \subseteq luck' /\ (~whole => <<stage, "output">> \in luck')
  <2>1. CASE Lucky("output")
    BY <1>1, <2>1, LuckHas
  <2>2. CASE luck' = luck /\ whole
    BY <2>2 DEF JudgeRunTypeOK
  <2> QED
    BY <1>2, <1>3, <2>1, <2>2
<1>8. /\ s = "ACCEPTED" => PassesEarned(n)'
      /\ s # "ACCEPTED" => EndEarned(n)'
  BY <1>1, <1>3, <1>4, <1>6, <1>7, StageEarns
<1>9. \A i \in 1..Len(program) : i < n => PassesEarned(i)'
  BY <1>1, <1>3, <1>4, <1>7 DEF Passed, PassesEarned, Deserves
<1>10. Decided'
  <2>1. CASE s # "ACCEPTED" /\ pc' = "done" /\ stage' = n
    <3>1. Passed'
      BY <1>1, <1>9, <2>1 DEF Passed
    <3>2. EndEarned(stage)'
      BY <1>8, <2>1 DEF EndEarned, Deserves
    <3> QED
      BY <1>4, <2>1, <3>1, <3>2 DEF Decided
  <2>2. CASE s = "ACCEPTED" /\ pc' = "next" /\ stage' = n + 1
    <3>1. Passed'
      BY <1>1, <1>5, <1>8, <1>9, <2>2 DEF Passed
    <3> QED
      BY <1>4, <2>2, <3>1 DEF Decided
  <2> QED
    BY <1>6, <2>1, <2>2
<1>11. JudgeRunTypeOK'
  <2>1. stage' \in 1..(MaxTests + 2)
    BY <1>5, <1>6
  <2>2. left' \in SUBSET Ages /\ status' \in DOMAIN Severity
    BY <1>1, <1>4, RemainsYoung, StatusHas DEF JudgeRunTypeOK
  <2> QED
    BY <1>1, <1>6, <1>7, <2>1, <2>2 DEF JudgeRunTypeOK
<1>12. Placed' /\ EndsAsIs'
  BY <1>1, <1>5, <1>6 DEF Placed, EndsAsIs
<1>13. AgesBounded'
  BY <1>1, RemainsYoung DEF AgesBounded, Young
<1> QED
  BY <1>10, <1>11, <1>12, <1>13

LEMMA FinishStep == RunInv /\ Finish => RunInv'
<1> SUFFICES ASSUME RunInv, Finish PROVE RunInv'
  OBVIOUS
<1> USE DEF RunInv
<1>1. /\ pc = "done" \/ (pc = "next" /\ stage > Len(program))
      /\ pc' = "over" /\ box' \in {box, {}}
      /\ UNCHANGED <<program, stage, status, up, container, left, sweepIn, luck, stuck>>
  BY DEF Finish
<1>2. JudgeRunTypeOK' /\ EndsAsIs' /\ AgesBounded'
  BY <1>1 DEF JudgeRunTypeOK, EndsAsIs, AgesBounded, Young
<1>3. Placed'
  BY <1>1 DEF Placed
<1>4. Decided'
  BY <1>1, EarnedStays, RunFacts DEF Decided, Placed
<1> QED
  BY <1>2, <1>3, <1>4

LEMMA CutStep == RunInv /\ (RunError \/ WorkerStops) => RunInv'
<1> SUFFICES ASSUME RunInv, RunError \/ WorkerStops PROVE RunInv'
  OBVIOUS
<1> USE DEF RunInv
<1>1. /\ left' \in {left, left \cup Remains} /\ container' = NoContainer /\ box' \in {box, {}}
      /\ UNCHANGED <<program, stage, luck, stuck>>
      /\ \/ pc' = "over" /\ status' = "INTERNAL_ERROR" /\ UNCHANGED <<up, sweepIn>>
         \/ pc' \in {"over", "dead"} /\ (pc' = "over" => pc = "over") /\ status' = status /\ ~up' /\ sweepIn' = 0 /\ up' = FALSE
  BY DEF RunError, WorkerStops
<1>2. JudgeRunTypeOK'
  <2>1. left' \in SUBSET Ages /\ status' \in DOMAIN Severity
    BY <1>1, RemainsYoung, StatusHas DEF JudgeRunTypeOK
  <2>2. sweepIn' \in 0..SweepEvery /\ up' \in BOOLEAN
    <3>1. sweepIn \in 0..SweepEvery /\ up \in BOOLEAN /\ 0 \in 0..SweepEvery
      BY JudgeRunAssumption DEF JudgeRunTypeOK
    <3> QED
      BY <1>1, <3>1
  <2> QED
    BY <1>1, <2>1, <2>2 DEF JudgeRunTypeOK
<1>3. Placed' /\ EndsAsIs'
  BY <1>1 DEF Placed, EndsAsIs
<1>4. AgesBounded'
  BY <1>1, RemainsYoung DEF AgesBounded, Young
<1>5. Decided'
  BY <1>1, EarnedStays DEF Decided
<1> QED
  BY <1>2, <1>3, <1>4, <1>5

LEMMA WorkerStartsStep == RunInv /\ WorkerStarts => RunInv'
<1> SUFFICES ASSUME RunInv, WorkerStarts PROVE RunInv'
  OBVIOUS
<1>1. /\ up' = TRUE /\ sweepIn' = 0 /\ UNCHANGED <<program, stage, status, pc, box, container, left, luck, stuck>>
  BY DEF WorkerStarts, FirstSweep
<1>2. JudgeRunTypeOK'
  BY <1>1, RunFacts DEF RunInv, JudgeRunTypeOK
<1>3. AgesBounded' /\ EndsAsIs'
  BY <1>1 DEF RunInv, AgesBounded, EndsAsIs
<1> QED
  BY <1>1, <1>2, <1>3, StandsStill

LEMMA SweepStep == RunInv /\ Sweep => RunInv'
<1> SUFFICES ASSUME RunInv, Sweep PROVE RunInv'
  OBVIOUS
<1>1. /\ sweepIn' = SweepEvery /\ left' \subseteq left /\ box' \subseteq box
      /\ UNCHANGED <<program, stage, status, pc, up, luck>>
  BY DEF Sweep
<1>2. /\ stuck' \in BOOLEAN
      /\ ~stuck' => /\ \A a \in left' \cup box' : Spared(a)
                    /\ container' # NoContainer /\ container'.state # "removed" => Spared(container'.age)
  BY DEF Sweep
<1>3. /\ container # NoContainer <=> container' # NoContainer
      /\ container' # NoContainer =>
           /\ container' \in Container /\ container'.age = container.age /\ container'.reason = container.reason
           /\ container' = container \/ (container'.state = "removed" /\ ~Spared(container.age))
  <2>1. CASE container' = container
    BY <2>1, RunFacts DEF RunInv
  <2>2. CASE container # NoContainer /\ ~Spared(container.age) /\ container' = [container EXCEPT !.state = "removed"]
    <3>1. PICK k : k = [container EXCEPT !.state = "removed"]
      OBVIOUS
    <3>2. k \in Container /\ k.state = "removed" /\ k.reason = container.reason /\ k.age = container.age
      BY <2>2, <3>1, RunFacts, StateSet DEF RunInv
    <3> QED
      BY <2>2, <3>1, <3>2, ContainerMade
  <2> QED
    BY <2>1, <2>2 DEF Sweep
<1>4. JudgeRunTypeOK'
  BY <1>1, <1>2, <1>3, RunFacts DEF RunInv, JudgeRunTypeOK
<1>5. AgesBounded'
  <2>1. ASSUME NEW a \in Ages, Spared(a) PROVE a + sweepIn' < OrphanAge + SweepEvery
    <3>1. a \in Nat
      BY AgesAre
    <3> QED
      BY <1>1, <2>1, <3>1, JudgeRunAssumption DEF Spared
  <2>2. /\ \A a \in left' \cup box' : a \in Ages
        /\ container' # NoContainer => container'.age \in Ages
    BY <1>1, <1>3, RunFacts, ContainerMade DEF RunInv
  <2> QED
    BY <1>2, <2>1, <2>2 DEF AgesBounded, Young
<1>6. EndsAsIs'
  <2>1. ASSUME pc = "stage", container.reason = "none" PROVE container' = container
    <3>1. container # NoContainer /\ container.age \in Nat /\ container.age <= 1
      BY <2>1, RunFacts, AgesAre DEF RunInv, Placed, EndsAsIs
    <3>2. Spared(container.age)
      BY <3>1, JudgeRunAssumption DEF Spared
    <3> QED
      BY <1>3, <3>1, <3>2
  <2> QED
    BY <1>1, <1>3, <2>1 DEF RunInv, EndsAsIs, Placed
<1> QED
  BY <1>1, <1>3, <1>4, <1>5, <1>6, StandsStill

LEMMA AdvanceStep == RunInv /\ Advance => RunInv'
<1> SUFFICES ASSUME RunInv, Advance PROVE RunInv'
  OBVIOUS
<1>1. /\ up => sweepIn > 0
      /\ pc = "stage" => container.age = 0 \/ (container.reason # "none" /\ container.state = "running")
      /\ sweepIn' = IF up THEN sweepIn - 1 ELSE 0
      /\ box' = {Elder(a) : a \in box} /\ left' = {Elder(a) : a \in left}
      /\ UNCHANGED <<program, stage, status, pc, up, luck, stuck>>
  BY DEF Advance
<1>2. /\ container = NoContainer => container' = NoContainer
      /\ container # NoContainer => /\ container' \in Container /\ container' # NoContainer
                                    /\ container'.age = Elder(container.age)
                                    /\ container'.state = container.state /\ container'.reason = container.reason
  <2>1. CASE container = NoContainer
    BY <2>1 DEF Advance
  <2>2. CASE container # NoContainer
    <3>1. PICK m : m = Elder(container.age)
      OBVIOUS
    <3>2. container' = [container EXCEPT !.age = m]
      BY <2>2, <3>1 DEF Advance
    <3>3. PICK k : k = [container EXCEPT !.age = m]
      OBVIOUS
    <3>4. container \in Container /\ m \in Ages
      BY <2>2, <3>1, RunFacts, AgesAre DEF RunInv
    <3>5. k \in Container /\ k.state = container.state /\ k.reason = container.reason /\ k.age = m
      BY <3>3, <3>4, AgeSet
    <3> QED
      BY <2>2, <3>1, <3>2, <3>3, <3>5, ContainerMade
  <2> QED
    BY <2>1, <2>2
<1>3. JudgeRunTypeOK'
  <2>1. \A a \in left' \cup box' : a \in Ages
    BY <1>1, RunFacts, AgesAre DEF RunInv
  <2>2. \A a, b \in box' : a = b
    BY <1>1 DEF RunInv, JudgeRunTypeOK
  <2>3. sweepIn' \in 0..SweepEvery
    BY <1>1, RunFacts DEF RunInv, JudgeRunTypeOK
  <2> QED
    BY <1>1, <1>2, <2>1, <2>2, <2>3 DEF RunInv, JudgeRunTypeOK
<1>4. AgesBounded'
  <2> SUFFICES ASSUME up', sweepIn' > 0, ~stuck'
               PROVE  /\ \A b \in left' \cup box' : b + sweepIn' < OrphanAge + SweepEvery
                      /\ container' # NoContainer /\ container'.state # "removed" =>
                           container'.age + sweepIn' < OrphanAge + SweepEvery
    BY DEF AgesBounded, Young
  <2>1. up /\ ~stuck /\ sweepIn > 0 /\ sweepIn' = sweepIn - 1 /\ sweepIn \in Nat
    BY <1>1, RunFacts DEF RunInv
  <2>2. ASSUME NEW a \in Ages, Young(a), NEW b, b = Elder(a) PROVE b + sweepIn' < OrphanAge + SweepEvery
    <3>1. a \in Nat /\ a + sweepIn < OrphanAge + SweepEvery /\ a < MaxAge
      BY <2>1, <2>2, AgesAre, JudgeRunAssumption DEF Young
    <3>2. b = a + 1
      BY <2>2, <3>1, AgesAre
    <3> QED
      BY <2>1, <3>1, <3>2, JudgeRunAssumption
  <2>3. \A a \in left \cup box : a \in Ages /\ Young(a)
    BY <2>1, RunFacts DEF RunInv, AgesBounded
  <2>4. \A b \in left' \cup box' : b + sweepIn' < OrphanAge + SweepEvery
    BY <1>1, <2>2, <2>3
  <2>5. container' # NoContainer /\ container'.state # "removed" => container'.age + sweepIn' < OrphanAge + SweepEvery
    BY <1>2, <2>1, <2>2, RunFacts DEF RunInv, AgesBounded
  <2> QED
    BY <2>4, <2>5
<1>5. EndsAsIs'
  <2>1. ASSUME pc = "stage", container.reason = "none" PROVE container'.age <= 1
    <3>1. container # NoContainer /\ container.age = 0
      BY <1>1, <2>1 DEF RunInv, Placed
    <3> QED
      BY <1>2, <3>1, JudgeRunAssumption DEF Elder, MaxAge
  <2> QED
    BY <1>1, <1>2, <2>1 DEF RunInv, EndsAsIs, Placed
<1> QED
  BY <1>1, <1>2, <1>3, <1>4, <1>5, StandsStill

LEMMA RunInvStep == RunInv /\ [JudgeRunNext]_runVars => RunInv'
<1> SUFFICES ASSUME RunInv, [JudgeRunNext]_runVars PROVE RunInv'
  OBVIOUS
<1>1. CASE UNCHANGED runVars
  <2>1. UNCHANGED <<program, stage, status, pc, up, box, container, left, sweepIn, luck, stuck>>
    BY <1>1 DEF runVars
  <2>2. JudgeRunTypeOK' /\ AgesBounded' /\ EndsAsIs'
    BY <2>1 DEF RunInv, JudgeRunTypeOK, AgesBounded, Young, EndsAsIs
  <2> QED
    BY <2>1, <2>2, StandsStill
<1>2. CASE JudgeRunNext
  BY <1>2, CreateStep, StartContainerStep, ProgramEndsStep, TerminateStep, CollectStep, FinishStep, CutStep,
     WorkerStartsStep, SweepStep, AdvanceStep DEF JudgeRunNext
<1> QED
  BY <1>1, <1>2

LEMMA RunInductive == JudgeRunSpec => []RunInv
  BY RunInvInit, RunInvStep, PTL DEF JudgeRunSpec

-----------------------------------------------------------------------------
\* The runner, its directory, its container and what is left keep their shape.
THEOREM JudgeRunTyped == JudgeRunSpec => []JudgeRunTypeOK
  BY RunInductive, PTL DEF RunInv

\* JudgeRunnerService.run(): the verdict is that of the first stage that is not passed, and
\* each stage is passed or fails as it deserves, or as its own luck has it: a timer too early,
\* the last output missing, the directory taken.  A kill that fails changes no verdict, and no
\* luck accepts a program that crashes or loops.
THEOREM VerdictsAreEarned == JudgeRunSpec => []VerdictIsEarned
<1>1. RunInv => VerdictIsEarned
  <2> SUFFICES ASSUME RunInv, pc = "over", status # "INTERNAL_ERROR"
               PROVE  /\ \A i \in DOMAIN program : i < stage => PassesEarned(i)
                      /\ IF stage <= Len(program) THEN status # "ACCEPTED" /\ EndEarned(stage) ELSE status = "ACCEPTED"
    BY DEF VerdictIsEarned
  <2> QED
    BY RunFacts DEF RunInv, Decided, Passed
<1> QED
  BY <1>1, RunInductive, PTL

\* SandboxCleanupService: however long no worker ran, once one has swept, a directory or a
\* container, even one that runs with nobody left to stop it, goes before it is OrphanAge and
\* one interval old for as long as that worker runs, unless the removal fails.
THEOREM LeftoversGo == JudgeRunSpec => []LeftoversAreSwept
<1>1. RunInv => LeftoversAreSwept
  <2> SUFFICES ASSUME RunInv, up, sweepIn > 0, ~stuck
               PROVE  /\ \A a \in left \cup box : a < OrphanAge + SweepEvery
                      /\ container # NoContainer /\ container.state # "removed" => container.age < OrphanAge + SweepEvery
    BY DEF LeftoversAreSwept
  <2>1. \A a \in Ages : Young(a) => a < OrphanAge + SweepEvery
    BY RunFacts, AgesAre DEF RunInv, Young
  <2> QED
    BY <2>1, RunFacts DEF RunInv, AgesBounded
<1> QED
  BY <1>1, RunInductive, PTL

-----------------------------------------------------------------------------
(***************************************************************************)
(* DeployAgent.                                                            *)
(***************************************************************************)

Phases == {"none", "starting", "exec", "record", "finish", "over", "dead"}
RunRow == [pc : Phases, step : 1..Steps, good : BOOLEAN, elapsed : 0..StepMax]
ChainRow == {NoChain} \cup [pc : {"timer"}] \cup [pc : {"answered"}, view : View]

LEMMA ViewParts ==
  /\ IDLE \in View /\ IDLE.of = NoRun
  /\ \A v \in View : /\ v # IDLE => v \in Record /\ v.of \in Run /\ v.of # NoRun
                     /\ v.of = NoRun => v = IDLE
  BY DeployAssumption DEF View, Record, IDLE

\* What start() and the page are told.
LEMMA ToldViews ==
  ASSUME DeployTypeOK
  PROVE  /\ Status \in View /\ Status.of = file.of /\ (file = IDLE => Status = IDLE)
         /\ \A v \in Reads : v = Status \/ (v = IDLE /\ \E r \in Run : Writing(r))
         /\ Reads \subseteq View
<1>1. file \in View
  BY DEF DeployTypeOK
<1>2. Status \in View /\ Status.of = file.of /\ (file = IDLE => Status = IDLE)
  BY <1>1 DEF Status, Aged, View, Record, IDLE
<1> QED
  BY <1>2, ViewParts DEF Reads

LEMMA SaidIsRecord ==
  ASSUME NEW r \in Run
  PROVE  /\ ToSay(r) \in Record /\ ToSay(r).of = r
         /\ ToSay(r).outcome # "running" => run[r].pc = "finish"
<1> DEFINE says == IF run[r].pc # "finish" THEN "running"
                  ELSE IF run[r].good THEN "ok" ELSE "failed"
<1>1. says \in {"running", "ok", "failed"} /\ (says # "running" => run[r].pc = "finish")
  OBVIOUS
<1>2. ToSay(r) = [of |-> r, outcome |-> says]
  BY DEF ToSay
<1> QED
  BY <1>1, <1>2 DEF Record

LEMMA AfterIsRun ==
  ASSUME DeployTypeOK, NEW r \in Run, Writing(r)
  PROVE  /\ After(r) \in RunRow
         /\ After(r).pc \in {"exec", "finish", "over"}
         /\ run[r].pc = "finish" => After(r).pc = "over"
<1>1. run[r] \in RunRow /\ run[r].pc \in {"starting", "record", "finish"}
  BY DEF DeployTypeOK, RunRow, Phases, Writing
<1>2. 1 \in 1..Steps /\ 0 \in 0..StepMax
  BY DeployAssumption DEF Steps
<1>3. CASE run[r].pc = "starting"
  BY <1>1, <1>3 DEF After, RunRow, Phases
<1>4. CASE run[r].pc = "record" /\ run[r].good /\ run[r].step < Steps
  <2>1. run[r].step + 1 \in 1..Steps
    BY <1>1, <1>4 DEF RunRow, Steps
  <2>2. PICK n \in 1..Steps : n = run[r].step + 1
    BY <2>1
  <2>3. After(r) = [run[r] EXCEPT !.pc = "exec", !.step = n, !.elapsed = 0]
    BY <1>4, <2>2 DEF After
  <2>4. [run[r] EXCEPT !.pc = "exec", !.step = n, !.elapsed = 0] \in RunRow
    BY <1>1, <1>2 DEF RunRow, Phases
  <2>5. After(r).pc = "exec"
    BY <1>1, <2>3 DEF RunRow
  <2> QED
    BY <1>4, <2>3, <2>4, <2>5
<1>5. CASE run[r].pc = "record" /\ ~(run[r].good /\ run[r].step < Steps)
  BY <1>1, <1>5 DEF After, RunRow, Phases
<1>6. CASE run[r].pc = "finish"
  BY <1>1, <1>2, <1>6 DEF After, RunRow, Phases, NotBegun
<1> QED
  BY <1>1, <1>3, <1>4, <1>5, <1>6

LEMMA DeployTypeInit == DeployInit => DeployTypeOK
<1> SUFFICES ASSUME DeployInit PROVE DeployTypeOK
  OBVIOUS
<1>1. 1 \in 1..Steps /\ 0 \in 0..StepMax /\ 0 \in 0..(Stale + 1)
  BY DeployAssumption DEF Steps
<1> QED
  BY <1>1 DEF DeployInit, DeployTypeOK, NotBegun, NoChain, View, IDLE

LEMMA DeployTypeStep == DeployTypeOK /\ [DeployNext]_deployVars => DeployTypeOK'
<1> SUFFICES ASSUME DeployTypeOK, [DeployNext]_deployVars PROVE DeployTypeOK'
  OBVIOUS
<1>1. run \in [Run -> RunRow] /\ chain \in [Chain -> ChainRow]
  BY DEF DeployTypeOK, RunRow, ChainRow, Phases
<1>2. ASSUME run' \in [Run -> RunRow], chain' \in [Chain -> ChainRow], file' \in View,
             age' \in [Run -> 0..(Stale + 1)], screen' \in View, {crossed', early'} \subseteq BOOLEAN
      PROVE DeployTypeOK'
  BY <1>2 DEF DeployTypeOK, RunRow, ChainRow, Phases
<1>3. ASSUME NEW r \in Run, Start(r) PROVE DeployTypeOK'
  <2>1. run' \in [Run -> RunRow]
    BY <1>1, <1>3 DEF Start, RunRow, Phases
  <2>2. crossed' \in BOOLEAN /\ early' \in BOOLEAN
    BY <1>3 DEF Start, DeployTypeOK
  <2>3. {crossed', early'} \subseteq BOOLEAN
    BY <2>2
  <2>4. UNCHANGED <<file, age, chain, screen>>
    BY <1>3 DEF Start
  <2> QED
    BY <1>1, <1>2, <2>1, <2>3, <2>4 DEF DeployTypeOK
<1>4. ASSUME NEW r \in Run, Execute(r) PROVE DeployTypeOK'
  <2>1. PICK ok \in BOOLEAN : run' = [run EXCEPT ![r].pc = "record", ![r].good = ok]
    BY <1>4 DEF Execute
  <2>2. run' = [run EXCEPT ![r] = [run[r] EXCEPT !.pc = "record", !.good = ok]]
    BY <1>1, <2>1
  <2>3. [run[r] EXCEPT !.pc = "record", !.good = ok] \in RunRow
    BY <1>1 DEF RunRow, Phases
  <2>4. run' \in [Run -> RunRow]
    BY <1>1, <2>2, <2>3
  <2> QED
    BY <1>1, <1>2, <1>4, <2>4 DEF Execute, DeployTypeOK
<1>5. ASSUME NEW r \in Run, WriteRecord(r) PROVE DeployTypeOK'
  <2>1. run' \in [Run -> RunRow]
    BY <1>1, <1>5, AfterIsRun DEF WriteRecord
  <2>2. file' \in View
    BY <1>5, SaidIsRecord DEF WriteRecord, DeployTypeOK, View
  <2>3. crossed' \in BOOLEAN
    BY <1>5 DEF WriteRecord
  <2> QED
    BY <1>1, <1>2, <1>5, <2>1, <2>2, <2>3 DEF WriteRecord, DeployTypeOK
<1>6. CASE Tick
  <2>1. ASSUME NEW r \in Run
        PROVE (IF run[r].pc = "exec" THEN [run[r] EXCEPT !.elapsed = @ + 1] ELSE run[r]) \in RunRow
    <3>1. CASE run[r].pc = "exec"
      <4>1. run[r] \in RunRow /\ run[r].elapsed + 1 \in 0..StepMax
        BY <1>1, <1>6, <3>1, DeployAssumption DEF Tick, RunRow
      <4>2. PICK n \in 0..StepMax : n = run[r].elapsed + 1
        BY <4>1
      <4>3. [run[r] EXCEPT !.elapsed = @ + 1] = [run[r] EXCEPT !.elapsed = n]
        BY <4>2
      <4> QED
        BY <3>1, <4>1, <4>3 DEF RunRow
    <3>2. CASE run[r].pc # "exec"
      BY <1>1, <3>2
    <3> QED
      BY <3>1, <3>2
  <2>2. run' \in [Run -> RunRow]
    BY <1>6, <2>1 DEF Tick
  <2>3. ASSUME NEW r \in Run
        PROVE (IF run[r].pc # "none" /\ age[r] <= Stale THEN age[r] + 1 ELSE age[r]) \in 0..(Stale + 1)
    <3>1. age[r] \in 0..(Stale + 1)
      BY DEF DeployTypeOK
    <3> QED
      BY <3>1, DeployAssumption
  <2>4. age' \in [Run -> 0..(Stale + 1)]
    BY <1>6, <2>3 DEF Tick
  <2> QED
    BY <1>1, <1>2, <1>6, <2>2, <2>4 DEF Tick, DeployTypeOK
<1>7. CASE Crash
  <2>1. [NotBegun EXCEPT !.pc = "dead"] \in RunRow
    <3>1. 1 \in 1..Steps /\ 0 \in 0..StepMax
      BY DeployAssumption DEF Steps
    <3> QED
      BY <3>1 DEF NotBegun, RunRow, Phases
  <2>2. run' \in [Run -> RunRow]
    BY <1>1, <1>7, <2>1 DEF Crash
  <2>3. file' \in View
    BY <1>7, ViewParts DEF Crash, DeployTypeOK
  <2> QED
    BY <1>1, <1>2, <1>7, <2>2, <2>3 DEF Crash, DeployTypeOK
<1>8. ASSUME NEW h \in Chain, StartPolling(h) \/ Poll(h) \/ ShowStatus(h) PROVE DeployTypeOK'
  <2>1. chain' \in [Chain -> ChainRow]
    BY <1>1, <1>8, ToldViews DEF StartPolling, Poll, ShowStatus, ChainRow
  <2>2. screen' \in View
    BY <1>1, <1>8 DEF StartPolling, Poll, ShowStatus, ChainRow, NoChain, DeployTypeOK
  <2>3. early' \in BOOLEAN
    BY <1>8 DEF StartPolling, Poll, ShowStatus, DeployTypeOK
  <2> QED
    BY <1>1, <1>2, <1>8, <2>1, <2>2, <2>3 DEF StartPolling, Poll, ShowStatus, DeployTypeOK
<1>9. CASE UNCHANGED deployVars
  BY <1>9 DEF deployVars, DeployTypeOK, Status
<1> QED
  BY <1>3, <1>4, <1>5, <1>6, <1>7, <1>8, <1>9 DEF DeployNext

\* A deployment that has not begun, or has not been written yet, is not in the file; and a
\* deployment that the file says is over is over.
FileIsBehind ==
  file # IDLE => /\ run[file.of].pc \notin {"none", "starting"}
                 /\ file.outcome # "running" => run[file.of].pc = "over"

\* One deployment at a time, and the file speaks of it as soon as it has been written.
FileNamesIt ==
  ~crossed =>
    \A r \in Run : Alive(r) =>
      /\ \A q \in Run : Alive(q) => q = r
      /\ run[r].pc # "starting" => file.of \in {r, NoRun}

LEMMA FileStep ==
  DeployTypeOK /\ FileIsBehind /\ [DeployNext]_deployVars => FileIsBehind'
<1> SUFFICES ASSUME DeployTypeOK, FileIsBehind, [DeployNext]_deployVars PROVE FileIsBehind'
  OBVIOUS
<1>0. /\ file \in View /\ run \in [Run -> RunRow]
      /\ file # IDLE => file.of \in Run
  BY ViewParts DEF DeployTypeOK, RunRow, Phases
<1>1. ASSUME file' = file,
             \A r \in Run : /\ run[r].pc \notin {"none", "starting"} =>
                                 run'[r].pc \notin {"none", "starting"}
                            /\ run[r].pc = "over" => run'[r].pc = "over"
      PROVE FileIsBehind'
  BY <1>0, <1>1 DEF FileIsBehind
<1>2. ASSUME file' = IDLE PROVE FileIsBehind'
  BY <1>2 DEF FileIsBehind
<1>3. ASSUME NEW r \in Run, Start(r) PROVE FileIsBehind'
  BY <1>0, <1>1, <1>3 DEF Start, NotBegun
<1>4. ASSUME NEW r \in Run, Execute(r) PROVE FileIsBehind'
  BY <1>0, <1>1, <1>4 DEF Execute, RunRow
<1>5. ASSUME NEW r \in Run, WriteRecord(r) PROVE FileIsBehind'
  <2>1. \A q \in Run : run'[q] = IF q = r THEN After(r) ELSE run[q]
    BY <1>0, <1>5 DEF WriteRecord
  <2>2. After(r).pc \in {"exec", "finish", "over"} /\ (run[r].pc = "finish" => After(r).pc = "over")
    BY <1>5, AfterIsRun DEF WriteRecord
  <2>3. run[r].pc # "over"
    BY <1>5 DEF WriteRecord, Writing
  <2>4. CASE file' = file
    BY <1>1, <2>1, <2>2, <2>3, <2>4
  <2>5. CASE file' = ToSay(r)
    BY <2>1, <2>2, <2>5, SaidIsRecord DEF FileIsBehind
  <2> QED
    BY <1>2, <1>5, <2>4, <2>5 DEF WriteRecord
<1>6. CASE Tick
  <2>1. \A r \in Run : run'[r].pc = run[r].pc
    BY <1>0, <1>6 DEF Tick, RunRow
  <2> QED
    BY <1>1, <1>6, <2>1 DEF Tick
<1>7. CASE Crash
  <2>1. \A r \in Run : run'[r] = IF Alive(r) THEN [NotBegun EXCEPT !.pc = "dead"] ELSE run[r]
    BY <1>7 DEF Crash
  <2>2. \A r \in Run : run'[r].pc = IF Alive(r) THEN "dead" ELSE run[r].pc
    BY <2>1 DEF NotBegun
  <2>3. \A r \in Run : run[r].pc = "over" => ~Alive(r)
    BY DEF Alive
  <2> QED
    BY <1>1, <1>2, <1>7, <2>2, <2>3 DEF Crash
<1>8. ASSUME NEW h \in Chain, StartPolling(h) \/ Poll(h) \/ ShowStatus(h) PROVE FileIsBehind'
  BY <1>1, <1>8 DEF StartPolling, Poll, ShowStatus
<1>9. CASE UNCHANGED deployVars
  BY <1>1, <1>9 DEF deployVars
<1> QED
  BY <1>3, <1>4, <1>5, <1>6, <1>7, <1>8, <1>9 DEF DeployNext

\* start() goes ahead only where no deployment lives, but for what crossed records.
LEMMA StartAlone ==
  ASSUME DeployTypeOK, FileIsBehind, FileNamesIt, NEW r \in Run, Start(r), ~crossed'
  PROVE  \A q \in Run : ~Alive(q)
<1> SUFFICES ASSUME NEW q \in Run, Alive(q) PROVE FALSE
  OBVIOUS
<1>1. PICK view \in Reads :
        /\ ~Refuses(view)
        /\ crossed' = (\/ crossed
                       \/ CallsDead
                       \/ \E p \in Run : run[p].pc = "starting"
                       \/ view = IDLE /\ \E p \in Run : Alive(p))
  BY DEF Start
<1>2. ~crossed /\ ~CallsDead /\ run[q].pc # "starting" /\ view # IDLE
  BY <1>1
<1>3. view = Status /\ file # IDLE
  BY <1>1, <1>2, ToldViews
<1>4. file.of = q
  BY <1>2, <1>3, ViewParts DEF FileNamesIt, DeployTypeOK
<1>5. ~Aged
  BY <1>2, <1>4 DEF CallsDead
<1>6. file.outcome # "running"
  BY <1>1, <1>3, <1>5 DEF Status, Refuses
<1>7. run[q].pc = "over"
  BY <1>3, <1>4, <1>6 DEF FileIsBehind
<1> QED
  BY <1>7 DEF Alive

LEMMA NamesStep ==
  DeployTypeOK /\ FileIsBehind /\ FileNamesIt /\ [DeployNext]_deployVars => FileNamesIt'
<1> SUFFICES ASSUME DeployTypeOK, FileIsBehind, FileNamesIt, [DeployNext]_deployVars
             PROVE FileNamesIt'
  OBVIOUS
<1>0. run \in [Run -> RunRow]
  BY DEF DeployTypeOK, RunRow, Phases
<1> DEFINE Lives == {"starting", "exec", "record", "finish"}
<1>1. ASSUME crossed' = crossed, file' = file,
             \A r \in Run : run'[r].pc \in Lives =>
               Alive(r) /\ (run'[r].pc # "starting" => run[r].pc # "starting")
      PROVE FileNamesIt'
  BY <1>1 DEF FileNamesIt, Alive
<1>2. ASSUME NEW r \in Run, Start(r) PROVE FileNamesIt'
  <2> SUFFICES ASSUME ~crossed' PROVE FileNamesIt'
    BY DEF FileNamesIt
  <2>1. \A q \in Run : ~Alive(q)
    BY <1>2, StartAlone
  <2>2. \A q \in Run : run'[q].pc = IF q = r THEN "starting" ELSE run[q].pc
    BY <1>0, <1>2 DEF Start, RunRow
  <2> QED
    BY <2>1, <2>2 DEF FileNamesIt, Alive
<1>3. ASSUME NEW r \in Run, Execute(r) PROVE FileNamesIt'
  <2>1. \A q \in Run : run'[q].pc = IF q = r THEN "record" ELSE run[q].pc
    BY <1>0, <1>3 DEF Execute, RunRow
  <2>2. run[r].pc = "exec"
    BY <1>3 DEF Execute
  <2> QED
    BY <1>1, <1>3, <2>1, <2>2 DEF Execute, Alive
<1>4. ASSUME NEW r \in Run, WriteRecord(r) PROVE FileNamesIt'
  <2> SUFFICES ASSUME ~crossed' PROVE FileNamesIt'
    BY DEF FileNamesIt
  <2>1. \A q \in Run : run'[q] = IF q = r THEN After(r) ELSE run[q]
    BY <1>0, <1>4 DEF WriteRecord
  <2>2. ~crossed /\ (file' = file => file.of \in {r, NoRun}) /\ Alive(r)
    BY <1>4 DEF WriteRecord, Alive, Writing
  <2>3. \A q \in Run : Alive(q) => q = r
    BY <2>2 DEF FileNamesIt
  <2>4. file'.of \in {r, NoRun}
    BY <1>4, <2>2, SaidIsRecord, ViewParts DEF WriteRecord
  <2>5. \A q \in Run : run'[q].pc \in Lives => q = r
    BY <2>1, <2>3 DEF Alive
  <2> QED
    BY <2>4, <2>5 DEF FileNamesIt, Alive
<1>5. CASE Tick
  <2>1. \A r \in Run : run'[r].pc = run[r].pc
    BY <1>0, <1>5 DEF Tick, RunRow
  <2> QED
    BY <1>1, <1>5, <2>1 DEF Tick, Alive
<1>6. CASE Crash
  <2>1. \A r \in Run : run'[r] = IF Alive(r) THEN [NotBegun EXCEPT !.pc = "dead"] ELSE run[r]
    BY <1>6 DEF Crash
  <2>2. \A r \in Run : run'[r].pc \notin Lives
    BY <2>1 DEF NotBegun, Alive
  <2> QED
    BY <2>2 DEF FileNamesIt, Alive
<1>7. ASSUME NEW h \in Chain, StartPolling(h) \/ Poll(h) \/ ShowStatus(h) PROVE FileNamesIt'
  BY <1>1, <1>7 DEF StartPolling, Poll, ShowStatus, Alive
<1>8. CASE UNCHANGED deployVars
  BY <1>1, <1>8 DEF deployVars, Alive
<1> QED
  BY <1>2, <1>3, <1>4, <1>5, <1>6, <1>7, <1>8 DEF DeployNext

LEMMA DeployInductive == DeploySpec => [](DeployTypeOK /\ FileIsBehind /\ FileNamesIt)
<1>1. DeployInit => FileIsBehind /\ FileNamesIt
  BY DEF DeployInit, FileIsBehind, FileNamesIt, Alive, NotBegun
<1> QED
  BY <1>1, DeployTypeInit, DeployTypeStep, FileStep, NamesStep, PTL DEF DeploySpec

(***************************************************************************)
(* For any number of deployments: one runs at a time, while none began     *)
(* beside another in one of the four ways that crossed records.            *)
(***************************************************************************)
THEOREM DeploymentsAlternate == DeploySpec => []OneDeployment
<1>1. FileNamesIt => OneDeployment
  <2> SUFFICES ASSUME FileNamesIt, ~crossed
               PROVE  Cardinality({r \in Run : Alive(r)}) <= 1
    BY DEF OneDeployment
  <2> DEFINE L == {r \in Run : Alive(r)}
  <2>1. CASE L = {}
    BY <2>1, FS_EmptySet
  <2>2. CASE L # {}
    <3>1. PICK r \in L : L = {r}
      BY <2>2 DEF FileNamesIt
    <3> QED
      BY <3>1, FS_Singleton
  <2> QED
    BY <2>1, <2>2
<1> QED
  BY <1>1, DeployInductive, PTL

-----------------------------------------------------------------------------
\* What the page shows, or has been told, of a deployment that it takes for ended: it has
\* ended, and its record says no other thing.
Settles(v) ==
  v # IDLE /\ v.outcome # "running" =>
    /\ run[v.of].pc \notin {"none", "starting", "exec", "record", "finish"}
    /\ file.of = v.of => Status = v

\* While the page shows one that runs, some chain still asks.
PageIsTold ==
  /\ ~early => /\ Settles(screen)
               /\ \A h \in Chain : chain[h].pc = "answered" => Settles(chain[h].view)
  /\ screen.outcome = "running" => \E h \in Chain : chain[h] # NoChain

\* What is said of an ended deployment stays true of the next state's file.
SettlesNext(v) ==
  v # IDLE /\ v.outcome # "running" =>
    /\ run'[v.of].pc \notin {"none", "starting", "exec", "record", "finish"}
    /\ file'.of = v.of => Status' = v

LEMMA StillSettled ==
  ASSUME DeployTypeOK, [DeployNext]_deployVars, NEW v \in View, Settles(v)
  PROVE  SettlesNext(v)
<1> SUFFICES ASSUME v # IDLE, v.outcome # "running" PROVE SettlesNext(v)
  BY DEF SettlesNext
<1> DEFINE Ended == {"over", "dead"}
<1>0. /\ file \in View /\ run \in [Run -> RunRow] /\ v.of \in Run /\ v.of # NoRun
      /\ run[v.of].pc \in Ended
  BY ViewParts DEF DeployTypeOK, RunRow, Phases, Settles
<1>1. ASSUME file' = file, age' = age, run'[v.of].pc \in Ended PROVE SettlesNext(v)
  BY <1>1 DEF Settles, SettlesNext, Status, Aged
<1>2. ASSUME file'.of # v.of, run'[v.of].pc \in Ended PROVE SettlesNext(v)
  BY <1>2 DEF SettlesNext
<1>3. ASSUME NEW r \in Run, Start(r) PROVE SettlesNext(v)
  BY <1>0, <1>1, <1>3 DEF Start, NotBegun
<1>4. ASSUME NEW r \in Run, Execute(r) PROVE SettlesNext(v)
  BY <1>0, <1>1, <1>4 DEF Execute
<1>5. ASSUME NEW r \in Run, WriteRecord(r) PROVE SettlesNext(v)
  <2>1. r # v.of /\ run'[v.of] = run[v.of]
    BY <1>0, <1>5 DEF WriteRecord, Writing
  <2>2. CASE file' = file
    BY <1>0, <1>1, <1>5, <2>1, <2>2 DEF WriteRecord
  <2>3. CASE file' = ToSay(r) \/ file' = IDLE
    BY <1>0, <1>2, <2>1, <2>3, SaidIsRecord, ViewParts
  <2> QED
    BY <1>5, <2>2, <2>3 DEF WriteRecord
<1>6. CASE Tick
  <2>1. run'[v.of].pc \in Ended /\ file' = file
    BY <1>0, <1>6 DEF Tick, RunRow
  <2>2. CASE file.of = v.of
    <3>1. Status = v /\ file # IDLE
      BY <1>0, <2>2, ViewParts DEF Settles
    <3>2. age[v.of] \in 0..(Stale + 1) /\ age'[v.of] \in {age[v.of], age[v.of] + 1}
      BY <1>0, <1>6 DEF DeployTypeOK, Tick
    <3>3. Aged => Aged'
      BY <2>1, <2>2, <3>2, DeployAssumption DEF Aged
    <3>4. file.outcome = "running" => Aged
      BY <3>1 DEF Status
    <3>5. Status' = Status
      <4>1. CASE file.outcome = "running"
        BY <2>1, <3>3, <3>4, <4>1 DEF Status
      <4>2. CASE file.outcome # "running"
        BY <2>1, <4>2 DEF Status, Aged
      <4> QED
        BY <4>1, <4>2
    <3> QED
      BY <2>1, <3>1, <3>5 DEF SettlesNext
  <2> QED
    BY <1>2, <2>1, <2>2
<1>7. CASE Crash
  <2>1. run'[v.of] = run[v.of]
    BY <1>0, <1>7 DEF Crash, Alive
  <2>2. CASE file' = file
    BY <1>0, <1>1, <1>7, <2>1, <2>2 DEF Crash
  <2>3. CASE file' = IDLE
    BY <1>0, <1>2, <2>1, <2>3, ViewParts
  <2> QED
    BY <1>7, <2>2, <2>3 DEF Crash
<1>8. ASSUME NEW h \in Chain, StartPolling(h) \/ Poll(h) \/ ShowStatus(h) PROVE SettlesNext(v)
  BY <1>0, <1>1, <1>8 DEF StartPolling, Poll, ShowStatus
<1>9. CASE UNCHANGED deployVars
  BY <1>0, <1>1, <1>9 DEF deployVars
<1> QED
  BY <1>3, <1>4, <1>5, <1>6, <1>7, <1>8, <1>9 DEF DeployNext

\* What status() says of a deployment it does not call running is settled, unless it is alive.
LEMMA ToldIsSettled ==
  ASSUME DeployTypeOK, FileIsBehind, ~CallsDead, NEW v \in Reads
  PROVE  Settles(v)
<1> SUFFICES ASSUME v # IDLE, v.outcome # "running" PROVE Settles(v)
  BY DEF Settles
<1>1. v = Status /\ file # IDLE /\ v.of = file.of
  BY ToldViews
<1>2. file.of \in Run /\ run[file.of].pc \notin {"none", "starting"}
  BY <1>1, ViewParts DEF FileIsBehind, DeployTypeOK
<1>3. CASE Aged
  BY <1>1, <1>2, <1>3 DEF CallsDead, Alive, Settles
<1>4. CASE ~Aged
  <2>1. file.outcome # "running"
    BY <1>1, <1>4 DEF Status
  <2> QED
    BY <1>1, <1>2, <2>1 DEF FileIsBehind, Settles
<1> QED
  BY <1>3, <1>4

LEMMA TellingStep ==
  DeployTypeOK /\ FileIsBehind /\ PageIsTold /\ [DeployNext]_deployVars => PageIsTold'
<1> SUFFICES ASSUME DeployTypeOK, FileIsBehind, PageIsTold, [DeployNext]_deployVars
             PROVE PageIsTold'
  OBVIOUS
<1>1. screen \in View /\ chain \in [Chain -> ChainRow]
  BY DEF DeployTypeOK, ChainRow
<1>2. ASSUME ~early' => ~early,
             ~early' => SettlesNext(screen'),
             ~early' => \A h \in Chain : chain'[h].pc = "answered" => SettlesNext(chain'[h].view),
             screen'.outcome = "running" => \E h \in Chain : chain'[h] # NoChain
      PROVE PageIsTold'
  BY <1>2 DEF PageIsTold, Settles, SettlesNext
<1>3. ~early => /\ SettlesNext(screen)
                /\ \A h \in Chain : chain[h].pc = "answered" => SettlesNext(chain[h].view)
  <2>1. \A h \in Chain : chain[h].pc = "answered" => chain[h].view \in View
    BY <1>1 DEF ChainRow, NoChain
  <2> QED
    BY <1>1, <2>1, StillSettled DEF PageIsTold
<1>4. ASSUME chain' = chain, screen' = screen, ~early' => ~early PROVE PageIsTold'
  BY <1>2, <1>3, <1>4 DEF PageIsTold
<1>5. ASSUME NEW r \in Run, Start(r) \/ Execute(r) \/ WriteRecord(r) PROVE PageIsTold'
  BY <1>4, <1>5 DEF Start, Execute, WriteRecord
<1>6. CASE Tick \/ Crash \/ UNCHANGED deployVars
  BY <1>4, <1>6 DEF Tick, Crash, deployVars
<1>7. ASSUME NEW h \in Chain, StartPolling(h) PROVE PageIsTold'
  <2>1. \A g \in Chain : chain'[g] = IF g = h THEN [pc |-> "timer"] ELSE chain[g]
    BY <1>1, <1>7 DEF StartPolling
  <2>2. [pc |-> "timer"] # NoChain
    BY DEF NoChain
  <2> QED
    BY <1>2, <1>3, <1>7, <2>1, <2>2 DEF StartPolling, PageIsTold
<1>8. ASSUME NEW h \in Chain, Poll(h) PROVE PageIsTold'
  <2>1. PICK view \in Reads : chain' = [chain EXCEPT ![h] = [pc |-> "answered", view |-> view]]
    BY <1>8 DEF Poll
  <2>2. \A g \in Chain : chain'[g] = IF g = h THEN [pc |-> "answered", view |-> view] ELSE chain[g]
    BY <1>1, <2>1
  <2>3. [pc |-> "answered", view |-> view] # NoChain
    BY DEF NoChain
  <2>4. ~early' => ~early /\ ~CallsDead
    BY <1>8 DEF Poll
  <2>5. ~early' => SettlesNext(view)
    BY <2>4, ToldViews, ToldIsSettled, StillSettled
  <2> QED
    BY <1>2, <1>3, <1>8, <2>2, <2>3, <2>4, <2>5 DEF Poll, PageIsTold
<1>9. ASSUME NEW h \in Chain, ShowStatus(h) PROVE PageIsTold'
  <2>1. \A g \in Chain : chain'[g] = IF g # h THEN chain[g]
                                     ELSE IF AsksAgain(chain[h].view) THEN [pc |-> "timer"] ELSE NoChain
    BY <1>1, <1>9 DEF ShowStatus
  <2>2. [pc |-> "timer"] # NoChain /\ NoChain.pc = "none"
    BY DEF NoChain
  <2>3. screen' = chain[h].view /\ early' = early /\ chain[h].pc = "answered"
    BY <1>9 DEF ShowStatus
  <2> QED
    BY <1>2, <1>3, <2>1, <2>2, <2>3 DEF PageIsTold, AsksAgain
<1> QED
  BY <1>5, <1>6, <1>7, <1>8, <1>9 DEF DeployNext

(***************************************************************************)
(* The page that has stopped asking shows what is on record of the         *)
(* deployment it shows, for any number of deployments and of chains of     *)
(* polls, unless status() took a living one for dead.                      *)
(***************************************************************************)
THEOREM PageStopsWithOutcome == DeploySpec => []PageShowsOutcome
<1>1. DeployInit => PageIsTold
  BY DEF DeployInit, PageIsTold, Settles, NoChain, IDLE
<1>2. PageIsTold => PageShowsOutcome
  BY DEF PageIsTold, PageShowsOutcome, Settles
<1> QED
  BY <1>1, <1>2, DeployInductive, TellingStep, PTL DEF DeploySpec

-----------------------------------------------------------------------------
(***************************************************************************)
(* ProblemSets.                                                            *)
(***************************************************************************)

LEMMA SetsTypeInit == SetsInit => SetsTypeOK
<1>1. Closed \in Page
  BY DEF Closed, Page
<1> QED
  BY <1>1 DEF SetsInit, SetsTypeOK

\* A step of one page makes a page of it, and touches no other.
LEMMA PageMade ==
  ASSUME SetsTypeOK, NEW e \in Editor, NEW p \in Page, Becomes(e, p) \/ AfterWrite(e, p)
  PROVE  /\ editor' \in [Editor -> Page] /\ editor'[e] = p
         /\ Becomes(e, p) => \A f \in Editor \ {e} : editor'[f] = editor[f]
         /\ AfterWrite(e, p) => \A f \in Editor \ {e} : /\ editor'[f].unaware
                                                        /\ editor'[f].op = editor[f].op
<1>1. editor \in [Editor -> Page]
  BY DEF SetsTypeOK
<1>2. \A f \in Editor : /\ [editor[f] EXCEPT !.unaware = TRUE] \in Page
                        /\ [editor[f] EXCEPT !.unaware = TRUE].unaware
                        /\ [editor[f] EXCEPT !.unaware = TRUE].op = editor[f].op
  BY <1>1 DEF Page
<1>3. CASE Becomes(e, p)
  <2>1. editor' \in [Editor -> Page] /\ \A f \in Editor : editor'[f] = IF f = e THEN p ELSE editor[f]
    BY <1>1, <1>3 DEF Becomes
  <2>2. AfterWrite(e, p) => \A f \in Editor \ {e} : editor'[f] = [editor[f] EXCEPT !.unaware = TRUE]
    BY DEF AfterWrite
  <2> QED
    BY <1>2, <2>1, <2>2
<1>4. CASE AfterWrite(e, p)
  <2>1. \A f \in Editor : editor'[f] = IF f = e THEN p ELSE [editor[f] EXCEPT !.unaware = TRUE]
    BY <1>4 DEF AfterWrite
  <2>2. editor' \in [Editor -> Page]
    BY <1>2, <1>4 DEF AfterWrite
  <2>3. Becomes(e, p) => \A f \in Editor \ {e} : editor'[f] = editor[f]
    BY <1>1 DEF Becomes
  <2> QED
    BY <1>2, <2>1, <2>2, <2>3
<1> QED
  BY <1>3, <1>4

\* What each step of a page makes of it.
LEMMA ClosedMade ==
  /\ Closed \in Page /\ Closed.op = "closed"
  /\ [Closed EXCEPT !.op = "opening"] \in Page
  /\ [Closed EXCEPT !.op = "ready", !.unaware = TRUE] \in Page
<1>1. Closed \in Page /\ Closed.op = "closed"
  BY DEF Closed, Page
<1>2. [Closed EXCEPT !.op = "opening"] \in Page /\ [Closed EXCEPT !.op = "ready", !.unaware = TRUE] \in Page
  BY <1>1 DEF Page
<1> QED
  BY <1>1, <1>2

LEMMA OpenMakes ==
  ASSUME SetsTypeOK, NEW e \in Editor, Open(e)
  PROVE  \E p \in Page : /\ Becomes(e, p)
                         /\ p.got = {}
                         /\ IF kind = "contest" THEN p.op = "opening" ELSE p.op = "ready" /\ p.unaware
<1>1. [Closed EXCEPT !.op = "opening"].op = "opening" /\ [Closed EXCEPT !.op = "opening"].got = {}
  BY DEF Closed
<1>2. /\ [Closed EXCEPT !.op = "ready", !.unaware = TRUE].op = "ready"
      /\ [Closed EXCEPT !.op = "ready", !.unaware = TRUE].unaware
      /\ [Closed EXCEPT !.op = "ready", !.unaware = TRUE].got = {}
  BY DEF Closed
<1>3. CASE kind = "contest"
  <2>1. Becomes(e, [Closed EXCEPT !.op = "opening"])
    BY <1>3 DEF Open
  <2> QED
    BY <1>1, <1>3, <2>1, ClosedMade
<1>4. CASE kind # "contest"
  <2>1. Becomes(e, [Closed EXCEPT !.op = "ready", !.unaware = TRUE])
    BY <1>4 DEF Open
  <2> QED
    BY <1>2, <1>4, <2>1, ClosedMade
<1> QED
  BY <1>3, <1>4

LEMMA ReadDetailMakes ==
  ASSUME SetsTypeOK, NEW e \in Editor, ReadDetail(e)
  PROVE  \E p \in Page : /\ Becomes(e, p) /\ p.op = "opening"
                         /\ p.detail = Revealed /\ (~p.unaware => phase # "UPCOMING")
<1>1. editor[e] \in Page /\ Revealed \subseteq Exercise
  BY DEF SetsTypeOK, Revealed
<1>2. PICK u \in BOOLEAN : u = (phase = "UPCOMING")
  OBVIOUS
<1>3. PICK G \in SUBSET {"detail", "list"} : G = editor[e].got \cup {"detail"}
  BY <1>1 DEF Page
<1> DEFINE p == [editor[e] EXCEPT !.got = G, !.detail = Revealed, !.unaware = u]
<1>4. p \in Page /\ p.op = editor[e].op /\ p.detail = Revealed /\ p.unaware = u
  BY <1>1 DEF Page
<1>5. Becomes(e, p) /\ editor[e].op = "opening"
  BY <1>2, <1>3, Zenon DEF ReadDetail
<1> HIDE DEF p
<1> QED
  BY <1>2, <1>4, <1>5

LEMMA ReadListMakes ==
  ASSUME SetsTypeOK, NEW e \in Editor, ReadList(e)
  PROVE  \E p \in Page : /\ Becomes(e, p) /\ "list" \notin editor[e].got
                         /\ p.op = editor[e].op /\ p.unaware = editor[e].unaware
                         /\ p.detail = editor[e].detail /\ p.shown = editor[e].shown
                         /\ p.replaced = editor[e].replaced
                         /\ p.got = editor[e].got \cup {"list"}
<1>1. editor[e] \in Page /\ Listed \subseteq Exercise
  BY DEF SetsTypeOK, Listed
<1>3. PICK G \in SUBSET {"detail", "list"} : G = editor[e].got \cup {"list"}
  BY <1>1 DEF Page
<1> DEFINE p == [editor[e] EXCEPT !.got = G, !.listed = Listed]
<1>4. /\ p \in Page /\ p.op = editor[e].op /\ p.unaware = editor[e].unaware
      /\ p.detail = editor[e].detail /\ p.shown = editor[e].shown
      /\ p.replaced = editor[e].replaced /\ p.got = G
  BY <1>1 DEF Page
<1>5. Becomes(e, p) /\ "list" \notin editor[e].got
  BY <1>3, Zenon DEF ReadList
<1> HIDE DEF p
<1> QED
  BY <1>3, <1>4, <1>5

LEMMA ShowMakes ==
  ASSUME SetsTypeOK, NEW e \in Editor, Show(e)
  PROVE  \E p \in Page : /\ Becomes(e, p)
                         /\ \/ p.op = "closed"
                            \/ /\ p.op = "ready" /\ p.unaware = editor[e].unaware
                               /\ p.listed = editor[e].listed
                               /\ p.got = editor[e].got /\ p.got = {"detail", "list"}
                               /\ p.shown = editor[e].detail \cap editor[e].listed
<1>1. editor[e] \in Page
  BY DEF SetsTypeOK
<1>2. PICK S \in SUBSET Exercise : S = editor[e].detail \cap editor[e].listed
  BY <1>1 DEF Page
<1> DEFINE p == [editor[e] EXCEPT !.op = "ready", !.detail = {}, !.shown = S]
<1>3. /\ p \in Page /\ p.op = "ready" /\ p.unaware = editor[e].unaware
      /\ p.listed = editor[e].listed /\ p.shown = S /\ p.got = editor[e].got
  BY <1>1 DEF Page
<1>4. (editor[e].got = {"detail", "list"} /\ Becomes(e, p)) \/ Becomes(e, Closed)
  BY <1>2, Zenon DEF Show
<1> HIDE DEF p
<1> QED
  BY <1>2, <1>3, <1>4, ClosedMade

LEMMA SaveMakes ==
  ASSUME SetsTypeOK, NEW e \in Editor, Save(e)
  PROVE  \E p \in Page : /\ Becomes(e, p) /\ editor[e].op = "ready" /\ p.op = "delete"
                         /\ p.unaware = editor[e].unaware
                         /\ p.listed = editor[e].listed /\ p.shown = editor[e].shown
                         /\ p.got = editor[e].got
                         /\ p.sent \subseteq p.listed
<1>1. editor[e] \in Page
  BY DEF SetsTypeOK
<1>2. PICK S \in SUBSET editor[e].listed :
        Becomes(e, [editor[e] EXCEPT !.op = "delete", !.sent = S])
  BY Zenon DEF Save
<1>3. S \subseteq Exercise
  BY <1>1, <1>2 DEF Page
<1> DEFINE p == [editor[e] EXCEPT !.op = "delete", !.sent = S]
<1>4. /\ p \in Page /\ p.op = "delete" /\ p.unaware = editor[e].unaware
      /\ p.listed = editor[e].listed /\ p.shown = editor[e].shown /\ p.sent = S
      /\ p.got = editor[e].got
  BY <1>1, <1>3 DEF Page
<1>5. Becomes(e, p) /\ editor[e].op = "ready"
  BY <1>2 DEF Save
<1> HIDE DEF p
<1> QED
  BY <1>2, <1>4, <1>5

LEMMA DeleteMakes ==
  ASSUME SetsTypeOK, NEW e \in Editor, DeleteRows(e)
  PROVE  \E p \in Page :
           /\ editor[e].op = "delete" /\ p.op = "create" /\ p.unaware = editor[e].unaware
           /\ p.listed = editor[e].listed /\ p.shown = editor[e].shown /\ p.sent = editor[e].sent
           /\ p.got = editor[e].got
           /\ IF kind = "contest" THEN chosen' = {} /\ AfterWrite(e, p)
              ELSE chosen' = chosen /\ Becomes(e, p) /\ p.replaced = chosen
<1>1. editor[e] \in Page /\ chosen \in SUBSET Exercise
  BY DEF SetsTypeOK
<1> DEFINE p == [editor[e] EXCEPT !.op = "create"]
           q == [p EXCEPT !.replaced = chosen]
<1>2. /\ p \in Page /\ p.op = "create" /\ p.unaware = editor[e].unaware
      /\ p.listed = editor[e].listed /\ p.shown = editor[e].shown /\ p.sent = editor[e].sent
      /\ p.got = editor[e].got
  BY <1>1 DEF Page
<1>3. /\ q \in Page /\ q.op = p.op /\ q.unaware = p.unaware /\ q.replaced = chosen
      /\ q.listed = p.listed /\ q.shown = p.shown /\ q.sent = p.sent /\ q.got = p.got
  <2> HIDE DEF p
  <2> QED
    BY <1>1, <1>2 DEF Page
<1>4. editor[e].op = "delete"
  BY DEF DeleteRows
<1>5. IF kind = "contest" THEN chosen' = {} /\ AfterWrite(e, p) ELSE chosen' = chosen /\ Becomes(e, q)
  BY DEF DeleteRows
<1> HIDE DEF p, q
<1> QED
  BY <1>2, <1>3, <1>4, <1>5

LEMMA RestMade ==
  ASSUME SetsTypeOK, NEW e \in Editor
  PROVE  /\ Rest(e) \in Page /\ Rest(e).op = "ready" /\ Rest(e).unaware = editor[e].unaware
         /\ Rest(e).listed = editor[e].listed /\ Rest(e).shown = editor[e].shown
         /\ Rest(e).got = editor[e].got
<1>1. editor[e] \in Page
  BY DEF SetsTypeOK
<1> QED
  BY <1>1 DEF Rest, Page

LEMMA CreateMakes ==
  ASSUME SetsTypeOK, NEW e \in Editor, CreateRows(e)
  PROVE  \E p \in Page :
           /\ AfterWrite(e, p) /\ editor[e].op = "create" /\ p.op = "ready"
           /\ p.shown = editor[e].sent /\ p.listed = editor[e].listed
           /\ p.got = editor[e].got
           /\ ~p.unaware => Left(e) = {}
<1>1. editor[e].sent \in SUBSET Exercise
  BY DEF SetsTypeOK, Page
<1>2. PICK u \in BOOLEAN : u = (Left(e) # {})
  OBVIOUS
<1> DEFINE p == [Rest(e) EXCEPT !.shown = editor[e].sent, !.unaware = u]
<1>3. /\ p \in Page /\ p.op = "ready" /\ p.shown = editor[e].sent /\ p.listed = editor[e].listed
      /\ p.unaware = u /\ p.got = editor[e].got
  BY <1>1, RestMade DEF Page
<1>4. AfterWrite(e, p) /\ editor[e].op = "create"
  BY <1>2, Zenon DEF CreateRows
<1> HIDE DEF p
<1> QED
  BY <1>2, <1>3, <1>4

LEMMA FailMakes ==
  ASSUME SetsTypeOK, NEW e \in Editor, SaveFails(e)
  PROVE  \E p \in Page :
           /\ Becomes(e, p) /\ editor[e].op \in {"delete", "create"}
           /\ IF kind = "contest" THEN p.op = "closed"
              ELSE /\ p.op = "ready" /\ p.unaware = editor[e].unaware /\ p.shown = editor[e].shown
                   /\ p.got = editor[e].got
<1>1. Becomes(e, IF kind = "contest" THEN Closed ELSE Rest(e)) /\ editor[e].op \in {"delete", "create"}
  BY DEF SaveFails, Failed
<1> QED
  BY <1>1, RestMade, ClosedMade

LEMMA SetsTypeStep == SetsTypeOK /\ [SetsNext]_setVars => SetsTypeOK'
<1> SUFFICES ASSUME SetsTypeOK, [SetsNext]_setVars PROVE SetsTypeOK'
  OBVIOUS
<1>0. ASSUME NEW e \in Editor, \E p \in Page : Becomes(e, p) \/ AfterWrite(e, p)
      PROVE  editor' \in [Editor -> Page]
  BY <1>0, PageMade
<1>1. ASSUME NEW e \in Editor, PageStep, \E p \in Page : Becomes(e, p)
      PROVE SetsTypeOK'
  <2>1. editor' \in [Editor -> Page]
    BY <1>0, <1>1
  <2> QED
    BY <1>1, <2>1 DEF PageStep, SetsTypeOK
<1>2. ASSUME NEW e \in Editor, Open(e) \/ ReadDetail(e) \/ ReadList(e) PROVE SetsTypeOK'
  <2>1. PageStep
    BY <1>2 DEF Open, ReadDetail, ReadList
  <2> QED
    BY <1>1, <1>2, <2>1, OpenMakes, ReadDetailMakes, ReadListMakes
<1>3. ASSUME NEW e \in Editor, Show(e) \/ Save(e) \/ CloseEditor(e) PROVE SetsTypeOK'
  <2>1. PageStep
    BY <1>3, Zenon DEF Show, Save, CloseEditor
  <2>2. CloseEditor(e) => Becomes(e, Closed)
    BY DEF CloseEditor
  <2> QED
    BY <1>1, <1>3, <2>1, <2>2, ShowMakes, SaveMakes, ClosedMade
<1>4. ASSUME NEW e \in Editor, DeleteRows(e) PROVE SetsTypeOK'
  <2>1. editor' \in [Editor -> Page] /\ (chosen' = {} \/ chosen' = chosen)
    BY <1>0, <1>4, DeleteMakes
  <2> QED
    BY <1>4, <2>1 DEF DeleteRows, SetsTypeOK
<1>5. ASSUME NEW e \in Editor, CreateRows(e) PROVE SetsTypeOK'
  <2>1. chosen' \subseteq exists
    BY <1>5 DEF CreateRows, Insertable, Left, SetsTypeOK
  <2>2. exists \subseteq Exercise /\ meant \subseteq Exercise /\ editor[e].sent \subseteq Exercise
    BY DEF SetsTypeOK, Page
  <2>3. meant' \subseteq chosen' \cup meant \cup editor[e].sent
    BY <1>5 DEF CreateRows
  <2>4. editor' \in [Editor -> Page]
    BY <1>0, <1>5, CreateMakes
  <2>5. UNCHANGED <<kind, phase, visible, contestOnly, exists>>
    BY <1>5 DEF CreateRows
  <2> QED
    BY <2>1, <2>2, <2>3, <2>4, <2>5 DEF SetsTypeOK
<1>6. ASSUME NEW e \in Editor, SaveFails(e) PROVE SetsTypeOK'
  <2>1. editor' \in [Editor -> Page]
    BY <1>0, <1>6, FailMakes
  <2>2. UNCHANGED <<kind, phase, visible, contestOnly, exists, chosen>> /\ meant' \in {chosen, meant}
    BY <1>6 DEF SaveFails
  <2> QED
    BY <2>1, <2>2 DEF SetsTypeOK
<1>7. CASE PassTime
  BY <1>7 DEF PassTime, SetsTypeOK
<1>8. CASE DeleteProblem
  BY <1>8 DEF DeleteProblem, SetsTypeOK
<1>9. CASE SetContestOnly
  BY <1>9 DEF SetContestOnly, SetsTypeOK
<1>10. CASE UNCHANGED setVars
  BY <1>10 DEF setVars, SetsTypeOK
<1> QED
  BY <1>2, <1>3, <1>4, <1>5, <1>6, <1>7, <1>8, <1>9, <1>10 DEF SetsNext

\* Whoever saves over more than he was shown does not know it.
OthersSave(e) == \E f \in Editor \ {e} : editor[f].op = "create"

\* What a page that knows what is stored has seen of it.  Once it has deleted a contest's
\* rows nothing is stored, and the other saves halfway are of pages that do not know.
ContestKnown(e) ==
  /\ editor[e].op = "opening" /\ "detail" \in editor[e].got => chosen \subseteq editor[e].detail
  /\ editor[e].op \in {"ready", "delete"} => chosen \cap editor[e].listed \subseteq editor[e].shown
  /\ editor[e].op = "create" =>
       /\ chosen = {}
       /\ \A f \in Editor \ {e} : editor[f].op = "create" => editor[f].unaware
       /\ meant \cap editor[e].listed \subseteq editor[e].shown \/ OthersSave(e)

ClassKnown(e) ==
  /\ editor[e].op \in {"ready", "delete", "create"} => chosen \subseteq editor[e].shown
  /\ editor[e].op = "create" => chosen \subseteq editor[e].replaced

\* A contest's page has its list before its button.
Lists(e) == editor[e].op \in {"ready", "delete", "create"} => "list" \in editor[e].got

AwareKnows ==
  \A e \in Editor :
    /\ ~editor[e].unaware => IF kind = "contest" THEN ContestKnown(e) ELSE ClassKnown(e)
    /\ kind = "contest" => Lists(e)
    /\ kind # "contest" => editor[e].op # "opening"
    /\ editor[e].op \in {"delete", "create"} /\ kind = "contest" =>
         editor[e].sent \subseteq editor[e].listed

SetsInv == MeantIsStored /\ AwareKnows

\* What a page must be like that is not in the middle of a save.
PageKnows(p) ==
  /\ ~p.unaware /\ kind = "contest" =>
       /\ p.op = "opening" /\ "detail" \in p.got => chosen \subseteq p.detail
       /\ p.op \in {"ready", "delete"} => chosen \cap p.listed \subseteq p.shown
  /\ ~p.unaware /\ kind # "contest" /\ p.op \in {"ready", "delete"} => chosen \subseteq p.shown
  /\ kind = "contest" /\ p.op \in {"ready", "delete"} => "list" \in p.got
  /\ kind # "contest" => p.op # "opening"
  /\ kind = "contest" /\ p.op = "delete" => p.sent \subseteq p.listed

LEMMA PageKeeps ==
  ASSUME SetsTypeOK, SetsInv, NEW e \in Editor, NEW p \in Page, Becomes(e, p), PageKnows(p),
         UNCHANGED <<kind, chosen, meant>>, editor[e].op # "create", p.op # "create"
  PROVE  SetsInv'
<1>1. \A f \in Editor : editor'[f] = IF f = e THEN p ELSE editor[f]
  BY PageMade
<1>2. \A f \in Editor : editor'[f].op = "create" <=> editor[f].op = "create"
  BY <1>1
<1>3. MeantIsStored'
  BY <1>2 DEF SetsInv, MeantIsStored
<1>4. \A f \in Editor \ {e} : /\ ContestKnown(f) => ContestKnown(f)'
                              /\ ClassKnown(f) => ClassKnown(f)'
                              /\ Lists(f) => Lists(f)'
  BY <1>1, <1>2 DEF ContestKnown, ClassKnown, Lists, OthersSave
<1>5. /\ ~p.unaware => IF kind = "contest" THEN ContestKnown(e)' ELSE ClassKnown(e)'
      /\ kind = "contest" => Lists(e)'
  BY <1>1 DEF PageKnows, ContestKnown, ClassKnown, Lists
<1>6. AwareKnows'
  <2> SUFFICES ASSUME NEW f \in Editor
               PROVE  /\ ~editor'[f].unaware =>
                           IF kind = "contest" THEN ContestKnown(f)' ELSE ClassKnown(f)'
                      /\ kind = "contest" => Lists(f)'
                      /\ kind # "contest" => editor'[f].op # "opening"
                      /\ editor'[f].op \in {"delete", "create"} /\ kind = "contest" =>
                           editor'[f].sent \subseteq editor'[f].listed
    BY DEF AwareKnows
  <2>1. CASE f = e
    BY <1>1, <1>5, <2>1 DEF PageKnows
  <2>2. CASE f # e
    BY <1>1, <1>4, <2>2 DEF SetsInv, AwareKnows
  <2> QED
    BY <2>1, <2>2
<1> QED
  BY <1>3, <1>6 DEF SetsInv

\* A page that somebody else's write outdates shows and sends what it did.
LEMMA OutdatedPage ==
  ASSUME NEW q \in Page
  PROVE  /\ [q EXCEPT !.unaware = TRUE].op = q.op /\ [q EXCEPT !.unaware = TRUE].got = q.got
         /\ [q EXCEPT !.unaware = TRUE].sent = q.sent
         /\ [q EXCEPT !.unaware = TRUE].listed = q.listed
  BY DEF Page

\* A write outdates the others, so that only what it leaves of its own page counts.
LEMMA WriteKeepsSets ==
  ASSUME SetsTypeOK, SetsInv, NEW e \in Editor, NEW p \in Page, AfterWrite(e, p),
         UNCHANGED kind, MeantIsStored',
         ~p.unaware => IF kind = "contest" THEN ContestKnown(e)' ELSE ClassKnown(e)',
         p.got = editor[e].got, p.op \in {"ready", "create"},
         editor[e].op \in {"delete", "create"},
         kind = "contest" /\ p.op = "create" => p.sent \subseteq p.listed
  PROVE  SetsInv'
<1>1. /\ editor'[e] = p
      /\ \A f \in Editor \ {e} : /\ editor'[f].unaware
                                 /\ editor'[f] = [editor[f] EXCEPT !.unaware = TRUE]
  BY PageMade DEF AfterWrite
<1>2. \A f \in Editor \ {e} : /\ editor'[f].op = editor[f].op /\ editor'[f].got = editor[f].got
                              /\ editor'[f].sent = editor[f].sent
                              /\ editor'[f].listed = editor[f].listed
  <2> SUFFICES ASSUME NEW f \in Editor \ {e}
               PROVE  /\ editor'[f].op = editor[f].op /\ editor'[f].got = editor[f].got
                      /\ editor'[f].sent = editor[f].sent /\ editor'[f].listed = editor[f].listed
    OBVIOUS
  <2>1. editor[f] \in Page
    BY DEF SetsTypeOK
  <2>2. editor'[f] = [editor[f] EXCEPT !.unaware = TRUE]
    BY <1>1
  <2> QED
    BY <2>1, <2>2, OutdatedPage
<1>3. kind = "contest" => "list" \in editor[e].got
  BY DEF SetsInv, AwareKnows, Lists
<1>4. AwareKnows'
  <2> SUFFICES ASSUME NEW f \in Editor
               PROVE  /\ ~editor'[f].unaware =>
                           IF kind = "contest" THEN ContestKnown(f)' ELSE ClassKnown(f)'
                      /\ kind = "contest" => Lists(f)'
                      /\ kind # "contest" => editor'[f].op # "opening"
                      /\ editor'[f].op \in {"delete", "create"} /\ kind = "contest" =>
                           editor'[f].sent \subseteq editor'[f].listed
    BY DEF AwareKnows
  <2>1. CASE f = e
    BY <1>1, <1>3, <2>1 DEF Lists
  <2>2. CASE f # e
    BY <1>1, <1>2, <2>2 DEF SetsInv, AwareKnows, Lists
  <2> QED
    BY <2>1, <2>2
<1> QED
  BY <1>4 DEF SetsInv

LEMMA DeleteKeeps ==
  ASSUME SetsTypeOK, SetsInv, NEW e \in Editor, DeleteRows(e)
  PROVE  SetsInv'
<1>1. PICK p \in Page :
        /\ editor[e].op = "delete" /\ p.op = "create" /\ p.unaware = editor[e].unaware
        /\ p.listed = editor[e].listed /\ p.shown = editor[e].shown /\ p.sent = editor[e].sent
        /\ p.got = editor[e].got
        /\ IF kind = "contest" THEN chosen' = {} /\ AfterWrite(e, p)
           ELSE chosen' = chosen /\ Becomes(e, p) /\ p.replaced = chosen
  BY DeleteMakes
<1>2. UNCHANGED <<kind, meant>>
  BY DEF DeleteRows
<1>3. CASE kind = "contest"
  <2>1. editor'[e] = p /\ \A f \in Editor \ {e} : editor'[f].unaware /\ editor'[f].op = editor[f].op
    BY <1>1, <1>3, PageMade
  <2>2. MeantIsStored'
    BY <1>1, <1>2, <1>3, <2>1 DEF MeantIsStored
  <2>3. ~p.unaware => ContestKnown(e)'
    <3> SUFFICES ASSUME ~p.unaware
                 PROVE  meant \cap editor[e].listed \subseteq editor[e].shown \/ OthersSave(e)'
      BY <1>1, <1>2, <1>3, <2>1 DEF ContestKnown
    <3>1. chosen \cap editor[e].listed \subseteq editor[e].shown
      BY <1>1, <1>3 DEF SetsInv, AwareKnows, ContestKnown
    <3>2. OthersSave(e) => OthersSave(e)'
      BY <2>1 DEF OthersSave
    <3>3. ~OthersSave(e) => chosen = meant
      BY <1>1 DEF OthersSave, SetsInv, MeantIsStored
    <3> QED
      BY <3>1, <3>2, <3>3
  <2>4. p.sent \subseteq p.listed
    BY <1>1, <1>3 DEF SetsInv, AwareKnows
  <2> QED
    BY <1>1, <1>2, <1>3, <2>2, <2>3, <2>4, WriteKeepsSets
<1>4. CASE kind # "contest"
  <2>1. \A f \in Editor : editor'[f] = IF f = e THEN p ELSE editor[f]
    BY <1>1, <1>4, PageMade
  <2>2. chosen' = chosen /\ p.replaced = chosen
    BY <1>1, <1>4
  <2>3. MeantIsStored'
    BY <1>2, <1>4, <2>2 DEF SetsInv, MeantIsStored
  <2>4. AwareKnows'
    <3>1. ASSUME NEW f \in Editor, ~editor'[f].unaware PROVE ClassKnown(f)'
      BY <1>1, <1>4, <2>1, <2>2, <3>1 DEF SetsInv, AwareKnows, ClassKnown
    <3>2. \A f \in Editor : editor'[f].op # "opening"
      BY <1>1, <1>4, <2>1 DEF SetsInv, AwareKnows
    <3> QED
      BY <1>2, <1>4, <3>1, <3>2 DEF AwareKnows
  <2> QED
    BY <2>3, <2>4 DEF SetsInv
<1> QED
  BY <1>3, <1>4

LEMMA CreateKeeps ==
  ASSUME SetsTypeOK, SetsInv, NEW e \in Editor, CreateRows(e)
  PROVE  SetsInv'
<1>1. PICK p \in Page :
        /\ AfterWrite(e, p) /\ editor[e].op = "create" /\ p.op = "ready"
        /\ p.shown = editor[e].sent /\ p.listed = editor[e].listed
        /\ p.got = editor[e].got
        /\ ~p.unaware => Left(e) = {}
  BY CreateMakes
<1> DEFINE sent == editor[e].sent
           ticked == editor[e].shown
<1>2. /\ UNCHANGED <<kind, exists>>
      /\ chosen' = Left(e) \cup sent
      /\ meant' = IF Unaware(e) THEN chosen' ELSE (meant \cup sent) \ (ticked \ sent)
  BY DEF CreateRows
<1>3. editor'[e] = p /\ \A f \in Editor \ {e} : editor'[f].op = editor[f].op
  BY <1>1, PageMade
<1>4. MeantIsStored'
  <2> SUFFICES ASSUME ~(kind = "contest" /\ OthersSave(e)), ~Unaware(e)
               PROVE  chosen' = meant'
    <3>1. kind = "contest" /\ OthersSave(e) => \E f \in Editor : editor'[f].op = "create"
      BY <1>3 DEF OthersSave
    <3> QED
      BY <1>2, <3>1 DEF MeantIsStored
  <2>1. ~editor[e].unaware /\ meant \subseteq editor[e].listed
    BY DEF Unaware
  <2>2. CASE kind = "contest"
    <3>1. chosen = {} /\ meant \subseteq ticked
      BY <1>1, <2>1, <2>2 DEF SetsInv, AwareKnows, ContestKnown
    <3>2. Left(e) = {}
      BY <2>2, <3>1 DEF Left
    <3> QED
      BY <1>2, <3>1, <3>2
  <2>3. CASE kind # "contest"
    <3>1. chosen \subseteq ticked /\ chosen \subseteq editor[e].replaced /\ chosen = meant
      BY <1>1, <2>1, <2>3 DEF SetsInv, AwareKnows, ClassKnown, MeantIsStored
    <3>2. Left(e) = {}
      BY <2>3, <3>1 DEF Left
    <3> QED
      BY <1>2, <3>1, <3>2
  <2> QED
    BY <2>2, <2>3
<1>5. ~p.unaware => ContestKnown(e)' /\ ClassKnown(e)'
  <2> SUFFICES ASSUME ~p.unaware PROVE ContestKnown(e)' /\ ClassKnown(e)'
    OBVIOUS
  <2>1. chosen' = p.shown
    BY <1>1, <1>2
  <2> QED
    BY <1>1, <1>3, <2>1 DEF ContestKnown, ClassKnown
<1> QED
  BY <1>1, <1>2, <1>4, <1>5, WriteKeepsSets

LEMMA FailKeeps ==
  ASSUME SetsTypeOK, SetsInv, NEW e \in Editor, SaveFails(e)
  PROVE  SetsInv'
<1>1. PICK p \in Page :
        /\ Becomes(e, p) /\ editor[e].op \in {"delete", "create"}
        /\ IF kind = "contest" THEN p.op = "closed"
           ELSE /\ p.op = "ready" /\ p.unaware = editor[e].unaware /\ p.shown = editor[e].shown
                /\ p.got = editor[e].got
  BY FailMakes
<1>2. /\ UNCHANGED <<kind, chosen>>
      /\ meant' = IF kind = "contest" /\ editor[e].op = "create" THEN chosen ELSE meant
  BY DEF SaveFails
<1>3. \A f \in Editor : editor'[f] = IF f = e THEN p ELSE editor[f]
  BY <1>1, PageMade
<1>4. CASE kind = "contest" /\ editor[e].op = "create"
  <2>1. MeantIsStored'
    BY <1>2, <1>4 DEF MeantIsStored
  <2>2. ASSUME NEW f \in Editor, f # e, ~editor[f].unaware PROVE ContestKnown(f)'
    <3>1. ContestKnown(f)
      BY <1>4, <2>2 DEF SetsInv, AwareKnows
    <3> QED
      BY <1>1, <1>2, <1>3, <1>4, <2>2, <3>1 DEF ContestKnown, OthersSave
  <2>3. ASSUME NEW f \in Editor
        PROVE  /\ ~editor'[f].unaware => ContestKnown(f)'
               /\ Lists(f)'
               /\ editor'[f].op \in {"delete", "create"} => editor'[f].sent \subseteq editor'[f].listed
    <3>1. CASE f = e
      BY <1>1, <1>3, <1>4, <3>1 DEF ContestKnown, Lists
    <3>2. CASE f # e
      BY <1>3, <1>4, <2>2, <3>2 DEF SetsInv, AwareKnows, Lists
    <3> QED
      BY <3>1, <3>2
  <2>4. AwareKnows'
    BY <1>2, <1>4, <2>3 DEF AwareKnows
  <2> QED
    BY <2>1, <2>4 DEF SetsInv
<1>5. CASE kind # "contest"
  <2>1. MeantIsStored'
    BY <1>2, <1>5 DEF SetsInv, MeantIsStored
  <2>2. ASSUME NEW f \in Editor, ~editor'[f].unaware PROVE ClassKnown(f)'
    BY <1>1, <1>2, <1>3, <1>5, <2>2 DEF SetsInv, AwareKnows, ClassKnown
  <2>3. \A f \in Editor : editor'[f].op # "opening"
    BY <1>1, <1>3, <1>5 DEF SetsInv, AwareKnows
  <2>4. AwareKnows'
    BY <1>2, <1>5, <2>2, <2>3 DEF AwareKnows
  <2> QED
    BY <2>1, <2>4 DEF SetsInv
<1>6. CASE kind = "contest" /\ editor[e].op # "create"
  <2>1. PageKnows(p)
    BY <1>1, <1>6 DEF PageKnows
  <2>2. UNCHANGED <<kind, chosen, meant>>
    BY <1>2, <1>6
  <2> QED
    BY <1>1, <1>6, <2>1, <2>2, PageKeeps
<1> QED
  BY <1>4, <1>5, <1>6

LEMMA ReadingKeeps ==
  ASSUME SetsTypeOK, SetsInv, NEW e \in Editor,
         Open(e) \/ ReadDetail(e) \/ ReadList(e) \/ Show(e) \/ Save(e) \/ CloseEditor(e)
  PROVE  SetsInv'
<1>0. UNCHANGED <<kind, chosen, meant>>
  BY Zenon DEF Open, ReadDetail, ReadList, Show, Save, CloseEditor, PageStep
<1>1. CASE Open(e)
  <2>1. PICK p \in Page :
          /\ Becomes(e, p)
          /\ p.got = {}
          /\ IF kind = "contest" THEN p.op = "opening" ELSE p.op = "ready" /\ p.unaware
    BY <1>1, OpenMakes
  <2>2. editor[e].op = "closed"
    BY <1>1 DEF Open
  <2>3. PageKnows(p)
    BY <2>1 DEF PageKnows
  <2> QED
    BY <1>0, <2>1, <2>2, <2>3, PageKeeps
<1>2. CASE ReadDetail(e)
  <2>1. PICK p \in Page : /\ Becomes(e, p) /\ p.op = "opening"
                          /\ p.detail = Revealed /\ (~p.unaware => phase # "UPCOMING")
    BY <1>2, ReadDetailMakes
  <2>2. editor[e].op = "opening"
    BY <1>2, Zenon DEF ReadDetail
  <2>3. PageKnows(p)
    BY <2>1, <2>2 DEF PageKnows, Revealed, SetsInv, AwareKnows
  <2> QED
    BY <1>0, <2>1, <2>2, <2>3, PageKeeps
<1>3. CASE ReadList(e)
  <2>1. PICK p \in Page : /\ Becomes(e, p) /\ "list" \notin editor[e].got
                          /\ p.op = editor[e].op /\ p.unaware = editor[e].unaware
                          /\ p.detail = editor[e].detail /\ p.shown = editor[e].shown
                          /\ p.replaced = editor[e].replaced
                          /\ p.got = editor[e].got \cup {"list"}
    BY <1>3, ReadListMakes
  <2>2. CASE kind = "contest"
    <3>1. editor[e].op \notin {"ready", "delete", "create"}
      BY <2>1, <2>2 DEF SetsInv, AwareKnows, Lists
    <3>2. PageKnows(p)
      BY <2>1, <2>2, <3>1 DEF PageKnows, SetsInv, AwareKnows, ContestKnown
    <3> QED
      BY <1>0, <2>1, <3>1, <3>2, PageKeeps
  <2>3. CASE kind # "contest"
    <3>1. \A f \in Editor : editor'[f] = IF f = e THEN p ELSE editor[f]
      BY <2>1, PageMade
    <3>2. ASSUME NEW f \in Editor, ~editor'[f].unaware PROVE ClassKnown(f)'
      BY <1>0, <2>1, <2>3, <3>1, <3>2 DEF SetsInv, AwareKnows, ClassKnown
    <3>3. \A f \in Editor : editor'[f].op # "opening"
      BY <2>1, <2>3, <3>1 DEF SetsInv, AwareKnows
    <3> QED
      BY <1>0, <2>3, <3>2, <3>3 DEF SetsInv, MeantIsStored, AwareKnows
  <2> QED
    BY <2>2, <2>3
<1>4. CASE Show(e)
  <2>1. PICK p \in Page : /\ Becomes(e, p)
                          /\ \/ p.op = "closed"
                             \/ /\ p.op = "ready" /\ p.unaware = editor[e].unaware
                                /\ p.listed = editor[e].listed
                                /\ p.got = editor[e].got /\ p.got = {"detail", "list"}
                                /\ p.shown = editor[e].detail \cap editor[e].listed
    BY <1>4, ShowMakes
  <2>2. editor[e].op = "opening"
    BY <1>4, Zenon DEF Show
  <2>3. PageKnows(p)
    BY <2>1, <2>2 DEF PageKnows, SetsInv, AwareKnows, ContestKnown
  <2> QED
    BY <1>0, <2>1, <2>2, <2>3, PageKeeps
<1>5. CASE Save(e)
  <2>1. PICK p \in Page : /\ Becomes(e, p) /\ editor[e].op = "ready" /\ p.op = "delete"
                          /\ p.unaware = editor[e].unaware
                          /\ p.listed = editor[e].listed /\ p.shown = editor[e].shown
                          /\ p.got = editor[e].got
                          /\ p.sent \subseteq p.listed
    BY <1>5, SaveMakes
  <2>2. PageKnows(p)
    BY <2>1 DEF PageKnows, SetsInv, AwareKnows, ContestKnown, ClassKnown, Lists
  <2> QED
    BY <1>0, <2>1, <2>2, PageKeeps
<1>6. CASE CloseEditor(e)
  <2>1. Becomes(e, Closed) /\ editor[e].op = "ready"
    BY <1>6 DEF CloseEditor
  <2>2. PageKnows(Closed)
    BY ClosedMade DEF PageKnows
  <2> QED
    BY <1>0, <2>1, <2>2, ClosedMade, PageKeeps
<1> QED
  BY <1>1, <1>2, <1>3, <1>4, <1>5, <1>6

LEMMA SetsInvStep == SetsTypeOK /\ SetsInv /\ [SetsNext]_setVars => SetsInv'
<1> SUFFICES ASSUME SetsTypeOK, SetsInv, [SetsNext]_setVars PROVE SetsInv'
  OBVIOUS
<1>1. ASSUME UNCHANGED <<kind, chosen, meant, editor>> PROVE SetsInv'
  BY <1>1 DEF SetsInv, MeantIsStored, AwareKnows, ContestKnown, ClassKnown, OthersSave, Lists
<1>2. CASE DeleteProblem
  <2>1. PICK x : chosen' = chosen \ {x} /\ meant' = meant \ {x}
    BY <1>2 DEF DeleteProblem
  <2>2. UNCHANGED <<kind, editor>>
    BY <1>2 DEF DeleteProblem
  <2> QED
    BY <2>1, <2>2 DEF SetsInv, MeantIsStored, AwareKnows, ContestKnown, ClassKnown, OthersSave, Lists
<1>3. CASE PassTime \/ SetContestOnly \/ UNCHANGED setVars
  BY <1>1, <1>3 DEF PassTime, SetContestOnly, setVars
<1>4. ASSUME NEW e \in Editor, \/ Open(e) \/ ReadDetail(e) \/ ReadList(e) \/ Show(e) \/ Save(e)
                               \/ CloseEditor(e) \/ DeleteRows(e) \/ CreateRows(e) \/ SaveFails(e)
      PROVE SetsInv'
  BY <1>4, ReadingKeeps, DeleteKeeps, CreateKeeps, FailKeeps
<1> QED
  BY <1>2, <1>3, <1>4 DEF SetsNext

(***************************************************************************)
(* For any number of problems and of open pages: the problems stored are   *)
(* those the administrators ticked and did not untick, but while a save of *)
(* a contest is between its two writes, and but for the saves of pages     *)
(* that cannot know what is stored (Unaware), which reset the account.     *)
(***************************************************************************)
THEOREM TicksAreStored == SetsSpec => []MeantIsStored
<1>1. SetsInit => SetsInv
  <2>1. SetsInit => \A e \in Editor : editor[e].op = "closed"
    BY DEF SetsInit, Closed
  <2> QED
    BY <2>1 DEF SetsInit, SetsInv, MeantIsStored, AwareKnows, ContestKnown, ClassKnown, Lists
<1>2. SetsInv => MeantIsStored
  BY DEF SetsInv
<1> QED
  BY <1>1, <1>2, SetsTypeInit, SetsTypeStep, SetsInvStep, PTL DEF SetsSpec

-----------------------------------------------------------------------------
(***************************************************************************)
(* SolverRating.                                                           *)
(***************************************************************************)

\* A job that will read everything again.
WillRead(j) ==
  \/ job[j].pc = "read"
  \/ job[j].pc = "count" /\ IsFirstAccept(job[j].p)
  \/ job[j].pc = "solvers" /\ accepted[job[j].p] > 0

\* The newest of the sums under way, which is right.
IsNewest(n) ==
  /\ n \in Writers /\ ~job[n].old /\ job[n].sum = TopSum
  /\ Writers \ {n} \subseteq job[n].over

\* Which of two sums is the older one is known, as long as no process has stopped.
SumsAreOrdered ==
  \A n \in Writers : job[n].over \subseteq Writers /\ \A k \in job[n].over : n \notin job[k].over

RatingComes ==
  \/ \E j \in Job : WillRead(j)
  \/ \E n \in Job : IsNewest(n)
  \/ rating = TopSum /\ \A k \in Writers : job[k].old

RatingInv == ~drifted => SumsAreOrdered /\ RatingComes

\* The sum over nothing; FoldFunction stands for a recursive function.
LEMMA SumOfNothing ==
  ASSUME NEW f, DOMAIN f = {}
  PROVE  SumFunction(f) = 0
<1> DEFINE step(g) == [s \in SUBSET DOMAIN f |->
                         IF s = {} THEN 0
                         ELSE f[CHOOSE x \in s : TRUE] + g[s \ {CHOOSE x \in s : TRUE}]]
           fix == CHOOSE g : g = step(g)
           none == [s \in {{}} |-> 0]
<1>1. SumFunction(f) = fix[DOMAIN f]
  BY Zenon DEF SumFunction, SumFunctionOnSet, FoldFunctionOnSet, MapThenFoldSet
<1>2. SUBSET DOMAIN f = {{}}
  OBVIOUS
<1>3. none = step(none)
  BY <1>2
<1>4. \A g : step(g)[{}] = 0
  BY <1>2
<1> HIDE DEF step, none
<1>5. fix = step(fix)
  BY <1>3
<1> HIDE DEF fix
<1>6. fix[{}] = 0
  BY <1>4, <1>5
<1> QED
  BY <1>1, <1>6

\* Whoever has solved nothing is rated 0.
LEMMA NoneSolved == Solved = {} => TopSum = 0
<1> SUFFICES ASSUME Solved = {} PROVE TopSum = 0
  OBVIOUS
<1>1. SumOf({}) = 0
  <2>1. DOMAIN [p \in {} |-> problem[p].points] = {}
    OBVIOUS
  <2> QED
    BY <2>1, SumOfNothing DEF SumOf
<1>2. {T \in SUBSET Solved : Cardinality(T) <= TopN} = {{}}
  <2>1. Cardinality({}) = 0
    BY FS_EmptySet
  <2>2. SUBSET Solved = {{}}
    OBVIOUS
  <2> QED
    BY <2>1, <2>2, SolverRatingAssumption
<1>3. {SumOf(S) : S \in {T \in SUBSET Solved : Cardinality(T) <= TopN}} = {0}
  BY <1>1, <1>2
<1>4. Max({0}) = 0
  BY DEF Max
<1> QED
  BY <1>3, <1>4 DEF TopSum

\* The sum follows the solved problems and their points, and nothing else.
LEMMA SumFollows ==
  ASSUME Solved' = Solved, \A p \in Solved : problem'[p].points = problem[p].points
  PROVE  TopSum' = TopSum
<1>1. \A S \in SUBSET Solved : SumOf(S)' = SumOf(S)
  <2> SUFFICES ASSUME NEW S \in SUBSET Solved PROVE SumOf(S)' = SumOf(S)
    OBVIOUS
  <2>1. [p \in S |-> problem'[p].points] = [p \in S |-> problem[p].points]
    OBVIOUS
  <2> QED
    BY <2>1 DEF SumOf
<1> DEFINE few == {T \in SUBSET Solved : Cardinality(T) <= TopN}
<1>2. few' = few
  OBVIOUS
<1>3. \A S \in few : SumOf(S)' = SumOf(S)
  BY <1>1
<1> HIDE DEF few
<1>4. {SumOf(S)' : S \in few} = {SumOf(S) : S \in few}
  BY <1>3
<1> QED
  BY <1>2, <1>4 DEF TopSum, few

\* What the arguments need of the types; that a sum is a number is beyond them.
Fits(s) ==
  /\ s.pc = "write" => s = [pc |-> "write", sum |-> s.sum, over |-> s.over, old |-> s.old]
  /\ s.pc \in {"count", "solvers", "update"} => s.p \in Problem

RatingShape ==
  /\ problem = [p \in Problem |-> problem[p]]
  /\ accepted \in [Problem -> Nat]
  /\ job = [j \in Job |-> job[j]]
  /\ \A j \in Job : Fits(job[j])
  /\ drifted \in BOOLEAN

LEMMA JobIs ==
  ASSUME RatingShape, NEW j \in Job, NEW state, JobBecomes(j, state)
  PROVE  /\ job'[j] = state
         /\ \A k \in Job \ {j} : job'[k] = job[k]
         /\ job' = [k \in Job |-> job'[k]]
  BY DEF RatingShape, JobBecomes

LEMMA JobsHave ==
  ASSUME RatingShape, NEW j \in Job
  PROVE  /\ job[j].pc \in {"count", "solvers", "update"} => job[j].p \in Problem
         /\ NoJob.pc = "none"
  BY DEF RatingShape, Fits, NoJob

\* What another's write does to a sum under way.
LEMMA WriterFits ==
  ASSUME NEW w, Fits(w), w.pc = "write", NEW j
  PROVE  /\ Fits([w EXCEPT !.old = TRUE])
         /\ [w EXCEPT !.old = TRUE].pc = "write" /\ [w EXCEPT !.old = TRUE].old
         /\ [w EXCEPT !.old = TRUE].over = w.over
         /\ Fits([w EXCEPT !.over = @ \ {j}])
         /\ [w EXCEPT !.over = @ \ {j}].pc = "write"
         /\ [w EXCEPT !.over = @ \ {j}].over = w.over \ {j}
         /\ [w EXCEPT !.over = @ \ {j}].old = w.old
         /\ [w EXCEPT !.over = @ \ {j}].sum = w.sum
<1>1. w = [pc |-> "write", sum |-> w.sum, over |-> w.over, old |-> w.old]
  BY DEF Fits
<1>2. \A v : /\ [w EXCEPT !.old = v] = [pc |-> "write", sum |-> w.sum, over |-> w.over, old |-> v]
             /\ [w EXCEPT !.over = v] = [pc |-> "write", sum |-> w.sum, over |-> v, old |-> w.old]
  <2> DEFINE r(s, o, d) == [pc |-> "write", sum |-> s, over |-> o, old |-> d]
  <2>1. \A s, o, d, v : /\ [r(s, o, d) EXCEPT !.old = v] = r(s, o, v)
                        /\ [r(s, o, d) EXCEPT !.over = v] = r(s, v, d)
    OBVIOUS
  <2>2. w = r(w.sum, w.over, w.old)
    BY <1>1
  <2> HIDE DEF r
  <2>3. QED
    <3>1. \A v : [w EXCEPT !.old = v] = r(w.sum, w.over, v) /\ [w EXCEPT !.over = v] = r(w.sum, v, w.old)
      BY <2>1, <2>2
    <3> QED
      BY <3>1, Zenon DEF r
<1>3. \A sum, over, old :
        LET v == [pc |-> "write", sum |-> sum, over |-> over, old |-> old]
        IN Fits(v) /\ v.pc = "write" /\ v.sum = sum /\ v.over = over /\ v.old = old
  BY DEF Fits
<1>4. /\ [w EXCEPT !.old = TRUE] = [pc |-> "write", sum |-> w.sum, over |-> w.over, old |-> TRUE]
      /\ [w EXCEPT !.over = @ \ {j}]
           = [pc |-> "write", sum |-> w.sum, over |-> w.over \ {j}, old |-> w.old]
  BY <1>2, Zenon
<1> QED
  BY <1>3, <1>4

LEMMA RatingShapeInit == RatingInit => RatingShape
<1> SUFFICES ASSUME RatingInit PROVE RatingShape
  OBVIOUS
<1>1. Fits(NoJob)
  BY DEF Fits, NoJob
<1>2. accepted \in [Problem -> Nat]
  BY DEF RatingInit
<1>3. problem = [p \in Problem |-> problem[p]]
  BY DEF RatingInit
<1> QED
  BY <1>1, <1>2, <1>3 DEF RatingInit, RatingShape

LEMMA RatingShapeStep == RatingShape /\ [RatingNext]_ratingVars => RatingShape'
<1> SUFFICES ASSUME RatingShape, [RatingNext]_ratingVars PROVE RatingShape'
  OBVIOUS
<1>1. ASSUME NEW j \in Job, NEW s, JobBecomes(j, s), Fits(s), drifted' \in BOOLEAN,
             problem' = [p \in Problem |-> problem'[p]], accepted' \in [Problem -> Nat]
      PROVE  RatingShape'
  <2>1. /\ job'[j] = s
        /\ \A k \in Job \ {j} : job'[k] = job[k]
        /\ job' = [k \in Job |-> job'[k]]
    BY <1>1, JobIs
  <2>2. \A k \in Job : Fits(job'[k])
    BY <1>1, <2>1 DEF RatingShape
  <2> QED
    BY <1>1, <2>1, <2>2 DEF RatingShape
<1>2. Fits(NoJob) /\ Fits([pc |-> "read"])
  BY DEF Fits, NoJob
<1>3. \A p \in Problem : Fits([pc |-> "solvers", p |-> p]) /\ Fits([pc |-> "count", p |-> p])
  BY DEF Fits
<1>4. /\ problem = [p \in Problem |-> problem[p]] /\ accepted \in [Problem -> Nat]
      /\ drifted \in BOOLEAN
  BY DEF RatingShape
<1>5. ASSUME NEW j \in Job, ReadSolved(j) PROVE RatingShape'
  <2>1. Fits([pc |-> "write", sum |-> TopSum, over |-> Writers, old |-> FALSE])
    BY DEF Fits
  <2> QED
    BY <1>1, <1>4, <1>5, <2>1 DEF ReadSolved
<1>6. ASSUME NEW j \in Job, WriteRating(j) PROVE RatingShape'
  <2>1. \A k \in Job : job'[k] = IF k = j THEN NoJob
                                ELSE IF job[k].pc # "write" THEN job[k]
                                ELSE IF k \in job[j].over THEN [job[k] EXCEPT !.old = TRUE]
                                ELSE [job[k] EXCEPT !.over = @ \ {j}]
    BY <1>6 DEF WriteRating
  <2>2. \A k \in Job : Fits(job'[k])
    <3> SUFFICES ASSUME NEW k \in Job PROVE Fits(job'[k])
      OBVIOUS
    <3>1. Fits(job[k])
      BY DEF RatingShape
    <3>2. CASE k = j
      BY <1>2, <2>1, <3>2
    <3>3. CASE k # j /\ job[k].pc # "write"
      BY <2>1, <3>1, <3>3
    <3>4. CASE k # j /\ job[k].pc = "write"
      <4>1. Fits([job[k] EXCEPT !.old = TRUE]) /\ Fits([job[k] EXCEPT !.over = @ \ {j}])
        BY <3>1, <3>4, WriterFits
      <4> QED
        BY <2>1, <3>4, <4>1
    <3> QED
      BY <3>2, <3>3, <3>4
  <2>3. job' = [k \in Job |-> job'[k]]
    BY <1>6 DEF WriteRating
  <2> QED
    BY <1>4, <1>6, <2>2, <2>3 DEF WriteRating, RatingShape
<1>7. ASSUME NEW j \in Job, RecomputeAll(j) \/ CountAccepted(j) \/ FindSolvers(j) \/ JobStops(j)
      PROVE  RatingShape'
  BY <1>1, <1>2, <1>4, <1>7 DEF RecomputeAll, CountAccepted, FindSolvers, JobStops
<1>8. ASSUME NEW j \in Job, UpdateProblem(j) PROVE RatingShape'
  <2>1. PICK row, asks : WriteProblem(j, row, asks)
    BY <1>8, Zenon DEF UpdateProblem
  <2>2. job[j].p \in Problem
    BY <1>8, JobsHave DEF UpdateProblem
  <2> QED
    BY <1>1, <1>2, <1>3, <1>4, <2>1, <2>2 DEF WriteProblem
<1>9. ASSUME NEW j \in Job, NEW p \in Problem, Accept(j, p) \/ Publish(j, p) PROVE RatingShape'
  <2>1. CASE Accept(j, p)
    <3>1. accepted' \in [Problem -> Nat]
      BY <1>4, <2>1 DEF Accept
    <3> QED
      BY <1>1, <1>3, <1>4, <2>1, <3>1 DEF Accept
  <2>2. CASE Publish(j, p)
    <3>1. problem' = [q \in Problem |-> problem'[q]]
      BY <1>4, <2>2 DEF Publish
    <3> QED
      BY <1>1, <1>3, <1>4, <2>2, <3>1 DEF Publish
  <2> QED
    BY <1>9, <2>1, <2>2
<1>10. ASSUME NEW j \in Job, NEW p \in Problem, NEW admin \in BOOLEAN, FindProblem(j, p, admin)
       PROVE  RatingShape'
  <2> DEFINE u == [pc |-> "update", p |-> p, admin |-> admin,
                   published |-> problem[p].published, plain |-> problem[p].plain]
  <2>1. u.pc = "update" /\ u.p = p
    OBVIOUS
  <2>2. Fits(u)
    BY <2>1 DEF Fits
  <2> QED
    BY <1>1, <1>4, <1>10, <2>2 DEF FindProblem
<1>11. ASSUME NEW p \in Problem, ChangeSilently(p) PROVE RatingShape'
  BY <1>4, <1>11 DEF ChangeSilently, RatingShape
<1>12. CASE UNCHANGED ratingVars
  BY <1>12 DEF ratingVars, RatingShape
<1> QED
  BY <1>5, <1>6, <1>7, <1>8, <1>9, <1>10, <1>11, <1>12 DEF RatingNext

-----------------------------------------------------------------------------

\* A job that writes no sum moves on: it will read again, or the sum is what it was.
LEMMA OthersWait ==
  ASSUME RatingInv, NEW j \in Job, NEW s, job'[j] = s, \A k \in Job \ {j} : job'[k] = job[k],
         job[j].pc # "write", s.pc # "write", ~drifted, rating' = rating,
         WillRead(j) => WillRead(j)', WillRead(j)' \/ TopSum' = TopSum,
         \A k \in Job \ {j} : WillRead(k) => WillRead(k)'
  PROVE  RatingInv'
<1>1. Writers' = Writers /\ \A k \in Writers : job'[k] = job[k]
  BY DEF Writers
<1>2. SumsAreOrdered'
  BY <1>1 DEF RatingInv, SumsAreOrdered
<1>3. CASE WillRead(j)'
  BY <1>2, <1>3 DEF RatingInv, RatingComes
<1>4. CASE TopSum' = TopSum
  <2>1. \A n \in Job : IsNewest(n) => IsNewest(n)'
    BY <1>1, <1>4 DEF IsNewest
  <2>2. (\A k \in Writers : job[k].old) => (\A k \in Writers : job[k].old)'
    BY <1>1
  <2>3. RatingComes'
    BY <1>4, <2>1, <2>2 DEF RatingInv, RatingComes
  <2> QED
    BY <1>2, <2>3 DEF RatingInv
<1> QED
  BY <1>3, <1>4

LEMMA AcceptKeeps ==
  ASSUME RatingShape, RatingInv, NEW j \in Job, NEW p \in Problem, Accept(j, p), ~drifted'
  PROVE  RatingInv'
<1> DEFINE s == [pc |-> "count", p |-> p]
<1>1. /\ job'[j] = s /\ \A k \in Job \ {j} : job'[k] = job[k]
      /\ s.pc = "count" /\ s.p = p /\ job[j].pc = "none" /\ rating' = rating /\ problem' = problem
  BY JobIs, JobsHave DEF Accept
<1>2. ~drifted /\ \A k \in Job : ~(job[k].pc = "count" /\ job[k].p = p)
  BY DEF Accept, RatingShape
<1>3. \A q \in Problem : accepted'[q] = IF q = p THEN accepted[p] + 1 ELSE accepted[q]
  BY DEF Accept, RatingShape
<1>4. \A q \in Problem : accepted[q] \in Nat
  BY DEF RatingShape
<1> HIDE DEF s
<1>5. \A k \in Job \ {j} : WillRead(k) => WillRead(k)'
  <2> SUFFICES ASSUME NEW k \in Job \ {j}, WillRead(k) PROVE WillRead(k)'
    OBVIOUS
  <2>1. job[k].pc \in {"count", "solvers"} => job[k].p \in Problem
    BY JobsHave
  <2> QED
    BY <1>1, <1>2, <1>3, <1>4, <2>1 DEF WillRead, IsFirstAccept
<1>6. WillRead(j)' \/ TopSum' = TopSum
  <2>1. CASE accepted[p] = 0
    BY <1>1, <1>3, <2>1 DEF WillRead, IsFirstAccept
  <2>2. CASE accepted[p] # 0
    <3>1. Solved' = Solved
      BY <1>1, <1>3, <1>4, <2>2 DEF Solved, Counts
    <3> QED
      BY <1>1, <3>1, SumFollows
  <2> QED
    BY <2>1, <2>2
<1>7. ~WillRead(j)
  BY <1>1 DEF WillRead
<1> QED
  BY <1>1, <1>2, <1>5, <1>6, <1>7, OthersWait

\* A problem nobody has an accepted submission for is in no sum.
LEMMA UnsolvedIsFree ==
  ASSUME RatingShape, NEW p \in Problem, accepted[p] = 0, accepted' = accepted, NEW row,
         problem' = [problem EXCEPT ![p] = row]
  PROVE  TopSum' = TopSum
<1>1. \A q \in Problem \ {p} : problem'[q] = problem[q]
  BY DEF RatingShape
<1>2. Solved' = Solved
  BY <1>1 DEF Solved, Counts
<1>3. p \notin Solved
  BY DEF Solved
<1>4. \A q \in Solved : problem'[q].points = problem[q].points
  BY <1>1, <1>3 DEF Solved
<1> QED
  BY <1>2, <1>4, SumFollows

LEMMA SameSum ==
  ASSUME UNCHANGED <<problem, accepted>>
  PROVE  TopSum' = TopSum
<1>1. Solved' = Solved
  BY DEF Solved, Counts
<1> QED
  BY <1>1, SumFollows

\* A step of one job that changes no verdict.
LEMMA JobSteps ==
  ASSUME RatingShape, RatingInv, ~drifted, NEW j \in Job, NEW s, JobBecomes(j, s),
         UNCHANGED <<accepted, rating>>, job[j].pc # "write", s.pc # "write",
         WillRead(j) => WillRead(j)', WillRead(j)' \/ TopSum' = TopSum
  PROVE  RatingInv'
<1>1. job'[j] = s /\ \A k \in Job \ {j} : job'[k] = job[k]
  BY JobIs
<1>2. \A k \in Job \ {j} : WillRead(k) => WillRead(k)'
  BY <1>1 DEF WillRead, IsFirstAccept
<1> QED
  BY <1>1, <1>2, OthersWait

LEMMA FewerStepsKeep ==
  ASSUME RatingShape, RatingInv, ~drifted, NEW j \in Job,
         \/ RecomputeAll(j) \/ CountAccepted(j) \/ FindSolvers(j)
         \/ \E p \in Problem, admin \in BOOLEAN : FindProblem(j, p, admin)
  PROVE  RatingInv'
<1>1. NoJob.pc = "none"
  BY DEF NoJob
<1>2. CASE RecomputeAll(j)
  <2>1. job[j].pc = "none" /\ JobBecomes(j, [pc |-> "read"]) /\ UNCHANGED <<problem, accepted, rating>>
    BY <1>1, <1>2 DEF RecomputeAll
  <2>2. ~WillRead(j)
    BY <2>1 DEF WillRead
  <2> QED
    BY <2>1, <2>2, SameSum, JobSteps
<1>3. CASE CountAccepted(j)
  <2> DEFINE s == IF IsFirstAccept(job[j].p) THEN [pc |-> "read"] ELSE NoJob
  <2>1. job[j].pc = "count" /\ JobBecomes(j, s) /\ UNCHANGED <<problem, accepted, rating>>
    BY <1>3 DEF CountAccepted
  <2>2. s.pc # "write" /\ job'[j] = s
    BY <1>1, <2>1, JobIs
  <2>3. WillRead(j) => WillRead(j)'
    BY <2>1, <2>2 DEF WillRead
  <2> HIDE DEF s
  <2> QED
    BY <2>1, <2>2, <2>3, SameSum, JobSteps
<1>4. CASE FindSolvers(j)
  <2> DEFINE s == IF accepted[job[j].p] > 0 THEN [pc |-> "read"] ELSE NoJob
  <2>1. job[j].pc = "solvers" /\ JobBecomes(j, s) /\ UNCHANGED <<problem, accepted, rating>>
    BY <1>4 DEF FindSolvers
  <2>2. s.pc # "write" /\ job'[j] = s
    BY <1>1, <2>1, JobIs
  <2>3. WillRead(j) => WillRead(j)'
    BY <2>1, <2>2 DEF WillRead
  <2> HIDE DEF s
  <2> QED
    BY <2>1, <2>2, <2>3, SameSum, JobSteps
<1>5. CASE \E p \in Problem, admin \in BOOLEAN : FindProblem(j, p, admin)
  <2>1. PICK s : /\ s.pc = "update" /\ JobBecomes(j, s) /\ job[j].pc = "none"
                 /\ UNCHANGED <<problem, accepted, rating>>
    BY <1>1, <1>5 DEF FindProblem
  <2>2. ~WillRead(j)
    BY <2>1 DEF WillRead
  <2> QED
    BY <2>1, <2>2, SameSum, JobSteps
<1> QED
  BY <1>2, <1>3, <1>4, <1>5

LEMMA PublishKeeps ==
  ASSUME RatingShape, RatingInv, ~drifted, NEW j \in Job, NEW p \in Problem, Publish(j, p)
  PROVE  RatingInv'
<1> DEFINE s == [pc |-> "solvers", p |-> p]
<1>1. /\ JobBecomes(j, s) /\ UNCHANGED <<accepted, rating>> /\ s.pc = "solvers" /\ s.p = p
      /\ job[j].pc = "none"
  BY DEF Publish, NoJob
<1>2. job'[j] = s
  BY <1>1, JobIs
<1>3. ~WillRead(j)
  BY <1>1 DEF WillRead
<1> HIDE DEF s
<1>4. WillRead(j)' \/ TopSum' = TopSum
  <2>1. CASE accepted[p] = 0
    <3>1. PICK row : problem' = [problem EXCEPT ![p] = row]
      BY Zenon DEF Publish
    <3> QED
      BY <1>1, <2>1, <3>1, UnsolvedIsFree
  <2>2. CASE accepted[p] # 0
    BY <1>1, <1>2, <2>2 DEF WillRead, RatingShape
  <2> QED
    BY <2>1, <2>2
<1> QED
  BY <1>1, <1>3, <1>4, JobSteps

LEMMA UpdateKeeps ==
  ASSUME RatingShape, RatingInv, ~drifted, ~drifted', NEW j \in Job, UpdateProblem(j)
  PROVE  RatingInv'
<1>1. PICK row, asks : WriteProblem(j, row, asks)
  BY Zenon DEF UpdateProblem
<1>2. job[j].pc = "update" /\ job[j].p \in Problem /\ ~WillRead(j)
  BY JobsHave DEF UpdateProblem, WillRead
<1> DEFINE p == job[j].p
           heard == job[j].published /\ asks
           s == IF heard THEN [pc |-> "solvers", p |-> p] ELSE NoJob
<1>3. JobBecomes(j, s) /\ UNCHANGED <<accepted, rating>> /\ (problem' = problem \/ heard)
  BY <1>1 DEF WriteProblem
<1>4. s.pc # "write" /\ (heard => s.pc = "solvers" /\ s.p = p)
  BY DEF NoJob
<1>5. PICK r : problem' = [problem EXCEPT ![p] = r]
  BY <1>1, Zenon DEF WriteProblem
<1>6. job'[j] = s
  BY <1>3, JobIs
<1> HIDE DEF s, heard
<1>7. WillRead(j)' \/ TopSum' = TopSum
  <2>1. CASE problem' = problem
    BY <1>3, <2>1, SameSum
  <2>2. CASE accepted[p] = 0
    BY <1>2, <1>3, <1>5, <2>2, UnsolvedIsFree
  <2>3. CASE heard /\ accepted[p] # 0
    BY <1>2, <1>3, <1>4, <1>6, <2>3 DEF WillRead, RatingShape
  <2> QED
    BY <1>3, <2>1, <2>2, <2>3
<1> QED
  BY <1>2, <1>3, <1>4, <1>7, JobSteps

\* The sum that is read is right, and newer than every other under way.
LEMMA ReadKeeps ==
  ASSUME RatingShape, RatingInv, NEW j \in Job, ReadSolved(j), ~drifted'
  PROVE  RatingInv'
<1> DEFINE s == [pc |-> "write", sum |-> TopSum, over |-> Writers, old |-> FALSE]
<1>1. /\ job'[j] = s /\ \A k \in Job \ {j} : job'[k] = job[k]
      /\ job[j].pc = "read"
  BY JobIs DEF ReadSolved
<1>2. s.pc = "write" /\ s.sum = TopSum /\ s.over = Writers /\ ~s.old
  OBVIOUS
<1> HIDE DEF s
<1>3. Writers' = Writers \cup {j} /\ j \notin Writers /\ Writers \subseteq Job
  BY <1>1, <1>2 DEF Writers
<1>4. TopSum' = TopSum
  BY SameSum DEF ReadSolved
<1>5. ~drifted \/ Writers = {}
  BY DEF ReadSolved, RatingShape
<1>6. SumsAreOrdered'
  <2>1. \A n \in Writers : job'[n].over \subseteq Writers /\ \A k \in job[n].over : n \notin job[k].over
    BY <1>1, <1>3, <1>5 DEF RatingInv, SumsAreOrdered
  <2> SUFFICES ASSUME NEW n \in Writers \cup {j}
               PROVE  job'[n].over \subseteq Writers' /\ \A k \in job'[n].over : n \notin job'[k].over
    BY <1>3 DEF SumsAreOrdered
  <2>2. CASE n = j
    BY <1>1, <1>2, <1>3, <2>1, <2>2
  <2>3. CASE n \in Writers
    BY <1>1, <1>3, <2>1, <2>3
  <2> QED
    BY <2>2, <2>3
<1>7. IsNewest(j)'
  BY <1>1, <1>2, <1>3, <1>4 DEF IsNewest
<1> QED
  BY <1>6, <1>7 DEF RatingInv, RatingComes

\* What a write leaves of the other sums under way.
LEMMA WriteLeaves ==
  ASSUME RatingShape, NEW j \in Job, WriteRating(j)
  PROVE  /\ Writers' = Writers \ {j} /\ \A k \in Job \ Writers : job'[k] = job[k]
         /\ \A k \in Writers \ {j} :
              IF k \in job[j].over THEN job'[k].old /\ job'[k].over = job[k].over
              ELSE /\ job'[k].old = job[k].old /\ job'[k].sum = job[k].sum
                   /\ job'[k].over = job[k].over \ {j}
<1>1. job'[j] = NoJob
  BY DEF WriteRating
<1>2. /\ \A k \in Job \ Writers : job'[k] = job[k]
      /\ \A k \in Writers \ {j} :
           job'[k] = IF k \in job[j].over THEN [job[k] EXCEPT !.old = TRUE]
                     ELSE [job[k] EXCEPT !.over = @ \ {j}]
  <2>1. job[j].pc = "write"
    BY DEF WriteRating
  <2> QED
    BY <2>1, Zenon DEF WriteRating, Writers
<1>3. \A k \in Writers \ {j} :
        /\ job'[k].pc = "write"
        /\ IF k \in job[j].over THEN job'[k].old /\ job'[k].over = job[k].over
           ELSE /\ job'[k].old = job[k].old /\ job'[k].sum = job[k].sum
                /\ job'[k].over = job[k].over \ {j}
  <2> SUFFICES ASSUME NEW k \in Writers \ {j}
               PROVE  /\ job'[k].pc = "write"
                      /\ IF k \in job[j].over THEN job'[k].old /\ job'[k].over = job[k].over
                         ELSE /\ job'[k].old = job[k].old /\ job'[k].sum = job[k].sum
                              /\ job'[k].over = job[k].over \ {j}
    OBVIOUS
  <2>1. Fits(job[k]) /\ job[k].pc = "write"
    BY DEF RatingShape, Writers
  <2>2. CASE k \in job[j].over
    <3>1. job'[k] = [job[k] EXCEPT !.old = TRUE]
      BY <1>2, <2>2, Zenon
    <3>2. /\ [job[k] EXCEPT !.old = TRUE].pc = "write" /\ [job[k] EXCEPT !.old = TRUE].old
          /\ [job[k] EXCEPT !.old = TRUE].over = job[k].over
      BY <2>1, WriterFits
    <3>3. job'[k].pc = "write" /\ job'[k].old /\ job'[k].over = job[k].over
      BY <3>1, <3>2, Zenon
    <3> QED
      BY <2>2, <3>3
  <2>3. CASE k \notin job[j].over
    <3>1. job'[k] = [job[k] EXCEPT !.over = @ \ {j}]
      BY <1>2, <2>3, Zenon
    <3>2. /\ [job[k] EXCEPT !.over = @ \ {j}].pc = "write"
          /\ [job[k] EXCEPT !.over = @ \ {j}].over = job[k].over \ {j}
          /\ [job[k] EXCEPT !.over = @ \ {j}].old = job[k].old
          /\ [job[k] EXCEPT !.over = @ \ {j}].sum = job[k].sum
      BY <2>1, WriterFits
    <3>3. /\ job'[k].pc = "write" /\ job'[k].over = job[k].over \ {j}
          /\ job'[k].old = job[k].old /\ job'[k].sum = job[k].sum
      BY <3>1, <3>2, Zenon
    <3> QED
      BY <2>3, <3>3
  <2> QED
    BY <2>2, <2>3
<1>4. Writers' = Writers \ {j}
  BY <1>1, <1>2, <1>3 DEF Writers, NoJob
<1> QED
  BY <1>2, <1>3, <1>4

LEMMA WriteKeepsRating ==
  ASSUME RatingShape, RatingInv, NEW j \in Job, WriteRating(j), ~drifted'
  PROVE  RatingInv'
<1>1. ~drifted /\ ~job[j].old /\ rating' = job[j].sum /\ j \in Writers
  BY DEF WriteRating, Writers, RatingShape
<1>2. SumsAreOrdered /\ RatingComes
  BY <1>1 DEF RatingInv
<1>3. TopSum' = TopSum
  BY SameSum DEF WriteRating
<1>4. /\ Writers' = Writers \ {j} /\ Writers \subseteq Job
      /\ \A k \in Writers \ {j} : job'[k].over \subseteq job[k].over
  BY WriteLeaves DEF Writers
<1>5. SumsAreOrdered'
  <2> SUFFICES ASSUME NEW n \in Writers \ {j}
               PROVE  job'[n].over \subseteq Writers \ {j} /\ \A k \in job'[n].over : n \notin job'[k].over
    BY <1>4 DEF SumsAreOrdered
  <2>1. job[n].over \subseteq Writers /\ \A k \in job[n].over : n \notin job[k].over
    BY <1>2 DEF SumsAreOrdered
  <2>2. j \notin job'[n].over
    <3>1. n \in job[j].over => j \notin job[n].over
      BY <1>1, <1>2 DEF SumsAreOrdered
    <3> QED
      BY <3>1, WriteLeaves
  <2> QED
    BY <1>4, <2>1, <2>2
<1>6. CASE \E k \in Job : WillRead(k)
  <2>1. PICK k \in Job : WillRead(k)
    BY <1>6
  <2>2. k \notin Writers
    BY <2>1 DEF WillRead, Writers
  <2>3. WillRead(k)'
    BY <2>1, <2>2, WriteLeaves DEF WillRead, WriteRating, IsFirstAccept
  <2> QED
    BY <1>5, <2>3 DEF RatingInv, RatingComes
<1>7. CASE IsNewest(j)
  <2>1. rating' = TopSum'
    BY <1>1, <1>3, <1>7 DEF IsNewest
  <2>2. \A k \in Writers' : job'[k].old
    BY <1>4, <1>7, WriteLeaves DEF IsNewest
  <2> QED
    BY <1>5, <2>1, <2>2 DEF RatingInv, RatingComes
<1>8. CASE \E n \in Job : n # j /\ IsNewest(n)
  <2>1. PICK n \in Job : n # j /\ IsNewest(n)
    BY <1>8
  <2>2. n \in Writers \ {j} /\ j \in job[n].over
    BY <1>1, <2>1 DEF IsNewest
  <2>3. n \notin job[j].over
    BY <1>2, <2>2 DEF SumsAreOrdered
  <2>4. IsNewest(n)'
    BY <1>3, <1>4, <2>1, <2>2, <2>3, WriteLeaves DEF IsNewest
  <2> QED
    BY <1>5, <2>4 DEF RatingInv, RatingComes
<1>9. CASE \A k \in Writers : job[k].old
  BY <1>1, <1>9
<1> QED
  BY <1>2, <1>6, <1>7, <1>8, <1>9 DEF RatingComes

LEMMA RatingInvInit == RatingInit => RatingInv
<1> SUFFICES ASSUME RatingInit PROVE RatingInv
  OBVIOUS
<1>1. \A k \in Job : job[k].pc = "none"
  BY DEF RatingInit, NoJob
<1>2. Writers = {}
  BY <1>1 DEF Writers
<1>3. Solved = {}
  BY DEF RatingInit, Solved
<1>4. rating = TopSum
  BY <1>3, NoneSolved DEF RatingInit
<1> QED
  BY <1>2, <1>4 DEF RatingInv, SumsAreOrdered, RatingComes

LEMMA RatingInvStep == RatingShape /\ RatingInv /\ [RatingNext]_ratingVars => RatingInv'
<1> SUFFICES ASSUME RatingShape, RatingInv, [RatingNext]_ratingVars, ~drifted' PROVE RatingInv'
  BY DEF RatingInv
<1>1. ASSUME NEW j \in Job, NEW p \in Problem, Accept(j, p) PROVE RatingInv'
  BY <1>1, AcceptKeeps
<1>2. ASSUME NEW j \in Job, NEW p \in Problem, Publish(j, p) PROVE RatingInv'
  BY <1>2, PublishKeeps DEF Publish
<1>3. ASSUME NEW j \in Job, UpdateProblem(j) PROVE RatingInv'
  <2>1. ~drifted
    BY <1>3, Zenon DEF UpdateProblem, WriteProblem
  <2> QED
    BY <1>3, <2>1, UpdateKeeps
<1>4. ASSUME NEW j \in Job, \/ RecomputeAll(j) \/ CountAccepted(j) \/ FindSolvers(j)
                            \/ \E p \in Problem, admin \in BOOLEAN : FindProblem(j, p, admin)
      PROVE  RatingInv'
  <2>1. ~drifted
    BY <1>4 DEF RecomputeAll, CountAccepted, FindSolvers, FindProblem
  <2> QED
    BY <1>4, <2>1, FewerStepsKeep
<1>5. ASSUME NEW j \in Job, ReadSolved(j) PROVE RatingInv'
  BY <1>5, ReadKeeps
<1>6. ASSUME NEW j \in Job, WriteRating(j) PROVE RatingInv'
  BY <1>6, WriteKeepsRating
<1>7. ASSUME (\E j \in Job : JobStops(j)) \/ \E p \in Problem : ChangeSilently(p) PROVE FALSE
  BY <1>7 DEF JobStops, ChangeSilently
<1>8. CASE UNCHANGED ratingVars
  <2>1. UNCHANGED <<problem, accepted, rating, job, drifted>>
    BY <1>8 DEF ratingVars
  <2>2. TopSum' = TopSum /\ Writers' = Writers /\ \A j \in Job : WillRead(j)' = WillRead(j)
    BY <2>1, SameSum DEF Writers, WillRead, IsFirstAccept
  <2> QED
    BY <2>1, <2>2 DEF RatingInv, SumsAreOrdered, RatingComes, IsNewest
<1> QED
  BY <1>1, <1>2, <1>3, <1>4, <1>5, <1>6, <1>7, <1>8 DEF RatingNext

\* The rating is the sum it stands for whenever nothing runs, but for the changes that ask
\* for no recomputation and those that RatingIsTrue names beside them: for any number of
\* problems, requests at once, levels and TOP_N.
THEOREM RatingCatchesUp == RatingSpec => []RatingIsTrue
<1>1. RatingInit => RatingShape /\ RatingInv
  BY RatingShapeInit, RatingInvInit
<1>2. RatingShape /\ RatingInv /\ [RatingNext]_ratingVars => (RatingShape /\ RatingInv)'
  BY RatingShapeStep, RatingInvStep
<1>3. RatingInv => RatingIsTrue
  <2> SUFFICES ASSUME RatingInv, \A j \in Job : job[j] = NoJob, ~drifted PROVE rating = TopSum
    BY DEF RatingIsTrue
  <2>1. \A j \in Job : job[j].pc = "none"
    BY DEF NoJob
  <2> QED
    BY <2>1 DEF RatingInv, RatingComes, WillRead, IsNewest, Writers
<1> QED
  BY <1>1, <1>2, <1>3, PTL DEF RatingSpec

-----------------------------------------------------------------------------
(***************************************************************************)
(* Sums over a finite set.  The theorems of the library that state an      *)
(* induction take an operator; a smallest counterexample does as well.     *)
(***************************************************************************)

\* A family of subsets of a finite set that has a member has a smallest one.
LEMMA SmallestSet ==
  ASSUME NEW S, IsFiniteSet(S), NEW F, F \subseteq SUBSET S, F # {}
  PROVE  \E T \in F : \A U \in F : U \subseteq T => U = T
<1>1. IsWellFoundedOn(StrictSubsetOrdering(S), SUBSET S)
  BY FS_StrictSubsetOrderingWellFounded, FS_FiniteSubsetsOfFinite
<1>2. PICK T \in F : \A U \in F : ~ (<<U, T>> \in StrictSubsetOrdering(S))
  BY <1>1, WFMin
<1>3. \A U \in F : U \subseteq T /\ U # T => <<U, T>> \in StrictSubsetOrdering(S)
  BY DEF StrictSubsetOrdering
<1>4. \A U \in F : U \subseteq T => U = T
  BY <1>2, <1>3
<1> QED
  BY <1>4, Zenon

\* The element that a fold takes out of s first.
Chosen(s) == CHOOSE x \in s : TRUE

LEMMA ChosenIn == \A s : s # {} => Chosen(s) \in s
  BY DEF Chosen

\* g adds f up over each subset of T.
AddsUp(g, f, T) ==
  /\ g = [s \in SUBSET T |-> g[s]]
  /\ \A s \in SUBSET T : g[s] = IF s = {} THEN 0 ELSE f[Chosen(s)] + g[s \ {Chosen(s)}]

LEMMA SumsAgree ==
  ASSUME NEW S, IsFiniteSet(S), NEW f, NEW T \in SUBSET S, NEW U \in SUBSET T, NEW g, NEW h,
         AddsUp(g, f, T), AddsUp(h, f, U)
  PROVE  \A s \in SUBSET U : g[s] = h[s]
<1> DEFINE F == {s \in SUBSET U : g[s] # h[s]}
<1> SUFFICES ASSUME F # {} PROVE FALSE
  OBVIOUS
<1>1. PICK s \in F : \A t \in F : t \subseteq s => t = s
  <2>1. F \subseteq SUBSET S
    OBVIOUS
  <2> HIDE DEF F
  <2> QED
    BY <2>1, SmallestSet
<1>2. s \in SUBSET U /\ s \in SUBSET T /\ g[s] # h[s]
  OBVIOUS
<1>3. s # {}
  BY <1>2 DEF AddsUp
<1>4. PICK t : t = s \ {Chosen(s)}
  OBVIOUS
<1>5. t \in SUBSET U /\ t \subseteq s /\ t # s
  BY <1>2, <1>3, <1>4, ChosenIn
<1>6. g[t] = h[t]
  BY <1>1, <1>5
<1>7. g[s] = f[Chosen(s)] + g[t]
  BY <1>2, <1>3, <1>4 DEF AddsUp
<1>8. h[s] = f[Chosen(s)] + h[t]
  BY <1>2, <1>3, <1>4 DEF AddsUp
<1> QED
  BY <1>2, <1>6, <1>7, <1>8

LEMMA SumsExist ==
  ASSUME NEW S, IsFiniteSet(S), NEW f
  PROVE  \A T \in SUBSET S : \E g : AddsUp(g, f, T)
<1> DEFINE F == {T \in SUBSET S : ~ \E g : AddsUp(g, f, T)}
<1> SUFFICES ASSUME F # {} PROVE FALSE
  OBVIOUS
<1>1. PICK T \in F : \A U \in F : U \subseteq T => U = T
  <2>1. F \subseteq SUBSET S
    OBVIOUS
  <2> HIDE DEF F
  <2> QED
    BY <2>1, SmallestSet
<1>2. T \in SUBSET S /\ ~ \E g : AddsUp(g, f, T)
  OBVIOUS
<1> DEFINE sub(U) == CHOOSE g : AddsUp(g, f, U)
           less(s) == s \ {Chosen(s)}
           whole == IF T = {} THEN 0 ELSE f[Chosen(T)] + sub(less(T))[less(T)]
           g == [s \in SUBSET T |-> IF s = T THEN whole ELSE sub(s)[s]]
<1>3. \A U \in SUBSET T : U # T => AddsUp(sub(U), f, U)
  <2> SUFFICES ASSUME NEW U \in SUBSET T, U # T PROVE \E h : AddsUp(h, f, U)
    OBVIOUS
  <2>1. U \in SUBSET S /\ U \notin F
    BY <1>1, <1>2
  <2> QED
    BY <2>1
<1> HIDE DEF F, sub
<1>4. \A s \in SUBSET T : s # {} => less(s) \in SUBSET T /\ less(s) # T /\ less(s) \in SUBSET s /\ less(s) # s
  BY ChosenIn
<1>5. ASSUME NEW s \in SUBSET T
      PROVE  g[s] = IF s = {} THEN 0 ELSE f[Chosen(s)] + g[less(s)]
  <2>1. CASE s = T
    <3>1. T # {} => g[less(T)] = sub(less(T))[less(T)]
      BY <1>4
    <3> QED
      BY <2>1, <3>1
  <2>2. CASE s # T
    <3>1. g[s] = sub(s)[s] /\ AddsUp(sub(s), f, s)
      BY <1>3, <2>2
    <3>2. s = {} => sub(s)[s] = 0
      BY <3>1 DEF AddsUp
    <3>3. ASSUME s # {} PROVE sub(s)[s] = f[Chosen(s)] + g[less(s)]
      <4>1. sub(s)[s] = f[Chosen(s)] + sub(s)[less(s)]
        BY <3>1, <3>3 DEF AddsUp
      <4>2. /\ less(s) \in SUBSET s /\ less(s) \in SUBSET less(s)
            /\ g[less(s)] = sub(less(s))[less(s)] /\ AddsUp(sub(less(s)), f, less(s))
        BY <1>3, <1>4, <3>3
      <4>3. s \in SUBSET S
        BY <1>2
      <4> HIDE DEF g, less
      <4>4. sub(s)[less(s)] = sub(less(s))[less(s)]
        BY <3>1, <4>2, <4>3, SumsAgree
      <4> QED
        BY <4>1, <4>2, <4>4
    <3> QED
      BY <3>1, <3>2, <3>3
  <2> QED
    BY <2>1, <2>2
<1>6. g = [s \in SUBSET T |-> g[s]]
  OBVIOUS
<1> HIDE DEF g
<1>7. AddsUp(g, f, T)
  BY <1>5, <1>6 DEF AddsUp
<1> QED
  BY <1>2, <1>7

\* SumFunction, a fold of the library, is what such a function says.
LEMMA SumFunctionIs ==
  ASSUME NEW f, IsFiniteSet(DOMAIN f)
  PROVE  \E g : AddsUp(g, f, DOMAIN f) /\ SumFunction(f) = g[DOMAIN f]
<1> DEFINE step(g) == [s \in SUBSET DOMAIN f |->
                         IF s = {} THEN 0
                         ELSE f[CHOOSE x \in s : TRUE] + g[s \ {CHOOSE x \in s : TRUE}]]
           fix == CHOOSE g : g = step(g)
<1>1. SumFunction(f) = fix[DOMAIN f]
  BY Zenon DEF SumFunction, SumFunctionOnSet, FoldFunctionOnSet, MapThenFoldSet
<1>2. PICK g : AddsUp(g, f, DOMAIN f)
  <2>1. DOMAIN f \in SUBSET DOMAIN f
    OBVIOUS
  <2> QED
    BY <2>1, SumsExist
<1>3. \A h : step(h) = [s \in SUBSET DOMAIN f |-> IF s = {} THEN 0 ELSE f[Chosen(s)] + h[s \ {Chosen(s)}]]
  BY DEF Chosen
<1> HIDE DEF step
<1>4. g = step(g)
  <2>1. g = [s \in SUBSET DOMAIN f |-> g[s]]
    BY <1>2 DEF AddsUp
  <2>2. \A s \in SUBSET DOMAIN f : g[s] = step(g)[s]
    BY <1>2, <1>3 DEF AddsUp
  <2>3. step(g) = [s \in SUBSET DOMAIN f |-> step(g)[s]]
    BY <1>3
  <2> QED
    BY <2>1, <2>2, <2>3
<1>5. fix = step(fix)
  BY <1>4
<1> HIDE DEF fix
<1>6. \A s \in SUBSET DOMAIN f : step(fix)[s] = IF s = {} THEN 0 ELSE f[Chosen(s)] + fix[s \ {Chosen(s)}]
  BY <1>3
<1>7. step(fix) = [s \in SUBSET DOMAIN f |-> step(fix)[s]]
  BY <1>3
<1>8. AddsUp(fix, f, DOMAIN f)
  BY <1>5, <1>6, <1>7 DEF AddsUp
<1> QED
  BY <1>1, <1>8

LEMMA SumOfNaturals ==
  ASSUME NEW D, IsFiniteSet(D), NEW f \in [D -> Nat]
  PROVE  SumFunction(f) \in Nat
<1>1. PICK g : AddsUp(g, f, D) /\ SumFunction(f) = g[D]
  BY SumFunctionIs
<1> DEFINE F == {s \in SUBSET D : g[s] \notin Nat}
<1> SUFFICES ASSUME F # {} PROVE FALSE
  BY <1>1
<1>2. PICK s \in F : \A t \in F : t \subseteq s => t = s
  <2>1. F \subseteq SUBSET D
    OBVIOUS
  <2> HIDE DEF F
  <2> QED
    BY <2>1, SmallestSet
<1>3. s \in SUBSET D /\ g[s] \notin Nat
  OBVIOUS
<1>4. s # {}
  <2>1. {} \in SUBSET D
    OBVIOUS
  <2>2. g[{}] = 0
    BY <1>1, <2>1 DEF AddsUp
  <2> QED
    BY <1>3, <2>2
<1>5. PICK t, x : t = s \ {Chosen(s)} /\ x = Chosen(s)
  OBVIOUS
<1>6. t \in SUBSET D /\ t \subseteq s /\ t # s /\ x \in D
  BY <1>3, <1>4, <1>5, ChosenIn
<1>7. g[t] \in Nat /\ f[x] \in Nat
  BY <1>2, <1>6
<1>8. g[s] = f[x] + g[t]
  BY <1>1, <1>3, <1>4, <1>5 DEF AddsUp
<1> QED
  BY <1>3, <1>7, <1>8

LEMMA LargestNumber ==
  ASSUME NEW S, IsFiniteSet(S)
  PROVE  S \subseteq Nat /\ S # {} => \E m \in S : \A n \in S : m >= n
<1> DEFINE Bounded(T) == \E m \in T : \A n \in T : m >= n
           F == {T \in SUBSET S : T # {} /\ ~ Bounded(T)}
<1>0. F # {} => \E T \in F : \A U \in F : U \subseteq T => U = T
  <2>1. F \subseteq SUBSET S
    OBVIOUS
  <2> HIDE DEF F
  <2> QED
    BY <2>1, SmallestSet
<1> SUFFICES ASSUME S \subseteq Nat, F # {} PROVE FALSE
  OBVIOUS
<1>1. PICK T \in F : \A U \in F : U \subseteq T => U = T
  BY <1>0
<1>2. T \in SUBSET S /\ T # {} /\ ~ Bounded(T)
  OBVIOUS
<1>3. PICK x \in T : TRUE
  BY <1>2
<1>4. PICK U : U = T \ {x}
  OBVIOUS
<1>5. U \in SUBSET S /\ U \subseteq T /\ U # T /\ T = U \cup {x} /\ x \in Nat
  BY <1>2, <1>3, <1>4
<1>6. CASE U = {}
  BY <1>2, <1>5, <1>6
<1>7. CASE U # {}
  <2>1. Bounded(U)
    BY <1>1, <1>5, <1>7
  <2>2. PICK m \in U : \A n \in U : m >= n
    BY <2>1
  <2>3. m \in Nat /\ m \in T
    BY <1>5, <2>2
  <2>4. CASE m >= x
    BY <1>2, <1>5, <2>2, <2>3, <2>4
  <2>5. CASE x > m
    <3>1. \A n \in T : x >= n
      BY <1>5, <2>2, <2>3, <2>5
    <3> QED
      BY <1>2, <1>3, <3>1
  <2> QED
    BY <1>5, <2>3, <2>4, <2>5
<1> QED
  BY <1>6, <1>7

\* The rating computed is a number, and no choice of as many solved problems has more.
LEMMA TopSumIs ==
  ASSUME IsFiniteSet(Problem), problem \in [Problem -> ProblemRow]
  PROVE  /\ TopSum \in Nat
         /\ \E S \in SUBSET Solved : Cardinality(S) <= TopN /\ TopSum = SumOf(S)
         /\ \A S \in SUBSET Solved : Cardinality(S) <= TopN => SumOf(S) <= TopSum
<1> DEFINE few == {T \in SUBSET Solved : Cardinality(T) <= TopN}
           sums == {SumOf(S) : S \in few}
<1>1. \A S \in few : SumOf(S) \in Nat
  <2> SUFFICES ASSUME NEW S \in few PROVE SumOf(S) \in Nat
    OBVIOUS
  <2>1. S \in SUBSET Problem
    BY DEF Solved
  <2>2. IsFiniteSet(S)
    BY <2>1, FS_Subset
  <2>3. \A p \in Problem : problem[p].points \in Nat
    BY SolverRatingAssumption DEF ProblemRow
  <2>4. [p \in S |-> problem[p].points] \in [S -> Nat]
    BY <2>1, <2>3
  <2> QED
    BY <2>2, <2>4, SumOfNaturals DEF SumOf
<1>2. {} \in few
  <2>1. Cardinality({}) = 0
    BY FS_EmptySet
  <2> QED
    BY <2>1, SolverRatingAssumption
<1>3. IsFiniteSet(sums)
  <2>1. IsFiniteSet(few)
    <3>1. IsFiniteSet(SUBSET Problem)
      BY FS_SUBSET
    <3>2. few \in SUBSET SUBSET Problem
      BY DEF Solved
    <3> QED
      BY <3>1, <3>2, FS_Subset
  <2>2. PICK total : total = [S \in few |-> SumOf(S)]
    OBVIOUS
  <2> HIDE DEF few
  <2>3. total \in [few -> sums]
    BY <2>2
  <2>4. \A n \in sums : \E S \in few : total[S] = n
    BY <2>2
  <2> HIDE DEF sums
  <2>5. total \in Surjection(few, sums)
    BY <2>3, <2>4 DEF Surjection
  <2> QED
    BY <2>1, <2>5, FS_Surjection
<1>4. sums \subseteq Nat /\ sums # {}
  BY <1>1, <1>2
<1>5. PICK m \in sums : \A n \in sums : m >= n
  <2> HIDE DEF sums
  <2> QED
    BY <1>3, <1>4, LargestNumber
<1>6. Max(sums) \in sums /\ \A n \in sums : Max(sums) >= n
  <2> HIDE DEF sums
  <2> QED
    BY <1>5 DEF Max
<1>7. TopSum = Max(sums)
  BY DEF TopSum
<1>8. \A n \in sums : n <= TopSum
  BY <1>4, <1>6, <1>7
<1> QED
  BY <1>4, <1>6, <1>7, <1>8

SumJob == [pc : {"write"}, sum : Nat, over : SUBSET Job, old : BOOLEAN]

LEMMA JobTypes ==
  /\ NoJob \in Jobs /\ [pc |-> "read"] \in Jobs
  /\ \A p \in Problem, c \in {"count", "solvers"} : [pc |-> c, p |-> p] \in Jobs
  /\ \A s \in Jobs : /\ s.pc = "write" <=> s \in SumJob
                     /\ s.pc \in {"count", "solvers", "update"} => s.p \in Problem
                     /\ s.pc = "update" => s.admin \in BOOLEAN /\ s.published \in BOOLEAN
<1>1. NoJob \in Jobs /\ [pc |-> "read"] \in Jobs
  BY DEF Jobs
<1>2. \A p \in Problem, c \in {"count", "solvers"} : [pc |-> c, p |-> p] \in Jobs
  BY DEF Jobs
<1>3. ASSUME NEW s \in Jobs
      PROVE  /\ s.pc = "write" <=> s \in SumJob
             /\ s.pc \in {"count", "solvers", "update"} => s.p \in Problem
             /\ s.pc = "update" => s.admin \in BOOLEAN /\ s.published \in BOOLEAN
  <2>1. CASE s = NoJob
    BY <2>1 DEF NoJob, SumJob
  <2>2. CASE s \in [pc : {"count", "solvers"}, p : Problem]
    BY <2>2 DEF SumJob
  <2>3. CASE s \in [pc : {"update"}, p : Problem, admin : BOOLEAN, published : BOOLEAN, plain : BOOLEAN]
    BY <2>3 DEF SumJob
  <2>4. CASE s \in [pc : {"read"}]
    BY <2>4 DEF SumJob
  <2>5. CASE s \in SumJob
    BY <2>5 DEF SumJob
  <2> QED
    BY <2>1, <2>2, <2>3, <2>4, <2>5 DEF Jobs, SumJob
<1> QED
  BY <1>1, <1>2, <1>3

LEMMA JobTyped ==
  ASSUME RatingTypeOK, NEW j \in Job, NEW s \in Jobs, JobBecomes(j, s)
  PROVE  job' \in [Job -> Jobs]
  BY DEF RatingTypeOK, JobBecomes

LEMMA RatingTypeInit == RatingInit => RatingTypeOK
<1> SUFFICES ASSUME RatingInit PROVE RatingTypeOK
  OBVIOUS
<1>1. \A r \in [published : BOOLEAN, plain : {TRUE}, points : Points] : r \in ProblemRow
  BY DEF ProblemRow
<1>2. problem \in [Problem -> ProblemRow]
  BY <1>1 DEF RatingInit
<1>3. accepted \in [Problem -> 0..MaxAccepted]
  BY SolverRatingAssumption DEF RatingInit
<1>4. job \in [Job -> Jobs]
  BY JobTypes DEF RatingInit
<1> QED
  BY <1>2, <1>3, <1>4 DEF RatingInit, RatingTypeOK

LEMMA RatingTypeStep == RatingTypeOK /\ [RatingNext]_ratingVars => RatingTypeOK'
<1> SUFFICES ASSUME RatingTypeOK, [RatingNext]_ratingVars PROVE RatingTypeOK'
  OBVIOUS
<1>0. /\ problem \in [Problem -> ProblemRow] /\ accepted \in [Problem -> 0..MaxAccepted]
      /\ rating \in Nat /\ job \in [Job -> Jobs] /\ drifted \in BOOLEAN
  BY DEF RatingTypeOK
<1>1. TopSum \in Nat
  BY <1>0, TopSumIs, SolverRatingAssumption
<1>2. ASSUME NEW j \in Job, ReadSolved(j) PROVE RatingTypeOK'
  <2>1. PICK s : s = [pc |-> "write", sum |-> TopSum, over |-> Writers, old |-> FALSE]
    OBVIOUS
  <2>2. s \in Jobs
    BY <1>1, <2>1 DEF Jobs, Writers
  <2>3. JobBecomes(j, s) /\ UNCHANGED <<problem, accepted, rating>> /\ drifted' \in BOOLEAN
    BY <1>0, <1>2, <2>1 DEF ReadSolved
  <2> QED
    BY <1>0, <2>2, <2>3, JobTyped DEF RatingTypeOK
<1>3. ASSUME NEW j \in Job, WriteRating(j) PROVE RatingTypeOK'
  <2>1. job[j] \in SumJob
    BY <1>0, <1>3, JobTypes DEF WriteRating
  <2>2. ASSUME NEW k \in Job PROVE job'[k] \in Jobs
    <3>1. job'[k] = IF k = j THEN NoJob
                    ELSE IF job[k].pc # "write" THEN job[k]
                    ELSE IF k \in job[j].over THEN [job[k] EXCEPT !.old = TRUE]
                    ELSE [job[k] EXCEPT !.over = @ \ {j}]
      BY <1>3 DEF WriteRating
    <3>2. ASSUME NEW w \in SumJob
          PROVE  [w EXCEPT !.old = TRUE] \in Jobs /\ [w EXCEPT !.over = @ \ {j}] \in Jobs
      BY DEF SumJob, Jobs
    <3>3. job[k] \in Jobs /\ (job[k].pc = "write" => job[k] \in SumJob)
      BY <1>0, JobTypes
    <3> QED
      BY <3>1, <3>2, <3>3, JobTypes
  <2>3. job' = [k \in Job |-> job'[k]]
    BY <1>3 DEF WriteRating
  <2>4. job' \in [Job -> Jobs]
    BY <2>2, <2>3
  <2>5. rating' \in Nat /\ drifted' \in BOOLEAN /\ UNCHANGED <<problem, accepted>>
    <3>1. job[j].sum \in Nat /\ job[j].old \in BOOLEAN
      BY <2>1 DEF SumJob
    <3> QED
      BY <1>0, <1>3, <3>1 DEF WriteRating
  <2> QED
    BY <1>0, <2>4, <2>5 DEF RatingTypeOK
<1>4. ASSUME NEW j \in Job, RecomputeAll(j) \/ CountAccepted(j) \/ FindSolvers(j) \/ JobStops(j)
      PROVE  RatingTypeOK'
  <2>1. PICK s \in Jobs : JobBecomes(j, s)
    BY <1>4, JobTypes DEF RecomputeAll, CountAccepted, FindSolvers, JobStops
  <2>2. drifted' \in BOOLEAN /\ UNCHANGED <<problem, accepted, rating>>
    BY <1>0, <1>4 DEF RecomputeAll, CountAccepted, FindSolvers, JobStops
  <2> QED
    BY <1>0, <2>1, <2>2, JobTyped DEF RatingTypeOK
<1>5. ASSUME NEW p \in Problem, NEW r \in ProblemRow PROVE [problem EXCEPT ![p] = r] \in [Problem -> ProblemRow]
  BY <1>0
<1>6. ASSUME NEW p \in Problem
      PROVE  /\ \A x \in BOOLEAN : /\ [problem[p] EXCEPT !.published = x] \in ProblemRow
                                  /\ [problem[p] EXCEPT !.plain = x] \in ProblemRow
             /\ \A n \in Points : [problem[p] EXCEPT !.points = n] \in ProblemRow
  BY <1>0 DEF ProblemRow
<1>7. ASSUME NEW j \in Job, UpdateProblem(j) PROVE RatingTypeOK'
  <2>1. job[j].p \in Problem /\ job[j].published \in BOOLEAN
    BY <1>0, <1>7, JobTypes DEF UpdateProblem
  <2>2. PICK r \in ProblemRow, asks \in BOOLEAN : WriteProblem(j, r, asks)
    <3>1. PICK row : row = problem[job[j].p]
      OBVIOUS
    <3>2. row \in ProblemRow
      BY <1>0, <2>1, <3>1
    <3>3. CASE \E n \in Points : WriteProblem(j, [row EXCEPT !.points = n], TRUE)
      BY <1>6, <2>1, <3>1, <3>3
    <3>4. CASE \E x \in BOOLEAN : WriteProblem(j, [row EXCEPT !.plain = x], x # job[j].plain)
      BY <1>6, <2>1, <3>1, <3>4
    <3>5. CASE WriteProblem(j, row, FALSE)
      BY <3>2, <3>5
    <3> QED
      BY <1>7, <3>1, <3>3, <3>4, <3>5 DEF UpdateProblem
  <2>3. [r EXCEPT !.published = FALSE] \in ProblemRow
    BY DEF ProblemRow
  <2>4. problem' \in [Problem -> ProblemRow]
    BY <1>5, <2>1, <2>2, <2>3 DEF WriteProblem
  <2>5. job' \in [Job -> Jobs]
    <3>1. PICK s \in Jobs : JobBecomes(j, s)
      BY <2>1, <2>2, JobTypes DEF WriteProblem
    <3> QED
      BY <3>1, JobTyped
  <2>6. drifted' \in BOOLEAN /\ UNCHANGED <<accepted, rating>>
    BY <1>0, <2>2 DEF WriteProblem
  <2> QED
    BY <1>0, <2>4, <2>5, <2>6 DEF RatingTypeOK
<1>8. ASSUME NEW j \in Job, NEW p \in Problem, Accept(j, p) PROVE RatingTypeOK'
  <2>1. accepted' \in [Problem -> 0..MaxAccepted]
    <3>1. accepted[p] \in 0..MaxAccepted /\ accepted[p] + 1 \in 0..MaxAccepted
      BY <1>0, <1>8, SolverRatingAssumption DEF Accept
    <3> QED
      BY <1>0, <1>8, <3>1 DEF Accept
  <2>2. job' \in [Job -> Jobs]
    BY <1>8, JobTypes, JobTyped DEF Accept
  <2>3. drifted' \in BOOLEAN /\ UNCHANGED <<problem, rating>>
    BY <1>0, <1>8 DEF Accept
  <2> QED
    BY <1>0, <2>1, <2>2, <2>3 DEF RatingTypeOK
<1>9. ASSUME NEW j \in Job, NEW p \in Problem, Publish(j, p) PROVE RatingTypeOK'
  <2>1. problem' \in [Problem -> ProblemRow]
    <3>1. [problem[p] EXCEPT !.published = TRUE] \in ProblemRow
      BY <1>0 DEF ProblemRow
    <3>2. problem' = [problem EXCEPT ![p] = [problem[p] EXCEPT !.published = TRUE]]
      BY <1>9 DEF Publish
    <3> QED
      BY <1>5, <3>1, <3>2
  <2>2. job' \in [Job -> Jobs]
    BY <1>9, JobTypes, JobTyped DEF Publish
  <2> QED
    BY <1>0, <1>9, <2>1, <2>2 DEF Publish, RatingTypeOK
<1>10. ASSUME NEW j \in Job, NEW p \in Problem, NEW admin \in BOOLEAN, FindProblem(j, p, admin)
       PROVE  RatingTypeOK'
  <2>1. PICK s : s = [pc |-> "update", p |-> p, admin |-> admin,
                      published |-> problem[p].published, plain |-> problem[p].plain]
    OBVIOUS
  <2>2. s \in Jobs
    BY <1>0, <2>1 DEF Jobs, ProblemRow
  <2>3. JobBecomes(j, s) /\ UNCHANGED <<problem, accepted, rating, drifted>>
    BY <1>10, <2>1 DEF FindProblem
  <2> QED
    BY <1>0, <2>2, <2>3, JobTyped DEF RatingTypeOK
<1>11. ASSUME NEW p \in Problem, ChangeSilently(p) PROVE RatingTypeOK'
  <2>1. PICK r \in ProblemRow : problem' = [problem EXCEPT ![p] = r]
    <3>1. CASE problem' = [problem EXCEPT ![p].published = FALSE]
      <4>1. PICK r : r = [problem[p] EXCEPT !.published = FALSE]
        OBVIOUS
      <4> QED
        BY <1>6, <3>1, <4>1
    <3>2. ASSUME NEW n \in Points, problem' = [problem EXCEPT ![p].points = n]
          PROVE  \E r \in ProblemRow : problem' = [problem EXCEPT ![p] = r]
      <4>1. PICK r : r = [problem[p] EXCEPT !.points = n]
        OBVIOUS
      <4> QED
        BY <1>6, <3>2, <4>1
    <3>3. CASE problem' = [problem EXCEPT ![p].plain = ~@]
      <4>1. PICK r : r = [problem[p] EXCEPT !.plain = ~@]
        OBVIOUS
      <4>2. r \in ProblemRow
        BY <1>0, <4>1 DEF ProblemRow
      <4> QED
        BY <3>3, <4>1, <4>2
    <3> QED
      BY <1>11, <3>1, <3>2, <3>3 DEF ChangeSilently
  <2> QED
    BY <1>0, <1>5, <1>11, <2>1 DEF ChangeSilently, RatingTypeOK
<1>12. CASE UNCHANGED ratingVars
  BY <1>0, <1>12 DEF ratingVars, RatingTypeOK
<1> QED
  BY <1>2, <1>3, <1>4, <1>7, <1>8, <1>9, <1>10, <1>11, <1>12 DEF RatingNext

\* The rating is a number and every reading and request keeps its shape, for any finite set of
\* problems: whatever is solved, the sum that recomputeForUser() adds up exists.
THEOREM RatingTyped == RatingSpec => []RatingTypeOK
<1>1. RatingInit => RatingTypeOK
  BY RatingTypeInit
<1>2. RatingTypeOK /\ [RatingNext]_ratingVars => RatingTypeOK'
  BY RatingTypeStep
<1> QED
  BY <1>1, <1>2, PTL DEF RatingSpec

\* Whichever element is taken out first, the sum is the same.
LEMMA AnyFirst ==
  ASSUME NEW D, IsFiniteSet(D), NEW f \in [D -> Nat], NEW g, AddsUp(g, f, D)
  PROVE  \A s \in SUBSET D : g[s] \in Nat /\ \A x \in s : g[s] = f[x] + g[s \ {x}]
<1> DEFINE Right(s) == g[s] \in Nat /\ \A x \in s : g[s] = f[x] + g[s \ {x}]
           F == {s \in SUBSET D : ~ Right(s)}
<1>1. F # {} => \E s \in F : \A t \in F : t \subseteq s => t = s
  <2>1. F \subseteq SUBSET D
    OBVIOUS
  <2> HIDE DEF F
  <2> QED
    BY <2>1, SmallestSet
<1> SUFFICES ASSUME F # {} PROVE FALSE
  OBVIOUS
<1>2. PICK s \in F : \A t \in F : t \subseteq s => t = s
  BY <1>1
<1>3. s \in SUBSET D /\ ~ Right(s)
  OBVIOUS
<1>4. \A t \in SUBSET s : t # s => Right(t)
  BY <1>2, <1>3
<1> HIDE DEF F
<1>5. s # {}
  <2>1. {} \in SUBSET D
    OBVIOUS
  <2>2. g[{}] = 0
    BY <2>1 DEF AddsUp
  <2>3. g[{}] \in Nat /\ \A x \in {} : g[{}] = f[x] + g[{} \ {x}]
    BY <2>2
  <2> QED
    BY <1>3, <2>3
<1>6. PICK c : c = Chosen(s)
  OBVIOUS
<1>7. c \in s /\ c \in D /\ g[s] = f[c] + g[s \ {c}]
  BY <1>3, <1>5, <1>6, ChosenIn DEF AddsUp
<1>8. Right(s \ {c}) /\ f[c] \in Nat
  BY <1>4, <1>7
<1>9. g[s] \in Nat
  BY <1>7, <1>8
<1>10. ASSUME NEW x \in s, x # c PROVE g[s] = f[x] + g[s \ {x}]
  <2>1. PICK rest, a, b : rest = s \ {c, x} /\ a = s \ {c} /\ b = s \ {x}
    OBVIOUS
  <2>2. rest = a \ {x} /\ rest = b \ {c} /\ x \in a /\ c \in b
    BY <1>7, <1>10, <2>1
  <2>3. a \in SUBSET s /\ a # s /\ b \in SUBSET s /\ b # s /\ rest \in SUBSET s /\ rest # s
    BY <1>7, <1>10, <2>1
  <2>4. g[a] = f[x] + g[rest] /\ g[b] = f[c] + g[rest] /\ g[rest] \in Nat /\ f[x] \in Nat
    <3>1. Right(a) /\ Right(b) /\ Right(rest)
      BY <1>4, <2>3
    <3>2. x \in D
      BY <1>3, <1>10
    <3> QED
      BY <2>2, <3>1, <3>2
  <2>5. g[s] = f[c] + g[a]
    BY <1>7, <2>1
  <2> HIDE DEF Right
  <2> QED
    BY <1>8, <2>1, <2>4, <2>5 DEF Right
<1> QED
  BY <1>3, <1>7, <1>9, <1>10

\* A sum over a set is that over a part and that over the rest.
LEMMA SumSplits ==
  ASSUME NEW D, IsFiniteSet(D), NEW f \in [D -> Nat], NEW g, AddsUp(g, f, D),
         NEW A \in SUBSET D
  PROVE  \A B \in SUBSET D : A \cap B = {} => g[A \cup B] = g[A] + g[B]
<1>0. \A s \in SUBSET D : g[s] \in Nat /\ \A x \in s : g[s] = f[x] + g[s \ {x}]
  <2>1. IsFiniteSet(D) /\ f \in [D -> Nat] /\ AddsUp(g, f, D)
    OBVIOUS
  <2> QED
    BY <2>1, AnyFirst, SMTT(30)
<1> DEFINE F == {B \in SUBSET D : A \cap B = {} /\ g[A \cup B] # g[A] + g[B]}
<1>1. F # {} => \E B \in F : \A C \in F : C \subseteq B => C = B
  <2>1. F \subseteq SUBSET D
    OBVIOUS
  <2> HIDE DEF F
  <2> QED
    BY <2>1, SmallestSet
<1> SUFFICES ASSUME F # {} PROVE FALSE
  OBVIOUS
<1>2. PICK B \in F : \A C \in F : C \subseteq B => C = B
  BY <1>1
<1>3. B \in SUBSET D /\ A \cap B = {} /\ g[A \cup B] # g[A] + g[B]
  OBVIOUS
<1>5. CASE B = {}
  <2>1. {} \in SUBSET D
    OBVIOUS
  <2>2. g[{}] = 0
    BY <2>1 DEF AddsUp
  <2>3. A \cup B = A /\ g[A] \in Nat
    BY <1>0, <1>5
  <2> QED
    BY <1>3, <1>5, <2>2, <2>3
<1>6. CASE B # {}
  <2>1. PICK x \in B : TRUE
    BY <1>6
  <2>2. PICK C, whole : C = B \ {x} /\ whole = A \cup B
    OBVIOUS
  <2>3. /\ C \in SUBSET D /\ C \subseteq B /\ C # B /\ A \cap C = {}
        /\ whole \in SUBSET D /\ x \in whole /\ whole \ {x} = A \cup C /\ x \in D
    BY <1>3, <2>1, <2>2
  <2>4. g[A \cup C] = g[A] + g[C]
    BY <1>2, <2>3
  <2>5. g[B] = f[x] + g[C] /\ g[whole] = f[x] + g[A \cup C]
    <3>1. g[B] = f[x] + g[B \ {x}]
      BY <1>0, <1>3, <2>1
    <3>2. g[whole] = f[x] + g[whole \ {x}]
      BY <1>0, <2>3
    <3> QED
      BY <2>2, <2>3, <3>1, <3>2
  <2>6. g[A] \in Nat /\ g[C] \in Nat /\ f[x] \in Nat
    BY <1>0, <2>3
  <2>7. g[whole] # g[A] + g[B]
    BY <1>3, <2>2
  <2> HIDE DEF F
  <2> QED
    BY <2>4, <2>5, <2>6, <2>7
<1> QED
  BY <1>5, <1>6

\* As many elements, each of which counts no less, have no smaller sum.
LEMMA NoLess ==
  ASSUME NEW D, IsFiniteSet(D), NEW f \in [D -> Nat], NEW g, AddsUp(g, f, D),
         NEW B \in SUBSET D
  PROVE  \A A \in SUBSET D :
           Cardinality(A) <= Cardinality(B) /\ (\A a \in A, b \in B : f[b] >= f[a]) => g[A] <= g[B]
<1> DEFINE Low(A, U) == Cardinality(A) <= Cardinality(U) /\ \A a \in A, b \in U : f[b] >= f[a]
           F == {A \in SUBSET D : \E U \in SUBSET B : Low(A, U) /\ ~ (g[A] <= g[U])}
<1>0. \A s \in SUBSET D : /\ g[s] \in Nat /\ \A x \in s : g[s] = f[x] + g[s \ {x}]
                          /\ IsFiniteSet(s) /\ Cardinality(s) \in Nat
  BY AnyFirst, FS_Subset, FS_CardinalityType
<1>1. F # {} => \E A \in F : \A C \in F : C \subseteq A => C = A
  <2>1. F \subseteq SUBSET D
    OBVIOUS
  <2> HIDE DEF F
  <2> QED
    BY <2>1, SmallestSet
<1>2. F = {}
  <2> SUFFICES ASSUME F # {} PROVE FALSE
    OBVIOUS
  <2>1. PICK A \in F : \A C \in F : C \subseteq A => C = A
    BY <1>1
  <2>2. PICK U \in SUBSET B : A \in SUBSET D /\ Low(A, U) /\ ~ (g[A] <= g[U])
    BY <2>1
  <2>3. U \in SUBSET D
    OBVIOUS
  <2>4. CASE A = {}
    <3>1. g[{}] = 0
      <4>1. {} \in SUBSET D
        OBVIOUS
      <4> QED
        BY <4>1 DEF AddsUp
    <3> QED
      BY <1>0, <2>2, <2>3, <2>4, <3>1
  <2>5. CASE A # {}
    <3>1. PICK a \in A : TRUE
      BY <2>5
    <3>2. Cardinality(A) \in Nat \ {0} /\ Cardinality(U) \in Nat /\ U # {}
      <4>1. Cardinality(A) # 0 /\ (U = {} => Cardinality(U) = 0)
        BY <1>0, <2>2, <2>3, <2>5, FS_EmptySet
      <4> QED
        BY <1>0, <2>2, <2>3, <4>1
    <3>3. PICK b \in U : TRUE
      BY <3>2
    <3>4. PICK C, V : C = A \ {a} /\ V = U \ {b}
      OBVIOUS
    <3>5. Cardinality(C) = Cardinality(A) - 1 /\ Cardinality(V) = Cardinality(U) - 1
      BY <1>0, <2>2, <2>3, <3>1, <3>3, <3>4, FS_RemoveElement
    <3>6. C \in SUBSET D /\ C \subseteq A /\ C # A /\ V \in SUBSET B /\ V \in SUBSET D
      BY <2>2, <2>3, <3>1, <3>4
    <3>7. Low(C, V)
      BY <2>2, <3>2, <3>4, <3>5
    <3>8. g[C] <= g[V]
      <4> HIDE DEF Low
      <4> QED
        BY <2>1, <3>6, <3>7
    <3>9. g[A] = f[a] + g[C] /\ g[U] = f[b] + g[V]
      BY <1>0, <2>2, <2>3, <3>1, <3>3, <3>4
    <3>10. f[b] >= f[a] /\ f[a] \in Nat /\ f[b] \in Nat
      BY <2>2, <2>3, <3>1, <3>3
    <3>11. g[C] \in Nat /\ g[V] \in Nat
      BY <1>0, <3>6
    <3>12. g[A] <= g[U]
      <4> HIDE DEF F, Low
      <4> QED
        BY <3>8, <3>9, <3>10, <3>11
    <3> QED
      BY <2>2, <3>12
  <2> QED
    BY <2>4, <2>5
<1> QED
  <2> SUFFICES ASSUME NEW A \in SUBSET D, Low(A, B) PROVE g[A] <= g[B]
    OBVIOUS
  <2>1. B \in SUBSET B /\ A \notin F
    BY <1>2
  <2> QED
    BY <2>1

\* recomputeForUser() sorts the points of what the user has solved, takes the first TOP_N and
\* adds them up.  Whatever it finds among problems of equal points, that is TopSum: S is any set
\* of TopN solved problems none of which has fewer points than a solved one left out, or all of
\* them if there are no more.
THEOREM BestAreTop ==
  ASSUME RatingTypeOK, NEW S \in SUBSET Solved,
         IF Cardinality(Solved) <= TopN THEN S = Solved ELSE Cardinality(S) = TopN,
         \A p \in S, q \in Solved \ S : problem[p].points >= problem[q].points
  PROVE  SumOf(S) = TopSum
<1> DEFINE f(T) == [p \in T |-> problem[p].points]
<1>1. /\ TopSum \in Nat
      /\ \A T \in SUBSET Solved : Cardinality(T) <= TopN => SumOf(T) <= TopSum
  BY TopSumIs, SolverRatingAssumption DEF RatingTypeOK
<1>2. PICK T \in SUBSET Solved : Cardinality(T) <= TopN /\ TopSum = SumOf(T)
  BY TopSumIs, SolverRatingAssumption DEF RatingTypeOK
<1>3. /\ IsFiniteSet(Solved)
      /\ \A U \in SUBSET Solved : IsFiniteSet(U) /\ Cardinality(U) \in Nat
  <2>1. Solved \in SUBSET Problem
    BY DEF Solved
  <2> QED
    BY <2>1, SolverRatingAssumption, FS_Subset, FS_CardinalityType
<1>4. Cardinality(S) <= TopN
  BY <1>3, SolverRatingAssumption
<1>5. \A U \in SUBSET Solved : SumOf(U) = SumFunction([p \in U |-> problem[p].points])
  BY DEF SumOf
<1>6. PICK h : h = [p \in Solved |-> problem[p].points]
  OBVIOUS
<1>7. h \in [Solved -> Nat]
  <2>1. \A p \in Solved : problem[p].points \in Nat
    BY SolverRatingAssumption DEF RatingTypeOK, ProblemRow, Solved
  <2> QED
    BY <1>6, <2>1
<1>8. PICK g : AddsUp(g, h, Solved)
  BY <1>3, SumsExist
<1>9. \A U \in SUBSET Solved : SumOf(U) = g[U]
  <2> SUFFICES ASSUME NEW U \in SUBSET Solved PROVE SumOf(U) = g[U]
    OBVIOUS
  <2>1. PICK k : k = [p \in U |-> problem[p].points]
    OBVIOUS
  <2>2. DOMAIN k = U /\ \A p \in U : k[p] = h[p]
    BY <1>6, <2>1
  <2>3. PICK l : AddsUp(l, k, U) /\ SumFunction(k) = l[U]
    BY <1>3, <2>2, SumFunctionIs
  <2>4. AddsUp(l, h, U)
    <3>1. \A s \in SUBSET U : s # {} => k[Chosen(s)] = h[Chosen(s)]
      BY <2>2, ChosenIn
    <3> QED
      BY <2>3, <3>1 DEF AddsUp
  <2>5. g[U] = l[U]
    BY <1>3, <1>8, <2>4, SumsAgree
  <2> QED
    BY <1>5, <2>1, <2>3, <2>5
<1>10. PICK A, B, C : A = T \ S /\ B = S \ T /\ C = S \cap T
  OBVIOUS
<1>11. A \in SUBSET Solved /\ B \in SUBSET Solved /\ C \in SUBSET Solved
  BY <1>2, <1>10
<1>12. Cardinality(A) <= Cardinality(B)
  <2>1. CASE S = Solved
    BY <1>2, <1>3, <1>10, <1>11, <2>1, FS_EmptySet
  <2>2. CASE Cardinality(S) = TopN
    <3>1. C \cap A = {} /\ C \cap B = {} /\ C \cup A = T /\ C \cup B = S
      BY <1>10
    <3>2. /\ IsFiniteSet(A) /\ IsFiniteSet(B) /\ IsFiniteSet(C)
          /\ Cardinality(A) \in Nat /\ Cardinality(B) \in Nat /\ Cardinality(C) \in Nat
      BY <1>3, <1>11
    <3>3. Cardinality(C \cup A) = Cardinality(C) + Cardinality(A) - Cardinality(C \cap A)
      BY <3>2, FS_Union
    <3>4. Cardinality(C \cup B) = Cardinality(C) + Cardinality(B) - Cardinality(C \cap B)
      BY <3>2, FS_Union
    <3>5. Cardinality({}) = 0
      BY FS_EmptySet
    <3>6. PICK a, b, c, t, u : /\ a = Cardinality(A) /\ b = Cardinality(B) /\ c = Cardinality(C)
                               /\ t = Cardinality(T) /\ u = Cardinality(S)
      OBVIOUS
    <3>7. a \in Nat /\ b \in Nat /\ c \in Nat /\ t = c + a - 0 /\ u = c + b - 0
      BY <3>1, <3>2, <3>3, <3>4, <3>5, <3>6, Zenon
    <3>8. t <= TopN /\ u = TopN
      BY <1>2, <2>2, <3>6
    <3>9. a <= b
      BY <3>7, <3>8, SolverRatingAssumption
    <3> QED
      BY <3>6, <3>9
  <2> QED
    BY <2>1, <2>2
<1>13. g[A] <= g[B]
  <2>1. \A a \in A, b \in B : h[b] >= h[a]
    BY <1>2, <1>6, <1>10
  <2> QED
    BY <1>3, <1>7, <1>8, <1>11, <1>12, <2>1, NoLess
<1>14. g[T] = g[C] + g[A] /\ g[S] = g[C] + g[B]
  <2>1. C \cap A = {} /\ C \cap B = {} /\ C \cup A = T /\ C \cup B = S
    BY <1>10
  <2>2. g[C \cup A] = g[C] + g[A] /\ g[C \cup B] = g[C] + g[B]
    BY <1>3, <1>7, <1>8, <1>11, <2>1, SumSplits
  <2> QED
    BY <2>1, <2>2
<1>15. g[A] \in Nat /\ g[B] \in Nat /\ g[C] \in Nat
  BY <1>3, <1>7, <1>8, <1>11, AnyFirst
<1>16. g[T] = TopSum /\ g[S] <= TopSum /\ SumOf(S) = g[S]
  BY <1>1, <1>2, <1>4, <1>9
<1> QED
  BY <1>1, <1>13, <1>14, <1>15, <1>16

-----------------------------------------------------------------------------
(***************************************************************************)
(* LiveVerdict.                                                            *)
(***************************************************************************)

Answers(g) == get[g].pc = "answered"

Owed == \/ due[page] # {} \/ bus[page] > 0 \/ \E g \in Get : get[g].pc = "asked"

\* No answer holds a status that the submission has not had yet.
NoneAhead == \A g \in Get : Answers(g) => ~Older(verdict[page], get[g].status)

\* The verdict is on the page or on its way to it, and nothing older will be shown after it.
VerdictComes ==
  \/ Owed
  \/ shown = verdict[page] /\ \A g \in Get : Answers(g) => get[g].status = verdict[page] \/ get[g].late
  \/ \E g \in Get : Answers(g) /\ get[g].status = verdict[page] /\ ~get[g].late

LiveInv ==
  /\ page = Nowhere => \A g \in Get : get[g] = NoGet
  /\ page # Nowhere => NoneAhead /\ (~missed => VerdictComes)

-----------------------------------------------------------------------------
(* The rooms of the socket.                                                *)

\* The last packet about s, if there is one, is a join.
LastWordIsJoin(s) ==
  \E i \in 1..Len(packets) : /\ packets[i] = <<"join", s>>
                             /\ \A k \in i+1..Len(packets) : packets[k][2] # s

Unspoken(s) == \A i \in 1..Len(packets) : packets[i][2] # s

\* When all that is on its way has arrived, the socket is in the room of s.
WillBeIn(s) == LastWordIsJoin(s) \/ (Unspoken(s) /\ (checking[s] > 0 \/ s \in rooms))

RoomsInv == ~slipped => \A s \in Submission : WillBeIn(s) <=> s = page

Packet == {"join", "leave"} \X Submission

LiveShape ==
  /\ verdict \in [Submission -> VerdictStatus]
  /\ due \in [Submission -> SUBSET {"JUDGING", "FINAL"}]
  /\ bus \in [Submission -> Nat] /\ checking \in [Submission -> Nat]
  /\ packets \in Seq(Packet) /\ rooms \subseteq Submission
  /\ page \in Submission \cup {Nowhere}
  /\ get \in [Get -> Gets]
  /\ missed \in BOOLEAN /\ slipped \in BOOLEAN

LEMMA GetHas ==
  ASSUME LiveShape, NEW g \in Get
  PROVE  /\ NoGet.pc = "none"
         /\ get[g].pc = "none" => get[g] = NoGet
         /\ get[g].pc = "answered" =>
              /\ get[g].status \in VerdictStatus /\ get[g].late \in BOOLEAN
              /\ [get[g] EXCEPT !.late = TRUE] \in Gets
              /\ [get[g] EXCEPT !.late = TRUE].pc = "answered"
              /\ [get[g] EXCEPT !.late = TRUE].status = get[g].status
              /\ [get[g] EXCEPT !.late = TRUE].late
<1>1. get[g] \in Gets /\ NoGet.pc = "none"
  BY DEF LiveShape, NoGet
<1>2. get[g].pc = "none" => get[g] = NoGet
  BY <1>1 DEF Gets
<1>3. CASE get[g].pc = "answered"
  <2> DEFINE a == get[g]
  <2>1. a \in [pc : {"answered"}, status : VerdictStatus, late : BOOLEAN]
    BY <1>1, <1>3 DEF Gets, NoGet
  <2> HIDE DEF a
  <2>2. /\ a.status \in VerdictStatus /\ a.late \in BOOLEAN
        /\ [a EXCEPT !.late = TRUE] \in [pc : {"answered"}, status : VerdictStatus, late : BOOLEAN]
        /\ [a EXCEPT !.late = TRUE].pc = "answered"
        /\ [a EXCEPT !.late = TRUE].status = a.status
        /\ [a EXCEPT !.late = TRUE].late
    BY <2>1
  <2>3. [a EXCEPT !.late = TRUE] \in Gets
    BY <2>2, Zenon DEF Gets
  <2> QED
    BY <1>1, <1>2, <2>2, <2>3 DEF a
<1> QED
  BY <1>1, <1>2, <1>3

LEMMA StatusesAreOrdered ==
  ASSUME NEW a \in VerdictStatus, NEW b \in VerdictStatus
  PROVE  a = b \/ Older(a, b) \/ Older(b, a)
  BY DEF VerdictStatus, Older

-----------------------------------------------------------------------------
(* Packets.                                                                *)

\* A packet more.
LEMMA OneMoreWord ==
  ASSUME packets \in Seq(Packet), NEW word \in {"join", "leave"}, NEW x \in Submission,
         packets' = Append(packets, <<word, x>>), NEW s \in Submission
  PROVE  /\ LastWordIsJoin(s)' <=> (word = "join" /\ s = x) \/ (s # x /\ LastWordIsJoin(s))
         /\ Unspoken(s)' <=> Unspoken(s) /\ s # x
         /\ packets' \in Seq(Packet)
<1> DEFINE n == Len(packets)
<1>1. /\ n \in Nat /\ Len(packets') = n + 1 /\ packets' \in Seq(Packet)
      /\ \A i \in 1..n : packets'[i] = packets[i]
      /\ packets'[n + 1] = <<word, x>>
  BY DEF Packet
<1> HIDE DEF n
<1>2. \A i \in 1..n+1 : i \in 1..n \/ i = n + 1
  BY <1>1
<1>3. n + 1 \in 1..n+1 /\ \A i \in 1..n : i \in 1..n+1
  BY <1>1
<1>4. n = Len(packets)
  BY DEF n
<1>5. Unspoken(s)' <=> Unspoken(s) /\ s # x
  BY <1>1, <1>2, <1>3, <1>4 DEF Unspoken
<1>6. ASSUME LastWordIsJoin(s)' PROVE (word = "join" /\ s = x) \/ (s # x /\ LastWordIsJoin(s))
  <2>1. PICK i \in 1..n+1 : packets'[i] = <<"join", s>> /\ \A k \in i+1..n+1 : packets'[k][2] # s
    BY <1>1, <1>6 DEF LastWordIsJoin
  <2>2. CASE i = n + 1
    BY <1>1, <2>1, <2>2
  <2>3. CASE i \in 1..n
    <3>1. n + 1 \in i+1..n+1 /\ \A k \in i+1..n : k \in i+1..n+1 /\ k \in 1..n
      BY <1>1, <2>3
    <3>2. s # x
      BY <1>1, <2>1, <3>1
    <3>3. packets[i] = <<"join", s>> /\ \A k \in i+1..n : packets[k][2] # s
      BY <1>1, <2>1, <2>3, <3>1
    <3> QED
      BY <1>4, <2>3, <3>2, <3>3 DEF LastWordIsJoin
  <2> QED
    BY <1>2, <2>2, <2>3
<1>7. ASSUME word = "join", s = x PROVE LastWordIsJoin(s)'
  <2>1. packets'[n + 1] = <<"join", s>> /\ \A k \in (n+1)+1..n+1 : packets'[k][2] # s
    BY <1>1, <1>7
  <2> QED
    BY <1>1, <1>3, <2>1 DEF LastWordIsJoin
<1>8. ASSUME s # x, LastWordIsJoin(s) PROVE LastWordIsJoin(s)'
  <2>1. PICK i \in 1..n : packets[i] = <<"join", s>> /\ \A k \in i+1..n : packets[k][2] # s
    BY <1>4, <1>8 DEF LastWordIsJoin
  <2>2. \A k \in i+1..n+1 : k = n + 1 \/ (k \in i+1..n /\ k \in 1..n)
    BY <1>1, <2>1
  <2>3. packets'[i] = <<"join", s>> /\ \A k \in i+1..n+1 : packets'[k][2] # s
    BY <1>1, <1>8, <2>1, <2>2
  <2> QED
    BY <1>1, <1>3, <2>3 DEF LastWordIsJoin
<1> QED
  BY <1>1, <1>5, <1>6, <1>7, <1>8

\* A packet less.
LEMMA OneWordLess ==
  ASSUME packets \in Seq(Packet), packets # <<>>, packets' = Tail(packets), NEW s \in Submission
  PROVE  /\ LastWordIsJoin(s) <=> LastWordIsJoin(s)' \/ (Head(packets) = <<"join", s>> /\ Unspoken(s)')
         /\ Unspoken(s) <=> Head(packets)[2] # s /\ Unspoken(s)'
         /\ packets' \in Seq(Packet)
<1> DEFINE n == Len(packets)
<1>1. /\ n \in Nat /\ n >= 1 /\ Len(packets') = n - 1 /\ packets' \in Seq(Packet)
      /\ \A i \in 1..n-1 : packets'[i] = packets[i + 1]
      /\ Head(packets) = packets[1]
  OBVIOUS
<1> HIDE DEF n
<1>2. n = Len(packets)
  BY DEF n
<1>3. 1 \in 1..n /\ \A i \in 1..n-1 : i + 1 \in 1..n
  BY <1>1
<1>4. \A i \in 1..n : i = 1 \/ (i - 1 \in 1..n-1 /\ (i - 1) + 1 = i)
  BY <1>1
<1>5. Unspoken(s)' <=> \A i \in 2..n : packets[i][2] # s
  <2>1. Unspoken(s)' <=> \A i \in 1..n-1 : packets[i + 1][2] # s
    BY <1>1 DEF Unspoken
  <2>2. \A i \in 2..n : i - 1 \in 1..n-1 /\ (i - 1) + 1 = i
    BY <1>1
  <2>3. \A i \in 1..n-1 : i + 1 \in 2..n
    BY <1>1
  <2> QED
    BY <2>1, <2>2, <2>3
<1>6. \A i \in 1..n : i = 1 \/ i \in 2..n
  BY <1>1
<1>7. \A i \in 2..n : i \in 1..n
  BY <1>1
<1>8. Unspoken(s) <=> Head(packets)[2] # s /\ Unspoken(s)'
  BY <1>1, <1>2, <1>3, <1>5, <1>6, <1>7 DEF Unspoken
<1>9. ASSUME LastWordIsJoin(s)
      PROVE  LastWordIsJoin(s)' \/ (Head(packets) = <<"join", s>> /\ Unspoken(s)')
  <2>1. PICK i \in 1..n : packets[i] = <<"join", s>> /\ \A k \in i+1..n : packets[k][2] # s
    BY <1>2, <1>9 DEF LastWordIsJoin
  <2>2. CASE i = 1
    BY <1>1, <1>5, <2>1, <2>2
  <2>3. CASE i # 1
    <3> DEFINE m == i - 1
    <3>1. m \in 1..n-1 /\ m + 1 = i /\ \A k \in m+1..n-1 : k \in 1..n-1 /\ k + 1 \in i+1..n
      BY <1>1, <2>3
    <3> HIDE DEF m
    <3>2. packets'[m] = <<"join", s>> /\ \A k \in m+1..n-1 : packets'[k][2] # s
      BY <1>1, <2>1, <3>1
    <3> QED
      BY <1>1, <3>1, <3>2 DEF LastWordIsJoin
  <2> QED
    BY <2>2, <2>3
<1>10. ASSUME LastWordIsJoin(s)' PROVE LastWordIsJoin(s)
  <2>1. PICK m \in 1..n-1 : packets'[m] = <<"join", s>> /\ \A k \in m+1..n-1 : packets'[k][2] # s
    BY <1>1, <1>10 DEF LastWordIsJoin
  <2> DEFINE i == m + 1
  <2>2. i \in 1..n /\ \A k \in i+1..n : k - 1 \in m+1..n-1 /\ k - 1 \in 1..n-1 /\ (k - 1) + 1 = k
    BY <1>1
  <2>3. packets[i] = <<"join", s>>
    BY <1>1, <2>1
  <2> HIDE DEF i
  <2>4. \A k \in i+1..n : packets[k][2] # s
    BY <1>1, <2>1, <2>2
  <2> QED
    BY <1>2, <2>2, <2>3, <2>4 DEF LastWordIsJoin
<1>11. ASSUME Head(packets) = <<"join", s>>, Unspoken(s)' PROVE LastWordIsJoin(s)
  BY <1>1, <1>2, <1>3, <1>5, <1>11 DEF LastWordIsJoin
<1> QED
  BY <1>1, <1>8, <1>9, <1>10, <1>11

-----------------------------------------------------------------------------

LEMMA LiveShapeInit == LiveInit => LiveShape
<1> SUFFICES ASSUME LiveInit PROVE LiveShape
  OBVIOUS
<1>1. packets \in Seq(Packet)
  BY DEF LiveInit
<1>2. get \in [Get -> Gets]
  BY DEF LiveInit, Gets
<1> QED
  BY <1>1, <1>2 DEF LiveInit, LiveShape, VerdictStatus

LEMMA LiveShapeStep == LiveShape /\ LiveInv /\ [LiveNext]_liveVars => LiveShape'
<1> SUFFICES ASSUME LiveShape, LiveInv, [LiveNext]_liveVars PROVE LiveShape'
  OBVIOUS
<1> USE DEF serverVars, socketVars, pageVars
<1>1. NoGet \in Gets /\ [pc |-> "asked"] \in Gets
  BY DEF Gets
<1>2. ASSUME NEW s \in Submission, NEW news \in {"JUDGING", "FINAL"}, Settle(s, news)
      PROVE  LiveShape'
  BY <1>2 DEF Settle, LiveShape, VerdictStatus
<1>3. ASSUME NEW s \in Submission, NEW news \in {"JUDGING", "FINAL"}, PublishUpdate(s, news)
      PROVE  LiveShape'
  BY <1>3 DEF PublishUpdate, Announced, LiveShape
<1>4. ASSUME NEW s \in Submission, NEW news \in {"JUDGING", "FINAL"}, PublishFails(s, news)
      PROVE  LiveShape'
  BY <1>4 DEF PublishFails, LiveShape
<1>5. ASSUME NEW s \in Submission, PassOn(s) PROVE LiveShape'
  <2>1. bus' \in [Submission -> Nat]
    BY <1>5 DEF PassOn, LiveShape
  <2>2. get' \in [Get -> Gets]
    BY <1>1, <1>5 DEF PassOn, LiveShape, Free
  <2> QED
    BY <1>5, <2>1, <2>2 DEF PassOn, LiveShape
<1>6. ASSUME NEW s \in Submission, JoinRoom(s) \/ JoinFails(s) PROVE LiveShape'
  <2>1. checking[s] > 0 /\ checking' = [checking EXCEPT ![s] = @ - 1]
    BY <1>6 DEF JoinRoom, JoinFails
  <2>2. checking' \in [Submission -> Nat]
    BY <2>1 DEF LiveShape
  <2> QED
    BY <1>6, <2>2 DEF JoinRoom, JoinFails, LiveShape
<1>7. ASSUME NEW s \in Submission, OpenPage(s) PROVE LiveShape'
  <2>1. packets' \in Seq(Packet)
    BY <1>7, OneMoreWord DEF OpenPage, LiveShape
  <2>2. get' \in [Get -> Gets]
    BY <1>1, <1>7 DEF OpenPage, LiveShape
  <2> QED
    BY <1>7, <2>1, <2>2 DEF OpenPage, LiveShape
<1>8. ASSUME NEW g \in Get, AnswerGet(g) PROVE LiveShape'
  <2>1. page \in Submission
    BY <1>8 DEF AnswerGet, LiveShape, LiveInv, NoGet
  <2> DEFINE a == [pc |-> "answered", status |-> verdict[page], late |-> FALSE]
  <2>2. a \in Gets
    BY <2>1 DEF LiveShape, Gets
  <2>3. get' = [get EXCEPT ![g] = a]
    BY <1>8, Zenon DEF AnswerGet
  <2> HIDE DEF a
  <2> QED
    BY <1>8, <2>2, <2>3 DEF AnswerGet, LiveShape
<1>9. ASSUME NEW g \in Get, ShowAnswer(g) PROVE LiveShape'
  <2>1. /\ get' = [h \in Get |-> get'[h]]
        /\ \A h \in Get : get'[h] = NoGet \/ get'[h] = get[h]
             \/ (get[h].pc = "answered" /\ get'[h] = [get[h] EXCEPT !.late = TRUE])
    BY <1>9, Zenon DEF ShowAnswer
  <2>2. \A h \in Get : get'[h] \in Gets
    <3> SUFFICES ASSUME NEW h \in Get PROVE get'[h] \in Gets
      OBVIOUS
    <3>1. get[h] \in Gets
      BY DEF LiveShape
    <3>2. get[h].pc = "answered" => [get[h] EXCEPT !.late = TRUE] \in Gets
      BY GetHas
    <3> QED
      BY <1>1, <2>1, <3>1, <3>2, Zenon
  <2>3. get' \in [Get -> Gets]
    BY <2>1, <2>2
  <2>4. missed' \in BOOLEAN
    BY <1>9, GetHas DEF ShowAnswer, LiveShape
  <2> QED
    BY <1>9, <2>3, <2>4 DEF ShowAnswer, LiveShape
<1>10. ASSUME NEW g \in Get, GetFails(g) PROVE LiveShape'
  BY <1>1, <1>10 DEF GetFails, LiveShape
<1>11. CASE ReceivePacket
  <2>1. packets' \in Seq(Packet) /\ Head(packets)[2] \in Submission
    BY <1>11 DEF ReceivePacket, LiveShape, Packet
  <2> DEFINE x == Head(packets)[2]
  <2>2. \/ checking' = [checking EXCEPT ![x] = @ + 1] /\ rooms' = rooms
        \/ rooms' = rooms \ {x} /\ checking' = checking
    BY <1>11, Zenon DEF ReceivePacket
  <2>3. slipped' \in BOOLEAN
    BY <1>11 DEF ReceivePacket, LiveShape
  <2>4. x \in Submission
    BY <2>1
  <2> HIDE DEF x
  <2>5. checking' \in [Submission -> Nat] /\ rooms' \subseteq Submission
    <3>1. checking \in [Submission -> Nat] /\ rooms \subseteq Submission
      BY DEF LiveShape
    <3>2. CASE checking' = [checking EXCEPT ![x] = @ + 1] /\ rooms' = rooms
      <4>1. checking[x] + 1 \in Nat
        BY <2>4, <3>1
      <4> QED
        BY <3>1, <3>2, <4>1
    <3>3. CASE rooms' = rooms \ {x} /\ checking' = checking
      BY <3>1, <3>3
    <3> QED
      BY <2>2, <3>2, <3>3
  <2> QED
    BY <1>11, <2>1, <2>3, <2>5 DEF ReceivePacket, LiveShape
<1>12. CASE Disconnect
  <2>1. packets' \in Seq(Packet) /\ checking' \in [Submission -> Nat]
    BY <1>12 DEF Disconnect
  <2> QED
    BY <1>12, <2>1 DEF Disconnect, LiveShape
<1>13. CASE LeavePage
  <2>1. packets' \in Seq(Packet)
    BY <1>13 DEF LeavePage, LiveShape, Farewell, Packet
  <2>2. get' \in [Get -> Gets]
    BY <1>1, <1>13 DEF LeavePage
  <2> QED
    BY <1>13, <2>1, <2>2 DEF LeavePage, LiveShape
<1>14. CASE Reconnect \/ UNCHANGED liveVars
  BY <1>14 DEF Reconnect, liveVars, LiveShape
<1> QED
  BY <1>2, <1>3, <1>4, <1>5, <1>6, <1>7, <1>8, <1>9, <1>10, <1>11, <1>12, <1>13, <1>14 DEF LiveNext

-----------------------------------------------------------------------------
(* What the page shows.                                                    *)

\* The page and its requests are left alone.
LEMMA PageRests ==
  ASSUME LiveInv, UNCHANGED <<page, shown, get>>, ~missed' => ~missed /\ (Owed => Owed'),
         page # Nowhere => NoneAhead' /\ (verdict'[page] = verdict[page] \/ (~missed' => Owed'))
  PROVE  LiveInv'
<1>1. CASE page # Nowhere /\ verdict'[page] = verdict[page]
  BY <1>1 DEF LiveInv, VerdictComes, Answers
<1>2. CASE page # Nowhere /\ (~missed' => Owed')
  BY <1>2 DEF LiveInv, VerdictComes
<1> QED
  BY <1>1, <1>2 DEF LiveInv

LEMMA SettleKeeps ==
  ASSUME LiveShape, LiveInv, NEW s \in Submission, NEW news \in {"JUDGING", "FINAL"},
         Settle(s, news)
  PROVE  LiveInv'
<1>1. /\ \A t \in Submission : verdict'[t] = IF t = s THEN news ELSE verdict[t]
      /\ \A t \in Submission : due'[t] = IF t = s THEN due[s] \cup {news} ELSE due[t]
      /\ UNCHANGED <<bus, page, shown, get, missed>>
  BY DEF Settle, LiveShape, socketVars, pageVars
<1>2. CASE page = Nowhere
  BY <1>1, <1>2 DEF LiveInv
<1>3. CASE page = s
  <2>1. Owed'
    BY <1>1, <1>3 DEF Owed
  <2>2. NoneAhead'
    <3> SUFFICES ASSUME NEW g \in Get, Answers(g) PROVE ~Older(news, get[g].status)
      BY <1>1, <1>3 DEF NoneAhead, Answers
    <3>1. get[g].status \in VerdictStatus /\ ~Older(verdict[s], get[g].status)
      BY <1>3, GetHas, LiveVerdictAssumption DEF LiveInv, NoneAhead, Answers
    <3> QED
      BY <3>1 DEF Settle, Older, VerdictStatus
  <2> QED
    BY <1>1, <2>1, <2>2, PageRests
<1>4. CASE page \in Submission \ {s}
  <2>1. verdict'[page] = verdict[page] /\ (Owed => Owed')
    BY <1>1, <1>4 DEF Owed
  <2>2. NoneAhead'
    BY <1>1, <1>4, <2>1, LiveVerdictAssumption DEF LiveInv, NoneAhead, Answers
  <2> QED
    BY <1>1, <2>1, <2>2, PageRests
<1> QED
  BY <1>2, <1>3, <1>4 DEF LiveShape

LEMMA PublishKeepsPage ==
  ASSUME LiveShape, LiveInv, NEW s \in Submission, NEW news \in {"JUDGING", "FINAL"},
         PublishUpdate(s, news) \/ PublishFails(s, news)
  PROVE  LiveInv'
<1>1. /\ \A t \in Submission \ {s} : due'[t] = due[t] /\ bus'[t] = bus[t]
      /\ UNCHANGED <<verdict, page, shown, get>>
      /\ ~missed' => ~missed /\ (page = s => bus'[s] > 0)
  <2>1. CASE PublishUpdate(s, news)
    <3>1. bus'[s] = bus[s] + 1 /\ bus[s] \in Nat
      BY <2>1 DEF PublishUpdate, Announced, LiveShape
    <3> QED
      BY <2>1, <3>1 DEF PublishUpdate, LiveShape, pageVars
  <2>2. CASE PublishFails(s, news)
    BY <2>2 DEF PublishFails, LiveShape, pageVars
  <2> QED
    BY <2>1, <2>2
<1>2. page # Nowhere /\ ~missed' => (Owed => Owed')
  BY <1>1 DEF Owed, LiveShape
<1>3. page # Nowhere => NoneAhead'
  BY <1>1 DEF LiveInv, NoneAhead, Answers
<1>4. CASE page = Nowhere
  BY <1>1, <1>4 DEF LiveInv
<1>5. CASE page # Nowhere
  BY <1>1, <1>2, <1>3, <1>5, PageRests
<1> QED
  BY <1>4, <1>5

LEMMA PassOnKeeps ==
  ASSUME LiveShape, LiveInv, NEW s \in Submission, PassOn(s)
  PROVE  LiveInv'
<1>1. /\ \A t \in Submission \ {s} : bus'[t] = bus[t]
      /\ UNCHANGED <<verdict, due, page, shown>>
      /\ ~missed' => ~missed
  BY DEF PassOn, LiveShape, socketVars
<1>2. CASE page # s
  <2>1. get' = get
    BY <1>2 DEF PassOn, Hears
  <2>2. page # Nowhere => (Owed => Owed') /\ NoneAhead'
    BY <1>1, <1>2, <2>1 DEF Owed, LiveShape, LiveInv, NoneAhead, Answers
  <2>3. CASE page = Nowhere
    BY <1>1, <2>1, <2>3 DEF LiveInv
  <2>4. CASE page # Nowhere
    BY <1>1, <2>1, <2>2, <2>4, PageRests
  <2> QED
    BY <2>3, <2>4
<1>3. CASE page = s /\ get' = get
  <2>1. missed' /\ NoneAhead'
    <3>1. page # Nowhere
      BY <1>3, LiveVerdictAssumption
    <3>2. NoneAhead'
      BY <1>1, <1>3, <3>1 DEF LiveInv, NoneAhead, Answers
    <3>3. CASE online /\ s \in rooms
      <4>1. PICK g \in Free : get' = [get EXCEPT ![g] = [pc |-> "asked"]]
        BY <1>3, <3>3 DEF PassOn, Hears
      <4>2. get'[g] = [pc |-> "asked"] /\ get[g] = NoGet
        BY <4>1 DEF Free, LiveShape
      <4> QED
        BY <1>3, <4>2 DEF NoGet
    <3>4. CASE ~(online /\ s \in rooms)
      BY <1>3, <3>2, <3>4 DEF PassOn
    <3> QED
      BY <3>3, <3>4
  <2> QED
    BY <1>1, <1>3, <2>1, LiveVerdictAssumption DEF LiveInv
<1>4. CASE page = s /\ \E g \in Free : get' = [get EXCEPT ![g] = [pc |-> "asked"]]
  <2>1. PICK g \in Free : get' = [get EXCEPT ![g] = [pc |-> "asked"]]
    BY <1>4
  <2>2. /\ g \in Get /\ get'[g].pc = "asked" /\ \A h \in Get \ {g} : get'[h] = get[h]
    BY <2>1 DEF Free, LiveShape
  <2>3. Owed'
    BY <2>2 DEF Owed
  <2>4. NoneAhead'
    BY <1>1, <1>4, <2>2, LiveVerdictAssumption DEF LiveInv, NoneAhead, Answers
  <2> QED
    BY <1>1, <1>4, <2>3, <2>4, LiveVerdictAssumption DEF LiveInv, VerdictComes
<1> QED
  BY <1>2, <1>3, <1>4 DEF PassOn, Hears

LEMMA ShowAnswerKeeps ==
  ASSUME LiveShape, LiveInv, NEW g \in Get, ShowAnswer(g)
  PROVE  LiveInv'
<1>1. /\ get[g].pc = "answered" /\ shown' = get[g].status /\ UNCHANGED <<verdict, due, bus, page>>
      /\ missed' = (missed \/ get[g].late)
  BY DEF ShowAnswer, serverVars, socketVars
<1>2. page # Nowhere /\ page \in Submission /\ NoneAhead
  BY <1>1 DEF LiveInv, NoGet, LiveShape
<1>3. get'[g] = NoGet
  BY DEF ShowAnswer
<1>4. \A h \in Get \ {g} :
        get'[h] = IF Answers(h) /\ Older(get[h].status, get[g].status)
                  THEN [get[h] EXCEPT !.late = TRUE] ELSE get[h]
  BY Zenon DEF ShowAnswer, Answers
<1>5. \A h \in Get \ {g} :
        /\ Answers(h)' = Answers(h)
        /\ get[h].pc = "asked" => get'[h].pc = "asked"
        /\ Answers(h) => /\ get'[h].status = get[h].status
                         /\ get'[h].late <=> (get[h].late \/ Older(get[h].status, get[g].status))
  <2> SUFFICES ASSUME NEW h \in Get \ {g}
               PROVE  /\ get'[h].pc = "answered" <=> get[h].pc = "answered"
                      /\ get[h].pc = "asked" => get'[h].pc = "asked"
                      /\ get[h].pc = "answered" =>
                           /\ get'[h].status = get[h].status
                           /\ get'[h].late <=> (get[h].late \/ Older(get[h].status, get[g].status))
    BY DEF Answers
  <2>1. CASE Answers(h) /\ Older(get[h].status, get[g].status)
    <3>1. get'[h] = [get[h] EXCEPT !.late = TRUE]
      BY <1>4, <2>1, Zenon
    <3>2. /\ [get[h] EXCEPT !.late = TRUE].pc = "answered"
          /\ [get[h] EXCEPT !.late = TRUE].status = get[h].status
          /\ [get[h] EXCEPT !.late = TRUE].late
      BY <2>1, GetHas DEF Answers
    <3>3. get'[h].pc = "answered" /\ get'[h].status = get[h].status /\ get'[h].late
      BY <3>1, <3>2, Zenon
    <3> QED
      BY <2>1, <3>3 DEF Answers
  <2>2. CASE ~(Answers(h) /\ Older(get[h].status, get[g].status))
    <3>1. get'[h] = get[h]
      BY <1>4, <2>2, Zenon
    <3>2. get[h].pc = "answered" => ~Older(get[h].status, get[g].status)
      BY <2>2 DEF Answers
    <3> QED
      BY <3>1, <3>2, Zenon
  <2> QED
    BY <2>1, <2>2
<1>6. ~Answers(g)'
  BY <1>3 DEF Answers, NoGet
<1>7. NoneAhead'
  BY <1>1, <1>2, <1>5, <1>6 DEF NoneAhead
<1>8. ASSUME ~missed' PROVE VerdictComes'
  <2>1. ~missed /\ ~get[g].late /\ VerdictComes
    BY <1>1, <1>2, <1>8, GetHas DEF LiveInv, LiveShape
  <2> DEFINE v == verdict[page]
  <2>2. v' = v /\ v \in VerdictStatus
    BY <1>1, <1>2 DEF LiveShape
  <2>3. \A h \in Get : Answers(h) => get[h].status \in VerdictStatus /\ ~Older(v, get[h].status)
    BY <1>2, GetHas DEF NoneAhead, Answers
  <2> HIDE DEF v
  <2>4. CASE Owed
    BY <1>1, <1>5, <2>4 DEF Owed, VerdictComes
  <2>5. ASSUME get[g].status = v PROVE VerdictComes'
    <3>1. \A h \in Get \ {g} : Answers(h)' => get'[h].status = v \/ get'[h].late
      <4> SUFFICES ASSUME NEW h \in Get \ {g}, Answers(h) PROVE get'[h].status = v \/ get'[h].late
        BY <1>5
      <4>1. get[h].status = v \/ Older(get[h].status, v)
        BY <2>2, <2>3, StatusesAreOrdered
      <4> QED
        BY <1>5, <2>5, <4>1
    <3> QED
      BY <1>1, <1>6, <2>2, <2>5, <3>1 DEF VerdictComes, v
  <2>6. CASE shown = v /\ \A h \in Get : Answers(h) => get[h].status = v \/ get[h].late
    BY <1>1, <2>1, <2>5, <2>6 DEF Answers
  <2>7. CASE \E h \in Get : Answers(h) /\ get[h].status = v /\ ~get[h].late
    <3>1. PICK h \in Get : Answers(h) /\ get[h].status = v /\ ~get[h].late
      BY <2>7
    <3>2. CASE h # g
      <4>1. Answers(h)' /\ get'[h].status = v /\ ~get'[h].late
        BY <1>1, <1>5, <2>3, <3>1, <3>2 DEF Answers
      <4> QED
        BY <2>2, <4>1 DEF VerdictComes, v
    <3> QED
      BY <2>5, <3>1, <3>2
  <2> QED
    BY <2>1, <2>4, <2>6, <2>7 DEF VerdictComes, v
<1> QED
  BY <1>1, <1>2, <1>7, <1>8 DEF LiveInv

LEMMA AnswerKeeps ==
  ASSUME LiveShape, LiveInv, NEW g \in Get, AnswerGet(g)
  PROVE  LiveInv'
<1> DEFINE a == [pc |-> "answered", status |-> verdict[page], late |-> FALSE]
<1>1. /\ get[g].pc = "asked" /\ get'[g] = a /\ \A h \in Get \ {g} : get'[h] = get[h]
      /\ UNCHANGED <<verdict, page>>
  BY DEF AnswerGet, serverVars, LiveShape
<1>2. a.pc = "answered" /\ a.status = verdict[page] /\ a.late = FALSE
  OBVIOUS
<1> HIDE DEF a
<1>3. page # Nowhere /\ NoneAhead
  BY <1>1 DEF LiveInv, NoGet
<1>4. ~Older(verdict[page], verdict[page])
  BY DEF Older
<1>5. NoneAhead'
  BY <1>1, <1>2, <1>3, <1>4 DEF NoneAhead, Answers
<1>6. VerdictComes'
  BY <1>1, <1>2 DEF VerdictComes, Answers
<1> QED
  BY <1>1, <1>3, <1>5, <1>6 DEF LiveInv

LEMMA OpenPageKeeps ==
  ASSUME LiveShape, LiveInv, NEW s \in Submission, OpenPage(s)
  PROVE  LiveInv'
<1>1. PICK g \in Get : get' = [get EXCEPT ![g] = [pc |-> "asked"]]
  BY DEF OpenPage
<1>2. get'[g].pc = "asked" /\ \A h \in Get \ {g} : get'[h] = NoGet
  BY <1>1 DEF OpenPage, LiveInv, LiveShape
<1>3. page' # Nowhere
  BY LiveVerdictAssumption DEF OpenPage
<1>4. Owed' /\ NoneAhead'
  BY <1>2 DEF Owed, NoneAhead, Answers, NoGet
<1> QED
  BY <1>3, <1>4 DEF LiveInv, VerdictComes

LEMMA LiveInvStep == LiveShape /\ LiveInv /\ [LiveNext]_liveVars => LiveInv'
<1> SUFFICES ASSUME LiveShape, LiveInv, [LiveNext]_liveVars PROVE LiveInv'
  OBVIOUS
<1>1. ASSUME NEW s \in Submission, NEW news \in {"JUDGING", "FINAL"},
             Settle(s, news) \/ PublishUpdate(s, news) \/ PublishFails(s, news)
      PROVE  LiveInv'
  BY <1>1, SettleKeeps, PublishKeepsPage
<1>2. ASSUME NEW s \in Submission, PassOn(s) \/ OpenPage(s) PROVE LiveInv'
  BY <1>2, PassOnKeeps, OpenPageKeeps
<1>3. ASSUME NEW g \in Get, AnswerGet(g) \/ ShowAnswer(g) PROVE LiveInv'
  BY <1>3, AnswerKeeps, ShowAnswerKeeps
<1>4. ASSUME NEW g \in Get, GetFails(g) PROVE LiveInv'
  <2>1. missed' /\ UNCHANGED <<verdict, page>> /\ get[g] # NoGet
    BY <1>4 DEF GetFails, serverVars, NoGet
  <2>2. \A h \in Get : get'[h] = NoGet \/ get'[h] = get[h]
    BY <1>4 DEF GetFails, LiveShape
  <2>3. NoneAhead => NoneAhead'
    BY <2>1, <2>2 DEF NoneAhead, Answers, NoGet
  <2> QED
    BY <2>1, <2>3 DEF LiveInv
<1>5. CASE LeavePage
  BY <1>5 DEF LeavePage, LiveInv
<1>6. CASE UNCHANGED <<serverVars, pageVars, missed>>
  BY <1>6 DEF serverVars, pageVars, LiveInv, VerdictComes, Owed, NoneAhead, Answers
<1>7. \/ (\E s \in Submission : JoinRoom(s) \/ JoinFails(s))
      \/ ReceivePacket \/ Disconnect \/ Reconnect \/ UNCHANGED liveVars
      => UNCHANGED <<serverVars, pageVars, missed>>
  BY DEF JoinRoom, JoinFails, ReceivePacket, Disconnect, Reconnect, liveVars, serverVars, pageVars
<1> QED
  BY <1>1, <1>2, <1>3, <1>4, <1>5, <1>6, <1>7 DEF LiveNext

-----------------------------------------------------------------------------
(* The rooms.                                                              *)

LEMMA WordsRest ==
  ASSUME packets' = packets, NEW s \in Submission
  PROVE  (LastWordIsJoin(s)' <=> LastWordIsJoin(s)) /\ (Unspoken(s)' <=> Unspoken(s))
  BY DEF LastWordIsJoin, Unspoken

\* One more join is looked at, or a leave is obeyed.
LEMMA ReceiveKeepsRooms ==
  ASSUME LiveShape, RoomsInv, ReceivePacket
  PROVE  RoomsInv'
<1> SUFFICES ASSUME ~slipped', NEW s \in Submission PROVE WillBeIn(s)' <=> s = page'
  BY DEF RoomsInv
<1> DEFINE x == Head(packets)[2]
<1>1. packets # <<>> /\ packets' = Tail(packets) /\ page' = page /\ packets \in Seq(Packet)
  BY DEF ReceivePacket, pageVars, LiveShape
<1>2. Head(packets) \in Packet
  BY <1>1
<1>3. /\ x \in Submission
      /\ Head(packets)[1] = "join" => Head(packets) = <<"join", x>>
      /\ \A t : Head(packets) = <<"join", t>> => Head(packets)[1] = "join" /\ x = t
  BY <1>2 DEF Packet
<1>4. /\ LastWordIsJoin(s) <=> LastWordIsJoin(s)' \/ (Head(packets) = <<"join", s>> /\ Unspoken(s)')
      /\ Unspoken(s) <=> x # s /\ Unspoken(s)'
  BY <1>1, OneWordLess
<1>5. CASE Head(packets)[1] = "join"
  <2>1. /\ checking' = [checking EXCEPT ![x] = @ + 1] /\ rooms' = rooms /\ ~slipped
    BY <1>5 DEF ReceivePacket
  <2>2. WillBeIn(s) <=> s = page
    BY <2>1 DEF RoomsInv
  <2>3. IF s = x THEN checking'[s] > 0 ELSE checking'[s] = checking[s]
    BY <1>3, <2>1 DEF LiveShape
  <2> HIDE DEF x
  <2> QED
    BY <1>1, <1>3, <1>4, <1>5, <2>1, <2>2, <2>3 DEF WillBeIn
<1>6. CASE Head(packets)[1] # "join"
  <2>1. checking' = checking /\ rooms' = rooms \ {x} /\ ~slipped /\ ~(checking[x] > 0)
    BY <1>6 DEF ReceivePacket, LiveShape
  <2>2. WillBeIn(s) <=> s = page
    BY <2>1 DEF RoomsInv
  <2> HIDE DEF x
  <2> QED
    BY <1>1, <1>3, <1>4, <1>6, <2>1, <2>2 DEF WillBeIn
<1> QED
  BY <1>5, <1>6

LEMMA RoomsInvStep == LiveShape /\ RoomsInv /\ [LiveNext]_liveVars => RoomsInv'
<1> SUFFICES ASSUME LiveShape, RoomsInv, [LiveNext]_liveVars PROVE RoomsInv'
  OBVIOUS
<1> USE DEF serverVars, socketVars, pageVars
<1>1. CASE UNCHANGED <<packets, checking, rooms, page, slipped>>
  BY <1>1, WordsRest DEF RoomsInv, WillBeIn
<1>2. ASSUME NEW s \in Submission, JoinRoom(s) PROVE RoomsInv'
  <2>1. UNCHANGED <<packets, page, slipped>>
    BY <1>2 DEF JoinRoom
  <2>2. \A t \in Submission : (checking'[t] > 0 \/ t \in rooms') <=> (checking[t] > 0 \/ t \in rooms)
    BY <1>2 DEF JoinRoom, LiveShape
  <2>3. \A t \in Submission : WillBeIn(t)' <=> WillBeIn(t)
    BY <2>1, <2>2, WordsRest DEF WillBeIn
  <2> QED
    BY <2>1, <2>3 DEF RoomsInv
<1>3. ASSUME NEW s \in Submission, JoinFails(s) PROVE RoomsInv'
  BY <1>3 DEF JoinFails, RoomsInv
<1>4. ASSUME NEW s \in Submission, OpenPage(s) PROVE RoomsInv'
  <2>1. /\ packets \in Seq(Packet) /\ packets' = Append(packets, <<"join", s>>) /\ page' = s
        /\ page \notin Submission /\ UNCHANGED <<checking, rooms, slipped>>
    BY <1>4, LiveVerdictAssumption DEF OpenPage, LiveShape
  <2> SUFFICES ASSUME ~slipped, NEW t \in Submission PROVE WillBeIn(t)' <=> t = s
    BY <2>1 DEF RoomsInv
  <2>2. ~WillBeIn(t)
    BY <2>1 DEF RoomsInv
  <2>3. (LastWordIsJoin(t)' <=> t = s \/ LastWordIsJoin(t)) /\ (Unspoken(t)' <=> Unspoken(t) /\ t # s)
    BY <2>1, OneMoreWord
  <2> QED
    BY <2>1, <2>2, <2>3 DEF WillBeIn
<1>5. CASE LeavePage
  <2>1. /\ packets \in Seq(Packet) /\ page \in Submission /\ page' \notin Submission
        /\ UNCHANGED <<checking, rooms, slipped>>
    BY <1>5, LiveVerdictAssumption DEF LeavePage, LiveShape
  <2>2. packets' = Append(packets, <<"leave", page>>)
    BY <1>5, <2>1 DEF LeavePage, Farewell, Packet
  <2> SUFFICES ASSUME ~slipped, NEW t \in Submission PROVE ~WillBeIn(t)'
    BY <2>1 DEF RoomsInv
  <2>3. WillBeIn(t) <=> t = page
    BY DEF RoomsInv
  <2>4. (LastWordIsJoin(t)' <=> t # page /\ LastWordIsJoin(t)) /\ (Unspoken(t)' <=> Unspoken(t) /\ t # page)
    BY <2>1, <2>2, OneMoreWord
  <2> QED
    BY <2>1, <2>3, <2>4 DEF WillBeIn
<1>6. CASE Disconnect
  <2> SUFFICES ASSUME ~slipped', NEW t \in Submission PROVE ~WillBeIn(t)' /\ page' = Nowhere
    BY LiveVerdictAssumption DEF RoomsInv
  <2>1. page' = Nowhere /\ packets' = <<>> /\ checking'[t] = 0 /\ rooms' = {}
    BY <1>6 DEF Disconnect
  <2> QED
    BY <2>1 DEF WillBeIn, LastWordIsJoin
<1>7. CASE ReceivePacket
  BY <1>7, ReceiveKeepsRooms
<1>8. \/ \E s \in Submission : \/ \E news \in {"JUDGING", "FINAL"} :
                                    Settle(s, news) \/ PublishUpdate(s, news) \/ PublishFails(s, news)
                               \/ PassOn(s)
      \/ \E g \in Get : AnswerGet(g) \/ ShowAnswer(g) \/ GetFails(g)
      \/ Reconnect \/ UNCHANGED liveVars
      => UNCHANGED <<packets, checking, rooms, page, slipped>>
  BY DEF Settle, PublishUpdate, PublishFails, PassOn, AnswerGet, ShowAnswer, GetFails, Reconnect, liveVars
<1> QED
  BY <1>1, <1>2, <1>3, <1>4, <1>5, <1>6, <1>7, <1>8 DEF LiveNext

-----------------------------------------------------------------------------

LEMMA LiveInvInit == LiveInit => LiveInv /\ RoomsInv
  BY LiveVerdictAssumption DEF LiveInit, LiveInv, RoomsInv, WillBeIn, LastWordIsJoin

LEMMA LiveInductive == LiveSpec => [](LiveShape /\ LiveInv /\ RoomsInv)
<1>1. LiveInit => LiveShape /\ LiveInv /\ RoomsInv
  BY LiveShapeInit, LiveInvInit
<1>2. LiveShape /\ LiveInv /\ RoomsInv /\ [LiveNext]_liveVars => (LiveShape /\ LiveInv /\ RoomsInv)'
  BY LiveShapeStep, LiveInvStep, RoomsInvStep
<1> QED
  BY <1>1, <1>2, PTL DEF LiveSpec

\* A page that nothing is on its way to shows the verdict that is stored, but for the updates
\* and answers SettledPageIsFinal names: for any number of submissions, requests and visits.
THEOREM VerdictReachesPage == LiveSpec => []SettledPageIsFinal
<1>1. LiveShape /\ LiveInv => SettledPageIsFinal
  <2> SUFFICES ASSUME LiveShape, LiveInv, Quiet, page # Nowhere, ~missed PROVE shown = verdict[page]
    BY DEF SettledPageIsFinal
  <2>1. VerdictComes /\ page \in Submission
    BY DEF LiveInv, LiveShape
  <2>2. \A g \in Get : get[g].pc = "none"
    BY DEF Quiet, NoGet
  <2> QED
    BY <2>1, <2>2 DEF VerdictComes, Owed, Answers, Quiet
<1> QED
  BY <1>1, LiveInductive, PTL

\* The socket is in the room of its page and in no other, but for the joins and leaves that
\* RoomsArePages names, whatever order packets and checks are handled in.
THEOREM SocketFollowsPage == LiveSpec => []RoomsArePages
<1>1. LiveShape /\ RoomsInv => RoomsArePages
  <2> SUFFICES ASSUME LiveShape, RoomsInv, Quiet, ~slipped PROVE rooms = {page} \ {Nowhere}
    BY DEF RoomsArePages
  <2>1. \A s \in Submission : WillBeIn(s) <=> s \in rooms
    BY DEF WillBeIn, LastWordIsJoin, Unspoken, Quiet
  <2>2. \A s \in Submission : s \in rooms <=> s = page
    BY <2>1 DEF RoomsInv
  <2> QED
    BY <2>2, LiveVerdictAssumption DEF LiveShape
<1> QED
  BY <1>1, LiveInductive, PTL

-----------------------------------------------------------------------------
(* The bounds of LiveTypeOK: what a verdict announces, what a page asks.   *)

If(truth) == IF truth THEN 1 ELSE 0

\* The updates that the statuses a submission has had so far are worth.
Worth(st) == IF st = "PENDING" THEN 0 ELSE IF st = "JUDGING" THEN 1 ELSE 2

\* The joins of a submission that have not reached the gateway.
Joins(s) == {i \in 1..Len(packets) : packets[i] = <<"join", s>>}

LiveBounds ==
  /\ shown \in VerdictStatus \cup {"none"} /\ online \in BOOLEAN /\ opens \in 0..MaxOpens
  /\ \A s \in Submission : bus[s] + If("JUDGING" \in due[s]) + If("FINAL" \in due[s]) <= Worth(verdict[s])
  /\ \A s \in Submission : checking[s] + Cardinality(Joins(s)) <= opens

LEMMA JoinsCounted ==
  ASSUME packets \in Seq(Packet)
  PROVE  \A s : IsFiniteSet(Joins(s)) /\ Cardinality(Joins(s)) \in Nat
<1> SUFFICES ASSUME NEW s PROVE IsFiniteSet(Joins(s)) /\ Cardinality(Joins(s)) \in Nat
  OBVIOUS
<1>1. Len(packets) \in Nat
  OBVIOUS
<1>2. IsFiniteSet(1..Len(packets))
  BY <1>1, FS_Interval
<1>3. Joins(s) \in SUBSET (1..Len(packets))
  BY DEF Joins
<1> QED
  BY <1>2, <1>3, FS_Subset, FS_CardinalityType

LEMMA JoinAdded ==
  ASSUME packets \in Seq(Packet), NEW w \in Packet, packets' = Append(packets, w), NEW s
  PROVE  Cardinality(Joins(s))' <= Cardinality(Joins(s)) + If(w = <<"join", s>>)
<1>1. PICK n : n = Len(packets)
  OBVIOUS
<1>2. /\ n \in Nat /\ Len(packets') = n + 1
      /\ \A i \in 1..n : packets'[i] = packets[i]
      /\ packets'[n + 1] = w
  BY <1>1
<1>3. Joins(s)' \in SUBSET (Joins(s) \cup (IF w = <<"join", s>> THEN {n + 1} ELSE {}))
  <2> SUFFICES ASSUME NEW i \in Joins(s)' PROVE i \in Joins(s) \/ (w = <<"join", s>> /\ i = n + 1)
    OBVIOUS
  <2>1. i \in 1..n+1 /\ packets'[i] = <<"join", s>>
    BY <1>2 DEF Joins
  <2>2. CASE i = n + 1
    BY <1>2, <2>1, <2>2
  <2>3. CASE i \in 1..n
    BY <1>1, <1>2, <2>1, <2>3 DEF Joins
  <2> QED
    BY <1>2, <2>1, <2>2, <2>3
<1>4. IsFiniteSet(Joins(s)) /\ Cardinality(Joins(s)) \in Nat
  BY JoinsCounted
<1>5. PICK J, K : J = Joins(s) /\ K = Joins(s)'
  OBVIOUS
<1>6. Cardinality(K) <= Cardinality(J) + If(w = <<"join", s>>)
  <2>1. CASE w = <<"join", s>>
    <3>1. K \in SUBSET (J \cup {n + 1})
      BY <1>3, <1>5, <2>1
    <3>2. /\ IsFiniteSet(J \cup {n + 1})
          /\ Cardinality(J \cup {n + 1}) = IF n + 1 \in J THEN Cardinality(J) ELSE Cardinality(J) + 1
      <4>1. IsFiniteSet(J)
        BY <1>4, <1>5
      <4> QED
        BY <4>1, FS_AddElement
    <3>3. Cardinality(K) <= Cardinality(J \cup {n + 1}) /\ Cardinality(K) \in Nat
      BY <3>1, <3>2, FS_Subset, FS_CardinalityType
    <3>4. Cardinality(J \cup {n + 1}) \in Nat /\ Cardinality(J) \in Nat
      BY <1>4, <1>5, <3>2, FS_CardinalityType
    <3> QED
      BY <2>1, <3>2, <3>3, <3>4 DEF If
  <2>2. CASE w # <<"join", s>>
    <3>1. K \in SUBSET J
      BY <1>3, <1>5, <2>2
    <3>2. Cardinality(K) <= Cardinality(J) /\ Cardinality(J) \in Nat
      BY <1>4, <1>5, <3>1, FS_Subset
    <3>3. Cardinality(K) \in Nat
      BY <1>4, <1>5, <3>1, FS_Subset, FS_CardinalityType
    <3> QED
      BY <2>2, <3>2, <3>3 DEF If
  <2> QED
    BY <2>1, <2>2
<1> QED
  BY <1>5, <1>6

LEMMA JoinTaken ==
  ASSUME packets \in Seq(Packet), packets # <<>>, packets' = Tail(packets), NEW s
  PROVE  Cardinality(Joins(s))' + If(Head(packets) = <<"join", s>>) <= Cardinality(Joins(s))
<1>1. PICK n : n = Len(packets)
  OBVIOUS
<1>2. /\ n \in Nat /\ n >= 1 /\ Len(packets') = n - 1 /\ packets' \in Seq(Packet)
      /\ \A i \in 1..n-1 : packets'[i] = packets[i + 1]
      /\ Head(packets) = packets[1]
  BY <1>1
<1>3. PICK J, K : J = Joins(s) /\ K = Joins(s)'
  OBVIOUS
<1>4. IsFiniteSet(J) /\ Cardinality(J) \in Nat
  BY <1>3, JoinsCounted
<1>5. \A i \in K : i \in 1..n-1 /\ i + 1 \in J \ {1}
  BY <1>1, <1>2, <1>3 DEF Joins
<1>6. IsFiniteSet(J \ {1}) /\ Cardinality(J \ {1}) = IF 1 \in J THEN Cardinality(J) - 1 ELSE Cardinality(J)
  BY <1>4, FS_RemoveElement
<1>7. PICK f : f = [i \in K |-> i + 1]
  OBVIOUS
<1>8. f \in Injection(K, J \ {1})
  <2>1. f \in [K -> J \ {1}]
    BY <1>5, <1>7
  <2>2. \A a, b \in K : f[a] = f[b] => a = b
    BY <1>2, <1>5, <1>7
  <2> QED
    BY <2>1, <2>2 DEF Injection, IsInjective
<1>9. IsFiniteSet(K) /\ Cardinality(K) <= Cardinality(J \ {1})
  BY <1>6, <1>8, FS_Injection
<1>10. Cardinality(K) \in Nat /\ Cardinality(J \ {1}) \in Nat
  BY <1>6, <1>9, FS_CardinalityType
<1>11. Head(packets) = <<"join", s>> => 1 \in J
  BY <1>1, <1>2, <1>3 DEF Joins
<1>12. Cardinality(K) + If(Head(packets) = <<"join", s>>) <= Cardinality(J)
  BY <1>4, <1>6, <1>9, <1>10, <1>11 DEF If
<1> QED
  BY <1>3, <1>12

LEMMA LiveBoundsInit == LiveInit => LiveBounds
<1> SUFFICES ASSUME LiveInit PROVE LiveBounds
  OBVIOUS
<1>1. \A s : Joins(s) = {}
  BY DEF LiveInit, Joins
<1>2. Cardinality({}) = 0
  BY FS_EmptySet
<1>3. \A s \in Submission : bus[s] = 0 /\ due[s] = {} /\ verdict[s] = "PENDING" /\ checking[s] = 0
  BY DEF LiveInit
<1>4. \A s \in Submission : bus[s] + If("JUDGING" \in due[s]) + If("FINAL" \in due[s]) <= Worth(verdict[s])
  BY <1>3 DEF If, Worth
<1>5. opens = 0 /\ \A s \in Submission : checking[s] + Cardinality(Joins(s)) <= opens
  <2>1. opens = 0 /\ \A s \in Submission : Cardinality(Joins(s)) = 0
    BY <1>1, <1>2 DEF LiveInit
  <2> QED
    BY <1>3, <2>1
<1> QED
  BY <1>4, <1>5, LiveVerdictAssumption DEF LiveInit, LiveBounds

\* A step that leaves the packets and the gateway's joins alone, or takes some away.
LEMMA BoundsKept ==
  ASSUME LiveShape, LiveBounds, opens' = opens, online' \in BOOLEAN,
         shown' \in VerdictStatus \cup {"none"}, UNCHANGED serverVars, packets' = packets,
         \A s \in Submission : checking'[s] \in Nat /\ checking'[s] <= checking[s]
  PROVE  LiveBounds'
<1>1. \A s : Joins(s)' = Joins(s)
  BY DEF Joins
<1>2. \A s \in Submission : checking[s] \in Nat /\ Cardinality(Joins(s)) \in Nat /\ opens \in Nat
  BY JoinsCounted DEF LiveShape, LiveBounds
<1>3. \A s \in Submission : (checking[s] + Cardinality(Joins(s)) <= opens)'
  <2> SUFFICES ASSUME NEW s \in Submission PROVE (checking[s] + Cardinality(Joins(s)) <= opens)'
    OBVIOUS
  <2>1. checking[s] + Cardinality(Joins(s)) <= opens
    BY DEF LiveBounds
  <2>2. PICK a, b, c, d : a = checking[s] /\ b = checking'[s] /\ c = Cardinality(Joins(s)) /\ d = opens
    OBVIOUS
  <2>3. a \in Nat /\ b \in Nat /\ c \in Nat /\ d \in Nat /\ b <= a /\ a + c <= d
    BY <1>2, <2>1, <2>2
  <2>4. b + c <= d
    BY <2>3
  <2> QED
    BY <1>1, <2>2, <2>4
<1> QED
  BY <1>3 DEF LiveBounds, serverVars

\* A step of the server.
LEMMA BoundsServed ==
  ASSUME LiveShape, LiveBounds, UNCHANGED <<opens, online, shown, packets, checking>>,
         NEW s \in Submission, NEW b \in Nat, NEW d \in SUBSET {"JUDGING", "FINAL"}, NEW v \in VerdictStatus,
         bus' = [bus EXCEPT ![s] = b], due' = [due EXCEPT ![s] = d],
         verdict' = [verdict EXCEPT ![s] = v],
         b + If("JUDGING" \in d) + If("FINAL" \in d) <= Worth(v)
  PROVE  LiveBounds'
<1>1. \A t : Joins(t)' = Joins(t)
  BY DEF Joins
<1>2. /\ \A t \in Submission \ {s} : bus'[t] = bus[t] /\ due'[t] = due[t] /\ verdict'[t] = verdict[t]
      /\ bus'[s] = b /\ due'[s] = d /\ verdict'[s] = v
  BY DEF LiveShape
<1>3. \A t \in Submission :
        bus'[t] + If("JUDGING" \in due'[t]) + If("FINAL" \in due'[t]) <= Worth(verdict'[t])
  BY <1>2 DEF LiveBounds
<1>4. \A t \in Submission : checking'[t] + Cardinality(Joins(t)') <= opens'
  BY <1>1 DEF LiveBounds
<1> QED
  BY <1>3, <1>4 DEF LiveBounds

LEMMA LiveBoundsStep == LiveShape /\ LiveInv /\ LiveBounds /\ [LiveNext]_liveVars => LiveBounds'
<1> SUFFICES ASSUME LiveShape, LiveInv, LiveBounds, [LiveNext]_liveVars PROVE LiveBounds'
  OBVIOUS
<1>0. /\ \A s \in Submission : /\ checking[s] \in Nat /\ bus[s] \in Nat /\ verdict[s] \in VerdictStatus
                               /\ due[s] \in SUBSET {"JUDGING", "FINAL"}
                               /\ bus = [bus EXCEPT ![s] = bus[s]] /\ due = [due EXCEPT ![s] = due[s]]
                               /\ verdict = [verdict EXCEPT ![s] = verdict[s]]
      /\ online \in BOOLEAN /\ shown \in VerdictStatus \cup {"none"} /\ opens \in Nat
      /\ packets \in Seq(Packet)
  BY DEF LiveShape, LiveBounds
<1>1. \A s \in Submission :
        bus[s] + If("JUDGING" \in due[s]) + If("FINAL" \in due[s]) <= Worth(verdict[s])
  BY DEF LiveBounds
<1>2. ASSUME NEW s \in Submission, NEW news \in {"JUDGING", "FINAL"}, Settle(s, news)
      PROVE  LiveBounds'
  <2>1. PICK d : d = due[s] \cup {news}
    OBVIOUS
  <2>2. bus[s] + If("JUDGING" \in d) + If("FINAL" \in d) <= Worth(news)
    BY <1>0, <1>1, <1>2, <2>1 DEF Settle, If, Worth, VerdictStatus
  <2>3. UNCHANGED <<opens, online, shown, packets, checking, bus>>
    BY <1>2 DEF Settle, socketVars, pageVars
  <2>4. d \in SUBSET {"JUDGING", "FINAL"} /\ news \in VerdictStatus
    BY <1>0, <2>1 DEF VerdictStatus
  <2>5. due' = [due EXCEPT ![s] = d] /\ verdict' = [verdict EXCEPT ![s] = news]
    BY <1>2, <2>1 DEF Settle
  <2> QED
    BY <1>0, <2>2, <2>3, <2>4, <2>5, BoundsServed
<1>3. ASSUME NEW s \in Submission, NEW news \in {"JUDGING", "FINAL"},
             PublishUpdate(s, news) \/ PublishFails(s, news)
      PROVE  LiveBounds'
  <2>1. PICK d, b : d = due[s] \ {news} /\ b = IF bus' = bus THEN bus[s] ELSE bus[s] + 1
    OBVIOUS
  <2>2. news \in due[s] /\ due' = [due EXCEPT ![s] = d]
    BY <1>3, <2>1 DEF PublishUpdate, PublishFails
  <2>3. bus' = [bus EXCEPT ![s] = b]
    BY <1>0, <1>3, <2>1 DEF PublishUpdate, PublishFails, Announced
  <2>4. b \in Nat /\ b <= bus[s] + 1 /\ d \in SUBSET {"JUDGING", "FINAL"}
    BY <1>0, <2>1
  <2>5. b + If("JUDGING" \in d) + If("FINAL" \in d) <= Worth(verdict[s])
    BY <1>0, <1>1, <2>1, <2>2, <2>4 DEF If, Worth, VerdictStatus
  <2>6. UNCHANGED <<opens, online, shown, packets, checking, verdict>>
    BY <1>3 DEF PublishUpdate, PublishFails, socketVars, pageVars
  <2> QED
    BY <1>0, <2>2, <2>3, <2>4, <2>5, <2>6, BoundsServed
<1>4. ASSUME NEW s \in Submission, PassOn(s) PROVE LiveBounds'
  <2>1. bus[s] > 0 /\ bus' = [bus EXCEPT ![s] = bus[s] - 1]
    BY <1>4 DEF PassOn
  <2>2. UNCHANGED <<opens, online, shown, packets, checking, verdict, due>>
    BY <1>4 DEF PassOn, socketVars
  <2>3. /\ bus[s] - 1 \in Nat
        /\ bus[s] - 1 + If("JUDGING" \in due[s]) + If("FINAL" \in due[s]) <= Worth(verdict[s])
    BY <1>0, <1>1, <2>1 DEF If, Worth
  <2>4. due' = [due EXCEPT ![s] = due[s]] /\ verdict' = [verdict EXCEPT ![s] = verdict[s]]
    BY <1>0, <2>2
  <2> QED
    BY <1>0, <2>1, <2>2, <2>3, <2>4, BoundsServed
<1>5. ASSUME NEW s \in Submission, JoinRoom(s) \/ JoinFails(s) PROVE LiveBounds'
  <2>1. checking[s] > 0 /\ checking' = [checking EXCEPT ![s] = @ - 1]
    BY <1>5 DEF JoinRoom, JoinFails
  <2>2. \A t \in Submission : checking'[t] \in Nat /\ checking'[t] <= checking[t]
    BY <1>0, <2>1 DEF LiveShape
  <2>3. UNCHANGED <<opens, online, shown, packets>> /\ UNCHANGED serverVars
    BY <1>5 DEF JoinRoom, JoinFails, pageVars
  <2> QED
    BY <1>0, <2>2, <2>3, BoundsKept
<1>6. ASSUME NEW s \in Submission, OpenPage(s) PROVE LiveBounds'
  <2>1. /\ opens < MaxOpens /\ opens' = opens + 1 /\ shown' = "none"
        /\ packets' = Append(packets, <<"join", s>>) /\ UNCHANGED <<verdict, due, bus, online, checking>>
    BY <1>6 DEF OpenPage, serverVars
  <2>2. ASSUME NEW t \in Submission PROVE checking'[t] + Cardinality(Joins(t))' <= opens'
    <3>1. <<"join", s>> \in Packet
      BY DEF Packet
    <3>2. Cardinality(Joins(t))' <= Cardinality(Joins(t)) + If(<<"join", s>> = <<"join", t>>)
      BY <1>0, <2>1, <3>1, JoinAdded
    <3>3. If(<<"join", s>> = <<"join", t>>) \in {0, 1}
      BY DEF If
    <3>4. packets' \in Seq(Packet)
      BY <1>0, <2>1, <3>1
    <3>5. Cardinality(Joins(t))' \in Nat /\ Cardinality(Joins(t)) \in Nat
      <4>1. Len(packets') \in Nat /\ Joins(t)' \in SUBSET (1..Len(packets'))
        BY <3>4 DEF Joins
      <4>2. IsFiniteSet(1..Len(packets'))
        BY <4>1, FS_Interval
      <4> QED
        BY <1>0, <4>1, <4>2, JoinsCounted, FS_Subset, FS_CardinalityType
    <3>6. checking[t] + Cardinality(Joins(t)) <= opens
      BY DEF LiveBounds
    <3>7. PICK a, c, d, e : /\ a = checking[t] /\ c = Cardinality(Joins(t)) /\ d = Cardinality(Joins(t))'
                            /\ e = If(<<"join", s>> = <<"join", t>>)
      OBVIOUS
    <3>8. /\ a \in Nat /\ c \in Nat /\ d \in Nat /\ e \in {0, 1} /\ opens \in Nat
          /\ d <= c + e /\ a + c <= opens
      BY <1>0, <3>2, <3>3, <3>5, <3>6, <3>7
    <3>9. a + d <= opens + 1
      BY <3>8
    <3> QED
      BY <2>1, <3>7, <3>9
  <2>3. opens' \in 0..MaxOpens
    BY <1>0, <2>1, LiveVerdictAssumption
  <2> QED
    BY <1>0, <2>1, <2>2, <2>3, <1>1 DEF LiveBounds
<1>7. ASSUME NEW g \in Get, AnswerGet(g) \/ ShowAnswer(g) \/ GetFails(g) PROVE LiveBounds'
  <2>1. UNCHANGED <<opens, online, packets, checking>> /\ UNCHANGED serverVars
    BY <1>7 DEF AnswerGet, ShowAnswer, GetFails, socketVars
  <2>2. shown' \in VerdictStatus \cup {"none"}
    BY <1>0, <1>7, GetHas DEF AnswerGet, ShowAnswer, GetFails
  <2>3. \A t \in Submission : checking'[t] \in Nat /\ checking'[t] <= checking[t]
    BY <1>0, <2>1
  <2> QED
    BY <1>0, <2>1, <2>2, <2>3, BoundsKept
<1>8. CASE ReceivePacket
  <2>1. PICK w : w = Head(packets)
    OBVIOUS
  <2>2. packets # <<>> /\ packets' = Tail(packets) /\ UNCHANGED <<verdict, due, bus, online, opens, shown>>
    BY <1>8 DEF ReceivePacket, serverVars, pageVars
  <2>3. w \in Packet
    BY <1>0, <2>1, <2>2
  <2>4. PICK x \in Submission : w = <<"join", x>> \/ w = <<"leave", x>>
    BY <2>3 DEF Packet
  <2>5. IF w = <<"join", x>> THEN checking' = [checking EXCEPT ![x] = @ + 1] ELSE checking' = checking
    BY <1>8, <2>1, <2>4 DEF ReceivePacket
  <2>6. ASSUME NEW t \in Submission PROVE checking'[t] + Cardinality(Joins(t))' <= opens'
    <3>1. Cardinality(Joins(t))' + If(w = <<"join", t>>) <= Cardinality(Joins(t))
      BY <1>0, <2>1, <2>2, JoinTaken
    <3>2. checking'[t] = checking[t] + If(w = <<"join", t>>)
      BY <1>0, <2>4, <2>5 DEF If, LiveShape
    <3>3. packets' \in Seq(Packet)
      BY <1>0, <2>2
    <3>4. Cardinality(Joins(t))' \in Nat /\ Cardinality(Joins(t)) \in Nat
      <4>1. Len(packets') \in Nat /\ Joins(t)' \in SUBSET (1..Len(packets'))
        BY <3>3 DEF Joins
      <4>2. IsFiniteSet(1..Len(packets'))
        BY <4>1, FS_Interval
      <4> QED
        BY <1>0, <4>1, <4>2, JoinsCounted, FS_Subset, FS_CardinalityType
    <3>5. checking[t] + Cardinality(Joins(t)) <= opens /\ If(w = <<"join", t>>) \in {0, 1}
      BY DEF LiveBounds, If
    <3> QED
      BY <1>0, <2>2, <3>1, <3>2, <3>4, <3>5
  <2> QED
    BY <1>0, <1>1, <2>2, <2>6 DEF LiveBounds
<1>9. CASE LeavePage
  <2>1. /\ page \in Submission /\ packets' = packets \o << <<"leave", page>> >> /\ shown' = "none"
        /\ UNCHANGED <<verdict, due, bus, online, checking, opens>>
    BY <1>9 DEF LeavePage, LiveShape, Farewell, serverVars
  <2>2. PICK w : w = <<"leave", page>>
    OBVIOUS
  <2>3. w \in Packet /\ packets' = Append(packets, w)
    BY <1>0, <2>1, <2>2 DEF Packet
  <2>4. packets' \in Seq(Packet)
    BY <1>0, <2>3
  <2>5. ASSUME NEW t \in Submission PROVE checking'[t] + Cardinality(Joins(t))' <= opens'
    <3>1. Cardinality(Joins(t))' <= Cardinality(Joins(t)) + If(w = <<"join", t>>)
      BY <1>0, <2>3, JoinAdded
    <3>2. If(w = <<"join", t>>) = 0
      BY <2>2 DEF If
    <3>4. Cardinality(Joins(t))' \in Nat /\ Cardinality(Joins(t)) \in Nat
      <4>1. Len(packets') \in Nat /\ Joins(t)' \in SUBSET (1..Len(packets'))
        BY <2>4 DEF Joins
      <4>2. IsFiniteSet(1..Len(packets'))
        BY <4>1, FS_Interval
      <4> QED
        BY <1>0, <4>1, <4>2, JoinsCounted, FS_Subset, FS_CardinalityType
    <3>5. checking[t] + Cardinality(Joins(t)) <= opens
      BY DEF LiveBounds
    <3> QED
      BY <1>0, <2>1, <3>1, <3>2, <3>4, <3>5
  <2> QED
    BY <1>0, <1>1, <2>1, <2>5 DEF LiveBounds
<1>10. CASE Disconnect
  <2>1. /\ packets' = <<>> /\ checking' = [s \in Submission |-> 0] /\ online' = FALSE
        /\ UNCHANGED <<verdict, due, bus, opens, shown>>
    BY <1>10 DEF Disconnect, serverVars, pageVars
  <2>2. \A t : Joins(t)' = {}
    BY <2>1 DEF Joins
  <2>3. \A t \in Submission : checking'[t] + Cardinality(Joins(t)') <= opens'
    <3>1. Cardinality({}) = 0
      BY FS_EmptySet
    <3>2. \A t \in Submission : checking'[t] = 0 /\ Cardinality(Joins(t)') = 0
      BY <2>1, <2>2, <3>1
    <3> QED
      BY <1>0, <2>1, <3>2
  <2> QED
    BY <1>0, <1>1, <2>1, <2>3 DEF LiveBounds
<1>11. CASE Reconnect \/ UNCHANGED liveVars
  <2>1. UNCHANGED <<opens, packets, checking, shown>> /\ UNCHANGED serverVars /\ online' \in BOOLEAN
    BY <1>0, <1>11 DEF Reconnect, liveVars, pageVars, serverVars
  <2>2. \A t \in Submission : checking'[t] \in Nat /\ checking'[t] <= checking[t]
    BY <1>0, <2>1
  <2> QED
    BY <1>0, <2>1, <2>2, BoundsKept
<1> QED
  BY <1>2, <1>3, <1>4, <1>5, <1>6, <1>7, <1>8, <1>9, <1>10, <1>11 DEF LiveNext

\* Of a submission no more updates are announced than it has had statuses, and the gateway looks
\* at no more joins of it than pages were opened: for any number of submissions, requests, visits.
THEOREM LiveTyped == LiveSpec => []LiveTypeOK
<1>1. LiveInit => LiveShape /\ LiveInv /\ LiveBounds
  BY LiveShapeInit, LiveInvInit, LiveBoundsInit
<1>2. LiveShape /\ LiveInv /\ LiveBounds /\ [LiveNext]_liveVars => (LiveShape /\ LiveInv /\ LiveBounds)'
  BY LiveShapeStep, LiveInvStep, LiveBoundsStep
<1>3. LiveShape /\ LiveBounds => LiveTypeOK
  <2> SUFFICES ASSUME LiveShape, LiveBounds PROVE LiveTypeOK
    OBVIOUS
  <2>1. \A s \in Submission : bus[s] \in 0..2
    <3> SUFFICES ASSUME NEW s \in Submission PROVE bus[s] \in 0..2
      OBVIOUS
    <3>1. bus[s] \in Nat /\ bus[s] + If("JUDGING" \in due[s]) + If("FINAL" \in due[s]) <= Worth(verdict[s])
      BY DEF LiveShape, LiveBounds
    <3>2. /\ If("JUDGING" \in due[s]) \in {0, 1} /\ If("FINAL" \in due[s]) \in {0, 1}
          /\ Worth(verdict[s]) \in {0, 1, 2}
      BY DEF If, Worth
    <3> QED
      BY <3>1, <3>2
  <2>2. \A s \in Submission : checking[s] \in 0..MaxOpens
    <3> SUFFICES ASSUME NEW s \in Submission PROVE checking[s] \in 0..MaxOpens
      OBVIOUS
    <3>1. Cardinality(Joins(s)) \in Nat
      BY JoinsCounted DEF LiveShape
    <3>2. checking[s] \in Nat /\ checking[s] + Cardinality(Joins(s)) <= opens /\ opens \in 0..MaxOpens
      BY DEF LiveShape, LiveBounds
    <3> QED
      BY <3>1, <3>2, LiveVerdictAssumption
  <2>3. bus \in [Submission -> 0..2] /\ checking \in [Submission -> 0..MaxOpens]
    BY <2>1, <2>2 DEF LiveShape
  <2> QED
    BY <2>3 DEF LiveShape, LiveBounds, LiveTypeOK, Packet
<1> QED
  BY <1>1, <1>2, <1>3, PTL DEF LiveSpec

-----------------------------------------------------------------------------
(***************************************************************************)
(* The five modules side by side.                                          *)
(***************************************************************************)

\* A deployment and its page keep their types: for any number of deployments and units.
THEOREM DeployTyped == DeploySpec => []DeployTypeOK
  BY DeployTypeInit, DeployTypeStep, PTL DEF DeploySpec

\* The pages of a contest and a class keep their types, for any problems, classes and pages.
THEOREM SetsTyped == SetsSpec => []SetsTypeOK
  BY SetsTypeInit, SetsTypeStep, PTL DEF SetsSpec

\* A behaviour of MCServices is one of each module: what TLC checks of the five together the
\* theorems of each module state for any values of its constants.
THEOREM ServicesAreEach ==
  ServicesSpec => RatingSpec /\ LiveSpec /\ DeploySpec /\ JudgeRunSpec /\ SetsSpec
<1>1. ServicesInit => RatingInit /\ LiveInit /\ DeployInit /\ JudgeRunInit /\ SetsInit
  BY DEF ServicesInit, RatingRest, JudgeRunStart, JudgeRunRest, SetsRest, SetsStart
<1>2. [ServicesNext]_<<part, ratingVars, liveVars, deployVars, runVars, setVars>>
      => /\ [RatingNext]_ratingVars /\ [LiveNext]_liveVars /\ [DeployNext]_deployVars
         /\ [JudgeRunNext]_runVars /\ [SetsNext]_setVars
  BY DEF ServicesNext
<1> QED
  BY <1>1, <1>2, PTL DEF ServicesSpec, RatingSpec, LiveSpec, DeploySpec, JudgeRunSpec, SetsSpec

\* All that MCServices runs keeps its types: ratings, pages, deployments, judged runs and ticks.
THEOREM ServicesTyped == ServicesSpec => []ServicesTypeOK
<1>1. /\ RatingTypeOK /\ LiveTypeOK /\ DeployTypeOK /\ JudgeRunTypeOK /\ SetsTypeOK
      => ServicesTypeOK
  BY DEF ServicesTypeOK
<1> QED
  BY <1>1, ServicesAreEach, RatingTyped, LiveTyped, DeployTyped, JudgeRunTyped, SetsTyped, PTL

=============================================================================
