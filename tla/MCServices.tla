----------------------------- MODULE MCServices -----------------------------
(* SolverRating, LiveVerdict, DeployAgent, JudgeRun and ProblemSets, which   *)
(* share no state here, checked side by side: a behaviour is one of one of   *)
(* them.                                                                     *)
EXTENDS SolverRating, LiveVerdict, DeployAgent, JudgeRun, ProblemSets, TLC

VARIABLE part

\* The sets of different modules are the same model values, so that one permutation serves
\* Problem, Submission, Run and Exercise, and one Job, Get and Editor.
ServicesSymmetry == Permutations(Problem) \cup Permutations(Job)

RatingRest == RatingInit /\ \A p \in Problem : ~problem[p].published /\ problem[p].points = 1
\* Of the programs that cannot be told apart one: nothing follows a stage that crashes or
\* loops, and of a compiler only the exit code counts.
JudgeRunStart ==
  /\ JudgeRunInit
  /\ program[1] # "wrong"
  /\ \A i \in DOMAIN program : program[i] \in {"crashes", "loops"} => i = Len(program)

JudgeRunRest == JudgeRunInit /\ program = <<"right">> /\ sweepIn = 0

SetsRest == SetsInit /\ kind = "class"

\* A contest that hides its problems after its end is to these pages one that runs on.
SetsStart == SetsInit /\ (kind = "contest" => visible)

ServicesInit ==
  /\ LiveInit /\ DeployInit
  /\ \/ part = "rating" /\ RatingInit /\ JudgeRunRest /\ SetsRest
     \/ part \in {"live", "deploy"} /\ RatingRest /\ JudgeRunRest /\ SetsRest
     \/ part = "judge" /\ RatingRest /\ JudgeRunStart /\ SetsRest
     \/ part = "sets" /\ RatingRest /\ JudgeRunRest /\ SetsStart

ServicesNext ==
  \/ part = "rating" /\ RatingNext /\ UNCHANGED <<part, liveVars, deployVars, runVars, setVars>>
  \/ part = "live" /\ LiveNext /\ UNCHANGED <<part, ratingVars, deployVars, runVars, setVars>>
  \/ part = "deploy" /\ DeployNext /\ UNCHANGED <<part, ratingVars, liveVars, runVars, setVars>>
  \/ part = "judge" /\ JudgeRunNext /\ UNCHANGED <<part, ratingVars, liveVars, deployVars, setVars>>
  \/ part = "sets" /\ SetsNext /\ UNCHANGED <<part, ratingVars, liveVars, deployVars, runVars>>

ServicesSpec ==
  ServicesInit /\ [][ServicesNext]_<<part, ratingVars, liveVars, deployVars, runVars, setVars>>

\* The variables of the five modules have their types.
ServicesTypeOK ==
  RatingTypeOK /\ LiveTypeOK /\ DeployTypeOK /\ JudgeRunTypeOK /\ SetsTypeOK
=============================================================================
