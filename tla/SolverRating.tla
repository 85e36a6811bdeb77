---------------------------- MODULE SolverRating ----------------------------
(***************************************************************************)
(* The rating of one user: RatingService, and whatever calls it or should. *)
(*                                                                         *)
(* The rating is the sum of the points of the best TopN public problems    *)
(* the user has solved, and nothing keeps it so: a caller that changes a   *)
(* verdict or a problem asks for a recomputation afterwards, which reads   *)
(* everything, adds up, and writes.  No two of these steps are one         *)
(* transaction, and some changes ask for nothing.                          *)
(***************************************************************************)
EXTENDS Naturals, FiniteSets, FiniteSetsExt, Functions

CONSTANTS
  Problem,
  Points,       \* what pointsOfLevel() gives for the levels in use
  TopN,         \* TOP_N
  Job,          \* requests and reports in progress at the same time
  MaxAccepted   \* bound: submissions the user has accepted for one problem

ASSUME SolverRatingAssumption ==
  IsFiniteSet(Problem) /\ Points \subseteq Nat /\ TopN \in Nat /\ MaxAccepted \in Nat

VARIABLES
  problem,   \* the problems
  accepted,  \* the user's accepted submissions for each problem
  rating,    \* the column rating
  job,       \* what runs
  drifted    \* history: the rating may be wrong until it is computed again

ratingVars == <<problem, accepted, rating, job, drifted>>

\* plain: neither practice nor tagged 'test', nor kept for a contest that is not over.
ProblemRow == [published : BOOLEAN, plain : BOOLEAN, points : Points]

NoJob == [pc |-> "none"]
Jobs ==
       {NoJob}
  \cup [pc : {"count", "solvers"}, p : Problem]
  \cup [pc : {"update"}, p : Problem, admin : BOOLEAN, published : BOOLEAN, plain : BOOLEAN]
  \cup [pc : {"read"}]
  \* over: the sums under way when this one was read; old: a newer one has been written.
  \cup [pc : {"write"}, sum : Nat, over : SUBSET Job, old : BOOLEAN]

RatingTypeOK ==
  /\ problem \in [Problem -> ProblemRow]
  /\ accepted \in [Problem -> 0..MaxAccepted]
  /\ rating \in Nat
  /\ job \in [Job -> Jobs]
  /\ drifted \in BOOLEAN

RatingInit ==
  /\ problem \in [Problem -> [published : BOOLEAN, plain : {TRUE}, points : Points]]
  /\ accepted = [p \in Problem |-> 0]
  /\ rating = 0
  /\ job = [j \in Job |-> NoJob]
  /\ drifted = FALSE

JobBecomes(j, state) == job' = [job EXCEPT ![j] = state]

-----------------------------------------------------------------------------
(* The sum.                                                                *)

Counts(p) == problem[p].published /\ problem[p].plain

Solved == {p \in Problem : accepted[p] > 0 /\ Counts(p)}

SumOf(S) == SumFunction([p \in S |-> problem[p].points])

\* Sorted by their points, the first TopN: no choice of as many problems has a larger sum.
TopSum == Max({SumOf(S) : S \in {T \in SUBSET Solved : Cardinality(T) <= TopN}})

-----------------------------------------------------------------------------
(* recomputeForUser()                                                      *)

Writers == {k \in Job : job[k].pc = "write"}

\* What it reads is right; what was wrong before is mended, unless an older sum is under way.
ReadSolved(j) ==
  /\ job[j].pc = "read"
  /\ JobBecomes(j, [pc |-> "write", sum |-> TopSum, over |-> Writers, old |-> FALSE])
  /\ drifted' = (drifted /\ Writers # {})
  /\ UNCHANGED <<problem, accepted, rating>>

WriteRating(j) ==
  /\ job[j].pc = "write"
  /\ rating' = job[j].sum
  /\ job' = [k \in Job |-> IF k = j THEN NoJob
                           ELSE IF job[k].pc # "write" THEN job[k]
                           ELSE IF k \in job[j].over THEN [job[k] EXCEPT !.old = TRUE]
                           ELSE [job[k] EXCEPT !.over = @ \ {j}]]
  /\ drifted' = (drifted \/ job[j].old)
  /\ UNCHANGED <<problem, accepted>>

\* recomputeAll(), on the administrator's request.
RecomputeAll(j) ==
  /\ job[j] = NoJob
  /\ JobBecomes(j, [pc |-> "read"])
  /\ UNCHANGED <<problem, accepted, rating, drifted>>

-----------------------------------------------------------------------------
(* A verdict: ingest() stores it in a transaction and then asks whether it *)
(* is the first.                                                           *)

Accept(j, p) ==
  /\ job[j] = NoJob /\ accepted[p] < MaxAccepted
  /\ accepted' = [accepted EXCEPT ![p] = @ + 1]
  /\ JobBecomes(j, [pc |-> "count", p |-> p])
  /\ drifted' = (drifted \/ \E k \in Job : job[k].pc = "count" /\ job[k].p = p)
  /\ UNCHANGED <<problem, rating>>

IsFirstAccept_Never(p) == accepted[p] < 1

IsFirstAccept(p) == accepted[p] <= 1

CountAccepted(j) ==
  /\ job[j].pc = "count"
  /\ JobBecomes(j, IF IsFirstAccept(job[j].p) THEN [pc |-> "read"] ELSE NoJob)
  /\ UNCHANGED <<problem, accepted, rating, drifted>>

-----------------------------------------------------------------------------
(* ProblemsService.                                                        *)

\* approve(), publish()
Publish(j, p) ==
  /\ job[j] = NoJob
  /\ problem' = [problem EXCEPT ![p].published = TRUE]
  /\ JobBecomes(j, [pc |-> "solvers", p |-> p])
  /\ UNCHANGED <<accepted, rating, drifted>>

\* recomputeRatingForPublishedProblem(): for everybody who has solved it.
FindSolvers(j) ==
  /\ job[j].pc = "solvers"
  /\ JobBecomes(j, IF accepted[job[j].p] > 0 THEN [pc |-> "read"] ELSE NoJob)
  /\ UNCHANGED <<problem, accepted, rating, drifted>>

\* update(): the problem is read ...
FindProblem(j, p, admin) ==
  /\ job[j] = NoJob
  /\ JobBecomes(j, [pc |-> "update", p |-> p, admin |-> admin,
                    published |-> problem[p].published, plain |-> problem[p].plain])
  /\ UNCHANGED <<problem, accepted, rating, drifted>>

\* ... and written: a member's change of a public problem takes it down.  A new level asks
\* for a recomputation, and so does an isPractice other than the one read, if it was public.
WriteProblem(j, row, asks) ==
  LET u == job[j]
      down == ~u.admin /\ u.published
  IN /\ problem' = [problem EXCEPT ![u.p] = IF down THEN [row EXCEPT !.published = FALSE] ELSE row]
     /\ JobBecomes(j, IF u.published /\ asks THEN [pc |-> "solvers", p |-> u.p] ELSE NoJob)
     /\ drifted' = (drifted \/ (problem' # problem /\ ~(u.published /\ asks)))
     /\ UNCHANGED <<accepted, rating>>

UpdateProblem(j) ==
  /\ job[j].pc = "update"
  /\ LET row == problem[job[j].p] IN
       \/ \E points \in Points : WriteProblem(j, [row EXCEPT !.points = points], TRUE)
       \/ \E plain \in BOOLEAN : WriteProblem(j, [row EXCEPT !.plain = plain], plain # job[j].plain)
       \/ WriteProblem(j, row, FALSE)

\* reject(), applyCommunityDifficulty(), an administrator's tag 'test' or contestOnly, and
\* a contest whose problems stay visible when it ends.
ChangeSilently(p) ==
  /\ \/ problem' = [problem EXCEPT ![p].published = FALSE]
     \/ \E points \in Points : problem' = [problem EXCEPT ![p].points = points]
     \/ problem' = [problem EXCEPT ![p].plain = ~@]
  /\ drifted' = TRUE
  /\ UNCHANGED <<accepted, rating, job>>

\* The process stops; a report that is delivered again is a duplicate and recomputes nothing.
JobStops(j) ==
  /\ job[j] # NoJob
  /\ JobBecomes(j, NoJob)
  /\ drifted' = TRUE
  /\ UNCHANGED <<problem, accepted, rating>>

RatingNext ==
  \/ \E j \in Job : \/ ReadSolved(j) \/ WriteRating(j) \/ RecomputeAll(j) \/ CountAccepted(j)
                    \/ FindSolvers(j) \/ UpdateProblem(j) \/ JobStops(j)
  \/ \E j \in Job, p \in Problem : Accept(j, p) \/ Publish(j, p)
  \/ \E j \in Job, p \in Problem, admin \in BOOLEAN : FindProblem(j, p, admin)
  \/ \E p \in Problem : ChangeSilently(p)

RatingSpec == RatingInit /\ [][RatingNext]_ratingVars

-----------------------------------------------------------------------------
(* Properties.                                                             *)

\* When nothing runs the rating is the sum it stands for - unless, since the last lone
\* recomputation, a change asked for none, two first accepted verdicts each counted the
\* other, an older sum overwrote a newer one, or a process stopped before its write.
RatingIsTrue == (\A j \in Job : job[j] = NoJob) /\ ~drifted => rating = TopSum
=============================================================================
