---------------------------- MODULE ProblemReview ----------------------------
(***************************************************************************)
(* The life of one problem: ProblemsService, from a member's proposal or   *)
(* draft through the verification of its author's solution and the review  *)
(* to publication, and every later change of its settings and test cases.  *)
(*                                                                         *)
(* A handler is one HTTP request.  It reads the row (and its test cases),  *)
(* decides on what it read and writes later, without a transaction or a    *)
(* condition on the row: between the two any other request may write.      *)
(* Requests that the code refuses change nothing and take no step.  One    *)
(* handler's successive reads are one step where they decide on the same   *)
(* columns.  The limits on the number and size of test cases are left out. *)
(*                                                                         *)
(* isPublished is written but never read by the backend (the status alone  *)
(* decides who sees a problem), so it is left out.                         *)
(***************************************************************************)
CONSTANTS
  Handler,   \* requests in progress at the same time
  Type,      \* problem type and scoring mode
  Kind,      \* what a test case's input and output look like
  Accepts,   \* the kinds a problem type admits (assertTestCasesMatchType)
  Faults,    \* "request": a request may die between two of its writes
  Same       \* the dto leaves the problem type out

ASSUME AcceptsAssumption == Accepts \in [Type -> SUBSET Kind]
ASSUME SameAssumption == Same \notin Type

VARIABLES
  status,      \* Problem.status; NONE before the row exists, GONE once deleted
  ptype,       \* Problem.problemType and scoringMode
  cases,       \* the kinds of its test cases
  submitted,   \* submissions exist beside the proofs below
  task,        \* what each request is doing, on which reading
  proof,       \* the verification submission of a request
  origin,      \* history: which way the row was made
  verified,    \* history: a verification submission has been accepted
  unreviewed,  \* history: a member has changed the content since the last approval
  outdated,    \* history: a request has acted on an outdated reading since then
  accident     \* history: a request has died midway since then

vars == <<status, ptype, cases, submitted, task, proof, origin, verified,
          unreviewed, outdated, accident>>

ProblemStatus == {"DRAFT", "PENDING_REVIEW", "PUBLISHED", "REJECTED"}
Exists == status \in ProblemStatus

\* The role that matters for re-review: everybody but an ADMIN is a member, a
\* TEACHER too, who may approve and reject nevertheless.
Role == {"member", "admin"}

\* Where a request stands: update(), a change of test cases, its applyReReview(),
\* submitForReview(), approve() or publish(); then verifyWithSolution() and its end.
PC == {"idle", "update", "cases", "rereview", "submit", "approve",
       "verify", "await", "handin", "undo", "delete"}

\* A request's reading, if it decides on it later: its user's role, the status and
\* the type it saw (the new type in update()); then whether others have written
\* since, and whether a failure deletes the problem.
Task == [pc : PC, role : Role, saw : ProblemStatus, type : Type \cup {Same},
         stale : BOOLEAN, creates : BOOLEAN]

Idle == [pc |-> "idle", role |-> "admin", saw |-> "DRAFT", type |-> Same,
         stale |-> FALSE, creates |-> FALSE]

TypeOK ==
  /\ status \in ProblemStatus \cup {"NONE", "GONE"}
  /\ ptype \in Type
  /\ cases \in SUBSET Kind
  /\ submitted \in BOOLEAN
  /\ task \in [Handler -> Task]
  /\ proof \in [Handler -> {"none", "open", "ACCEPTED", "failed"}]
  /\ origin \in {"none", "draft", "proposal", "abandoned", "blocked"}
  /\ verified \in BOOLEAN
  /\ unreviewed \in BOOLEAN
  /\ outdated \in BOOLEAN
  /\ accident \in BOOLEAN

Init ==
  /\ status = "NONE"
  /\ ptype \in Type
  /\ cases = {}
  /\ submitted = FALSE
  /\ task = [h \in Handler |-> Idle]
  /\ proof = [h \in Handler |-> "none"]
  /\ origin = "none"
  /\ verified = FALSE
  /\ unreviewed = FALSE
  /\ outdated = FALSE
  /\ accident = FALSE

\* assertTestCasesMatchType
Fits(t, kinds) == kinds \subseteq Accepts[t]

Ready_NotEmpty == cases # {}

\* assertProblemReady
Ready == cases # {} /\ Fits(ptype, cases)

\* Submission.problem has no cascade: a row with submissions cannot be deleted.
Deletable == Exists /\ ~submitted /\ \A h \in Handler : proof[h] = "none"

-----------------------------------------------------------------------------
(* A request reads, then writes.                                           *)

Reads_AnyRow(h, reading) ==
  /\ task[h].pc = "idle"
  /\ task' = [task EXCEPT ![h] = reading]

\* findUnique, and what the request remembers of it.
Reads(h, reading) ==
  /\ task[h].pc = "idle"
  /\ Exists
  /\ task' = [task EXCEPT ![h] = reading]

\* The write of h, which outdates what the other requests have read.
Writes(h, next) ==
  task' = [g \in Handler |->
             IF g = h THEN next
             ELSE [task[g] EXCEPT !.stale = task[g].pc # "idle"]]

ActsOnReading(h) == outdated' = (outdated \/ task[h].stale)

-----------------------------------------------------------------------------
(* Creation.                                                               *)

\* create() by a member.  The row is PENDING_REVIEW before it is verified.
Propose(h) ==
  /\ status = "NONE"
  /\ task[h].pc = "idle"
  /\ ptype' \in Type
  /\ cases' \in SUBSET Accepts[ptype'] \ {{}}
  /\ status' = "PENDING_REVIEW"
  /\ unreviewed' = TRUE
  /\ origin' = "proposal"
  /\ task' = [task EXCEPT ![h] = [Idle EXCEPT !.pc = "verify", !.creates = TRUE]]
  /\ UNCHANGED <<submitted, proof, verified, outdated, accident>>

\* create() by an administrator, and createDraft().
CreateDraft(role) ==
  /\ status = "NONE"
  /\ ptype' \in Type
  /\ cases' \in SUBSET Accepts[ptype']
  /\ status' = "DRAFT"
  /\ unreviewed' = (role = "member")
  /\ origin' = "draft"
  /\ UNCHANGED <<submitted, task, proof, verified, outdated, accident>>

-----------------------------------------------------------------------------
(* verifyWithSolution(), and verifyAndSubmitForReview() around it.          *)

VerifyRead(h) ==
  /\ Reads(h, [Idle EXCEPT !.pc = "verify"])
  /\ status \notin {"PUBLISHED", "PENDING_REVIEW"}
  /\ Ready
  /\ UNCHANGED <<status, ptype, cases, submitted, proof, origin, verified,
                 unreviewed, outdated, accident>>

\* submission.create, completions.wait, judgeQueue.add
VerifyStart(h) ==
  /\ task[h].pc = "verify"
  /\ Exists
  /\ proof' = [proof EXCEPT ![h] = "open"]
  /\ task' = [task EXCEPT ![h].pc = "await"]
  /\ UNCHANGED <<status, ptype, cases, submitted, origin, verified,
                 unreviewed, outdated, accident>>

\* The judging pipeline stores a verdict, before or after the wait is over.
Judged(h, v) ==
  /\ proof[h] = "open"
  /\ proof' = [proof EXCEPT ![h] = v]
  /\ verified' = (verified \/ v = "ACCEPTED")
  /\ UNCHANGED <<status, ptype, cases, submitted, task, origin,
                 unreviewed, outdated, accident>>

Passed_AnyVerdict(h) == proof[h] # "open"

Passed(h) == proof[h] = "ACCEPTED"

\* Woken by the verdict or by the 30 s timer; after the timer the status is read
\* once more.  A submission that is kept counts with the others from here.
VerifyEnds(h) ==
  /\ task[h].pc = "await"
  /\ LET next == IF task[h].creates
                  THEN IF Passed(h) THEN "idle" ELSE "undo"
                  ELSE IF Passed(h) THEN "handin" ELSE "idle"
     IN /\ task' = [task EXCEPT ![h] = IF next = "idle" THEN Idle
                                       ELSE [task[h] EXCEPT !.pc = next]]
        /\ IF next = "undo"
           THEN UNCHANGED <<proof, submitted>>
           ELSE proof' = [proof EXCEPT ![h] = "none"] /\ submitted' = TRUE
  /\ UNCHANGED <<status, ptype, cases, origin, verified, unreviewed, outdated, accident>>

\* problem.update at the end of verifyAndSubmitForReview, whatever the status
\* has become since it was read.
HandIn(h) ==
  /\ task[h].pc = "handin"
  /\ Exists
  /\ status' = "PENDING_REVIEW"
  /\ Writes(h, Idle)
  /\ ActsOnReading(h)
  /\ UNCHANGED <<ptype, cases, submitted, proof, origin, verified, unreviewed, accident>>

\* A failed creation is undone: its submission goes first.
UndoSubmission(h) ==
  /\ task[h].pc = "undo"
  /\ proof' = [proof EXCEPT ![h] = "none"]
  /\ task' = [task EXCEPT ![h].pc = "delete"]
  /\ UNCHANGED <<status, ptype, cases, submitted, origin, verified,
                 unreviewed, outdated, accident>>

\* problem.delete throws when somebody else has submitted meanwhile.
UndoProblem(h) ==
  /\ task[h].pc = "delete"
  /\ Exists
  /\ IF Deletable
     THEN status' = "GONE" /\ cases' = {} /\ UNCHANGED origin
     ELSE origin' = "blocked" /\ UNCHANGED <<status, cases>>
  /\ Writes(h, Idle)
  /\ UNCHANGED <<ptype, submitted, proof, verified, unreviewed, outdated, accident>>

-----------------------------------------------------------------------------
(* Review: submitForReview(), approve(), publish(), reject().              *)

SubmitRead(h) ==
  /\ Reads(h, [Idle EXCEPT !.pc = "submit"])
  /\ Ready
  /\ UNCHANGED <<status, ptype, cases, submitted, proof, origin, verified,
                 unreviewed, outdated, accident>>

SubmitWrite(h) ==
  /\ task[h].pc = "submit"
  /\ Exists
  /\ status' = "PENDING_REVIEW"
  /\ Writes(h, Idle)
  /\ ActsOnReading(h)
  /\ UNCHANGED <<ptype, cases, submitted, proof, origin, verified, unreviewed, accident>>

ApproveRead(h) ==
  /\ Reads(h, [Idle EXCEPT !.pc = "approve"])
  /\ Ready
  /\ UNCHANGED <<status, ptype, cases, submitted, proof, origin, verified,
                 unreviewed, outdated, accident>>

\* approve() and publish(): whatever the row holds by now becomes public.
ApproveWrite(h) ==
  /\ task[h].pc = "approve"
  /\ Exists
  /\ status' = "PUBLISHED"
  /\ unreviewed' = FALSE
  /\ Writes(h, Idle)
  /\ outdated' = task[h].stale
  /\ accident' = FALSE
  /\ UNCHANGED <<ptype, cases, submitted, proof, origin, verified>>

Reject ==
  /\ Exists
  /\ status' = "REJECTED"
  /\ task' = [h \in Handler |-> [task[h] EXCEPT !.stale = task[h].pc # "idle"]]
  /\ UNCHANGED <<ptype, cases, submitted, proof, origin, verified,
                 unreviewed, outdated, accident>>

-----------------------------------------------------------------------------
(* Changes of the content.                                                 *)

NeedsReReview_WrongStatus(role, seen) == role = "member" /\ seen = "PENDING_REVIEW"

\* reReviewData
NeedsReReview(role, seen) == role = "member" /\ seen = "PUBLISHED"

NewType(t) == IF t = Same THEN ptype ELSE t

\* Drafts and rejected problems may be saved with cases that do not fit yet.
UpdateRead(h, role, t) ==
  /\ Reads(h, [Idle EXCEPT !.pc = "update", !.role = role, !.saw = status, !.type = t])
  /\ status \in {"PUBLISHED", "PENDING_REVIEW"} => Fits(NewType(t), cases)
  /\ UNCHANGED <<status, ptype, cases, submitted, proof, origin, verified,
                 unreviewed, outdated, accident>>

UpdateWrite(h) ==
  /\ task[h].pc = "update"
  /\ Exists
  /\ ptype' = NewType(task[h].type)
  /\ status' = IF NeedsReReview(task[h].role, task[h].saw) THEN "PENDING_REVIEW" ELSE status
  /\ unreviewed' = (unreviewed \/ task[h].role = "member")
  /\ Writes(h, Idle)
  /\ ActsOnReading(h)
  /\ UNCHANGED <<cases, submitted, proof, origin, verified, accident>>

\* assertCanManageTestCases
CasesRead(h, role) ==
  /\ Reads(h, [Idle EXCEPT !.pc = "cases", !.role = role, !.saw = status, !.type = ptype])
  /\ UNCHANGED <<status, ptype, cases, submitted, proof, origin, verified,
                 unreviewed, outdated, accident>>

\* A kind that loses a test case may have others.
AddsCases(t) == {cases \cup new : new \in SUBSET Accepts[t] \ {{}}}
DeletesCase == {cases \ {k} : k \in cases} \cup {cases}
\* The dto may leave input or output to what another request has put there.
UpdatesCase(t, stale) ==
  {left \cup {k} : left \in DeletesCase, k \in IF stale THEN Kind ELSE Accepts[t]}
\* The transaction deletes the cases listed before it, none added since.
SyncsCases(t, stale) ==
  {new \cup since : new \in SUBSET Accepts[t], since \in IF stale THEN SUBSET cases ELSE {{}}}

CasesWrite(h) ==
  /\ task[h].pc = "cases"
  /\ Exists
  /\ \/ cases' \in AddsCases(task[h].type) \cup SyncsCases(task[h].type, task[h].stale)
     \/ /\ cases # {}
        /\ cases' \in UpdatesCase(task[h].type, task[h].stale) \cup DeletesCase
  /\ unreviewed' = (unreviewed \/ task[h].role = "member")
  /\ Writes(h, IF NeedsReReview(task[h].role, task[h].saw)
               THEN [task[h] EXCEPT !.pc = "rereview"] ELSE Idle)
  /\ ActsOnReading(h)
  /\ UNCHANGED <<status, ptype, submitted, proof, origin, verified, accident>>

\* Another request has deleted the test case: the write throws, a transaction is undone.
CaseGone(h) ==
  /\ task[h].pc = "cases"
  /\ task[h].stale
  /\ task' = [task EXCEPT ![h] = Idle]
  /\ UNCHANGED <<status, ptype, cases, submitted, proof, origin, verified,
                 unreviewed, outdated, accident>>

\* applyReReview, a second write.
ReReview(h) ==
  /\ task[h].pc = "rereview"
  /\ Exists
  /\ status' = "PENDING_REVIEW"
  /\ Writes(h, Idle)
  /\ UNCHANGED <<ptype, cases, submitted, proof, origin, verified,
                 unreviewed, outdated, accident>>

-----------------------------------------------------------------------------

\* remove()
Remove ==
  /\ Deletable
  /\ status' = "GONE"
  /\ cases' = {}
  /\ task' = [h \in Handler |-> [task[h] EXCEPT !.stale = task[h].pc # "idle"]]
  /\ UNCHANGED <<ptype, submitted, proof, origin, verified, unreviewed, outdated, accident>>

\* SubmissionsService.create by anyone who may see the problem, its author included.
SubmissionArrives ==
  /\ Exists
  /\ submitted' = TRUE
  /\ UNCHANGED <<status, ptype, cases, task, proof, origin, verified,
                 unreviewed, outdated, accident>>

\* The row is gone when a request comes to write: Prisma throws.
FindsNoRow(h) ==
  /\ ~Exists
  /\ task[h].pc \in {"update", "cases", "rereview", "submit", "approve",
                     "verify", "delete"}
  /\ task' = [task EXCEPT ![h] = Idle]
  /\ UNCHANGED <<status, ptype, cases, submitted, proof, origin, verified,
                 unreviewed, outdated, accident>>

\* A later call of the request throws, or the process dies.
Dies(h) ==
  /\ "request" \in Faults
  /\ task[h].pc # "idle"
  /\ origin' = IF task[h].creates THEN "abandoned" ELSE origin
  /\ submitted' = (submitted \/ proof[h] # "none")
  /\ proof' = [proof EXCEPT ![h] = "none"]
  /\ task' = [task EXCEPT ![h] = Idle]
  /\ accident' = TRUE
  /\ UNCHANGED <<status, ptype, cases, verified, unreviewed, outdated>>

HandlerStep(h) ==
  \/ Propose(h) \/ VerifyRead(h) \/ VerifyStart(h) \/ VerifyEnds(h) \/ HandIn(h)
  \/ UndoSubmission(h) \/ UndoProblem(h)
  \/ SubmitRead(h) \/ SubmitWrite(h) \/ ApproveRead(h) \/ ApproveWrite(h)
  \/ UpdateWrite(h) \/ CasesWrite(h) \/ CaseGone(h) \/ ReReview(h)
  \/ FindsNoRow(h) \/ Dies(h)

Next ==
  \/ \E h \in Handler : HandlerStep(h)
  \/ \E h \in Handler, v \in {"ACCEPTED", "failed"} : Judged(h, v)
  \/ \E h \in Handler, role \in Role : CasesRead(h, role)
  \/ \E h \in Handler, role \in Role, t \in Type \cup {Same} : UpdateRead(h, role, t)
  \/ \E role \in Role : CreateDraft(role)
  \/ Reject \/ Remove \/ SubmissionArrives

Spec == Init /\ [][Next]_vars

-----------------------------------------------------------------------------
(***************************************************************************)
(* Properties.                                                             *)
(***************************************************************************)

\* No request is about to send the problem back to review.
Settled == \A h \in Handler : task[h].pc # "rereview"

\* What the comment says: a member's change takes a public problem back to
\* review (problems.service.ts:971-974).
ReReviewHolds == Settled /\ status = "PUBLISHED" /\ ~accident => ~unreviewed

\* It is so as long as no request has acted on an outdated reading since the
\* last approval: what is public has been reviewed (reReviewData, applyReReview).
PublicIsReviewed == ~outdated => ReReviewHolds

\* Under the same condition a public problem can be judged: every test case suits
\* the problem type (assertTestCasesMatchType, assertProblemReady), through
\* changes of either and through drafts saved while they do not match.
PublicFitsType == status = "PUBLISHED" /\ ~outdated => Fits(ptype, cases)

\* A proposal whose verification was not accepted does not stay
\* (problems.service.ts:480-484), even if it has been approved or edited during
\* the verification; only another submission can block its removal.
UnverifiedDisappears ==
  origin = "proposal" /\ Exists /\ (\A h \in Handler : ~task[h].creates) => verified

\* What makes the three inductive.  A change of test cases carries the type it has
\* read; only the creating request verifies and undoes a proposal; nobody reads
\* a row before it exists; an accepted proof has been counted; and the reading
\* of a request is still true while nobody has written since.
TypedReadings == \A h \in Handler : task[h].pc = "cases" => task[h].type \in Type

CreatorsVerify ==
  \A h \in Handler : task[h].creates => task[h].pc \in {"verify", "await", "undo", "delete"}

NobodyBeforeRow == status = "NONE" => \A h \in Handler : task[h].pc = "idle"

AcceptedCounts == \A h \in Handler : proof[h] = "ACCEPTED" => verified

FreshReadings ==
  \A h \in Handler : ~task[h].stale =>
    /\ task[h].pc \in {"update", "cases"} => task[h].saw = status
    /\ task[h].pc = "cases" => task[h].type = ptype
    /\ task[h].pc = "approve" => Ready
    /\ task[h].pc = "update" /\ status \in {"PUBLISHED", "PENDING_REVIEW"}
         => Fits(NewType(task[h].type), cases)

Bookkeeping ==
  /\ TypedReadings /\ CreatorsVerify /\ NobodyBeforeRow /\ AcceptedCounts /\ FreshReadings
  /\ PublicIsReviewed /\ PublicFitsType /\ UnverifiedDisappears
=============================================================================
