-------------------------- MODULE ProblemReviewProofs --------------------------
(***************************************************************************)
(* Theorems about ProblemReview, for any number of concurrent requests and *)
(* any problem types and kinds of test cases; about SiteSettings, for any  *)
(* number of requests, uploaded files and languages; and about             *)
(* ProblemDraft, for any number of tabs, drafts, keys and presses.         *)
(***************************************************************************)
EXTENDS MCProblemReview, TLAPS

LEMMA NewTypeIsType == ASSUME TypeOK, NEW t \in Type \cup {Same} PROVE NewType(t) \in Type
  BY DEF TypeOK, NewType

LEMMA NextTaskTyped ==
  ASSUME task \in [Handler -> Task], NEW h \in Handler, NEW next \in Task, Writes(h, next)
  PROVE task' \in [Handler -> Task]
  BY DEF Writes, Task

LEMMA IdleIsTask == Idle \in Task
  BY DEF Idle, Task, PC, Role, ProblemStatus

LEMMA TypeInit == Init => TypeOK
  BY IdleIsTask DEF Init, TypeOK

LEMMA TypeStep == TypeOK /\ TypedReadings /\ [Next]_vars => TypeOK'
<1> SUFFICES ASSUME TypeOK, TypedReadings, [Next]_vars PROVE TypeOK'
  OBVIOUS
<1> USE AcceptsAssumption, IdleIsTask DEF TypeOK
<1>1. ASSUME NEW h \in Handler, HandlerStep(h) PROVE TypeOK'
  <2>1. CASE Propose(h)
    BY <2>1 DEF Propose, Task, Idle, PC, Role, ProblemStatus
  <2>2. CASE VerifyStart(h)
    BY <2>2 DEF VerifyStart, Task, PC
  <2>3. CASE VerifyEnds(h)
    <3> DEFINE next == IF task[h].creates
                       THEN IF Passed(h) THEN "idle" ELSE "undo"
                       ELSE IF Passed(h) THEN "handin" ELSE "idle"
    <3>1. task' \in [Handler -> Task]
      BY <2>3 DEF VerifyEnds, Task, PC
    <3>2. CASE next = "undo"
      BY <2>3, <3>1, <3>2 DEF VerifyEnds
    <3>3. CASE next # "undo"
      BY <2>3, <3>1, <3>3 DEF VerifyEnds
    <3>4. QED
      BY <3>2, <3>3
  <2>4. CASE HandIn(h)
    BY <2>4, NextTaskTyped DEF HandIn, ActsOnReading, ProblemStatus, Task
  <2>5. CASE UndoSubmission(h)
    BY <2>5 DEF UndoSubmission, Task, PC
  <2>6. CASE UndoProblem(h)
    BY <2>6, NextTaskTyped DEF UndoProblem
  <2>7. CASE SubmitWrite(h)
    BY <2>7, NextTaskTyped DEF SubmitWrite, ActsOnReading, ProblemStatus, Task
  <2>8. CASE VerifyRead(h) \/ SubmitRead(h) \/ ApproveRead(h)
    <3>1. [Idle EXCEPT !.pc = "verify"] \in Task /\ [Idle EXCEPT !.pc = "submit"] \in Task
          /\ [Idle EXCEPT !.pc = "approve"] \in Task
      BY DEF Task, PC
    <3>2. task' \in [Handler -> Task]
      BY <2>8, <3>1 DEF VerifyRead, SubmitRead, ApproveRead, Reads
    <3>3. QED
      BY <2>8, <3>2 DEF VerifyRead, SubmitRead, ApproveRead
  <2>9. CASE ApproveWrite(h)
    BY <2>9, NextTaskTyped DEF ApproveWrite, ProblemStatus, Task
  <2>10. CASE UpdateWrite(h)
    BY <2>10, NextTaskTyped, NewTypeIsType DEF UpdateWrite, ActsOnReading, ProblemStatus, Task
  <2>11. CASE CasesWrite(h)
    <3>1. task[h].type \in Type => cases' \in SUBSET Kind
      BY <2>11 DEF CasesWrite, AddsCases, SyncsCases, UpdatesCase, DeletesCase
    <3>2. [task[h] EXCEPT !.pc = "rereview"] \in Task
      BY DEF Task, PC
    <3>3. task' \in [Handler -> Task]
      BY <2>11, <3>2, NextTaskTyped DEF CasesWrite
    <3>4. QED
      BY <2>11, <3>1, <3>3 DEF CasesWrite, ActsOnReading, Task, TypedReadings
  <2>12. CASE ReReview(h)
    BY <2>12, NextTaskTyped DEF ReReview, ProblemStatus
  <2>13. CASE FindsNoRow(h) \/ CaseGone(h)
    BY <2>13 DEF FindsNoRow, CaseGone
  <2>14. CASE Dies(h)
    BY <2>14 DEF Dies
  <2>15. QED
    BY <1>1, <2>1, <2>2, <2>3, <2>4, <2>5, <2>6, <2>7, <2>8, <2>9, <2>10, <2>11,
       <2>12, <2>13, <2>14 DEF HandlerStep
<1>2. ASSUME NEW h \in Handler, NEW v \in {"ACCEPTED", "failed"}, Judged(h, v) PROVE TypeOK'
  BY <1>2 DEF Judged
<1>3. ASSUME NEW h \in Handler, NEW role \in Role, CasesRead(h, role) PROVE TypeOK'
  BY <1>3 DEF CasesRead, Reads, Task, Idle, PC, Role, Exists
<1>4. ASSUME NEW h \in Handler, NEW role \in Role, NEW t \in Type \cup {Same},
             UpdateRead(h, role, t)
      PROVE TypeOK'
  BY <1>4 DEF UpdateRead, Reads, Task, Idle, PC, Role, Exists
<1>5. ASSUME NEW role \in Role, CreateDraft(role) PROVE TypeOK'
  BY <1>5 DEF CreateDraft, ProblemStatus
<1>6. CASE Reject
  BY <1>6 DEF Reject, Task, ProblemStatus
<1>7. CASE Remove
  BY <1>7 DEF Remove, Task
<1>8. CASE SubmissionArrives
  BY <1>8 DEF SubmissionArrives
<1>9. CASE UNCHANGED vars
  BY <1>9 DEF vars
<1>10. QED
  BY <1>1, <1>2, <1>3, <1>4, <1>5, <1>6, <1>7, <1>8, <1>9 DEF Next

LEMMA OwnTask ==
  ASSUME TypeOK, NEW h \in Handler, NEW next, Writes(h, next)
  PROVE  /\ task'[h] = next
         /\ \A g \in Handler \ {h} :
              /\ task'[g].pc = task[g].pc /\ task'[g].role = task[g].role
              /\ task'[g].saw = task[g].saw /\ task'[g].type = task[g].type
              /\ task'[g].creates = task[g].creates
              /\ task[g].pc # "idle" => task'[g].stale
  BY DEF TypeOK, Task, Writes

LEMMA Untouched ==
  ASSUME NEW h \in Handler, TypeOK,
         \/ Reject \/ Remove
  PROVE  /\ task'[h].pc = task[h].pc /\ task'[h].role = task[h].role
         /\ task'[h].saw = task[h].saw /\ task'[h].type = task[h].type
         /\ task'[h].creates = task[h].creates
         /\ task[h].pc # "idle" => task'[h].stale
<1>1. task' = [g \in Handler |-> [task[g] EXCEPT !.stale = task[g].pc # "idle"]]
  BY DEF Reject, Remove
<1>2. task[h] \in Task
  BY DEF TypeOK
<1>3. QED
  BY <1>1, <1>2 DEF Task

\* The part of the invariant that says where requests may stand.
Places == TypedReadings /\ CreatorsVerify /\ NobodyBeforeRow /\ AcceptedCounts

LEMMA PlacesStep == TypeOK /\ Places /\ [Next]_vars => Places'
<1> SUFFICES ASSUME TypeOK, Places, [Next]_vars PROVE Places'
  OBVIOUS
<1> USE DEF Places, TypedReadings, CreatorsVerify, NobodyBeforeRow, AcceptedCounts
<1>1. ASSUME NEW h \in Handler, HandlerStep(h) PROVE Places'
  <2>1. CASE Propose(h)
    BY <2>1 DEF Propose, Idle, TypeOK, Task
  <2>2. CASE VerifyStart(h)
    BY <2>2 DEF VerifyStart, TypeOK, Task, Exists, ProblemStatus
  <2>3. CASE VerifyEnds(h)
    BY <2>3 DEF VerifyEnds, Idle, TypeOK, Task
  <2>4. CASE HandIn(h) \/ UndoProblem(h) \/ SubmitWrite(h) \/ ApproveWrite(h) \/ UpdateWrite(h)
             \/ ReReview(h)
    <3>1. Writes(h, Idle) /\ Exists /\ UNCHANGED <<proof, verified>>
      BY <2>4 DEF HandIn, UndoProblem, SubmitWrite, ApproveWrite, UpdateWrite, ReReview
    <3>2. status' # "NONE"
      BY <2>4 DEF HandIn, UndoProblem, SubmitWrite, ApproveWrite, UpdateWrite, ReReview,
                  Exists, ProblemStatus
    <3>3. TypedReadings' /\ CreatorsVerify'
      BY <3>1, OwnTask DEF Idle
    <3>4. QED
      BY <3>1, <3>2, <3>3
  <2>5. CASE CasesWrite(h)
    <3>1. status' # "NONE" /\ UNCHANGED <<proof, verified>>
      BY <2>5 DEF CasesWrite, Exists, ProblemStatus
    <3>2. TypedReadings' /\ CreatorsVerify'
      BY <2>5, OwnTask DEF CasesWrite, Idle, TypeOK, Task
    <3>3. QED
      BY <3>1, <3>2
  <2>6. CASE VerifyRead(h) \/ SubmitRead(h) \/ ApproveRead(h)
    BY <2>6 DEF VerifyRead, SubmitRead, ApproveRead, Reads, Idle, TypeOK, Task, Exists,
                ProblemStatus
  <2>7. CASE UndoSubmission(h) \/ CaseGone(h) \/ FindsNoRow(h) \/ Dies(h)
    BY <2>7 DEF UndoSubmission, CaseGone, FindsNoRow, Dies, Idle, TypeOK, Task
  <2>8. QED
    BY <1>1, <2>1, <2>2, <2>3, <2>4, <2>5, <2>6, <2>7 DEF HandlerStep
<1>2. ASSUME NEW h \in Handler, NEW v \in {"ACCEPTED", "failed"}, Judged(h, v) PROVE Places'
  BY <1>2 DEF Judged, TypeOK
<1>3. ASSUME NEW h \in Handler, NEW role \in Role, CasesRead(h, role) PROVE Places'
  BY <1>3 DEF CasesRead, Reads, Idle, TypeOK, Task, Exists, ProblemStatus
<1>4. ASSUME NEW h \in Handler, NEW role \in Role, NEW t \in Type \cup {Same},
             UpdateRead(h, role, t)
      PROVE Places'
  BY <1>4 DEF UpdateRead, Reads, Idle, TypeOK, Task, Exists, ProblemStatus
<1>5. ASSUME NEW role \in Role, CreateDraft(role) PROVE Places'
  BY <1>5 DEF CreateDraft
<1>6. CASE Reject \/ Remove
  <2>1. status' # "NONE" /\ UNCHANGED <<proof, verified>>
    BY <1>6 DEF Reject, Remove
  <2>2. QED
    BY <1>6, <2>1, Untouched
<1>7. CASE SubmissionArrives
  BY <1>7 DEF SubmissionArrives
<1>8. CASE UNCHANGED vars
  BY <1>8 DEF vars
<1>9. QED
  BY <1>1, <1>2, <1>3, <1>4, <1>5, <1>6, <1>7, <1>8 DEF Next

LEMMA RowKept ==
  ASSUME UNCHANGED <<status, ptype, cases>>, FreshReadings,
         \A g \in Handler : task'[g].pc \in {"update", "cases", "approve"} => task'[g] = task[g]
  PROVE  FreshReadings'
  BY DEF FreshReadings, Ready, Fits, NewType

LEMMA OthersMoved ==
  ASSUME TypeOK, \A g \in Handler : ~task'[g].stale => task'[g].pc \notin {"update", "cases", "approve"}
  PROVE  FreshReadings'
  BY DEF FreshReadings

LEMMA FreshStep == TypeOK /\ Places /\ FreshReadings /\ [Next]_vars => FreshReadings'
<1> SUFFICES ASSUME TypeOK, Places, FreshReadings, [Next]_vars PROVE FreshReadings'
  OBVIOUS
<1>1. ASSUME NEW h \in Handler, HandlerStep(h) PROVE FreshReadings'
  <2>1. CASE Propose(h)
    BY <2>1, OthersMoved DEF Propose, Idle, TypeOK, Task, Places, NobodyBeforeRow
  <2>2. CASE VerifyStart(h)
    BY <2>2, RowKept DEF VerifyStart, TypeOK, Task
  <2>3. CASE VerifyEnds(h)
    BY <2>3, RowKept DEF VerifyEnds, Idle, TypeOK, Task
  <2>4. CASE HandIn(h) \/ UndoProblem(h) \/ SubmitWrite(h) \/ ApproveWrite(h) \/ UpdateWrite(h)
             \/ ReReview(h)
    <3>1. Writes(h, Idle)
      BY <2>4 DEF HandIn, UndoProblem, SubmitWrite, ApproveWrite, UpdateWrite, ReReview
    <3>2. QED
      BY <3>1, OwnTask, OthersMoved DEF Idle
  <2>5. CASE CasesWrite(h)
    BY <2>5, OwnTask, OthersMoved DEF CasesWrite, Idle, TypeOK, Task
  <2>6. CASE ApproveRead(h)
    BY <2>6 DEF ApproveRead, Reads, Idle, TypeOK, Task, FreshReadings, Ready, Fits, NewType
  <2>7. CASE UndoSubmission(h) \/ CaseGone(h) \/ FindsNoRow(h) \/ Dies(h)
    BY <2>7, RowKept DEF UndoSubmission, CaseGone, FindsNoRow, Dies, Idle, TypeOK, Task
  <2>8. CASE VerifyRead(h) \/ SubmitRead(h)
    BY <2>8, RowKept DEF VerifyRead, SubmitRead, Reads, Idle, TypeOK, Task
  <2>9. QED
    BY <1>1, <2>1, <2>2, <2>3, <2>4, <2>5, <2>6, <2>7, <2>8 DEF HandlerStep
<1>2. ASSUME NEW h \in Handler, NEW v \in {"ACCEPTED", "failed"}, Judged(h, v)
      PROVE FreshReadings'
  BY <1>2, RowKept DEF Judged
<1>3. ASSUME NEW h \in Handler, NEW role \in Role, CasesRead(h, role) PROVE FreshReadings'
  BY <1>3 DEF CasesRead, Reads, Idle, TypeOK, Task, FreshReadings, Ready, Fits, NewType
<1>4. ASSUME NEW h \in Handler, NEW role \in Role, NEW t \in Type \cup {Same},
             UpdateRead(h, role, t)
      PROVE FreshReadings'
  BY <1>4 DEF UpdateRead, Reads, Idle, TypeOK, Task, FreshReadings, Ready, Fits, NewType
<1>5. ASSUME NEW role \in Role, CreateDraft(role) PROVE FreshReadings'
  BY <1>5, OthersMoved DEF CreateDraft, Places, NobodyBeforeRow
<1>6. CASE Reject \/ Remove
  BY <1>6, Untouched, OthersMoved
<1>7. CASE SubmissionArrives
  BY <1>7, RowKept DEF SubmissionArrives
<1>8. CASE UNCHANGED vars
  BY <1>8, RowKept DEF vars
<1>9. QED
  BY <1>1, <1>2, <1>3, <1>4, <1>5, <1>6, <1>7, <1>8 DEF Next

LEMMA ReviewStep ==
  TypeOK /\ Places /\ FreshReadings /\ PublicIsReviewed /\ [Next]_vars => PublicIsReviewed'
<1> SUFFICES ASSUME TypeOK, Places, FreshReadings, PublicIsReviewed, [Next]_vars,
                    ~outdated', status' = "PUBLISHED", Settled', ~accident'
             PROVE  ~unreviewed'
  BY DEF PublicIsReviewed, ReReviewHolds
<1>1. ASSUME NEW h \in Handler, HandlerStep(h) PROVE ~unreviewed'
  <2>1. CASE UpdateWrite(h)
    <3>1. ~task[h].stale /\ ~outdated
      BY <2>1 DEF UpdateWrite, ActsOnReading, TypeOK, Task
    <3>2. task[h].saw = status
      BY <2>1, <3>1 DEF UpdateWrite, FreshReadings
    <3>3. status = "PUBLISHED" /\ task[h].role # "member"
      BY <2>1, <3>2 DEF UpdateWrite, NeedsReReview
    <3>4. Settled
      BY <2>1, OwnTask DEF UpdateWrite, Settled
    <3>5. ~unreviewed
      BY <2>1, <3>1, <3>3, <3>4 DEF UpdateWrite, PublicIsReviewed, ReReviewHolds
    <3>6. QED
      BY <2>1, <3>3, <3>5 DEF UpdateWrite
  <2>2. CASE CasesWrite(h)
    <3>1. ~task[h].stale /\ ~outdated /\ status = "PUBLISHED"
      BY <2>2 DEF CasesWrite, ActsOnReading, TypeOK, Task
    <3>2. task[h].saw = "PUBLISHED"
      BY <2>2, <3>1 DEF CasesWrite, FreshReadings
    <3>3. task[h].role # "member"
      <4>1. SUFFICES ASSUME task[h].role = "member" PROVE FALSE
        OBVIOUS
      <4>2. task'[h] = [task[h] EXCEPT !.pc = "rereview"]
        BY <2>2, <3>2, <4>1, OwnTask DEF CasesWrite, NeedsReReview
      <4>3. QED
        BY <4>2 DEF Settled, TypeOK, Task
    <3>4. Settled
      BY <2>2, OwnTask DEF CasesWrite, Settled
    <3>5. ~unreviewed
      BY <2>2, <3>1, <3>4 DEF CasesWrite, PublicIsReviewed, ReReviewHolds
    <3>6. QED
      BY <2>2, <3>3, <3>5 DEF CasesWrite
  <2>3. CASE ApproveWrite(h)
    BY <2>3 DEF ApproveWrite
  <2>4. CASE Propose(h) \/ HandIn(h) \/ SubmitWrite(h) \/ ReReview(h)
    BY <2>4 DEF Propose, HandIn, SubmitWrite, ReReview
  <2>5. CASE FindsNoRow(h) \/ Dies(h)
    BY <2>5 DEF FindsNoRow, Dies, Exists, ProblemStatus
  <2>6. CASE UndoProblem(h)
    <3>1. Settled
      BY <2>6, OwnTask DEF UndoProblem, Settled
    <3>2. status = "PUBLISHED"
      BY <2>6 DEF UndoProblem
    <3>3. QED
      BY <2>6, <3>1, <3>2 DEF UndoProblem, PublicIsReviewed, ReReviewHolds
  <2>7. CASE VerifyStart(h) \/ UndoSubmission(h) \/ CaseGone(h)
    BY <2>7 DEF VerifyStart, UndoSubmission, CaseGone, Idle, TypeOK, Task, Settled,
                PublicIsReviewed, ReReviewHolds
  <2>8. CASE VerifyEnds(h)
    BY <2>8 DEF VerifyEnds, Idle, TypeOK, Task, Settled, PublicIsReviewed, ReReviewHolds
  <2>9. CASE VerifyRead(h) \/ SubmitRead(h) \/ ApproveRead(h)
    BY <2>9 DEF VerifyRead, SubmitRead, ApproveRead, Reads, Idle, TypeOK, Task, Settled,
                PublicIsReviewed, ReReviewHolds
  <2>10. QED
    BY <1>1, <2>1, <2>2, <2>3, <2>4, <2>5, <2>6, <2>7, <2>8, <2>9 DEF HandlerStep
<1>2. ASSUME NEW h \in Handler, NEW v \in {"ACCEPTED", "failed"}, Judged(h, v)
      PROVE ~unreviewed'
  BY <1>2 DEF Judged, Settled, PublicIsReviewed, ReReviewHolds
<1>3. ASSUME NEW h \in Handler, NEW role \in Role, CasesRead(h, role) PROVE ~unreviewed'
  BY <1>3 DEF CasesRead, Reads, Idle, TypeOK, Task, Settled, PublicIsReviewed, ReReviewHolds
<1>4. ASSUME NEW h \in Handler, NEW role \in Role, NEW t \in Type \cup {Same},
             UpdateRead(h, role, t)
      PROVE ~unreviewed'
  BY <1>4 DEF UpdateRead, Reads, Idle, TypeOK, Task, Settled, PublicIsReviewed, ReReviewHolds
<1>5. ASSUME NEW role \in Role, CreateDraft(role) PROVE ~unreviewed'
  BY <1>5 DEF CreateDraft
<1>6. CASE Reject \/ Remove
  BY <1>6 DEF Reject, Remove
<1>7. CASE SubmissionArrives
  BY <1>7 DEF SubmissionArrives, Settled, PublicIsReviewed, ReReviewHolds
<1>8. CASE UNCHANGED vars
  BY <1>8 DEF vars, Settled, PublicIsReviewed, ReReviewHolds
<1>9. QED
  BY <1>1, <1>2, <1>3, <1>4, <1>5, <1>6, <1>7, <1>8 DEF Next

LEMMA FitsStep ==
  TypeOK /\ Places /\ FreshReadings /\ PublicFitsType /\ [Next]_vars => PublicFitsType'
<1> SUFFICES ASSUME TypeOK, Places, FreshReadings, PublicFitsType, [Next]_vars,
                    ~outdated', status' = "PUBLISHED"
             PROVE  Fits(ptype', cases')
  BY DEF PublicFitsType, Fits
<1>1. ASSUME UNCHANGED <<status, ptype, cases, outdated>> PROVE Fits(ptype', cases')
  BY <1>1 DEF PublicFitsType
<1>2. ASSUME NEW h \in Handler, HandlerStep(h) PROVE Fits(ptype', cases')
  <2>1. CASE UpdateWrite(h)
    <3>1. ~task[h].stale
      BY <2>1 DEF UpdateWrite, ActsOnReading, TypeOK, Task
    <3>2. status = "PUBLISHED"
      BY <2>1 DEF UpdateWrite
    <3>3. Fits(NewType(task[h].type), cases)
      BY <2>1, <3>1, <3>2 DEF UpdateWrite, FreshReadings
    <3>4. QED
      BY <2>1, <3>3 DEF UpdateWrite
  <2>2. CASE CasesWrite(h)
    <3>1. ~task[h].stale /\ ~outdated /\ status = "PUBLISHED"
      BY <2>2 DEF CasesWrite, ActsOnReading, TypeOK, Task
    <3>2. task[h].type = ptype
      BY <2>2, <3>1 DEF CasesWrite, FreshReadings
    <3>3. Fits(ptype, cases)
      BY <3>1 DEF PublicFitsType
    <3>4. QED
      BY <2>2, <3>1, <3>2, <3>3
      DEF CasesWrite, AddsCases, SyncsCases, UpdatesCase, DeletesCase, Fits
  <2>3. CASE ApproveWrite(h)
    <3>1. ~task[h].stale
      BY <2>3 DEF ApproveWrite, TypeOK, Task
    <3>2. Ready
      BY <2>3, <3>1 DEF ApproveWrite, FreshReadings
    <3>3. QED
      BY <2>3, <3>2 DEF ApproveWrite, Ready
  <2>4. CASE Propose(h) \/ HandIn(h) \/ SubmitWrite(h) \/ ReReview(h)
    BY <2>4 DEF Propose, HandIn, SubmitWrite, ReReview
  <2>5. CASE UndoProblem(h)
    BY <1>1, <2>5 DEF UndoProblem
  <2>6. CASE \/ VerifyRead(h) \/ VerifyStart(h) \/ VerifyEnds(h) \/ UndoSubmission(h)
             \/ SubmitRead(h) \/ ApproveRead(h) \/ CaseGone(h) \/ FindsNoRow(h) \/ Dies(h)
    BY <1>1, <2>6 DEF VerifyRead, VerifyStart, VerifyEnds, UndoSubmission, SubmitRead,
                      ApproveRead, CaseGone, FindsNoRow, Dies
  <2>7. QED
    BY <1>2, <2>1, <2>2, <2>3, <2>4, <2>5, <2>6 DEF HandlerStep
<1>3. ASSUME NEW h \in Handler, NEW v \in {"ACCEPTED", "failed"}, Judged(h, v)
      PROVE Fits(ptype', cases')
  BY <1>1, <1>3 DEF Judged
<1>4. ASSUME NEW h \in Handler, NEW role \in Role, CasesRead(h, role)
      PROVE Fits(ptype', cases')
  BY <1>1, <1>4 DEF CasesRead
<1>5. ASSUME NEW h \in Handler, NEW role \in Role, NEW t \in Type \cup {Same},
             UpdateRead(h, role, t)
      PROVE Fits(ptype', cases')
  BY <1>1, <1>5 DEF UpdateRead
<1>6. ASSUME NEW role \in Role, CreateDraft(role) PROVE Fits(ptype', cases')
  BY <1>6 DEF CreateDraft
<1>7. CASE Reject \/ Remove
  BY <1>7 DEF Reject, Remove
<1>8. CASE SubmissionArrives \/ UNCHANGED vars
  BY <1>1, <1>8 DEF SubmissionArrives, vars
<1>9. QED
  BY <1>2, <1>3, <1>4, <1>5, <1>6, <1>7, <1>8 DEF Next

LEMMA UnverifiedStep ==
  TypeOK /\ Places /\ UnverifiedDisappears /\ [Next]_vars => UnverifiedDisappears'
<1> SUFFICES ASSUME TypeOK, Places, UnverifiedDisappears, [Next]_vars,
                    origin' = "proposal", Exists', \A g \in Handler : ~task'[g].creates
             PROVE  verified'
  BY DEF UnverifiedDisappears
<1>1. ASSUME origin = "proposal", Exists, \A g \in Handler : ~task[g].creates,
             verified => verified'
      PROVE  verified'
  BY <1>1 DEF UnverifiedDisappears
<1>2. ASSUME NEW h \in Handler, NEW reading, ~reading.creates, Reads(h, reading),
             UNCHANGED <<origin, verified>>
      PROVE verified'
  <2>1. ~task[h].creates
    BY <1>2 DEF Reads, Places, CreatorsVerify
  <2>2. QED
    BY <1>1, <1>2, <2>1 DEF Reads, TypeOK, Task
<1>3. ASSUME NEW h \in Handler, HandlerStep(h) PROVE verified'
  <2>1. CASE Propose(h)
    BY <2>1 DEF Propose, TypeOK, Task, Idle
  <2>2. CASE VerifyStart(h)
    BY <1>1, <2>2 DEF VerifyStart, TypeOK, Task
  <2>3. CASE VerifyEnds(h)
    <3>1. CASE task[h].creates /\ Passed(h)
      BY <2>3, <3>1 DEF VerifyEnds, Passed, Places, AcceptedCounts
    <3>2. CASE task[h].creates /\ ~Passed(h)
      BY <2>3, <3>2 DEF VerifyEnds, TypeOK, Task
    <3>3. CASE ~task[h].creates
      <4>1. \A g \in Handler : ~task[g].creates
        BY <2>3, <3>3 DEF VerifyEnds, TypeOK, Task
      <4>2. QED
        BY <1>1, <2>3, <4>1 DEF VerifyEnds, Exists
    <3>4. QED
      BY <3>1, <3>2, <3>3
  <2>4. CASE HandIn(h) \/ SubmitWrite(h) \/ ApproveWrite(h) \/ UpdateWrite(h) \/ ReReview(h)
    <3>1. /\ Writes(h, Idle) /\ Exists /\ UNCHANGED <<origin, verified>>
          /\ task[h].pc \notin {"verify", "await", "undo", "delete"}
      BY <2>4 DEF HandIn, SubmitWrite, ApproveWrite, UpdateWrite, ReReview
    <3>2. ~task[h].creates
      BY <3>1 DEF Places, CreatorsVerify
    <3>3. \A g \in Handler : ~task[g].creates
      BY <3>1, <3>2, OwnTask
    <3>4. QED
      BY <1>1, <3>1, <3>3
  <2>5. CASE UndoProblem(h)
    BY <2>5 DEF UndoProblem, Exists, ProblemStatus
  <2>6. CASE CasesWrite(h)
    <3>1. ~task[h].creates
      BY <2>6 DEF CasesWrite, Places, CreatorsVerify
    <3>2. \A g \in Handler : ~task[g].creates
      BY <2>6, <3>1, OwnTask DEF CasesWrite
    <3>3. QED
      BY <1>1, <2>6, <3>2 DEF CasesWrite
  <2>7. CASE VerifyRead(h) \/ SubmitRead(h) \/ ApproveRead(h)
    BY <1>2, <2>7 DEF VerifyRead, SubmitRead, ApproveRead, Idle
  <2>8. CASE UndoSubmission(h)
    BY <1>1, <2>8 DEF UndoSubmission, TypeOK, Task, Exists
  <2>9. CASE CaseGone(h)
    <3>1. ~task[h].creates
      BY <2>9 DEF CaseGone, Places, CreatorsVerify
    <3>2. QED
      BY <1>1, <2>9, <3>1 DEF CaseGone, TypeOK, Task, Exists
  <2>10. CASE FindsNoRow(h)
    BY <2>10 DEF FindsNoRow, Exists
  <2>11. CASE Dies(h)
    <3>1. ~task[h].creates
      BY <2>11 DEF Dies
    <3>2. QED
      BY <1>1, <2>11, <3>1 DEF Dies, TypeOK, Task, Exists
  <2>12. QED
    BY <1>3, <2>1, <2>2, <2>3, <2>4, <2>5, <2>6, <2>7, <2>8, <2>9, <2>10, <2>11 DEF HandlerStep
<1>4. ASSUME NEW h \in Handler, NEW v \in {"ACCEPTED", "failed"}, Judged(h, v)
      PROVE verified'
  BY <1>1, <1>4 DEF Judged, Exists
<1>5. ASSUME NEW h \in Handler, NEW role \in Role, CasesRead(h, role) PROVE verified'
  BY <1>2, <1>5 DEF CasesRead, Idle
<1>6. ASSUME NEW h \in Handler, NEW role \in Role, NEW t \in Type \cup {Same},
             UpdateRead(h, role, t)
      PROVE verified'
  BY <1>2, <1>6 DEF UpdateRead, Idle
<1>7. ASSUME NEW role \in Role, CreateDraft(role) PROVE verified'
  BY <1>7 DEF CreateDraft
<1>8. CASE Reject
  BY <1>1, <1>8, Untouched DEF Reject
<1>9. CASE Remove
  BY <1>9 DEF Remove, Exists, ProblemStatus
<1>10. CASE SubmissionArrives \/ UNCHANGED vars
  BY <1>1, <1>10 DEF SubmissionArrives, vars, Exists
<1>11. QED
  BY <1>3, <1>4, <1>5, <1>6, <1>7, <1>8, <1>9, <1>10 DEF Next

\* Every variable keeps its type, however many requests are in progress.
THEOREM TypeCorrect == Spec => []TypeOK
<1>1. Init => TypeOK /\ TypedReadings
  BY TypeInit DEF Init, TypedReadings, Idle
<1>2. TypeOK /\ Places /\ [Next]_vars => TypeOK' /\ Places'
  BY TypeStep, PlacesStep DEF Places
<1>3. Init => Places
  BY DEF Init, Idle, Places, TypedReadings, CreatorsVerify, NobodyBeforeRow, AcceptedCounts
<1>4. QED
  BY <1>1, <1>2, <1>3, PTL DEF Spec

\* The inductive invariant: where requests stand, which readings still hold, and
\* the three properties it carries.
THEOREM BookkeepingHolds == Spec => []Bookkeeping
<1>1. Init => Bookkeeping
  BY DEF Init, Idle, Bookkeeping, TypedReadings, CreatorsVerify, NobodyBeforeRow,
         AcceptedCounts, FreshReadings, PublicIsReviewed, ReReviewHolds, PublicFitsType,
         UnverifiedDisappears, Exists, ProblemStatus
<1>2. TypeOK /\ Bookkeeping /\ [Next]_vars => Bookkeeping'
  BY PlacesStep, FreshStep, ReviewStep, FitsStep, UnverifiedStep DEF Bookkeeping, Places
<1>3. QED
  BY <1>1, <1>2, TypeCorrect, PTL DEF Spec

\* What the public sees has been reviewed, as long as no request has acted on an
\* outdated reading (ProblemsService.reReviewData).
THEOREM PublicStaysReviewed == Spec => []PublicIsReviewed
<1>1. Bookkeeping => PublicIsReviewed
  BY DEF Bookkeeping
<1>2. QED
  BY <1>1, BookkeepingHolds, PTL

\* A public problem's test cases suit its type, under the same condition.
THEOREM PublicStaysFit == Spec => []PublicFitsType
<1>1. Bookkeeping => PublicFitsType
  BY DEF Bookkeeping
<1>2. QED
  BY <1>1, BookkeepingHolds, PTL

\* A proposal that failed its verification is gone once its request is over,
\* whatever other requests did meanwhile (ProblemsService.verifyWithSolution).
THEOREM UnverifiedGoes == Spec => []UnverifiedDisappears
<1>1. Bookkeeping => UnverifiedDisappears
  BY DEF Bookkeeping
<1>2. QED
  BY <1>1, BookkeepingHolds, PTL

-----------------------------------------------------------------------------
(***************************************************************************)
(* SiteSettings.                                                           *)
(***************************************************************************)

SaveReq == [at : {"sent", "read", "undo", "clean"}, op : {"save"}, image : Image \cup {None},
            on : BOOLEAN, row : Image \cup {None}, fresh : BOOLEAN]
RemoveReq == [at : {"sent", "read", "deleted"}, op : {"remove"}, image : {None}, row : Image \cup {None},
              fresh : BOOLEAN]
UpdateReq == [at : {"sent", "read", "answer"}, op : {"update"}, lang : Language, to : Value,
              row : [Language -> Value], fresh : BOOLEAN]
ResetReq == [at : {"sent", "answer"}, op : {"reset"}, row : [Language -> Value], fresh : BOOLEAN]
GmailReq == [at : {"sent", "read"}, op : {"gmail"}, pass : Password, row : Password, fresh : BOOLEAN]
DisableReq == [at : {"sent", "read"}, op : {"disable"}, fresh : BOOLEAN]

OfBanner(c) == req[c] # Free /\ req[c].op \in {"save", "remove"}

\* A file that a save has uploaded and the row does not name yet.
Pending(c) == /\ req[c] # Free /\ req[c].op = "save" /\ req[c].image # None
              /\ req[c].at \in {"sent", "read", "undo"}

\* A file that a save will name in the row or delete.
Cares(c, f) == \/ Pending(c) /\ req[c].image = f
               \/ Is(c, "save", "clean") /\ req[c].row = f

\* Every file has its row, or a request that will give it one or delete it.
FilesHaveOwners == \A f \in disk : f = banner.image \/ cut # {} \/ \E c \in Change : Cares(c, f)

\* A new file is on the disk, and in nobody else's hands.
UploadsApart ==
  \A c \in Change : Pending(c) =>
    /\ req[c].image \in disk /\ req[c].image # banner.image
    /\ \A d \in Change \ {c} : OfBanner(d) => req[c].image \notin {req[d].image, req[d].row}

OldFilesGo == \A c \in Change : Is(c, "save", "clean") => req[c].row \notin {banner.image, None}
RemovedIsGone == \A c \in Change : Is(c, "remove", "deleted") => req[c].row \notin disk
BannerReadings ==
  \A c \in Change : OfBanner(c) /\ req[c].at \in {"read", "deleted"} /\ req[c].fresh =>
    req[c].row = banner.image

BannerPart == FilesHaveOwners /\ ImageStands /\ UploadsApart /\ OldFilesGo /\ RemovedIsGone /\ BannerReadings

JudgePart ==
  /\ config = last
  /\ \A c \in Change : Is(c, "update", "read") /\ req[c].fresh => req[c].row = config

MailPart ==
  /\ mail.pass = given
  /\ \A c \in Change : Is(c, "gmail", "read") /\ req[c].fresh => req[c].row = mail.pass

SettingsInv == SettingsTypeOK /\ (crossed \/ (BannerPart /\ JudgePart /\ MailPart))

LEMMA RequestKinds ==
  /\ Requests = {Free} \cup SaveReq \cup RemoveReq \cup UpdateReq \cup ResetReq \cup GmailReq \cup DisableReq
  /\ Free \in Requests /\ Free.at = "free"
  BY DEF Requests, SaveReq, RemoveReq, UpdateReq, ResetReq, GmailReq, DisableReq, Free

LEMMA RequestHas ==
  ASSUME NEW r \in Requests, r # Free
  PROVE  /\ r.op = "save" => r \in SaveReq
         /\ r.op = "remove" => r \in RemoveReq
         /\ r.op = "update" => r \in UpdateReq
         /\ r.op = "reset" => r \in ResetReq
         /\ r.op = "gmail" => r \in GmailReq
         /\ r.op = "disable" => r \in DisableReq
         /\ r.op \in {"save", "remove", "update", "reset", "gmail", "disable"}
<1>1. CASE r \in SaveReq \cup RemoveReq
  BY <1>1 DEF SaveReq, RemoveReq
<1>2. CASE r \in UpdateReq \cup ResetReq
  BY <1>2 DEF UpdateReq, ResetReq
<1>3. CASE r \in GmailReq \cup DisableReq
  BY <1>3 DEF GmailReq, DisableReq
<1> QED
  BY <1>1, <1>2, <1>3, RequestKinds

\* A request that is one is not Free.
LEMMA RequestIs ==
  ASSUME NEW r, r \in SaveReq \cup RemoveReq \cup UpdateReq \cup ResetReq \cup GmailReq \cup DisableReq
  PROVE  r # Free /\ r \in Requests
<1>1. r.at # "free"
  BY DEF SaveReq, RemoveReq, UpdateReq, ResetReq, GmailReq, DisableReq
<1> QED
  BY <1>1, RequestKinds

LEMMA MoveIs ==
  ASSUME SettingsTypeOK, NEW c \in Change, NEW w \in Requests, req' = [req EXCEPT ![c] = w]
  PROVE  /\ req' \in [Change -> Requests] /\ req'[c] = w
         /\ \A d \in Change \ {c} : req'[d] = req[d]
  BY DEF SettingsTypeOK

\* The readings of the others become outdated, and nothing else of their requests changes.
LEMMA OutdatedRequest ==
  ASSUME NEW r \in Requests, r # Free, r.at \in {"read", "deleted"}
  PROVE  LET q == [r EXCEPT !.fresh = FALSE]
         IN /\ q \in Requests /\ q # Free /\ q.fresh = FALSE
            /\ q.at = r.at /\ q.op = r.op
            /\ r.op \in {"save", "remove"} => q.image = r.image /\ q.row = r.row
<1> DEFINE q == [r EXCEPT !.fresh = FALSE]
<1>1. CASE r.op = "save"
  <2>1. r \in SaveReq
    BY <1>1, RequestHas
  <2>2. q \in SaveReq /\ q.fresh = FALSE /\ q.at = r.at /\ q.op = r.op /\ q.image = r.image /\ q.row = r.row
    BY <2>1 DEF SaveReq
  <2> QED
    BY <2>2, RequestIs
<1>2. CASE r.op = "remove"
  <2>1. r \in RemoveReq
    BY <1>2, RequestHas
  <2>2. q \in RemoveReq /\ q.fresh = FALSE /\ q.at = r.at /\ q.op = r.op /\ q.image = r.image /\ q.row = r.row
    BY <2>1 DEF RemoveReq
  <2> QED
    BY <2>2, RequestIs
<1>3. CASE r.op = "update"
  <2>1. r \in UpdateReq
    BY <1>3, RequestHas
  <2>2. q \in UpdateReq /\ q.fresh = FALSE /\ q.at = r.at /\ q.op = r.op
    BY <2>1 DEF UpdateReq
  <2> QED
    BY <1>3, <2>2, RequestIs
<1>4. CASE r.op = "reset"
  BY <1>4, RequestHas DEF ResetReq
<1>5. CASE r.op = "gmail"
  <2>1. r \in GmailReq
    BY <1>5, RequestHas
  <2>2. q \in GmailReq /\ q.fresh = FALSE /\ q.at = r.at /\ q.op = r.op
    BY <2>1 DEF GmailReq
  <2> QED
    BY <1>5, <2>2, RequestIs
<1>6. CASE r.op = "disable"
  <2>1. r \in DisableReq
    BY <1>6, RequestHas
  <2>2. q \in DisableReq /\ q.fresh = FALSE /\ q.at = r.at /\ q.op = r.op
    BY <2>1 DEF DisableReq
  <2> QED
    BY <1>6, <2>2, RequestIs
<1> QED
  BY <1>1, <1>2, <1>3, <1>4, <1>5, <1>6, RequestHas

LEMMA OutdatingIs ==
  ASSUME SettingsTypeOK, NEW c \in Change, NEW w \in Requests, req' = Outdating(c, w)
  PROVE  /\ req' \in [Change -> Requests] /\ req'[c] = w
         /\ \A d \in Change \ {c} :
              /\ req[d] = Free => req'[d] = Free
              /\ req[d] # Free =>
                   /\ req'[d] # Free /\ req'[d].at = req[d].at /\ req'[d].op = req[d].op
                   /\ OfBanner(d) => req'[d].image = req[d].image /\ req'[d].row = req[d].row
                   /\ req[d].at \in {"read", "deleted"} => ~req'[d].fresh
<1>1. /\ req'[c] = w /\ req' = [d \in Change |-> req'[d]]
      /\ \A d \in Change \ {c} :
           req'[d] = IF req[d] # Free /\ req[d].at \in {"read", "deleted"}
                     THEN [req[d] EXCEPT !.fresh = FALSE] ELSE req[d]
  BY Zenon DEF Outdating
<1>2. \A d \in Change \ {c} :
        /\ req'[d] \in Requests
        /\ req[d] = Free => req'[d] = Free
        /\ req[d] # Free =>
             /\ req'[d] # Free /\ req'[d].at = req[d].at /\ req'[d].op = req[d].op
             /\ OfBanner(d) => req'[d].image = req[d].image /\ req'[d].row = req[d].row
             /\ req[d].at \in {"read", "deleted"} => ~req'[d].fresh
  <2> SUFFICES ASSUME NEW d \in Change \ {c}
               PROVE  /\ req'[d] \in Requests
                      /\ req[d] = Free => req'[d] = Free
                      /\ req[d] # Free =>
                           /\ req'[d] # Free /\ req'[d].at = req[d].at /\ req'[d].op = req[d].op
                           /\ OfBanner(d) => req'[d].image = req[d].image /\ req'[d].row = req[d].row
                           /\ req[d].at \in {"read", "deleted"} => ~req'[d].fresh
    OBVIOUS
  <2>1. req[d] \in Requests
    BY DEF SettingsTypeOK
  <2>2. CASE req[d] # Free /\ req[d].at \in {"read", "deleted"}
    <3> DEFINE q == [req[d] EXCEPT !.fresh = FALSE]
    <3>1. /\ q \in Requests /\ q # Free /\ q.fresh = FALSE
          /\ q.at = req[d].at /\ q.op = req[d].op
          /\ req[d].op \in {"save", "remove"} => q.image = req[d].image /\ q.row = req[d].row
      BY <2>1, <2>2, OutdatedRequest
    <3>2. req'[d] = q
      BY <1>1, <2>2, Zenon
    <3> HIDE DEF q
    <3> QED
      BY <2>2, <3>1, <3>2 DEF OfBanner
  <2>3. CASE ~(req[d] # Free /\ req[d].at \in {"read", "deleted"})
    BY <1>1, <2>1, <2>3
  <2> QED
    BY <2>2, <2>3
<1> QED
  BY <1>1, <1>2

\* c's request becomes w; the others are as they were, but that their readings may become outdated.
MovesTo(c, w) ==
  /\ req' \in [Change -> Requests] /\ req'[c] = w
  /\ \A d \in Change \ {c} :
       /\ req'[d] = Free <=> req[d] = Free
       /\ req[d] # Free => /\ req'[d].at = req[d].at /\ req'[d].op = req[d].op
                           /\ OfBanner(d) => req'[d].image = req[d].image /\ req'[d].row = req[d].row
                           /\ req[d].at \in {"read", "deleted"} /\ req'[d].fresh => req'[d] = req[d]

LEMMA MovesOne ==
  ASSUME SettingsTypeOK, NEW c \in Change, NEW w \in Requests, req' = [req EXCEPT ![c] = w]
  PROVE  MovesTo(c, w)
  BY MoveIs DEF MovesTo

LEMMA MovesAll ==
  ASSUME SettingsTypeOK, NEW c \in Change, NEW w \in Requests, req' = Outdating(c, w)
  PROVE  MovesTo(c, w) /\ \A d \in Change \ {c} : req[d] # Free /\ req[d].at \in {"read", "deleted"} => ~req'[d].fresh
  BY OutdatingIs DEF MovesTo

LEMMA JudgeKeeps ==
  ASSUME SettingsTypeOK, JudgePart, NEW c \in Change, NEW w \in Requests, MovesTo(c, w), UNCHANGED <<config, last>>,
         w # Free /\ w.op = "update" /\ w.at = "read" /\ w.fresh => w.row = config
  PROVE  JudgePart'
<1>1. ASSUME NEW d \in Change \ {c}, Is(d, "update", "read")', req'[d].fresh
      PROVE  req'[d].row = config
  BY <1>1 DEF MovesTo, Is, JudgePart
<1> QED
  BY <1>1 DEF MovesTo, Is, JudgePart

LEMMA MailKeeps ==
  ASSUME SettingsTypeOK, MailPart, NEW c \in Change, NEW w \in Requests, MovesTo(c, w), mail'.pass = mail.pass, given' = given,
         w # Free /\ w.op = "gmail" /\ w.at = "read" /\ w.fresh => w.row = mail.pass
  PROVE  MailPart'
<1>1. ASSUME NEW d \in Change \ {c}, Is(d, "gmail", "read")', req'[d].fresh
      PROVE  req'[d].row = mail.pass
  BY <1>1 DEF MovesTo, Is, MailPart
<1> QED
  BY <1>1 DEF MovesTo, Is, MailPart

\* What the others have to do with the banner.
LEMMA BannerOthers ==
  ASSUME NEW c \in Change, NEW w, MovesTo(c, w), NEW d \in Change \ {c}
  PROVE  /\ OfBanner(d)' <=> OfBanner(d)
         /\ OfBanner(d) => req'[d].image = req[d].image /\ req'[d].row = req[d].row /\ req'[d].at = req[d].at
                           /\ req'[d].op = req[d].op
         /\ Pending(d)' <=> Pending(d)
         /\ \A o, a : Is(d, o, a)' <=> Is(d, o, a)
         /\ \A f : Cares(d, f)' <=> Cares(d, f)
         /\ OfBanner(d) /\ req[d].at \in {"read", "deleted"} /\ req'[d].fresh => req'[d] = req[d]
<1>1. /\ OfBanner(d)' <=> OfBanner(d)
      /\ OfBanner(d) => req'[d].image = req[d].image /\ req'[d].row = req[d].row /\ req'[d].at = req[d].at
                        /\ req'[d].op = req[d].op
      /\ OfBanner(d) /\ req[d].at \in {"read", "deleted"} /\ req'[d].fresh => req'[d] = req[d]
  BY DEF MovesTo, OfBanner
<1>2. Pending(d)' <=> Pending(d)
  BY <1>1 DEF MovesTo, OfBanner, Pending
<1>3. \A o, a : Is(d, o, a)' <=> Is(d, o, a)
  BY DEF MovesTo, Is
<1>4. \A f : Cares(d, f)' <=> Cares(d, f)
  BY <1>1, <1>2, <1>3 DEF Cares, Pending, Is, OfBanner
<1> QED
  BY <1>1, <1>2, <1>3, <1>4

LEMMA BannerKeeps ==
  ASSUME BannerPart, NEW c \in Change, NEW w, MovesTo(c, w), UNCHANGED <<banner, disk, cut>>,
         ~OfBanner(c), ~OfBanner(c)'
  PROVE  BannerPart'
<1>1. /\ ~Pending(c) /\ ~Pending(c)' /\ \A f : ~Cares(c, f) /\ ~Cares(c, f)'
      /\ \A a : ~Is(c, "save", a) /\ ~Is(c, "save", a)' /\ ~Is(c, "remove", a) /\ ~Is(c, "remove", a)'
  BY DEF OfBanner, Pending, Cares, Is
<1>2. FilesHaveOwners'
  BY <1>1, BannerOthers DEF BannerPart, FilesHaveOwners
<1>3. ImageStands'
  BY <1>1, BannerOthers DEF BannerPart, ImageStands
<1>4. UploadsApart'
  <2> SUFFICES ASSUME NEW d \in Change, Pending(d)'
               PROVE  /\ req'[d].image \in disk /\ req'[d].image # banner.image
                      /\ \A e \in Change \ {d} : OfBanner(e)' => req'[d].image \notin {req'[e].image, req'[e].row}
    BY DEF UploadsApart
  <2>1. d # c /\ Pending(d) /\ OfBanner(d) /\ req'[d].image = req[d].image
    BY <1>1, BannerOthers DEF Pending, OfBanner
  <2>2. \A e \in Change \ {d} : OfBanner(e)' => OfBanner(e) /\ req'[e].image = req[e].image /\ req'[e].row = req[e].row
    BY BannerOthers
  <2> QED
    BY <2>1, <2>2 DEF BannerPart, UploadsApart
<1>5. OldFilesGo'
  <2> SUFFICES ASSUME NEW d \in Change, Is(d, "save", "clean")' PROVE req'[d].row \notin {banner.image, None}
    BY DEF OldFilesGo
  <2>1. d # c /\ Is(d, "save", "clean") /\ OfBanner(d)
    BY <1>1, BannerOthers DEF Is, OfBanner
  <2> QED
    BY <2>1, BannerOthers DEF BannerPart, OldFilesGo
<1>6. RemovedIsGone'
  <2> SUFFICES ASSUME NEW d \in Change, Is(d, "remove", "deleted")' PROVE req'[d].row \notin disk
    BY DEF RemovedIsGone
  <2>1. d # c /\ Is(d, "remove", "deleted") /\ OfBanner(d)
    BY <1>1, BannerOthers DEF Is, OfBanner
  <2> QED
    BY <2>1, BannerOthers DEF BannerPart, RemovedIsGone
<1>7. BannerReadings'
  BY BannerOthers DEF BannerPart, BannerReadings
<1> QED
  BY <1>2, <1>3, <1>4, <1>5, <1>6, <1>7 DEF BannerPart


LEMMA FreeIsNobody == ASSUME NEW c \in Change, req[c] = Free PROVE ~OfBanner(c)
  BY DEF OfBanner

LEMMA TypedValues ==
  /\ 0 \in Value /\ Value \subseteq Nat /\ None \in Password /\ None \notin Image
  /\ \A n \in Value \ {0} : n \in Password
  /\ typed \in Value /\ typed < MaxTyped => typed + 1 \in Value /\ typed + 1 \in Password
  BY SettingsAssumption DEF Value, Password

-----------------------------------------------------------------------------

\* The steps of the pages and services of the judged languages and of the mail account.
LEMMA JudgeSteps ==
  ASSUME SettingsInv, NEW c \in Change, JudgeStep(c)
  PROVE  SettingsInv'
<1>1. ASSUME NEW l \in Language, SaveLang(c, l) PROVE SettingsInv'
  <2> DEFINE w == [at |-> "sent", op |-> "update", lang |-> l, to |-> form[l], row |-> config, fresh |-> TRUE]
  <2>1. /\ req[c] = Free /\ req' = [req EXCEPT ![c] = w] /\ UNCHANGED <<topic, crossed, cut>>
        /\ UNCHANGED <<typed, bannerVars, judgeVars, mailVars>>
    BY <1>1, Zenon DEF SaveLang, Sends
  <2>2. w \in UpdateReq /\ w.op = "update" /\ w.at = "sent"
    BY DEF UpdateReq, SettingsInv, SettingsTypeOK
  <2> HIDE DEF w
  <2>3. w \in Requests /\ MovesTo(c, w) /\ ~OfBanner(c) /\ ~OfBanner(c)'
    BY <2>1, <2>2, RequestIs, MovesOne, FreeIsNobody DEF MovesTo, OfBanner, SettingsInv
  <2>4. BannerPart => BannerPart'
    BY <2>1, <2>3, BannerKeeps DEF bannerVars
  <2>5. JudgePart => JudgePart'
    BY <2>1, <2>2, <2>3, JudgeKeeps DEF judgeVars, SettingsInv
  <2>6. MailPart => MailPart'
    BY <2>1, <2>2, <2>3, MailKeeps DEF mailVars, SettingsInv
  <2>7. SettingsTypeOK'
    BY <2>1, <2>3 DEF MovesTo, SettingsInv, SettingsTypeOK, bannerVars, judgeVars, mailVars
  <2> QED
    BY <2>1, <2>4, <2>5, <2>6, <2>7 DEF SettingsInv
<1>2. CASE ResetAll(c)
  <2> DEFINE w == [at |-> "sent", op |-> "reset", row |-> config, fresh |-> TRUE]
  <2>1. /\ req[c] = Free /\ req' = [req EXCEPT ![c] = w] /\ UNCHANGED <<topic, crossed, cut>>
        /\ UNCHANGED <<typed, bannerVars, judgeVars, mailVars>>
    BY <1>2, Zenon DEF ResetAll, Sends
  <2>2. w \in ResetReq /\ w.op = "reset"
    BY DEF ResetReq, SettingsInv, SettingsTypeOK
  <2> HIDE DEF w
  <2>3. w \in Requests /\ MovesTo(c, w) /\ ~OfBanner(c) /\ ~OfBanner(c)'
    BY <2>1, <2>2, RequestIs, MovesOne, FreeIsNobody DEF MovesTo, OfBanner, SettingsInv
  <2>4. BannerPart => BannerPart'
    BY <2>1, <2>3, BannerKeeps DEF bannerVars
  <2>5. JudgePart => JudgePart'
    BY <2>1, <2>2, <2>3, JudgeKeeps DEF judgeVars, SettingsInv
  <2>6. MailPart => MailPart'
    BY <2>1, <2>2, <2>3, MailKeeps DEF mailVars, SettingsInv
  <2>7. SettingsTypeOK'
    BY <2>1, <2>3 DEF MovesTo, SettingsInv, SettingsTypeOK, bannerVars, judgeVars, mailVars
  <2> QED
    BY <2>1, <2>4, <2>5, <2>6, <2>7 DEF SettingsInv
<1>3. CASE ReadConfig(c)
  <2> DEFINE w == [req[c] EXCEPT !.at = "read", !.row = config, !.fresh = TRUE]
  <2>1. /\ Is(c, "update", "sent") /\ req' = [req EXCEPT ![c] = w] /\ UNCHANGED <<topic, typed, crossed, cut>>
        /\ UNCHANGED <<bannerVars, judgeVars, mailVars>>
    BY <1>3, Zenon DEF ReadConfig, Goes
  <2>2. req[c] \in UpdateReq /\ config \in [Language -> Value]
    BY <2>1, RequestHas DEF Is, SettingsInv, SettingsTypeOK
  <2>3. w \in UpdateReq /\ w.op = "update" /\ w.row = config
    BY <2>2 DEF UpdateReq
  <2> HIDE DEF w
  <2>4. w \in Requests /\ MovesTo(c, w) /\ ~OfBanner(c) /\ ~OfBanner(c)'
    BY <2>1, <2>3, RequestIs, MovesOne DEF MovesTo, OfBanner, Is, SettingsInv
  <2>5. BannerPart => BannerPart'
    BY <2>1, <2>4, BannerKeeps DEF bannerVars
  <2>6. JudgePart => JudgePart'
    BY <2>1, <2>3, <2>4, JudgeKeeps DEF judgeVars, SettingsInv
  <2>7. MailPart => MailPart'
    BY <2>1, <2>3, <2>4, MailKeeps DEF mailVars, SettingsInv
  <2>8. SettingsTypeOK'
    BY <2>1, <2>4 DEF MovesTo, SettingsInv, SettingsTypeOK, bannerVars, judgeVars, mailVars
  <2> QED
    BY <2>1, <2>5, <2>6, <2>7, <2>8 DEF SettingsInv
<1>4. CASE WriteConfig(c)
  <2> DEFINE u == req[c]
             w == [req[c] EXCEPT !.at = "answer"]
  <2>1. /\ Is(c, "update", "read") /\ req' = Outdating(c, w) /\ crossed' = (crossed \/ ~u.fresh)
        /\ config' = [u.row EXCEPT ![u.lang] = u.to] /\ last' = [last EXCEPT ![u.lang] = u.to]
        /\ UNCHANGED <<topic, typed, cut, form, bannerVars, mailVars>>
    BY <1>4, Zenon DEF WriteConfig, Overwrites, Merged
  <2>2. u \in UpdateReq
    BY <2>1, RequestHas DEF Is, SettingsInv, SettingsTypeOK
  <2>3. w \in UpdateReq /\ w.op = "update" /\ w.at = "answer"
    BY <2>2 DEF UpdateReq
  <2>4. u.lang \in Language /\ u.to \in Value /\ u.row \in [Language -> Value] /\ u.fresh \in BOOLEAN
    BY <2>2 DEF UpdateReq
  <2> HIDE DEF w
  <2>5. w \in Requests /\ ~OfBanner(c) /\ MovesTo(c, w)
        /\ \A d \in Change \ {c} : req[d] # Free /\ req[d].at \in {"read", "deleted"} => ~req'[d].fresh
    BY <2>1, <2>3, RequestIs, MovesAll DEF OfBanner, Is, SettingsInv
  <2>6. ~OfBanner(c)' /\ req'[c] = w
    BY <2>3, <2>5 DEF MovesTo, OfBanner
  <2>7. BannerPart => BannerPart'
    BY <2>1, <2>5, <2>6, BannerKeeps DEF bannerVars
  <2>8. JudgePart /\ u.fresh => JudgePart'
    <3>1. JudgePart /\ u.fresh => config' = last'
      BY <2>1 DEF JudgePart
    <3>2. \A d \in Change : ~(Is(d, "update", "read")' /\ req'[d].fresh)
      BY <2>3, <2>5, <2>6 DEF MovesTo, Is
    <3> QED
      BY <3>1, <3>2 DEF JudgePart
  <2>9. MailPart => MailPart'
    BY <2>1, <2>3, <2>5, MailKeeps DEF mailVars, SettingsInv
  <2>10. config' \in [Language -> Value] /\ last' \in [Language -> Value] /\ crossed' \in BOOLEAN
    BY <2>1, <2>4 DEF SettingsInv, SettingsTypeOK
  <2>11. SettingsTypeOK'
    BY <2>1, <2>5, <2>10 DEF MovesTo, SettingsInv, SettingsTypeOK, bannerVars, mailVars
  <2> QED
    BY <2>1, <2>7, <2>8, <2>9, <2>11 DEF SettingsInv
<1>5. CASE WriteReset(c)
  <2> DEFINE w == [req[c] EXCEPT !.at = "answer"]
  <2>1. /\ Is(c, "reset", "sent") /\ req' = Outdating(c, w) /\ crossed' = (crossed \/ ~req[c].fresh)
        /\ config' = [l \in Language |-> 0] /\ last' = config'
        /\ UNCHANGED <<topic, typed, cut, form, bannerVars, mailVars>>
    BY <1>5, Zenon DEF WriteReset, Overwrites
  <2>2. req[c] \in ResetReq
    BY <2>1, RequestHas DEF Is, SettingsInv, SettingsTypeOK
  <2>3. w \in ResetReq /\ w.op = "reset" /\ req[c].fresh \in BOOLEAN
    BY <2>2 DEF ResetReq
  <2> HIDE DEF w
  <2>4. w \in Requests /\ ~OfBanner(c) /\ MovesTo(c, w)
        /\ \A d \in Change \ {c} : req[d] # Free /\ req[d].at \in {"read", "deleted"} => ~req'[d].fresh
    BY <2>1, <2>3, RequestIs, MovesAll DEF OfBanner, Is, SettingsInv
  <2>5. ~OfBanner(c)' /\ req'[c] = w
    BY <2>3, <2>4 DEF MovesTo, OfBanner
  <2>6. BannerPart => BannerPart'
    BY <2>1, <2>4, <2>5, BannerKeeps DEF bannerVars
  <2>7. JudgePart'
    <3>1. \A d \in Change : ~(Is(d, "update", "read")' /\ req'[d].fresh)
      BY <2>3, <2>4, <2>5 DEF MovesTo, Is
    <3> QED
      BY <2>1, <3>1 DEF JudgePart
  <2>8. MailPart => MailPart'
    BY <2>1, <2>3, <2>4, MailKeeps DEF mailVars, SettingsInv
  <2>9. config' \in [Language -> Value] /\ last' \in [Language -> Value] /\ crossed' \in BOOLEAN
    BY <2>1, <2>3, TypedValues DEF SettingsInv, SettingsTypeOK
  <2>10. SettingsTypeOK'
    BY <2>1, <2>4, <2>9 DEF MovesTo, SettingsInv, SettingsTypeOK, bannerVars, mailVars
  <2> QED
    BY <2>1, <2>6, <2>7, <2>8, <2>10 DEF SettingsInv
<1>6. CASE ShowConfig(c)
  <2>1. /\ Is(c, "update", "answer") \/ Is(c, "reset", "answer")
        /\ form' = config /\ req' = [req EXCEPT ![c] = Free] /\ UNCHANGED <<topic, typed, crossed, cut>>
        /\ UNCHANGED <<config, last, bannerVars, mailVars>>
    BY <1>6, Zenon DEF ShowConfig, Goes
  <2>2. Free \in Requests /\ MovesTo(c, Free) /\ ~OfBanner(c) /\ ~OfBanner(c)'
    BY <2>1, RequestKinds, MovesOne DEF MovesTo, OfBanner, Is, SettingsInv
  <2>3. BannerPart => BannerPart'
    BY <2>1, <2>2, BannerKeeps DEF bannerVars
  <2>4. JudgePart => JudgePart'
    BY <2>1, <2>2, JudgeKeeps DEF SettingsInv
  <2>5. MailPart => MailPart'
    BY <2>1, <2>2, MailKeeps DEF mailVars, SettingsInv
  <2>6. SettingsTypeOK'
    BY <2>1, <2>2 DEF MovesTo, SettingsInv, SettingsTypeOK, bannerVars, mailVars
  <2> QED
    BY <2>1, <2>3, <2>4, <2>5, <2>6 DEF SettingsInv
<1> QED
  BY <1>1, <1>2, <1>3, <1>4, <1>5, <1>6 DEF JudgeStep

LEMMA TypeCommandStep ==
  ASSUME SettingsInv, NEW l \in Language, TypeCommand(l)
  PROVE  SettingsInv'
<1>1. /\ typed < MaxTyped /\ form' = [form EXCEPT ![l] = typed + 1] /\ typed' = typed + 1
      /\ UNCHANGED <<topic, req, crossed, cut, config, last, bannerVars, mailVars>>
  BY Zenon DEF TypeCommand
<1>2. form' \in [Language -> Value] /\ typed' \in 0..MaxTyped
  BY <1>1, TypedValues DEF SettingsInv, SettingsTypeOK, Value
<1>3. BannerPart' <=> BannerPart
  BY <1>1 DEF bannerVars, BannerPart, FilesHaveOwners, ImageStands, UploadsApart, OldFilesGo, RemovedIsGone,
    BannerReadings, OfBanner, Pending, Cares, Is
<1>4. (JudgePart' <=> JudgePart) /\ (MailPart' <=> MailPart)
  BY <1>1 DEF mailVars, JudgePart, MailPart, Is
<1>5. SettingsTypeOK'
  BY <1>1, <1>2 DEF SettingsInv, SettingsTypeOK, bannerVars, mailVars
<1> QED
  BY <1>1, <1>3, <1>4, <1>5 DEF SettingsInv

LEMMA MailSteps ==
  ASSUME SettingsInv, NEW c \in Change, MailStep(c)
  PROVE  SettingsInv'
<1>1. CASE SaveGmail(c)
  <2>1. PICK p \in {typed + 1, None} \cap Password :
          /\ Sends("mail", c, [at |-> "sent", op |-> "gmail", pass |-> p, row |-> None, fresh |-> TRUE])
          /\ typed' = IF p = None THEN typed ELSE typed + 1
    BY <1>1, Zenon DEF SaveGmail
  <2> DEFINE w == [at |-> "sent", op |-> "gmail", pass |-> p, row |-> None, fresh |-> TRUE]
  <2>2. /\ req[c] = Free /\ req' = [req EXCEPT ![c] = w] /\ UNCHANGED <<topic, crossed, cut>>
        /\ UNCHANGED <<bannerVars, judgeVars, mailVars>>
    BY <1>1, <2>1, Zenon DEF SaveGmail, Sends
  <2>3. w \in GmailReq /\ w.op = "gmail" /\ w.at = "sent"
    BY TypedValues DEF GmailReq
  <2> HIDE DEF w
  <2>4. w \in Requests /\ MovesTo(c, w) /\ ~OfBanner(c) /\ ~OfBanner(c)'
    BY <2>2, <2>3, RequestIs, MovesOne, FreeIsNobody DEF MovesTo, OfBanner, SettingsInv
  <2>5. BannerPart => BannerPart'
    BY <2>2, <2>4, BannerKeeps DEF bannerVars
  <2>6. JudgePart => JudgePart'
    BY <2>2, <2>3, <2>4, JudgeKeeps DEF judgeVars, SettingsInv
  <2>7. MailPart => MailPart'
    BY <2>2, <2>3, <2>4, MailKeeps DEF mailVars, SettingsInv
  <2>8. typed' \in 0..MaxTyped
    BY <2>1, SettingsAssumption DEF Password, SettingsInv, SettingsTypeOK
  <2>9. SettingsTypeOK'
    BY <2>2, <2>4, <2>8 DEF MovesTo, SettingsInv, SettingsTypeOK, bannerVars, judgeVars, mailVars
  <2> QED
    BY <2>2, <2>5, <2>6, <2>7, <2>9 DEF SettingsInv
<1>2. CASE DisableConfig(c)
  <2> DEFINE w == [at |-> "sent", op |-> "disable", fresh |-> TRUE]
  <2>1. /\ req[c] = Free /\ req' = [req EXCEPT ![c] = w] /\ UNCHANGED <<topic, crossed, cut>>
        /\ UNCHANGED <<typed, bannerVars, judgeVars, mailVars>>
    BY <1>2, Zenon DEF DisableConfig, Sends
  <2>2. w \in DisableReq /\ w.op = "disable"
    BY DEF DisableReq
  <2> HIDE DEF w
  <2>3. w \in Requests /\ MovesTo(c, w) /\ ~OfBanner(c) /\ ~OfBanner(c)'
    BY <2>1, <2>2, RequestIs, MovesOne, FreeIsNobody DEF MovesTo, OfBanner, SettingsInv
  <2>4. BannerPart => BannerPart'
    BY <2>1, <2>3, BannerKeeps DEF bannerVars
  <2>5. JudgePart => JudgePart'
    BY <2>1, <2>2, <2>3, JudgeKeeps DEF judgeVars, SettingsInv
  <2>6. MailPart => MailPart'
    BY <2>1, <2>2, <2>3, MailKeeps DEF mailVars, SettingsInv
  <2>7. SettingsTypeOK'
    BY <2>1, <2>3 DEF MovesTo, SettingsInv, SettingsTypeOK, bannerVars, judgeVars, mailVars
  <2> QED
    BY <2>1, <2>4, <2>5, <2>6, <2>7 DEF SettingsInv
<1>3. CASE ReadMail(c)
  <2>1. PICK w \in Requests :
          /\ req' = [req EXCEPT ![c] = w] /\ ~OfBanner(c)
          /\ w # Free => w.op \in {"gmail", "disable"} /\ (w.op = "gmail" => w.row = mail.pass)
    <3> DEFINE x == [req[c] EXCEPT !.at = "read", !.row = mail.pass, !.fresh = TRUE]
               y == [req[c] EXCEPT !.at = "read", !.fresh = TRUE]
    <3>1. /\ Is(c, "gmail", "sent") \/ Is(c, "disable", "sent")
          /\ \/ req' = [req EXCEPT ![c] = Free]
             \/ req[c].op = "gmail" /\ req' = [req EXCEPT ![c] = x]
             \/ req[c].op # "gmail" /\ req' = [req EXCEPT ![c] = y]
      BY <1>3, Zenon DEF ReadMail, Goes
    <3>2. req[c] # Free /\ req[c] \in Requests /\ req[c].op \in {"gmail", "disable"} /\ ~OfBanner(c)
      BY <3>1 DEF Is, OfBanner, SettingsInv, SettingsTypeOK
    <3>3. CASE req[c].op = "gmail"
      <4>1. req[c] \in GmailReq /\ mail.pass \in Password
        BY <3>2, <3>3, RequestHas DEF SettingsInv, SettingsTypeOK
      <4>2. x \in GmailReq /\ x.op = "gmail" /\ x.row = mail.pass
        BY <4>1 DEF GmailReq
      <4> HIDE DEF x
      <4> QED
        BY <3>1, <3>2, <3>3, <4>2, RequestIs, RequestKinds
    <3>4. CASE req[c].op = "disable"
      <4>1. req[c] \in DisableReq
        BY <3>2, <3>4, RequestHas
      <4>2. y \in DisableReq /\ y.op = "disable"
        BY <4>1 DEF DisableReq
      <4> HIDE DEF y
      <4> QED
        BY <3>1, <3>2, <3>4, <4>2, RequestIs, RequestKinds
    <3> QED
      BY <3>2, <3>3, <3>4
  <2>2. UNCHANGED <<topic, typed, crossed, cut, bannerVars, judgeVars, mailVars>>
    BY <1>3, Zenon DEF ReadMail, Goes
  <2>3. MovesTo(c, w) /\ ~OfBanner(c)'
    BY <2>1, MovesOne DEF MovesTo, OfBanner, SettingsInv
  <2>4. BannerPart => BannerPart'
    BY <2>1, <2>2, <2>3, BannerKeeps DEF bannerVars
  <2>5. JudgePart => JudgePart'
    BY <2>1, <2>2, <2>3, JudgeKeeps DEF judgeVars, SettingsInv
  <2>6. MailPart => MailPart'
    BY <2>1, <2>2, <2>3, MailKeeps DEF mailVars, SettingsInv
  <2>7. SettingsTypeOK'
    BY <2>2, <2>3 DEF MovesTo, SettingsInv, SettingsTypeOK, bannerVars, judgeVars, mailVars
  <2> QED
    BY <2>2, <2>4, <2>5, <2>6, <2>7 DEF SettingsInv
<1>4. CASE WriteGmail(c)
  <2> DEFINE u == req[c]
             p == IF u.pass # None THEN u.pass ELSE u.row
  <2>1. /\ Is(c, "gmail", "read") /\ req' = Outdating(c, Free) /\ crossed' = (crossed \/ ~u.fresh)
        /\ mail' = [stored |-> TRUE, on |-> TRUE, pass |-> p]
        /\ given' = IF u.pass # None THEN p ELSE given
        /\ UNCHANGED <<topic, typed, cut, bannerVars, judgeVars>>
    BY <1>4, Zenon DEF WriteGmail, Overwrites
  <2>2. u \in GmailReq
    BY <2>1, RequestHas DEF Is, SettingsInv, SettingsTypeOK
  <2>3. u.pass \in Password /\ u.row \in Password /\ u.fresh \in BOOLEAN
    BY <2>2 DEF GmailReq
  <2>4. /\ Free \in Requests /\ ~OfBanner(c) /\ MovesTo(c, Free)
        /\ \A d \in Change \ {c} : req[d] # Free /\ req[d].at \in {"read", "deleted"} => ~req'[d].fresh
    BY <2>1, RequestKinds, MovesAll DEF OfBanner, Is, SettingsInv
  <2>5. ~OfBanner(c)' /\ req'[c] = Free
    BY <2>4 DEF MovesTo, OfBanner
  <2>6. BannerPart => BannerPart'
    BY <2>1, <2>4, <2>5, BannerKeeps DEF bannerVars
  <2>7. JudgePart => JudgePart'
    BY <2>1, <2>4, JudgeKeeps DEF judgeVars, SettingsInv
  <2>8. p \in Password /\ mail'.pass = p
    BY <2>1, <2>3
  <2>9. MailPart /\ u.fresh => MailPart'
    <3>1. MailPart /\ u.fresh => mail'.pass = given'
      BY <2>1, <2>8 DEF MailPart
    <3>2. \A d \in Change : ~(Is(d, "gmail", "read")' /\ req'[d].fresh)
      BY <2>4, <2>5 DEF MovesTo, Is
    <3> QED
      BY <3>1, <3>2 DEF MailPart
  <2>10. mail' \in [stored : BOOLEAN, on : BOOLEAN, pass : Password] /\ given' \in Password /\ crossed' \in BOOLEAN
    BY <2>1, <2>3, <2>8 DEF SettingsInv, SettingsTypeOK
  <2>11. SettingsTypeOK'
    BY <2>1, <2>4, <2>10 DEF MovesTo, SettingsInv, SettingsTypeOK, bannerVars, judgeVars
  <2> QED
    BY <2>1, <2>6, <2>7, <2>9, <2>11 DEF SettingsInv
<1>5. CASE WriteDisable(c)
  <2>1. /\ Is(c, "disable", "read") /\ mail' = [mail EXCEPT !.on = FALSE] /\ req' = [req EXCEPT ![c] = Free]
        /\ UNCHANGED <<topic, typed, crossed, cut>> /\ UNCHANGED <<given, bannerVars, judgeVars>>
    BY <1>5, Zenon DEF WriteDisable, Goes
  <2>2. Free \in Requests /\ MovesTo(c, Free) /\ ~OfBanner(c) /\ ~OfBanner(c)'
    BY <2>1, RequestKinds, MovesOne DEF MovesTo, OfBanner, Is, SettingsInv
  <2>3. mail'.pass = mail.pass /\ mail' \in [stored : BOOLEAN, on : BOOLEAN, pass : Password]
    BY <2>1 DEF SettingsInv, SettingsTypeOK
  <2>4. BannerPart => BannerPart'
    BY <2>1, <2>2, BannerKeeps DEF bannerVars
  <2>5. JudgePart => JudgePart'
    BY <2>1, <2>2, JudgeKeeps DEF judgeVars, SettingsInv
  <2>6. MailPart => MailPart'
    BY <2>1, <2>2, <2>3, MailKeeps DEF SettingsInv
  <2>7. SettingsTypeOK'
    BY <2>1, <2>2, <2>3 DEF MovesTo, SettingsInv, SettingsTypeOK, bannerVars, judgeVars
  <2> QED
    BY <2>1, <2>4, <2>5, <2>6, <2>7 DEF SettingsInv
<1> QED
  BY <1>1, <1>2, <1>3, <1>4, <1>5 DEF MailStep


-----------------------------------------------------------------------------

\* A request's step that leaves the languages and the mail alone.
LEMMA BannerOnly ==
  ASSUME SettingsInv, NEW c \in Change, NEW w \in Requests, MovesTo(c, w),
         w = Free \/ w.op \in {"save", "remove"},
         UNCHANGED <<topic, judgeVars, mailVars>>, cut' \subseteq {"save", "remove"},
         banner' \in [image : Image \cup {None}, on : BOOLEAN], disk' \subseteq Image,
         typed' \in 0..MaxTyped, crossed' \in BOOLEAN,
         crossed => crossed', BannerPart => crossed' \/ BannerPart'
  PROVE  SettingsInv'
<1>1. JudgePart => JudgePart'
  BY JudgeKeeps DEF judgeVars, SettingsInv
<1>2. MailPart => MailPart'
  BY MailKeeps DEF mailVars, SettingsInv
<1>3. SettingsTypeOK'
  BY DEF MovesTo, SettingsInv, SettingsTypeOK, judgeVars, mailVars
<1> QED
  BY <1>1, <1>2, <1>3 DEF SettingsInv

LEMMA SaveBannerStep ==
  ASSUME SettingsInv, NEW c \in Change, SaveBanner(c)
  PROVE  SettingsInv'
<1>1. PICK f \in Image \cup {None}, on \in BOOLEAN :
        /\ f # None => /\ typed < MaxTyped /\ f \notin disk /\ f # banner.image
                       /\ \A d \in Change : req[d] # Free => f \notin {req[d].row, req[d].image}
        /\ Sends("banner", c, [at |-> "sent", op |-> "save", image |-> f, on |-> on, row |-> None, fresh |-> TRUE])
        /\ disk' = disk \cup ({f} \ {None})
        /\ typed' = IF f = None THEN typed ELSE typed + 1
        /\ UNCHANGED <<banner, judgeVars, mailVars>>
  BY Zenon DEF SaveBanner
<1> DEFINE w == [at |-> "sent", op |-> "save", image |-> f, on |-> on, row |-> None, fresh |-> TRUE]
<1>2. req[c] = Free /\ req' = [req EXCEPT ![c] = w] /\ UNCHANGED <<topic, crossed, cut>>
  BY <1>1, Zenon DEF Sends
<1>3. w \in SaveReq /\ w.op = "save" /\ w.at = "sent" /\ w.image = f /\ w.row = None
  BY DEF SaveReq
<1> HIDE DEF w
<1>4. w \in Requests /\ w # Free /\ MovesTo(c, w) /\ req'[c] = w /\ ~OfBanner(c)
  BY <1>2, <1>3, RequestIs, MovesOne, FreeIsNobody DEF MovesTo, SettingsInv
<1>5. /\ ~Pending(c) /\ \A g : ~Cares(c, g) /\ (f # None => Pending(c)')
      /\ \A o, a : ~Is(c, o, a) /\ ~Is(c, o, "clean")' /\ ~Is(c, o, "deleted")'
  BY <1>2, <1>3, <1>4 DEF Pending, Cares, Is
<1>6. ASSUME BannerPart PROVE BannerPart'
  <2>1. FilesHaveOwners'
    <3> SUFFICES ASSUME NEW g \in disk', g # banner.image, cut = {} PROVE \E d \in Change : Cares(d, g)'
      BY <1>1, <1>2 DEF FilesHaveOwners
    <3>1. CASE g \in disk
      BY <1>4, <1>5, <1>6, <3>1, BannerOthers DEF BannerPart, FilesHaveOwners
    <3>2. CASE g = f /\ f # None
      <4>1. req'[c].image = g /\ Pending(c)'
        BY <1>3, <1>4, <1>5, <3>2
      <4>2. Cares(c, g)'
        BY <4>1 DEF Cares
      <4> QED
        BY <4>2
    <3> QED
      BY <1>1, <3>1, <3>2
  <2>2. ImageStands'
    BY <1>1, <1>2, <1>4, <1>5, <1>6, BannerOthers DEF BannerPart, ImageStands
  <2>3. UploadsApart'
    <3>1. ASSUME Pending(c)'
          PROVE  /\ req'[c].image \in disk' /\ req'[c].image # banner'.image
                 /\ \A e \in Change \ {c} : OfBanner(e)' => req'[c].image \notin {req'[e].image, req'[e].row}
      <4>1. req'[c].image = f /\ f # None
        BY <1>3, <1>4, <3>1 DEF Pending
      <4>2. \A e \in Change \ {c} : OfBanner(e)' => OfBanner(e) /\ req'[e].image = req[e].image /\ req'[e].row = req[e].row
        BY <1>4, BannerOthers
      <4> QED
        BY <1>1, <4>1, <4>2 DEF OfBanner
    <3>2. ASSUME NEW d \in Change \ {c}, Pending(d)'
          PROVE  /\ req'[d].image \in disk' /\ req'[d].image # banner'.image
                 /\ \A e \in Change \ {d} : OfBanner(e)' => req'[d].image \notin {req'[e].image, req'[e].row}
      <4>1. Pending(d) /\ OfBanner(d) /\ req'[d].image = req[d].image /\ req[d].image \in disk /\ req[d].image # None
            /\ req[d].image # banner.image
            /\ \A e \in Change \ {d} : OfBanner(e) => req[d].image \notin {req[e].image, req[e].row}
        BY <1>4, <1>6, <3>2, BannerOthers DEF Pending, OfBanner, BannerPart, UploadsApart
      <4>2. \A e \in Change \ {c} : OfBanner(e)' => OfBanner(e) /\ req'[e].image = req[e].image /\ req'[e].row = req[e].row
        BY <1>4, BannerOthers
      <4>3. req'[c].image = f /\ req'[c].row = None /\ req[d].image # f
        BY <1>1, <1>3, <1>4, <4>1
      <4> QED
        BY <1>1, <4>1, <4>2, <4>3
    <3> QED
      BY <3>1, <3>2 DEF UploadsApart
  <2>4. OldFilesGo'
    <3> SUFFICES ASSUME NEW d \in Change, Is(d, "save", "clean")' PROVE req'[d].row \notin {banner'.image, None}
      BY DEF OldFilesGo
    <3>1. d # c /\ Is(d, "save", "clean") /\ OfBanner(d)
      BY <1>4, <1>5, BannerOthers DEF Is, OfBanner
    <3> QED
      BY <1>1, <1>4, <1>6, <3>1, BannerOthers DEF BannerPart, OldFilesGo
  <2>5. RemovedIsGone'
    <3> SUFFICES ASSUME NEW d \in Change, Is(d, "remove", "deleted")' PROVE req'[d].row \notin disk'
      BY DEF RemovedIsGone
    <3>1. d # c /\ Is(d, "remove", "deleted") /\ OfBanner(d)
      BY <1>4, <1>5, BannerOthers DEF Is, OfBanner
    <3>2. req'[d].row = req[d].row /\ req[d].row \notin disk /\ (f # None => req[d].row # f)
      BY <1>1, <1>4, <1>6, <3>1, BannerOthers DEF BannerPart, RemovedIsGone, OfBanner
    <3> QED
      BY <1>1, <3>2
  <2>6. BannerReadings'
    BY <1>1, <1>3, <1>4, <1>6, BannerOthers DEF BannerPart, BannerReadings
  <2> QED
    BY <2>1, <2>2, <2>3, <2>4, <2>5, <2>6 DEF BannerPart
<1>7. disk' \subseteq Image /\ typed' \in 0..MaxTyped
  BY <1>1, SettingsAssumption DEF SettingsInv, SettingsTypeOK
<1>8. /\ UNCHANGED <<topic, judgeVars, mailVars>> /\ banner' = banner /\ crossed' = crossed /\ cut' = cut
      /\ banner \in [image : Image \cup {None}, on : BOOLEAN] /\ crossed \in BOOLEAN /\ cut \subseteq {"save", "remove"}
  BY <1>1, <1>2 DEF SettingsInv, SettingsTypeOK
<1> QED
  BY <1>2, <1>3, <1>4, <1>6, <1>7, <1>8, BannerOnly

\* A step that takes no file and no upload out of its hands.
LEMMA HandsKeep ==
  ASSUME SettingsInv, BannerPart, NEW c \in Change, NEW w \in Requests, MovesTo(c, w),
         UNCHANGED <<banner, disk, cut>>,
         \A f : Cares(c, f) => Cares(c, f)', ~Is(c, "remove", "deleted"), ~Is(c, "remove", "deleted")',
         Pending(c)' => Pending(c) /\ w.image = req[c].image, Is(c, "save", "clean")' => w.row \notin {banner.image, None},
         OfBanner(c)' => /\ w.at \in {"read", "deleted"} /\ w.fresh => w.row = banner.image
                         /\ \A d \in Change \ {c} : Pending(d) => req[d].image \notin {w.image, w.row}
  PROVE  BannerPart'
<1>1. FilesHaveOwners'
  BY BannerOthers DEF BannerPart, FilesHaveOwners
<1>2. ImageStands'
  BY BannerOthers DEF BannerPart, ImageStands
<1>3. UploadsApart'
  <2> SUFFICES ASSUME NEW d \in Change, Pending(d)'
               PROVE  /\ req'[d].image \in disk /\ req'[d].image # banner.image
                      /\ \A e \in Change \ {d} : OfBanner(e)' => req'[d].image \notin {req'[e].image, req'[e].row}
    BY DEF UploadsApart
  <2>1. Pending(d) /\ req'[d].image = req[d].image
    BY BannerOthers DEF Pending, OfBanner, MovesTo
  <2>2. /\ req[d].image \in disk /\ req[d].image # banner.image
        /\ \A e \in Change \ {d} : OfBanner(e) => req[d].image \notin {req[e].image, req[e].row}
    BY <2>1 DEF BannerPart, UploadsApart
  <2>3. \A e \in Change \ {c} : OfBanner(e)' => OfBanner(e) /\ req'[e].image = req[e].image /\ req'[e].row = req[e].row
    BY BannerOthers
  <2>4. d # c /\ OfBanner(c)' => req'[d].image \notin {req'[c].image, req'[c].row}
    BY <2>1 DEF MovesTo
  <2> QED
    BY <2>1, <2>2, <2>3, <2>4
<1>4. OldFilesGo'
  <2> SUFFICES ASSUME NEW d \in Change, Is(d, "save", "clean")' PROVE req'[d].row \notin {banner.image, None}
    BY DEF OldFilesGo
  <2>1. CASE d = c
    BY <2>1 DEF MovesTo
  <2>2. CASE d # c
    <3>1. Is(d, "save", "clean") /\ OfBanner(d)
      BY <2>2, BannerOthers DEF Is, OfBanner
    <3> QED
      BY <2>2, <3>1, BannerOthers DEF BannerPart, OldFilesGo
  <2> QED
    BY <2>1, <2>2
<1>5. RemovedIsGone'
  <2> SUFFICES ASSUME NEW d \in Change, Is(d, "remove", "deleted")' PROVE req'[d].row \notin disk
    BY DEF RemovedIsGone
  <2>1. d # c /\ Is(d, "remove", "deleted") /\ OfBanner(d)
    BY BannerOthers DEF Is, OfBanner
  <2> QED
    BY <2>1, BannerOthers DEF BannerPart, RemovedIsGone
<1>6. BannerReadings'
  <2> SUFFICES ASSUME NEW d \in Change, OfBanner(d)', req'[d].at \in {"read", "deleted"}, req'[d].fresh
               PROVE  req'[d].row = banner.image
    BY DEF BannerReadings
  <2>1. CASE d = c
    BY <2>1 DEF MovesTo
  <2>2. CASE d # c
    BY <2>2, BannerOthers DEF BannerPart, BannerReadings
  <2> QED
    BY <2>1, <2>2
<1> QED
  BY <1>1, <1>2, <1>3, <1>4, <1>5, <1>6 DEF BannerPart

LEMMA RemoveBannerStep ==
  ASSUME SettingsInv, NEW c \in Change, RemoveBanner(c)
  PROVE  SettingsInv'
<1> DEFINE w == [at |-> "sent", op |-> "remove", image |-> None, row |-> None, fresh |-> TRUE]
<1>1. /\ req[c] = Free /\ req' = [req EXCEPT ![c] = w] /\ UNCHANGED <<topic, crossed, cut>>
      /\ UNCHANGED <<bannerVars, judgeVars, mailVars, typed>>
  BY Zenon DEF RemoveBanner, Sends
<1>2. w \in RemoveReq /\ w.op = "remove" /\ w.at = "sent" /\ w.image = None /\ w.row = None
  BY DEF RemoveReq
<1> HIDE DEF w
<1>3. w \in Requests /\ MovesTo(c, w) /\ req'[c] = w
  BY <1>1, <1>2, RequestIs, MovesOne DEF MovesTo, SettingsInv
<1>4. /\ \A f : ~Cares(c, f)
      /\ ~Is(c, "remove", "deleted") /\ ~Is(c, "remove", "deleted")' /\ ~Pending(c)' /\ ~Is(c, "save", "clean")'
  BY <1>1, <1>2, <1>3 DEF Cares, Pending, Is
<1>5. \A d \in Change : Pending(d) => req[d].image # None
  BY DEF Pending
<1>6. BannerPart => BannerPart'
  BY <1>1, <1>2, <1>3, <1>4, <1>5, HandsKeep DEF bannerVars
<1>7. /\ banner' \in [image : Image \cup {None}, on : BOOLEAN] /\ disk' \subseteq Image /\ typed' \in 0..MaxTyped
      /\ crossed' \in BOOLEAN /\ cut' \subseteq {"save", "remove"}
  BY <1>1 DEF bannerVars, SettingsInv, SettingsTypeOK
<1> QED
  BY <1>1, <1>2, <1>3, <1>6, <1>7, BannerOnly


LEMMA ReadBannerStep ==
  ASSUME SettingsInv, NEW c \in Change, ReadBanner(c)
  PROVE  SettingsInv'
<1> DEFINE u == req[c]
           r == [req[c] EXCEPT !.at = "read", !.row = banner.image, !.fresh = TRUE]
           z == [r EXCEPT !.at = "undo"]
           refused == r.op = "save" /\ r.on /\ r.image = None /\ r.row = None
<1>1. /\ Is(c, "save", "sent") \/ Is(c, "remove", "sent")
      /\ UNCHANGED <<topic, typed, crossed, cut>> /\ UNCHANGED <<bannerVars, judgeVars, mailVars>>
      /\ \/ ~refused /\ req' = [req EXCEPT ![c] = r]
         \/ refused /\ req' = [req EXCEPT ![c] = Free]
         \/ r.image # None /\ req' = [req EXCEPT ![c] = z]
  BY Zenon DEF ReadBanner, Goes
<1>2. u \in Requests /\ u # Free /\ u.at = "sent" /\ u.op \in {"save", "remove"} /\ OfBanner(c)
      /\ banner.image \in Image \cup {None}
  BY <1>1 DEF Is, OfBanner, SettingsInv, SettingsTypeOK
<1>3. PICK w \in Requests :
        /\ req' = [req EXCEPT ![c] = w]
        /\ w # Free => /\ w.op = u.op /\ w.image = u.image /\ w.row = banner.image
                       /\ w.at = "read" \/ (w.at = "undo" /\ u.op = "save")
        /\ w = Free => u.image = None
  <2>1. CASE u.op = "save"
    <3>1. u \in SaveReq
      BY <1>2, <2>1, RequestHas
    <3>2. r \in SaveReq /\ r.op = u.op /\ r.image = u.image /\ r.row = banner.image /\ r.at = "read"
      BY <1>2, <3>1 DEF SaveReq
    <3>3. z \in SaveReq /\ z.op = r.op /\ z.image = r.image /\ z.row = r.row /\ z.at = "undo"
      <4> HIDE DEF r
      <4> QED
        BY <3>2 DEF SaveReq
    <3> HIDE DEF r, z
    <3>4. r \in Requests /\ z \in Requests
      BY <3>2, <3>3, RequestIs
    <3>5. CASE refused /\ req' = [req EXCEPT ![c] = Free]
      BY <3>2, <3>5, RequestKinds
    <3>6. CASE req' = [req EXCEPT ![c] = r]
      <4>1. r # Free
        BY <3>2, RequestIs
      <4>2. r \in Requests
        BY <3>4
      <4> WITNESS r \in Requests
      <4> QED
        BY <3>2, <3>6, <4>1
    <3>7. CASE req' = [req EXCEPT ![c] = z]
      <4>1. z # Free
        BY <3>3, RequestIs
      <4>2. z \in Requests
        BY <3>4
      <4> WITNESS z \in Requests
      <4> QED
        BY <2>1, <3>2, <3>3, <3>7, <4>1
    <3> QED
      BY <1>1, <3>5, <3>6, <3>7
  <2>2. CASE u.op = "remove"
    <3>1. u \in RemoveReq
      BY <1>2, <2>2, RequestHas
    <3>2. r \in RemoveReq /\ r.op = u.op /\ r.image = None /\ u.image = None /\ r.row = banner.image /\ r.at = "read"
      BY <1>2, <3>1 DEF RemoveReq
    <3> HIDE DEF r, z
    <3>3. r \in Requests
      BY <3>2, RequestIs
    <3>4. r # Free /\ ~refused /\ r.image = None
      BY <2>2, <3>2, RequestIs
    <3>5. req' = [req EXCEPT ![c] = r]
      BY <1>1, <3>4
    <3> WITNESS r \in Requests
    <3> QED
      BY <3>2, <3>4, <3>5
  <2> QED
    BY <1>2, <2>1, <2>2
<1> HIDE DEF r, z, refused
<1>4. MovesTo(c, w) /\ req'[c] = w
  BY <1>3, MovesOne DEF MovesTo, SettingsInv
<1>5. ~Is(c, "remove", "deleted") /\ ~Is(c, "remove", "deleted")' /\ ~Is(c, "save", "clean")'
      /\ (Pending(c)' <=> Pending(c)) /\ (w # Free => w.image = u.image)
  BY <1>2, <1>3, <1>4 DEF Is, Pending
<1>6. \A f : Cares(c, f) => Cares(c, f)'
  BY <1>2, <1>3, <1>4, <1>5 DEF Cares, Pending, Is
<1>7. ASSUME BannerPart PROVE BannerPart'
  <2>1. \A d \in Change \ {c} : Pending(d) => req[d].image \notin {u.image, banner.image}
    BY <1>2, <1>7 DEF BannerPart, UploadsApart
  <2>2. OfBanner(c)' => /\ w.at \in {"read", "deleted"} /\ w.fresh => w.row = banner.image
                        /\ \A d \in Change \ {c} : Pending(d) => req[d].image \notin {w.image, w.row}
    BY <1>3, <1>4, <2>1 DEF OfBanner
  <2>3. Pending(c)' => Pending(c) /\ w.image = req[c].image
    BY <1>4, <1>5 DEF Pending
  <2> QED
    BY <1>1, <1>3, <1>4, <1>5, <1>6, <1>7, <2>2, <2>3, HandsKeep DEF bannerVars
<1>8. /\ banner' \in [image : Image \cup {None}, on : BOOLEAN] /\ disk' \subseteq Image /\ typed' \in 0..MaxTyped
      /\ crossed' \in BOOLEAN /\ cut' \subseteq {"save", "remove"}
  BY <1>1 DEF bannerVars, SettingsInv, SettingsTypeOK
<1> QED
  BY <1>1, <1>2, <1>3, <1>4, <1>7, <1>8, BannerOnly

LEMMA WriteBannerStep ==
  ASSUME SettingsInv, NEW c \in Change, WriteBanner(c)
  PROVE  SettingsInv'
<1> DEFINE u == req[c]
           i == IF u.image # None THEN u.image ELSE u.row
           clean == [req[c] EXCEPT !.at = "clean"]
           undo == [req[c] EXCEPT !.at = "undo"]
<1>1. Is(c, "save", "read") /\ UNCHANGED <<topic, typed, cut>> /\ UNCHANGED <<disk, judgeVars, mailVars>>
  BY Zenon DEF WriteBanner, Overwrites, Goes
<1>2. \/ /\ req' = Outdating(c, IF Outlived(u) THEN clean ELSE Free) /\ crossed' = (crossed \/ ~u.fresh)
         /\ banner' = [image |-> i, on |-> u.on]
      \/ /\ req' = [req EXCEPT ![c] = IF u.image # None THEN undo ELSE Free]
         /\ UNCHANGED <<crossed, banner>>
  BY Zenon DEF WriteBanner, Overwrites, Goes
<1>3. u \in SaveReq /\ u # Free /\ u.op = "save" /\ u.at = "read" /\ OfBanner(c)
  BY <1>1, RequestHas DEF Is, OfBanner, SettingsInv, SettingsTypeOK
<1>4. /\ clean \in SaveReq /\ clean.at = "clean" /\ clean.image = u.image /\ clean.row = u.row /\ clean.op = "save"
      /\ undo \in SaveReq /\ undo.at = "undo" /\ undo.image = u.image /\ undo.row = u.row /\ undo.op = "save"
  BY <1>3 DEF SaveReq
<1>5. u.image \in Image \cup {None} /\ u.row \in Image \cup {None} /\ u.on \in BOOLEAN /\ u.fresh \in BOOLEAN
  BY <1>3 DEF SaveReq
<1> HIDE DEF clean, undo
<1>6. clean \in Requests /\ undo \in Requests /\ clean # Free /\ undo # Free /\ Free \in Requests
  BY <1>4, RequestIs, RequestKinds
<1>7. disk' \subseteq Image /\ typed' \in 0..MaxTyped /\ cut' \subseteq {"save", "remove"}
      /\ UNCHANGED <<topic, judgeVars, mailVars>>
  BY <1>1 DEF SettingsInv, SettingsTypeOK
<1>8. CASE /\ req' = Outdating(c, IF Outlived(u) THEN clean ELSE Free) /\ crossed' = (crossed \/ ~u.fresh)
           /\ banner' = [image |-> i, on |-> u.on]
  <2>1. PICK w \in Requests : w = IF Outlived(u) THEN clean ELSE Free
    BY <1>6
  <2>2. MovesTo(c, w) /\ req'[c] = w
        /\ \A d \in Change \ {c} : req[d] # Free /\ req[d].at \in {"read", "deleted"} => ~req'[d].fresh
    BY <1>8, <2>1, MovesAll DEF MovesTo, SettingsInv
  <2>3. w # Free => /\ w.op = "save" /\ w.at = "clean" /\ w.image = u.image /\ w.row = u.row
                    /\ u.image # None /\ u.row # None /\ u.row # u.image
    BY <1>4, <2>1 DEF Outlived
  <2>4. w = Free => u.image = None \/ u.row = None \/ u.row = u.image
    BY <1>6, <2>1 DEF Outlived
  <2>5. banner'.image = i /\ banner' \in [image : Image \cup {None}, on : BOOLEAN]
    BY <1>5, <1>8
  <2>6. ~Pending(c)' /\ ~Is(c, "remove", "deleted")' /\ ~Is(c, "remove", "deleted")
        /\ (u.image # None => Pending(c)) /\ ~Is(c, "save", "clean")
    BY <1>3, <2>2, <2>3 DEF Pending, Is
  <2>7. ASSUME BannerPart, u.fresh PROVE BannerPart'
    <3>1. u.row = banner.image
      BY <1>3, <2>7 DEF BannerPart, BannerReadings
    <3>2. u.image # None => /\ u.image \in disk /\ u.image # banner.image
                            /\ \A d \in Change \ {c} : OfBanner(d) => u.image \notin {req[d].image, req[d].row}
      BY <2>6, <2>7 DEF BannerPart, UploadsApart
    <3>3. FilesHaveOwners'
      <4> SUFFICES ASSUME NEW g \in disk, g # i, cut = {} PROVE \E d \in Change : Cares(d, g)'
        BY <1>1, <2>5 DEF FilesHaveOwners
      <4>1. g # None
        BY SettingsAssumption DEF SettingsInv, SettingsTypeOK
      <4>2. CASE g = banner.image
        <5>1. w # Free /\ w.row = g
          BY <2>3, <2>4, <3>1, <4>1, <4>2
        <5>2. Is(c, "save", "clean")' /\ req'[c].row = g
          BY <2>2, <2>3, <5>1 DEF Is
        <5> QED
          BY <5>2 DEF Cares
      <4>3. CASE \E d \in Change : Cares(d, g)
        <5>1. PICK d \in Change : Cares(d, g)
          BY <4>3
        <5>2. d # c
          BY <2>6, <5>1 DEF Cares, Pending
        <5> QED
          BY <2>2, <5>1, <5>2, BannerOthers
      <4> QED
        BY <2>7, <4>2, <4>3 DEF BannerPart, FilesHaveOwners
    <3>4. ImageStands'
      <4>1. CASE u.image # None
        BY <1>1, <2>5, <3>2, <4>1 DEF ImageStands
      <4>2. CASE u.image = None
        <5>1. banner'.image = banner.image
          BY <2>5, <3>1, <4>2
        <5> QED
          BY <1>1, <2>2, <2>6, <2>7, <5>1, BannerOthers DEF BannerPart, ImageStands
      <4> QED
        BY <4>1, <4>2
    <3>5. UploadsApart'
      <4> SUFFICES ASSUME NEW d \in Change, Pending(d)'
                   PROVE  /\ req'[d].image \in disk /\ req'[d].image # i
                          /\ \A e \in Change \ {d} : OfBanner(e)' => req'[d].image \notin {req'[e].image, req'[e].row}
        BY <1>1, <2>5 DEF UploadsApart
      <4>1. d # c /\ Pending(d) /\ req'[d].image = req[d].image
        BY <2>2, <2>6, BannerOthers DEF Pending, OfBanner
      <4>2. /\ req[d].image \in disk /\ req[d].image # banner.image
            /\ \A e \in Change \ {d} : OfBanner(e) => req[d].image \notin {req[e].image, req[e].row}
        BY <2>7, <4>1 DEF BannerPart, UploadsApart
      <4>3. \A e \in Change \ {c} : OfBanner(e)' => OfBanner(e) /\ req'[e].image = req[e].image /\ req'[e].row = req[e].row
        BY <2>2, BannerOthers
      <4>4. OfBanner(c)' => req'[c].image = u.image /\ req'[c].row = u.row
        BY <2>2, <2>3 DEF OfBanner
      <4>5. req[d].image \notin {u.image, u.row}
        BY <1>3, <4>1, <4>2
      <4> QED
        BY <4>1, <4>2, <4>3, <4>4, <4>5
    <3>6. OldFilesGo'
      <4> SUFFICES ASSUME NEW d \in Change, Is(d, "save", "clean")' PROVE req'[d].row \notin {i, None}
        BY <2>5 DEF OldFilesGo
      <4>1. CASE d = c
        BY <2>2, <2>3, <4>1 DEF Is
      <4>2. CASE d # c
        <5>1. Is(d, "save", "clean") /\ OfBanner(d) /\ req'[d].row = req[d].row
          BY <2>2, <4>2, BannerOthers DEF Is, OfBanner
        <5>2. req[d].row \notin {banner.image, None}
          BY <2>7, <5>1 DEF BannerPart, OldFilesGo
        <5> QED
          BY <3>1, <3>2, <4>2, <5>1, <5>2
      <4> QED
        BY <4>1, <4>2
    <3>7. RemovedIsGone'
      <4> SUFFICES ASSUME NEW d \in Change, Is(d, "remove", "deleted")' PROVE req'[d].row \notin disk
        BY <1>1 DEF RemovedIsGone
      <4>1. d # c /\ Is(d, "remove", "deleted") /\ OfBanner(d)
        BY <2>2, <2>6, BannerOthers DEF Is, OfBanner
      <4> QED
        BY <2>2, <2>7, <4>1, BannerOthers DEF BannerPart, RemovedIsGone
    <3>8. BannerReadings'
      BY <2>2, <2>3, BannerOthers DEF BannerReadings, OfBanner
    <3> QED
      BY <3>3, <3>4, <3>5, <3>6, <3>7, <3>8 DEF BannerPart
  <2>8. crossed' \in BOOLEAN /\ (crossed => crossed') /\ (u.fresh \/ crossed')
    BY <1>5, <1>8 DEF SettingsInv, SettingsTypeOK
  <2> QED
    BY <1>7, <2>2, <2>3, <2>5, <2>7, <2>8, BannerOnly
<1>9. CASE /\ req' = [req EXCEPT ![c] = IF u.image # None THEN undo ELSE Free]
           /\ UNCHANGED <<crossed, banner>>
  <2>1. PICK w \in Requests : w = IF u.image # None THEN undo ELSE Free
    BY <1>6
  <2>2. MovesTo(c, w) /\ req'[c] = w
    BY <1>9, <2>1, MovesOne DEF MovesTo, SettingsInv
  <2>3. /\ w # Free => w.op = "save" /\ w.at = "undo" /\ w.image = u.image /\ w.row = u.row
        /\ w = Free => u.image = None
    BY <1>4, <1>6, <2>1
  <2>4. ~Is(c, "remove", "deleted") /\ ~Is(c, "remove", "deleted")' /\ ~Is(c, "save", "clean")' /\ ~Is(c, "save", "clean")
        /\ (Pending(c)' <=> Pending(c)) /\ (Pending(c)' => w.image = req[c].image)
    BY <1>3, <2>2, <2>3 DEF Pending, Is
  <2>5. \A f : Cares(c, f) => Cares(c, f)'
    BY <2>2, <2>4 DEF Cares
  <2>6. ASSUME BannerPart PROVE BannerPart'
    <3>1. \A d \in Change \ {c} : Pending(d) => req[d].image \notin {u.image, u.row}
      BY <1>3, <2>6 DEF BannerPart, UploadsApart
    <3>2. OfBanner(c)' => /\ w.at \in {"read", "deleted"} /\ w.fresh => w.row = banner.image
                          /\ \A d \in Change \ {c} : Pending(d) => req[d].image \notin {w.image, w.row}
      BY <2>2, <2>3, <3>1 DEF OfBanner
    <3> QED
      BY <1>1, <1>9, <2>2, <2>4, <2>5, <2>6, <3>2, HandsKeep
  <2>7. crossed' \in BOOLEAN /\ crossed' = crossed /\ banner' \in [image : Image \cup {None}, on : BOOLEAN]
    BY <1>9 DEF SettingsInv, SettingsTypeOK
  <2> QED
    BY <1>7, <2>2, <2>3, <2>6, <2>7, BannerOnly
<1> QED
  BY <1>2, <1>8, <1>9


LEMMA UnlinkStep ==
  ASSUME SettingsInv, NEW c \in Change, Unlink(c)
  PROVE  SettingsInv'
<1> DEFINE u == req[c]
           x == IF u.at = "undo" THEN u.image ELSE u.row
<1>1. /\ Is(c, "save", "undo") \/ Is(c, "save", "clean")
      /\ disk' = disk \ {x} /\ req' = [req EXCEPT ![c] = Free] /\ UNCHANGED <<topic, typed, crossed, cut>>
      /\ UNCHANGED <<banner, judgeVars, mailVars>>
  BY Zenon DEF Unlink, Goes
<1>2. u # Free /\ u.op = "save" /\ u.at \in {"undo", "clean"} /\ OfBanner(c)
  BY <1>1 DEF Is, OfBanner
<1>3. Free \in Requests /\ MovesTo(c, Free) /\ req'[c] = Free
  BY <1>1, RequestKinds, MovesOne DEF MovesTo, SettingsInv
<1>4. ~OfBanner(c)' /\ ~Pending(c)' /\ (\A o, a : ~Is(c, o, a)') /\ ~Is(c, "remove", "deleted")
  BY <1>2, <1>3 DEF OfBanner, Pending, Is
<1>5. \A g : Cares(c, g) => g = x
  BY <1>2 DEF Cares, Pending, Is
<1>6. x \in {u.image, u.row}
  OBVIOUS
<1>7. ASSUME BannerPart PROVE BannerPart'
  <2>1. x = None \/ x # banner.image
    <3>1. CASE u.at = "undo"
      <4>1. x # None => Pending(c)
        BY <1>2, <3>1 DEF Pending
      <4> QED
        BY <1>7, <3>1, <4>1 DEF BannerPart, UploadsApart
    <3>2. CASE u.at = "clean"
      BY <1>2, <1>7, <3>2 DEF BannerPart, OldFilesGo, Is
    <3> QED
      BY <1>2, <3>1, <3>2
  <2> HIDE DEF x
  <2>2. FilesHaveOwners'
    <3> SUFFICES ASSUME NEW g \in disk', g # banner.image, cut = {} PROVE \E d \in Change : Cares(d, g)'
      BY <1>1 DEF FilesHaveOwners
    <3>1. PICK d \in Change : Cares(d, g)
      BY <1>1, <1>7 DEF BannerPart, FilesHaveOwners
    <3>2. d # c
      BY <1>1, <1>5, <3>1
    <3> QED
      BY <1>3, <3>1, <3>2, BannerOthers
  <2>3. ImageStands'
    BY <1>1, <1>3, <1>4, <1>7, <2>1, BannerOthers DEF BannerPart, ImageStands
  <2>4. UploadsApart'
    <3> SUFFICES ASSUME NEW d \in Change, Pending(d)'
                 PROVE  /\ req'[d].image \in disk' /\ req'[d].image # banner.image
                        /\ \A e \in Change \ {d} : OfBanner(e)' => req'[d].image \notin {req'[e].image, req'[e].row}
      BY <1>1 DEF UploadsApart
    <3>1. d # c /\ Pending(d) /\ req'[d].image = req[d].image
      BY <1>3, <1>4, BannerOthers DEF Pending, OfBanner
    <3>2. /\ req[d].image \in disk /\ req[d].image # banner.image
          /\ \A e \in Change \ {d} : OfBanner(e) => req[d].image \notin {req[e].image, req[e].row}
      BY <1>7, <3>1 DEF BannerPart, UploadsApart
    <3>3. \A e \in Change : OfBanner(e)' => OfBanner(e) /\ req'[e].image = req[e].image /\ req'[e].row = req[e].row
      BY <1>3, <1>4, BannerOthers
    <3>4. req[d].image # x
      BY <1>2, <1>6, <3>1, <3>2
    <3> QED
      BY <1>1, <3>1, <3>2, <3>3, <3>4
  <2>5. OldFilesGo'
    <3> SUFFICES ASSUME NEW d \in Change, Is(d, "save", "clean")' PROVE req'[d].row \notin {banner.image, None}
      BY <1>1 DEF OldFilesGo
    <3>1. d # c /\ Is(d, "save", "clean") /\ OfBanner(d)
      BY <1>3, <1>4, BannerOthers DEF Is, OfBanner
    <3> QED
      BY <1>3, <1>7, <3>1, BannerOthers DEF BannerPart, OldFilesGo
  <2>6. RemovedIsGone'
    <3> SUFFICES ASSUME NEW d \in Change, Is(d, "remove", "deleted")' PROVE req'[d].row \notin disk'
      BY DEF RemovedIsGone
    <3>1. d # c /\ Is(d, "remove", "deleted") /\ OfBanner(d)
      BY <1>3, <1>4, BannerOthers DEF Is, OfBanner
    <3> QED
      BY <1>1, <1>3, <1>7, <3>1, BannerOthers DEF BannerPart, RemovedIsGone
  <2>7. BannerReadings'
    BY <1>1, <1>3, <1>4, <1>7, BannerOthers DEF BannerPart, BannerReadings
  <2> QED
    BY <2>2, <2>3, <2>4, <2>5, <2>6, <2>7 DEF BannerPart
<1>8. /\ banner' \in [image : Image \cup {None}, on : BOOLEAN] /\ disk' \subseteq Image /\ typed' \in 0..MaxTyped
      /\ crossed' \in BOOLEAN /\ cut' \subseteq {"save", "remove"}
  BY <1>1 DEF SettingsInv, SettingsTypeOK
<1> QED
  BY <1>1, <1>3, <1>7, <1>8, BannerOnly

LEMMA UnlinkFirstStep ==
  ASSUME SettingsInv, NEW c \in Change, UnlinkFirst(c)
  PROVE  SettingsInv'
<1> DEFINE u == req[c]
           w == [req[c] EXCEPT !.at = "deleted"]
<1>1. /\ Is(c, "remove", "read") /\ disk' = disk \ {u.row} /\ req' = [req EXCEPT ![c] = w]
      /\ UNCHANGED <<topic, typed, crossed, cut>> /\ UNCHANGED <<banner, judgeVars, mailVars>>
  BY Zenon DEF UnlinkFirst, Goes
<1>2. u \in RemoveReq /\ u # Free /\ u.op = "remove" /\ u.at = "read" /\ OfBanner(c)
  BY <1>1, RequestHas DEF Is, OfBanner, SettingsInv, SettingsTypeOK
<1>3. w \in RemoveReq /\ w.op = "remove" /\ w.at = "deleted" /\ w.image = u.image /\ w.row = u.row /\ w.fresh = u.fresh
  BY <1>2 DEF RemoveReq
<1> HIDE DEF w
<1>4. w \in Requests /\ w # Free /\ MovesTo(c, w) /\ req'[c] = w
  BY <1>1, <1>3, RequestIs, MovesOne DEF MovesTo, SettingsInv
<1>5. ~Pending(c)' /\ ~Is(c, "save", "clean")' /\ Is(c, "remove", "deleted")' /\ \A g : ~Cares(c, g)
  BY <1>2, <1>3, <1>4 DEF Pending, Is, Cares
<1>6. ASSUME BannerPart PROVE BannerPart'
  <2>1. FilesHaveOwners'
    <3> SUFFICES ASSUME NEW g \in disk', g # banner.image, cut = {} PROVE \E d \in Change : Cares(d, g)'
      BY <1>1 DEF FilesHaveOwners
    <3>1. PICK d \in Change : Cares(d, g)
      BY <1>1, <1>6 DEF BannerPart, FilesHaveOwners
    <3> QED
      BY <1>4, <1>5, <3>1, BannerOthers
  <2>2. ImageStands'
    BY <1>5 DEF ImageStands
  <2>3. UploadsApart'
    <3> SUFFICES ASSUME NEW d \in Change, Pending(d)'
                 PROVE  /\ req'[d].image \in disk' /\ req'[d].image # banner.image
                        /\ \A e \in Change \ {d} : OfBanner(e)' => req'[d].image \notin {req'[e].image, req'[e].row}
      BY <1>1 DEF UploadsApart
    <3>1. d # c /\ Pending(d) /\ req'[d].image = req[d].image
      BY <1>4, <1>5, BannerOthers DEF Pending, OfBanner
    <3>2. /\ req[d].image \in disk /\ req[d].image # banner.image
          /\ \A e \in Change \ {d} : OfBanner(e) => req[d].image \notin {req[e].image, req[e].row}
      BY <1>6, <3>1 DEF BannerPart, UploadsApart
    <3>3. \A e \in Change \ {c} : OfBanner(e)' => OfBanner(e) /\ req'[e].image = req[e].image /\ req'[e].row = req[e].row
      BY <1>4, BannerOthers
    <3>4. req'[c].image = u.image /\ req'[c].row = u.row /\ req[d].image \notin {u.image, u.row}
      BY <1>2, <1>3, <1>4, <3>1, <3>2
    <3> QED
      BY <1>1, <3>1, <3>2, <3>3, <3>4
  <2>4. OldFilesGo'
    <3> SUFFICES ASSUME NEW d \in Change, Is(d, "save", "clean")' PROVE req'[d].row \notin {banner.image, None}
      BY <1>1 DEF OldFilesGo
    <3>1. d # c /\ Is(d, "save", "clean") /\ OfBanner(d)
      BY <1>4, <1>5, BannerOthers DEF Is, OfBanner
    <3> QED
      BY <1>4, <1>6, <3>1, BannerOthers DEF BannerPart, OldFilesGo
  <2>5. RemovedIsGone'
    <3> SUFFICES ASSUME NEW d \in Change, Is(d, "remove", "deleted")' PROVE req'[d].row \notin disk'
      BY DEF RemovedIsGone
    <3>1. CASE d = c
      BY <1>1, <1>3, <1>4, <3>1
    <3>2. CASE d # c
      <4>1. Is(d, "remove", "deleted") /\ OfBanner(d)
        BY <1>4, <3>2, BannerOthers DEF Is, OfBanner
      <4> QED
        BY <1>1, <1>4, <1>6, <3>2, <4>1, BannerOthers DEF BannerPart, RemovedIsGone
    <3> QED
      BY <3>1, <3>2
  <2>6. BannerReadings'
    <3>1. req'[c].fresh => req'[c].row = banner.image
      BY <1>2, <1>3, <1>4, <1>6 DEF BannerPart, BannerReadings
    <3> QED
      BY <1>1, <1>4, <1>6, <3>1, BannerOthers DEF BannerPart, BannerReadings
  <2> QED
    BY <2>1, <2>2, <2>3, <2>4, <2>5, <2>6 DEF BannerPart
<1>7. /\ banner' \in [image : Image \cup {None}, on : BOOLEAN] /\ disk' \subseteq Image /\ typed' \in 0..MaxTyped
      /\ crossed' \in BOOLEAN /\ cut' \subseteq {"save", "remove"}
  BY <1>1 DEF SettingsInv, SettingsTypeOK
<1> QED
  BY <1>1, <1>3, <1>4, <1>6, <1>7, BannerOnly

LEMMA ClearBannerStep ==
  ASSUME SettingsInv, NEW c \in Change, ClearBanner(c)
  PROVE  SettingsInv'
<1> DEFINE u == req[c]
<1>1. /\ Is(c, "remove", "deleted") /\ banner' = [image |-> None, on |-> FALSE]
      /\ req' = Outdating(c, Free) /\ crossed' = (crossed \/ ~u.fresh)
      /\ UNCHANGED <<topic, typed, cut>> /\ UNCHANGED <<disk, judgeVars, mailVars>>
  BY Zenon DEF ClearBanner, Overwrites
<1>2. u \in RemoveReq /\ u # Free /\ u.op = "remove" /\ u.at = "deleted" /\ OfBanner(c)
  BY <1>1, RequestHas DEF Is, OfBanner, SettingsInv, SettingsTypeOK
<1>3. u.fresh \in BOOLEAN
  BY <1>2 DEF RemoveReq
<1>4. Free \in Requests /\ MovesTo(c, Free) /\ req'[c] = Free
      /\ \A d \in Change \ {c} : req[d] # Free /\ req[d].at \in {"read", "deleted"} => ~req'[d].fresh
  BY <1>1, RequestKinds, MovesAll DEF MovesTo, SettingsInv
<1>5. ~OfBanner(c)' /\ ~Pending(c)' /\ (\A o, a : ~Is(c, o, a)') /\ \A g : ~Cares(c, g)
  BY <1>2, <1>4 DEF OfBanner, Pending, Is, Cares
<1>6. banner'.image = None /\ banner' \in [image : Image \cup {None}, on : BOOLEAN]
  BY <1>1
<1>7. ASSUME BannerPart, u.fresh PROVE BannerPart'
  <2>1. u.row = banner.image /\ u.row \notin disk
    BY <1>1, <1>2, <1>7 DEF BannerPart, BannerReadings, RemovedIsGone
  <2>2. FilesHaveOwners'
    <3> SUFFICES ASSUME NEW g \in disk, cut = {} PROVE \E d \in Change : Cares(d, g)'
      BY <1>1 DEF FilesHaveOwners
    <3>1. PICK d \in Change : Cares(d, g)
      BY <1>7, <2>1 DEF BannerPart, FilesHaveOwners
    <3> QED
      BY <1>4, <1>5, <3>1, BannerOthers
  <2>3. ImageStands'
    BY <1>6 DEF ImageStands
  <2>4. UploadsApart'
    <3> SUFFICES ASSUME NEW d \in Change, Pending(d)'
                 PROVE  /\ req'[d].image \in disk /\ req'[d].image # None
                        /\ \A e \in Change \ {d} : OfBanner(e)' => req'[d].image \notin {req'[e].image, req'[e].row}
      BY <1>1, <1>6 DEF UploadsApart
    <3>1. d # c /\ Pending(d) /\ req'[d].image = req[d].image /\ req[d].image # None
      BY <1>4, <1>5, BannerOthers DEF Pending, OfBanner
    <3>2. /\ req[d].image \in disk
          /\ \A e \in Change \ {d} : OfBanner(e) => req[d].image \notin {req[e].image, req[e].row}
      BY <1>7, <3>1 DEF BannerPart, UploadsApart
    <3>3. \A e \in Change : OfBanner(e)' => OfBanner(e) /\ req'[e].image = req[e].image /\ req'[e].row = req[e].row
      BY <1>4, <1>5, BannerOthers
    <3> QED
      BY <3>1, <3>2, <3>3
  <2>5. OldFilesGo'
    <3> SUFFICES ASSUME NEW d \in Change, Is(d, "save", "clean")' PROVE req'[d].row # None
      BY <1>6 DEF OldFilesGo
    <3>1. d # c /\ Is(d, "save", "clean") /\ OfBanner(d)
      BY <1>4, <1>5, BannerOthers DEF Is, OfBanner
    <3> QED
      BY <1>4, <1>7, <3>1, BannerOthers DEF BannerPart, OldFilesGo
  <2>6. RemovedIsGone'
    <3> SUFFICES ASSUME NEW d \in Change, Is(d, "remove", "deleted")' PROVE req'[d].row \notin disk
      BY <1>1 DEF RemovedIsGone
    <3>1. d # c /\ Is(d, "remove", "deleted") /\ OfBanner(d)
      BY <1>4, <1>5, BannerOthers DEF Is, OfBanner
    <3> QED
      BY <1>4, <1>7, <3>1, BannerOthers DEF BannerPart, RemovedIsGone
  <2>7. BannerReadings'
    BY <1>4, <1>5, BannerOthers DEF BannerReadings, OfBanner
  <2> QED
    BY <2>2, <2>3, <2>4, <2>5, <2>6, <2>7 DEF BannerPart
<1>8. /\ disk' \subseteq Image /\ typed' \in 0..MaxTyped /\ cut' \subseteq {"save", "remove"}
      /\ crossed' \in BOOLEAN /\ (crossed => crossed') /\ (u.fresh \/ crossed')
  BY <1>1, <1>3 DEF SettingsInv, SettingsTypeOK
<1> QED
  BY <1>1, <1>4, <1>6, <1>7, <1>8, BannerOnly

\* What a request leaves behind that ends halfway is excused by cut.
LEMMA EndsStep ==
  ASSUME SettingsInv, NEW c \in Change, Ends(c)
  PROVE  SettingsInv'
<1>1. /\ req[c] # Free /\ req' = [req EXCEPT ![c] = Free] /\ cut' = cut \cup ({req[c].op} \cap {"save", "remove"})
      /\ UNCHANGED <<topic, typed, crossed, bannerVars, judgeVars, mailVars>>
  BY Zenon DEF Ends
<1>2. Free \in Requests /\ MovesTo(c, Free) /\ req'[c] = Free
  BY <1>1, RequestKinds, MovesOne DEF MovesTo, SettingsInv
<1>3. ~OfBanner(c)' /\ ~Pending(c)' /\ (\A o, a : ~Is(c, o, a)')
  BY <1>2 DEF OfBanner, Pending, Is
<1>4. ASSUME BannerPart PROVE BannerPart'
  <2>1. CASE ~OfBanner(c)
    <3>1. cut' = cut /\ UNCHANGED <<banner, disk>>
      BY <1>1, <2>1 DEF OfBanner, bannerVars
    <3> QED
      BY <1>2, <1>3, <1>4, <2>1, <3>1, BannerKeeps
  <2>2. CASE OfBanner(c)
    <3>1. cut' # {} /\ UNCHANGED <<banner, disk>>
      BY <1>1, <2>2 DEF OfBanner, bannerVars
    <3>2. FilesHaveOwners'
      BY <3>1 DEF FilesHaveOwners
    <3>3. ImageStands'
      <4>1. Is(c, "remove", "deleted") => "remove" \in cut'
        BY <1>1 DEF Is
      <4> QED
        BY <1>1, <1>2, <1>4, <3>1, <4>1, BannerOthers DEF BannerPart, ImageStands
    <3>4. UploadsApart'
      <4> SUFFICES ASSUME NEW d \in Change, Pending(d)'
                   PROVE  /\ req'[d].image \in disk /\ req'[d].image # banner.image
                          /\ \A e \in Change \ {d} : OfBanner(e)' => req'[d].image \notin {req'[e].image, req'[e].row}
        BY <3>1 DEF UploadsApart
      <4>1. d # c /\ Pending(d) /\ req'[d].image = req[d].image
        BY <1>2, <1>3, BannerOthers DEF Pending, OfBanner
      <4>2. \A e \in Change : OfBanner(e)' => OfBanner(e) /\ req'[e].image = req[e].image /\ req'[e].row = req[e].row
        BY <1>2, <1>3, BannerOthers
      <4> QED
        BY <1>4, <4>1, <4>2 DEF BannerPart, UploadsApart
    <3>5. OldFilesGo'
      <4> SUFFICES ASSUME NEW d \in Change, Is(d, "save", "clean")' PROVE req'[d].row \notin {banner.image, None}
        BY <3>1 DEF OldFilesGo
      <4>1. d # c /\ Is(d, "save", "clean") /\ OfBanner(d)
        BY <1>2, <1>3, BannerOthers DEF Is, OfBanner
      <4> QED
        BY <1>2, <1>4, <4>1, BannerOthers DEF BannerPart, OldFilesGo
    <3>6. RemovedIsGone'
      <4> SUFFICES ASSUME NEW d \in Change, Is(d, "remove", "deleted")' PROVE req'[d].row \notin disk
        BY <3>1 DEF RemovedIsGone
      <4>1. d # c /\ Is(d, "remove", "deleted") /\ OfBanner(d)
        BY <1>2, <1>3, BannerOthers DEF Is, OfBanner
      <4> QED
        BY <1>2, <1>4, <4>1, BannerOthers DEF BannerPart, RemovedIsGone
    <3>7. BannerReadings'
      BY <1>2, <1>3, <1>4, <3>1, BannerOthers DEF BannerPart, BannerReadings
    <3> QED
      BY <3>2, <3>3, <3>4, <3>5, <3>6, <3>7 DEF BannerPart
  <2> QED
    BY <2>1, <2>2
<1>5. /\ banner' \in [image : Image \cup {None}, on : BOOLEAN] /\ disk' \subseteq Image /\ typed' \in 0..MaxTyped
      /\ crossed' \in BOOLEAN /\ cut' \subseteq {"save", "remove"}
  BY <1>1 DEF bannerVars, SettingsInv, SettingsTypeOK
<1> QED
  BY <1>1, <1>2, <1>4, <1>5, BannerOnly

LEMMA SettingsInitial == SettingsInit => SettingsInv
<1> SUFFICES ASSUME SettingsInit PROVE SettingsInv
  OBVIOUS
<1>1. \A c \in Change : req[c] = Free
  BY DEF SettingsInit
<1>2. /\ banner.image = None /\ banner \in [image : Image \cup {None}, on : BOOLEAN] /\ disk = {}
      /\ config = last /\ mail.pass = given
      /\ mail \in [stored : BOOLEAN, on : BOOLEAN, pass : Password]
  BY TypedValues DEF SettingsInit
<1>3. BannerPart
  BY <1>1, <1>2 DEF BannerPart, FilesHaveOwners, ImageStands, UploadsApart, OldFilesGo, RemovedIsGone, BannerReadings,
    OfBanner, Pending, Is
<1>4. JudgePart /\ MailPart
  BY <1>1, <1>2 DEF JudgePart, MailPart, Is
<1>5. SettingsTypeOK
  <2>1. config \in [Language -> Value] /\ last \in [Language -> Value] /\ form \in [Language -> Value]
    <3>1. 0 \in Value
      BY TypedValues
    <3> QED
      BY <3>1 DEF SettingsInit
  <2>2. req \in [Change -> Requests]
    <3>1. Free \in Requests
      BY Zenon DEF Requests
    <3>2. req = [c \in Change |-> Free]
      BY Zenon DEF SettingsInit
    <3> QED
      BY ONLY <3>1, <3>2, Zenon
  <2>3. typed \in 0..MaxTyped /\ given \in Password
    BY TypedValues, SettingsAssumption DEF SettingsInit, Password
  <2>4. /\ topic \in {"banner", "judge", "mail"} /\ disk \subseteq Image
        /\ crossed \in BOOLEAN /\ cut \subseteq {"save", "remove"}
    BY DEF SettingsInit
  <2> QED
    BY <1>2, <2>1, <2>2, <2>3, <2>4, Zenon DEF SettingsTypeOK
<1> QED
  BY <1>3, <1>4, <1>5 DEF SettingsInv

LEMMA SettingsStep == SettingsInv /\ [SettingsNext]_settingsVars => SettingsInv'
<1> SUFFICES ASSUME SettingsInv, [SettingsNext]_settingsVars PROVE SettingsInv'
  OBVIOUS
<1>1. CASE UNCHANGED settingsVars
  BY <1>1 DEF settingsVars, SettingsInv, SettingsTypeOK, BannerPart, FilesHaveOwners, ImageStands, UploadsApart,
    OldFilesGo, RemovedIsGone, BannerReadings, OfBanner, Pending, Cares, Is, JudgePart, MailPart
<1>2. ASSUME NEW c \in Change, BannerStep(c) PROVE SettingsInv'
  BY <1>2, SaveBannerStep, RemoveBannerStep, ReadBannerStep, WriteBannerStep, UnlinkStep, UnlinkFirstStep,
    ClearBannerStep DEF BannerStep
<1>3. CASE \E c \in Change : BannerStep(c) \/ JudgeStep(c) \/ MailStep(c) \/ Ends(c)
  BY <1>2, <1>3, JudgeSteps, MailSteps, EndsStep
<1>4. CASE \E l \in Language : TypeCommand(l)
  BY <1>4, TypeCommandStep
<1> QED
  BY <1>1, <1>3, <1>4 DEF SettingsNext

\* Every variable of the settings keeps its type, whatever requests overlap or end halfway.
THEOREM SettingsTyped == SettingsSpec => []SettingsTypeOK
<1>1. SettingsInv => SettingsTypeOK
  BY DEF SettingsInv
<1> QED
  BY <1>1, SettingsInitial, SettingsStep, PTL DEF SettingsSpec

\* Saving a setting changes no other: BannerService.save and remove, JudgeConfigService.update and
\* reset and MailService each write a whole row from a reading, and only a write from an outdated
\* reading, or a banner's request that ended halfway, leaves a file without its row, a row without
\* its file, a language without its command or the mail account without its password.
THEOREM OneSettingAtATime == SettingsSpec => []SettingsHold
<1>1. SettingsInv => SettingsHold
  <2> SUFFICES ASSUME SettingsInv, ~crossed PROVE SettingsHold
    BY DEF SettingsHold
  <2>1. BannerPart /\ JudgePart /\ MailPart
    BY DEF SettingsInv
  <2>2. ASSUME \A c \in Change : req[c] = Free PROVE disk \subseteq {banner.image} \/ cut # {}
    <3>1. \A c \in Change : \A f : ~Cares(c, f)
      BY <2>2 DEF Cares, Pending, Is
    <3> QED
      BY <2>1, <3>1 DEF BannerPart, FilesHaveOwners
  <2> QED
    BY <2>1, <2>2 DEF SettingsHold, NoLeftovers, BannerPart, JudgePart, MailPart
<1> QED
  BY <1>1, SettingsInitial, SettingsStep, PTL DEF SettingsSpec

-----------------------------------------------------------------------------
(***************************************************************************)
(* ProblemDraft.  A text is the number of the key that made it, so a new   *)
(* one is nobody else's: apart are the texts that the browser's copy and   *)
(* the one new tab hold, and those that the server has or will be sent     *)
(* for a draft it has.                                                     *)
(***************************************************************************)

DraftRow == [state : {"none", "draft", "posted"}, text : 0..MaxKeys, cases : 0..MaxKeys,
             only : BOOLEAN]
TabRow == [at : {"away", "own", "admin"}, resume : DraftId, draft : DraftId, form : Form,
           timer : BOOLEAN, job : Job, load : Loading, restored : BOOLEAN, notice : BOOLEAN,
           told : DraftId, kept : Form, alone : BOOLEAN]

\* The draft of a request that changes one exists; a request that writes a text has one; a
\* draft is created by the first button, the other requests but two are the second's.
JobOK(j, ds) ==
  /\ j.stage = "none" => j = NoJob
  /\ j.stage \in {"create", "post", "patch"} => j.body.text # 0
  /\ j.stage = "create" => ~j.submit
  /\ j.stage \in {"post", "publish", "verify"} => j.submit
  /\ j.stage \in {"patch", "put", "publish", "verify"} => j.id # 0 /\ ds[j.id].state # "none"

\* What a page loads and sends is of drafts that exist; while its handler alone writes the
\* draft it was told of, that draft has what the page says is saved, and between the two
\* requests of a save the text of the first.
RowOK(r, ds) ==
  /\ r.draft # 0 => r.resume # 0 /\ ds[r.draft].state # "none"
  /\ r.timer => r.resume = 0
  /\ r.load.stage # "none" => r.resume # 0
  /\ r.resume # 0 => ds[r.resume].state # "none"
  /\ JobOK(r.job, ds)
  /\ r.alone /\ r.job.stage \in {"patch", "put"} => r.job.id = r.told
  /\ r.alone /\ r.notice => /\ r.told # 0 /\ r.job.stage = "none"
                            /\ ds[r.told].text = r.kept.text /\ ds[r.told].cases = r.kept.cases
  /\ r.alone /\ r.job.stage = "put" => ds[r.job.id].text = r.job.body.text

\* The texts that a new tab or the browser's copy holds, and those that the server has, or
\* that pages and handlers hold of its drafts.  A text is named by the key that made it.
IsNew(n) == n = copy.text \/ \E t \in Tab : NewTab(t) /\ n = tab[t].form.text
IsServed(n) ==
  \/ \E d \in 1..MaxDraft : drafts[d].state # "none" /\ n = drafts[d].text
  \/ \E t \in Tab : \/ n = tab[t].load.text
                    \/ ~NewTab(t) /\ n = tab[t].form.text
                    \/ \E j \in Handlers(t) : j.stage = "patch" /\ n = j.body.text

Apart == \A n : IsNew(n) /\ IsServed(n) => n = 0
OneNewTab == \A t, u \in Tab : NewTab(t) /\ NewTab(u) => t = u
\* What is on its way to become a draft is not what a new tab elsewhere shows.
OthersDiffer ==
  \A t, u \in Tab : \A j \in Handlers(t) :
    t # u /\ NewTab(u) /\ Creates(j) => tab[u].form.text # j.body.text

\* No text is of a key not pressed yet.
RowOld(r, k) == r.form.text <= k /\ r.load.text <= k /\ r.job.body.text <= k
TextsOld ==
  /\ copy.text <= keys
  /\ \A d \in 1..MaxDraft : drafts[d].text <= keys
  /\ \A t \in Tab : RowOld(tab[t], keys) /\ \A j \in left[t] : j.body.text <= keys

DraftTypes ==
  /\ admin \in BOOLEAN /\ copy \in Form
  /\ drafts \in [1..MaxDraft -> DraftRow] /\ tab \in [Tab -> TabRow] /\ left \in [Tab -> SUBSET Job]
  /\ keys \in 0..MaxKeys /\ visits \in 0..MaxVisits /\ saves \in 0..MaxSaves
  /\ loose \in BOOLEAN

DraftsKnown ==
  /\ \A d \in 1..MaxDraft : drafts[d].state # "none" => drafts[d].text # 0
  /\ \A t \in Tab : RowOK(tab[t], drafts) /\ \A j \in left[t] : j # NoJob /\ JobOK(j, drafts)

TextsApart == OneNewTab /\ OthersDiffer /\ Apart

DraftInv == /\ DraftTypes /\ DraftsKnown /\ TextsOld
            /\ ~loose => TextsApart

LEMMA DraftTypesAre == ProblemDraftTypeOK <=> DraftTypes
  BY DEF ProblemDraftTypeOK, DraftTypes, DraftRow, TabRow

LEMMA FormHas ==
  /\ Empty \in Form /\ Empty.text = 0
  /\ \A f \in Form : f.text \in 0..MaxKeys /\ f.cases \in 0..MaxKeys
  BY DraftAssumption DEF Form, Empty

LEMMA AwayHas ==
  /\ Away \in TabRow /\ Away.at = "away" /\ Away.resume = 0 /\ Away.draft = 0 /\ Away.form = Empty
  /\ ~Away.timer /\ Away.job = NoJob /\ Away.load = NotLoading /\ ~Away.notice /\ Away.kept = Empty /\ ~Away.alone
  /\ NoJob \in Job /\ NoJob.stage = "none" /\ NoJob.body = Empty /\ NoJob.id = 0
  /\ NotLoading \in Loading /\ NotLoading.stage = "none" /\ NotLoading.text = 0
<1>1. Empty \in Form /\ 0 \in DraftId /\ 0 \in 0..MaxKeys /\ 0 \in 0..MaxSaves
  BY FormHas, DraftAssumption DEF DraftId
<1>2. NoJob \in Job
  BY <1>1 DEF NoJob, Job, Stage
<1>3. NotLoading \in Loading
  BY <1>1 DEF NotLoading, Loading
<1> QED
  BY <1>1, <1>2, <1>3 DEF Away, TabRow, NoJob, NotLoading

LEMMA IdleJob == ASSUME NEW ds PROVE JobOK(NoJob, ds)
  BY AwayHas, FormHas DEF JobOK

LEMMA AwayOK == ASSUME NEW ds PROVE RowOK(Away, ds)
  BY AwayHas, IdleJob DEF RowOK

\* A row and a handler as their fields, for the records that an action makes of them.
LEMMA RowHas ==
  ASSUME NEW r \in TabRow
  PROVE  /\ r.at \in {"away", "own", "admin"} /\ r.resume \in DraftId /\ r.draft \in DraftId
         /\ r.form \in Form /\ r.timer \in BOOLEAN /\ r.job \in Job /\ r.load \in Loading
         /\ r.notice \in BOOLEAN /\ r.told \in DraftId /\ r.kept \in Form /\ r.alone \in BOOLEAN
         /\ r.restored \in BOOLEAN
         /\ r.load.stage \in {"none", "problem", "cases"} /\ r.load.text \in 0..MaxKeys
  BY DEF TabRow, Loading

LEMMA JobHas ==
  ASSUME NEW j \in Job
  PROVE  /\ j.stage \in Stage /\ j.submit \in BOOLEAN /\ j.publish \in BOOLEAN /\ j.body \in Form
         /\ j.id \in DraftId /\ j.n \in 0..MaxSaves /\ j.goes \in BOOLEAN
         /\ j.body.text \in 0..MaxKeys
<1>1. j.body \in Form
  BY DEF Job
<1> QED
  BY <1>1, FormHas DEF Job

LEMMA TabHas ==
  ASSUME DraftInv, NEW t \in Tab
  PROVE  /\ tab[t] \in TabRow /\ RowOK(tab[t], drafts) /\ RowOld(tab[t], keys) /\ left[t] \in SUBSET Job
         /\ keys \in 0..MaxKeys
  BY DEF DraftInv, DraftTypes, DraftsKnown, TextsOld

LEMMA HandlerHas ==
  ASSUME DraftInv, NEW t \in Tab, NEW j \in Handlers(t)
  PROVE  j \in Job /\ j # NoJob /\ j.stage # "none" /\ JobOK(j, drafts) /\ j.body.text <= keys
<1>1. CASE j \in left[t]
  BY <1>1 DEF DraftInv, DraftTypes, DraftsKnown, TextsOld, JobOK
<1>2. CASE j = tab[t].job /\ j # NoJob
  BY <1>2, TabHas, RowHas DEF RowOK, RowOld, JobOK
<1> QED
  BY <1>1, <1>2 DEF Handlers, HandlerOf

LEMMA MountedHas ==
  ASSUME NEW at \in {"own", "admin"}, NEW d \in DraftId, NEW c \in Form, NEW p, p = Mounted(at, d, c)
  PROVE  /\ p \in TabRow /\ p.at = at /\ p.resume = d /\ p.draft = 0 /\ p.job = NoJob /\ p.load.text = 0
         /\ p.timer = (d = 0) /\ p.load.stage = (IF d = 0 THEN "none" ELSE "problem")
         /\ ~p.notice /\ ~p.alone
         /\ p.form.text = 0 \/ (d = 0 /\ p.form = c)
<1>1. c.text \in 0..MaxKeys
  BY FormHas
<1>2. p = [at |-> at, resume |-> d, draft |-> 0,
           form |-> IF d = 0 /\ c.text # 0 THEN c ELSE Empty,
           timer |-> (d = 0), job |-> NoJob,
           load |-> [stage |-> IF d = 0 THEN "none" ELSE "problem", text |-> 0],
           restored |-> (d = 0 /\ c.text # 0), notice |-> FALSE, told |-> 0, kept |-> Empty,
           alone |-> FALSE]
  <2>1. CASE d = 0 /\ c.text # 0
    BY <2>1, Zenon DEF Mounted, Away, NotLoading
  <2>2. CASE ~(d = 0 /\ c.text # 0)
    BY <2>2, Zenon DEF Mounted, Away, NotLoading
  <2> QED
    BY <2>1, <2>2
<1>3. [stage |-> IF d = 0 THEN "none" ELSE "problem", text |-> 0] \in Loading
  BY DraftAssumption DEF Loading
<1>4. p \in TabRow
  BY <1>2, <1>3, AwayHas, FormHas, DraftAssumption DEF TabRow, DraftId
<1> QED
  BY <1>2, <1>4, FormHas

LEMMA MountedOK ==
  ASSUME NEW at \in {"own", "admin"}, NEW d \in DraftId, NEW c \in Form, NEW p, p = Mounted(at, d, c),
         NEW ds, d # 0 => ds[d].state # "none"
  PROVE  RowOK(p, ds)
<1>1. /\ p.resume = d /\ p.draft = 0 /\ p.job = NoJob /\ p.timer = (d = 0) /\ ~p.notice /\ ~p.alone
      /\ p.load.stage = (IF d = 0 THEN "none" ELSE "problem")
  BY MountedHas
<1>2. JobOK(p.job, ds) /\ p.job.stage = "none"
  BY <1>1, IdleJob, AwayHas
<1> QED
  BY <1>1, <1>2 DEF RowOK

-----------------------------------------------------------------------------
\* A step that changes one tab and no draft; its new handlers are given.
LEMMA OneTab ==
  ASSUME DraftInv, NEW t \in Tab, NEW p \in TabRow, tab' = [tab EXCEPT ![t] = p], RowOK(p, drafts),
         left' \in [Tab -> SUBSET Job],
         \A u \in Tab : \A j \in left'[u] :
           j \in left[u] \/ (j # NoJob /\ JobOK(j, drafts) /\ j.body.text <= keys),
         UNCHANGED <<admin, drafts>>, copy' \in Form, copy'.text <= keys',
         keys' \in 0..MaxKeys, keys <= keys', RowOld(p, keys'),
         visits' \in 0..MaxVisits, saves' \in 0..MaxSaves, loose' \in BOOLEAN,
         ~loose' => TextsApart'
  PROVE  DraftInv'
<1>1. \A u \in Tab : tab'[u] = IF u = t THEN p ELSE tab[u]
  BY DEF DraftInv, DraftTypes
<1>2. DraftTypes'
  BY <1>1 DEF DraftInv, DraftTypes
<1>3. DraftsKnown'
  <2>1. \A u \in Tab : RowOK(tab'[u], drafts)
    BY <1>1 DEF DraftInv, DraftsKnown
  <2>2. \A u \in Tab : \A j \in left'[u] : j # NoJob /\ JobOK(j, drafts)
    BY DEF DraftInv, DraftsKnown
  <2> QED
    BY <2>1, <2>2 DEF DraftInv, DraftsKnown
<1>4. TextsOld'
  <2>1. \A d \in 1..MaxDraft : drafts[d].text \in 0..MaxKeys
    BY DEF DraftInv, DraftTypes, DraftRow
  <2>2. ASSUME NEW u \in Tab PROVE RowOld(tab'[u], keys')
    <3>1. CASE u = t
      BY <1>1, <3>1
    <3>2. CASE u # t
      <4>1. RowOld(tab[u], keys) /\ tab[u] \in TabRow /\ tab[u].job \in Job
        BY TabHas, RowHas
      <4>2. /\ tab[u].form.text \in 0..MaxKeys /\ tab[u].load.text \in 0..MaxKeys
            /\ tab[u].job.body.text \in 0..MaxKeys
        BY <4>1, RowHas, FormHas, JobHas
      <4> QED
        BY <1>1, <3>2, <4>1, <4>2, DraftAssumption DEF RowOld, DraftInv, DraftTypes
    <3> QED
      BY <3>1, <3>2
  <2>3. ASSUME NEW u \in Tab, NEW j \in left'[u] PROVE j.body.text <= keys'
    <3>1. j \in Job /\ j.body.text \in 0..MaxKeys
      BY <2>3, JobHas
    <3>2. j.body.text <= keys
      BY <2>3 DEF DraftInv, TextsOld
    <3> QED
      BY <3>1, <3>2, DraftAssumption DEF DraftInv, DraftTypes
  <2> QED
    BY <2>1, <2>2, <2>3, DraftAssumption DEF DraftInv, DraftTypes, TextsOld
<1> QED
  BY <1>2, <1>3, <1>4 DEF DraftInv

\* What tab u is after a step that brings nothing new to it: its texts were its own, or are
\* those of drafts, and what it is to create it was to create before.
Keeps(u) ==
  /\ NewTab(u)' => NewTab(u) /\ tab'[u].form.text \in {0, tab[u].form.text}
  /\ ~NewTab(u)' => tab'[u].form.text = 0 \/ IsServed(tab'[u].form.text)
  /\ tab'[u].load.text = 0 \/ IsServed(tab'[u].load.text)
  /\ \A j \in Handlers(u)' :
       /\ j.stage = "patch" => IsServed(j.body.text)
       /\ Creates(j) => \E i \in Handlers(u) : Creates(i) /\ i.body.text = j.body.text

LEMMA KeepsSame ==
  ASSUME NEW u \in Tab, tab'[u].at = tab[u].at, tab'[u].resume = tab[u].resume,
         tab'[u].form = tab[u].form, tab'[u].load = tab[u].load, tab'[u].job = tab[u].job,
         left'[u] = left[u]
  PROVE  Keeps(u)
<1>1. NewTab(u)' <=> NewTab(u)
  BY DEF NewTab, Here
<1>2. Handlers(u)' = Handlers(u)
  BY DEF Handlers, HandlerOf
<1> QED
  BY <1>1, <1>2 DEF Keeps, IsServed

LEMMA AllKeep ==
  ASSUME DraftInv, TextsApart, \A u \in Tab : Keeps(u), copy'.text = 0 \/ IsNew(copy'.text),
         \A d \in 1..MaxDraft : drafts'[d].state # "none" => IsServed(drafts'[d].text)
  PROVE  TextsApart'
<1>1. OneNewTab'
  BY DEF TextsApart, OneNewTab, Keeps
<1>2. ASSUME NEW n, IsNew(n)', n # 0 PROVE IsNew(n)
  BY <1>2 DEF IsNew, Keeps
<1>3. ASSUME NEW n, IsServed(n)', n # 0 PROVE IsServed(n)
  <2>1. CASE \E d \in 1..MaxDraft : drafts'[d].state # "none" /\ n = drafts'[d].text
    BY <2>1
  <2>2. CASE \E u \in Tab : n = tab'[u].load.text
    BY <1>3, <2>2 DEF Keeps
  <2>3. CASE \E u \in Tab : ~NewTab(u)' /\ n = tab'[u].form.text
    BY <1>3, <2>3 DEF Keeps
  <2>4. CASE \E u \in Tab : \E j \in Handlers(u)' : j.stage = "patch" /\ n = j.body.text
    BY <2>4 DEF Keeps
  <2> QED
    BY <1>3, <2>1, <2>2, <2>3, <2>4 DEF IsServed
<1>4. OthersDiffer'
  <2>1. ASSUME NEW v \in Tab, NEW u \in Tab, NEW j \in Handlers(v)', v # u, NewTab(u)', Creates(j)
        PROVE  tab'[u].form.text # j.body.text
    <3>1. PICK i \in Handlers(v) : Creates(i) /\ i.body.text = j.body.text
      BY <2>1 DEF Keeps
    <3>2. NewTab(u) /\ tab'[u].form.text \in {0, tab[u].form.text}
      BY <2>1 DEF Keeps
    <3>3. i.body.text # 0
      BY <3>1, HandlerHas DEF JobOK, Creates
    <3>4. tab[u].form.text # i.body.text
      BY <2>1, <3>1, <3>2 DEF TextsApart, OthersDiffer
    <3> QED
      BY <3>1, <3>2, <3>3, <3>4
  <2> QED
    BY <2>1 DEF OthersDiffer, Creates
<1> QED
  BY <1>1, <1>2, <1>3, <1>4 DEF TextsApart, Apart

\* The drafts as they are.
LEMMA StoredIsServed == \A d \in 1..MaxDraft : drafts[d].state # "none" => IsServed(drafts[d].text)
  BY DEF IsServed

\* A step that changes one tab, which keeps what it has.
LEMMA OneTabKeeps ==
  ASSUME DraftInv, TextsApart, NEW t \in Tab, NEW p, tab' = [tab EXCEPT ![t] = p], drafts' = drafts,
         \A u \in Tab : u # t => left'[u] = left[u],
         Keeps(t), copy'.text = 0 \/ IsNew(copy'.text)
  PROVE  TextsApart'
<1>1. ASSUME NEW u \in Tab, u # t PROVE Keeps(u)
  <2>1. tab'[u] = tab[u]
    BY <1>1 DEF DraftInv, DraftTypes
  <2> QED
    BY <1>1, <2>1, KeepsSame
<1> QED
  BY <1>1, StoredIsServed, AllKeep

-----------------------------------------------------------------------------
LEMMA DraftInitial == ProblemDraftInit => DraftInv
<1> SUFFICES ASSUME ProblemDraftInit PROVE DraftInv
  OBVIOUS
<1>1. /\ \A t \in Tab : tab[t] = Away /\ left[t] = {}
      /\ keys \in {0, 1} /\ keys \in 0..MaxKeys
  BY DEF ProblemDraftInit
<1>2. \A d \in 1..MaxDraft : drafts[d] = [state |-> IF d <= keys THEN "draft" ELSE "none",
                                          text |-> IF d <= keys THEN d ELSE 0, cases |-> 0, only |-> FALSE]
  BY DEF ProblemDraftInit
<1>3. ASSUME NEW d \in 1..MaxDraft
      PROVE  /\ drafts[d] \in DraftRow /\ drafts[d].text <= keys
             /\ drafts[d].state # "none" => drafts[d].text # 0
  <2>1. PICK s, m : s = (IF d <= keys THEN "draft" ELSE "none") /\ m = (IF d <= keys THEN d ELSE 0)
    OBVIOUS
  <2>2. drafts[d] = [state |-> s, text |-> m, cases |-> 0, only |-> FALSE]
    BY <1>2, <2>1
  <2>3. s \in {"none", "draft", "posted"} /\ m \in 0..MaxKeys /\ m <= keys /\ (s # "none" => m # 0)
    BY <1>1, <2>1, DraftAssumption
  <2> QED
    BY <2>2, <2>3, DraftAssumption DEF DraftRow
<1>4. DraftTypes
  <2>1. drafts \in [1..MaxDraft -> DraftRow]
    BY <1>3 DEF ProblemDraftInit
  <2>2. tab \in [Tab -> TabRow] /\ left \in [Tab -> SUBSET Job]
    BY AwayHas DEF ProblemDraftInit
  <2>3. admin \in BOOLEAN /\ copy \in Form /\ loose \in BOOLEAN
    BY FormHas DEF ProblemDraftInit
  <2>4. visits \in 0..MaxVisits /\ saves \in 0..MaxSaves
    BY DraftAssumption DEF ProblemDraftInit
  <2> QED
    BY <1>1, <2>1, <2>2, <2>3, <2>4 DEF DraftTypes
<1>5. DraftsKnown
  BY <1>1, <1>3, AwayOK DEF DraftsKnown
<1>6. TextsOld
  BY <1>1, <1>3, AwayHas, FormHas, DraftAssumption DEF ProblemDraftInit, TextsOld, RowOld
<1>7. TextsApart
  <2>1. \A t \in Tab : ~NewTab(t)
    BY <1>1, AwayHas DEF NewTab, Here
  <2> QED
    BY <2>1, FormHas DEF ProblemDraftInit, TextsApart, OneNewTab, OthersDiffer, Apart, IsNew
<1> QED
  BY <1>4, <1>5, <1>6, <1>7 DEF DraftInv

\* A tab keeps what it has if its form, its loading and its handlers come from what it had.
LEMMA KeepsTo ==
  ASSUME NEW t \in Tab, NEW p, tab'[t] = p,
         p.at # "away" /\ p.resume = 0 => NewTab(t) /\ p.form.text \in {0, tab[t].form.text},
         ~(p.at # "away" /\ p.resume = 0) => p.form.text = 0 \/ IsServed(p.form.text),
         p.load.text = 0 \/ IsServed(p.load.text),
         \A j \in left'[t] \cup HandlerOf(p) :
           \/ \E i \in Handlers(t) : i.stage = j.stage /\ i.body = j.body
           \/ ~Creates(j) /\ j.stage # "patch"
  PROVE  Keeps(t)
<1>1. NewTab(t)' <=> p.at # "away" /\ p.resume = 0
  BY DEF NewTab, Here
<1>2. Handlers(t)' = left'[t] \cup HandlerOf(p)
  BY DEF Handlers, HandlerOf
<1>3. ASSUME NEW j \in Handlers(t)'
      PROVE  /\ j.stage = "patch" => IsServed(j.body.text)
             /\ Creates(j) => \E i \in Handlers(t) : Creates(i) /\ i.body.text = j.body.text
  <2>1. \/ \E i \in Handlers(t) : i.stage = j.stage /\ i.body = j.body
        \/ ~Creates(j) /\ j.stage # "patch"
    BY <1>2
  <2>2. CASE \E i \in Handlers(t) : i.stage = j.stage /\ i.body = j.body
    BY <2>2 DEF IsServed, Creates
  <2> QED
    BY <2>1, <2>2
<1> QED
  BY <1>1, <1>3 DEF Keeps

LEMMA VisitStep == ASSUME DraftInv, NEW t \in Tab, Visit(t) PROVE DraftInv'
<1>1. PICK at \in {"own", "admin"}, d \in DraftId :
        /\ d # 0 => drafts[d].state = "draft"
        /\ InTab(t, Mounted(at, d, copy))
        /\ loose' = (loose \/ (d = 0 /\ \E u \in Tab \ {t} : Creating(u)))
  BY DEF Visit
<1>2. /\ ~Here(t) /\ visits < MaxVisits /\ visits' = visits + 1
      /\ UNCHANGED <<admin, copy, drafts, left, keys, saves>>
  BY DEF Visit
<1>3. PICK p : p = Mounted(at, d, copy)
  OBVIOUS
<1>4. copy \in Form /\ copy.text <= keys /\ copy.text \in 0..MaxKeys /\ keys \in 0..MaxKeys
  BY FormHas DEF DraftInv, DraftTypes, TextsOld
<1>5. tab' = [tab EXCEPT ![t] = p]
  BY <1>1, <1>3 DEF InTab
<1>6. /\ p \in TabRow /\ RowOK(p, drafts) /\ p.at = at /\ p.resume = d /\ p.job = NoJob /\ p.load.text = 0
      /\ p.form.text = 0 \/ (d = 0 /\ p.form = copy)
  BY <1>1, <1>3, <1>4, MountedHas, MountedOK
<1>7. RowOld(p, keys)
  BY <1>4, <1>6, AwayHas, FormHas DEF RowOld
<1>8. /\ tab'[t] = p /\ HandlerOf(p) = {} /\ left' = left
      /\ \A u \in Tab : u # t => tab'[u] = tab[u] /\ (NewTab(u)' <=> NewTab(u)) /\ Handlers(u)' = Handlers(u)
  BY <1>2, <1>5, <1>6 DEF DraftInv, DraftTypes, HandlerOf, Handlers, NewTab, Here
<1>9. ASSUME ~loose' PROVE TextsApart'
  <2>1. ~loose /\ TextsApart
    BY <1>1, <1>9 DEF DraftInv, DraftTypes
  <2>2. IsNew(copy.text)
    BY DEF IsNew
  <2>3. CASE d # 0
    <3>1. \A j \in left'[t] \cup HandlerOf(p) : \E i \in Handlers(t) : i.stage = j.stage /\ i.body = j.body
      BY <1>8 DEF Handlers
    <3>2. Keeps(t)
      BY <1>6, <1>8, <2>3, <3>1, KeepsTo
    <3> QED
      BY <1>2, <1>5, <2>1, <2>2, <3>2, OneTabKeeps
  <2>4. CASE d = 0
    <3>1. \A u \in Tab : u # t => ~NewTab(u) /\ \A j \in Handlers(u) : ~Creates(j)
      BY <1>1, <1>9, <2>4 DEF Creating, DraftInv, DraftTypes
    <3>2. OneNewTab' /\ OthersDiffer'
      BY <1>8, <3>1 DEF OneNewTab, OthersDiffer, Creates
    <3>3. \A n : IsNew(n)' /\ n # 0 => n = copy.text
      BY <1>2, <1>6, <1>8, <3>1 DEF IsNew
    <3>4. NewTab(t)' /\ Handlers(t)' \subseteq Handlers(t)
      BY <1>6, <1>8, <2>4 DEF NewTab, Here, Handlers
    <3>5. ASSUME NEW n, IsServed(n)', n # 0 PROVE IsServed(n)
      BY <1>2, <1>6, <1>8, <3>4, <3>5 DEF IsServed
    <3> QED
      BY <2>1, <2>2, <3>2, <3>3, <3>5 DEF TextsApart, Apart
  <2> QED
    BY <2>3, <2>4
<1>10. /\ visits' \in 0..MaxVisits /\ saves' \in 0..MaxSaves /\ loose' \in BOOLEAN /\ keys <= keys'
       /\ left' \in [Tab -> SUBSET Job]
  BY <1>1, <1>2, <1>4, DraftAssumption DEF DraftInv, DraftTypes
<1> QED
  BY <1>2, <1>4, <1>5, <1>6, <1>7, <1>9, <1>10, OneTab

\* A tab whose page goes, and whose handlers go on, all of them or what is left of them.
LEMMA GoesStep ==
  ASSUME DraftInv, NEW t \in Tab, NEW L \in SUBSET Job, tab' = [tab EXCEPT ![t] = Away],
         left' = [left EXCEPT ![t] = L],
         \A j \in L : \E i \in Handlers(t) : i.stage = j.stage /\ i.body = j.body /\ i.id = j.id /\ i.submit = j.submit,
         UNCHANGED <<admin, copy, drafts, keys, visits, saves, loose>>
  PROVE  DraftInv'
<1>1. copy \in Form /\ copy.text <= keys /\ keys \in 0..MaxKeys
  BY DEF DraftInv, DraftTypes, TextsOld
<1>2. tab'[t] = Away /\ left'[t] = L /\ (\A u \in Tab : u # t => left'[u] = left[u]) /\ left' \in [Tab -> SUBSET Job]
  BY DEF DraftInv, DraftTypes
<1>3. ASSUME NEW j \in L PROVE j # NoJob /\ JobOK(j, drafts) /\ j.body.text <= keys
  <2>1. PICK i \in Handlers(t) : i.stage = j.stage /\ i.body = j.body /\ i.id = j.id /\ i.submit = j.submit
    OBVIOUS
  <2> QED
    BY <2>1, HandlerHas, AwayHas DEF JobOK
<1>4. RowOld(Away, keys)
  BY <1>1, AwayHas, FormHas DEF RowOld
<1>5. ASSUME ~loose' PROVE TextsApart'
  <2>1. TextsApart
    BY <1>5 DEF DraftInv
  <2>2. Keeps(t)
    BY <1>2, AwayHas, FormHas, KeepsTo DEF HandlerOf
  <2> QED
    BY <1>2, <2>1, <2>2, OneTabKeeps DEF IsNew
<1>6. \A u \in Tab : \A j \in left'[u] : j \in left[u] \/ (j # NoJob /\ JobOK(j, drafts) /\ j.body.text <= keys')
  BY <1>2, <1>3
<1>7. visits' \in 0..MaxVisits /\ saves' \in 0..MaxSaves /\ loose' \in BOOLEAN /\ keys <= keys'
  BY <1>1, DraftAssumption DEF DraftInv, DraftTypes
<1> QED
  BY <1>1, <1>2, <1>4, <1>5, <1>6, <1>7, AwayHas, AwayOK, OneTab

LEMMA HandlersAre == ASSUME DraftInv, NEW t \in Tab PROVE Handlers(t) \in SUBSET Job
  BY HandlerHas

LEMMA CutHas ==
  ASSUME DraftInv, NEW t \in Tab
  PROVE  /\ Cut(t) \in SUBSET Job
         /\ \A j \in Cut(t) : \E i \in Handlers(t) : i.stage = j.stage /\ i.body = j.body /\ i.id = j.id /\ i.submit = j.submit
<1>1. ASSUME NEW j \in Cut(t)
      PROVE  j \in Job /\ \E i \in Handlers(t) : i.stage = j.stage /\ i.body = j.body /\ i.id = j.id /\ i.submit = j.submit
  <2>1. PICK i \in Handlers(t) : j = [i EXCEPT !.goes = FALSE]
    BY DEF Cut
  <2>2. i \in Job
    BY HandlerHas
  <2>3. j \in Job /\ i.stage = j.stage /\ i.body = j.body /\ i.id = j.id /\ i.submit = j.submit
    BY <2>1, <2>2 DEF Job
  <2> QED
    BY <2>3
<1> QED
  BY <1>1

LEMMA LeaveStep == ASSUME DraftInv, NEW t \in Tab, Leave(t) PROVE DraftInv'
  BY HandlersAre, GoesStep DEF Leave, InTab

LEMMA CloseStep == ASSUME DraftInv, NEW t \in Tab, Close(t) PROVE DraftInv'
  BY CutHas, GoesStep DEF Close, InTab

LEMMA DiscardStep == ASSUME DraftInv, NEW t \in Tab, Discard(t) PROVE DraftInv'
<1>1. /\ Here(t) /\ copy' = Empty /\ InTab(t, Mounted(tab[t].at, tab[t].resume, Empty))
      /\ left' = [left EXCEPT ![t] = Cut(t)]
      /\ UNCHANGED <<admin, drafts, keys, visits, saves, loose>>
  BY DEF Discard
<1>2. PICK at, d : at = tab[t].at /\ d = tab[t].resume
  OBVIOUS
<1>3. PICK p : p = Mounted(at, d, Empty)
  OBVIOUS
<1>4. tab' = [tab EXCEPT ![t] = p]
  BY <1>1, <1>2, <1>3 DEF InTab
<1>5. tab[t] \in TabRow /\ RowOK(tab[t], drafts)
  BY TabHas
<1>6. at \in {"own", "admin"} /\ d \in DraftId /\ (d # 0 => drafts[d].state # "none")
  BY <1>1, <1>2, <1>5, RowHas DEF Here, RowOK
<1>7. /\ p \in TabRow /\ RowOK(p, drafts) /\ p.at = at /\ p.resume = d /\ p.job = NoJob /\ p.load.text = 0
      /\ p.form.text = 0
  BY <1>3, <1>6, FormHas, MountedHas, MountedOK
<1>8. keys \in 0..MaxKeys
  BY DEF DraftInv, DraftTypes
<1>9. RowOld(p, keys)
  BY <1>7, <1>8, AwayHas, FormHas DEF RowOld
<1>10. /\ tab'[t] = p /\ left'[t] = Cut(t) /\ (\A u \in Tab : u # t => left'[u] = left[u])
       /\ left' \in [Tab -> SUBSET Job] /\ HandlerOf(p) = {}
  BY <1>1, <1>4, <1>7, CutHas DEF DraftInv, DraftTypes, HandlerOf
<1>11. ASSUME NEW j \in Cut(t) PROVE j # NoJob /\ JobOK(j, drafts) /\ j.body.text <= keys
  <2>1. PICK i \in Handlers(t) : i.stage = j.stage /\ i.body = j.body /\ i.id = j.id /\ i.submit = j.submit
    BY CutHas
  <2> QED
    BY <2>1, HandlerHas, AwayHas DEF JobOK
<1>12. ASSUME ~loose' PROVE TextsApart'
  <2>1. TextsApart
    BY <1>1, <1>12 DEF DraftInv
  <2>2. p.at # "away" /\ p.resume = 0 => NewTab(t)
    BY <1>1, <1>2, <1>7 DEF NewTab
  <2>3. Keeps(t)
    BY <1>7, <1>10, <2>2, CutHas, KeepsTo
  <2> QED
    BY <1>1, <1>4, <1>10, <2>1, <2>3, FormHas, OneTabKeeps
<1>13. \A u \in Tab : \A j \in left'[u] : j \in left[u] \/ (j # NoJob /\ JobOK(j, drafts) /\ j.body.text <= keys')
  BY <1>1, <1>10, <1>11
<1>14. /\ visits' \in 0..MaxVisits /\ saves' \in 0..MaxSaves /\ loose' \in BOOLEAN /\ keys <= keys'
       /\ copy' \in Form /\ copy'.text <= keys'
  BY <1>1, <1>8, FormHas, DraftAssumption DEF DraftInv, DraftTypes
<1> QED
  BY <1>1, <1>4, <1>7, <1>8, <1>9, <1>10, <1>12, <1>13, <1>14, OneTab

LEMMA KeyStep == ASSUME DraftInv, NEW t \in Tab, Key(t) PROVE DraftInv'
<1>1. tab[t] \in TabRow /\ RowOK(tab[t], drafts) /\ RowOld(tab[t], keys)
  BY TabHas
<1>2. /\ keys \in 0..MaxKeys /\ copy \in Form /\ copy.text <= keys /\ copy.text \in 0..MaxKeys
      /\ tab[t].form.text \in 0..MaxKeys /\ tab[t].form.cases \in 0..MaxKeys /\ tab[t].form.only \in BOOLEAN
      /\ tab[t].load.text \in 0..MaxKeys /\ tab[t].job.body.text \in 0..MaxKeys
  BY <1>1, RowHas, FormHas, JobHas DEF DraftInv, DraftTypes, TextsOld, Form
<1>3. /\ Here(t) /\ keys < MaxKeys /\ keys' = keys + 1
      /\ UNCHANGED <<admin, copy, drafts, left, visits, saves, loose>>
  BY DEF Key
<1>4. PICK f \in {[tab[t].form EXCEPT !.text = keys + 1], [tab[t].form EXCEPT !.cases = keys + 1]}
                  \cup (IF admin THEN {[tab[t].form EXCEPT !.only = ~@]} ELSE {}) :
        InTab(t, [tab[t] EXCEPT !.form = f, !.timer = (tab[t].draft = 0 /\ tab[t].resume = 0)])
  BY Zenon DEF Key
<1>5. f \in Form /\ f.text \in {tab[t].form.text, keys + 1}
  <2>1. PICK g : g = tab[t].form
    OBVIOUS
  <2>2. \/ f = [g EXCEPT !.text = keys + 1] \/ f = [g EXCEPT !.cases = keys + 1]
        \/ f = [g EXCEPT !.only = ~@]
    <3>1. CASE admin
      BY <2>1, <3>1, Zenon
    <3>2. CASE ~admin
      BY <2>1, <3>2, Zenon
    <3> QED
      BY <3>1, <3>2
  <2>3. g \in Form /\ keys + 1 \in 0..MaxKeys
    BY <1>1, <1>2, <1>3, <2>1, RowHas, DraftAssumption
  <2> QED
    BY <2>1, <2>2, <2>3 DEF Form
<1>6. PICK p : p = [tab[t] EXCEPT !.form = f, !.timer = (tab[t].draft = 0 /\ tab[t].resume = 0)]
  OBVIOUS
<1>7. tab' = [tab EXCEPT ![t] = p]
  BY <1>4, <1>6 DEF InTab
<1>8. /\ p \in TabRow /\ p.form = f /\ p.timer = (tab[t].draft = 0 /\ tab[t].resume = 0)
      /\ p.at = tab[t].at /\ p.resume = tab[t].resume /\ p.draft = tab[t].draft /\ p.job = tab[t].job
      /\ p.load = tab[t].load /\ p.notice = tab[t].notice /\ p.told = tab[t].told
      /\ p.kept = tab[t].kept /\ p.alone = tab[t].alone
  BY <1>1, <1>5, <1>6 DEF TabRow
<1>9. RowOK(p, drafts)
  BY <1>1, <1>8 DEF RowOK
<1>10. RowOld(p, keys')
  BY <1>1, <1>2, <1>3, <1>5, <1>8, DraftAssumption DEF RowOld
<1>11. ASSUME ~loose' PROVE TextsApart'
  <2>1. TextsApart /\ DraftTypes
    BY <1>3, <1>11 DEF DraftInv
  <2>2. p.at # "away" /\ (p.resume = 0 <=> NewTab(t))
    BY <1>3, <1>8 DEF NewTab, Here
  <2>3. tab'[t] = p /\ left' = left /\ \A u \in Tab : u # t => tab'[u] = tab[u]
    BY <1>3, <1>7, <2>1 DEF DraftTypes
  <2>4. \A u \in Tab : (NewTab(u)' <=> NewTab(u)) /\ Handlers(u)' = Handlers(u)
    BY <1>8, <2>3 DEF NewTab, Here, Handlers, HandlerOf
  <2>5. CASE f.text = tab[t].form.text
    <3>1. ~NewTab(t) => IsServed(p.form.text)
      BY <1>8, <2>5 DEF IsServed
    <3>2. IsServed(p.load.text) /\ IsNew(copy.text)
      BY <1>8 DEF IsServed, IsNew
    <3>3. \A j \in left'[t] \cup HandlerOf(p) : \E i \in Handlers(t) : i.stage = j.stage /\ i.body = j.body
      BY <1>8, <2>3 DEF Handlers, HandlerOf
    <3>4. Keeps(t)
      BY <1>8, <2>2, <2>3, <2>5, <3>1, <3>2, <3>3, KeepsTo
    <3> QED
      BY <1>3, <1>7, <2>1, <2>3, <3>2, <3>4, OneTabKeeps
  <2>6. CASE f.text = keys + 1
    <3>1. ASSUME NEW n, IsNew(n)' PROVE IsNew(n) \/ (n = keys + 1 /\ NewTab(t))
      BY <1>3, <1>8, <2>3, <2>4, <2>6, <3>1 DEF IsNew
    <3>2. ASSUME NEW n, IsServed(n)' PROVE IsServed(n) \/ (n = keys + 1 /\ ~NewTab(t))
      BY <1>3, <1>8, <2>3, <2>4, <2>6, <3>2 DEF IsServed
    <3>3. \A u \in Tab : /\ tab[u].form.text \in 0..MaxKeys /\ tab[u].form.text <= keys
                         /\ tab[u].load.text \in 0..MaxKeys /\ tab[u].load.text <= keys
      BY TabHas, RowHas, FormHas DEF RowOld
    <3>4. \A u \in Tab : \A j \in Handlers(u) : j.body.text \in 0..MaxKeys /\ j.body.text <= keys
      BY HandlerHas, JobHas
    <3>5. \A d \in 1..MaxDraft : drafts[d].text \in 0..MaxKeys /\ drafts[d].text <= keys
      BY DEF DraftInv, DraftTypes, DraftRow, TextsOld
    <3>6. ~IsNew(keys + 1)
      BY <1>2, <3>3, DraftAssumption DEF IsNew
    <3>7. ~IsServed(keys + 1)
      <4>1. \A u \in Tab : /\ keys + 1 \notin {tab[u].load.text, tab[u].form.text}
                           /\ \A j \in Handlers(u) : keys + 1 # j.body.text
        BY <1>2, <3>3, <3>4, DraftAssumption
      <4>2. \A d \in 1..MaxDraft : keys + 1 # drafts[d].text
        BY <1>2, <3>5, DraftAssumption
      <4> QED
        BY <4>1, <4>2 DEF IsServed
    <3>8. ASSUME NEW n, IsNew(n)', IsServed(n)' PROVE n = 0
      <4>1. n # keys + 1
        BY <3>1, <3>2, <3>6, <3>7, <3>8
      <4>2. IsNew(n) /\ IsServed(n)
        BY <3>1, <3>2, <3>8, <4>1
      <4> QED
        BY <2>1, <4>2 DEF TextsApart, Apart
    <3>9. OneNewTab'
      BY <2>1, <2>4 DEF TextsApart, OneNewTab
    <3>10. OthersDiffer'
      <4>1. ASSUME NEW v \in Tab, NEW u \in Tab, NEW j \in Handlers(v)', v # u, NewTab(u)', Creates(j)
            PROVE  tab'[u].form.text # j.body.text
        <5>1. CASE u = t
          BY <1>2, <1>8, <2>3, <2>4, <2>6, <3>4, <4>1, <5>1, DraftAssumption
        <5>2. CASE u # t
          BY <2>1, <2>3, <2>4, <4>1, <5>2 DEF TextsApart, OthersDiffer
        <5> QED
          BY <5>1, <5>2
      <4> QED
        BY <4>1 DEF OthersDiffer, Creates
    <3> QED
      BY <3>8, <3>9, <3>10 DEF TextsApart, Apart
  <2> QED
    BY <1>5, <2>5, <2>6
<1>12. /\ visits' \in 0..MaxVisits /\ saves' \in 0..MaxSaves /\ loose' \in BOOLEAN /\ keys <= keys'
       /\ copy' \in Form /\ copy'.text <= keys' /\ keys' \in 0..MaxKeys /\ left' = left /\ left' \in [Tab -> SUBSET Job]
  BY <1>2, <1>3, DraftAssumption DEF DraftInv, DraftTypes
<1> QED
  BY <1>3, <1>7, <1>8, <1>9, <1>10, <1>11, <1>12, OneTab

LEMMA TimerFiresStep == ASSUME DraftInv, NEW t \in Tab, TimerFires(t) PROVE DraftInv'
<1>1. tab[t] \in TabRow /\ RowOK(tab[t], drafts) /\ RowOld(tab[t], keys)
  BY TabHas
<1>2. /\ Here(t) /\ tab[t].timer /\ InTab(t, [tab[t] EXCEPT !.timer = FALSE]) /\ copy' \in {copy, tab[t].form}
      /\ UNCHANGED <<admin, drafts, left, keys, visits, saves, loose>>
  BY DEF TimerFires
<1>3. PICK p : p = [tab[t] EXCEPT !.timer = FALSE]
  OBVIOUS
<1>4. tab' = [tab EXCEPT ![t] = p]
  BY <1>2, <1>3 DEF InTab
<1>5. /\ p \in TabRow /\ p.form = tab[t].form /\ ~p.timer
      /\ p.at = tab[t].at /\ p.resume = tab[t].resume /\ p.draft = tab[t].draft /\ p.job = tab[t].job
      /\ p.load = tab[t].load /\ p.notice = tab[t].notice /\ p.told = tab[t].told
      /\ p.kept = tab[t].kept /\ p.alone = tab[t].alone
  BY <1>1, <1>3 DEF TabRow
<1>6. RowOK(p, drafts) /\ RowOld(p, keys)
  BY <1>1, <1>5 DEF RowOK, RowOld
<1>7. NewTab(t)
  BY <1>1, <1>2 DEF NewTab, RowOK
<1>8. /\ visits' \in 0..MaxVisits /\ saves' \in 0..MaxSaves /\ loose' \in BOOLEAN /\ keys <= keys'
      /\ copy' \in Form /\ copy'.text <= keys' /\ keys' \in 0..MaxKeys /\ left' = left /\ left' \in [Tab -> SUBSET Job]
  BY <1>1, <1>2, RowHas, DraftAssumption DEF DraftInv, DraftTypes, TextsOld, RowOld
<1>9. ASSUME ~loose' PROVE TextsApart'
  <2>1. TextsApart /\ tab'[t] = p
    BY <1>2, <1>4, <1>9 DEF DraftInv, DraftTypes
  <2>2. IsNew(tab[t].form.text) /\ IsNew(copy.text) /\ IsServed(tab[t].load.text)
    BY <1>7 DEF IsNew, IsServed
  <2>3. \A j \in left'[t] \cup HandlerOf(p) : \E i \in Handlers(t) : i.stage = j.stage /\ i.body = j.body
    BY <1>2, <1>5 DEF Handlers, HandlerOf
  <2>4. Keeps(t)
    BY <1>5, <1>7, <2>1, <2>2, <2>3, KeepsTo DEF NewTab, Here
  <2> QED
    BY <1>2, <1>4, <2>1, <2>2, <2>4, OneTabKeeps
<1> QED
  BY <1>2, <1>4, <1>5, <1>6, <1>8, <1>9, OneTab

LEMMA LoadDraftStep == ASSUME DraftInv, NEW t \in Tab, LoadDraft(t) PROVE DraftInv'
<1>1. tab[t] \in TabRow /\ RowOK(tab[t], drafts) /\ RowOld(tab[t], keys)
  BY TabHas
<1>2. /\ Here(t) /\ tab[t].load.stage # "none" /\ UNCHANGED <<admin, copy, drafts, left, keys, visits, saves, loose>>
  BY DEF LoadDraft
<1>3. /\ tab[t].resume \in 1..MaxDraft /\ drafts[tab[t].resume].state # "none"
      /\ drafts[tab[t].resume] \in DraftRow
  BY <1>1, <1>2, RowHas, DraftAssumption DEF RowOK, DraftId, DraftInv, DraftTypes
<1>4. PICK n, m : n = drafts[tab[t].resume].text /\ m = drafts[tab[t].resume].cases
  OBVIOUS
<1>5. n \in 0..MaxKeys /\ n <= keys /\ m \in 0..MaxKeys /\ IsServed(n)
  BY <1>3, <1>4 DEF DraftRow, DraftInv, TextsOld, IsServed
<1>6. PICK p : /\ \/ p = [tab[t] EXCEPT !.load = NotLoading]
                  \/ p = [tab[t] EXCEPT !.load = [stage |-> "cases", text |-> n]]
                  \/ p = [tab[t] EXCEPT !.load = NotLoading, !.draft = tab[t].resume,
                              !.form.text = tab[t].load.text, !.form.cases = m]
               /\ InTab(t, p)
  BY <1>4 DEF LoadDraft
<1>7. tab' = [tab EXCEPT ![t] = p]
  BY <1>6 DEF InTab
<1>8. /\ p.at = tab[t].at /\ p.resume = tab[t].resume /\ p.timer = tab[t].timer
      /\ p.job = tab[t].job /\ p.notice = tab[t].notice /\ p.told = tab[t].told
      /\ p.kept = tab[t].kept /\ p.alone = tab[t].alone /\ p.restored = tab[t].restored
  BY <1>1, <1>6 DEF TabRow
<1>9. /\ p.load = NotLoading \/ p.load = [stage |-> "cases", text |-> n]
      /\ p.draft \in {tab[t].draft, tab[t].resume}
      /\ p.form = tab[t].form \/ p.form = [tab[t].form EXCEPT !.text = tab[t].load.text, !.cases = m]
  BY <1>1, <1>6 DEF TabRow
<1>10. /\ p.load \in Loading /\ p.load.text \in {0, n}
       /\ p.form \in Form /\ p.form.text \in {tab[t].form.text, tab[t].load.text}
  <2>1. [stage |-> "cases", text |-> n] \in Loading
    BY <1>5 DEF Loading
  <2>2. tab[t].form \in Form /\ tab[t].load.text \in 0..MaxKeys
    BY <1>1, RowHas
  <2>3. p.load \in Loading /\ p.load.text \in {0, n}
    BY <1>9, <2>1, AwayHas
  <2>4. CASE p.form = tab[t].form
    BY <2>2, <2>3, <2>4
  <2>5. CASE p.form = [tab[t].form EXCEPT !.text = tab[t].load.text, !.cases = m]
    <3>1. PICK g, x : g = tab[t].form /\ x = tab[t].load.text
      OBVIOUS
    <3>2. p.form \in Form /\ p.form.text = x
      BY <1>5, <2>2, <2>5, <3>1 DEF Form
    <3> QED
      BY <2>3, <3>1, <3>2
  <2> QED
    BY <1>9, <2>4, <2>5
<1>11. p \in TabRow
  <2>1. p.at \in {"away", "own", "admin"} /\ p.resume \in DraftId /\ p.draft \in DraftId
        /\ p.timer \in BOOLEAN /\ p.job \in Job /\ p.restored \in BOOLEAN
        /\ p.notice \in BOOLEAN /\ p.told \in DraftId /\ p.kept \in Form /\ p.alone \in BOOLEAN
    BY <1>1, <1>8, <1>9, RowHas
  <2>2. p = [at |-> p.at, resume |-> p.resume, draft |-> p.draft, form |-> p.form,
             timer |-> p.timer, job |-> p.job, load |-> p.load, restored |-> p.restored,
             notice |-> p.notice, told |-> p.told, kept |-> p.kept, alone |-> p.alone]
    BY <1>1, <1>6 DEF TabRow
  <2> QED
    BY <1>10, <2>1, <2>2 DEF TabRow
<1>12. RowOK(p, drafts)
  BY <1>1, <1>3, <1>8, <1>9 DEF RowOK
<1>13. keys \in 0..MaxKeys
  BY DEF DraftInv, DraftTypes
<1>14. RowOld(p, keys)
  BY <1>1, <1>5, <1>8, <1>10, <1>13 DEF RowOld
<1>15. ASSUME ~loose' PROVE TextsApart'
  <2>1. TextsApart /\ tab'[t] = p
    BY <1>2, <1>7, <1>15 DEF DraftInv, DraftTypes
  <2>2. ~NewTab(t) /\ p.resume # 0
    BY <1>1, <1>2, <1>8 DEF NewTab, RowOK
  <2>3. IsServed(tab[t].form.text) /\ IsServed(tab[t].load.text) /\ IsNew(copy.text)
    BY <2>2 DEF IsNew, IsServed
  <2>4. \A j \in left'[t] \cup HandlerOf(p) : \E i \in Handlers(t) : i.stage = j.stage /\ i.body = j.body
    BY <1>2, <1>8 DEF Handlers, HandlerOf
  <2>5. p.load.text = 0 \/ IsServed(p.load.text)
    BY <1>5, <1>10
  <2>6. IsServed(p.form.text)
    BY <1>10, <2>3
  <2>7. Keeps(t)
    BY <2>1, <2>2, <2>4, <2>5, <2>6, KeepsTo
  <2> QED
    BY <1>2, <1>7, <2>1, <2>3, <2>7, OneTabKeeps
<1>16. /\ visits' \in 0..MaxVisits /\ saves' \in 0..MaxSaves /\ loose' \in BOOLEAN /\ keys <= keys'
       /\ copy' \in Form /\ copy'.text <= keys' /\ keys' \in 0..MaxKeys /\ left' = left /\ left' \in [Tab -> SUBSET Job]
  BY <1>2, <1>13, DraftAssumption DEF DraftInv, DraftTypes, TextsOld
<1> QED
  BY <1>2, <1>7, <1>11, <1>12, <1>14, <1>15, <1>16, OneTab

\* A press of either button: the row p has the job j for the form that it shows.
LEMMA PressStep ==
  ASSUME DraftInv, NEW t \in Tab, Here(t), tab[t].job = NoJob, tab[t].form.text # 0,
         saves < MaxSaves, saves' = saves + 1, UNCHANGED <<admin, copy, drafts, left, keys, visits, loose>>,
         NEW j \in Job, NEW p, tab' = [tab EXCEPT ![t] = p],
         Creates(j) \/ (j.stage = "patch" /\ tab[t].draft # 0),
         j.body = tab[t].form, j.id = tab[t].draft,
         j.stage = "create" => ~j.submit, j.stage = "post" => j.submit,
         p \in TabRow, p.job = j, p.at = tab[t].at, p.resume = tab[t].resume, p.draft = tab[t].draft,
         p.timer = tab[t].timer, p.load = tab[t].load, p.form = tab[t].form,
         ~p.alone \/ (~p.notice /\ p.told = tab[t].draft)
  PROVE  DraftInv'
<1>1. tab[t] \in TabRow /\ RowOK(tab[t], drafts) /\ RowOld(tab[t], keys)
  BY TabHas
<1>2. JobOK(j, drafts)
  BY <1>1 DEF JobOK, RowOK, Creates
<1>3. RowOK(p, drafts)
  BY <1>1, <1>2 DEF RowOK, Creates
<1>4. RowOld(p, keys)
  BY <1>1 DEF RowOld
<1>5. ASSUME ~loose' PROVE TextsApart'
  <2>1. TextsApart /\ tab'[t] = p /\ (\A u \in Tab : u # t => tab'[u] = tab[u])
    BY <1>5 DEF DraftInv, DraftTypes
  <2>2. \A u \in Tab : NewTab(u)' <=> NewTab(u)
    BY <2>1 DEF NewTab, Here
  <2>3. /\ \A u \in Tab : u # t => Handlers(u)' = Handlers(u)
        /\ Handlers(t)' \subseteq Handlers(t) \cup {j}
    BY <2>1 DEF Handlers, HandlerOf
  <2>4. j.stage = "patch" => ~NewTab(t)
    BY <1>1 DEF NewTab, RowOK, Creates
  <2>5. ASSUME NEW n, IsNew(n)' PROVE IsNew(n)
    BY <2>1, <2>2, <2>5 DEF IsNew
  <2>6. ASSUME NEW n, IsServed(n)' PROVE IsServed(n)
    <3>1. CASE \E d \in 1..MaxDraft : drafts'[d].state # "none" /\ n = drafts'[d].text
      BY <3>1 DEF IsServed
    <3>2. CASE \E u \in Tab : n = tab'[u].load.text \/ (~NewTab(u)' /\ n = tab'[u].form.text)
      BY <2>1, <2>2, <3>2 DEF IsServed
    <3>3. CASE \E u \in Tab : \E i \in Handlers(u)' : i.stage = "patch" /\ n = i.body.text
      <4>1. PICK u \in Tab : \E i \in Handlers(u)' : i.stage = "patch" /\ n = i.body.text
        BY <3>3
      <4>2. PICK i \in Handlers(u)' : i.stage = "patch" /\ n = i.body.text
        BY <4>1
      <4>3. CASE i \in Handlers(u)
        BY <4>2, <4>3 DEF IsServed
      <4>4. CASE u = t /\ i = j
        BY <2>4, <4>2, <4>4 DEF IsServed
      <4> QED
        BY <2>3, <4>3, <4>4
    <3> QED
      BY <2>6, <3>1, <3>2, <3>3 DEF IsServed
  <2>7. OneNewTab'
    BY <2>1, <2>2 DEF TextsApart, OneNewTab
  <2>8. OthersDiffer'
    <3>1. ASSUME NEW v \in Tab, NEW u \in Tab, NEW i \in Handlers(v)', v # u, NewTab(u)', Creates(i)
          PROVE  tab'[u].form.text # i.body.text
      <4>1. NewTab(u) /\ tab'[u].form = tab[u].form
        BY <2>1, <2>2, <3>1
      <4>2. CASE i \in Handlers(v)
        BY <2>1, <3>1, <4>1, <4>2 DEF TextsApart, OthersDiffer
      <4>3. CASE v = t /\ i = j
        <5>1. ~NewTab(t)
          BY <2>1, <3>1, <4>1, <4>3 DEF TextsApart, OneNewTab
        <5>2. IsServed(tab[t].form.text) /\ IsNew(tab[u].form.text)
          BY <4>1, <5>1 DEF IsServed, IsNew
        <5> QED
          BY <2>1, <4>1, <4>3, <5>2 DEF TextsApart, Apart
      <4> QED
        BY <2>3, <3>1, <4>2, <4>3
    <3> QED
      BY <3>1 DEF OthersDiffer, Creates
  <2> QED
    BY <2>1, <2>5, <2>6, <2>7, <2>8 DEF TextsApart, Apart
<1>6. /\ visits' \in 0..MaxVisits /\ saves' \in 0..MaxSaves /\ loose' \in BOOLEAN /\ keys <= keys'
      /\ copy' \in Form /\ copy'.text <= keys' /\ keys' \in 0..MaxKeys /\ left' = left /\ left' \in [Tab -> SUBSET Job]
  BY DraftAssumption DEF DraftInv, DraftTypes, TextsOld
<1> QED
  BY <1>3, <1>4, <1>5, <1>6, OneTab

LEMMA SaveDraftStep == ASSUME DraftInv, NEW t \in Tab, SaveDraft(t) PROVE DraftInv'
<1>1. tab[t] \in TabRow /\ tab[t].form \in Form /\ tab[t].draft \in DraftId
  BY TabHas, RowHas
<1>2. PICK j : j = [stage |-> IF tab[t].draft = 0 THEN "create" ELSE "patch", submit |-> FALSE,
                    publish |-> FALSE, body |-> tab[t].form, id |-> tab[t].draft,
                    n |-> saves + 1, goes |-> TRUE]
  OBVIOUS
<1>3. PICK p : p = [tab[t] EXCEPT !.notice = FALSE, !.told = tab[t].draft, !.kept = Empty, !.alone = TRUE, !.job = j]
  OBVIOUS
<1>4. /\ Here(t) /\ tab[t].job = NoJob /\ saves < MaxSaves /\ tab[t].form.text # 0 /\ saves' = saves + 1
      /\ tab' = [tab EXCEPT ![t] = p] /\ UNCHANGED <<admin, copy, drafts, left, keys, visits, loose>>
  BY <1>2, <1>3 DEF SaveDraft, InTab
<1>5. /\ j \in Job /\ j.stage = (IF tab[t].draft = 0 THEN "create" ELSE "patch")
      /\ j.body = tab[t].form /\ j.id = tab[t].draft /\ ~j.submit
  <2>1. saves + 1 \in 0..MaxSaves
    BY <1>4, DraftAssumption DEF DraftInv, DraftTypes
  <2> QED
    BY <1>1, <1>2, <2>1 DEF Job, Stage
<1>6. /\ p \in TabRow /\ p.job = j /\ p.at = tab[t].at /\ p.resume = tab[t].resume /\ p.draft = tab[t].draft
      /\ p.timer = tab[t].timer /\ p.load = tab[t].load /\ p.form = tab[t].form /\ ~p.notice
      /\ p.told = tab[t].draft
  BY <1>1, <1>3, <1>5, FormHas DEF TabRow
<1> QED
  BY <1>4, <1>5, <1>6, PressStep DEF Creates

LEMMA SubmitStep == ASSUME DraftInv, NEW t \in Tab, Submit(t) PROVE DraftInv'
<1>1. tab[t] \in TabRow /\ tab[t].form \in Form /\ tab[t].draft \in DraftId
  BY TabHas, RowHas
<1>2. PICK publish \in {FALSE, admin} :
        InTab(t, [tab[t] EXCEPT !.told = 0, !.kept = Empty, !.alone = FALSE,
                   !.job = [stage |-> IF tab[t].draft = 0 THEN "post" ELSE "patch", submit |-> TRUE,
                            publish |-> publish, body |-> tab[t].form, id |-> tab[t].draft,
                            n |-> saves + 1, goes |-> TRUE]])
  BY Zenon DEF Submit
<1>3. PICK j : j = [stage |-> IF tab[t].draft = 0 THEN "post" ELSE "patch", submit |-> TRUE,
                    publish |-> publish, body |-> tab[t].form, id |-> tab[t].draft,
                    n |-> saves + 1, goes |-> TRUE]
  OBVIOUS
<1>4. PICK p : p = [tab[t] EXCEPT !.told = 0, !.kept = Empty, !.alone = FALSE, !.job = j]
  OBVIOUS
<1>5. /\ Here(t) /\ tab[t].job = NoJob /\ saves < MaxSaves /\ tab[t].form.text # 0 /\ saves' = saves + 1
      /\ UNCHANGED <<admin, copy, drafts, left, keys, visits, loose>>
  BY DEF Submit
<1>6. tab' = [tab EXCEPT ![t] = p]
  BY <1>2, <1>3, <1>4 DEF InTab
<1>7. /\ j \in Job /\ j.stage = (IF tab[t].draft = 0 THEN "post" ELSE "patch")
      /\ j.body = tab[t].form /\ j.id = tab[t].draft /\ j.submit
  <2>1. publish \in BOOLEAN
    BY <1>2 DEF DraftInv, DraftTypes
  <2>2. saves + 1 \in 0..MaxSaves
    BY <1>5, DraftAssumption DEF DraftInv, DraftTypes
  <2> QED
    BY <1>1, <1>3, <2>1, <2>2 DEF Job, Stage
<1>8. /\ p \in TabRow /\ p.job = j /\ p.at = tab[t].at /\ p.resume = tab[t].resume /\ p.draft = tab[t].draft
      /\ p.timer = tab[t].timer /\ p.load = tab[t].load /\ p.form = tab[t].form /\ ~p.alone
  <2>1. 0 \in DraftId /\ Empty \in Form
    BY FormHas, DraftAssumption DEF DraftId
  <2> QED
    BY <1>1, <1>4, <1>7, <2>1 DEF TabRow
<1> QED
  BY <1>5, <1>6, <1>7, <1>8, PressStep DEF Creates

-----------------------------------------------------------------------------
(* What a request does to the drafts, and its answer to the tab.           *)

\* What a request of j makes of draft id, which it creates or which exists.
LEMMA EffectHas ==
  ASSUME DraftTypes, DraftsKnown, NEW j \in Job, JobOK(j, drafts), j # NoJob, NEW id \in 1..MaxDraft,
         ~Creates(j) => id = j.id
  PROVE  /\ Effect(j) \in DraftRow /\ Effect(j).state # "none" /\ Effect(j).text # 0
         /\ j.stage \in {"create", "post", "patch"} => Effect(j).text = j.body.text
         /\ j.stage \in {"create", "put"} => Effect(j).cases = j.body.cases
         /\ j.stage \notin {"create", "post", "patch"} => Effect(j).text = drafts[id].text
<1>1. j.body \in Form /\ j.stage \in Stage
  BY JobHas
<1>2. j.body.text \in 0..MaxKeys /\ j.body.cases \in 0..MaxKeys /\ j.body.only \in BOOLEAN
  BY <1>1 DEF Form
<1>3. drafts[id] \in DraftRow /\ admin \in BOOLEAN
  BY DEF DraftTypes
<1>4. CASE Creates(j)
  <2>1. Effect(j) = [state |-> IF j.stage = "post" THEN "posted" ELSE "draft", text |-> j.body.text,
                     cases |-> j.body.cases, only |-> admin /\ j.body.only]
    BY <1>4 DEF Effect, Creates
  <2> QED
    BY <1>2, <1>3, <1>4, <2>1 DEF DraftRow, JobOK, Creates
<1>5. CASE j.stage \in {"patch", "put", "publish", "verify"}
  <2>1. ~Creates(j) /\ id = j.id /\ drafts[id].state # "none" /\ drafts[id].text # 0
    BY <1>5 DEF JobOK, DraftsKnown, Creates
  <2>2. CASE j.stage = "patch"
    <3>1. PICK b : b = (IF admin THEN j.body.only ELSE drafts[id].only)
      OBVIOUS
    <3>2. Effect(j) = [drafts[id] EXCEPT !.text = j.body.text, !.only = b]
      BY <1>3, <2>1, <2>2, <3>1 DEF Effect, DraftRow
    <3> QED
      BY <1>2, <1>3, <2>1, <2>2, <3>1, <3>2 DEF DraftRow, JobOK
  <2>3. CASE j.stage = "put"
    <3>1. Effect(j) = [drafts[id] EXCEPT !.cases = j.body.cases]
      BY <2>1, <2>3 DEF Effect
    <3> QED
      BY <1>2, <1>3, <2>1, <2>3, <3>1 DEF DraftRow
  <2>4. CASE j.stage \in {"publish", "verify"}
    <3>1. Effect(j) = [drafts[id] EXCEPT !.state = "posted"]
      BY <2>1, <2>4 DEF Effect
    <3> QED
      BY <1>3, <2>1, <2>4, <3>1 DEF DraftRow
  <2> QED
    BY <1>5, <2>2, <2>3, <2>4
<1> QED
  BY <1>1, <1>4, <1>5 DEF JobOK, Stage, Creates

\* The draft a request is about: a new one, or its own.
LEMMA AboutHas ==
  ASSUME NEW j \in Job, JobOK(j, drafts), j # NoJob, Admits(j)
  PROVE  About(j) \in 1..MaxDraft /\ (~Creates(j) => About(j) = j.id)
<1>1. CASE Creates(j)
  <2>1. NextId \in Unused
    BY <1>1 DEF NextId, Admits
  <2> QED
    BY <1>1, <2>1 DEF About, Unused
<1>2. CASE ~Creates(j)
  <2>1. j.id \in DraftId /\ j.stage \in Stage
    BY JobHas
  <2> QED
    BY <1>2, <2>1, DraftAssumption DEF About, JobOK, Stage, DraftId, Creates
<1> QED
  BY <1>1, <1>2

\* The request that follows one about draft id.
LEMMA AfterHas ==
  ASSUME NEW j \in Job, j # NoJob, NEW ds, NEW id \in 1..MaxDraft, ds[id].state # "none", ~Creates(j) => id = j.id,
         JobOK(j, ds), NEW i, i = After(j, id), i # NoJob
  PROVE  /\ i \in Job /\ JobOK(i, ds) /\ i.stage \in {"put", "publish", "verify"}
         /\ i.body.text \in {0, j.body.text} /\ i.id = id
         /\ i.stage = "put" => j.stage = "patch" /\ i.body = j.body
         /\ i.stage = "put" \/ (j.stage = "post" /\ j.publish) \/ (j.stage = "put" /\ j.submit)
<1>1. j.stage \in Stage /\ j.body \in Form /\ id \in DraftId /\ id # 0 /\ Empty \in Form /\ Empty.text = 0
  BY JobHas, FormHas, DraftAssumption DEF DraftId
<1>2. CASE j.stage = "patch"
  <2>1. i = [j EXCEPT !.stage = "put"]
    BY <1>2 DEF After, Halfway
  <2>2. i \in Job /\ i.stage = "put" /\ i.body = j.body /\ i.id = j.id
    BY <1>1, <2>1 DEF Job, Stage
  <2> QED
    BY <1>1, <1>2, <2>2, AwayHas DEF JobOK, Creates
<1>3. CASE j.stage = "put" /\ j.submit /\ (j.publish \/ ~admin)
  <2>1. PICK s : s \in {"publish", "verify"} /\ s = (IF admin THEN "publish" ELSE "verify")
    OBVIOUS
  <2>2. i = [j EXCEPT !.stage = s, !.body = Empty]
    BY <1>3, <2>1 DEF After, Halfway
  <2>3. i \in Job /\ i.stage = s /\ i.body = Empty /\ i.id = j.id /\ i.submit = j.submit
    BY <1>1, <2>1, <2>2 DEF Job, Stage
  <2> QED
    BY <1>1, <1>3, <2>1, <2>3, AwayHas DEF JobOK, Creates
<1>4. CASE j.stage = "post" /\ j.publish
  <2>1. i = [j EXCEPT !.stage = "publish", !.id = id, !.body = Empty]
    BY <1>4 DEF After, Halfway
  <2>2. i \in Job /\ i.stage = "publish" /\ i.body = Empty /\ i.id = id /\ i.submit = j.submit
    BY <1>1, <2>1 DEF Job, Stage
  <2> QED
    BY <1>1, <1>4, <2>2, AwayHas DEF JobOK, Creates
<1>5. CASE ~(j.stage = "patch") /\ ~(j.stage = "put" /\ j.submit /\ (j.publish \/ ~admin)) /\ ~(j.stage = "post" /\ j.publish)
  BY <1>5 DEF After, Halfway
<1> QED
  BY <1>2, <1>3, <1>4, <1>5

\* The tab's row r becomes q, ds being the drafts that the request of j has left.
ShowsNew(r) == r.at # "away" /\ r.resume = 0
TurnsTo(r, q, j, ds) ==
  /\ q \in TabRow /\ RowOK(q, ds)
  /\ q.form \in {Empty, r.form} /\ q.load.text \in {0, r.load.text}
  /\ ShowsNew(q) => ShowsNew(r) /\ (Creates(j) => j.stage = "post" /\ j.publish)
  /\ ~ShowsNew(q) => q.form = Empty \/ ~ShowsNew(r) \/ j.stage = "create"

LEMMA ResumedHas ==
  ASSUME NEW r \in TabRow, r.at = "own", NEW id \in DraftId, id # 0, NEW q, q = Resumed(r, id)
  PROVE  /\ q \in TabRow /\ q.at = r.at /\ q.resume = id /\ q.draft = r.draft /\ q.form = r.form /\ ~q.timer
         /\ q.job = r.job /\ q.load.stage = "problem" /\ q.load.text = 0 /\ q.notice = r.notice
         /\ q.told = r.told /\ q.kept = r.kept /\ q.alone = r.alone
<1>1. PICK ld : ld = [stage |-> "problem", text |-> 0]
  OBVIOUS
<1>2. ld \in Loading /\ ld.stage = "problem" /\ ld.text = 0
  BY <1>1, DraftAssumption DEF Loading
<1>3. q = [r EXCEPT !.resume = id, !.timer = FALSE, !.load = ld]
  BY <1>1 DEF Resumed
<1> QED
  BY <1>2, <1>3 DEF TabRow

LEMMA MountsTo ==
  ASSUME NEW r \in TabRow, NEW id \in DraftId, id # 0, NEW ds, ds[id].state # "none", NEW j,
         NEW q, q = Mounted("own", id, Empty)
  PROVE  TurnsTo(r, q, j, ds) /\ q.job = NoJob
<1>1. /\ q \in TabRow /\ q.resume = id /\ q.job = NoJob /\ q.load.text = 0 /\ RowOK(q, ds)
  BY FormHas, MountedHas, MountedOK
<1>2. q.form = Empty
  BY DEF Mounted, Away, NotLoading
<1> QED
  BY <1>1, <1>2 DEF TurnsTo, ShowsNew

LEMMA AwayTurns == ASSUME NEW r, NEW j, NEW ds PROVE TurnsTo(r, Away, j, ds)
  BY AwayHas, AwayOK DEF TurnsTo, ShowsNew

\* A row in which only the handler and what the page says of its save are others.
LEMMA JobTurns ==
  ASSUME NEW r \in TabRow, NEW j, NEW ds, RowOK(r, ds), NEW q \in TabRow, RowOK(q, ds),
         q.form = r.form, q.load = r.load, q.at = r.at, q.resume = r.resume,
         Creates(j) => j.stage = "post" /\ j.publish
  PROVE  TurnsTo(r, q, j, ds)
  BY DEF TurnsTo, ShowsNew

\* The last request of a handler, the one before it, and the answers that a page waits for.
LEMMA NextRequest ==
  ASSUME NEW j \in Job, NEW ds, JobOK(j, ds), j # NoJob, NEW id
  PROVE  /\ j.stage \in {"create", "post", "patch", "put", "publish", "verify"}
         /\ j.stage = "patch" => After(j, id) # NoJob
         /\ j.stage = "create" => After(j, id) = NoJob /\ ~Leaves(j, id)
         /\ j.stage = "post" => Leaves(j, id) \/ j.publish
         /\ ~Creates(j) /\ ~j.submit /\ ~Halfway(j) => j.stage = "put" /\ After(j, id) = NoJob /\ ~Leaves(j, id)
         /\ Leaves(j, id) => j.submit
<1>1. j.stage \in Stage /\ j.stage # "none"
  BY JobHas DEF JobOK
<1>2. j.stage = "patch" => After(j, id) # NoJob
  <2>1. ASSUME j.stage = "patch" PROVE After(j, id).stage = "put"
    <3>1. After(j, id) = [j EXCEPT !.stage = "put"]
      BY <2>1 DEF After, Halfway
    <3> QED
      BY <3>1 DEF Job
  <2> QED
    BY <2>1, AwayHas
<1>3. j.stage = "create" => After(j, id) = NoJob /\ ~Leaves(j, id)
  BY DEF After, Halfway, Leaves, JobOK
<1>4. j.stage = "post" => Leaves(j, id) \/ j.publish
  BY DEF After, Halfway, Leaves, JobOK
<1>5. ~Creates(j) /\ ~j.submit /\ ~Halfway(j) => j.stage = "put" /\ After(j, id) = NoJob /\ ~Leaves(j, id)
  BY <1>1 DEF After, Halfway, Leaves, JobOK, Creates, Stage
<1> QED
  BY <1>1, <1>2, <1>3, <1>4, <1>5 DEF Leaves, Stage

LEMMA AnswerHas ==
  ASSUME NEW r \in TabRow, NEW ds, NEW id \in 1..MaxDraft, ds[id].state # "none", NEW j, j = r.job, j # NoJob,
         RowOK(r, ds), ~Creates(j) => id = j.id,
         j.stage \in {"create", "patch"} => ds[id].text = j.body.text,
         j.stage \in {"create", "put"} => ds[id].cases = j.body.cases,
         NEW q, q = Answered(r, j, id)
  PROVE  TurnsTo(r, q, j, ds) /\ q.job \in {NoJob, After(j, id)}
<1>1. /\ j \in Job /\ j.stage \in Stage /\ j.body \in Form /\ id \in DraftId /\ id # 0 /\ r.form \in Form
      /\ j.submit \in BOOLEAN /\ j.stage # "none" /\ JobOK(j, ds)
  BY RowHas, JobHas, DraftAssumption DEF DraftId, RowOK, JobOK
<1>4. /\ j.stage \in {"create", "post", "patch", "put", "publish", "verify"}
      /\ j.stage = "patch" => After(j, id) # NoJob
      /\ j.stage = "create" => After(j, id) = NoJob /\ ~Leaves(j, id)
      /\ j.stage = "post" => Leaves(j, id) \/ j.publish
      /\ ~Creates(j) /\ ~j.submit /\ ~Halfway(j) => j.stage = "put" /\ After(j, id) = NoJob /\ ~Leaves(j, id)
      /\ Leaves(j, id) => j.submit
  BY <1>1, NextRequest
<1>2. CASE j.stage = "create" /\ r.at # "own"
  <2>1. q = Mounted("own", id, Empty)
    BY <1>2, <1>4 DEF Answered, Resumed
  <2> QED
    BY <1>1, <2>1, MountsTo
<1>3. CASE j.stage = "create" /\ r.at = "own"
  <2>1. PICK w : w = Resumed(r, id)
    OBVIOUS
  <2>2. /\ w \in TabRow /\ w.at = r.at /\ w.resume = id /\ w.form = r.form /\ ~w.timer
        /\ w.load.stage = "problem" /\ w.load.text = 0
    BY <1>1, <1>3, <2>1, ResumedHas
  <2>3. q = [w EXCEPT !.draft = id, !.job = NoJob, !.notice = TRUE, !.told = id, !.kept = j.body]
    BY <1>3, <1>4, <2>1, Zenon DEF Answered
  <2>4. PICK b : b = j.body
    OBVIOUS
  <2>5. /\ q \in TabRow /\ q.at = w.at /\ q.resume = w.resume /\ q.draft = id /\ q.form = w.form
        /\ q.timer = w.timer /\ q.job = NoJob /\ q.load = w.load /\ q.told = id /\ q.kept = b
    <3>1. PICK v : v = [w EXCEPT !.draft = id, !.told = id, !.kept = b]
      OBVIOUS
    <3>2. /\ v \in TabRow /\ v.at = w.at /\ v.resume = w.resume /\ v.draft = id /\ v.form = w.form
          /\ v.timer = w.timer /\ v.load = w.load /\ v.told = id /\ v.kept = b
      BY <1>1, <2>2, <2>4, <3>1 DEF TabRow
    <3>4. NoJob \in Job
      BY AwayHas
    <3>3. q = [v EXCEPT !.job = NoJob, !.notice = TRUE]
      BY <2>3, <2>4, <3>1, <2>2 DEF TabRow
    <3> QED
      BY <3>2, <3>3, <3>4 DEF TabRow
  <2>6. RowOK(q, ds)
    BY <1>1, <1>3, <2>2, <2>4, <2>5, AwayHas, IdleJob DEF RowOK
  <2> QED
    BY <1>1, <1>3, <2>2, <2>5, <2>6 DEF TurnsTo, ShowsNew
<1>5. CASE Leaves(j, id)
  <2>1. q = Away
    BY <1>4, <1>5 DEF Answered
  <2> QED
    BY <2>1, AwayTurns, AwayHas
<1>6. CASE ~Creates(j) /\ ~j.submit /\ ~Halfway(j)
  <2>1. q = [r EXCEPT !.job = NoJob, !.notice = TRUE, !.kept = j.body]
    BY <1>4, <1>6 DEF Answered
  <2>2. PICK b : b = j.body
    OBVIOUS
  <2>3. /\ q \in TabRow /\ q.job = NoJob /\ q.at = r.at /\ q.resume = r.resume /\ q.draft = r.draft
        /\ q.form = r.form /\ q.timer = r.timer /\ q.load = r.load /\ q.kept = b /\ q.told = r.told
        /\ q.alone = r.alone
    BY <1>1, <2>1, <2>2, AwayHas DEF TabRow
  <2>4. RowOK(q, ds)
    BY <1>1, <1>4, <1>6, <2>2, <2>3, AwayHas, IdleJob DEF RowOK, JobOK
  <2> QED
    BY <1>6, <2>3, <2>4, JobTurns
<1>7. CASE j.stage # "create" /\ ~Leaves(j, id) /\ (Creates(j) \/ j.submit \/ Halfway(j))
  <2>1. PICK i : i = After(j, id)
    OBVIOUS
  <2>2. q = [r EXCEPT !.job = i]
    BY <1>7, <2>1 DEF Answered
  <2>3. i # NoJob
    BY <1>1, <1>4, <1>7, <2>1 DEF Leaves, Creates, Halfway, JobOK
  <2>4. /\ i \in Job /\ JobOK(i, ds) /\ i.stage \in {"put", "publish", "verify"} /\ i.id = id
        /\ i.stage = "put" => j.stage = "patch" /\ i.body = j.body
    BY <1>1, <2>1, <2>3, AfterHas
  <2>5. /\ q \in TabRow /\ q.job = i /\ q.at = r.at /\ q.resume = r.resume /\ q.draft = r.draft
        /\ q.form = r.form /\ q.timer = r.timer /\ q.load = r.load /\ q.kept = r.kept /\ q.told = r.told
        /\ q.alone = r.alone /\ q.notice = r.notice
    BY <2>2, <2>4 DEF TabRow
  <2>6. RowOK(q, ds)
    BY <1>1, <2>4, <2>5 DEF RowOK, Creates
  <2> QED
    BY <1>4, <1>7, <2>1, <2>5, <2>6, JobTurns DEF Creates
<1> QED
  BY <1>2, <1>3, <1>5, <1>6, <1>7

\* What is left in the tab of a handler left behind: its own answer moves another page only.
LEMMA OvertakenHas ==
  ASSUME NEW r \in TabRow, NEW ds, NEW id \in 1..MaxDraft, ds[id].state # "none", RowOK(r, ds),
         NEW j \in Job, j # NoJob, JobOK(j, ds), NEW q, q = Overtaken(r, j, id)
  PROVE  TurnsTo(r, q, j, ds) /\ q.job \in {NoJob, r.job}
<1>1. id \in DraftId /\ id # 0
  BY DraftAssumption DEF DraftId
<1>2. /\ j.stage = "create" => ~Leaves(j, id)
      /\ j.stage = "post" => Leaves(j, id) \/ j.publish
  BY NextRequest
<1>3. CASE j.stage = "create" /\ r.at # "own"
  <2>1. q = Mounted("own", id, Empty)
    BY <1>2, <1>3 DEF Overtaken, Resumed
  <2> QED
    BY <1>1, <2>1, MountsTo
<1>4. CASE j.stage = "create" /\ r.at = "own"
  <2>1. q = Resumed(r, id)
    BY <1>2, <1>4 DEF Overtaken
  <2>2. /\ q \in TabRow /\ q.at = r.at /\ q.resume = id /\ q.draft = r.draft /\ q.form = r.form /\ ~q.timer
        /\ q.job = r.job /\ q.load.stage = "problem" /\ q.load.text = 0 /\ q.notice = r.notice
        /\ q.told = r.told /\ q.kept = r.kept /\ q.alone = r.alone
    BY <1>1, <1>4, <2>1, ResumedHas
  <2>3. RowOK(q, ds)
    BY <1>1, <2>2 DEF RowOK
  <2> QED
    BY <1>1, <1>4, <2>2, <2>3 DEF TurnsTo, ShowsNew
<1>5. CASE Leaves(j, id)
  <2>1. q = Away
    BY <1>2, <1>5 DEF Overtaken
  <2> QED
    BY <2>1, AwayTurns, AwayHas
<1>6. CASE j.stage # "create" /\ ~Leaves(j, id)
  <2>1. q = r
    BY <1>6 DEF Overtaken
  <2> QED
    BY <1>2, <1>6, <2>1, JobTurns DEF Creates
<1> QED
  BY <1>3, <1>4, <1>5, <1>6

-----------------------------------------------------------------------------
(* A request carried out for one tab, and what it is to the others.        *)

\* A row in view of drafts of which one, id, is another: it says nothing more of that one.
LEMMA RowLater ==
  ASSUME DraftTypes, NEW w \in TabRow, RowOK(w, drafts), NEW id \in 1..MaxDraft, NEW e \in DraftRow, e.state # "none",
         drafts' = [drafts EXCEPT ![id] = e],
         w.alone /\ w.notice => w.told # id,
         w.alone /\ w.job.stage = "put" => w.job.id # id \/ e.text = drafts[id].text
  PROVE  RowOK(w, drafts')
<1>1. \A d \in 1..MaxDraft : drafts'[d] = IF d = id THEN e ELSE drafts[d]
  BY DEF DraftTypes
<1>2. \A d \in DraftId : d # 0 => d \in 1..MaxDraft
  BY DraftAssumption DEF DraftId
<1>3. w.resume \in DraftId /\ w.draft \in DraftId /\ w.told \in DraftId /\ w.job \in Job /\ w.job.id \in DraftId
  BY RowHas, JobHas
<1>4. JobOK(w.job, drafts')
  BY <1>1, <1>2, <1>3 DEF RowOK, JobOK
<1>5. w.alone /\ w.notice => /\ w.told # 0 /\ w.job.stage = "none"
                             /\ drafts'[w.told].text = w.kept.text /\ drafts'[w.told].cases = w.kept.cases
  BY <1>1, <1>2, <1>3 DEF RowOK
<1>6. w.alone /\ w.job.stage = "put" => drafts'[w.job.id].text = w.job.body.text
  <2>1. ASSUME w.alone, w.job.stage = "put" PROVE drafts'[w.job.id].text = drafts[w.job.id].text
    <3>1. w.job.id \in 1..MaxDraft
      BY <1>2, <1>3, <2>1 DEF RowOK, JobOK
    <3> QED
      BY <1>1, <2>1, <3>1
  <2> QED
    BY <2>1 DEF RowOK
<1>7. /\ w.draft # 0 => w.resume # 0 /\ drafts'[w.draft].state # "none"
      /\ w.resume # 0 => drafts'[w.resume].state # "none"
  BY <1>1, <1>2, <1>3 DEF RowOK
<1> QED
  BY <1>4, <1>5, <1>6, <1>7 DEF RowOK

LEMMA JobLater ==
  ASSUME DraftTypes, NEW j \in Job, JobOK(j, drafts), NEW id \in 1..MaxDraft, NEW e, e.state # "none",
         drafts' = [drafts EXCEPT ![id] = e]
  PROVE  JobOK(j, drafts')
<1>1. \A d \in 1..MaxDraft : drafts'[d] = IF d = id THEN e ELSE drafts[d]
  BY DEF DraftTypes
<1>2. j.id # 0 => j.id \in 1..MaxDraft
  BY JobHas, DraftAssumption DEF DraftId
<1> QED
  BY <1>1, <1>2 DEF JobOK

\* Every tab as it is when another handler has written draft id.
IsNoted(g, id) == g = Noted(id, TRUE)

LEMMA NotedHas ==
  ASSUME DraftInv, NEW id, NEW g, IsNoted(g, id), NEW u \in Tab, NEW w, w = g[u]
  PROVE  /\ w \in TabRow /\ w.at = tab[u].at /\ w.resume = tab[u].resume /\ w.draft = tab[u].draft
         /\ w.form = tab[u].form /\ w.job = tab[u].job /\ w.load = tab[u].load
         /\ RowOK(w, drafts)
         /\ w.alone => w.told # id
<1>1. tab[u] \in TabRow /\ RowOK(tab[u], drafts)
  BY TabHas
<1>2. CASE tab[u].told = id
  <2>1. w = [tab[u] EXCEPT !.alone = FALSE]
    BY <1>2 DEF Noted, IsNoted
  <2>2. /\ w \in TabRow /\ w.at = tab[u].at /\ w.resume = tab[u].resume /\ w.draft = tab[u].draft
        /\ w.form = tab[u].form /\ w.job = tab[u].job /\ w.load = tab[u].load /\ ~w.alone /\ w.timer = tab[u].timer
    BY <1>1, <2>1 DEF TabRow
  <2>3. RowOK(w, drafts)
    BY <1>1, <2>2 DEF RowOK
  <2> QED
    BY <2>2, <2>3
<1>3. CASE tab[u].told # id
  <2>1. w = tab[u]
    BY <1>3 DEF Noted, IsNoted
  <2> QED
    BY <1>1, <1>3, <2>1
<1> QED
  BY <1>2, <1>3

LEMMA NotedLater ==
  ASSUME DraftInv, NEW id \in 1..MaxDraft, NEW e \in DraftRow, e.state # "none", drafts' = [drafts EXCEPT ![id] = e],
         NEW g, IsNoted(g, id), NEW u \in Tab, NEW w, w = g[u]
  PROVE  RowOK(w, drafts')
<1>1. w \in TabRow /\ w.job = tab[u].job /\ RowOK(w, drafts) /\ (w.alone => w.told # id)
  BY NotedHas
<1>2. w.alone /\ w.job.stage = "put" => w.job.id # id
  BY <1>1 DEF RowOK
<1> QED
  BY <1>1, <1>2, RowLater DEF DraftInv

LEMMA NotNoted == ASSUME DraftInv, NEW id PROVE Noted(id, FALSE) = tab
  BY DEF Noted, DraftInv, DraftTypes

\* A request that comes of the answer to one of j.
Follows(i, j, ds) ==
  i \in Job /\ i # NoJob /\ JobOK(i, ds) /\ i.stage \in {"put", "publish", "verify"} /\ i.body.text \in {0, j.body.text}

\* The step in three parts.
PutDraft(id, e) == drafts' = [drafts EXCEPT ![id] = e]
PutTab(g, t, q) == tab' = [g EXCEPT ![t] = q]
PutLeft(t, L) == left' = [left EXCEPT ![t] = L]

\* The request of a handler j of tab t is carried out and the tab shows q.
LEMMA CarriedOut ==
  ASSUME DraftInv, NEW t \in Tab, NEW j \in Handlers(t), Admits(j), NEW id, id = About(j),
         NEW e, e = Effect(j), PutDraft(id, e),
         NEW g, IsNoted(g, id), NEW q \in TabRow, PutTab(g, t, q),
         RowOK(q, drafts'), RowOld(q, keys),
         NEW L \in SUBSET Job, PutLeft(t, L),
         \A i \in L \cup HandlerOf(q) : i \in Handlers(t) \/ Follows(i, j, drafts'),
         UNCHANGED <<admin, keys, visits, saves>>, copy' \in {copy, Empty}, loose' \in BOOLEAN, loose => loose',
         ~loose' => /\ TurnsTo(tab[t], q, j, drafts')
                    /\ Creates(j) => copy' = Empty /\ ~(j.stage = "post" /\ j.publish)
  PROVE  DraftInv'
<1> USE DEF PutDraft, PutTab, PutLeft
<1>1. j \in Job /\ j # NoJob /\ j.stage # "none" /\ JobOK(j, drafts) /\ j.body.text <= keys /\ j.body.text \in 0..MaxKeys
  BY HandlerHas, JobHas
<1>2. DraftTypes /\ DraftsKnown /\ TextsOld /\ keys \in 0..MaxKeys
  BY DEF DraftInv, DraftTypes
<1>3. id \in 1..MaxDraft /\ (~Creates(j) => id = j.id)
  BY <1>1, AboutHas
<1>4. /\ e \in DraftRow /\ e.state # "none" /\ e.text # 0
      /\ j.stage \in {"create", "post", "patch"} => e.text = j.body.text
      /\ j.stage \notin {"create", "post", "patch"} => e.text = drafts[id].text
  BY <1>1, <1>2, <1>3, EffectHas
<1>5. \A d \in 1..MaxDraft : drafts'[d] = IF d = id THEN e ELSE drafts[d]
  BY <1>2 DEF DraftTypes
<1>6. /\ tab'[t] = q /\ \A u \in Tab : u # t => tab'[u] = g[u]
      /\ tab' = [u \in Tab |-> tab'[u]]
  BY DEF IsNoted, Noted
<1>7. ASSUME NEW u \in Tab
      PROVE  /\ g[u] \in TabRow /\ g[u].at = tab[u].at /\ g[u].resume = tab[u].resume
             /\ g[u].form = tab[u].form /\ g[u].job = tab[u].job /\ g[u].load = tab[u].load
             /\ RowOK(g[u], drafts')
  <2>1. PICK w : w = g[u]
    OBVIOUS
  <2>2. /\ w \in TabRow /\ w.at = tab[u].at /\ w.resume = tab[u].resume
        /\ w.form = tab[u].form /\ w.job = tab[u].job /\ w.load = tab[u].load
    BY <2>1, NotedHas
  <2>3. RowOK(w, drafts')
    BY <1>3, <1>4, <2>1, NotedLater
  <2> QED
    BY <2>1, <2>2, <2>3
<1>8. left'[t] = L /\ (\A u \in Tab : u # t => left'[u] = left[u]) /\ left' \in [Tab -> SUBSET Job]
  BY <1>2 DEF DraftTypes
<1>9. DraftTypes'
  <2>1. \A u \in Tab : tab'[u] \in TabRow
    BY <1>6, <1>7
  <2>2. tab' \in [Tab -> TabRow]
    BY <1>6, <2>1
  <2>3. drafts' \in [1..MaxDraft -> DraftRow] /\ copy' \in Form
    BY <1>2, <1>3, <1>4, FormHas DEF DraftTypes
  <2> QED
    BY <1>2, <1>8, <2>2, <2>3 DEF DraftTypes
<1>10. DraftsKnown'
  <2>1. \A d \in 1..MaxDraft : drafts'[d].state # "none" => drafts'[d].text # 0
    BY <1>2, <1>4, <1>5 DEF DraftsKnown
  <2>2. \A u \in Tab : RowOK(tab'[u], drafts')
    BY <1>6, <1>7
  <2>3. ASSUME NEW u \in Tab, NEW i \in left'[u] PROVE i # NoJob /\ JobOK(i, drafts')
    <3>1. CASE i \in Handlers(u)
      <4>1. i \in Job /\ i # NoJob /\ JobOK(i, drafts)
        BY <3>1, HandlerHas
      <4> QED
        BY <1>2, <1>3, <1>4, <4>1, JobLater
    <3>2. CASE u = t /\ Follows(i, j, drafts')
      BY <3>2 DEF Follows
    <3> QED
      BY <1>8, <2>3, <3>1, <3>2 DEF Handlers
  <2> QED
    BY <2>1, <2>2, <2>3 DEF DraftsKnown
<1>11. TextsOld'
  <2>1. copy'.text <= keys
    BY <1>2, FormHas DEF TextsOld
  <2>2. \A d \in 1..MaxDraft : drafts'[d].text <= keys
    BY <1>1, <1>2, <1>3, <1>4, <1>5 DEF TextsOld
  <2>3. \A u \in Tab : RowOld(tab'[u], keys)
    BY <1>2, <1>6, <1>7 DEF TextsOld, RowOld
  <2>4. ASSUME NEW u \in Tab, NEW i \in left'[u] PROVE i.body.text <= keys
    <3>1. CASE i \in Handlers(u)
      BY <3>1, HandlerHas
    <3>2. CASE u = t /\ Follows(i, j, drafts')
      BY <1>1, <1>2, <3>2 DEF Follows
    <3> QED
      BY <1>8, <2>4, <3>1, <3>2 DEF Handlers
  <2> QED
    BY <2>1, <2>2, <2>3, <2>4 DEF TextsOld
<1>12. ASSUME ~loose' PROVE TextsApart'
  <2>1. TextsApart /\ TurnsTo(tab[t], q, j, drafts')
    BY <1>12 DEF DraftInv, DraftTypes
  <2>2. q.form \in {Empty, tab[t].form} /\ q.form.text \in {0, tab[t].form.text} /\ q.load.text \in {0, tab[t].load.text}
    BY <2>1, FormHas DEF TurnsTo
  <2>3. IsServed(tab[t].load.text) /\ IsNew(copy.text)
    BY DEF IsServed, IsNew
  <2>4. /\ NewTab(t)' <=> ShowsNew(q)
        /\ NewTab(t) <=> ShowsNew(tab[t])
        /\ \A u \in Tab : u # t => (NewTab(u)' <=> NewTab(u)) /\ Handlers(u)' = Handlers(u)
    BY <1>6, <1>7, <1>8 DEF NewTab, Here, ShowsNew, Handlers, HandlerOf
  <2>5. CASE ~Creates(j)
    <3>1. \A i \in L \cup HandlerOf(q) :
            \/ \E k \in Handlers(t) : k.stage = i.stage /\ k.body = i.body
            \/ ~Creates(i) /\ i.stage # "patch"
      BY DEF Follows, Creates
    <3>2. q.at # "away" /\ q.resume = 0 => NewTab(t) /\ q.form.text \in {0, tab[t].form.text}
      BY <2>1, <2>2, <2>4 DEF TurnsTo, ShowsNew
    <3>3. ~(q.at # "away" /\ q.resume = 0) => q.form.text = 0 \/ IsServed(q.form.text)
      <4>1. ASSUME ~ShowsNew(q) PROVE q.form = Empty \/ ~NewTab(t)
        BY <2>1, <2>4, <2>5, <4>1 DEF TurnsTo, Creates
      <4>2. ~NewTab(t) => IsServed(tab[t].form.text)
        BY DEF IsServed
      <4> QED
        BY <2>2, <4>1, <4>2, FormHas DEF ShowsNew
    <3>4. Keeps(t)
      BY <1>6, <1>8, <2>2, <2>3, <3>1, <3>2, <3>3, KeepsTo
    <3>5. ASSUME NEW u \in Tab, u # t PROVE Keeps(u)
      BY <1>6, <1>7, <1>8, <3>5, KeepsSame
    <3>6. IsServed(e.text)
      <4>1. CASE j.stage = "patch"
        BY <1>4, <4>1 DEF IsServed
      <4>2. CASE j.stage # "patch"
        <5>1. e.text = drafts[id].text /\ drafts[id].state # "none"
          <6>1. j.stage \in {"put", "publish", "verify"}
            BY <1>1, <2>5, <4>2, JobHas DEF Stage, Creates
          <6> QED
            BY <1>1, <1>3, <1>4, <2>5, <6>1 DEF JobOK
        <5> QED
          BY <1>3, <5>1 DEF IsServed
      <4> QED
        BY <4>1, <4>2
    <3>7. \A d \in 1..MaxDraft : drafts'[d].state # "none" => IsServed(drafts'[d].text)
      BY <1>5, <3>6, StoredIsServed
    <3> QED
      BY <2>1, <2>3, <3>4, <3>5, <3>7, AllKeep, FormHas
  <2>6. CASE Creates(j)
    <3>1. copy' = Empty /\ ~ShowsNew(q) /\ ~NewTab(t)'
      BY <1>12, <2>1, <2>4, <2>6 DEF TurnsTo
    <3>2. e.text = j.body.text /\ j.body.text # 0
      BY <1>1, <1>4, <2>6 DEF Creates, JobOK
    <3>3. OneNewTab'
      BY <2>1, <2>4, <3>1 DEF TextsApart, OneNewTab
    <3>4. \A u \in Tab : NewTab(u)' => u # t /\ NewTab(u) /\ tab'[u].form = tab[u].form
      BY <1>6, <1>7, <2>4, <3>1
    <3>5. ASSUME NEW i \in Handlers(t)', Creates(i) PROVE i \in Handlers(t)
      BY <1>6, <1>8, <3>5 DEF Handlers, Follows, Creates
    <3>6. OthersDiffer'
      <4>1. ASSUME NEW v \in Tab, NEW u \in Tab, NEW i \in Handlers(v)', v # u, NewTab(u)', Creates(i)
            PROVE  tab'[u].form.text # i.body.text
        <5>1. i \in Handlers(v)
          BY <2>4, <3>5, <4>1
        <5> QED
          BY <2>1, <3>4, <4>1, <5>1 DEF TextsApart, OthersDiffer
      <4> QED
        BY <4>1 DEF OthersDiffer, Creates
    <3>7. ASSUME NEW n, IsServed(n)', n # 0
          PROVE  IsServed(n) \/ n = j.body.text \/ NewTab(t)
      <4>1. CASE \E d \in 1..MaxDraft : drafts'[d].state # "none" /\ n = drafts'[d].text
        BY <1>5, <3>2, <4>1 DEF IsServed
      <4>2. CASE \E u \in Tab : n = tab'[u].load.text
        BY <1>6, <1>7, <2>2, <3>7, <4>2 DEF IsServed
      <4>3. CASE \E u \in Tab : ~NewTab(u)' /\ n = tab'[u].form.text
        BY <1>6, <1>7, <2>2, <2>4, <3>7, <4>3 DEF IsServed
      <4>4. CASE \E u \in Tab : \E i \in Handlers(u)' : i.stage = "patch" /\ n = i.body.text
        <5>1. PICK u \in Tab : \E i \in Handlers(u)' : i.stage = "patch" /\ n = i.body.text
          BY <4>4
        <5>2. PICK i \in Handlers(u)' : i.stage = "patch" /\ n = i.body.text
          BY <5>1
        <5>3. i \in Handlers(u)
          <6>1. CASE u = t
            BY <1>6, <1>8, <5>2, <6>1 DEF Handlers, Follows
          <6>2. CASE u # t
            BY <2>4, <5>2, <6>2
          <6> QED
            BY <6>1, <6>2
        <5> QED
          BY <5>2, <5>3 DEF IsServed
      <4> QED
        BY <3>7, <4>1, <4>2, <4>3, <4>4 DEF IsServed
    <3>8. ASSUME NEW n, IsNew(n)', IsServed(n)', n # 0 PROVE FALSE
      <4>1. PICK u \in Tab : NewTab(u)' /\ n = tab'[u].form.text
        BY <3>1, <3>8, FormHas DEF IsNew
      <4>2. u # t /\ NewTab(u) /\ n = tab[u].form.text /\ IsNew(n)
        BY <3>4, <4>1 DEF IsNew
      <4>3. ~NewTab(t)
        BY <2>1, <4>2 DEF TextsApart, OneNewTab
      <4>4. n # j.body.text
        BY <2>1, <2>6, <4>2 DEF TextsApart, OthersDiffer
      <4> QED
        BY <2>1, <3>7, <3>8, <4>2, <4>3, <4>4 DEF TextsApart, Apart
    <3> QED
      BY <3>3, <3>6, <3>8 DEF TextsApart, Apart
  <2> QED
    BY <2>5, <2>6
<1> QED
  BY <1>9, <1>10, <1>11, <1>12 DEF DraftInv

\* What is known of the request of a handler that the server has carried out.
LEMMA ServedHas ==
  ASSUME DraftInv, NEW t \in Tab, NEW j \in Handlers(t), Admits(j), NEW id, id = About(j),
         NEW e, e = Effect(j), PutDraft(id, e)
  PROVE  /\ j \in Job /\ j # NoJob /\ JobOK(j, drafts') /\ j.body.text <= keys
         /\ id \in 1..MaxDraft /\ drafts'[id] = e /\ e \in DraftRow /\ e.state # "none"
         /\ ~Creates(j) => id = j.id
         /\ j.stage \in {"create", "patch"} => e.text = j.body.text
         /\ j.stage \in {"create", "put"} => e.cases = j.body.cases
         /\ j.stage = "put" => e.text = drafts[id].text
<1> USE DEF PutDraft
<1>1. j \in Job /\ j # NoJob /\ JobOK(j, drafts) /\ j.body.text <= keys
  BY HandlerHas
<1>2. DraftTypes /\ DraftsKnown
  BY DEF DraftInv
<1>3. id \in 1..MaxDraft /\ (~Creates(j) => id = j.id)
  BY <1>1, AboutHas
<1>4. /\ e \in DraftRow /\ e.state # "none"
      /\ j.stage \in {"create", "patch"} => e.text = j.body.text
      /\ j.stage \in {"create", "put"} => e.cases = j.body.cases
      /\ j.stage = "put" => e.text = drafts[id].text
  BY <1>1, <1>2, <1>3, EffectHas
<1>5. JobOK(j, drafts')
  BY <1>1, <1>2, <1>3, <1>4, JobLater
<1>6. drafts'[id] = e
  BY <1>2, <1>3 DEF DraftTypes
<1> QED
  BY <1>1, <1>3, <1>4, <1>5, <1>6

\* The row that a handler's answer makes of r, and the request that follows.
LEMMA TurnsOld ==
  ASSUME NEW r \in TabRow, RowOld(r, keys), keys \in 0..MaxKeys, NEW q, NEW j \in Job, j.body.text <= keys, NEW ds,
         TurnsTo(r, q, j, ds), q.job \in {NoJob, r.job} \/ q.job.body.text \in {0, j.body.text}
  PROVE  RowOld(q, keys)
  BY FormHas, AwayHas DEF TurnsTo, RowOld

LEMMA FollowsIs ==
  ASSUME NEW j \in Job, j # NoJob, NEW ds, NEW id \in 1..MaxDraft, ds[id].state # "none", ~Creates(j) => id = j.id,
         JobOK(j, ds), NEW i, i = After(j, id), i # NoJob
  PROVE  Follows(i, j, ds)
  BY AfterHas DEF Follows

LEMMA CarryStep == ASSUME DraftInv, NEW t \in Tab, Carry(t) PROVE DraftInv'
<1>1. PICK r, j, id : r = tab[t] /\ j = r.job /\ id = About(j)
  OBVIOUS
<1>2. /\ r \in TabRow /\ RowOK(r, drafts) /\ RowOld(r, keys) /\ keys \in 0..MaxKeys /\ left[t] \in SUBSET Job
      /\ DraftTypes
  BY <1>1, TabHas DEF DraftInv
<1>3. PICK done \in BOOLEAN, heard \in BOOLEAN :
        /\ heard => done
        /\ Serve(j, done)
        /\ tab' = [Noted(id, done) EXCEPT ![t] =
                     IF heard THEN Answered(r, j, id) ELSE [r EXCEPT !.job = NoJob, !.alone = FALSE]]
        /\ copy' = IF heard /\ Forgets(j) THEN Empty ELSE copy
        /\ loose' = (loose \/ Loosens(j, done, heard))
  BY <1>1, Zenon DEF Carry
<1>4. j # NoJob /\ UNCHANGED <<admin, left, keys, visits, saves>>
  BY <1>1 DEF Carry
<1>5. j \in Handlers(t)
  BY <1>1, <1>4 DEF Handlers, HandlerOf
<1>6. j \in Job /\ j.stage # "none" /\ j.body.text <= keys
  BY <1>5, HandlerHas
<1>7. PICK w : w = [r EXCEPT !.job = NoJob, !.alone = FALSE]
  OBVIOUS
<1>8. /\ w \in TabRow /\ w.at = r.at /\ w.resume = r.resume /\ w.draft = r.draft /\ w.form = r.form
      /\ w.timer = r.timer /\ w.job = NoJob /\ w.load = r.load /\ ~w.alone
  BY <1>2, <1>7, AwayHas DEF TabRow
<1>9. HandlerOf(w) = {} /\ RowOld(w, keys)
  BY <1>2, <1>8, AwayHas, FormHas DEF HandlerOf, RowOld
<1>10. loose' \in BOOLEAN /\ (loose => loose')
  BY <1>2, <1>3 DEF DraftTypes, Loosens
<1>11. CASE ~done
  <2>1. drafts' = drafts /\ tab' = [tab EXCEPT ![t] = w] /\ copy' = copy
    BY <1>3, <1>7, <1>11, NotNoted, Zenon DEF Serve
  <2>2. RowOK(w, drafts)
    BY <1>2, <1>8, IdleJob, AwayHas DEF RowOK
  <2>3. ASSUME ~loose' PROVE TextsApart'
    <3>1. TextsApart /\ tab'[t] = w
      BY <1>2, <1>10, <2>1, <2>3 DEF DraftInv, DraftTypes
    <3>2. IsServed(r.load.text) /\ IsNew(copy.text) /\ (~NewTab(t) => IsServed(r.form.text))
      BY <1>1 DEF IsServed, IsNew
    <3>3. \A i \in left'[t] \cup HandlerOf(w) : \E k \in Handlers(t) : k.stage = i.stage /\ k.body = i.body
      BY <1>4, <1>9 DEF Handlers
    <3>4. Keeps(t)
      BY <1>1, <1>8, <3>1, <3>2, <3>3, KeepsTo DEF NewTab, Here
    <3> QED
      BY <1>4, <2>1, <3>1, <3>2, <3>4, OneTabKeeps
  <2>4. /\ visits' \in 0..MaxVisits /\ saves' \in 0..MaxSaves /\ keys' \in 0..MaxKeys /\ keys <= keys'
        /\ copy' \in Form /\ copy'.text <= keys' /\ left' = left /\ left' \in [Tab -> SUBSET Job]
    BY <1>2, <1>4, <2>1, DraftAssumption DEF DraftInv, DraftTypes, TextsOld
  <2> QED
    BY <1>4, <1>8, <1>9, <1>10, <2>1, <2>2, <2>3, <2>4, OneTab
<1>12. CASE done
  <2>1. PICK e, g : e = Effect(j) /\ g = Noted(id, TRUE)
    OBVIOUS
  <2>2. Admits(j) /\ PutDraft(id, e) /\ IsNoted(g, id)
    BY <1>1, <1>3, <1>12, <2>1 DEF Serve, IsNoted, PutDraft
  <2>3. /\ j # NoJob /\ JobOK(j, drafts') /\ id \in 1..MaxDraft /\ drafts'[id] = e
        /\ e \in DraftRow /\ e.state # "none"
        /\ ~Creates(j) => id = j.id
        /\ j.stage \in {"create", "patch"} => e.text = j.body.text
        /\ j.stage \in {"create", "put"} => e.cases = j.body.cases
        /\ j.stage = "put" => e.text = drafts[id].text
    BY <1>1, <1>5, <2>1, <2>2, ServedHas
  <2>4. RowOK(r, drafts')
    <3>1. r.alone /\ r.notice => r.told # id
      BY <1>1, <1>2, <1>6 DEF RowOK
    <3> QED
      BY <1>1, <1>2, <2>2, <2>3, <3>1, RowLater DEF PutDraft
  <2>5. PICK L : L = left[t]
    OBVIOUS
  <2>6. L \in SUBSET Job /\ PutLeft(t, L) /\ (\A i \in L : i \in Handlers(t))
    BY <1>2, <1>4, <2>5 DEF DraftTypes, Handlers, PutLeft
  <2>7. Creates(j) /\ ~loose' => heard /\ ~(j.stage = "post" /\ j.publish)
    BY <1>3, <1>12 DEF Loosens
  <2>8. CASE ~heard
    <3>1. PutTab(g, t, w) /\ copy' = copy
      BY <1>3, <1>7, <1>12, <2>1, <2>8, Zenon DEF PutTab
    <3>2. RowOK(w, drafts')
      BY <1>8, <2>4, IdleJob, AwayHas DEF RowOK
    <3>3. ~loose' => TurnsTo(r, w, j, drafts')
      BY <1>2, <1>8, <2>4, <2>7, <2>8, <3>2, JobTurns
    <3>4. \A i \in L \cup HandlerOf(w) : i \in Handlers(t) \/ Follows(i, j, drafts')
      BY <1>9, <2>6
    <3>5. ~loose' => /\ TurnsTo(tab[t], w, j, drafts')
                     /\ Creates(j) => copy' = Empty /\ ~(j.stage = "post" /\ j.publish)
      BY <1>1, <2>7, <2>8, <3>3
    <3> QED
      BY <1>1, <1>4, <1>5, <1>8, <1>9, <1>10, <2>1, <2>2, <2>6, <3>1, <3>2, <3>4, <3>5, CarriedOut
  <2>9. CASE heard
    <3>1. PICK q : q = Answered(r, j, id)
      OBVIOUS
    <3>2. PutTab(g, t, q) /\ copy' \in {copy, Empty} /\ (Creates(j) => copy' = Empty)
      BY <1>3, <1>12, <2>1, <2>9, <3>1, Zenon DEF Forgets, PutTab
    <3>3. TurnsTo(r, q, j, drafts') /\ q.job \in {NoJob, After(j, id)}
      BY <1>1, <1>2, <2>3, <2>4, <3>1, AnswerHas
    <3>4. q.job # NoJob => Follows(q.job, j, drafts')
      BY <1>6, <2>3, <3>3, FollowsIs
    <3>5. q \in TabRow /\ RowOK(q, drafts')
      BY <3>3 DEF TurnsTo
    <3>6. RowOld(q, keys)
      BY <1>2, <1>6, <3>3, <3>4, TurnsOld DEF Follows
    <3>7. \A i \in L \cup HandlerOf(q) : i \in Handlers(t) \/ Follows(i, j, drafts')
      BY <2>6, <3>4 DEF HandlerOf
    <3>8. ~loose' => /\ TurnsTo(tab[t], q, j, drafts')
                     /\ Creates(j) => copy' = Empty /\ ~(j.stage = "post" /\ j.publish)
      BY <1>1, <2>7, <3>2, <3>3
    <3> QED
      BY <1>1, <1>4, <1>5, <1>10, <2>1, <2>2, <2>6, <3>2, <3>5, <3>6, <3>7, <3>8, CarriedOut
  <2> QED
    BY <2>8, <2>9
<1> QED
  BY <1>11, <1>12

LEMMA CarryOnStep == ASSUME DraftInv, NEW t \in Tab, NEW j \in left[t], CarryOn(t, j) PROVE DraftInv'
<1>1. PICK id : id = About(j)
  OBVIOUS
<1>2a. PICK done \in BOOLEAN, heard \in BOOLEAN :
         LET r == Noted(id, done)[t]
             p == IF heard THEN Overtaken(r, j, id) ELSE r
         IN  /\ heard => done /\ j.goes
             /\ Serve(j, done)
             /\ tab' = [Noted(id, done) EXCEPT ![t] = p]
             /\ left' = [left EXCEPT ![t] = (@ \ {j}) \cup (IF heard THEN {After(j, id)} \ {NoJob} ELSE {})
                                                      \cup (HandlerOf(r) \ HandlerOf(p))]
             /\ copy' = IF heard /\ Forgets(j) THEN Empty ELSE copy
             /\ loose' = (loose \/ Loosens(j, done, heard))
             /\ UNCHANGED <<admin, keys, visits, saves>>
  BY <1>1, Zenon DEF CarryOn
<1>2b. PICK r, p : r = Noted(id, done)[t] /\ p = (IF heard THEN Overtaken(r, j, id) ELSE r)
  OBVIOUS
<1>2. /\ r = Noted(id, done)[t] /\ p = (IF heard THEN Overtaken(r, j, id) ELSE r)
      /\ heard => done /\ j.goes
      /\ Serve(j, done)
      /\ tab' = [Noted(id, done) EXCEPT ![t] = p]
      /\ left' = [left EXCEPT ![t] = (@ \ {j}) \cup (IF heard THEN {After(j, id)} \ {NoJob} ELSE {})
                                               \cup (HandlerOf(r) \ HandlerOf(p))]
      /\ copy' = IF heard /\ Forgets(j) THEN Empty ELSE copy
      /\ loose' = (loose \/ Loosens(j, done, heard))
      /\ UNCHANGED <<admin, keys, visits, saves>>
  BY <1>2a, <1>2b, Zenon
<1>3. DraftTypes /\ keys \in 0..MaxKeys /\ left[t] \in SUBSET Job
  BY DEF DraftInv, DraftTypes
<1>4. j \in Handlers(t)
  BY DEF Handlers
<1>5. j \in Job /\ j # NoJob /\ j.stage # "none" /\ j.body.text <= keys
  BY <1>4, HandlerHas
<1>6. loose' \in BOOLEAN /\ (loose => loose')
  BY <1>2, <1>3 DEF DraftTypes, Loosens
<1>7. PICK L : L = (left[t] \ {j}) \cup (IF heard THEN {After(j, id)} \ {NoJob} ELSE {}) \cup (HandlerOf(r) \ HandlerOf(p))
  OBVIOUS
<1>8. PutLeft(t, L)
  BY <1>2, <1>3, <1>7 DEF DraftTypes, PutLeft
<1>9. CASE ~done
  <2>1. drafts' = drafts /\ r = tab[t] /\ p = tab[t] /\ tab' = tab /\ copy' = copy /\ ~heard
    BY <1>2, <1>3, <1>9, NotNoted DEF Serve, DraftTypes
  <2>2. L = left[t] \ {j}
    BY <1>7, <2>1
  <2>3. /\ left'[t] = L /\ (\A u \in Tab : u # t => left'[u] = left[u]) /\ left' \in [Tab -> SUBSET Job]
    BY <1>3, <1>8, <2>2 DEF PutLeft, DraftTypes
  <2>4. /\ tab[t] \in TabRow /\ RowOK(tab[t], drafts) /\ RowOld(tab[t], keys)
        /\ tab' = [tab EXCEPT ![t] = tab[t]]
    BY <1>3, <2>1, TabHas DEF DraftTypes
  <2>5. ASSUME ~loose' PROVE TextsApart'
    <3>1. TextsApart
      BY <1>3, <1>6, <2>5 DEF DraftInv, DraftTypes
    <3>2. IsServed(tab[t].load.text) /\ IsNew(copy.text) /\ (~NewTab(t) => IsServed(tab[t].form.text))
      BY DEF IsServed, IsNew
    <3>3. \A i \in left'[t] \cup HandlerOf(tab[t]) : \E k \in Handlers(t) : k.stage = i.stage /\ k.body = i.body
      BY <2>2, <2>3 DEF Handlers
    <3>4. Keeps(t)
      BY <2>1, <3>2, <3>3, KeepsTo DEF NewTab, Here
    <3> QED
      BY <2>1, <2>3, <2>4, <3>1, <3>2, <3>4, OneTabKeeps
  <2>6. /\ visits' \in 0..MaxVisits /\ saves' \in 0..MaxSaves /\ keys' \in 0..MaxKeys /\ keys <= keys'
        /\ copy' \in Form /\ copy'.text <= keys' /\ UNCHANGED <<admin, keys>>
    BY <1>2, <1>3, <2>1, DraftAssumption DEF DraftInv, DraftTypes, TextsOld
  <2>7. \A u \in Tab : \A i \in left'[u] : i \in left[u]
    BY <2>2, <2>3
  <2> QED
    BY <1>6, <2>1, <2>3, <2>4, <2>5, <2>6, <2>7, OneTab
<1>10. CASE done
  <2>1. PICK e, g : e = Effect(j) /\ g = Noted(id, TRUE)
    OBVIOUS
  <2>2. Admits(j) /\ PutDraft(id, e) /\ IsNoted(g, id) /\ PutTab(g, t, p) /\ r = g[t]
    BY <1>1, <1>2, <1>10, <2>1 DEF Serve, IsNoted, PutDraft, PutTab
  <2>3. /\ j # NoJob /\ JobOK(j, drafts') /\ id \in 1..MaxDraft /\ drafts'[id] = e
        /\ e \in DraftRow /\ e.state # "none"
        /\ ~Creates(j) => id = j.id
    BY <1>1, <1>4, <2>1, <2>2, ServedHas
  <2>4. /\ r \in TabRow /\ r.at = tab[t].at /\ r.resume = tab[t].resume
        /\ r.form = tab[t].form /\ r.job = tab[t].job /\ r.load = tab[t].load
    BY <2>2, NotedHas
  <2>5. RowOK(r, drafts')
    BY <2>2, <2>3, NotedLater DEF PutDraft
  <2>6. Creates(j) /\ ~loose' => heard /\ ~(j.stage = "post" /\ j.publish)
    BY <1>2, <1>10 DEF Loosens
  <2>7. copy' \in {copy, Empty} /\ (Creates(j) /\ ~loose' => copy' = Empty)
    BY <1>2, <2>6 DEF Forgets
  <2>8. p.job \in {NoJob, r.job} /\ p \in TabRow /\ RowOK(p, drafts') /\ (~loose' => TurnsTo(r, p, j, drafts'))
    <3>1. CASE heard
      <4>1. p = Overtaken(r, j, id)
        BY <1>2, <3>1
      <4>2. TurnsTo(r, p, j, drafts') /\ p.job \in {NoJob, r.job}
        BY <1>5, <2>3, <2>4, <2>5, <4>1, OvertakenHas
      <4> QED
        BY <4>2 DEF TurnsTo
    <3>2. CASE ~heard
      <4>1. p = r
        BY <1>2, <3>2
      <4> QED
        BY <2>4, <2>5, <2>6, <3>2, <4>1, JobTurns
    <3> QED
      BY <3>1, <3>2
  <2>9. heard /\ After(j, id) # NoJob => Follows(After(j, id), j, drafts')
    BY <1>5, <2>3, FollowsIs
  <2>10. HandlerOf(r) = HandlerOf(tab[t]) /\ HandlerOf(p) \subseteq HandlerOf(r)
    BY <2>4, <2>8 DEF HandlerOf
  <2>11. \A i \in L \cup HandlerOf(p) : i \in Handlers(t) \/ Follows(i, j, drafts')
    BY <1>7, <2>9, <2>10 DEF Handlers
  <2>12. L \in SUBSET Job
    BY <2>11, HandlersAre DEF Follows
  <2>13. RowOld(p, keys)
    <3>1. RowOld(tab[t], keys)
      BY TabHas
    <3>2. RowOld(r, keys)
      BY <2>4, <3>1 DEF RowOld
    <3>3. CASE heard
      <4>1. TurnsTo(r, p, j, drafts')
        BY <1>2, <1>5, <2>3, <2>4, <2>5, <3>3, OvertakenHas
      <4> QED
        BY <1>3, <1>5, <2>4, <2>8, <3>2, <4>1, TurnsOld
    <3>4. CASE ~heard
      BY <1>2, <3>2, <3>4
    <3> QED
      BY <3>3, <3>4
  <2>14. ~loose' => /\ TurnsTo(tab[t], p, j, drafts')
                    /\ Creates(j) => copy' = Empty /\ ~(j.stage = "post" /\ j.publish)
    BY <2>4, <2>6, <2>7, <2>8 DEF TurnsTo, ShowsNew
  <2> QED
    BY <1>1, <1>2, <1>4, <1>6, <1>8, <2>1, <2>2, <2>7, <2>8, <2>11, <2>12, <2>13, <2>14, CarriedOut
<1> QED
  BY <1>9, <1>10

LEMMA DraftStep == DraftInv /\ [ProblemDraftNext]_draftVars => DraftInv'
<1> SUFFICES ASSUME DraftInv, [ProblemDraftNext]_draftVars PROVE DraftInv'
  OBVIOUS
<1>1. CASE ProblemDraftNext
  <2>1. PICK t \in Tab :
          \/ Visit(t) \/ Leave(t) \/ Close(t) \/ Discard(t) \/ Key(t) \/ TimerFires(t)
          \/ LoadDraft(t) \/ SaveDraft(t) \/ Submit(t) \/ Carry(t)
          \/ \E j \in left[t] : CarryOn(t, j)
    BY <1>1 DEF ProblemDraftNext
  <2> QED
    BY <2>1, VisitStep, LeaveStep, CloseStep, DiscardStep, KeyStep, TimerFiresStep, LoadDraftStep,
       SaveDraftStep, SubmitStep, CarryStep, CarryOnStep
<1>2. CASE UNCHANGED draftVars
  <2>1. UNCHANGED <<admin, copy, drafts, tab, left, keys, visits, saves, loose>>
    BY <1>2 DEF draftVars
  <2>2. DraftTypes'
    BY <2>1 DEF DraftInv, DraftTypes
  <2>3. DraftsKnown' /\ TextsOld'
    BY <2>1 DEF DraftInv, DraftsKnown, TextsOld
  <2>4. /\ \A u \in Tab : (NewTab(u)' <=> NewTab(u)) /\ Handlers(u)' = Handlers(u)
        /\ loose' = loose
    BY <2>1 DEF NewTab, Here, Handlers, HandlerOf
  <2>5. TextsApart => TextsApart'
    <3>1. OneNewTab => OneNewTab'
      BY <2>4 DEF OneNewTab
    <3>2. OthersDiffer => OthersDiffer'
      BY <2>1, <2>4 DEF OthersDiffer, Creates
    <3>3. (\A n : IsNew(n)' => IsNew(n)) /\ (\A n : IsServed(n)' => IsServed(n))
      BY <2>1, <2>4 DEF IsNew, IsServed
    <3> QED
      BY <3>1, <3>2, <3>3 DEF TextsApart, Apart
  <2> QED
    BY <2>2, <2>3, <2>4, <2>5 DEF DraftInv
<1> QED
  BY <1>1, <1>2

\* Every variable of the tabs, the browser's copy and the drafts keeps its type.
THEOREM DraftsTyped == ProblemDraftSpec => []ProblemDraftTypeOK
<1>1. DraftInv => ProblemDraftTypeOK
  BY DraftTypesAre DEF DraftInv
<1> QED
  BY <1>1, DraftInitial, DraftStep, PTL DEF ProblemDraftSpec

\* For any number of tabs, drafts, openings and presses of the two buttons: where NewProblemPage
\* says "saved" the server has the text and the test cases of one form, until another handler
\* writes that draft, of another tab or of a page left while it saved, whose requests go on;
\* and what the page offers to continue is not stored already, but for what loose names.
THEOREM WhatIsSaidIsSaved == ProblemDraftSpec => []DraftsHold
<1>1. DraftInv => DraftsHold
  <2> SUFFICES ASSUME DraftInv PROVE DraftsHold
    OBVIOUS
  <2>1. SavedMeansStored
    BY TabHas DEF SavedMeansStored, RowOK
  <2>2. ASSUME ~loose PROVE CopyIsUnsaved
    <3>1. ASSUME NEW d \in 1..MaxDraft, drafts[d].state # "none" PROVE copy.text # drafts[d].text
      <4>1. drafts[d].text # 0 /\ Apart
        BY <2>2, <3>1 DEF DraftInv, DraftsKnown, TextsApart
      <4>2. IsNew(copy.text) /\ IsServed(drafts[d].text)
        BY <3>1 DEF IsNew, IsServed
      <4> QED
        BY <4>1, <4>2 DEF Apart
    <3>2. ASSUME NEW d \in 1..MaxDraft, drafts[d].state # "none"
          PROVE  \E f \in {"text", "cases", "only"} : copy[f] # drafts[d][f]
      <4>1. copy["text"] # drafts[d]["text"]
        BY <3>1, <3>2
      <4> QED
        BY <4>1
    <3> QED
      BY <3>2 DEF CopyIsUnsaved
  <2> QED
    BY <2>1, <2>2 DEF DraftsHold
<1> QED
  BY <1>1, DraftInitial, DraftStep, PTL DEF ProblemDraftSpec

-----------------------------------------------------------------------------
(***************************************************************************)
(* The three modules side by side.                                         *)
(***************************************************************************)

\* A behaviour of MCProblemReview is one of each module: what TLC checks of the three together
\* the theorems of each module state for any values of its constants.
THEOREM ProblemsAreEach == ProblemsSpec => Spec /\ ProblemDraftSpec /\ SettingsSpec
<1>1. ProblemsInit => Init /\ ProblemDraftInit /\ SettingsInit
  BY DEF ProblemsInit, ReviewRest, DraftRest, SettingsRest
<1>2. [ProblemsNext]_<<part, vars, draftVars, settingsVars>>
      => [Next]_vars /\ [ProblemDraftNext]_draftVars /\ [SettingsNext]_settingsVars
  BY DEF ProblemsNext
<1> QED
  BY <1>1, <1>2, PTL DEF ProblemsSpec, Spec, ProblemDraftSpec, SettingsSpec

\* All that MCProblemReview runs keeps its types: problems, drafts and settings.
THEOREM ProblemsTyped == ProblemsSpec => []ProblemsTypeOK
<1>1. TypeOK /\ ProblemDraftTypeOK /\ SettingsTypeOK => ProblemsTypeOK
  BY DEF ProblemsTypeOK
<1> QED
  BY <1>1, ProblemsAreEach, TypeCorrect, DraftsTyped, SettingsTyped, PTL

=============================================================================
