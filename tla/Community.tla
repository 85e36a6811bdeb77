----------------------------- MODULE Community ------------------------------
(***************************************************************************)
(* Posts, comments and reports: CommunityService and ReportsService.       *)
(*                                                                         *)
(* resolve() is five statements without a transaction: it reads the report,*)
(* deletes the target, lists the pending reports of that target, closes    *)
(* them, and sends their authors the result.  Other requests run between   *)
(* any two of them, and the process may stop there.                        *)
(***************************************************************************)
EXTENDS Naturals, FiniteSets

CONSTANTS
  Target,    \* posts and comments
  Member,    \* members who report
  Request,   \* requests in progress at the same time
  MaxReports,\* bound: reports filed
  On(_)      \* the rows a target hangs from: the post of a comment, its parent comment

ASSUME CommunityAssumption == MaxReports \in Nat

VARIABLES
  target,    \* "none", "there" or "gone"
  report,    \* the report of a member on a target: "NONE" or its status
  told,      \* the results each member was sent about each target
  work,      \* the requests
  missed,    \* history: reports filed between the listing and the closing of their target,
             \* and those whose authors a request had still to tell when it stopped
  contested  \* history: targets that two requests resolved at the same time

communityVars == <<target, report, told, work, missed, contested>>

Verdict == {"ACTION_TAKEN", "DISMISSED"}
Report == Member \X Target

NoWork == [pc |-> "none"]
Filing == [pc : {"file"}, of : Report]
Resolving == [pc : {"delete", "list", "close", "tell"}, t : Target, verdict : Verdict,
              tell : SUBSET Member]

CommunityTypeOK ==
  /\ target \in [Target -> {"none", "there", "gone"}]
  /\ report \in [Report -> {"NONE", "PENDING"} \cup Verdict]
  /\ told \in [Report -> SUBSET Verdict]
  /\ work \in [Request -> {NoWork} \cup Filing \cup Resolving]
  /\ missed \in SUBSET Report /\ contested \in SUBSET Target

CommunityInit ==
  /\ target = [t \in Target |-> "none"]
  /\ report = [x \in Report |-> "NONE"]
  /\ told = [x \in Report |-> {}]
  /\ work = [r \in Request |-> NoWork]
  /\ missed = {} /\ contested = {}

Goto(r, state) == work' = [work EXCEPT ![r] = state]

-----------------------------------------------------------------------------
(* Posts and comments.                                                     *)

\* createPost(), addComment(): a foreign key refuses a comment on what has gone.
Publish(t) ==
  /\ target[t] = "none" /\ \A u \in On(t) : target[u] = "there"
  /\ target' = [target EXCEPT ![t] = "there"]
  /\ UNCHANGED <<report, told, work, missed, contested>>

\* A deleted row takes with it what hangs from it, however deep.
Under(t) == {t} \cup {u \in Target : t \in On(u)}
Without(t) == [u \in Target |-> IF u \in Under(t) /\ target[u] = "there" THEN "gone" ELSE target[u]]

\* deletePost(), deleteComment(), by its author or an administrator: reports stay.
Withdraw(t) ==
  /\ target[t] = "there"
  /\ target' = Without(t)
  /\ UNCHANGED <<report, told, work, missed, contested>>

-----------------------------------------------------------------------------
(* create(): a report.                                                     *)

Find(r) ==
  /\ work[r] = NoWork
  /\ \E x \in Report : target[x[2]] = "there" /\ Goto(r, [pc |-> "file", of |-> x])
  /\ UNCHANGED <<target, report, told, missed, contested>>

\* The check for a duplicate and the unique key agree: one report per member and target.
File(r) ==
  /\ work[r].pc = "file"
  /\ LET x == work[r].of IN
     IF report[x] # "NONE" THEN UNCHANGED <<report, missed>>
     ELSE /\ Cardinality({y \in Report : report[y] # "NONE"}) < MaxReports
          /\ report' = [report EXCEPT ![x] = "PENDING"]
          /\ missed' = IF \E q \in Request : work[q].pc = "close" /\ work[q].t = x[2]
                     THEN missed \cup {x} ELSE missed
  /\ Goto(r, NoWork)
  /\ UNCHANGED <<target, told, contested>>

-----------------------------------------------------------------------------
(* resolve()                                                               *)

FirstStep(verdict) == IF verdict = "ACTION_TAKEN" THEN "delete" ELSE "list"

\* A report that is still pending; DELETE_TARGET deletes before anything is closed.
Open(r) ==
  /\ work[r] = NoWork
  /\ \E x \in Report, verdict \in Verdict :
       /\ report[x] = "PENDING"
       /\ Goto(r, [pc |-> FirstStep(verdict),
                   t |-> x[2], verdict |-> verdict, tell |-> {}])
       /\ contested' = IF \E q \in Request : work[q].pc \in {"delete", "list", "close"} /\ work[q].t = x[2]
                       THEN contested \cup {x[2]} ELSE contested
  /\ UNCHANGED <<target, report, told, missed>>

Delete(r) ==
  /\ work[r].pc = "delete"
  /\ target' = Without(work[r].t)
  /\ Goto(r, [work[r] EXCEPT !.pc = "list"])
  /\ UNCHANGED <<report, told, missed, contested>>

PendingOn(t) == {m \in Member : report[<<m, t>>] = "PENDING"}

List(r) ==
  /\ work[r].pc = "list"
  /\ Goto(r, [work[r] EXCEPT !.pc = "close", !.tell = PendingOn(work[r].t)])
  /\ UNCHANGED <<target, report, told, missed, contested>>

Closes_Again(x, t) == x[2] = t /\ report[x] # "NONE"

Closes_Under(x, t) == x[2] \in {t} \cup On(t) /\ report[x] = "PENDING"

\* updateMany: where the target is this one and the report still pending.
Closes(x, t) == x[2] = t /\ report[x] = "PENDING"

Close(r) ==
  /\ work[r].pc = "close"
  /\ report' = [x \in Report |-> IF Closes(x, work[r].t) THEN work[r].verdict ELSE report[x]]
  /\ Goto(r, [work[r] EXCEPT !.pc = "tell"])
  /\ UNCHANGED <<target, told, missed, contested>>

Recipients_Filed(r) == {m \in work[r].tell : report[<<m, work[r].t>>] = "PENDING"}

\* One notice to each listed reporter, in any order.
Recipients(r) == work[r].tell

Tell(r) ==
  /\ work[r].pc = "tell"
  /\ IF Recipients(r) = {} THEN Goto(r, NoWork) /\ UNCHANGED told
     ELSE \E m \in Recipients(r) :
            /\ told' = [told EXCEPT ![<<m, work[r].t>>] = @ \cup {work[r].verdict}]
            /\ Goto(r, [work[r] EXCEPT !.tell = @ \ {m}])
  /\ UNCHANGED <<target, report, missed, contested>>

\* The process stops, or a statement fails, between two steps.
Stop(r) ==
  /\ work[r] # NoWork
  /\ missed' = IF work[r].pc = "tell"
               THEN missed \cup {<<m, work[r].t>> : m \in work[r].tell} ELSE missed
  /\ Goto(r, NoWork)
  /\ UNCHANGED <<target, report, told, contested>>

CommunityNext ==
  \/ \E t \in Target : Publish(t) \/ Withdraw(t)
  \/ \E r \in Request : \/ Find(r) \/ File(r) \/ Open(r) \/ Delete(r) \/ List(r)
                        \/ Close(r) \/ Tell(r) \/ Stop(r)

CommunitySpec == CommunityInit /\ [][CommunityNext]_communityVars

-----------------------------------------------------------------------------
(* Properties.                                                             *)

\* A report that says the target was dealt with is about a target that is gone, wherever
\* a resolution stopped and whatever ran beside it.
ActionTakenIsGone == \A x \in Report : report[x] = "ACTION_TAKEN" => target[x[2]] = "gone"

\* resolve() tells every reporter whose report it closes - but for a report filed while
\* it ran between its listing and its closing, and for those it had still to tell when it
\* stopped: these are closed in silence, and no retry reaches them.
ClosedIsTold ==
  \A x \in Report \ missed :
    report[x] \in Verdict
      => \/ told[x] # {}
         \/ \E r \in Request : work[r].pc = "tell" /\ work[r].t = x[2] /\ x[1] \in work[r].tell

\* A reporter reads the result that was recorded, and only that - but for targets that two
\* administrators resolved at the same time, whose reporters may be sent both results.
ToldWhatWasRecorded ==
  \A x \in Report : x[2] \notin contested => \A v \in told[x] : report[x] = v
=============================================================================
